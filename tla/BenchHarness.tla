---------------------------- MODULE BenchHarness ----------------------------
(***************************************************************************)
(* scripts/run_mldsa_bench.sh: which firmware and which Verilator model    *)
(* each cell of the 2x2 benchmark really runs.  The number of receive      *)
(* slots is compiled into four files, one after the other: soc.h,          *)
(* libliteeth.a (udp.c, linked into the firmware), sim.v and obj_dir/Vsim. *)
(* The first three are written by a litex_sim that runs beside the script  *)
(* and is killed when soc.h is seen to be right.  Each variable below      *)
(* holds the number of slots a file was made for, 0 when there is none;    *)
(* the files of earlier runs are there when the script starts.             *)
(***************************************************************************)
EXTENDS Naturals, Sequences

CONSTANT Clean \* all files are those of one complete, unedited litex_sim

ASSUME BenchAssumption == Clean \in BOOLEAN

VARIABLES
    pc,    \* where the script is
    g, c,  \* group (nrxslots) and cell of the matrix
    simpy, \* nrxslots of litex_sim.py
    soc,   \* build/sim/software/include/generated/soc.h
    lib,   \* build/sim/software/libliteeth/libliteeth.a
    simv,  \* build/sim/gateware/sim.v
    vsim,  \* build/sim/gateware/obj_dir/Vsim ...
    old,   \* ... which is older than sim.v
    prep,  \* the litex_sim of regen_headers: how far it is, for which nrxslots,
           \* and the boot.bin it has read
    boot,  \* boot/boot.bin
    image, \* sim_main_ram.init
    rows   \* evidence/mldsa_bench.csv, with what was really measured

script == <<pc, g, c>>
gateware == <<simv, vsim, old>>
vars == <<script, simpy, soc, lib, gateware, prep, boot, image, rows>>

Groups == <<2, 4>>
Methods == <<"poll", "irq">>
Slots == {2, 4}
Pristine == 2 \* LiteEthMAC's default

N == Groups[g]
Method == Methods[c]

\* A firmware image: the RX method and the slots compiled into it, and the cell
\* it was built in.
NoCell == <<0, "earlier">>
Firmware == [irq : BOOLEAN, slots : Slots, cell : (Slots \X {"poll", "irq"}) \cup {NoCell}]
None == [irq |-> FALSE, slots |-> 0, cell |-> NoCell]

-----------------------------------------------------------------------------
(* litex_sim: off, started, or past one of the steps of Builder.build *)

Off == 0
Started == 1
Headers == 2
Software == 3
Gateware == 4
Verilating == 5
Running == 6

PrepStep(from, to) == prep.at = from /\ prep' = [prep EXCEPT !.at = to]

\* _generate_includes; without boot.bin it does not get here.
PrepHeaders ==
    /\ PrepStep(Started, Headers) /\ prep.fw # None
    /\ soc' = prep.n
    /\ UNCHANGED <<script, simpy, lib, gateware, boot, image, rows>>

\* _generate_rom_software: libliteeth is compiled against the new soc.h.
PrepSoftware ==
    /\ PrepStep(Headers, Software)
    /\ lib' = prep.n
    /\ UNCHANGED <<script, simpy, soc, gateware, boot, image, rows>>

\* SimVerilatorToolchain.build: sim.v, and with it the RAM image
PrepGateware ==
    /\ PrepStep(Software, Gateware)
    /\ simv' = prep.n /\ old' = TRUE
    /\ image' = prep.fw
    /\ UNCHANGED <<script, simpy, soc, lib, vsim, boot, rows>>

\* _compile_sim removes obj_dir first.
PrepVerilate ==
    /\ PrepStep(Gateware, Verilating)
    /\ vsim' = 0
    /\ UNCHANGED <<script, simpy, soc, lib, simv, old, boot, image, rows>>

PrepRun ==
    /\ PrepStep(Verilating, Running)
    /\ vsim' = simv /\ old' = FALSE
    /\ UNCHANGED <<script, simpy, soc, lib, simv, boot, image, rows>>

\* It ends by itself: no boot.bin, or a failed compilation.
PrepExits ==
    /\ prep.at \in Started .. Verilating
    /\ prep' = [prep EXCEPT !.at = Off]
    /\ UNCHANGED <<script, simpy, soc, lib, gateware, boot, image, rows>>

Prep == PrepHeaders \/ PrepSoftware \/ PrepGateware \/ PrepVerilate \/ PrepRun \/ PrepExits

-----------------------------------------------------------------------------
(* The script *)

Goto(from, to) == pc = from /\ pc' = to /\ UNCHANGED <<g, c>>

\* A failed command of the && chain skips the cells of this group.
NextGroup == pc' = "set" /\ g' = g + 1 /\ c' = 1

\* Mutant: the last cell is not recognised.
CellAfter == pc' = "build" /\ c' = c + 1 /\ UNCHANGED g

NextCell ==
    IF c < Len(Methods) THEN pc' = "build" /\ c' = c + 1 /\ UNCHANGED g
    ELSE NextGroup

\* set_nrxslots, and the start of regen_headers
SetNrxslots ==
    /\ g <= Len(Groups) /\ Goto("set", "regen")
    /\ simpy' = N
    /\ prep' = [at |-> Started, n |-> N, fw |-> boot]
    /\ UNCHANGED <<soc, lib, gateware, boot, image, rows>>

\* Mutant: only the shell around litex_sim is killed.
KillShell == prep

\* The whole process group of litex_sim is killed.
Kill == [prep EXCEPT !.at = Off]

\* regen_headers polls soc.h once a second, whoever wrote it.
RegenSees ==
    /\ Goto("regen", "model") /\ soc = N
    /\ prep' = Kill
    /\ UNCHANGED <<simpy, soc, lib, gateware, boot, image, rows>>

\* Mutant: it waits as long as it takes.
RegenWaits ==
    /\ pc = "regen" /\ soc # N /\ prep.at = Running
    /\ NextGroup
    /\ prep' = Kill
    /\ UNCHANGED <<simpy, soc, lib, gateware, boot, image, rows>>

\* litex_sim has exited, or 180 s have passed.
RegenGivesUp ==
    /\ pc = "regen" /\ soc # N
    /\ NextGroup
    /\ prep' = Kill
    /\ UNCHANGED <<simpy, soc, lib, gateware, boot, image, rows>>

\* build_model: build_sim.sh compiles whatever sim.v there is.
BuildModel ==
    /\ Goto("model", "build") /\ simv # 0
    /\ vsim' = simv /\ old' = FALSE
    /\ UNCHANGED <<simpy, soc, lib, simv, prep, boot, image, rows>>

BuildModelFails ==
    /\ pc = "model"
    /\ NextGroup
    /\ vsim' = 0
    /\ UNCHANGED <<simpy, soc, lib, simv, old, prep, boot, image, rows>>

\* The Makefile's DTLS_RX_IRQ defaults to 1, and a poll cell does not set it.
MakeIrq(method) == TRUE

\* Mutant: no make clean, so the objects of the last cell are linked again.
BuildNoClean ==
    /\ Goto("build", "raminit") /\ lib # 0
    /\ boot' = IF boot # None THEN boot
               ELSE [irq |-> MakeIrq(Method), slots |-> lib, cell |-> <<N, Method>>]
    /\ UNCHANGED <<simpy, soc, lib, gateware, prep, image, rows>>

\* make clean && make: everything but the libraries of build/sim/software
Build ==
    /\ Goto("build", "raminit") /\ lib # 0
    /\ boot' = [irq |-> MakeIrq(Method), slots |-> lib, cell |-> <<N, Method>>]
    /\ UNCHANGED <<simpy, soc, lib, gateware, prep, image, rows>>

BuildFails ==
    /\ pc = "build"
    /\ NextCell
    /\ boot' = None
    /\ UNCHANGED <<simpy, soc, lib, gateware, prep, image, rows>>

\* gen_raminit.py
RamInit ==
    /\ Goto("raminit", "launch")
    /\ image' = boot
    /\ UNCHANGED <<simpy, soc, lib, gateware, prep, boot, rows>>

\* The guards before a launch.  That the image is no older than boot.bin always
\* holds here: RamInit has just written it.
Guards == soc = N /\ vsim # 0 /\ ~old

\* gen_raminit.py fails, or a guard refuses the launch.
CellRefused ==
    /\ pc \in {"raminit", "launch"} /\ (pc = "launch" => ~Guards)
    /\ NextCell
    /\ UNCHANGED <<simpy, soc, lib, gateware, prep, boot, image, rows>>

\* Vsim runs, is watched and torn down, and its row is written.  With another
\* number of slots in udp.c than in the MAC nothing is transmitted, ARP is never
\* resolved and the cell is aborted.
Launch ==
    /\ pc = "launch" /\ Guards
    /\ \E result \in {"PASS", "PARTIAL", "FAIL"} :
          /\ image.slots # vsim => result = "FAIL"
          /\ rows' = rows \cup {[n |-> N, method |-> Method, result |-> result,
                                 model |-> vsim, fw |-> image]}
    /\ NextCell
    /\ UNCHANGED <<simpy, soc, lib, gateware, prep, boot, image>>

\* The EXIT trap, which knows nothing of a litex_sim in a session of its own.
Cleanup == pc' = "done" /\ simpy' = Pristine /\ UNCHANGED <<g, c>>

Finish ==
    /\ pc = "set" /\ g > Len(Groups)
    /\ Cleanup
    /\ UNCHANGED <<soc, lib, gateware, prep, boot, image, rows>>

\* The operator stops the script.
Interrupt ==
    /\ pc # "done"
    /\ Cleanup
    /\ UNCHANGED <<soc, lib, gateware, prep, boot, image, rows>>

Script == SetNrxslots \/ RegenSees \/ RegenGivesUp \/ BuildModel \/ BuildModelFails \/ Build
          \/ BuildFails \/ RamInit \/ CellRefused \/ Launch \/ Finish

-----------------------------------------------------------------------------

LeftOver == {None} \cup [irq : BOOLEAN, slots : Slots, cell : {NoCell}]

\* Earlier runs, of this script or of litex_sim, may have left any mixture of
\* files, made in this order, unless Clean.
Init ==
    /\ pc = "set" /\ g = 1 /\ c = 1 /\ rows = {}
    /\ simpy = Pristine
    /\ soc \in Slots \cup {0} /\ lib \in Slots \cup {0}
    /\ simv \in Slots \cup {0} /\ vsim \in Slots \cup {0}
    /\ (soc = 0 => lib = 0) /\ (lib = 0 => simv = 0) /\ (simv = 0 => vsim = 0)
    /\ old \in BOOLEAN /\ (vsim # simv => old)
    /\ prep = [at |-> Off, n |-> 0, fw |-> None]
    /\ (Clean => {soc, lib, simv, vsim} = {Pristine})
    /\ boot \in LeftOver /\ (lib = 0 => boot = None)
    /\ image \in LeftOver /\ (lib = 0 => image = None)

Next == Prep \/ Script \/ Interrupt

Spec == Init /\ [][Next]_vars

\* Every command the script runs ends or is bounded by a time-out of the script.
FairSpec == Spec /\ WF_vars(Script)

-----------------------------------------------------------------------------
(* Properties *)

\* Types; the script is in one of the four cells of its matrix.
TypeOK ==
    /\ pc \in {"set", "regen", "model", "build", "raminit", "launch", "done"}
    /\ g \in 1 .. Len(Groups) + 1 /\ c \in DOMAIN Methods
    /\ {soc, lib, simv, vsim} \subseteq Slots \cup {0} /\ old \in BOOLEAN
    /\ simpy \in Slots /\ prep.at \in Off .. Running
    /\ {boot, image, prep.fw} \subseteq Firmware \cup {None}

\* "only the firmware image changes between the two cells of an N": the two rows
\* of a group were measured on the same Verilator model, although litex_sim
\* rewrites sim.v and Vsim on its own.
SameModel == \A r, s \in rows : r.n = s.n => r.model = s.model

\* Each row is of the firmware built in its cell, never of one left in boot.bin
\* or in sim_main_ram.init by another cell or an earlier run.
RowFresh == \A r \in rows : r.fw.cell = <<r.n, r.method>>

\* The script ends, also when litex_sim, a compilation or a cell fails.
Finishes == <>(pc = "done")

\* "regen_headers already (re)generated sim.v / build_sim.sh / sim_config.js for
\* N": the model a passing row was measured on has the slots the row names.
RowSlots == \A r \in rows : r.result = "PASS" => r.model = r.n
=============================================================================
