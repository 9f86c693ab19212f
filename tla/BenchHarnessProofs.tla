------------------------- MODULE BenchHarnessProofs -------------------------
(***************************************************************************)
(* Proofs about BenchHarness: whatever files earlier runs have left and    *)
(* wherever litex_sim, a compilation or the script stops, a row is of the  *)
(* firmware of its cell, and the rows of a group are of one Verilator      *)
(* model.                                                                  *)
(***************************************************************************)
EXTENDS BenchHarness, TLAPS

Files == Slots \cup {0}
Images == Firmware \cup {None}

\* TypeOK with litex_sim's own record spelled out.
Types ==
    /\ pc \in {"set", "regen", "model", "build", "raminit", "launch", "done"}
    /\ g \in 1 .. 3 /\ c \in 1 .. 2
    /\ soc \in Files /\ lib \in Files /\ simv \in Files /\ vsim \in Files
    /\ old \in BOOLEAN /\ simpy \in Slots
    /\ prep \in [at : Off .. Running, n : Files, fw : Images]
    /\ boot \in Images /\ image \in Images

\* The script works on a group only while there is one.
InMatrix == pc \notin {"set", "done"} => g \in 1 .. 2

\* Between two calls of regen_headers no litex_sim runs beside the script, so
\* that nothing rewrites sim.v, Vsim or the RAM image under its feet.
Alone == pc \notin {"regen", "done"} => prep.at = Off

\* There is no row yet of a group whose model is still to be built.
NotYet ==
    \A r \in rows : \A k \in 1 .. 2 :
        k > g \/ (k = g /\ pc \in {"set", "regen", "model"}) => r.n # Groups[k]

\* The rows of the present group were measured on the Vsim that is there now.
OnThisModel ==
    pc \in {"build", "raminit", "launch"} => \A r \in rows : r.n = N => r.model = vsim

\* What is about to be loaded is the firmware of the present cell.
Loaded ==
    /\ pc = "raminit" => boot.cell = <<N, Method>>
    /\ pc = "launch" => image.cell = <<N, Method>>

IInv ==
    /\ Types /\ InMatrix /\ Alone /\ NotYet /\ OnThisModel /\ Loaded
    /\ SameModel /\ RowFresh

-----------------------------------------------------------------------------
(* Facts about the matrix *)

\* The matrix of the script: two groups, of different numbers of slots, and two
\* cells in each.
LEMMA Matrix ==
    /\ Len(Groups) = 2 /\ Len(Methods) = 2 /\ DOMAIN Methods = 1 .. 2
    /\ Groups[1] = 2 /\ Groups[2] = 4
    /\ \A k \in 1 .. 2 : Groups[k] \in Slots
    /\ \A k \in 1 .. 2 : Methods[k] \in {"poll", "irq"}
BY DEF Groups, Methods, Slots

\* Where a cell that is over, or a group that is given up, leaves the script.
LEMMA Moves ==
    ASSUME Types, InMatrix, pc \notin {"set", "done"}, NextGroup \/ NextCell
    PROVE  /\ g' \in 1 .. 3 /\ c' \in 1 .. 2 /\ pc' \in {"set", "build"}
           /\ (pc' = "set" /\ g' = g + 1) \/ (pc' = "build" /\ g' = g)
BY Matrix DEF Types, InMatrix, NextGroup, NextCell

\* What any step of litex_sim leaves alone, and that there is one.
LEMMA PrepFrame ==
    ASSUME Prep
    PROVE  /\ pc' = pc /\ g' = g /\ c' = c /\ simpy' = simpy /\ rows' = rows
           /\ boot' = boot /\ prep.at # Off
BY DEF Prep, PrepHeaders, PrepSoftware, PrepGateware, PrepVerilate, PrepRun, PrepExits, PrepStep,
       script, gateware, Off, Started, Headers, Software, Gateware, Verilating, Running

-----------------------------------------------------------------------------
(* Types *)

\* The initial states satisfy the inductive invariant.
LEMMA InitIInv == Init => IInv
<1> SUFFICES ASSUME Init PROVE IInv
  OBVIOUS
<1>1. Types
  <2>1. boot \in Images /\ image \in Images
    BY DEF Init, LeftOver, Images, Firmware
  <2>2. prep \in [at : Off .. Running, n : Files, fw : Images]
    BY DEF Init, Images, Files, Off, Running
  <2> QED
    BY <2>1, <2>2 DEF Init, Types, Files, Slots, Pristine, Images
<1> QED
  BY <1>1 DEF Init, IInv, InMatrix, Alone, NotYet, OnThisModel, Loaded, SameModel, RowFresh,
              Off

\* A step of litex_sim keeps the types: it writes files for the slots it was
\* started for, and the boot.bin it has read.
LEMMA PrepTypes ==
    ASSUME Types, Prep
    PROVE  Types'
<1>1. prep' \in [at : Off .. Running, n : Files, fw : Images]
  BY DEF Types, Prep, PrepHeaders, PrepSoftware, PrepGateware, PrepVerilate, PrepRun, PrepExits,
         PrepStep, Off, Started, Headers, Software, Gateware, Verilating, Running
<1>2. soc' \in Files /\ lib' \in Files /\ simv' \in Files /\ vsim' \in Files
  BY DEF Types, Files, Prep, PrepHeaders, PrepSoftware, PrepGateware, PrepVerilate, PrepRun,
         PrepExits, PrepStep, gateware
<1>3. old' \in BOOLEAN
  BY DEF Types, Prep, PrepHeaders, PrepSoftware, PrepGateware, PrepVerilate, PrepRun,
         PrepExits, PrepStep, gateware
<1>4. image' \in Images
  BY DEF Types, Prep, PrepHeaders, PrepSoftware, PrepGateware, PrepVerilate, PrepRun,
         PrepExits, PrepStep
<1> QED
  BY <1>1, <1>2, <1>3, <1>4, PrepFrame DEF Types

\* A killed litex_sim is off, and otherwise as it was.
LEMMA Killed ==
    ASSUME prep \in [at : Off .. Running, n : Files, fw : Images]
    PROVE  /\ Kill \in [at : Off .. Running, n : Files, fw : Images]
           /\ Kill.at = Off
BY DEF Kill, Off, Running

\* A step of the script keeps the types, the matrix and its solitude: every way
\* out of regen_headers kills litex_sim.
LEMMA ScriptTypes ==
    ASSUME Types, InMatrix, Alone, Script \/ Interrupt
    PROVE  Types' /\ InMatrix' /\ Alone'
<1> USE DEF Types, InMatrix, Alone
<1>1. CASE SetNrxslots
  <2>1. N \in Slots /\ N \in Files /\ g \in 1 .. 2
    BY <1>1, Matrix DEF SetNrxslots, N, Files
  <2>2. prep' \in [at : Off .. Running, n : Files, fw : Images]
    BY <1>1, <2>1 DEF SetNrxslots, Off, Started, Running
  <2> QED
    BY <1>1, <2>1, <2>2 DEF SetNrxslots, Goto, gateware
<1>2. CASE RegenSees
  BY <1>2, Killed DEF RegenSees, Goto, gateware
<1>3. CASE RegenGivesUp
  <2>1. pc' = "set" /\ g' \in 1 .. 3 /\ c' \in 1 .. 2
    BY <1>3 DEF RegenGivesUp, NextGroup
  <2> QED
    BY <1>3, <2>1, Killed DEF RegenGivesUp, gateware
<1>4. CASE BuildModel
  BY <1>4 DEF BuildModel, Goto
<1>5. CASE BuildModelFails
  <2>1. pc' = "set" /\ g' \in 1 .. 3 /\ c' \in 1 .. 2
    BY <1>5 DEF BuildModelFails, NextGroup
  <2> QED
    BY <1>5, <2>1 DEF BuildModelFails, Files
<1>6. CASE Build
  <2>1. boot' \in Images
    <3>1. g \in 1 .. 2 /\ c \in 1 .. 2 /\ lib \in Slots
      BY <1>6 DEF Build, Goto, Files
    <3>2. <<N, Method>> \in Slots \X {"poll", "irq"}
      BY <3>1, Matrix DEF N, Method
    <3> QED
      BY <1>6, <3>1, <3>2 DEF Build, Images, Firmware, MakeIrq
  <2> QED
    BY <1>6, <2>1 DEF Build, Goto, gateware
<1>7. CASE BuildFails
  <2>1. boot' \in Images
    BY <1>7 DEF BuildFails, Images
  <2> QED
    BY <1>7, <2>1, Moves DEF BuildFails, gateware
<1>8. CASE RamInit
  BY <1>8 DEF RamInit, Goto, gateware
<1>9. CASE CellRefused
  BY <1>9, Moves DEF CellRefused, gateware
<1>10. CASE Launch
  BY <1>10, Moves DEF Launch, gateware
<1>11. CASE Finish \/ Interrupt
  BY <1>11 DEF Finish, Interrupt, Cleanup, gateware, Slots, Pristine
<1> QED
  BY <1>1, <1>2, <1>3, <1>4, <1>5, <1>6, <1>7, <1>8, <1>9, <1>10, <1>11 DEF Script

-----------------------------------------------------------------------------
(* Rows *)

\* A row is added by Launch alone.
LEMMA RowsFrame ==
    ASSUME Script \/ Interrupt, ~Launch
    PROVE  rows' = rows
BY DEF Script, Interrupt, SetNrxslots, RegenSees, RegenGivesUp, BuildModel, BuildModelFails, Build,
       BuildFails, RamInit, CellRefused, Finish

\* Within the cells of a group nothing writes Vsim, and a group whose model is
\* not built yet has no row.
LEMMA ScriptRows ==
    ASSUME IInv, Script \/ Interrupt
    PROVE  NotYet' /\ OnThisModel' /\ SameModel'
<1> USE DEF IInv, NotYet, OnThisModel, SameModel
<1>1. CASE Launch
  <2>1. PICK res \in {"PASS", "PARTIAL", "FAIL"} :
           rows' = rows \cup {[n |-> N, method |-> Method, result |-> res,
                               model |-> vsim, fw |-> image]}
    BY <1>1 DEF Launch
  <2>2. \A r \in rows' : r \in rows \/ (r.n = N /\ r.model = vsim)
    BY <2>1
  <2>3. g \in 1 .. 2 /\ vsim' = vsim /\ pc = "launch"
    BY <1>1 DEF Launch, gateware, Types, InMatrix
  <2>4. (pc' = "set" /\ g' = g + 1) \/ (pc' = "build" /\ g' = g)
    BY <1>1, <2>3, Moves DEF Launch
  <2>5. \A k \in 1 .. 2 : k > g => N # Groups[k]
    BY <2>3, Matrix DEF N
  <2>6. NotYet'
    BY <2>2, <2>3, <2>4, <2>5
  <2>7. OnThisModel'
    BY <2>2, <2>3, <2>4 DEF N
  <2> QED
    BY <2>2, <2>3, <2>6, <2>7
<1>2. CASE ~Launch
  <2>1. rows' = rows
    BY <1>2, RowsFrame
  <2>2. SameModel'
    BY <2>1
  <2>3. CASE SetNrxslots \/ RegenSees
    BY <2>1, <2>2, <2>3 DEF SetNrxslots, RegenSees, Goto, N
  <2>4. CASE RegenGivesUp \/ BuildModelFails
    <3>1. pc' = "set" /\ g' = g + 1 /\ g \in 1 .. 2
      BY <2>4 DEF RegenGivesUp, BuildModelFails, NextGroup, Types, InMatrix
    <3> QED
      BY <2>1, <2>2, <3>1
  <2>5. CASE BuildModel
    <3>1. pc = "model" /\ pc' = "build" /\ g' = g /\ g \in 1 .. 2
      BY <2>5 DEF BuildModel, Goto, Types, InMatrix
    <3>2. \A r \in rows : r.n # N
      BY <3>1 DEF N
    <3> QED
      BY <2>1, <2>2, <3>1, <3>2 DEF N
  <2>6. CASE Build \/ RamInit
    BY <2>1, <2>2, <2>6 DEF Build, RamInit, Goto, gateware, N
  <2>7. CASE BuildFails \/ CellRefused
    <3>1. /\ pc \in {"build", "raminit", "launch"} /\ vsim' = vsim /\ g \in 1 .. 2
          /\ NextCell
      BY <2>7 DEF BuildFails, CellRefused, gateware, Types, InMatrix
    <3>2. (pc' = "set" /\ g' = g + 1) \/ (pc' = "build" /\ g' = g)
      BY <3>1, Moves
    <3> QED
      BY <2>1, <2>2, <3>1, <3>2 DEF N
  <2>8. CASE Finish \/ Interrupt
    BY <2>1, <2>2, <2>8 DEF Finish, Interrupt, Cleanup, Types
  <2> QED
    BY <1>2, <2>3, <2>4, <2>5, <2>6, <2>7, <2>8 DEF Script
<1> QED
  BY <1>1, <1>2

\* The firmware of a cell is built, converted and launched by that cell: a cell
\* whose build or conversion fails is left before it is launched.
LEMMA ScriptFresh ==
    ASSUME IInv, Script \/ Interrupt
    PROVE  Loaded' /\ RowFresh'
<1> USE DEF IInv, Loaded, RowFresh
<1>1. CASE Launch
  <2>1. PICK res \in {"PASS", "PARTIAL", "FAIL"} :
           rows' = rows \cup {[n |-> N, method |-> Method, result |-> res,
                               model |-> vsim, fw |-> image]}
    BY <1>1 DEF Launch
  <2>2. image.cell = <<N, Method>>
    BY <1>1 DEF Launch
  <2>3. RowFresh'
    BY <2>1, <2>2
  <2>4. pc' \in {"set", "build"}
    BY <1>1, Moves DEF Launch
  <2> QED
    BY <2>3, <2>4
<1>2. CASE ~Launch
  <2>1. rows' = rows
    BY <1>2, RowsFrame
  <2>2. CASE Build
    <3>1. boot'.cell = <<N, Method>> /\ pc' = "raminit" /\ UNCHANGED <<g, c>>
      BY <2>2 DEF Build, Goto
    <3> QED
      BY <2>1, <3>1 DEF N, Method
  <2>3. CASE RamInit
    BY <2>1, <2>3 DEF RamInit, Goto, N, Method
  <2>4. CASE ~Build /\ ~RamInit
    <3>1. pc' \notin {"raminit", "launch"}
      BY <1>2, <2>4, Moves DEF Script, Interrupt, SetNrxslots, RegenSees, RegenGivesUp, BuildModel,
         BuildModelFails, BuildFails, CellRefused, Finish, Cleanup, Goto, NextGroup
    <3> QED
      BY <2>1, <3>1
  <2> QED
    BY <2>2, <2>3, <2>4
<1> QED
  BY <1>1, <1>2

\* litex_sim runs in regen_headers or after the script, when what it writes is
\* not measured.
LEMMA PrepStepIInv ==
    ASSUME IInv, Prep
    PROVE  IInv'
<1>1. pc \in {"regen", "done"}
  BY PrepFrame DEF IInv, Alone, Types
<1>2. Types'
  BY PrepTypes DEF IInv
<1>3. SameModel' /\ RowFresh'
  BY PrepFrame DEF IInv, SameModel, RowFresh
<1>4. InMatrix' /\ Alone' /\ NotYet' /\ OnThisModel' /\ Loaded'
  BY <1>1, PrepFrame DEF IInv, InMatrix, Alone, NotYet, OnThisModel, Loaded
<1> QED
  BY <1>2, <1>3, <1>4 DEF IInv

\* Every step of the script, of litex_sim and of the operator keeps the
\* inductive invariant.
LEMMA StepIInv == IInv /\ [Next]_vars => IInv'
<1> SUFFICES ASSUME IInv, [Next]_vars PROVE IInv'
  OBVIOUS
<1>1. CASE Prep
  BY <1>1, PrepStepIInv
<1>2. CASE Script \/ Interrupt
  <2>1. Types' /\ InMatrix' /\ Alone'
    BY <1>2, ScriptTypes DEF IInv
  <2> QED
    BY <1>2, <2>1, ScriptRows, ScriptFresh DEF IInv
<1>3. CASE UNCHANGED vars
  <2>1. Types' /\ InMatrix' /\ Alone'
    BY <1>3 DEF IInv, vars, script, gateware, Types, InMatrix, Alone
  <2>2. NotYet' /\ OnThisModel' /\ Loaded'
    BY <1>3 DEF IInv, vars, script, gateware, NotYet, OnThisModel, Loaded, N, Method
  <2>3. SameModel' /\ RowFresh'
    BY <1>3 DEF IInv, vars, script, SameModel, RowFresh
  <2> QED
    BY <2>1, <2>2, <2>3 DEF IInv
<1> QED
  BY <1>1, <1>2, <1>3 DEF Next

\* The inductive invariant holds throughout.
LEMMA Invariance == Spec => []IInv
BY InitIInv, StepIInv, PTL DEF Spec

-----------------------------------------------------------------------------
(* Theorems *)

\* Types, and that the script stays in its matrix.
THEOREM TypeCorrect == Spec => []TypeOK
<1>1. IInv => TypeOK
  BY Matrix DEF IInv, Types, TypeOK, Files, Images
<1> QED
  BY <1>1, Invariance, PTL

\* The rows of a group are of one Verilator model, although litex_sim rewrites
\* sim.v and Vsim on its own and may still do so when the script has ended.
THEOREM ModelCorrect == Spec => []SameModel
<1>1. IInv => SameModel
  BY DEF IInv
<1> QED
  BY <1>1, Invariance, PTL

\* No row is of a firmware that another cell, or an earlier run, left behind.
THEOREM FreshCorrect == Spec => []RowFresh
<1>1. IInv => RowFresh
  BY DEF IInv
<1> QED
  BY <1>1, Invariance, PTL
=============================================================================
