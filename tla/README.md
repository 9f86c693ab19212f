# Verification of the PQC-DTLS 1.3 client firmware

TLA+ models of the repository's own code, the TLC runs that check them and the
TLAPS proofs about them. Paths are relative to the repository (`src/` is its
root).

## The system

A bare-metal RISC-V client (VexRiscv under `litex_sim`, one core, no operating
system) opens a DTLS 1.3 session with a Linux server over a `tap0` bridge,
exchanges one message and idles. wolfSSL and LiteX are vendored; the
repository's own code is the glue between them, and the hard behaviour is in
that glue: an interrupt handler and a main program share a driver written for
one context, a two-slot MAC runs on its own, crypto keeps main busy for seconds,
datagrams are lost, and three time-outs run at once.

| component | state | operations | hard part |
|---|---|---|---|
| RX ring, `src/boot/dtls_io.c:25-70` | `rx_buf`, `rx_len`, `rx_head`, `rx_tail` | `dtls_rx_cb` (ISR), `dtls_recv_cb` (main) | lock-free sharing, full and empty ring, stale cells |
| liteeth driver, `libliteeth/udp.c`, and its interrupt, `dtls_io.c:155-186`, `libbase/isr.c` | slot numbers, `txlen`, `cached_mac`, MAC slots and registers, interrupt enables | `udp_start`, `udp_arp_resolve`, `udp_service`, `udp_send`, `send_packet`, `ethmac_rx_isr`, `dtls_io_enable_irq` | globals used in two contexts, hardware queues, order of enabling, lost ARP |
| clock, `dtls_io.c:96-137` | `timer_last_val`, `timer_wrap_acc`, timer0 | `dtls_timer_init`, `dtls_timer_ticks` | reloads of the counter, a second reader of the latch |
| main program, `src/boot/main.c` | `t_start`, `rtx_mark`, `rd_start`, the phase | boot, handshake loop, exchange, clean-up, idle | retransmission timer against deadline, ignored results |
| wolfSSL's DTLS 1.3 handshake reliability, `src/boot/src/dtls13.c`, `internal.c`, `dtls.c`, `tls13.c` | buffered records and their numbers, seen records, receive window, reassembly list, `dtls_timeout`, `dtls13FastTimeout` | flights, `Dtls13RtxSendBuffered`, `SendDtls13Ack`, `DoDtls13Ack`, `Dtls13RtxMsgRecvd`, `Dtls13RtxTimeout`, the stateless cookie exchange | lost, doubled and reordered records, ACKs of what was dropped or forgotten, two ends answering each other |
| server, `src/host/server_dtls.c` | the socket's peer, one session | peek, connect, accept, read, write, un-connect | a blocked read, a second client |
| ML-DSA benchmark, `src/scripts/run_mldsa_bench.sh` | files made for a number of slots: `soc.h`, `libliteeth.a`, `sim.v`, `Vsim`, `boot.bin`, the RAM image | `set_nrxslots`, `regen_headers`, `build_model`, `run_cell`, the EXIT trap | a `litex_sim` writing the same files meanwhile, left-over files, failing commands, Ctrl-C |
| other test scripts, `src/scripts/` | none of their own | start a simulation, wait for a line, stop it | not modelled |

They interact by calls and shared memory only: the MAC raises the interrupt,
`isr()` calls `ethmac_rx_isr`, that calls `udp_service`, which calls `dtls_rx_cb`
for a datagram or answers an ARP request or a ping itself; main calls wolfSSL,
which calls `dtls_recv_cb` and `dtls_send_cb`; the handshake loop reads the
clock. In the polled build (`DTLS_RX_IRQ` undefined) main calls `udp_service`
from `dtls_io_pump` instead.

What makes each correct: the ring is a FIFO of whole datagrams; the driver
processes each frame once and sends what its caller composed; an interrupt never
finds its handler missing and is always served; the clock is exact; the handshake
loop retransmits until its deadline, keeps the deadline, and main ends; nothing
that was acknowledged in the handshake is missing at the other end, and both ends
complete and fall silent; a row of the benchmark is of the firmware and the model
it names.

## Modules

| module | models | correspondence |
|---|---|---|
| `DgramQueue` | what the ring promises | bounded FIFO; drops only when full, shortens only to the two limits of the code |
| `RxRing` | the ring | one action per access to shared memory; memcpys cell by cell; `cbState` and `recvState` are the two program counters |
| `MCRxRing` | | values for TLC |
| `RxRingProofs` | | theorems |
| `EthDriver`, `EthDriverProofs` | udp.c, the interrupt, boot order and idle loop of main | `pc["main"]` and `pc["isr"]` run the same `udp.c` actions over the same globals; `phase` is the position in `main()` |
| `Uptime`, `UptimeProofs` | the clock | one action for the write of `update_value`, one for the rest of each function; `Tick` is the hardware |
| `Client`, `ClientProofs` | main from set-up to idle | one action per outcome of each wolfSSL call, `Timers` for the code between two calls |
| `Server`, `ServerProofs` | the server's main loop, and of wolfSSL what decides whom a session is with | `sv` is the position in the loop; one action per call, and one per kind of datagram inside `wolfSSL_accept` and `wolfSSL_read`; `sock` is the socket's queue |
| `Flights`, `FlightsProofs` | the DTLS 1.3 handshake of both ends | an end's variables are wolfSSL's (`rtx` is `dtls13Rtx.rtxRecords`, `seen` is `seenRecords`, `expected` is `dtls_expected_peer_handshake_number`); one action per kind of record received, each with everything wolfSSL sends in answer, and one for the time-out; `Before` counts the records ahead of a message in the server's flight, `Pick` is what an ACK leaves of a buffer |
| `BenchHarness`, `BenchHarnessProofs` | `run_mldsa_bench.sh` and the `litex_sim` it starts | `pc`, `g`, `c` are the place in the 2x2 matrix; a file is the number of slots it was made for; `prep` is how far `litex_sim` is in `Builder.build` |

**Data.** A datagram of the ring is a sequence of cells, so that tearing and
stale bytes are visible. In `EthDriver` a frame or packet is only its kind, and
a TX slot's header, payload and length carry the kind of the packet they were
written for: mixing two packets is visible, checksums and addresses are not. The
ring in `EthDriver` is its number of datagrams, which `RxRingProofs` justifies.
In `Server` a datagram is its sender, its kind (one for each flight of a client)
and the session its cookie or keys are of: `wolfSSL_new` draws a fresh cookie
secret (`internal.c:7902-7917`) and the cookie covers the sender's address. A
flight is one datagram there; fragments and partial flights are in `Flights`,
where a record is its epoch, number and fragment (or the set of numbers it
acknowledges) and one record travels per datagram. Its messages are those of this
system: no client certificate and no ticket. In `BenchHarness` a firmware image is
its RX method, the slots compiled into it and the cell that built it.

**Atomicity.** `RxRing` interleaves the two callbacks freely, more than the
firmware can (the ISR runs to completion), so its results hold for both builds.
In `EthDriver` the ISR preempts main between any two steps of udp.c and is itself
not preempted; steps are the reads and writes of shared globals, slots and
registers, except that the slot and length registers are written together, and
`txslot` with the `txbuffer` computed from it. `Uptime` lets the counter run
anywhere. In `Flights` an end handles one record per step, as `ProcessReplyEx`
does; in `BenchHarness` one step of `Builder.build` races one step of the script.

**External parts.** The MAC (two receive and two transmit slots, FIFOs of filled
and started slots, a start ignored when the queue is full, a frame lost when all
slots are full) and the other hosts are modelled from how udp.c uses them and are
marked external in `PROJECT.json`. So are the clients of `Server` and its network,
which loses datagrams; the socket keeps what was queued before `connect()` and
refuses other senders after it. The host's wolfSSL is taken to send no session
tickets (its default): an unacknowledged one would give `wolfSSL_read` a time-out.
The network of `Flights` is a queue in each direction on which records are lost,
doubled or overtaken; ClientHellos stay in order, an assumption
`_Dtls13HandshakeRecv` itself states ("we assume the ClientHello is in order").

**Memory and time in `Flights`.** `DtlsMsgStore` may have no memory for any fragment
it is to keep in its list; the fragment is then lost although its number was noted for
the ACK, and the history variable `dropped` records it. A message has at most four
fragments (the largest of this system has three) and a flight at most 20 messages, so
the other ways in which the list refuses or mistakes a fragment do not arise (below).
The two ends share no clock: the firmware's runs in simulated time and is looked at only
between two calls of `wolfSSL_connect`, one of which takes 41 s in
`evidence/mldsa_B1_sim.log`, while the host's goes on. A timer may therefore fire at any
moment. `upsets` counts the time-outs that come while records are still in flight, with
the faults, and `lead` those one end has in silence before the other has one. An end
that gives up (time-out at its maximum, deadline passed) takes no further step; when
that happens is in `Client` and `Server`.

## Runs

| run | configuration | shows |
|---|---|---|
| `ring` | 3 slots of 2 cells; datagrams of 0 to 3 cells; reads of 1 and 2; 5 calls on each side | `TypeOK`, `SlotOwnership`, `ImplementsQueue` |
| `eth_irq` | interrupt build, 2 receive slots and 1 transmit slot, 2 frames of kinds udp and query, under `FairSpec` | `TypeOK`, `HandlerReady`, `FrameProcessedOnceInSession`, `BootCompletes`, `IsrDrains`, `IsrReturns` |
| `eth_polled` | polled build, 2 + 2 MAC slots, 3 frames of all kinds, 2 ARP requests of 2 polls | `WireIntact`, `FrameProcessedOnceInSession` |
| `eth_irq_tx` | interrupt build, 2 + 2 MAC slots, 1 query | `WireIntact` **violated** |
| `uptime` | counter of 4 values, 14 ticks, gaps up to 3 | `TypeOK`, `ClockExact` |
| `client` | the code's 1, 64 and 120 s, read 1 s, passes up to 2 s, under `FairSpec` | `TypeOK`, `DeadlineKept`, `RetransmitsToTheEnd`, `SilenceRetries`, `Terminates` |
| `server` | 2 clients of 4 handshake datagrams, 3 sessions, 2 time-outs, under `FairSpec` | `TypeOK`, `SessionWithPeer`, `QueueIsPeers`, `AcceptReturns` |
| `server_next` | 1 client of 3 datagrams, 2 sessions, under `FairSpec` | `ServesNext` **violated** |
| `flights` | a server flight of 4 records (one message in two fragments), 3 numbers per record, 4 upsets (2 for a lost, doubled, overtaken or dropped record, 1 for an early time-out), a lead of 4 time-outs, 20 records of the client, under `FairSpec` | `TypeOK`, `AckedIsKept`, `Completes` |
| `flights_storm` | the same with 2 upsets and 8 records of the client | `AckCompletes` **violated** |
| `bench` | the 2x2 matrix from any mixture of left-over files, under `FairSpec` | `TypeOK`, `SameModel`, `RowFresh`, `Finishes` |
| `bench_slots` | the same from one complete earlier build | `RowSlots` **violated** |

**Why the bounds are enough.** Three slots let the ring wrap, fill and be half
full; five calls go round it; datagrams shorter than, equal to and longer than a
slot leave stale cells and are clipped. Two frames put one context in the middle
of a frame while the next arrives; three fill the MAC's two slots and lose one.
Fourteen ticks of a four-value counter are three reloads. The client has the
time-outs of the code; only the read loop's is shortened: it is a plain
deadline, passed or not. Four
datagrams let a client of `Server` complete a handshake with one retransmission;
three sessions let a cookie outlive the session it was made in and come back in
another. One transmit slot in `eth_irq` makes the ISR wait for it as soon as main
has a packet under way; slots are pairs in the hardware, as in the other two runs.
Four upsets lose a record and its retransmission, or a flight and the ACK that
would report it, before and after each change of keys, or one record beside two
time-outs that come too early, or let the server send its flight up to four times more
while the client is still at the first (the recorded pass of 41 s has two or three).
A lead of four lets the timer of one end run out four times in silence, fast and long,
before the other's does. Four records are more than the three numbers a record is known
by. `MaxSent` ends a storm of retransmissions: 20 protected records of the client are
its Finished and the answers to three whole flights sent too early, and `Completes`
names what goes beyond (`Storm`) instead of hiding it. The matrix of
`BenchHarness` is the script's own. Every invariant of the passing runs is proved
for all constants besides (`WireIntact` for the polled build only).

Deadlock checking is off where a bound ends the behaviour (`ring`, `uptime`) or
the program does (`client`; `phase = "halt"` in `EthDriver`; the exit of the
server when `wolfSSL_new` fails; both ends of `Flights` silent after the handshake;
the end of the script).

**Fairness.** `EthDriver`: the MAC sends what was started; the CPU runs the ISR
and the boot code; the answer to an ARP request that is sent again and again is
not lost for ever (strong fairness of `ArpReply`; `main.c:75` repeats the request
without end). Nothing is assumed of main during the session, so `IsrDrains` holds
while it computes. `Client`: calls into wolfSSL return (the socket is
non-blocking, `main.c:116`) and time passes. `Server`: the process runs (no error is
counted on), a time-out of the socket comes when nothing is queued, and a client ends by itself
(the firmware has deadlines); nothing is assumed of the network. `Flights`: the two
ends do not both stop, that is, as long as a record can be read or a timer can fire
something of it happens (`wolfSSL_connect` is called in a loop, `wolfSSL_accept` blocks
with a time-out); which of them, and of which end, is left open up to the bounds on
`upsets` and `lead`. `BenchHarness`: every
command of the script ends or has a time-out in it; nothing is assumed of
`litex_sim`.

## What the violated runs show

1. **`eth_irq_tx`.** `dtls_send_cb` fills the current TX buffer and calls
   `udp_send` with interrupts on. If an ARP request or a ping arrives meanwhile,
   the ISR's `udp_service` writes its reply into the same buffer, sets the same
   `txlen`, sends it and moves `txslot`; main then sends the rest of its packet
   from another slot, or with the reply's length. `dtls_io.c:181-182` says TX "is
   unaffected" by interrupt-driven RX. DTLS recovers by retransmission, since the
   damaged datagram fails authentication or the UDP length check.
2. **`server_next`.** After the handshake `wolfSSL_read` waits without a time-out.
   If the client's single application datagram is lost, or the client stops, the
   server stays there, its socket connected, and never serves "the next client"
   of `server_dtls.c:156`.
3. **`flights_storm`.** wolfSSL remembers the last three record numbers of a
   buffered record and starts the list again when it is full
   (`dtls13.c:1618-1627`). The firmware has no clock for wolfSSL (`NO_ASN_TIME`) and
   so no limit on how often it retransmits: when its Finished is lost and the server
   sends its flight again, each record of it makes the client send its
   Finished once more. With more than three under way, the server's ACKs name
   numbers the client has forgotten; `DoDtls13Ack` finds nothing to remove, does not
   complete ("last client flight was completely acknowledged", `dtls13.c:2815`) and
   retransmits, and the two ends answer each other without end unless further
   records are lost. `wolfSSL_connect` of the firmware is in the handshake loop
   meanwhile, until its deadline.
4. **`bench_slots`.** `regen_headers` kills `litex_sim` when `soc.h` shows the wanted
   number of slots, but `Builder.build` writes `soc.h` first, compiles `libliteeth`
   next and writes `sim.v` last. `build_model` then compiles the `sim.v` of another
   slot count, the firmware links the `libliteeth` of that count too, so the cell
   passes and its row is labelled wrongly. The recorded logs look like it:
   `evidence/mldsa_prep_n2.log` is empty and `evidence/mldsa_prep_n4.log` ends while
   `libbase` is compiled, and `BENCHMARKS.md` finds two cells of different slot
   counts "packet-for-packet identical".

### Seen while modelling, without a run of their own

The first four are stated in the modules; put the definition into the named
configuration to get the trace.

- `FrameProcessedOnce` (`EthDriver`, as a PROPERTY in `EthIrqTx.cfg` with
  `Traffic = {"udp"}` and `MaxFrames = 2`): `main.c:208-209` polls `udp_service` for
  ever after the session with the interrupt still enabled, against
  `dtls_io.c:168-169` ("the main loop must not also poll it"); one frame is
  processed twice, or one is acknowledged unseen.
- `SlotAvailable` (`EthDriver`, as an INVARIANT in `EthPolled.cfg`): `send_packet`
  waits for a transmit slot (`udp.c:155`, "wait buffer to be available") after its
  callers have written the packet; with two packets queued, the third is composed
  over the one being sent.
- `ReadyHolds` (`EthDriver`, as an INVARIANT in `EthIrqTx.cfg`): in the interrupt build
  main has waited for the ready bit of the transmitter (`udp.c:156`), the ISR's reply
  takes the last free slot, and the MAC ignores the start main then writes
  (`udp.c:180`). It is another effect of the race of `eth_irq_tx`.
- `TalksOnlyToPeer` (`Server`, as an INVARIANT in `Server.cfg`): the hello of a second
  client, queued before `connect()`, is read and answered by the first client's
  session, against `server_dtls.c:111-112` ("talks only to this peer"). No session
  comes of it (`SessionWithPeer`), but the cookie is of the wrong session: used in a
  later one, it earns the client a fatal alert.
- The poll cells of the benchmark pass no `DTLS_RX_IRQ` to make, whose default is
  now 1 (`boot/Makefile:45`): all four cells build interrupt firmware.
- Ctrl-C in `regen_headers` leaves the `litex_sim` it started in a session of its
  own running.
- The first time-out after a HelloRetryRequest is swallowed: the request sets
  `dtls13FastTimeout` and nothing may be acknowledged yet. In the other direction, the
  comment of `Dtls13RtxTimeout` ("When the shorter expires we only send ACKs") is not
  what happens when records have been seen: the ACKs are sent, the flag is cleared,
  and the back-off and the retransmission follow at once.
- HelloRetryRequest and ServerHello are sent under the number of the ClientHello
  they answer. If ClientHellos are reordered the two can share a number, and an ACK
  of the first removes the second from the buffer: without the assumption above
  `AckedIsKept` fails.
- A fragment `DtlsMsgStore` has no memory for is "just dropped" (`internal.c:9719`), but
  its number was noted before (`Dtls13RecordRecvd`) and goes into the next ACK. The
  sender takes it out of its buffer and never sends it again: the handshake stalls until
  the deadline. `AckedIsKept` and `Completes` name this exception.
- `DtlsMsgSet` merges a fragment that lies between two others and touches neither (the
  third, when the first and the fifth are there) with the later one, and counts the gap
  between them as received (`internal.c:9606-9655`, `DtlsMsgCombineFragBuckets`); the
  message is then complete with bytes that never came. An eleventh separate piece is
  refused (`internal.c:9616-9619`), again after its number was noted. Both need messages
  of five or more fragments, which this system does not have.

## Proofs

| theorem | assumptions | argument |
|---|---|---|
| `RxRingProofs!TypeCorrect`, `OwnershipSafe` | at least two slots | `IInv` adds to both what each side has copied so far: the producer's cells are in the slot it will publish, the consumer's are a prefix of the slot it reads. Each side writes only its own index, and the full test leaves one slot between them |
| `RxRingProofs!Refinement` | the same | the slots from `rx_tail` to `rx_head` are the queue; only `RxCbPublish`, `RxCbDrop`, `RecvAdvance` and `RecvEmpty` are steps of it, all others stutter because they write no slot in that range |
| `EthDriverProofs!HandlerCorrect` | none | `BootOrder`: what each phase of main can rely on. `IrqUnmask` does not look at the handler; that it is attached by then follows from the phase |
| `EthDriverProofs!OnceCorrect` | at least one receive slot | `OnceInv`: filled slots are consecutive in the MAC's ring and so distinct (`FifoShape`); the ISR is inside `udp_service` only after main has unmasked it, and main, in the session of the interrupt build, never is (`Callers`); hence at most one context is, only the head of the queue has been processed, and only by a context about to acknowledge it (`FramesOnce`) |
| `EthDriverProofs!TypeCorrect` | positive numbers of slots, requests and polls | `Callers` besides: the ISR's `send_packet` returns to `udp_service` and nowhere else |
| `EthDriverProofs!PolledWire` | the polled build | `Composed`: where main is in sending decides what the slot, `txlen` and the registers hold; with one context nothing comes between, and the transmitter found ready still is when it is started (`ReadyHolds`) |
| `UptimeProofs!ClockCorrect`, `TypeCorrect` | the clock is read at least once per period of the counter | the counter's, the latch's and the last value's times of reload (`Epoch`) are equal or one period apart, so it was reloaded exactly if the value went up |
| `ClientProofs!BackoffOutlastsDeadline` | `HANDSHAKE_TIMEOUT_S + DTLS_TIMEOUT_INIT <= 2 * DTLS_TIMEOUT_MAX` (120 + 1 <= 128) | `BackoffPaid`: the time-out has grown by no more than the mark has moved from the start. The error needs the maximum to run out once more, by which time the deadline has passed |
| `ClientProofs!DeadlineCorrect`, `TypeCorrect` | positive deadline | `DeadlineTested`: time beyond the deadline is time since it was last tested |
| `ServerProofs!PeerCorrect`, `QueueCorrect`, `TypeCorrect` | `NoPeer` is no client | `Fence`: a cookie of this session and all that is queued behind it is of the connected client, because what others queued before `connect()` is older than the session's secret (`Past`) |
| `ClientProofs!SilenceCorrect` | `RoomAssumption`: each time-out below the maximum runs out before the deadline even if every retransmission so far was a pass late (in the code, as long as no pass takes more than 11 s: 32 + 31 + 5 * 11 <= 120) | `Silence`: while nothing is heard the time-out is that of `rtx` doublings and the mark is at most the sum of the time-outs and `rtx` passes after the start, so the deadline cannot be found expired before the maximum is reached |
| `FlightsProofs!KeptCorrect`, `TypeCorrect` | `FlightsAssumption`: a server flight of at least two messages, at most 20, whose ServerHello is not cut, up to four fragments of each of the others, at least one number per buffered record | below |
| `BenchHarnessProofs!ModelCorrect`, `FreshCorrect`, `TypeCorrect` | none | `Alone`: outside `regen_headers` no `litex_sim` runs, so nothing but the script writes `Vsim` or the image; `OnThisModel` and `NotYet`: rows of the present group are of the present `Vsim`, and there is none before it is built; `Loaded`: what is about to be loaded was built in this cell, because a failed build leaves the cell |

**Flights.** `AckedIsKept` says that a fragment gone from an end's buffer is kept at
the other, or was dropped there for want of memory (`Settled`). An ACK is only a set of numbers, so the invariant follows each number from
the record sent under it to the ACK that names it:

- `Used`: the numbers an end has given out, and those its peer has seen, will
  acknowledge or is still to receive, are below its counters; the next record is
  therefore under a number nobody has seen.
- `Agree`: a record on its way under a number of a buffered fragment carries that
  fragment. It holds across retransmissions because `Track` files the very numbers
  `Numbered` hands out, in the same order.
- `ClaimedIsKept`: if a number of a buffered fragment is noted for an ACK, or in an ACK
  on its way, the fragment is settled at the peer. Noting the number and keeping the fragment
  that `Agree` says it stands for happen in the handling of one record, whatever branch
  it takes (if `DtlsMsgStore` drops it, it is in `dropped` after that same step); an ACK
  that arrives then removes only fragments that are settled at the other end.
- `Stateless` and `Ordered` cover the exception to `Used`: until it has accepted a
  cookie the server answers under the number of the ClientHello it read, not under its
  own counter. Those answers are HelloRetryRequests, which are not buffered, and their
  numbers are below that of any second ClientHello, since ClientHellos arrive in order;
  the ServerHello starts from the number of the second one.
- `Messages`: an end sends only what the other's progress allows, so that an implied
  acknowledgement (`Dtls13RtxMsgRecvd`) empties the buffer only when the flight in it
  has arrived.

The server's flight is a function of its position and what an ACK leaves of a buffer is
`Pick`, so that the lemmas on both (`FlightShape`, `Picked`, and `Numbering`
for the counting of records by epoch) are about cardinalities of sets of positions and need no
recursion.

`RetransmitsToTheEnd`, `SlotOwnership`, `SessionWithPeer`, `HandlerReady` and
`FrameProcessedOnceInSession` are not inductive alone: the first says nothing of how
the time-out got to its value, the second nothing of the copies under way, the third
nothing of what is still queued, the last two nothing of where main and the ISR are. Nor are `AckedIsKept`,
`SilenceRetries`, `SameModel` and `RowFresh`, for the reasons above.

Only model-checked: liveness under fairness, which is beyond the prover (`BootCompletes`,
`IsrDrains`, `IsrReturns`, `Terminates`, `AcceptReturns`, `Completes`, `Finishes`). The
proofs use each specification without its fairness, so they hold with it too.

## Not modelled

wolfCrypt and the handshake's cryptography, certificate generation, the SoC
generator, the CPU's instruction level, and reordering by the compiler (GCC keeps
the ring's memcpy calls between the volatile accesses). Nearly all lines of the
repository are these: vendored arithmetic, assembly, generators and their data,
without a state machine that this system runs. Of the server, the loading of its
certificate and the pacing of its sends. Of wolfSSL, what this system does not use:
client certificates, tickets, early data, key update, connection ids, DTLS 1.2. Of
the benchmark script, `tap0`, `tcpdump` and the scraping of logs; the other scripts
have no state of their own.

## Plan

Done: the ring, the driver with its interrupt, the clock, main and its timers, the
server, the handshake's flights, the benchmark; every invariant and the refinement that
the passing runs check are proved. `Client` lets each wolfSSL call return any of its
results, so what is proved of it holds with `Flights` behind it; `Server` and `Flights`
share the cookie exchange, once for several clients and once for lost records. Left:

1. An upper bound on the records two ends without the three-number limit exchange,
   which would replace the alternative `Storm` of `Completes`.
2. A second run of the benchmark script beside the `litex_sim` an interrupted first
   run has left behind.
