# AlveoLink in TLA+

AlveoLink lets user kernels on Alveo cards send packets to each other over
switched 100 Gb/s Ethernet.  Its core is *HiveNet*, a reliable transport in
hardware (`src/network/roce_v2/hw/HiveNet`): an engine keeps every packet in a
ring of HBM slots until the receiver has acknowledged it, sends it again when
the receiver refuses it or says nothing, and the receiver lets packets through
in order.  The promise is at `src/README.md:41`: "lossless and in-order data
transfer over CMAC IP and conventional network switches".

This project models that engine, its receivers and the network between them;
below it the status RAM clock by clock; above it the host driver, the example
application with its kernel and its command line parser.  TLC checks all of them
on small instances.  TLAPS proves, for every size of the ring, every number of
destinations and every number of losses, all safety properties the runs state of
the engine; all those of the driver and of the example application, for every
number of ports, packets and runs; of the status RAM that a read which is not held
up is current, and that no answer or clear reaches a packet of a later round; and of
the parser that up to the first `--` it does what the command line as a whole says.

There is no C++ source of the engine; the Verilog in
`HiveNet/src/ip/*/hdl/verilog` (output of a high level synthesis tool) and the
block design `HiveNet/src/HiveNet_bd_create.tcl` are what was translated.

## 1. Inventory

Paths below are relative to `src/network/roce_v2/hw/HiveNet/src/ip` unless they
begin with `src/`.

| part | state it keeps | operations | talks to |
|---|---|---|---|
| `tx_syncroniceWrites`, the arbiter | none but what it is forwarding; sees `writePSN`, `readPSN` | grant a user packet, grant a retransmission | user kernel, `tx_write`, `tx_checkcurrent_data` |
| `tx_write` | `writePSN`, MSN and reset flag of each destination | number, store, mark, send, reject, discard | arbiter, HBM, status RAM, header builder |
| `tx_checkResponce` | none; sees `writePSN`, `readPSN` | turn an ACK or NAK into a status | receive path, status RAM |
| `tx_timeout` | sleep counter, the header just read | mark the oldest slot late | HBM, status RAM |
| `tx_checkCurrent` | `readPSN` | skip, wait, hand over and clear | status RAM, `tx_checkcurrent_data` |
| `tx_checkcurrent_data` | the request it works on | read a slot back, build its header | HBM, arbiter |
| `tx_dev_mem_managment`, `bram_wrapper.v`, `register_writes` | status RAM (2 bits per slot), write register, bypass | four writers, three readers | all of the above |
| `rx_qp` | MSN expected from each sender | accept, answer again, refuse | headers, user kernel |
| `rx_hdr`, `tx_hdr` | - | parse and build BTH, RETH, AETH | Ethernet |
| `asynchronousWriteToHBM`, `axis_switch.v`, `axi_address_remap.v` | write bursts under way | posted writes of slots | HBM |
| `InputSizeBytes`, `axi_broadcast`, `cut_packet`, `cmac_tkeep_fix`, `eth_stream_switch` | beats of one packet | measure, copy, trim, split streams | neighbours |
| `ip_handler.v`, `max_ip_encode_grovf` | - | Ethernet and IP framing | CMAC, ARP |
| `arp_server_subnet`, `icmp_server` | ARP table | resolve, reply, scan the subnet | Ethernet |
| `register_map` and the address logic of the block design | AXI-Lite registers | read, write, compose IP and MAC address | host |
| `src/network/roce_v2/sw`: HiveNet, KernelCMAC, NetLayer | handles | set up, read back addresses, link status | registers |
| `src/common/sw`: FPGA, KERNEL, IP | `m_bos`, `m_run`, register handle | create, fill, send, set, run, wait, get buffers | XRT, kernels |
| `src/examples/network/roce_v2/generator_collector` | packet and byte counters, error bit; progress of the host program | send, collect, compare; set up, start, wait, judge | HiveNet, driver |
| `.../generator_collector/host/popl.hpp` | options with values, defaults and bound variables; words not used | add, parse, read ini file, set, help | the host program |

How they interact: a packet of a kernel passes the arbiter, gets a PSN (its
slot) and an MSN (its place in the stream of its destination) in `tx_write`, is
written to HBM and sent.  Its answer names the PSN.  `tx_checkResponce` writes
the slot's status, `tx_checkCurrent` walks over acknowledged slots, and hands
refused and late ones to `tx_checkcurrent_data`; they come back to the arbiter
and get a *new* PSN and keep their MSN.  The blocks are pipelines of their own:
each sees the others' cursors through register slices, late.  The host program
parses its options, sets up engines through registers, starts its kernels through
buffers and runs, and waits for them.

What is hard here, and the properties it is about:

* *Stale cursors.*  The arbiter decides with a `writePSN` that does not yet
  count what it granted before; `tx_write` decides with an old `readPSN`.  What
  was granted must still fit, because `tx_write` consumes the header of a packet
  that does not fit and leaves its payload in the stream (`GrantHasRoom`,
  `RingInv`, `InStep`, `NumberedInOrder`).
* *Slots reused while in use.*  A slot handed over counts as free before it was
  read back (`NoOverwrite`, `NothingLost`).
* *Answers out of time.*  An answer may be late, repeated through a
  retransmission, or name a slot that now holds another packet; the late mark of
  `tx_timeout` is written after an HBM read (`AckMeansDelivered`, `AnswerInv`).
* *Loss and reordering.*  Requests and answers get lost and overtake each other
  (`InOrderDelivery`, `StreamInv`, `RefinesChannel`).
* *Progress.*  A full ring must drain, a refused packet must be sent again
  (`EventuallyDelivered`).
* *Wrap around.*  PSNs have 24 bits, slots 20 (`ArithmeticExact`).
* *Four writers of one RAM.*  One write a clock; the mark of a packet may wait
  behind three others while its PSN is announced on another path
  (`MarkedBeforeWalk`, `NewestStays`).  The walk reads a slot in the clock in which
  it is written, through a bypass that compares addresses of two clocks ago
  (`ReadIsCurrent`), and the walk may be held up in between
  (`PassedIsAcknowledged`).
* *Start of a stream.*  The reset flag tells the receiver to forget its counter
  (run `flow_cold`).
* *Registers in two halves.*  The engine uses a 64 bit setting between the two
  writes that make it; addresses are composed twice, by host and engine
  (`TornOnlyAcrossHalves`, `GettersAgree`, `AddressesDistinct`).
* *Buffers around a run.*  Copies are made when the program says so, the kernel
  runs beside it, an index may be used twice or not at all (`InputsArrive`,
  `ResultComplete`).
* *The application.*  The error bit of the collector is the only witness of
  lossless delivery (`ErrorSound`, `NoFalseAlarm`); the host must set up engines
  before kernels, give each generator its partner's id, and read the registers
  only when the kernels are done (`ReadyToSend`, `PassMeansDelivered`,
  `EventuallyPasses`, `WaitsForLinks`).
* *The parser.*  One word taken too many or too few and every later word is read
  in another role; an exception in the middle leaves values and bound variables
  behind (`ParseIsReference`, `IniIsReference`, `VariableFollows`).  After `--`
  nothing may be taken for an option (`OnlyNonOptionsAfterDashes`).

`PROJECT.json` lists the hazards line by line.

## 2. Modules

| module | what it is |
|---|---|
| `Wire` | requests and answers |
| `TxRing` | the six transmit blocks around the ring: one action per operation |
| `RxQp` | the receiver's counter and its three verdicts |
| `HiveFlow` | one engine, the receivers of its destinations, the network; the specifications `Spec`, `ColdSpec`, `AnyStartSpec`, `FairSpec` and the properties |
| `ReliableChannel` | the abstract specification: what the engine promises |
| `HiveFlowInv` | the inductive invariant, in named parts |
| `PsnArith` | the 24 and 20 bit arithmetic of the blocks, operator by operator |
| `HiveFlowWidth` | `HiveFlow`'s cursors looked at through those registers |
| `StatusRam` | the status RAM with its four writers, the walk and the announcement of a PSN, clock by clock |
| `BramWrapper` | the read path of that RAM: two ports with their output registers, the rows of old addresses, the bypass |
| `StatusRead` | `BramWrapper` under any writes and any reader with the walk's cadence |
| `StatusRamRead` | `StatusRam` with `BramWrapper` between the RAM and the walk |
| `HiveNetRegs` | the engine's registers as class HiveNet writes them and as the engine uses them meanwhile |
| `KernelBuffers` | a KERNEL handle: buffers, bound arguments, the run beside the program |
| `HostDriver` | both handles of the driver in one specification |
| `GenColKernel` | the kernel of the example application, generator and collector, over `ReliableChannel` |
| `GenColPair` | one generator and one collector over a channel that may be faulty |
| `GenColHost` | the example's host program with the driver functions it calls, two cards with their kernels |
| `PoplOptions`, `Popl` | popl: options and what a word asks of them; registering, setting and parsing, word by word |
| `PoplReference` | what a parse promises, said of the command line as a whole; its properties |
| `MC...` | what only TLC needs |
| `PsnArithProofs` | the arithmetic is exact |
| `HiveFlowProofs` | types, cursors, room, streams; no slot is overwritten, the registers suffice; answers, acknowledgements, nothing is lost; numbering, and the refinement of `ReliableChannel` |
| `StatusRamProofs` | types and bounds of the status RAM; no write reaches a later round; a read is current |
| `HostDriverProofs` | buffers; registers, torn settings, addresses; the driver as a whole |
| `GenColPairProofs` | the error bit is sound, and raises no false alarm |
| `GenColHostProofs` | the order of the start; a pass means delivered |
| `PoplProofs` | form of the options; a bound variable follows its option, readings agree, help is true of the parser |
| `PoplParseProofs` | every parse of a command line or an ini file is the reference |

### How `TxRing` corresponds to the code

`writePSN`, `msn`, `rst` are the registers and RAMs of `tx_write`; `readPSN` that
of `tx_checkCurrent`; `status` the RAM behind `tx_dev_mem_managment`; `hbm` the
slots; `outToWRITE` and `outData` the two streams from the arbiter to `tx_write`;
`pend` the stream `toRetransmit`; `retrHdr` the read back packets; `tmo` the slot
`tx_timeout` is reading.  `log` (and `delivered` in `RxQp`) are histories.
`wSeen` is `writePSN` as the arbiter, `tx_checkResponce`, `tx_timeout` and
`tx_checkCurrent` see it, `rSeen` is `readPSN` as the others see it.

* A packet is one step, not its beats; the payload is a number, its place in the
  stream of its destination.
* `AnnounceWritePSN` and `PublishReadPSN` may move a view any distance up to the
  register: `tx_write` only announces between packets, slices add delay.
* `TxAcceptUser` and `TxAcceptRetransmit` contain the mark of the slot,
  `HandOver` clears the slot it passes in the same step, and an answer's status
  is written when the answer is taken.  What stands behind this atomicity is
  `StatusRam`.
* `PipeCap` bounds what has been granted and is not announced, `ReadLead` how far
  the walk runs ahead of a slot still to be read.  Both are properties of the
  pipeline (slices in the block design, `ap_start`/`ap_done` of the reader), not
  tests in the code; they are parameters, and `Sized` says what the hard-wired
  limits N-33, N-18, N-17, N-2 ask of them.
* The retransmission count is rebuilt from the status of the slot every time,
  as in the code: it is 1 after a timeout and 0 after a NAK.
* PSNs are natural numbers; `PsnArith` and `HiveFlowWidth` put the width back.
* Time is not modelled: a slot may be found late at any moment.  `early` counts
  the timeouts that come although the answer is still on its way, and `MaxEarly`
  bounds them.
* `OldPacket` fills the slots behind the cursors: their contents can never be
  read, since a slot is read only between being stored and being passed.

In `HiveFlow` the network loses (at most `MaxLoss` messages) and reorders, and
does not copy.  An answer that overtakes the announcement of its PSN fails the
window test of `tx_checkResponce` and is dropped; it counts as lost.
`InitEstablished` is an engine whose every destination has received and
acknowledged one packet; `InitPowerOn` is the engine after reset, and
`InitPowerOnClean` the same with a network that loses nothing.

### How `StatusRam` corresponds to the code

One step is one clock.  Four queues wait at `tx_dev_mem_management`, which serves one
of them in a fixed order.  A queue is a slice of the writer and one of the reader,
and a `regslice_both` keeps two words while it is blocked: four words (`QueueCap`).
The write that is served goes through `register_writes`, one clock, to port A of
the RAM.  `ram` is what the RAM holds, with the packet a status is about as history.

The walk decides and reads in one clock (stage 0) and hands over in the next (stage
1).  A clear that finds no room blocks stage 1.  A packet to be sent again blocks
stage 0 of the next decision until `tx_checkcurrent_data` is done with it
(`toRetransmit`'s TREADY is its `ap_done`): the packet behind is then read and not
decided on, for `HandTime` clocks at least, as that state machine has 22 states a
packet.  Stage 0 would block, too, on a clear left in the walk's own slice; the pace
of the hand overs rules that out.

`announced` and `views` are the rows of register slices the block design puts on the
two cursors.  The walk publishes the cursor as it was before the decision; while it is
blocked `axi_broadcast` holds that value and gives it out every clock, so the rows go
on (`Keep`).  The slices of the receiving blocks may hold an older value only.  An
answer is written if the window test, `AnswerDelay` clocks before, let it through,
which it also does for `psn = readPSN` of an empty view (`InWindow`).

An iteration of `tx_timeout` has 18 stages, which do not overlap, so it marks at most
every `TimerTime` clocks.  Its HBM read may take any time, so the mark itself may come
at any moment after the slot was tested.

`StatusRam`'s walk decides on what the RAM held at the end of the clock of the read
(`Known`).  What the hardware gives it is in `BramWrapper`.  Each port of the RAM has
a latch and an output register.  The rows `writeRow` and `readRow` keep the addresses
of the last two clocks, and `bram_wrapper.v` takes port A's register when the older
ones are equal, port B's otherwise (`Q0`): so a read that collides with a write, for
which port B's answer is undefined, is answered by port A, which gives what it has
written.  Without a write the address of port A is undefined, and it is enabled by a
read alone, so that it moves when port B moves (`Ena`).  `StatusRead` puts any writes
and a reader in front of it, which may be blocked at any clock: as long as it is not,
it gets what the slot held (`ReadIsCurrent`).  When the reader is blocked the registers
stand still and the rows do not; `StatusRamRead` shows what comes of it (finding 5).
It fixes what the design leaves open to what does no harm, the address of an idle
port to a slot of no packet, a collision to the old value.

The RAM (`blk_mem_gen`) and the rows (`c_shift_ram`) are cells of the vendor's
library, of which the repository has the configuration only.  The model takes it at
its word: an output register moves with the enable of its port, as no enable of its
own (REGCE) is configured; a row without CE moves every clock.

`TxRing` and `StatusRam` read what the RAM holds.  For a walk that is never held up
TLC has found `Q0 = Known` in `StatusRamRead` (HandTime 1, no other change of the
instance); for one that is, the difference is the finding, and the results about
the engine are about the engine without it.

Left out: the clocks by which the data stream of a write may lag behind its address
stream.

### How the driver modules correspond to the code

`HiveNetRegs`: a setter of class HiveNet is a sequence of 32 bit register writes
(`pending`); each write is a step, and the engine uses the registers between any
two.  A register keeps the bits it has (`Capacity`); the getters are computed as
`HiveNet.cpp` computes them, the engine's addresses as the adder, the byte
concatenations and the slices of the block design do (`EngineIP`, `EngineMAC`).
`table` is the ARP table as far as the reset register goes.

`KernelBuffers`: `bos` is `m_bos`, `bound` and `active` the arguments of `m_run`
before and at its start.  A buffer has two sides; `ToDevice` and `FromDevice` are
the two syncs.  What ends the program is kept apart from what it catches:
`setMemArg`, `getBO` and `syncBO` of an index without a buffer throw, `sendBO`
dereferences the end of the map and ends the program.  The kernel writes its outputs
one after another while the program goes on.
`stage` and `resent` are histories the properties need.

The two handles share no variable, so `HostDriver` lets a behaviour look at one
of them; `HandlesApart` says that nothing is lost by that.

### How the `GenCol` modules correspond to the code

`GenColKernel` translates `generator.cpp`: one iteration of the packet loop is
one step.  A packet is the record of what its 64 bytes were made from (`id`,
`number`, and the byte counter at its start), and `DataByte` computes a byte of
it as the generator writes it, cut off to 8 bits; `ByteWrong` is the collector's
comparison, byte by byte.  The kernel knows HiveNet only through its streams, so
here HiveNet is its own specification, `ReliableChannel`, whose actions are used
by name: the layers meet at the refinement `ChannelImplemented`.  `Room` makes
the streams finite, so that a generator can be stopped.  The exclusive or is a
parameter, `ExclOr`, of which `XorAssumption` says what the pattern needs; the `MC`
modules give it the bitwise operator, and TLC tests the assumption on it.

`GenColHost` translates `main.cpp`, statement by statement where a statement
touches a register, starts or waits: `phase`, `dev` and `port` are the program
counter.  `InitDevice` stands for `NetLayer::init` with `HiveNet::initCU`,
`ReadStatus` and `CountLinks` for `NetLayer::linksUp` and the loop around it,
`Finish` for `KERNEL::wait`.  A link may come up or go down `MaxFlaps` times at
any moment.  IP and MAC values, the ARP set up and the CMAC's other status bits
are left out.  The option `-s` is taken to be 0 or 1; with any other value all
kernels become collectors and `finish` never returns.

### How the popl modules correspond to the code

A text is a sequence of tokens (a dash, an equals sign, a letter, a number, a
name), which is as much as the parser tells apart.  `PoplOptions` has the option
classes and `Effect`, what one word asks for: parse calls on options, whether the
next word is used up, entries of the two lists of leftovers.  `Popl` has one
action for each form of word and line; `Apply` makes the calls of a word up to
the first that throws, so that what an exception leaves behind is in the state.
`--` is followed by two things in the code: the words after it are entered in the
list of non-option words at once (`popl.hpp:1002`), and the loop goes on and
treats each of them again, options included.  `DashesEffect` has both.  The
documentation (`popl.hpp:358`) and the comment in `parse` (`popl.hpp:1001`) know only
the first, so the reference of a parse ends at the first `--`, and what is promised
from there on is a property of its own, `OnlyNonOptionsAfterDashes`, which the code
violates (finding 4).

The parse calls of a word stand at places: `<<n, m>>` is token m of word n, and
`InOrder` is the order in which the two loops of the code come to them.

`PoplReference` says the same of the whole line at once, without an order of
work: `IsArgument` marks the words that are arguments of the word before,
`PlacesFor` names the places of a word that give an option a text, and
`ReferenceValues` lists what is given at these places in the words so far.  The
lists of unknown and of non-option words are said in the same way.  For an ini
file the section of a line is that of the last section line above it
(`SectionOf`), and `GivesTo` says which option a line is for.

## 3. Runs

All runs use `CHECK_DEADLOCK FALSE`: the kernels send at most `MaxData` packets
per destination, and when all are acknowledged nothing is left to do; programs
end.  The absence of a real deadlock is what `EventuallyDelivered` and
`EventuallyPasses` show.

| run | question | result |
|---|---|---|
| `flow` | two destinations and a lost message, or a power on over a clean network: room, step, numbering, order, nothing forgotten, refinement of `ReliableChannel` | holds |
| `flow_wrap` | N = 2, one destination, five packets, two losses, one early timeout: the ring and its registers go round several times; with fairness, everything is delivered in the end | holds |
| `status_ram` | the status RAM clock by clock: is a mark there before the walk, does no write reach a later round?  Its read path under any writes and stalls: is a read current that was not blocked? | holds |
| `driver` | registers and buffers under every sequence of calls | holds |
| `popl` | command lines, up to a `--`, and ini files of every form: is every parse the reference? | holds |
| `pair_faults` | a collector over a channel that loses, repeats or swaps at most two packets: is its error bit right? | it is, up to a multiple of 256 packets |
| `gencol` | the host program: ids and order of the start, the verdict, the end | holds |
| `flow_cold` | from power on, one answer lost | **violated**, finding 1 |
| `host_links_up` | the host waits until the links are aligned | **violated**, finding 2 |
| `pair_wide_id` | ids of more than a byte: no error without a wrong packet | **violated**, finding 3 |
| `popl_dashes` | after `--` there are only non-option words | **violated**, finding 4 |
| `status_ram_read` | the walk, on the real read path, passes only what was acknowledged | **violated**, finding 5 |

### Bounds, and why they are enough

*`flow`, `flow_wrap`.* The base configuration has N = 5, gates 1 and 2, room 2 and
3, two packets in the pipeline, `ReadLead` 1: these satisfy `Sized` with nothing to
spare, so that every limit is reached. `MaxPSN` is never reached. With MaxData = 5
and N = 2 every slot is used by at least three packets, so an answer meets the next
owner of its slot, and the registers, which repeat after two rounds (`Rounds`),
wrap. Two losses suffice to lose a packet and then its retransmission, or a packet
and the answer to the one after. One early timeout puts two copies of a packet in
flight, the only way to a duplicate. Two destinations interleave two MSN streams in
one ring. The limits are tight: with N = 2 and a `ReadLead` of 2, or with N = 1,
`NothingLost` fails; with room for one packet less in `tx_write`, `GrantHasRoom`
fails. That property is checked in `flow`, where two packets may be granted before
the first is announced, so that the arbiter does grant on a `writePSN` that lags
behind; in `flow_wrap`, with one, it cannot. `flow` also has different gates for
users and retransmissions; in `flow_wrap`, where progress is checked, they are the
same, so the reserve for retransmissions is not exercised for progress. Both runs,
and the proofs below, take a retransmission limit of at least one: `initCU` sets it
to 3, and with a count that never exceeds one every such limit is the same. With a
limit of zero a given up packet restarts its stream while packets of the old
numbering are in the ring, and order is lost; no property here covers that setting.

*`status_ram`.*  N = 3 slots, five packets, one slot of slack, queues of four.
`AnnounceDelay` = 8 is the number of registers the block design has at least on
the way of `writePSN` (a broadcast and slices of eight); with one or two
`MarkedBeforeWalk` fails.  `ViewDelay` = 3 and `AnswerDelay` = 3 are smaller than in
the design, which makes views fresher and the race harder; `HandTime` = 4 and
`TimerTime` = 4 are, too, so that late marks and clears come more often than they
can.  A pace there has to be: were both queues never empty, marks would not be
written at all while the announcement goes its way.  About 570 thousand states.  The
read path, looked at beside them (`MCStatusRam`), has three slots - the one read, the
one written, the one an idle port points at - and two values, which is enough to tell
the right register from a wrong one, and starts with any content of its registers:
another 72 thousand.

*`status_ram_read`.*  The design's paces, 22 and 18 clocks, and two packets:
the one handed over and the one behind it.

*`driver`.*  A byte of two values, so a register has 16 and a half of one four:
the settings are chosen to share a half, to differ in both, to carry in the
address adder, to have low bits in the subnet, and not to fit.  Four calls set two
ports apart and set one again.  Two buffers, two fillings and two runs are enough
for an index used twice, a buffer sent again, and a run started with old
arguments.

*`popl`.*  Six options: every kind, an inactive and a required one, two that clash
with the first.  Two calls of the program, parses or settings; every word after each of
five leading words.

*`GenCol`.*  A packet has a part of the bytes of a round of `byte_counter`: a quarter
in `gencol`, as 64 is of 256, half of them in `pair_faults`, 4 of 8, the smallest
numbers that divide each other as 64 and 256 do (`PatternAssumption`: the first
divides the second, the second the square of the first).  `pair_faults`
sends ten packets over a range of 8, so packets that are alike (eight apart)
occur, and ids at both ends of the range; with two faults a packet can be lost and
another repeated, so that the number of packets is right again.  `ErrorSound` says what the pattern can tell: a packet a multiple of the range away looks the same,
and so would one from a wrong engine whose id is alike.  `gencol` has two cards
with two ports each, as the program has.

The mutants in `PROJECT.json` show that each property can fail inside these
bounds: a gate left open, the wait for the reader dropped, a gap or a repetition
let through, a retransmission renumbered, a port that does not move with the other, a
half written to the wrong offset, a word parsed twice.

### Fairness

`FairSpec` has weak fairness on each block: they are pipelines that are always
clocked, and a step that stays possible is taken.  The network delivers what it
does not lose.  A packet whose answer can no longer come is found late
(`SampleTimeout /\ TimeoutDue`): the timer runs on.  There is no fairness on
`SyncUser` (no kernel has to send), none on losing, and none on early timeouts.
Liveness therefore holds because losses are bounded; with unbounded loss no
transport delivers.

`SysFairSpec` assumes that the host's thread goes on, and that while some kernel
or HiveNet can go on, one does.  The second is weak fairness of the disjunction
only: kernels are clocked and independent, but nothing more is needed.

## 4. Findings

1. `flow_cold`.  The reset flag is stored with the first packet of a stream and
   sent again with its retransmission; `rx_qp` accepts a flagged packet whatever
   its counter says and sets the counter back.  If only the ACK of the first
   packet is lost, the packet is delivered twice, and what follows can be, too.
   The promise is in-order transfer without loss or repetition.
2. `host_links_up`.  `NetLayer::linksUp` looks whether the status map has the key
   `rx_aligned`; `KernelCMAC::linkStatus` always inserts it.  The wait for the
   link ends at once, aligned or not.
3. `pair_wide_id`.  The generator writes the low 8 bits of the 13 bit id into each
   byte; the collector compares a byte with the whole id.  With an id of 256 or
   more, which HiveNet allows (`HiveNet.hpp:53`), every correct packet is counted
   as an error.
4. `popl_dashes`.  `popl.hpp:358` gives `-i 5 -- from here non option args` as five
   non-option words, and the comment at `popl.hpp:1001` says "from here on only non
   opt args".  The words after `--` are listed, but the loop goes on with them: each
   is listed a second time, or sets an option if it begins with a dash.
5. `status_ram_read`.  A packet is refused and handed over; the walk reads the packet
   behind and is then blocked for the time of the hand over.  Its read port is not
   enabled meanwhile, and port A only by writes: the output registers stand still,
   while the rows of addresses go on.  Port A's last write is the clear of the packet
   handed over, 0.  If the packet behind is refused as well, and that is written
   exactly two clocks before the walk goes on, the rows are equal, the bypass takes
   port A's register, which still lags a write behind, and the walk passes the refused
   packet as acknowledged.  It is never sent again; the promise is lossless transfer.
   The trace needs an answer to arrive within one clock, and what the library's cells
   do (above), so a test would hardly meet it.

Smaller disagreements, without a run: `pack.tcl:63` describes the register
`nRetransmissions` as the number of retransmissions before an error, but the count in
the header is never accumulated (`tx_checkcurrent_data.v:5426`), so a limit above zero
is never exceeded and a packet is sent again without end; `HiveNet.hpp:99` says of
`resetARPTable` that it resets the table and `pack.tcl:73` that the register is active
low, but the write of the active level is commented out (`HiveNet.cpp:75`) and the
table keeps what it learned; the example's `README.md:36` says that the
pattern holds the id of the engine the generator is attached to, while the host
passes the id of the destination (`main.cpp:115`), which the collector expects;
`HiveNet.hpp:93` gives the default UDP port as 4971, the code writes 0x12b7, which
is 4791; `HiveNet.hpp:53` allows an id of 8192, which the 13 bits of the engine
make 0.  The models follow the code.

## 5. Proofs

Checked by TLAPS for every value of the constants. `Sized` says what the limits of
the arbiter and of `tx_write` must leave free; `Paced` that the status RAM's writers
have paces of four clocks and a ring longer than their queues; `SettingsFit` that
the high half of a 64 bit setting fits its register (48 bits for a MAC subnet);
`Ids` are the ids of the kernels and `ByteRange` the number of values of a byte.

| theorem | says | assumes |
|---|---|---|
| `TypeCorrect` | `Spec => []TypeOK` | - |
| `RingBounded` | `Spec => [](TypeOK /\ RingInv)` | `Sized` |
| `GrantsHaveRoom` | `Spec => []GrantHasRoom` | `Sized` |
| `SlotsNotOverwritten` | `Spec => NoOverwrite` | `Sized` |
| `RegistersExact` | `Spec => []ArithmeticExact` | `Sized` |
| `DeliveryInOrder` | `Spec => []InOrderDelivery` | `Sized`, `MaxRetr >= 1` |
| `InvariantHolds` | `Spec => []IInv` | the same |
| `HeadersMeetPayloads`, `StreamsAgree`, `AnswersAreTrue` | `InStep`, `StreamInv`, `AnswerInv` | the same |
| `AcksAreTrue` | `Spec => []AckMeansDelivered` | the same |
| `NoPacketLost` | `Spec => []NothingLost` | the same |
| `NumbersFollowKernel` | `Spec => []NumberedInOrder` | the same |
| `ChannelImplemented` | `Spec => RefinesChannel` | the same |
| `DistanceExact`, `WindowExact` | the arithmetic on wrapped PSNs is exact for cursors less than a round apart | - |
| `StatusTyped` | `StatusSpec => []StatusTypeOK` | - |
| `ReadsAreCurrent` | `ReadSpec => []ReadIsCurrent` | - |
| `NewestWins` | `StatusSpec => []NewestStays` | `Paced` |
| `BuffersTyped`, `InputsReachRun`, `ResultsComeBack` | `BuffersSpec => []BuffersTypeOK`, `[]InputsArrive`, `[]ResultComplete` | - |
| `RegistersTyped`, `SettingsTorn`, `AddressesAgree` | `DriverSpec => []RegsTypeOK`, `[]TornOnlyAcrossHalves`, `[]GettersAgree` | `SettingsFit` |
| `PortsDistinct` | `DriverSpec => []AddressesDistinct` | `SettingsFit` |
| `HandlesApart` | `DriverSpec => RegsSpec /\ BuffersSpec` | - |
| `PairTyped`, `NoErrorMeansInPlace` | `PairSpec => []PairTypeOK`, `[]ErrorSound` | - |
| `ErrorMeansOutOfPlace` | `PairSpec => []NoFalseAlarm` | `Ids` below `ByteRange`, which `pair_wide_id` shows it needs |
| `HostTyped`, `GeneratorsAreExpected`, `PassIsTrue` | `SysSpec => []HostTypeOK`, `[]ReadyToSend`, `[]PassMeansDelivered` | - |
| `OptionsTyped`, `VariablesFollow` | `Spec => []PoplTypeOK`, `[]VariableFollows` (popl) | - |
| `ReadingsAgree` | `Spec => []AccessorsAgree` (popl) | - |
| `CommandParsed`, `IniParsed` | `Spec => []ParseIsReference`, `[]IniIsReference` (popl) | - |
| `HelpIsTrue` | `Spec => []HelpIsParsable` (popl) | no option of the catalogue has a dash as short name |

### The argument for the engine

`GrantHasRoom` is not inductive: whether the head of the queue fits depends on
what the arbiter knew when it granted it.  `GrantsFit` says it for every header
in the queue at once: the i-th will get the PSN `writePSN + i - 1`, and that is at
most `PipeCap - 1` beyond the gate it passed, because what is granted and not yet
announced is bounded by `PipeCap` and `rSeen` only moves up.  With
`CursorsOrdered`, `WindowFits` and `PendingClose` this is `RingInv`.  From it
follow room at `tx_write`, a free slot under `writePSN` (the oldest PSN in use is
at most `RetrGate + PipeCap + ReadLead - 1` behind), and cursors less than one
round apart, which is what the wrapped comparisons need.

Room means that no header is rejected, so headers and payloads stay in step
(`InStep`).  Then every copy of a packet - on the wire, in a live slot, read
back, or waiting for `tx_write` - carries the payload its MSN was given for
(`CopiesAgree`): a slot in use keeps its packet, because the write goes to a free
slot.  Counters follow the histories (`CountersFollow`; no packet is given up
when the limit is at least one, since the count never exceeds one).  So what
`rx_qp` accepts is the next payload of the log: `StreamInv`.

`AnswerInv` speaks of the answers: a request in the network whose PSN is still in
use is the packet in that slot; a positive answer whose PSN is in use, and a slot
marked acknowledged, are about a packet that has arrived.  It is inductive given
`StreamInv`, because having arrived is stable and a slot in use is not
overwritten.  So the walk never passes a packet that has not arrived, and an
undelivered packet is in a slot in use, handed over, read back or in front of
`tx_write`: `NothingLost` moves along with it from each of these places to the
next.

For the refinement, what a kernel has handed in but the abstract channel has not
delivered must be a queue: `NumberedInOrder` says that the payloads taken are
numbered in the order they were taken, the first ones in the log and the others
in front of `tx_write`.  With it, `DeliveryInOrder` and `CountersFollow`, each step
of `HiveFlow` takes the next payload of one destination, delivers the next one, or
changes nothing the users see.

### The argument for the driver

*Buffers.*  `InputsArrive` needs that no two arguments share a buffer by way of
the map or a pointer (`BuffersApart`; only `setMemArg` with two arguments makes
runs share one), that a filling is where `stage` says it is (`FillingThere`), and
that a run that has just begun has the arguments bound before it.
`ResultComplete` needs that what the kernel has written stays on the device until
the program sends that buffer (`OutputThere`).

*Registers.*  The writes still to be made of a wide setting are its two halves in
order (`Writes`), and a half in a register is the new one once its write is made
(`Halves`).  The MAC address then is an identity of division, the IP address one of
byte order.  For `AddressesDistinct` the id register must hold what the last
`setLocalID` asked for, unless its write still waits (`IdKept`): a write of another
offset leaves it alone.  The engine's MAC address then keeps the id in its low bits
(`SwapApart`: two ids below 2^13 are two after the byte swap), and the IP address is
a sum whose carry out is dropped, of one subnet and two numbers less than one round
apart.

### The argument for the status RAM

`StatusInv` says that the rows of registers never fall from one register to the
next, the walk's cursor lies between the oldest view of it and the oldest
announcement, and no queue, register or cell holds a write about a packet that was
not accepted.

`NewestStays` is about time.  A clear or an answer about packet `q` that enters its
queue finds nothing newer in its slot, since `tx_write` is at most a round ahead of
the views the walk and the window test had (`RoomOK`, and `RateOK` for how much the
views differ).  While it waits it is overtaken by late marks, and an answer by
clears as well.  `InTime` weighs what is left to do against the lead of the walk:
four units for each write served before it, the clocks the two prior writers still
owe (`Owed`), and two for each half step of the walk.  In a clock one write is
served, which takes four off; each prior writer adds four at most every four clocks,
so one each clock on average, and the walk adds two.  The sum does not grow, so the
walk is less than a round further than `q` when `q` is written, and the packets a
late mark or a clear can be about with it (`NoneAfterNear`): no mark of the next
round is before it either, as marks are the last to be served.

`Paced` asks for at least four clocks from one hand over to the next and from one
late mark to the next (the design has 22 and 18), a slack that covers the time from
the window test to the write, and a ring of about three times the queues plus half
the views; the design's has 2^20 slots.  It is sufficient, not necessary: the ring
of `status_ram` is shorter, and TLC finds `NewestStays` true there too.

`MarkedBeforeWalk` is a race between the mark, the last of the four to be served, and
the announcement of its packet.  It is model-checked only.  How many registers the
announcement needs depends on how long the queues get; with queues of four words and
the worst pace of the prior writers a count that adds up all of them asks for more
registers than the design has, although TLC finds no mark late.

`ReadIsCurrent` is about the two rows and the two registers of each port.  Between the
clocks of a read the row of reads ends in the slot, and the slot's content is in the
latch the comparison of the newer addresses points at (`ReadUnderWay`): in port A's if
port A had that address, since a write goes through its latch and without one the latch
reads the slot, and in port B's otherwise, since there was no collision.  The second
clock moves rows and registers together, because a read enables both ports.  A blocked
clock moves the rows only, and the invariant says nothing after it.

### The argument for the application

*The pair.*  The byte counter of each kernel is that of its packet (`From`, in
`PairParts`), and what is in the channel was made by the generator.  The rest is
arithmetic: in a packet of the right number every byte matches
(`PlaceMeansMatch`), for which the id must fit a byte; in a packet whose first byte
matches, the number is right up to a multiple of the range (`MatchMeansPlace`).
For the second the generator's byte offset must be found again from the number:
exclusive or with one id twice is nothing (`XorTwice`), and the size of a packet
divides the range.

*The host.*  `SysInv` gives each loop of `main` its meaning: which ports it has
passed (`Passed`), hence which engines have their id, limit and FEC (`EnginesSet`),
which kernels were started, and with which arguments (`KernelsStarted`), which were
waited for.  A generator's packets are numbered as they are accepted, and what is
delivered to its partner is a prefix of them (`ChannelsInOrder`), so a collector
that is done has read all of them.

### The argument for popl

The lists of values, defaults and variables have one entry per registered option
(`ListsAgree`), else a new option could take over the variable of another one; each
ends in `update_reference`, whatever was done before (`SetStateKeeps`).  The form of
one option's lists (`ValuesShape`) needs that the five kinds of word ask for a
sequence of parse calls, and for the next word only where there is one
(`GoodEffect`); the latter also keeps a parse inside its command line
(`CallShape`).  What a name finds rests on `add`: it refuses a name a second time, so
no two options share one (`NamesApart`), and the search finds the option that has
the name and no other (`FoundByLong`, `FoundByShort`).  An option shown is not
inactive, hence what a help line says is what the parser does.  The hypothesis of
`HelpIsTrue` is real: the constructor takes a dash for a short name, bash completion
would then offer `--`, which the parser does not take for an option.

*A parse is the reference.*  Neither property is inductive: what a word means
depends on whether the word before took it.  `CommandInv` adds that a parse stands
at a word that is not the argument of the one before (`StartShape`), which
`ArgumentOrNot` ties to the parity in `IsArgument`: a word is an argument exactly
when the one before lacks its own and is none itself.  A step of the parser is one
word: `DashesIs`, `LongIs`, `ShortIs` and `PlainIs` show that its effect is what
the reference says of that word alone (`EffectIs`) - the option a name finds, the
first letter that takes an argument, the text and where it comes from - and
`MadeIs` that the calls up to the first that throws are those that succeed, as a
call can fail only at the last place of its word.  `PlacesGrow` adds the places of
the word, all behind those before; for places like that a listing is one listing
followed by the other (`ListingAppends`), so the reference grows by what the word
appends to the lists.  All this is said for a command line up to its first `--`.
`SameReference` says that a parse changes nothing the
reference looks at.  For a file `FileInv` adds the section, and `LineIs`,
`SectionGrows` and `LinesGrow` do the same line by line.

Proved facts rest on the assumptions of the modules (`RingAssumption`,
`QPAssumption`, `FlowAssumption`, `RoundsAssumption`, `RegsAssumption`,
`BuffersAssumption`, `StatusRamAssumption`, `KernelAssumption`, `PairAssumption`,
`HostAssumption`, `PoplAssumption`), which say that the parameters are numbers, sets
or sequences of the right kind (an option comes with at most one default,
no token of a text is empty), and on two about the pattern: `XorAssumption`, that the exclusive or is one,
bit by bit, and `PatternAssumption`, that a packet's size and a byte's range divide
each other as 64 and 256 do.

Model-checked only:

* the runs from power on (`ColdSpec` and the second start of `AnyStartSpec`);
* `MarkedBeforeWalk` of the status RAM, on the instance of `status_ram`;
* liveness under fairness, which is outside what the proof system reaches.

No module uses RECURSIVE operators.

## 6. Not modelled

* Posted writes to HBM: a slot is stored in one step.
* Beats, alignment, `tkeep`, checksums, headers: data, which the properties do
  not tell apart.
* An answer that is delayed for a whole round of the 24 bit PSNs, and a late mark
  delayed for a whole round of the ring.
* A network that copies messages: Ethernet switches do not.
* Several engines sending to each other: an engine's transmit ring and its
  receive counters share no state, so one sender and its receivers are enough.
* A retransmission limit of zero (above).
* ARP beyond its reset, ICMP, IP framing, build scripts.
* The type of the adder that makes the IP address: `HiveNet_bd_create.tcl:693-701`
  sets neither `A_Type` nor `B_Type` of `c_addsub`.  `EngineIP` adds the id unsigned;
  were the library's default signed, an id of 4096 or more would be subtracted, and
  host and engine would disagree.  The repository does not decide this.
* In the driver: device enumeration, `setScalarArg`, the register access of
  KERNEL, `getBuffSize`, the CMAC's counters.  In popl: the layout of help, man
  page and exception texts.
* `src/common/hw/include/types.hpp`: no file of the repository includes it, so
  nothing shows how its stream types are used.

## 7. What is left to do

1. A refinement from `StatusRam` to the atomic status of `TxRing`, in place of the
   properties that state what it needs, and a proof of `MarkedBeforeWalk`.
2. `asynchronousWriteToHBM` and `axis_switch`: posted writes of slots and the order
   of a write and the read back after it.
3. The ARP table: scan of the subnet, ageing, requests under way.
4. Power on under loss after a repair of finding 1: the reset flag kept out of the
   stored header.
