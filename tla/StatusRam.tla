----------------------------- MODULE StatusRam -----------------------------
(***************************************************************************)
(* The status RAM of the transmit ring clock by clock.  TxRing takes a     *)
(* status as one variable that every block reads and writes at once; here  *)
(* are the parts that stand behind it:                                     *)
(*                                                                         *)
(*   tx_dev_mem_management  one write a clock, out of four queues          *)
(*   register_writes        one register on the way to the RAM             *)
(*   bram_wrapper           the RAM, here what it holds after each clock;  *)
(*                          the pipeline of a read is in BramWrapper       *)
(*   tx_checkCurrent        the walk: a read every second clock            *)
(*   tx_write               a mark per packet, and its PSN announced later *)
(*                                                                         *)
(* A clock is one step.  An announced cursor goes through a row of         *)
(* registers, the newest value last.  The walk decides on the status it is *)
(* given: here the one that the RAM held at the end of the clock of the    *)
(* read, in StatusRamRead the one on the read port.                        *)
(***************************************************************************)
EXTENDS Integers, Sequences

CONSTANTS
    N,              \* slots
    AnnounceDelay,  \* registers between tx_write and the readers of writePSN
    ViewDelay,      \* registers between the walk and tx_write's view of readPSN
    AnswerDelay,    \* clocks from the window test of an answer to its write
    HandTime,       \* clocks tx_checkcurrent_data has for a packet, at least (22)
    TimerTime,      \* clocks of an iteration of tx_timeout            (18)
    Slack,          \* slots that tx_write leaves free
    QueueCap,       \* words of a writer's two slices  (2 and 2)
    MaxPSN          \* bound: packets marked

ASSUME StatusRamAssumption ==
    /\ {N, AnnounceDelay, ViewDelay, AnswerDelay, HandTime, TimerTime, Slack, QueueCap} \subseteq Nat \ {0}
    /\ MaxPSN \in Nat

Slot(psn) == psn % N

\* The values of a status.
Acked == 0
Refused == 1
TimedOut == 2
Sent == 3
Status == Acked .. Sent

VARIABLES
    writePSN,   \* the PSN of the next packet
    inPayload,  \* tx_write moves the payload of a packet
    announced,  \* writePSN on its way to the readers
    marks, answers, clears, lates,  \* the queues of the four writers
    delayed,    \* the write in register_writes, as a sequence
    ram,        \* the RAM: a status and, as history, the packet it is about
    readPSN,    \* the cursor of the walk
    phase,      \* the walk's clock: 0 decides and reads, 1 hands over
    fetch,      \* the read under way, as a sequence
    handing,    \* the clear to be written with a hand over, as a sequence
    copying,    \* clocks tx_checkcurrent_data still needs for it, at least
    views,      \* readPSN on its way to the readers
    timer,      \* the packet tx_timeout reads from HBM, as a sequence
    resting,    \* clocks until tx_timeout may mark again
    timed,      \* the packet after the last one found late
    answered    \* history: the packets answered

txVars == <<writePSN, inPayload, announced>>
walkVars == <<readPSN, phase, fetch, handing, copying, views>>

timerVars == <<timer, resting, timed>>
statusVars == <<txVars, marks, answers, clears, lates, delayed, ram, walkVars, timerVars, answered>>

Entry(psn, st) == [psn |-> psn, status |-> st]

Sooner(clocks) == IF clocks > 0 THEN clocks - 1 ELSE 0

\* Mutant: the readers are wired to the first register.
SeenWriteAtOnce == announced[Len(announced)]

SeenWrite == Head(announced)

\* readPSN as tx_write and tx_timeout see it, and as it was when the window of an
\* answer that is written now was tested.
SeenRead == views[AnswerDelay + 1]
TestedRead == Head(views)

-----------------------------------------------------------------------------
(* tx_dev_mem_management and register_writes.                              *)

\* The queue that is served, in a fixed order.
Served ==
    IF lates # <<>> THEN "lates" ELSE IF clears # <<>> THEN "clears"
    ELSE IF answers # <<>> THEN "answers" ELSE IF marks # <<>> THEN "marks" ELSE "none"

Left(name, queue) == IF Served = name THEN Tail(queue) ELSE queue

HasSpace(queue) == Len(queue) < QueueCap

Serve ==
    delayed' = IF Served = "none" THEN <<>>
               ELSE << Head([lates |-> lates, clears |-> clears,
                             answers |-> answers, marks |-> marks][Served]) >>

-----------------------------------------------------------------------------
(* The RAM.                                                                *)

\* The history keeps the newest packet that has been marked in the slot.
Put(old, new) == [new EXCEPT !.psn = IF new.psn > old.psn THEN new.psn ELSE old.psn]

RamWrite ==
    ram' = IF delayed = <<>> THEN ram
           ELSE [ram EXCEPT ![Slot(Head(delayed).psn)] = Put(@, Head(delayed))]

-----------------------------------------------------------------------------
(* tx_checkCurrent.                                                        *)

\* The status the RAM held at the end of the clock of the read.
Known == IF fetch = <<>> THEN Acked ELSE Head(fetch).now.status

\* Mutant: a slot that was not read is passed too.
NextReadBlind(st) == IF st # Sent THEN readPSN + 1 ELSE readPSN

\* The cursor after the status of the packet read: all but Sent is passed.
NextRead(st) == IF fetch # <<>> /\ st # Sent THEN readPSN + 1 ELSE readPSN

\* Start a read of a packet that has been announced.
Read(psn) ==
    fetch' = IF psn = SeenWrite THEN <<>> ELSE << [psn |-> psn, now |-> ram'[Slot(psn)]] >>

\* What the cursor was before the decision is published.
Decide(st) ==
    /\ phase = 0
    /\ copying = 0
    /\ readPSN' = NextRead(st)
    /\ views' = Append(Tail(views), readPSN)
    /\ handing' = IF fetch # <<>> /\ st \in {Refused, TimedOut}
                  THEN << Entry(readPSN, Acked) >> ELSE <<>>
    /\ Read(NextRead(st))
    /\ phase' = 1
    /\ clears' = Left("clears", clears)
    /\ UNCHANGED copying

\* A walk that is blocked publishes nothing: the readers keep the last cursor.
Keep == views' = Append(Tail(views), views[Len(views)])

HandOver ==
    /\ phase = 1
    /\ handing # <<>> => HasSpace(clears)
    /\ clears' = Left("clears", clears) \o handing
    /\ handing' = <<>>
    /\ phase' = 0
    /\ copying' = IF handing = <<>> THEN copying ELSE HandTime - 1
    /\ Keep
    /\ UNCHANGED <<readPSN, fetch>>

\* Blocked by a full queue, or, with the next packet read and not decided on, until
\* tx_checkcurrent_data is done with the packet handed over.
Stall(taken) ==
    /\ \/ phase = 1 /\ handing # <<>> /\ ~HasSpace(clears) /\ UNCHANGED copying
       \/ phase = 0 /\ copying > 1 /\ copying' = copying - 1
       \/ phase = 0 /\ copying = 1 /\ copying' = IF taken THEN 0 ELSE 1
    /\ clears' = Left("clears", clears)
    /\ Keep
    /\ UNCHANGED <<readPSN, phase, fetch, handing>>

Walk(taken, st) == Decide(st) \/ HandOver \/ Stall(taken)

-----------------------------------------------------------------------------
(* tx_write.                                                               *)

\* The cursor as it was before the packet accepted in this clock, and none
\* while a payload is moved: the readers then keep the last one.
Published == IF inPayload THEN announced[Len(announced)] ELSE writePSN

\* Mutant: the slack is forgotten.
RingHasRoomTight == writePSN - SeenRead <= N

RingHasRoom == writePSN - SeenRead < N - Slack

Accept ==
    /\ ~inPayload
    /\ writePSN < MaxPSN
    /\ RingHasRoom
    /\ HasSpace(marks)
    /\ marks' = Append(Left("marks", marks), Entry(writePSN, Sent))
    /\ writePSN' = writePSN + 1
    /\ inPayload' = TRUE

NoAccept(last) ==
    /\ marks' = Left("marks", marks)
    /\ inPayload' = (inPayload /\ ~last)
    /\ UNCHANGED writePSN

TxWrite(last) ==
    /\ Accept \/ NoAccept(last)
    /\ announced' = Append(Tail(announced), Published)

-----------------------------------------------------------------------------
(* tx_checkResponce and tx_timeout.                                        *)

\* The window test.  psn = readPSN counts even for an empty view.
InWindow(psn) ==
    \/ psn = TestedRead
    \/ TestedRead # SeenWrite /\ TestedRead <= psn /\ psn < SeenWrite

\* A packet that was sent is answered once; its answer was in the window when it
\* was tested.
Answer(psn, st) ==
    /\ HasSpace(answers)
    /\ psn \notin answered
    /\ psn < writePSN /\ InWindow(psn)
    /\ answers' = Append(Left("answers", answers), Entry(psn, st))
    /\ answered' = answered \cup {psn}

NoAnswer ==
    /\ answers' = Left("answers", answers)
    /\ UNCHANGED answered

Respond == NoAnswer \/ \E psn \in 0 .. MaxPSN, st \in {Acked, Refused} : Answer(psn, st)

\* tx_timeout reads the oldest packet from HBM, which may take any time, and marks
\* its slot late, wherever the walk is by then.  An iteration has 18 stages, and
\* they do not overlap; here a packet is found late at most once.
TimerStart ==
    /\ timer = <<>>
    /\ timed <= SeenRead /\ SeenRead < SeenWrite
    /\ timed' = SeenRead + 1
    /\ timer' = <<SeenRead>>
    /\ lates' = Left("lates", lates)
    /\ resting' = Sooner(resting)

TimerMark ==
    /\ timer # <<>>
    /\ resting = 0
    /\ HasSpace(lates)
    /\ lates' = Append(Left("lates", lates), Entry(Head(timer), TimedOut))
    /\ timer' = <<>>
    /\ resting' = TimerTime - 1
    /\ UNCHANGED timed

TimerRest ==
    /\ lates' = Left("lates", lates)
    /\ resting' = Sooner(resting)
    /\ UNCHANGED <<timer, timed>>

-----------------------------------------------------------------------------
Row(n, v) == [i \in 1 .. n |-> v]

StatusInit ==
    /\ writePSN = 0 /\ inPayload = FALSE /\ announced = Row(AnnounceDelay, 0)
    /\ marks = <<>> /\ answers = <<>> /\ clears = <<>> /\ lates = <<>>
    /\ delayed = <<>>
    /\ ram = [s \in 0 .. N - 1 |-> Entry(-1, Acked)]
    /\ readPSN = 0 /\ phase = 0 /\ fetch = <<>> /\ handing = <<>> /\ copying = 0
    /\ views = Row(AnswerDelay + ViewDelay, 0)
    /\ timer = <<>> /\ resting = 0 /\ timed = 0
    /\ answered = {}

Clock(last, taken) ==
    /\ Serve
    /\ RamWrite
    /\ Walk(taken, Known)
    /\ TxWrite(last)
    /\ Respond
    /\ TimerStart \/ TimerMark \/ TimerRest

StatusNext == \E last, taken \in BOOLEAN : Clock(last, taken)
StatusSpec == StatusInit /\ [][StatusNext]_statusVars

-----------------------------------------------------------------------------
(* Properties.                                                             *)

\* The cursors are in order and no queue overflows.
StatusTypeOK ==
    /\ SeenRead <= readPSN /\ readPSN <= SeenWrite /\ SeenWrite <= writePSN
    /\ \A q \in {marks, answers, clears, lates} : Len(q) <= QueueCap
    /\ \A s \in 0 .. N - 1 : ram[s].status \in Status /\ ram[s].psn < writePSN

\* When the walk reads the slot of a packet its mark is in the RAM, however long
\* the other three writers kept it waiting: the walk never takes a packet for an
\* acknowledged one because it sees the status of the round before.
MarkedBeforeWalk == fetch # <<>> => Head(fetch).now.psn >= Head(fetch).psn

\* Writes of different writers to a slot are applied in the order of the packets
\* they are about: no answer and no clear is put on a packet of a later round.
\* Only a late mark may be, after an HBM read that took a round of the ring.
NewestStays ==
    delayed # <<>> /\ Head(delayed).status # TimedOut
        => Head(delayed).psn >= ram[Slot(Head(delayed).psn)].psn
=============================================================================
