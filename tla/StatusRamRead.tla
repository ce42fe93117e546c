--------------------------- MODULE StatusRamRead ---------------------------
(***************************************************************************)
(* StatusRam with the read path: the walk decides on the status at the     *)
(* read port of BramWrapper, not on what the RAM held.  Where the hardware *)
(* leaves a choice open (the address of an idle write port, a read of the  *)
(* address written), the one that does no harm is taken.                   *)
(***************************************************************************)
EXTENDS StatusRam

VARIABLES
    mem, latchA, outA, latchB, outB, writeRow, readRow,  \* see BramWrapper
    acked       \* history: the packets answered with an acknowledgement

INSTANCE BramWrapper WITH Address <- 0 .. N - 1, Data <- Status

ramReadVars == <<statusVars, bramVars, acked>>

\* A stage of the walk that cannot go on: the read port is not enabled.
Held == IF phase = 0 THEN copying > 0 ELSE handing # <<>> /\ ~HasSpace(clears)

\* Stage 0 reads the packet behind the one it passes, also while it is blocked.
Address0 == Slot(IF phase = 0 THEN NextRead(Q0) ELSE readPSN)

\* A slot that no packet of the run uses.
Idle == N - 1

\* The write in register_writes.
Ports ==
    LET we == delayed # <<>>
        addra == IF we THEN Slot(Head(delayed).psn) ELSE Idle
        dina == IF we THEN Head(delayed).status ELSE Acked
    IN  /\ Bram(we, addra, dina, Address0, ~Held)
        /\ we /\ addra = Address0 /\ ~Held => latchB' = mem[Address0]

Acknowledge ==
    acked' = acked \cup {psn \in answered' \ answered : answers'[Len(answers')].status = Acked}

RamReadInit ==
    /\ StatusInit
    /\ mem = [s \in 0 .. N - 1 |-> Acked]
    /\ latchA = Acked /\ outA = Acked /\ latchB = Acked /\ outB = Acked
    /\ writeRow = <<0, 0>> /\ readRow = <<0, 0>>
    /\ acked = {}

RamReadNext == \E last, taken \in BOOLEAN :
    /\ Ports
    /\ Serve
    /\ RamWrite
    /\ Walk(taken, Q0)
    /\ TxWrite(last)
    /\ Respond
    /\ TimerStart \/ TimerMark \/ TimerRest
    /\ Acknowledge

RamReadSpec == RamReadInit /\ [][RamReadNext]_ramReadVars

-----------------------------------------------------------------------------
(* Property.                                                               *)

\* The walk passes a packet for good only when it was acknowledged, or the transfer is
\* not lossless, as src/README.md:41 says it is.
PassedIsAcknowledged ==
    phase = 0 /\ copying = 0 /\ fetch # <<>> /\ Q0 = Acked => readPSN \in acked
=============================================================================
