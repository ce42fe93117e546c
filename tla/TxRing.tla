------------------------------- MODULE TxRing -------------------------------
(***************************************************************************)
(* The transmit half of one HiveNet RoCE engine: the ring of HBM slots in  *)
(* which every packet stays until its answer has come, and the six blocks  *)
(* that share it.                                                          *)
(*                                                                         *)
(*   tx_syncroniceWrites  chooses between a user packet and a packet to    *)
(*                        retransmit               (SyncUser, SyncRetransmit) *)
(*   tx_write             gives the packet a PSN, and a user packet an MSN, *)
(*                        stores it and sends it   (TxAccept...)           *)
(*   tx_checkResponce     turns an ACK or NAK into a slot status           *)
(*   tx_timeout           marks the oldest slot when its answer is late    *)
(*   tx_checkCurrent      walks the ring and frees the slots in order      *)
(*   tx_checkcurrent_data reads a slot back for retransmission             *)
(*                                                                         *)
(* The blocks run concurrently and see each other's cursors late: writePSN *)
(* reaches the others as wSeen, readPSN as rSeen.  PSNs are natural        *)
(* numbers here; PsnArith has their 24 and 20 bit arithmetic.              *)
(***************************************************************************)
EXTENDS Wire, Integers, Sequences, FiniteSets

CONSTANTS
    N,         \* slots of the ring                     (2^20)
    UserGate,  \* arbiter: room for a user packet       (N - 33)
    RetrGate,  \* arbiter: room for a retransmission    (N - 18)
    UserMax,   \* tx_write: room for a user packet      (N - 17)
    RetrMax,   \* tx_write: room for a retransmission   (N - 2)
    PipeCap,   \* packets granted by the arbiter and not yet announced by tx_write
    ReadLead,  \* how far readPSN runs ahead of a slot still to be read back
    RetrCap,   \* retransmission headers waiting at the arbiter
    MaxRetr,   \* limit register: retransmissions of one packet
    MaxData,   \* bound: user packets per destination
    MaxPSN     \* bound: PSNs used up

ASSUME RingAssumption ==
    /\ N \in Nat \ {0}
    /\ ReadLead \in Nat \ {0}
    /\ {UserGate, RetrGate, UserMax, RetrMax, PipeCap, RetrCap, MaxRetr,
        MaxData, MaxPSN} \subseteq Nat

\* The sizing the hard-wired limits are for: what the arbiter lets through
\* still has room when it reaches tx_write, and a slot that is being read back
\* is not yet in reach of writePSN.
Sized ==
    /\ UserGate <= RetrGate
    /\ UserGate + PipeCap <= UserMax + 1
    /\ RetrGate + PipeCap <= RetrMax + 1
    /\ RetrGate + PipeCap + ReadLead <= N

VARIABLES
    sent,        \* sent[q]: user packets for q taken by the arbiter
    outToWRITE,  \* headers on their way from the arbiter to tx_write
    outData,     \* their payloads, a stream of its own
    writePSN,    \* tx_write: next PSN, and slot, to use
    msn,         \* tx_write: next MSN of each destination
    rst,         \* tx_write: the next packet of q carries the reset flag
    log,         \* log[q]: history of the payloads that were given an MSN
    hbm,         \* packet stored in each slot
    status,      \* bitMap: 0 acknowledged, 1 refused, 2 timed out, 3 sent
    wSeen,       \* writePSN as the other blocks see it
    readPSN,     \* tx_checkCurrent: oldest slot still in use
    rSeen,       \* readPSN as the other blocks see it
    pend,        \* toRetransmit: slots handed over, not yet read back
    retrHdr,     \* packets read back, waiting at the arbiter
    tmo          \* tx_timeout: PSN found late, its status still to be written

pipeVars == <<outToWRITE, outData>>

streamVars == <<msn, rst, log>>

ringVars == <<sent, pipeVars, writePSN, streamVars, hbm, status, wSeen, readPSN,
              rSeen, pend, retrHdr, tmo>>

-----------------------------------------------------------------------------
Slots == 0 .. N - 1

\* Only the low 20 bits of a PSN address the ring.
Slot(psn) == psn % N

Acked == 0
Refused == 1
TimedOut == 2
Sent == 3

\* type 0 is a user packet; a retransmission carries the slot status that
\* caused it.
Header == [type : {0, Refused, TimedOut}, nRetrans : Nat, pkt : Packet]

RetrHeader == [type : {Refused, TimedOut}, nRetrans : Nat, pkt : Packet]

NoTmo == -1

\* A packet of an earlier round of the ring; the cursors have passed it.
OldPacket == [qp |-> CHOOSE q \in QP : TRUE, msn |-> 0, rst |-> TRUE, data |-> 0]

\* Everything but the streams themselves: an idle engine whose cursors stand
\* at start.
IdleRing(start) ==
    /\ outToWRITE = <<>>
    /\ outData = <<>>
    /\ writePSN = start
    /\ hbm = [s \in Slots |-> OldPacket]
    /\ status = [s \in Slots |-> Acked]
    /\ wSeen = start
    /\ readPSN = start
    /\ rSeen = start
    /\ pend = <<>>
    /\ retrHdr = <<>>
    /\ tmo = NoTmo

\* After power on no destination has been written to: MSN 0, reset flag set.
PowerOnRing ==
    /\ IdleRing(0)
    /\ sent = [q \in QP |-> 0]
    /\ msn = [q \in QP |-> 0]
    /\ rst = [q \in QP |-> TRUE]
    /\ log = [q \in QP |-> <<>>]

\* One packet has gone to every destination and has been acknowledged.
EstablishedRing ==
    /\ IdleRing(Cardinality(QP))
    /\ sent = [q \in QP |-> 1]
    /\ msn = [q \in QP |-> 1]
    /\ rst = [q \in QP |-> FALSE]
    /\ log = [q \in QP |-> <<0>>]

-----------------------------------------------------------------------------
(* tx_syncroniceWrites: the arbiter *)

\* Slots in use as seen by a block that knows the cursors as w and r.
Occupied(w, r) == w - r

\* Mutant: the gate is left open.
GateOpen == TRUE

\* Mutant: the gate is the limit of tx_write, with no margin for what is on its way.
UserRoomTight == Occupied(wSeen, rSeen) <= UserMax

UserRoom == Occupied(wSeen, rSeen) <= UserGate

RetrRoom == Occupied(wSeen, rSeen) <= RetrGate

\* Timing bound: what was granted and is not yet visible in wSeen.
PipeRoom == Len(outToWRITE) + (writePSN - wSeen) < PipeCap

\* Header and payload leave together, on two streams.
Grant(h) ==
    /\ outToWRITE' = Append(outToWRITE, h)
    /\ outData' = Append(outData, h.pkt.data)

\* A retransmission that may go goes first.
SyncRetransmit ==
    /\ retrHdr # <<>>
    /\ RetrRoom
    /\ PipeRoom
    /\ Grant(Head(retrHdr))
    /\ retrHdr' = Tail(retrHdr)
    /\ UNCHANGED <<sent, writePSN, streamVars, hbm, status, wSeen, readPSN,
                   rSeen, pend, tmo>>

UserHeader(q) ==
    [type |-> 0, nRetrans |-> 0,
     pkt |-> [qp |-> q, msn |-> 0, rst |-> FALSE, data |-> sent[q]]]

SyncUser(q) ==
    /\ ~ (retrHdr # <<>> /\ RetrRoom)
    /\ UserRoom
    /\ PipeRoom
    /\ sent[q] < MaxData
    /\ Grant(UserHeader(q))
    /\ sent' = [sent EXCEPT ![q] = @ + 1]
    /\ UNCHANGED <<writePSN, streamVars, hbm, status, wSeen, readPSN, rSeen,
                   pend, retrHdr, tmo>>

-----------------------------------------------------------------------------
(* tx_write: numbers the packet, stores it, marks the slot and sends it *)

HeadIsUser == outToWRITE # <<>> /\ Head(outToWRITE).type = 0

HeadIsRetr == outToWRITE # <<>> /\ Head(outToWRITE).type # 0

UserFits == Occupied(writePSN, rSeen) <= UserMax

RetrFits == Occupied(writePSN, rSeen) <= RetrMax

WithinLimit == Head(outToWRITE).nRetrans <= MaxRetr

\* Mutant: a retransmission is numbered afresh.
Renumbered(h) == [h.pkt EXCEPT !.msn = msn[h.pkt.qp], !.rst = rst[h.pkt.qp]]

\* A user packet gets the next MSN of its destination; a retransmission keeps
\* the MSN, and the reset flag, it was stored with.
Numbered(h) ==
    IF h.type = 0 THEN [h.pkt EXCEPT !.msn = msn[h.pkt.qp], !.rst = rst[h.pkt.qp]]
                  ELSE h.pkt

\* The packet the head of the queue becomes, with the payload that is next.
Outgoing == [Numbered(Head(outToWRITE)) EXCEPT !.data = Head(outData)]

\* Mutant: the payload stays in the stream.
TakeHeader ==
    /\ outToWRITE' = Tail(outToWRITE)
    /\ UNCHANGED outData

\* The head and the next payload are used up.
TakePacket ==
    /\ outToWRITE' = Tail(outToWRITE)
    /\ outData' = Tail(outData)

\* Mutant: the slot keeps the status of its last packet.
StoreUnmarked(pkt) ==
    /\ writePSN < MaxPSN
    /\ hbm' = [hbm EXCEPT ![Slot(writePSN)] = pkt]
    /\ writePSN' = writePSN + 1
    /\ UNCHANGED status

Store(pkt) ==
    /\ writePSN < MaxPSN
    /\ hbm' = [hbm EXCEPT ![Slot(writePSN)] = pkt]
    /\ status' = [status EXCEPT ![Slot(writePSN)] = Sent]
    /\ writePSN' = writePSN + 1

TxAcceptUser ==
    /\ HeadIsUser
    /\ UserFits
    /\ Store(Outgoing)
    /\ msn' = [msn EXCEPT ![Outgoing.qp] = @ + 1]
    /\ rst' = [rst EXCEPT ![Outgoing.qp] = FALSE]
    /\ log' = [log EXCEPT ![Outgoing.qp] = Append(@, Outgoing.data)]
    /\ TakePacket
    /\ UNCHANGED <<sent, wSeen, readPSN, rSeen, pend, retrHdr, tmo>>

TxAcceptRetransmit ==
    /\ HeadIsRetr
    /\ RetrFits
    /\ WithinLimit
    /\ Store(Outgoing)
    /\ TakePacket
    /\ UNCHANGED <<sent, streamVars, wSeen, readPSN, rSeen, pend, retrHdr,
                   tmo>>

\* Above the limit the packet is given up and its stream starts again.
TxDiscard ==
    /\ HeadIsRetr
    /\ RetrFits
    /\ ~ WithinLimit
    /\ msn' = [msn EXCEPT ![Outgoing.qp] = 0]
    /\ rst' = [rst EXCEPT ![Outgoing.qp] = TRUE]
    /\ TakePacket
    /\ UNCHANGED <<sent, writePSN, log, hbm, status, wSeen, readPSN, rSeen,
                   pend, retrHdr, tmo>>

\* A header that finds the ring full is consumed, its payload is not: the
\* next header will be stored with it.
TxReject ==
    /\ outToWRITE # <<>>
    /\ HeadIsUser => ~ UserFits
    /\ HeadIsRetr => ~ RetrFits
    /\ outToWRITE' = Tail(outToWRITE)
    /\ UNCHANGED <<sent, outData, writePSN, streamVars, hbm, status, wSeen,
                   readPSN, rSeen, pend, retrHdr, tmo>>

\* tx_write publishes writePSN between packets.
AnnounceWritePSN ==
    /\ wSeen' \in wSeen + 1 .. writePSN
    /\ UNCHANGED <<sent, pipeVars, writePSN, streamVars, hbm, status, readPSN,
                   rSeen, pend, retrHdr, tmo>>

-----------------------------------------------------------------------------
(* tx_checkCurrent and tx_checkcurrent_data: freeing and reading back slots *)

\* Mutant: the walk does not wait for the slot being read back.
LeadFree == TRUE

\* Timing bound: readPSN does not run away from a slot that is being read back.
LeadRoom == \A i \in 1 .. Len(pend) : readPSN + 1 - pend[i].psn <= ReadLead

CurrentStatus == status[Slot(readPSN)]

\* An acknowledged slot is passed; a slot still waiting for its answer
\* (status Sent) stops the walk.
SkipAcked ==
    /\ readPSN # wSeen
    /\ CurrentStatus = Acked
    /\ LeadRoom
    /\ readPSN' = readPSN + 1
    /\ UNCHANGED <<sent, pipeVars, writePSN, streamVars, hbm, status, wSeen,
                   rSeen, pend, retrHdr, tmo>>

\* Mutants: acknowledged slots are sent again; refused slots never are.
NotWaiting == {Acked, Refused, TimedOut}
OnlyLate == {TimedOut}

\* Slots the walk hands over for retransmission.
Retransmittable == {Refused, TimedOut}

\* A refused or late slot is handed over, cleared and passed, in one step:
\* from here on its place counts as free.
HandOver ==
    /\ readPSN # wSeen
    /\ CurrentStatus \in Retransmittable
    /\ LeadRoom
    /\ pend' = Append(pend, [psn |-> readPSN, status |-> CurrentStatus])
    /\ status' = [status EXCEPT ![Slot(readPSN)] = Acked]
    /\ readPSN' = readPSN + 1
    /\ UNCHANGED <<sent, pipeVars, writePSN, streamVars, hbm, wSeen, rSeen,
                   retrHdr, tmo>>

PublishReadPSN ==
    /\ rSeen' \in rSeen + 1 .. readPSN
    /\ UNCHANGED <<sent, pipeVars, writePSN, streamVars, hbm, status, wSeen,
                   readPSN, pend, retrHdr, tmo>>

\* Mutant: a late packet counts as sent twice too often.
RetrCountHigh(st) == IF st = TimedOut THEN MaxRetr + 1 ELSE 0

\* The count is rebuilt from the status each time, never read from the slot.
RetrCount(st) == IF st = TimedOut THEN 1 ELSE 0

ReadBack(h) ==
    [type |-> h.status, nRetrans |-> RetrCount(h.status), pkt |-> hbm[Slot(h.psn)]]

ReadSlot ==
    /\ pend # <<>>
    /\ Len(retrHdr) < RetrCap
    /\ retrHdr' = Append(retrHdr, ReadBack(Head(pend)))
    /\ pend' = Tail(pend)
    /\ UNCHANGED <<sent, pipeVars, writePSN, streamVars, hbm, status, wSeen,
                   readPSN, rSeen, tmo>>

-----------------------------------------------------------------------------
(* tx_checkResponce: an ACK or NAK for a PSN *)

\* Mutant: no lower end, an answer to a freed slot counts.
InViewBelow(psn) == psn <= wSeen - 1

\* The window test.  psn = rSeen counts even for an empty view.
InView(psn) ==
    \/ psn = rSeen
    \/ rSeen # wSeen /\ rSeen <= psn /\ psn <= rSeen - 1 + Occupied(wSeen, rSeen)

RecvResponse(psn, nak) ==
    /\ status' = IF InView(psn)
                 THEN [status EXCEPT ![Slot(psn)] = IF nak THEN Refused ELSE Acked]
                 ELSE status
    /\ UNCHANGED <<sent, pipeVars, writePSN, streamVars, hbm, wSeen, readPSN,
                   rSeen, pend, retrHdr, tmo>>

-----------------------------------------------------------------------------
(* tx_timeout: looks at the oldest slot only.  The status it tests is the    *)
(* one at tx_checkCurrent's cursor, the slot it marks the one of its own     *)
(* view, and the mark is written after an HBM read of the sending time.      *)

TimeoutSample ==
    /\ tmo = NoTmo
    /\ rSeen # wSeen
    /\ CurrentStatus = Sent
    /\ tmo' = rSeen
    /\ UNCHANGED <<sent, pipeVars, writePSN, streamVars, hbm, status, wSeen,
                   readPSN, rSeen, pend, retrHdr>>

TimeoutFire ==
    /\ tmo # NoTmo
    /\ status' = [status EXCEPT ![Slot(tmo)] = TimedOut]
    /\ tmo' = NoTmo
    /\ UNCHANGED <<sent, pipeVars, writePSN, streamVars, hbm, wSeen, readPSN,
                   rSeen, pend, retrHdr>>

-----------------------------------------------------------------------------
\* No header is without a payload.
PayloadsFollow == Len(outToWRITE) <= Len(outData)

RingTypeOK ==
    /\ sent \in [QP -> Nat]
    /\ outToWRITE \in Seq(Header)
    /\ outData \in Seq(Nat)
    /\ PayloadsFollow
    /\ writePSN \in Nat
    /\ msn \in [QP -> Nat]
    /\ rst \in [QP -> BOOLEAN]
    /\ log \in [QP -> Seq(Nat)]
    /\ hbm \in [Slots -> Packet]
    /\ status \in [Slots -> {Acked, Refused, TimedOut, Sent}]
    /\ wSeen \in Nat
    /\ readPSN \in Nat
    /\ rSeen \in Nat
    /\ pend \in Seq([psn : Nat, status : {Refused, TimedOut}])
    /\ retrHdr \in Seq(RetrHeader)
    /\ tmo \in Nat \cup {NoTmo}
=============================================================================
