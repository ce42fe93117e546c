-------------------------------- MODULE RxQp --------------------------------
(***************************************************************************)
(* rx_qp, the receive half of a HiveNet RoCE engine: one counter per       *)
(* sender decides whether a request is passed to the user kernel, and      *)
(* which answer goes back.  rx[q] is the counter that destination q keeps  *)
(* for the sender of TxRing.                                               *)
(***************************************************************************)
EXTENDS Wire, Integers, Sequences

VARIABLES
    rx,         \* msn RAM: MSN expected next
    delivered   \* history of the payloads passed to the kernel at q

rxVars == <<rx, delivered>>

PowerOnRx ==
    /\ rx = [q \in QP |-> 0]
    /\ delivered = [q \in QP |-> <<>>]

\* The first packet of the sender has arrived.
EstablishedRx ==
    /\ rx = [q \in QP |-> 1]
    /\ delivered = [q \in QP |-> <<0>>]

\* Mutants: a gap is let through; a repetition is let through.
NotBefore(pkt) == pkt.rst \/ pkt.msn >= rx[pkt.qp]
NotAfter(pkt) == pkt.rst \/ pkt.msn <= rx[pkt.qp]

\* The reset flag overrides the counter.
InSequence(pkt) == pkt.rst \/ pkt.msn = rx[pkt.qp]

Seen(pkt) == ~ pkt.rst /\ pkt.msn < rx[pkt.qp]

Ahead(pkt) == ~ pkt.rst /\ pkt.msn > rx[pkt.qp]

RxAccept(pkt) ==
    /\ InSequence(pkt)
    /\ rx' = [rx EXCEPT ![pkt.qp] = pkt.msn + 1]
    /\ delivered' = [delivered EXCEPT ![pkt.qp] = Append(@, pkt.data)]

\* An old packet is dropped and acknowledged once more.
RxDuplicate(pkt) == Seen(pkt) /\ UNCHANGED rxVars

\* A packet that comes too early is dropped and refused.
RxGap(pkt) == Ahead(pkt) /\ UNCHANGED rxVars

RxTypeOK ==
    /\ rx \in [QP -> Nat]
    /\ delivered \in [QP -> Seq(Nat)]
=============================================================================
