-------------------------- MODULE ReliableChannel --------------------------
(***************************************************************************)
(* What a HiveNet connection promises to the kernels at its ends: every    *)
(* destination gets the payloads accepted for it once, in the order they   *)
(* were accepted.  accepted and delivered are histories.                   *)
(***************************************************************************)
EXTENDS Integers, Sequences

CONSTANTS
    QP,       \* destinations
    Payload   \* what the kernels send

VARIABLES accepted, delivered

chVars == <<accepted, delivered>>

\* Both ends have seen the same payloads.
Init ==
    /\ accepted \in [QP -> {<<>>, <<0>>}]
    /\ delivered = accepted

Accept(q, d) ==
    /\ accepted' = [accepted EXCEPT ![q] = Append(@, d)]
    /\ UNCHANGED delivered

Deliver(q) ==
    /\ Len(delivered[q]) < Len(accepted[q])
    /\ delivered' = [delivered EXCEPT ![q] = Append(@, accepted[q][Len(@) + 1])]
    /\ UNCHANGED accepted

Next == \E q \in QP : Deliver(q) \/ \E d \in Payload : Accept(q, d)

Spec == Init /\ [][Next]_chVars
=============================================================================
