-------------------------------- MODULE Wire --------------------------------
(***************************************************************************)
(* What the engines exchange.  A request carries the PSN of its slot, the  *)
(* MSN and reset flag of its stream and the payload; an answer carries the *)
(* PSN of the request and ACK or NAK.  A payload is told apart by its      *)
(* place in the stream of its destination.                                 *)
(***************************************************************************)
EXTENDS Integers, FiniteSets

CONSTANT QP    \* destinations (the 13 bit queue pair index)

ASSUME QPAssumption == QP # {} /\ IsFiniteSet(QP)

Packet == [qp : QP, msn : Nat, rst : BOOLEAN, data : Nat]

Request(psn, pkt) == [psn |-> psn, pkt |-> pkt]

Answer(psn, nak) == [psn |-> psn, nak |-> nak]

Requests == [psn : Nat, pkt : Packet]

Answers == [psn : Nat, nak : BOOLEAN]
=============================================================================
