---------------------------- MODULE HiveFlowWidth ----------------------------
(***************************************************************************)
(* HiveFlow counts PSNs without end and compares them as numbers.  Here    *)
(* its cursors are looked at through the registers of the code, whose PSNs *)
(* repeat after Rounds rounds of the ring.                                 *)
(***************************************************************************)
EXTENDS HiveFlowInv, PsnArith

CONSTANT Rounds    \* rounds of the ring until the PSNs repeat (2^4)

ASSUME RoundsAssumption == Rounds \in Nat \ {0}

Reg(psn) == Wrapped(N, Rounds, psn)

\* For a block that knows the cursors as w and r the registers give the same
\* answers as the unbounded PSNs: the number of slots in use, whether the ring
\* is empty, and which slots an answer may speak of.
SameAnswers(w, r) ==
    /\ Distance(N, Reg(w), Reg(r)) = Occupied(w, r)
    /\ Reg(w) = Reg(r) <=> w = r
    /\ \A p \in 0 .. N * Rounds - 1 :
          InWindow(N, p, Reg(w), Reg(r)) <=>
              \E psn \in {r} \cup (r .. w - 1) : p = Reg(psn)

\* The arbiter and tx_checkResponce compare wSeen with rSeen, tx_write its own
\* writePSN with rSeen, and tx_checkCurrent its own readPSN with wSeen.
ArithmeticExact ==
    /\ SameAnswers(wSeen, rSeen)
    /\ SameAnswers(writePSN, rSeen)
    /\ SameAnswers(wSeen, readPSN)
=============================================================================
