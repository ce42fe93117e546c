------------------------------ MODULE PsnArith ------------------------------
(***************************************************************************)
(* The arithmetic the blocks do on PSNs.  A PSN has 24 bits and its low 20 *)
(* bits are the address of a slot; the ring has n slots and the PSNs       *)
(* repeat after k rounds of the ring (n = 2^20 and k = 16 in the code).    *)
(* tx_syncroniceWrites, tx_write and tx_checkResponce compute the distance *)
(* of two cursors with the same circuit.                                   *)
(***************************************************************************)
EXTENDS Integers

\* The 24 bit register that holds an unbounded PSN.
Wrapped(n, k, psn) == psn % (n * k)

\* Mutant: only the slot addresses are compared.
DistanceSlots(n, w, r) == (w % n) - (r % n)

\* Slots from cursor r up to cursor w.  One comparison is of the whole PSNs,
\* one of the slot addresses; a borrow is added where the addresses wrap.
Distance(n, w, r) ==
    LET wLow == w % n
        rLow == r % n
    IN  IF wLow < rLow THEN (n + wLow) - rLow
        ELSE IF w < r THEN (n + rLow) - wLow
        ELSE wLow - rLow

\* tx_checkResponce: is the PSN p of an answer one of those from r up to w?
\* The first range is cut off where the PSNs wrap, the second goes below zero
\* there; the empty ring still takes an answer to r.
InWindow(n, p, w, r) ==
    \/ p = r
    \/ /\ r # w
       /\ \/ r <= p /\ p <= (r - 1) + Distance(n, w, r)
          \/ w - Distance(n, w, r) <= p /\ p <= w - 1
=============================================================================
