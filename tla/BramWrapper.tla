---------------------------- MODULE BramWrapper ----------------------------
(***************************************************************************)
(* The RAM of the status bits with what the block design puts around it:   *)
(*                                                                         *)
(*   port A     the writes, as register_writes puts them out, WRITE_FIRST  *)
(*   port B     the reads of tx_checkCurrent: address0 and ce0             *)
(*   two rows   addra and address0, each two clocks old                    *)
(*   bram_wrapper_0   compares the two and picks port A's or port B's data *)
(*                                                                         *)
(* Each port has a latch and an output register, moved on by the enable of *)
(* the port; the rows have no enable and move every clock.  The RAM, its   *)
(* registers and the rows are library cells: they are modelled as they are *)
(* configured and connected, an output register being enabled with its     *)
(* port, since none has an enable of its own.                              *)
(***************************************************************************)
EXTENDS Naturals

CONSTANTS
    Address,    \* slots
    Data        \* the values of a status

VARIABLES
    mem,                \* what the RAM holds
    latchA, outA,       \* port A: what its last clock gave, and the one before
    latchB, outB,       \* port B likewise
    writeRow, readRow   \* the addresses of the last two clocks, the older first

bramVars == <<mem, latchA, outA, latchB, outB, writeRow, readRow>>

\* The walk's status.
Q0 == IF readRow[1] = writeRow[1] THEN outA ELSE outB

\* Mutant: the gate in front of ena is left out.
EnaWrites(we, ce0) == we

\* Port A is enabled by a write and, so that its register follows port B's, by a read.
Ena(we, ce0) == we \/ ce0

PortA(we, addra, dina, ce0) ==
    /\ mem' = IF we THEN [mem EXCEPT ![addra] = dina] ELSE mem
    /\ latchA' = IF Ena(we, ce0) THEN mem'[addra] ELSE latchA
    /\ outA' = IF Ena(we, ce0) THEN latchA ELSE outA

\* What port B gives for an address that port A writes in the same clock is undefined.
PortB(we, addra, address0, ce0) ==
    /\ latchB' \in IF ~ce0 THEN {latchB}
                   ELSE IF we /\ addra = address0 THEN Data ELSE {mem[address0]}
    /\ outB' = IF ce0 THEN latchB ELSE outB

Rows(addra, address0) ==
    /\ writeRow' = <<writeRow[2], addra>>
    /\ readRow' = <<readRow[2], address0>>

\* One clock.  Without a write addra is undefined too.
Bram(we, addra, dina, address0, ce0) ==
    /\ PortA(we, addra, dina, ce0)
    /\ PortB(we, addra, address0, ce0)
    /\ Rows(addra, address0)

\* None of the cells has a reset: the RAM and the registers start with anything.
BramInit ==
    /\ mem \in [Address -> Data]
    /\ latchA \in Data /\ outA \in Data
    /\ latchB \in Data /\ outB \in Data
    /\ writeRow \in Address \X Address
    /\ readRow \in Address \X Address
=============================================================================
