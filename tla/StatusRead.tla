---------------------------- MODULE StatusRead ----------------------------
(***************************************************************************)
(* A reader at BramWrapper, with the cadence of tx_checkCurrent, and any   *)
(* writes: stage 0 takes the status of the read before and gives the next  *)
(* address, stage 1 gives that address again, and either stage may be      *)
(* blocked, which takes the enable of the read port away.                  *)
(***************************************************************************)
EXTENDS BramWrapper

VARIABLES
    stage,      \* 0 or 1
    reading,    \* the slot read, readPSN_V of stage 1
    held,       \* history: what the slot held at the end of the clock of the read
    blocked     \* history: the reader was blocked since, or never read

readVars == <<bramVars, stage, reading, held, blocked>>

\* Stage 0: the address of the next read; what is read is what the slot holds after
\* a write of this clock.
Stage0(address0) ==
    /\ stage = 0
    /\ stage' = 1
    /\ reading' = address0
    /\ held' = mem'[address0]
    /\ blocked' = FALSE

Stage1(address0) ==
    /\ stage = 1
    /\ address0 = reading
    /\ stage' = 0
    /\ UNCHANGED <<reading, held, blocked>>

\* A blocked stage 0 changes its address with the status it sees, a blocked stage 1
\* does not.
Blocked(address0) ==
    /\ stage = 1 => address0 = reading
    /\ blocked' = TRUE
    /\ UNCHANGED <<stage, reading, held>>

Reader(address0, ce0) ==
    IF ce0 THEN Stage0(address0) \/ Stage1(address0) ELSE Blocked(address0)

ReadInit ==
    /\ BramInit
    /\ stage = 0
    /\ reading \in Address
    /\ held \in Data
    /\ blocked = TRUE

ReadNext ==
    \E we, ce0 \in BOOLEAN, addra, address0 \in Address, dina \in Data :
        /\ Bram(we, addra, dina, address0, ce0)
        /\ Reader(address0, ce0)

ReadSpec == ReadInit /\ [][ReadNext]_readVars

-----------------------------------------------------------------------------
(* Properties.                                                             *)

\* The status that stage 0 takes is the one its slot held at the end of the clock of
\* the read, whatever was written then, just before or since, and whatever the
\* address of an idle write port was: unless the reader was blocked in between, the
\* bypass of bram_wrapper.v answers with the right port.
ReadIsCurrent == stage = 0 /\ ~blocked => Q0 = held
=============================================================================
