---------------------------- MODULE MCStatusRam ----------------------------
(***************************************************************************)
(* Both sides of the status RAM in one run: the writers with the walk, and *)
(* a reader at the read path.  The two modules share no variable, so one   *)
(* side is looked at a time, as HostDriver does with its handles; the      *)
(* other one then stands still in some state of its own.                   *)
(***************************************************************************)
EXTENDS StatusRam, StatusRead

CONSTANTS s1, old   \* a slot and a status

VARIABLE side   \* the side looked at

sideVars == <<statusVars, readVars, side>>

ReadStill ==
    /\ mem = [s \in Address |-> old]
    /\ {latchA, outA, latchB, outB, held} = {old}
    /\ writeRow = <<s1, s1>> /\ readRow = <<s1, s1>> /\ reading = s1

SidesInit ==
    /\ side \in {"writers", "reader"}
    /\ StatusInit
    /\ ReadInit
    /\ side = "writers" => ReadStill

SidesNext ==
    /\ UNCHANGED side
    /\ \/ side = "writers" /\ StatusNext /\ UNCHANGED readVars
       \/ side = "reader" /\ ReadNext /\ UNCHANGED statusVars

SidesSpec == SidesInit /\ [][SidesNext]_sideVars
=============================================================================
