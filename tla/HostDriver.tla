----------------------------- MODULE HostDriver -----------------------------
(***************************************************************************)
(* The host driver as one program uses it: a thread with a handle of an    *)
(* engine's registers (class HiveNet, an IP) or of a user kernel (class    *)
(* KERNEL).  The two handles share no state, so a behaviour that uses both *)
(* is an interleaving of one of each, and one handle is looked at a time.  *)
(***************************************************************************)
EXTENDS HiveNetRegs, KernelBuffers

VARIABLE handle   \* the handle looked at

driverVars == <<regsVars, bufferVars, handle>>

DriverInit == RegsInit /\ BuffersInit /\ handle \in {"IP", "KERNEL"}

DriverNext ==
    /\ UNCHANGED handle
    /\ \/ handle = "IP" /\ RegsNext /\ UNCHANGED bufferVars
       \/ handle = "KERNEL" /\ BuffersNext /\ UNCHANGED regsVars

DriverSpec == DriverInit /\ [][DriverNext]_driverVars
=============================================================================
