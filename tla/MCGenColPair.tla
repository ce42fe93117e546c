---------------------------- MODULE MCGenColPair ----------------------------
(***************************************************************************)
(* GenColPair with the exclusive or of the library.                        *)
(***************************************************************************)
EXTENDS GenColPair, Bitwise

MCExclOr(a, b) == a ^^ b
=============================================================================
