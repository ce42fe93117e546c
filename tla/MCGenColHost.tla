---------------------------- MODULE MCGenColHost ----------------------------
(***************************************************************************)
(* GenColHost with two cards and the ports of gencol*.cfg, and the         *)
(* exclusive or of the library.                                            *)
(***************************************************************************)
EXTENDS GenColHost, Bitwise

CONSTANT Ports    \* ports of a card

MCCU == {0, 1} \X (0 .. Ports - 1)

MCExclOr(a, b) == a ^^ b
=============================================================================
