---------------------------- MODULE MCHiveFlow ----------------------------
(***************************************************************************)
(* HiveFlow and its invariants with the model values and small sizes of    *)
(* flow.cfg and flow_cold.cfg.                                             *)
(***************************************************************************)
EXTENDS HiveFlowInv
=============================================================================
