-------------------------- MODULE MCHiveFlowWidth --------------------------
(***************************************************************************)
(* HiveFlowWidth with the model values of flow_wrap.cfg.                  *)
(***************************************************************************)
EXTENDS HiveFlowWidth
=============================================================================
