---------------------------- MODULE MCTnfRecover ----------------------------
(* The recovery play on the rig's two nodes.                               *)
EXTENDS TnfRecover
=============================================================================
