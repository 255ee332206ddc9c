---------------------------- MODULE MCDashboard ----------------------------
(* One page, its cameras and the nodes the analyzer may run on.            *)
EXTENDS Dashboard
=============================================================================
