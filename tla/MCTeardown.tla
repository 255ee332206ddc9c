---------------------------- MODULE MCTeardown -----------------------------
(* One load balancer in each VPC.                                          *)
EXTENDS Teardown
=============================================================================
