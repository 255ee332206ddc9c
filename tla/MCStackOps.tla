----------------------------- MODULE MCStackOps -----------------------------
(* One stack in every state CloudFormation leaves it in.                   *)
EXTENDS StackOps
=============================================================================
