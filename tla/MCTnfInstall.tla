---------------------------- MODULE MCTnfInstall ----------------------------
(* `make tnf` and `make clean` again and again, with a few ignitions.      *)
EXTENDS TnfInstall
=============================================================================
