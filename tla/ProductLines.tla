---------------------------- MODULE ProductLines ----------------------------
(* The lines the exhibit has parts of: the directories under               *)
(* app/camera-sim/frames, which both images are built from.                *)
EXTENDS Naturals, Sequences, FiniteSets

CONSTANT Names      \* in the order of their names

Categories == {Names[i] : i \in 1..Len(Names)}

\* No element twice.
Distinct(s) == \A i, j \in 1..Len(s) : s[i] = s[j] => i = j

ASSUME NamesAssumption == Names \in Seq(Categories) \ {<<>>} /\ Distinct(Names)
=============================================================================
