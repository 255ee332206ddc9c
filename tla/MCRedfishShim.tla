--------------------------- MODULE MCRedfishShim ---------------------------
(* RedfishShim on the rig's two nodes, and on one node that is replaced.    *)
EXTENDS RedfishShim, TLC

CONSTANTS m0, m1, i0, i1, j0, t1, t2

\* One instance per node, both resolved by Name tag.
TwoNodeTags == (i0 :> m0) @@ (j0 :> m1)
TwoNodePins == (m0 :> NoInstance) @@ (m1 :> NoInstance)

\* master-1 is pinned to its instance id.
OnePinned == (m0 :> NoInstance) @@ (m1 :> j0)

\* Two instances launched under master-0's Name tag.
ReplacedTags == (i0 :> m0) @@ (i1 :> m0)
ReplacedPins == (m0 :> NoInstance)

ThreadSymmetry == Permutations(Threads)
=============================================================================
