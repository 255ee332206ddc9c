---------------------------- MODULE MCShimDeploy ----------------------------
EXTENDS ShimDeploy, TLC

CONSTANTS first, retagged, rekeyed, blank

MCSettings == {first, retagged, rekeyed, blank}
MCComplete == MCSettings \ {blank}
MCSystemsOf == [v \in MCSettings |-> {"master-0", "master-1"}]
MCPasswordOf == [v \in MCSettings |-> IF v = retagged THEN first ELSE v]
=============================================================================
