CONSTANTS
    Nodes = {m0, m1}
    NoNode = NoNode
    AllowConfirm = TRUE
    AllowRestore = TRUE
SPECIFICATION RecoverSpec
INVARIANT HealthyIsEvidence
PROPERTY NoRepairWithoutFault ToldGoneUnlessBack PlayEnds
