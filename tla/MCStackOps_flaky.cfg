CONSTANTS
    Attempts = 3
SPECIFICATION Spec
INVARIANT OkMeansWorking AsksOfSettledStack
PROPERTY NeverDeletesWorking RunEnds
