CONSTANTS
    m0 = m0  m1 = m1  i0 = i0  i1 = i1  j0 = j0  t1 = t1  t2 = t2
    NoInstance = NoInstance
    Unknown = Unknown
    Systems = {m0, m1}
    Instances = {i0, j0}
    Threads = {t1, t2}
    NameTag <- TwoNodeTags
    Pinned <- OnePinned
SPECIFICATION Spec
SYMMETRY ThreadSymmetry
PROPERTY NoCrossFire OffMeansDown ImplementsOracle
