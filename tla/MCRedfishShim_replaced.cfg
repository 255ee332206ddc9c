CONSTANTS
    m0 = m0  m1 = m1  i0 = i0  i1 = i1  j0 = j0  t1 = t1  t2 = t2
    NoInstance = NoInstance
    Unknown = Unknown
    Systems = {m0}
    Instances = {i0, i1}
    Threads = {t1}
    NameTag <- ReplacedTags
    Pinned <- ReplacedPins
SPECIFICATION Spec
PROPERTY ReplacedKeepsWorking
