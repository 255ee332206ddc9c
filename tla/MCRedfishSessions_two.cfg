SPECIFICATION Spec
CONSTANTS
    c1 = c1
    c2 = c2
    k1 = k1
    k2 = k2
    NoToken = NoToken
    Connections <- MCConnections
    Tokens <- MCTokens
INVARIANTS
    TableIsOpenSessions
    LateIsRefused
PROPERTIES
    GoodGetsThrough
