------------------------- MODULE MCRedfishSessions -------------------------
EXTENDS RedfishSessions, TLC

CONSTANTS c1, c2, k1, k2

MCConnections == {c1, c2}
MCTokens == {k1, k2}
=============================================================================
