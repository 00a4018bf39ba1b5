\* Tor's own budget of 8 RELAY_EARLY cells.  A two-hop circuit spends one
\* on its EXTEND and the rest on six DATA cells to hop 2; a cannibalizing
\* EXTEND then leaves as a plain RELAY cell (spec.md S3).  Nothing fails.
CONSTANTS
    N = 3
    MAX_RELAY_EARLY_CELLS_PER_CIRCUIT = 8
    InitialPathLen = 2
    MaxData = 7
    CanRefuse = FALSE
    ClientTruncates = FALSE
SPECIFICATION Spec
PROPERTY NonEarlyExtendTearsDown
CHECK_DEADLOCK FALSE
