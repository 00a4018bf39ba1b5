\* A stock origin and three stock relays.  The RELAY_EARLY budget is cut
\* from 8 to 3 so that it runs out: the EXTEND to hop 2 and two DATA cells
\* to hop 2 spend it, and a cannibalizing EXTEND is then sent as RELAY.
\* Relays may refuse a CREATE or fail a cpuworker job, and the OP may
\* truncate its open circuit at any of its hops.
CONSTANTS
    N = 3
    MAX_RELAY_EARLY_CELLS_PER_CIRCUIT = 3
    InitialPathLen = 2
    MaxData = 2
    CanRefuse = TRUE
    ClientTruncates = TRUE
SPECIFICATION Spec
INVARIANT TypeOK
INVARIANT NoProtocolClose
INVARIANT OrphanFree
INVARIANT PathAgreement
PROPERTY TeardownCompletes
PROPERTY TruncateAnswered
\* There is one circuit: once it is torn down and its cells delivered,
\* nothing is left to happen.
CHECK_DEADLOCK FALSE
