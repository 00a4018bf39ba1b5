\* The guard lookup may fail and succeed again, and dropguards is on: a
\* guard whose close rate falls below the extreme rate is disabled.  One
\* circuit at a time, seven in all: the seventh attempt measures six.
CONSTANTS
    c1 = c1  c2 = c2
    Slots = {c1}
    MaxCircs = 7
    Unit = 2
    PB_MULTFACTOR = 1
    PB_SCALEFACTOR = 2
    MIN_CIRCS = 5
    NOTICE_PCT = 70
    WARN_PCT = 50
    EXTREME_PCT = 30
    SCALE_THRESHOLD = 10
    MIN_USE = 3
    NOTICE_USE_PCT = 80
    EXTREME_USE_PCT = 60
    SCALE_USE_THRESHOLD = 10
    DROPGUARDS = TRUE
    GuardLookupCanFail = TRUE
SYMMETRY Symmetry
VIEW DropView
SPECIFICATION Spec
\* The client stops after MaxCircs circuits.
CHECK_DEADLOCK FALSE
INVARIANT CircCountsSane
