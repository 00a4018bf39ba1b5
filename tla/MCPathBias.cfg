\* Two circuits at a time, twelve in all: past the scaling threshold (10)
\* and the minimum counts, with the default rates and scale factor 1/2.
CONSTANTS
    c1 = c1  c2 = c2
    Slots = {c1, c2}
    MaxCircs = 12
    Unit = 2
    PB_MULTFACTOR = 1
    PB_SCALEFACTOR = 2
    MIN_CIRCS = 5
    NOTICE_PCT = 70
    WARN_PCT = 50
    EXTREME_PCT = 30
    SCALE_THRESHOLD = 10
    MIN_USE = 3
    NOTICE_USE_PCT = 80
    EXTREME_USE_PCT = 60
    SCALE_USE_THRESHOLD = 10
    DROPGUARDS = FALSE
    GuardLookupCanFail = FALSE
SYMMETRY Symmetry
VIEW CountsView
SPECIFICATION Spec
\* The client stops after MaxCircs circuits.
CHECK_DEADLOCK FALSE
INVARIANTS TypeOK CircCountsSane SuccessesAccounted UseCountsSane
