\* entry_guard_get_by_id_digest may stop or start finding the guard while
\* circuits are open; four circuits are enough.
CONSTANTS
    c1 = c1  c2 = c2
    Slots = {c1, c2}
    MaxCircs = 4
    Unit = 2
    PB_MULTFACTOR = 1
    PB_SCALEFACTOR = 2
    MIN_CIRCS = 5
    NOTICE_PCT = 70
    WARN_PCT = 50
    EXTREME_PCT = 30
    SCALE_THRESHOLD = 10
    MIN_USE = 3
    NOTICE_USE_PCT = 80
    EXTREME_USE_PCT = 60
    SCALE_USE_THRESHOLD = 10
    DROPGUARDS = FALSE
    GuardLookupCanFail = TRUE
SYMMETRY Symmetry
VIEW CountsView
SPECIFICATION Spec
\* The client stops after MaxCircs circuits.
CHECK_DEADLOCK FALSE
INVARIANT UseCountsSane
