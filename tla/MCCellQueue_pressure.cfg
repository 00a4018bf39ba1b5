\* have_been_under_memory_pressure against its comment: one circuit with
\* one exit stream, memory pressure from 2 queued cells, no OOM, and time
\* advancing past MEMORY_PRESSURE_INTERVAL.
CONSTANTS
    c1 = c1
    c2 = c2
    s1 = s1
    s2 = s2
    Circuits = {c1}
    Streams = {s1}
    StreamCirc <- MCStreamCirc
    OpenAtStart <- MCOpenAtStart
    DataPerStream = 2
    MaxForwarded = 1
    MaxSendmes = 1
    HIGHWATER = 2
    LOWWATER = 1
    MaxQueueSize = 3
    MaxMemInQueues = 100
    MaxMemInQueues_low_threshold = 2
    MEMORY_PRESSURE_INTERVAL = 1
    MaxTime = 3
    NoStream = NoStream
SPECIFICATION Spec
INVARIANT MemoryPressureRecent
CHECK_DEADLOCK FALSE
