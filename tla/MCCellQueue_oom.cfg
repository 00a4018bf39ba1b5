\* OOM: two circuits, one exit stream on c1, and a total of 4 queued cells
\* (3 raise memory pressure) over all queues running the OOM handler, so
\* its victims are any nonempty set of circuits with cells.  Time advances
\* twice, so memory pressure can be noted at different times.
CONSTANTS
    c1 = c1
    c2 = c2
    s1 = s1
    s2 = s2
    Circuits = {c1, c2}
    Streams = {s1}
    StreamCirc <- MCStreamCirc
    OpenAtStart <- MCOpenAtStart
    DataPerStream = 2
    MaxForwarded = 2
    MaxSendmes = 1
    HIGHWATER = 2
    LOWWATER = 1
    MaxQueueSize = 3
    MaxMemInQueues = 4
    MaxMemInQueues_low_threshold = 3
    MEMORY_PRESSURE_INTERVAL = 1
    MaxTime = 2
    NoStream = NoStream
SPECIFICATION Spec
INVARIANT CmuxCountAccurate
\* The relay stops once the stream's data and the relayed cells are sent.
CHECK_DEADLOCK FALSE
