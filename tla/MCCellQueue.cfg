\* Backpressure: two circuits sharing one channel per direction, two exit
\* streams on c1, one of which connects during the run and sends CONNECTED
\* on a possibly blocked circuit.  High/low watermarks 2/1 below the queue
\* cap 3, so a circuit blocks, unblocks and hits the cap.  The memory limit
\* is out of reach here (the OOM handler is the subject of
\* MCCellQueue_oom.cfg), and time does not advance.
CONSTANTS
    c1 = c1
    c2 = c2
    s1 = s1
    s2 = s2
    Circuits = {c1, c2}
    Streams = {s1, s2}
    StreamCirc <- MCStreamCirc
    OpenAtStart <- MCOpenAtStart
    DataPerStream = 1
    MaxForwarded = 1
    MaxSendmes = 1
    HIGHWATER = 2
    LOWWATER = 1
    MaxQueueSize = 3
    MaxMemInQueues = 100
    MaxMemInQueues_low_threshold = 100
    MEMORY_PRESSURE_INTERVAL = 1
    MaxTime = 0
    NoStream = NoStream
SPECIFICATION Spec
INVARIANT TypeOK
INVARIANT BlockedStreamsStopped
PROPERTY BlockedEventuallyReleased
\* Once every stream has sent its data and every circuit is freed or idle
\* the relay has nothing left to do.
CHECK_DEADLOCK FALSE
