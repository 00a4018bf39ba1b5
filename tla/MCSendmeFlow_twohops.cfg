\* Honest client and relays; one stream exits at each of two hops of the
\* circuit, which the relay protocol allows.
CONSTANTS
    h1 = h1  h2 = h2  s1 = s1  s2 = s2
    Hops = {h1, h2}
    Streams = {s1, s2}
    StreamHop <- MCStreamHopTwo
    DataPerStream = 3
    CIRCWINDOW_START = 4
    CIRCWINDOW_INCREMENT = 2
    STREAMWINDOW_START = 2
    STREAMWINDOW_INCREMENT = 1
    OUTBUF_FULL_CELLS = 1
    Forgers = {}
    MaxForged = 0
    MaxOverrun = 0
    EmitMinVersion = 1
    AcceptMinVersion = 1
    NoStream = NoStream
SPECIFICATION Spec
INVARIANT FirstTagMatchesNextSendme
CHECK_DEADLOCK FALSE
