\* Honest client and exit, two streams on one hop.  The windows are
\* shrunk from 1000/100 and 500/50 keeping start a multiple of increment;
\* 3 cells per stream exceed both the stream window (2) and, together,
\* the circuit window (4), so both kinds of SENDME are needed.
CONSTANTS
    h1 = h1  h2 = h2  s1 = s1  s2 = s2
    Hops = {h1}
    Streams = {s1, s2}
    StreamHop <- MCStreamHopOne
    DataPerStream = 5
    CIRCWINDOW_START = 4
    CIRCWINDOW_INCREMENT = 2
    STREAMWINDOW_START = 4
    STREAMWINDOW_INCREMENT = 2
    OUTBUF_FULL_CELLS = 1
    Forgers = {}
    MaxForged = 0
    MaxOverrun = 0
    EmitMinVersion = 1
    AcceptMinVersion = 1
    NoStream = NoStream
SPECIFICATION Spec
INVARIANT FirstTagMatchesNextSendme
INVARIANT NoProtocolClose
PROPERTY AllDataDelivered
\* The applications write a finite amount of data: once it is all
\* delivered the circuit is idle, which is a terminal state.
CHECK_DEADLOCK FALSE
