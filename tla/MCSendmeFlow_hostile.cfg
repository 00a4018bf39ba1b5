\* Both ends misbehave.  The exit may send up to 2 circuit- or stream-level
\* SENDMEs it was not owed, of either version and with any tag it can
\* compute; the client only accepts version 1 (authenticated) SENDMEs.  The
\* client may send up to 2 DATA cells beyond its windows, and the exit
\* flushes its stream at its own pace.  6 cells exceed the circuit window
\* (4) by more than one increment, and the outbuf limit (1) plus the stream
\* window (4).
CONSTANTS
    h1 = h1  h2 = h2  s1 = s1  s2 = s2
    Hops = {h1}
    Streams = {s1}
    StreamHop <- MCStreamHopOne
    DataPerStream = 6
    CIRCWINDOW_START = 4
    CIRCWINDOW_INCREMENT = 2
    STREAMWINDOW_START = 4
    STREAMWINDOW_INCREMENT = 2
    OUTBUF_FULL_CELLS = 1
    Forgers = {h1}
    MaxForged = 2
    MaxOverrun = 2
    EmitMinVersion = 1
    AcceptMinVersion = 1
    NoStream = NoStream
SPECIFICATION Spec
INVARIANT TypeOK
INVARIANT ExitOutbufBounded
PROPERTY CreditSafety
\* A rejected forged SENDME or an overrun closes the circuit, a terminal
\* state.
CHECK_DEADLOCK FALSE
