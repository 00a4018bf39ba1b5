----------------------------- MODULE SendmeFlow -----------------------------
(***************************************************************************)
(* Circuit- and stream-level SENDME flow control of one circuit, as done   *)
(* by src/core/or/relay.c and src/core/or/sendme.c (fixed-window           *)
(* algorithm, no congestion control, no conflux, no XON/XOFF).             *)
(*                                                                         *)
(* The client (the origin circuit) packages DATA cells of its streams      *)
(* towards the hop the stream is attached to (conn->cpath_layer).  Each    *)
(* hop decrypts the cells meant for it, decrements its deliver windows,    *)
(* and answers with SENDME cells.  The client checks each circuit-level    *)
(* SENDME against the head of circ->sendme_last_digests and refills the    *)
(* package window of that hop (layer_hint->package_window).               *)
(*                                                                         *)
(* A relay cell digest is abstracted to <<hop, n>>: the running digest     *)
(* state of a hop after n cells, which is all the tag comparison tells     *)
(* apart.  Hops in Forgers are malicious: they may emit SENDMEs they were  *)
(* not owed, with any tag they can compute (one of their own past digest   *)
(* states) or with no tag (version 0).                                     *)
(***************************************************************************)
EXTENDS Integers, Sequences, FiniteSets

CONSTANTS
    Hops,                    \* hops of the circuit that streams exit at
    Streams,                 \* the client's edge connections
    StreamHop,               \* conn->cpath_layer of each stream
    DataPerStream,           \* cells of data each stream's application writes
    CIRCWINDOW_START,
    CIRCWINDOW_INCREMENT,
    STREAMWINDOW_START,
    STREAMWINDOW_INCREMENT,
    OUTBUF_FULL_CELLS,       \* connection_outbuf_too_full() threshold, in cells
    Forgers,                 \* hops that send SENDMEs they are not owed
    MaxForged,               \* bound on forged SENDMEs per hop
    MaxOverrun,              \* bound on DATA cells a modified client sends per hop
                             \* beyond its windows (0: the client is stock)
    EmitMinVersion,          \* sendme_emit_min_version consensus param
    AcceptMinVersion,        \* sendme_accept_min_version consensus param
    NoStream                 \* stream_id 0: a circuit-level cell

ASSUME /\ StreamHop \in [Streams -> Hops]
       /\ Forgers \subseteq Hops
       /\ CIRCWINDOW_START % CIRCWINDOW_INCREMENT = 0
       /\ STREAMWINDOW_START % STREAMWINDOW_INCREMENT = 0
       /\ EmitMinVersion \in {0, 1} /\ AcceptMinVersion \in {0, 1}
       /\ NoStream \notin Streams

\* or.h: the _START_MAX bounds equal the start values.
CIRCWINDOW_START_MAX == CIRCWINDOW_START
STREAMWINDOW_START_MAX == STREAMWINDOW_START
SENDME_MAX_SUPPORTED_VERSION == 1

VARIABLES
    \* client (origin circuit and its edge connections)
    inbuf,                  \* cells of data waiting on each stream
    reading,                \* connection_start/stop_reading state of each stream
    package_window,         \* conn->package_window of each stream
    layer_package_window,   \* layer_hint->package_window of each hop
    sendme_last_digests,    \* circ->sendme_last_digests (one list per circuit)
    layer_digest,           \* cells the client has encrypted towards each hop
    packaging,              \* streams a running package loop still serves
    \* network
    fwd,                    \* relay cells in flight towards each hop
    bwd,                    \* relay cells in flight from each hop
    \* hops (OR circuits and their exit connections)
    hop_digest,             \* relay cells each hop has recognized
    circ_deliver_window,    \* circ->deliver_window at each hop
    deliver_window,         \* conn->deliver_window of each exit stream
    outbuf,                 \* cells written to an exit stream, not yet flushed
    delivered,              \* cells flushed out of each exit stream
    forged,                 \* forged SENDMEs each hop has sent
    overrun,                \* DATA cells the client sent beyond its windows, per hop
    closed                  \* the circuit is marked for close

client == <<inbuf, reading, package_window, layer_package_window,
            sendme_last_digests, layer_digest, packaging>>
hop == <<hop_digest, circ_deliver_window, deliver_window, outbuf,
         delivered, forged>>
vars == <<client, fwd, bwd, hop, overrun, closed>>

StreamsOf(h) == {s \in Streams : StreamHop[s] = h}

DataCell(s) == [command |-> "DATA", stream |-> s, version |-> 0, tag |-> <<>>]
SendmeCell(s, v, t) == [command |-> "SENDME", stream |-> s, version |-> v, tag |-> t]

\* The digest test applied to the window after its decrement.
circuit_sent_cell_for_sendme_late(window) ==
    /\ window - 1 # CIRCWINDOW_START
    /\ (window - 2) % CIRCWINDOW_INCREMENT = 0

\* congestion_control_common.c circuit_sent_cell_for_sendme(), called with
\* the package window before it is decremented: the cell that will be
\* acknowledged by the next SENDME is the one whose digest is kept.
circuit_sent_cell_for_sendme(window) ==
    /\ window # CIRCWINDOW_START
    /\ (window - 1) % CIRCWINDOW_INCREMENT = 0

\* The consider-sending loop with < for <=: one cell late.
SendmesOwed_late(window, start, inc) ==
    IF window >= start - inc THEN 0 ELSE (start - inc - window - 1) \div inc + 1

\* sendme.c sendme_circuit_consider_sending / sendme_connection_edge_
\* consider_sending: the while loop adds an increment per SENDME until the
\* window is above start - increment.  The number of SENDMEs it sends:
SendmesOwed(window, start, inc) ==
    IF window > start - inc THEN 0 ELSE (start - inc - window) \div inc + 1

Repeat(cell, n) == [i \in 1..n |-> cell]

\* sendme_record_cell_digest_on_circ and record_cell_digest_on_circ: the
\* hop's digest after this cell is appended to the circuit's list when
\* circuit_sent_cell_for_sendme holds for the window before its decrement.
sendme_record_cell_digest_on_circ(h) ==
    IF circuit_sent_cell_for_sendme(layer_package_window[h])
    THEN Append(sendme_last_digests, <<h, layer_digest[h] + 1>>)
    ELSE sendme_last_digests

\* sendme_note_circuit_data_packaged and sendme_note_stream_data_packaged
\* with the fixed algorithm (no congestion control, no XON/XOFF): the
\* client decrements the hop's and the stream's package windows.
sendme_note_circuit_data_packaged(h) ==
    [layer_package_window EXCEPT ![h] = @ - 1]

sendme_note_stream_data_packaged(s) == [package_window EXCEPT ![s] = @ - 1]

\* sendme_circuit_data_received and sendme_stream_data_received at the hop:
\* the deliver windows after a DATA cell.
sendme_circuit_data_received(h) == circ_deliver_window[h] - 1

sendme_stream_data_received(s) == deliver_window[s] - 1

(***************************************************************************)
(* Client                                                                  *)
(***************************************************************************)

\* connection_edge_process_inbuf: a read event on a reading stream with
\* data enters connection_edge_package_raw_inbuf.
connection_edge_process_inbuf(s) ==
    /\ ~closed
    /\ packaging = {}
    /\ reading[s]
    /\ inbuf[s] > 0
    /\ packaging' = {s}
    /\ UNCHANGED <<inbuf, reading, package_window, layer_package_window,
                   sendme_last_digests, layer_digest, fwd, bwd, hop, overrun,
                   closed>>

\* One pass of the repeat loop of connection_edge_package_raw_inbuf for
\* stream s, including connection_edge_send_command ->
\* relay_send_command_from_edge_ (record the digest, then decrement the
\* circuit package window) and sendme_note_stream_data_packaged.
connection_edge_package_raw_inbuf(s) ==
    LET h == StreamHop[s] IN
    /\ ~closed
    /\ s \in packaging
    /\ \/ \* circuit_consider_stop_edge_reading: stop every stream of the hop
          /\ layer_package_window[h] <= 0
          /\ reading' = [t \in Streams |->
                           IF StreamHop[t] = h THEN FALSE ELSE reading[t]]
          /\ packaging' = packaging \ StreamsOf(h)
          /\ UNCHANGED <<inbuf, package_window, layer_package_window,
                         sendme_last_digests, layer_digest, fwd>>
       \/ /\ layer_package_window[h] > 0
          /\ package_window[s] <= 0
          /\ reading' = [reading EXCEPT ![s] = FALSE]
          /\ packaging' = packaging \ {s}
          /\ UNCHANGED <<inbuf, package_window, layer_package_window,
                         sendme_last_digests, layer_digest, fwd>>
       \/ \* nothing to package: length == 0
          /\ layer_package_window[h] > 0
          /\ package_window[s] > 0
          /\ inbuf[s] = 0
          /\ packaging' = packaging \ {s}
          /\ UNCHANGED <<inbuf, reading, package_window, layer_package_window,
                         sendme_last_digests, layer_digest, fwd>>
       \/ /\ layer_package_window[h] > 0
          /\ package_window[s] > 0
          /\ inbuf[s] > 0
          /\ inbuf' = [inbuf EXCEPT ![s] = @ - 1]
          /\ layer_digest' = [layer_digest EXCEPT ![h] = @ + 1]
          /\ fwd' = [fwd EXCEPT ![h] = Append(@, DataCell(s))]
          /\ sendme_last_digests' = sendme_record_cell_digest_on_circ(h)
          /\ layer_package_window' = sendme_note_circuit_data_packaged(h)
          /\ package_window' = sendme_note_stream_data_packaged(s)
          /\ UNCHANGED <<reading, packaging>>
    /\ UNCHANGED <<bwd, hop, overrun, closed>>

\* A resume that does nothing, as when circuit_resume_edge_reading returns
\* early on a stale circuit_queue_streams_are_blocked.
circuit_resume_edge_reading_skipped(h) == UNCHANGED <<reading, packaging>>

\* circuit_resume_edge_reading(_helper): every stream of hop h with a
\* positive package window starts reading; those with data on their inbuf
\* are served by the package loop.  The helper's random start and per
\* stream quota only choose the order in which streams are served, which
\* the package loop leaves open.
circuit_resume_edge_reading(h) ==
    /\ reading' = [t \in Streams |->
                     IF StreamHop[t] = h /\ package_window[t] > 0
                     THEN TRUE ELSE reading[t]]
    /\ packaging' = {t \in StreamsOf(h) : package_window[t] > 0 /\ inbuf[t] > 0}

\* v1_tag_matches: the cell's tag against the first recorded digest.
v1_tag_matches(cell) == Head(sendme_last_digests) = cell.tag

\* pop_first_cell_digest: the list without its first digest.
pop_first_cell_digest == Tail(sendme_last_digests)

\* sendme_is_valid without the tag comparison.
sendme_is_valid_untagged(cell) ==
    /\ AcceptMinVersion <= SENDME_MAX_SUPPORTED_VERSION
    /\ cell.version >= AcceptMinVersion
    /\ cell.version <= SENDME_MAX_SUPPORTED_VERSION
    /\ sendme_last_digests # <<>>

\* sendme.c sendme_is_valid: version checks (cell_version_can_be_handled),
\* then the head of circ->sendme_last_digests is popped; none left, or a
\* version 1 tag that differs from it, makes the cell invalid.
sendme_is_valid(cell) ==
    /\ AcceptMinVersion <= SENDME_MAX_SUPPORTED_VERSION
    /\ cell.version >= AcceptMinVersion
    /\ cell.version <= SENDME_MAX_SUPPORTED_VERSION
    /\ sendme_last_digests # <<>>
    /\ cell.version = 1 => v1_tag_matches(cell)

\* process_sendme_cell for a circuit-level SENDME from hop h:
\* sendme_process_circuit_level (validate, then _impl refills the package
\* window of the hop unless that would exceed CIRCWINDOW_START_MAX), then
\* circuit_resume_edge_reading: every stream of the hop with a positive
\* package window starts reading, and those with data enter the package
\* loop of circuit_resume_edge_reading_helper.
process_circuit_sendme(h) ==
    LET cell == Head(bwd[h]) IN
    /\ ~closed
    /\ packaging = {}
    /\ bwd[h] # <<>>
    /\ cell.stream = NoStream
    /\ bwd' = [bwd EXCEPT ![h] = Tail(@)]
    /\ \/ /\ \/ ~sendme_is_valid(cell)
             \/ layer_package_window[h] + CIRCWINDOW_INCREMENT > CIRCWINDOW_START_MAX
          /\ closed' = TRUE
          /\ UNCHANGED client
       \/ /\ sendme_is_valid(cell)
          /\ layer_package_window[h] + CIRCWINDOW_INCREMENT <= CIRCWINDOW_START_MAX
          /\ sendme_last_digests' = pop_first_cell_digest
          /\ layer_package_window' =
                [layer_package_window EXCEPT ![h] = @ + CIRCWINDOW_INCREMENT]
          /\ circuit_resume_edge_reading(h)
          /\ UNCHANGED <<inbuf, package_window, layer_digest>>
          /\ UNCHANGED closed
    /\ UNCHANGED <<fwd, hop, overrun>>

\* sendme_process_stream_level without its bound.
stream_window_fits_unchecked(s) == TRUE

\* sendme_process_stream_level: the refill must not exceed
\* STREAMWINDOW_START_MAX.
stream_window_fits(s) ==
    package_window[s] + STREAMWINDOW_INCREMENT <= STREAMWINDOW_START_MAX

\* process_sendme_cell for a stream-level SENDME: sendme_process_stream_level
\* refills the stream's package window unless that would exceed
\* STREAMWINDOW_START_MAX; then the stream starts reading and packages what
\* is on its inbuf (connection_edge_package_raw_inbuf).
process_stream_sendme(h) ==
    LET cell == Head(bwd[h])
        s == cell.stream
    IN
    /\ ~closed
    /\ packaging = {}
    /\ bwd[h] # <<>>
    /\ s # NoStream
    /\ bwd' = [bwd EXCEPT ![h] = Tail(@)]
    /\ \/ /\ ~stream_window_fits(s)
          /\ closed' = TRUE
          /\ UNCHANGED client
       \/ /\ stream_window_fits(s)
          /\ package_window' = [package_window EXCEPT ![s] = @ + STREAMWINDOW_INCREMENT]
          /\ reading' = [reading EXCEPT ![s] = TRUE]
          /\ packaging' = {s}
          /\ UNCHANGED <<inbuf, layer_package_window, sendme_last_digests,
                         layer_digest, closed>>
    /\ UNCHANGED <<fwd, hop, overrun>>

(***************************************************************************)
(* Hops                                                                    *)
(***************************************************************************)

\* The outbuf check forgotten.
connection_outbuf_too_full_ignored(n) == FALSE

\* connection_outbuf_too_full (connection.c).
connection_outbuf_too_full(n) == n > OUTBUF_FULL_CELLS

\* Hop h recognizes the DATA cell at the head of its queue
\* (circuit_receive_relay_cell -> connection_edge_process_relay_cell):
\* sendme_circuit_data_received, then sendme_circuit_consider_sending with
\* the digest of this very cell; then handle_relay_msg: sendme_stream_data_
\* received, the cell goes to the exit stream's outbuf, and
\* sendme_connection_edge_consider_sending unless the outbuf is too full.
\* A deliver window below 0 closes the circuit (TORPROTOCOL).
circuit_receive_relay_cell(h) ==
    LET s   == Head(fwd[h]).stream
        tag == <<h, hop_digest[h] + 1>>
        cdw == sendme_circuit_data_received(h)
        k   == SendmesOwed(cdw, CIRCWINDOW_START, CIRCWINDOW_INCREMENT)
        sdw == sendme_stream_data_received(s)
        ob  == outbuf[s] + 1
        m   == IF connection_outbuf_too_full(ob) THEN 0
               ELSE SendmesOwed(sdw, STREAMWINDOW_START, STREAMWINDOW_INCREMENT)
        circ_sendmes == Repeat(SendmeCell(NoStream, EmitMinVersion,
                                          IF EmitMinVersion = 1 THEN tag ELSE <<>>), k)
    IN
    /\ ~closed
    /\ fwd[h] # <<>>
    /\ fwd' = [fwd EXCEPT ![h] = Tail(@)]
    /\ hop_digest' = [hop_digest EXCEPT ![h] = @ + 1]
    /\ \/ /\ cdw < 0
          /\ closed' = TRUE
          /\ UNCHANGED <<bwd, circ_deliver_window, deliver_window, outbuf>>
       \/ /\ cdw >= 0
          /\ circ_deliver_window' =
                [circ_deliver_window EXCEPT ![h] = cdw + k * CIRCWINDOW_INCREMENT]
          /\ \/ /\ sdw < 0
                /\ closed' = TRUE
                /\ bwd' = [bwd EXCEPT ![h] = @ \o circ_sendmes]
                /\ UNCHANGED <<deliver_window, outbuf>>
             \/ /\ sdw >= 0
                /\ deliver_window' =
                      [deliver_window EXCEPT ![s] = sdw + m * STREAMWINDOW_INCREMENT]
                /\ outbuf' = [outbuf EXCEPT ![s] = ob]
                /\ bwd' = [bwd EXCEPT ![h] =
                             @ \o circ_sendmes \o Repeat(SendmeCell(s, 0, <<>>), m)]
                /\ UNCHANGED closed
    /\ UNCHANGED <<client, delivered, forged, overrun>>

\* The exit connection flushes n cells to its destination; when its outbuf
\* has room again, sendme_connection_edge_consider_sending sends the stream
\* SENDMEs it held back.
connection_edge_flushed_some(s) ==
    LET h == StreamHop[s] IN
    /\ ~closed
    /\ outbuf[s] > 0
    /\ \E n \in 1..outbuf[s] :
          LET ob == outbuf[s] - n
              m  == IF connection_outbuf_too_full(ob) THEN 0
                    ELSE SendmesOwed(deliver_window[s], STREAMWINDOW_START,
                                     STREAMWINDOW_INCREMENT)
          IN
          /\ outbuf' = [outbuf EXCEPT ![s] = ob]
          /\ delivered' = [delivered EXCEPT ![s] = @ + n]
          /\ deliver_window' =
                [deliver_window EXCEPT ![s] = @ + m * STREAMWINDOW_INCREMENT]
          /\ bwd' = [bwd EXCEPT ![h] = @ \o Repeat(SendmeCell(s, 0, <<>>), m)]
    /\ UNCHANGED <<client, fwd, hop_digest, circ_deliver_window, forged,
                   overrun, closed>>

\* A modified client sends a DATA cell on stream s that neither of its
\* package windows allows.
client_overruns_window(s) ==
    LET h == StreamHop[s] IN
    /\ ~closed
    /\ overrun[h] < MaxOverrun
    /\ fwd' = [fwd EXCEPT ![h] = Append(@, DataCell(s))]
    /\ layer_digest' = [layer_digest EXCEPT ![h] = @ + 1]
    /\ overrun' = [overrun EXCEPT ![h] = @ + 1]
    /\ UNCHANGED <<inbuf, reading, package_window, layer_package_window,
                   sendme_last_digests, packaging, bwd, hop, closed>>

\* A malicious hop sends a circuit-level SENDME it is not owed: version 0,
\* or version 1 with the digest of any cell it has recognized.
forge_circuit_sendme(h) ==
    /\ ~closed
    /\ h \in Forgers
    /\ forged[h] < MaxForged
    /\ \E v \in {0, 1}, n \in 0..hop_digest[h] :
          bwd' = [bwd EXCEPT ![h] =
                    Append(@, SendmeCell(NoStream, v, IF v = 1 THEN <<h, n>> ELSE <<>>))]
    /\ forged' = [forged EXCEPT ![h] = @ + 1]
    /\ UNCHANGED <<client, fwd, hop_digest, circ_deliver_window, deliver_window,
                   outbuf, delivered, overrun, closed>>

\* A malicious hop sends a stream-level SENDME for one of its streams.
forge_stream_sendme(h) ==
    /\ ~closed
    /\ h \in Forgers
    /\ forged[h] < MaxForged
    /\ \E s \in StreamsOf(h) :
          bwd' = [bwd EXCEPT ![h] = Append(@, SendmeCell(s, 0, <<>>))]
    /\ forged' = [forged EXCEPT ![h] = @ + 1]
    /\ UNCHANGED <<client, fwd, hop_digest, circ_deliver_window, deliver_window,
                   outbuf, delivered, overrun, closed>>

(***************************************************************************)
(* Specification                                                           *)
(***************************************************************************)

Init ==
    /\ inbuf = [s \in Streams |-> DataPerStream]
    /\ reading = [s \in Streams |-> TRUE]
    /\ package_window = [s \in Streams |-> STREAMWINDOW_START]
    /\ layer_package_window = [h \in Hops |-> CIRCWINDOW_START]
    /\ sendme_last_digests = <<>>
    /\ layer_digest = [h \in Hops |-> 0]
    /\ packaging = {}
    /\ fwd = [h \in Hops |-> <<>>]
    /\ bwd = [h \in Hops |-> <<>>]
    /\ hop_digest = [h \in Hops |-> 0]
    /\ circ_deliver_window = [h \in Hops |-> CIRCWINDOW_START]
    /\ deliver_window = [s \in Streams |-> STREAMWINDOW_START]
    /\ outbuf = [s \in Streams |-> 0]
    /\ delivered = [s \in Streams |-> 0]
    /\ forged = [h \in Hops |-> 0]
    /\ overrun = [h \in Hops |-> 0]
    /\ closed = FALSE

Next ==
    \/ \E s \in Streams : connection_edge_process_inbuf(s)
    \/ \E s \in Streams : connection_edge_package_raw_inbuf(s)
    \/ \E h \in Hops : process_circuit_sendme(h)
    \/ \E h \in Hops : process_stream_sendme(h)
    \/ \E h \in Hops : circuit_receive_relay_cell(h)
    \/ \E s \in Streams : connection_edge_flushed_some(s)
    \/ \E h \in Hops : forge_circuit_sendme(h)
    \/ \E h \in Hops : forge_stream_sendme(h)
    \/ \E s \in Streams : client_overruns_window(s)

\* The main loop serves every ready event: read events, the package loop,
\* incoming cells at the client and at each hop, and socket flushes.
Fairness ==
    /\ \A s \in Streams : WF_vars(connection_edge_process_inbuf(s))
    /\ \A s \in Streams : WF_vars(connection_edge_package_raw_inbuf(s))
    /\ \A h \in Hops : WF_vars(process_circuit_sendme(h))
    /\ \A h \in Hops : WF_vars(process_stream_sendme(h))
    /\ \A h \in Hops : WF_vars(circuit_receive_relay_cell(h))
    /\ \A s \in Streams : WF_vars(connection_edge_flushed_some(s))

Spec == Init /\ [][Next]_vars /\ Fairness

(***************************************************************************)
(* Properties                                                              *)
(***************************************************************************)

Tags == Hops \X (0..(DataPerStream * Cardinality(Streams) + MaxOverrun))

TypeOK ==
    /\ inbuf \in [Streams -> 0..DataPerStream]
    /\ reading \in [Streams -> BOOLEAN]
    /\ package_window \in [Streams -> 0..STREAMWINDOW_START_MAX]
    /\ layer_package_window \in [Hops -> 0..CIRCWINDOW_START_MAX]
    /\ sendme_last_digests \in Seq(Tags)
    /\ packaging \subseteq Streams
    /\ \A h \in Hops : \A i \in 1..Len(bwd[h]) :
          bwd[h][i].command = "SENDME" /\ bwd[h][i].version \in {0, 1}
    /\ \A h \in Hops : \A i \in 1..Len(fwd[h]) : fwd[h][i] = DataCell(fwd[h][i].stream)
    /\ circ_deliver_window \in [Hops -> Int]
    /\ deliver_window \in [Streams -> Int]
    /\ closed \in BOOLEAN

\* Between honest endpoints, the SENDME that reaches the client next from a
\* hop carries the tag at the head of circ->sendme_last_digests (the spec's
\* "the first tag in sendme_last_tags matches the next SENDME").
FirstTagMatchesNextSendme ==
    \A h \in Hops :
        LET circ_sendmes == SelectSeq(bwd[h], LAMBDA c : c.stream = NoStream) IN
        (circ_sendmes # <<>> /\ Head(circ_sendmes).version = 1) =>
            /\ sendme_last_digests # <<>>
            /\ Head(sendme_last_digests) = Head(circ_sendmes).tag

\* Between honest endpoints the circuit is never closed by the flow control
\* code: no SENDME is rejected, no window goes below 0 or above its maximum.
NoProtocolClose == ~closed

\* An exit stream never buffers more than one stream window beyond the
\* outbuf limit, even for a client that ignores its windows: stream
\* SENDMEs are held back while the outbuf is too full
\* (sendme_connection_edge_consider_sending), and a cell beyond the deliver
\* window closes the circuit (handle_relay_msg, RELAY_COMMAND_DATA).
ExitOutbufBounded ==
    \A s \in Streams : outbuf[s] <= OUTBUF_FULL_CELLS + STREAMWINDOW_START

\* Every cell the applications write is eventually flushed out of its exit
\* stream: the windows never stall with data left (the package loop stops
\* reading and a SENDME resumes it).
AllDataDelivered ==
    <>(\A s \in Streams : delivered[s] = DataPerStream)
(***************************************************************************)
(* Refinement of CircuitCredit                                             *)
(***************************************************************************)

\* Credit returned to hop h so far: the window plus the cells sent on it,
\* less the starting window.
CreditReturned(h) ==
    layer_package_window[h] + (layer_digest[h] - overrun[h]) - CIRCWINDOW_START

Credit == INSTANCE CircuitCredit WITH
    START <- CIRCWINDOW_START,
    INCREMENT <- CIRCWINDOW_INCREMENT,
    window <- layer_package_window,
    sent <- layer_digest,
    received <- hop_digest,
    acked <- [h \in Hops |-> CreditReturned(h)]

\* Under the safety part of CircuitCredit, the window protocol implements
\* credit-based flow control, even against an exit that forges SENDMEs and
\* a client that overruns its window. The client spends one credit per DATA
\* cell. It gets CIRCWINDOW_INCREMENT credits back only after the hop has
\* received that many more cells, and the window never exceeds its start.
\* So any SENDME that process_circuit_sendme and sendme_is_valid accept,
\* forged or not, refunds only cells the hop has already received.
CreditSafety == Credit!SafetySpec
=============================================================================
