----------------------------- MODULE CellQueue ------------------------------
(***************************************************************************)
(* Circuit cell queues of a relay (src/core/or/relay.c): the per-circuit   *)
(* per-direction queues, the cmux of each channel that flushes them, the   *)
(* high/low watermark backpressure on the exit streams that feed the       *)
(* inbound queues, the queue size cap, the OOM handler and memory-pressure *)
(* time, TRUNCATE, and the DESTROY cells sent when a circuit is freed.     *)
(*                                                                         *)
(* All circuits are OR circuits of this relay sharing one channel per      *)
(* direction: "in" is p_chan (towards the client), "out" is n_chan.  Exit  *)
(* streams write inbound.  Cells are counted, not named: the queues are    *)
(* FIFOs and no property here depends on their contents.  A stream's       *)
(* package window is abstracted to whether it is still open.               *)
(***************************************************************************)
EXTENDS Integers, Sequences, FiniteSets, Functions

CONSTANTS
    Circuits,
    Streams,
    StreamCirc,               \* the circuit of each exit stream
    OpenAtStart,              \* streams already connected initially
    DataPerStream,            \* cells each stream's socket delivers
    MaxForwarded,             \* cells relayed onto each circuit from its peers
    MaxSendmes,               \* stream-level SENDMEs each stream receives
    HIGHWATER,                \* cell_queue_highwatermark()
    LOWWATER,                 \* cell_queue_lowwatermark()
    MaxQueueSize,             \* max_circuit_cell_queue_size(_out)
    MaxMemInQueues,           \* in cells
    MaxMemInQueues_low_threshold,
    MEMORY_PRESSURE_INTERVAL,
    MaxTime,
    NoStream

ASSUME /\ StreamCirc \in [Streams -> Circuits]
       /\ OpenAtStart \subseteq Streams
       /\ LOWWATER < HIGHWATER /\ HIGHWATER <= MaxQueueSize
       /\ MaxMemInQueues_low_threshold <= MaxMemInQueues
       /\ NoStream \notin Streams

Dirs == {"in", "out"}
Queues == Circuits \X Dirs

VARIABLES
    queue,            \* p_chan_cells.n / n_chan_cells.n of each circuit
    cmux_cells,       \* the cell count each cmux holds for the circuit
    blocked,          \* circuit_blocked_on_p_chan / circuit_blocked_on_n_chan
    has_n_chan,       \* the circuit still has an n_chan
    has_p_chan,       \* the circuit still has its p_chan
    marked,           \* marked_for_close
    freed,            \* circuit_about_to_free has run
    destroy_queue,    \* DESTROY cells waiting on each channel's cmux
    stream_state,     \* "connecting", "open" (has a read event) or "closed"
    reading,          \* connection_is_reading
    can_package,      \* the stream's package window is positive
    data,             \* cells still to read from the stream's socket
    packaging,        \* stream inside connection_edge_package_raw_inbuf
    forwarded,        \* cells relayed onto each circuit so far
    sendmes,          \* stream-level SENDMEs received by each stream so far
    now,              \* approx_time()
    last_time_under_memory_pressure,
    ever_under_pressure

vars == <<queue, cmux_cells, blocked, has_n_chan, has_p_chan, marked, freed, destroy_queue,
          stream_state, reading, can_package, data, packaging, forwarded,
          sendmes, now,
          last_time_under_memory_pressure, ever_under_pressure>>

\* The streams set_block_state_for_streams acts on: the exit streams of the
\* circuit (only inbound queues have any) that have a read event.
FeedingStreams(c, d) ==
    IF d = "in"
    THEN {st \in Streams : StreamCirc[st] = c /\ stream_state[st] = "open"}
    ELSE {}

\* cell_queues_get_total_allocation, in cells.
TotalAllocation(q) == SumFunction(q)

\* A cmux that is not told the new count.
update_circuit_on_cmux_skipped(cm, c, d, n) == cm

\* update_circuit_on_cmux_: tell the cmux how many cells the queue holds.
update_circuit_on_cmux(cm, c, d, n) == [cm EXCEPT ![<<c, d>>] = n]

\* set_circuit_blocked_on_chan: the circuit's blocked flag for the channel
\* of direction d becomes block, and the streams feeding that queue stop or
\* start reading.  The result is the new blocked and reading functions.
set_circuit_blocked_on_chan(c, d, block, rd) ==
    [blocked |-> [blocked EXCEPT ![<<c, d>>] = block],
     reading |-> [t \in Streams |-> IF t \in FeedingStreams(c, d) THEN ~block
                                                                  ELSE rd[t]]]

\* The tail of append_cell_to_circuit_queue once the cell is queued in q:
\* block the circuit at the high watermark (stopping its streams), block the
\* sending stream if the circuit already was, update the cmux.
Enqueue(c, d, st, q, cm, rd) ==
    LET was_blocked == blocked[<<c, d>>]
        n == q[<<c, d>>]
        block_now == ~was_blocked /\ n >= HIGHWATER
        b == IF block_now THEN set_circuit_blocked_on_chan(c, d, TRUE, rd)
                          ELSE [blocked |-> blocked, reading |-> rd]
        stopped == IF (block_now \/ was_blocked) /\ st # NoStream THEN {st} ELSE {}
    IN
    /\ queue' = q
    /\ blocked' = b.blocked
    /\ reading' = [t \in Streams |-> IF t \in stopped THEN FALSE ELSE b.reading[t]]
    /\ cmux_cells' = update_circuit_on_cmux(cm, c, d, n)

\* The cap test written with > instead of >=.
queue_is_full_late(n) == n > MaxQueueSize

\* append_cell_to_circuit_queue's test of the queue against
\* max_queue_size, before the cell is copied in.
queue_is_full(n) == n >= MaxQueueSize

\* circuits_handle_oom (circuitlist.c): circuits whose queued cells are the
\* oldest are marked for close and their queues cleared, without telling
\* the cmux.  Which ones is left open: any nonempty set of circuits with
\* queued cells.
OomVictims(q) ==
    (SUBSET {x \in Circuits : ~marked[x] /\ \E d \in Dirs : q[<<x, d>>] > 0}) \ {{}}

\* cell_queues_check_size: at the low threshold the time of memory pressure
\* is noted; at MaxMemInQueues the caller runs the OOM handler (the other
\* caches it may shrink first hold no cells here).
cell_queues_check_size(alloc) ==
    IF alloc >= MaxMemInQueues_low_threshold
    THEN /\ last_time_under_memory_pressure' = now
         /\ ever_under_pressure' = TRUE
    ELSE UNCHANGED <<last_time_under_memory_pressure, ever_under_pressure>>

\* append_cell_to_circuit_queue(c, d, fromstream = st), starting from the
\* queue counts q, cmux counts cm and reading flags rd, with the callers'
\* reaction to -1 (circuit_mark_for_close).  cell_queues_check_size runs
\* after the cell is queued: memory pressure is noted at the low
\* threshold and the OOM handler runs at MaxMemInQueues.
append_cell_to_circuit_queue(c, d, st, q, cm, rd) ==
    \/ /\ marked[c]
       /\ queue' = q /\ cmux_cells' = cm /\ reading' = rd
       /\ UNCHANGED <<marked, blocked, last_time_under_memory_pressure, ever_under_pressure>>
    \/ /\ ~marked[c]
       /\ queue_is_full(q[<<c, d>>])
       /\ marked' = [marked EXCEPT ![c] = TRUE]
       /\ queue' = q /\ cmux_cells' = cm /\ reading' = rd
       /\ UNCHANGED <<blocked, last_time_under_memory_pressure, ever_under_pressure>>
    \/ /\ ~marked[c]
       /\ ~queue_is_full(q[<<c, d>>])
       /\ LET q1 == [q EXCEPT ![<<c, d>>] = @ + 1]
              alloc == TotalAllocation(q1)
          IN
          /\ cell_queues_check_size(alloc)
          /\ \/ /\ alloc < MaxMemInQueues
                /\ UNCHANGED marked
                /\ Enqueue(c, d, st, q1, cm, rd)
             \/ /\ alloc >= MaxMemInQueues
                /\ \E V \in OomVictims(q1) :
                      LET q2 == [k \in Queues |-> IF k[1] \in V THEN 0 ELSE q1[k]] IN
                      /\ marked' = [x \in Circuits |-> marked[x] \/ x \in V]
                      /\ IF c \in V
                         THEN /\ queue' = q2 /\ cmux_cells' = cm /\ reading' = rd
                              /\ UNCHANGED blocked
                         ELSE Enqueue(c, d, st, q2, cm, rd)

\* circuit_clear_cell_queue without its update_circuit_on_cmux.
circuit_clear_cell_queue_skipping_cmux(cm, c, d) == cm

\* circuit_clear_cell_queue: the cmux side of emptying the queue.
circuit_clear_cell_queue(cm, c, d) == update_circuit_on_cmux(cm, c, d, 0)

\* A check of the blocked flag that never reports blocked.
circuit_queue_streams_are_blocked_never(c) == FALSE

\* circuit_queue_streams_are_blocked for an OR circuit, whose exit
\* streams write to p_chan.
circuit_queue_streams_are_blocked(c) == blocked[<<c, "in">>]

StreamUnchanged == UNCHANGED <<stream_state, can_package, data, packaging, sendmes>>
TimeUnchanged == UNCHANGED <<now, last_time_under_memory_pressure, ever_under_pressure>>

\* connection_edge_finished_connecting (connection_edge.c): the exit stream
\* starts reading, then sends RELAY_CONNECTED on its circuit.
connection_edge_finished_connecting(st) ==
    LET c == StreamCirc[st] IN
    /\ packaging = NoStream
    /\ stream_state[st] = "connecting"
    /\ ~marked[c]
    /\ stream_state' = [stream_state EXCEPT ![st] = "open"]
    /\ append_cell_to_circuit_queue(c, "in", st, queue, cmux_cells,
                                    [reading EXCEPT ![st] = TRUE])
    /\ UNCHANGED <<has_n_chan, has_p_chan, freed, destroy_queue, can_package, data,
                   packaging, forwarded, sendmes, now>>

\* connection_edge_process_inbuf: a read event on a reading stream enters
\* connection_edge_package_raw_inbuf.
connection_edge_process_inbuf(st) ==
    /\ packaging = NoStream
    /\ stream_state[st] = "open"
    /\ reading[st]
    /\ data[st] > 0
    /\ ~marked[StreamCirc[st]]
    /\ packaging' = st
    /\ UNCHANGED <<queue, cmux_cells, blocked, has_n_chan, has_p_chan, marked, freed,
                   destroy_queue, stream_state, reading, can_package, data,
                   forwarded, sendmes>>
    /\ TimeUnchanged

\* One pass of the repeat loop of connection_edge_package_raw_inbuf: stop
\* reading on a closed window, stop on an empty inbuf, or package one DATA
\* cell (connection_edge_send_command -> append_cell_to_circuit_queue with
\* fromstream).  The loop does not look at the reading flag, so it keeps
\* packaging after the circuit blocks.  Once the circuit is marked for
\* close later passes only drop cells, and the loop is left.
connection_edge_package_raw_inbuf(st) ==
    LET c == StreamCirc[st] IN
    /\ packaging = st
    /\ \/ /\ ~can_package[st]
          /\ reading' = [reading EXCEPT ![st] = FALSE]
          /\ packaging' = NoStream
          /\ UNCHANGED <<queue, cmux_cells, blocked, marked, can_package, data>>
          /\ TimeUnchanged
       \/ /\ can_package[st]
          /\ data[st] = 0
          /\ packaging' = NoStream
          /\ UNCHANGED <<queue, cmux_cells, blocked, marked, reading, can_package, data>>
          /\ TimeUnchanged
       \/ /\ can_package[st]
          /\ data[st] > 0
          /\ data' = [data EXCEPT ![st] = @ - 1]
          /\ append_cell_to_circuit_queue(c, "in", st, queue, cmux_cells, reading)
          /\ \E w \in BOOLEAN : can_package' = [can_package EXCEPT ![st] = w]
          /\ packaging' = IF marked'[c] THEN NoStream ELSE st
          /\ UNCHANGED now
    /\ UNCHANGED <<has_n_chan, has_p_chan, freed, destroy_queue, stream_state, forwarded, sendmes>>

\* circuit_receive_relay_cell for a cell this relay does not recognize: it
\* goes on the queue towards the other channel (fromstream 0); a full queue
\* closes the circuit (RESOURCELIMIT).  Inbound cells come from n_chan and
\* outbound ones go to it, so either needs the circuit's n_chan.
circuit_receive_relay_cell(c, d) ==
    /\ packaging = NoStream
    /\ ~marked[c]
    /\ forwarded[c] < MaxForwarded
    /\ has_n_chan[c]
    /\ forwarded' = [forwarded EXCEPT ![c] = @ + 1]
    /\ append_cell_to_circuit_queue(c, d, NoStream, queue, cmux_cells, reading)
    /\ UNCHANGED <<has_n_chan, has_p_chan, freed, destroy_queue, now>>
    /\ StreamUnchanged

\* process_sendme_cell, stream level: the window reopens; unless the
\* circuit's queue is blocked the stream starts reading and packages.
process_sendme_cell(st) ==
    LET c == StreamCirc[st] IN
    /\ packaging = NoStream
    /\ stream_state[st] = "open"
    /\ ~marked[c]
    /\ sendmes[st] < MaxSendmes
    /\ sendmes' = [sendmes EXCEPT ![st] = @ + 1]
    /\ can_package' = [can_package EXCEPT ![st] = TRUE]
    /\ IF circuit_queue_streams_are_blocked(c)
       THEN UNCHANGED <<reading, packaging>>
       ELSE /\ reading' = [reading EXCEPT ![st] = TRUE]
            /\ packaging' = st
    /\ UNCHANGED <<queue, cmux_cells, blocked, has_n_chan, has_p_chan, marked, freed,
                   destroy_queue, stream_state, data, forwarded>>
    /\ TimeUnchanged

\* handle_relay_msg, RELAY_COMMAND_TRUNCATE at an OR circuit: clear the
\* n_chan queue, send DESTROY on n_chan, forget n_chan, answer TRUNCATED.
\* (Without an n_chan only TRUNCATED is queued, which is an inbound relay
\* cell like those of circuit_receive_relay_cell.)
truncate(c) ==
    LET q0  == [queue EXCEPT ![<<c, "out">>] = 0]
        cm0 == circuit_clear_cell_queue(cmux_cells, c, "out")
    IN
    /\ packaging = NoStream
    /\ ~marked[c]
    /\ has_n_chan[c]
    /\ destroy_queue' = [destroy_queue EXCEPT !["out"] = Append(@, c)]
    /\ has_n_chan' = [has_n_chan EXCEPT ![c] = FALSE]
    /\ append_cell_to_circuit_queue(c, "in", NoStream, q0, cm0, reading)
    /\ UNCHANGED <<has_p_chan, freed, forwarded, now>>
    /\ StreamUnchanged

\* channel_flush_from_first_active_circuit, one iteration of its loop on
\* the channel of direction d: a DESTROY cell first; otherwise a circuit the
\* cmux holds as active.  An active circuit with an empty queue (cleared by
\* the OOM handler) is set to 0 cells and marked for close.  Otherwise one
\* cell is sent, the cmux is told the new count, and a blocked circuit at
\* or below the low watermark is unblocked, starting its streams' reading.
channel_flush_from_first_active_circuit(d) ==
    /\ packaging = NoStream
    /\ \/ /\ destroy_queue[d] # <<>>
          /\ destroy_queue' = [destroy_queue EXCEPT ![d] = Tail(@)]
          /\ UNCHANGED <<queue, cmux_cells, blocked, marked, reading>>
       \/ /\ destroy_queue[d] = <<>>
          /\ \E c \in Circuits :
                /\ ~freed[c]
                /\ cmux_cells[<<c, d>>] > 0
                /\ \/ /\ queue[<<c, d>>] = 0
                      /\ cmux_cells' = update_circuit_on_cmux(cmux_cells, c, d, 0)
                      /\ marked' = [marked EXCEPT ![c] = TRUE]
                      /\ UNCHANGED <<queue, blocked, reading>>
                   \/ /\ queue[<<c, d>>] > 0
                      /\ LET n == queue[<<c, d>>] - 1
                             unblock == blocked[<<c, d>>] /\ n <= LOWWATER
                             b == IF unblock
                                  THEN set_circuit_blocked_on_chan(c, d, FALSE, reading)
                                  ELSE [blocked |-> blocked, reading |-> reading]
                         IN
                         /\ queue' = [queue EXCEPT ![<<c, d>>] = n]
                         /\ cmux_cells' = update_circuit_on_cmux(cmux_cells, c, d, n)
                         /\ blocked' = b.blocked
                         /\ reading' = b.reading
                      /\ UNCHANGED marked
          /\ UNCHANGED destroy_queue
    /\ UNCHANGED <<has_n_chan, has_p_chan, freed, forwarded>>
    /\ StreamUnchanged
    /\ TimeUnchanged

\* command_process_destroy_cell: a DESTROY from the peer on the channel of
\* direction d.  That channel is nulled (circuit_set_p/n_circid_chan, which
\* detaches the circuit from its cmux) and the circuit is marked for close.
command_process_destroy_cell(c, d) ==
    /\ packaging = NoStream
    /\ ~freed[c]
    /\ IF d = "in" THEN has_p_chan[c] ELSE has_n_chan[c]
    /\ has_p_chan' = IF d = "in" THEN [has_p_chan EXCEPT ![c] = FALSE] ELSE has_p_chan
    /\ has_n_chan' = IF d = "out" THEN [has_n_chan EXCEPT ![c] = FALSE] ELSE has_n_chan
    /\ cmux_cells' = [cmux_cells EXCEPT ![<<c, d>>] = 0]
    /\ marked' = [marked EXCEPT ![c] = TRUE]
    /\ UNCHANGED <<queue, blocked, freed, destroy_queue, reading, forwarded>>
    /\ StreamUnchanged
    /\ TimeUnchanged

\* circuit_about_to_free (circuitlist.c) for a marked circuit: it is
\* detached from both cmuxes, its queues are freed, DESTROY is queued on
\* each channel it still has, and its exit streams are closed.
circuit_about_to_free(c) ==
    LET mine == {st \in Streams : StreamCirc[st] = c} IN
    /\ packaging = NoStream
    /\ marked[c]
    /\ ~freed[c]
    /\ freed' = [freed EXCEPT ![c] = TRUE]
    /\ queue' = [k \in Queues |-> IF k[1] = c THEN 0 ELSE queue[k]]
    /\ cmux_cells' = [k \in Queues |-> IF k[1] = c THEN 0 ELSE cmux_cells[k]]
    /\ destroy_queue' = [destroy_queue EXCEPT
                           !["in"] = IF has_p_chan[c] THEN Append(@, c) ELSE @,
                           !["out"] = IF has_n_chan[c] THEN Append(@, c) ELSE @]
    /\ has_n_chan' = [has_n_chan EXCEPT ![c] = FALSE]
    /\ has_p_chan' = [has_p_chan EXCEPT ![c] = FALSE]
    /\ stream_state' = [st \in Streams |-> IF st \in mine THEN "closed" ELSE stream_state[st]]
    /\ reading' = [st \in Streams |-> reading[st] /\ st \notin mine]
    /\ UNCHANGED <<blocked, marked, can_package, data, packaging, forwarded, sendmes>>
    /\ TimeUnchanged

\* approx_time() advances.
tick ==
    /\ now < MaxTime
    /\ now' = now + 1
    /\ UNCHANGED <<queue, cmux_cells, blocked, has_n_chan, has_p_chan, marked, freed,
                   destroy_queue, reading, forwarded,
                   last_time_under_memory_pressure, ever_under_pressure>>
    /\ StreamUnchanged

\* have_been_under_memory_pressure.
have_been_under_memory_pressure ==
    last_time_under_memory_pressure + MEMORY_PRESSURE_INTERVAL < now

Init ==
    /\ queue = [k \in Queues |-> 0]
    /\ cmux_cells = [k \in Queues |-> 0]
    /\ blocked = [k \in Queues |-> FALSE]
    /\ has_n_chan = [c \in Circuits |-> TRUE]
    /\ has_p_chan = [c \in Circuits |-> TRUE]
    /\ marked = [c \in Circuits |-> FALSE]
    /\ freed = [c \in Circuits |-> FALSE]
    /\ destroy_queue = [d \in Dirs |-> <<>>]
    /\ stream_state = [st \in Streams |-> IF st \in OpenAtStart THEN "open" ELSE "connecting"]
    /\ reading = [st \in Streams |-> st \in OpenAtStart]
    /\ can_package = [st \in Streams |-> TRUE]
    /\ data = [st \in Streams |-> DataPerStream]
    /\ packaging = NoStream
    /\ forwarded = [c \in Circuits |-> 0]
    /\ sendmes = [st \in Streams |-> 0]
    /\ now = 0
    /\ last_time_under_memory_pressure = 0
    /\ ever_under_pressure = FALSE

Next ==
    \/ \E st \in Streams :
          \/ connection_edge_finished_connecting(st)
          \/ connection_edge_process_inbuf(st)
          \/ connection_edge_package_raw_inbuf(st)
          \/ process_sendme_cell(st)
    \/ \E c \in Circuits, d \in Dirs : circuit_receive_relay_cell(c, d)
    \/ \E c \in Circuits :
          \/ truncate(c)
          \/ \E d \in Dirs : command_process_destroy_cell(c, d)
          \/ circuit_about_to_free(c)
    \/ \E d \in Dirs : channel_flush_from_first_active_circuit(d)
    \/ tick

\* The main loop runs every ready event: a package loop runs to its end, a
\* channel with an active circuit is flushed, a read event is handled and a
\* marked circuit is freed at the end of the loop iteration.
Fairness ==
    /\ \A st \in Streams : WF_vars(connection_edge_package_raw_inbuf(st))
    /\ \A st \in Streams : WF_vars(connection_edge_process_inbuf(st))
    /\ \A d \in Dirs : WF_vars(channel_flush_from_first_active_circuit(d))
    /\ \A c \in Circuits : WF_vars(circuit_about_to_free(c))

Spec == Init /\ [][Next]_vars /\ Fairness

-----------------------------------------------------------------------------
TypeOK ==
    /\ queue \in [Queues -> 0..MaxQueueSize]
    /\ cmux_cells \in [Queues -> 0..MaxQueueSize]
    /\ blocked \in [Queues -> BOOLEAN]
    /\ has_n_chan \in [Circuits -> BOOLEAN]
    /\ has_p_chan \in [Circuits -> BOOLEAN]
    /\ marked \in [Circuits -> BOOLEAN]
    /\ freed \in [Circuits -> BOOLEAN]
    /\ \A d \in Dirs : \A i \in 1..Len(destroy_queue[d]) : destroy_queue[d][i] \in Circuits
    /\ stream_state \in [Streams -> {"connecting", "open", "closed"}]
    /\ reading \in [Streams -> BOOLEAN]
    /\ can_package \in [Streams -> BOOLEAN]
    /\ data \in [Streams -> 0..DataPerStream]
    /\ packaging \in Streams \cup {NoStream}
    /\ forwarded \in [Circuits -> 0..MaxForwarded]
    /\ sendmes \in [Streams -> 0..MaxSendmes]
    /\ now \in 0..MaxTime

\* The cmux's cell count for a circuit that is not marked for close equals
\* its queue length (update_circuit_on_cmux after every append, pop and
\* circuit_clear_cell_queue).  Only the OOM handler, which marks what it
\* clears, may leave the cmux behind.
CmuxCountAccurate ==
    \A c \in Circuits, d \in Dirs :
        ~marked[c] => cmux_cells[<<c, d>>] = queue[<<c, d>>]

\* Backpressure (set_circuit_blocked_on_chan, set_block_state_for_streams
\* and the blocked checks of process_sendme_cell and
\* append_cell_to_circuit_queue): while an unmarked circuit's inbound
\* queue is blocked, none of its exit streams reads from its socket, once
\* no package loop is running.
BlockedStreamsStopped ==
    \A st \in Streams :
        LET c == StreamCirc[st] IN
        (packaging = NoStream /\ ~marked[c] /\ blocked[<<c, "in">>]
         /\ stream_state[st] = "open") => ~reading[st]

\* A blocked circuit is eventually unblocked by the cmux flush reaching the
\* low watermark, or closed: the streams blocked on it are not stuck.
BlockedEventuallyReleased ==
    \A c \in Circuits :
        blocked[<<c, "in">>] ~> (~blocked[<<c, "in">>] \/ marked[c])

\* have_been_under_memory_pressure's comment: true iff the allocation was
\* at the low threshold within the last MEMORY_PRESSURE_INTERVAL seconds.
MemoryPressureRecent ==
    have_been_under_memory_pressure =>
        (ever_under_pressure /\ now - last_time_under_memory_pressure <= MEMORY_PRESSURE_INTERVAL)
=============================================================================
