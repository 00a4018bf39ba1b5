---------------------------- MODULE CircuitCells ----------------------------
(***************************************************************************)
(* One circuit through a chain of relays, cell by cell: the command        *)
(* dispatcher of command.c (CREATE, CREATED, RELAY/RELAY_EARLY, DESTROY),  *)
(* the relay-cell path of relay.c that recognizes, forwards or rejects a   *)
(* relay cell, the RELAY_EARLY budget on both ends, the EXTEND/EXTENDED    *)
(* handlers, TRUNCATE/TRUNCATED, and teardown by DESTROY cells travelling  *)
(* in both directions.                                                     *)
(*                                                                         *)
(* Node 0 is the origin (the client's origin_circuit_t); nodes 1..N are    *)
(* relays, each holding the or_circuit_t of this circuit.  Link i joins    *)
(* node i-1 and node i: wire[Fwd(i)] carries cells outward (p side to n    *)
(* side), wire[Bwd(i)] inward.  A channel delivers in order, so each is a  *)
(* FIFO sequence.  Circuit ids are not modelled: there is one circuit per  *)
(* link, so a lookup by (circ_id, chan) finds it exactly when the node's   *)
(* circuit is live and linked to that channel.                             *)
(*                                                                         *)
(* circuit_mark_for_close and circuit_about_to_free (circuitlist.c), the   *)
(* cpuworker, circuit_extend and circuit_send_next_onion_skin              *)
(* (circuitbuild.c) are not in this source tree; they are modelled from    *)
(* spec.md sections 4 and 5.                                               *)
(***************************************************************************)
EXTENDS Naturals, Sequences, FiniteSets

CONSTANTS
    N,                                  \* number of relays on the chain
    MAX_RELAY_EARLY_CELLS_PER_CIRCUIT,  \* or.h; 8 in Tor
    InitialPathLen,                     \* hops the client first builds
    MaxData,                            \* bound on DATA cells the client sends
    CanRefuse,                          \* hibernation, DoS and worker failures
    ClientTruncates                     \* the OP may send TRUNCATE

ASSUME N \in Nat \ {0} /\ InitialPathLen \in 1..N
ASSUME MAX_RELAY_EARLY_CELLS_PER_CIRCUIT \in Nat /\ MaxData \in Nat
ASSUME CanRefuse \in BOOLEAN /\ ClientTruncates \in BOOLEAN

Relays == 1..N
Nodes == 0..N

Fwd(i) == <<"fwd", i>>
Bwd(i) == <<"bwd", i>>
Links == {Fwd(i) : i \in Relays} \cup {Bwd(i) : i \in Relays}

\* A cell: its command, and for a relay cell the relay command and the hop
\* whose layer it is encrypted to (outward) or that sent it (inward).
CellCmds == {"create", "create_fast", "created", "created_fast", "relay",
             "relay_early", "destroy"}
CreateCmds == {"create", "create_fast"}
CreatedCmds == {"created", "created_fast"}
RelayCmds == {"extend", "extended", "truncate", "truncated", "data", "none"}
Cells == [cmd : CellCmds, rcmd : RelayCmds, hop : Nodes]
Cell(cmd) == [cmd |-> cmd, rcmd |-> "none", hop |-> 0]
RelayCell(cmd, rcmd, hop) == [cmd |-> cmd, rcmd |-> rcmd, hop |-> hop]

\* Circuit states.  "none": no circuit yet; "pending": ONIONSKIN_PENDING;
\* "open"; "closed": marked for close (a marked circuit is invisible to
\* circuit_get_by_circid_channel).  The origin is "building" until its
\* cpath is complete.
OrStates == {"none", "pending", "open", "closed"}
OriginStates == {"none", "building", "open", "closed"}

VARIABLES
    origin,   \* the origin circuit: [state, cpath, target, early, n, sent,
              \*   trunc (hop a TRUNCATE awaits a reply from, or 0)]
    circ,     \* circ[i]: relay i's or_circuit: [state, p, n, early, job]
    wire,     \* wire[l]: cells in flight on link l
    protocolClosed  \* nodes that closed the circuit with TORPROTOCOL

vars == <<origin, circ, wire, protocolClosed>>

Live(i) == circ[i].state \in {"pending", "open"}
OriginLive == origin.state \in {"building", "open"}

Send(w, l, c) == [w EXCEPT ![l] = Append(@, c)]

-----------------------------------------------------------------------------
(* circuit_mark_for_close and circuit_about_to_free (spec 4.5, 5).  The    *)
(* circuit is marked, and when it is freed at the end of the same loop     *)
(* iteration a DESTROY goes to each channel it is still attached to; the   *)
(* reason is never the remote one.  An outcome is the node's new record,   *)
(* the wire, and whether the reason was TORPROTOCOL.                       *)
(***************************************************************************)
circuit_mark_for_close(i, c, w, isProtocol) ==
    LET w1 == IF c.p THEN Send(w, Bwd(i), Cell("destroy")) ELSE w
        w2 == IF c.n THEN Send(w1, Fwd(i + 1), Cell("destroy")) ELSE w1
    IN [c |-> [c EXCEPT !.state = "closed", !.p = FALSE, !.n = FALSE],
        w |-> w2, protocol |-> isProtocol]

Keep(c, w) == [c |-> c, w |-> w, protocol |-> FALSE]

ApplyRelay(i, out) ==
    /\ circ' = [circ EXCEPT ![i] = out.c]
    /\ wire' = out.w
    /\ protocolClosed' = IF out.protocol THEN protocolClosed \cup {i}
                                         ELSE protocolClosed

\* The origin's close sends a DESTROY on its n_chan if it still has one.
origin_mark_for_close(o, w, isProtocol) ==
    [o |-> [o EXCEPT !.state = "closed", !.n = FALSE],
     w |-> IF o.n THEN Send(w, Fwd(1), Cell("destroy")) ELSE w,
     protocol |-> isProtocol]

ApplyOrigin(out) ==
    /\ origin' = out.o
    /\ wire' = out.w
    /\ protocolClosed' = IF out.protocol THEN protocolClosed \cup {0}
                                         ELSE protocolClosed
    /\ UNCHANGED circ

-----------------------------------------------------------------------------
(* The origin side.                                                        *)
(***************************************************************************)

\* Mutant of UseRelayEarly: the remaining budget is not checked.
UseRelayEarly_unbudgeted(o, rcmd, hop) ==
    rcmd = "extend" \/ hop # 1

\* relay_send_command_from_edge_: an outbound cell goes as RELAY_EARLY
\* while budget remains and it is an EXTEND or is not for the first hop.
UseRelayEarly(o, rcmd, hop) ==
    o.early > 0 /\ (rcmd = "extend" \/ hop # 1)

\* Mutant of relay_send_command_from_edge_: the budget is never spent.
relay_send_command_from_edge_no_decrement(o, w, rcmd, hop) ==
    [o |-> o,
     w |-> Send(w, Fwd(1),
                RelayCell(IF UseRelayEarly(o, rcmd, hop) THEN "relay_early" ELSE "relay",
                          rcmd, hop)),
     protocol |-> FALSE]

relay_send_command_from_edge_(o, w, rcmd, hop) ==
    LET early == UseRelayEarly(o, rcmd, hop)
    IN [o |-> IF early THEN [o EXCEPT !.early = @ - 1] ELSE o,
        w |-> Send(w, Fwd(1),
                   RelayCell(IF early THEN "relay_early" ELSE "relay",
                             rcmd, hop)),
        protocol |-> FALSE]

\* circuit_send_next_onion_skin: a CREATE or CREATE_FAST (create_cmd) to
\* the first hop, else EXTEND via the last open hop, else the circuit has
\* opened.
circuit_send_next_onion_skin(o, w, create_cmd) ==
    CASE o.cpath = 0 ->
            [o |-> o, w |-> Send(w, Fwd(1), Cell(create_cmd)), protocol |-> FALSE]
      [] o.cpath < o.target ->
            relay_send_command_from_edge_(o, w, "extend", o.cpath)
      [] OTHER ->
            [o |-> [o EXCEPT !.state = "open"], w |-> w, protocol |-> FALSE]

\* circuit_establish_circuit: a new origin circuit starts its build.  The
\* OP may open the first hop with CREATE_FAST, whose handshake the relay
\* computes inline (spec 4.3, step 7), or with CREATE.
circuit_establish_circuit ==
    /\ origin.state = "none"
    /\ \E create_cmd \in CreateCmds :
          ApplyOrigin(circuit_send_next_onion_skin(
              [origin EXCEPT !.state = "building", !.n = TRUE], wire, create_cmd))

\* Mutant of circuit_truncated: the TRUNCATED is taken as bookkeeping only
\* and the circuit stays open with its full cpath.
circuit_truncated_stays_open(o, k, w) ==
    [o |-> [o EXCEPT !.trunc = 0], w |-> w, protocol |-> FALSE]

\* circuit_truncated: the origin tears the circuit down on a TRUNCATED
\* ("the circuit is being torn down anyway", relay.c), marking it for
\* close with a remote, non-protocol reason.
circuit_truncated(o, k, w) ==
    origin_mark_for_close([o EXCEPT !.trunc = 0], w, FALSE)

\* A cell arriving at the origin from its n_chan: command_process_cell and
\* the created, relay and destroy handlers at the OP.  A closed origin
\* circuit is not found, so the cell is dropped.
OriginHandle(o, c, w) ==
    CASE ~OriginLive -> [o |-> o, w |-> w, protocol |-> FALSE]
      [] c.cmd \in CreatedCmds ->
            circuit_send_next_onion_skin([o EXCEPT !.cpath = 1], w, "create")
      [] c.cmd = "relay_early" ->
            origin_mark_for_close(o, w, TRUE)
      [] c.cmd = "relay" /\ c.rcmd = "extended" ->
            circuit_send_next_onion_skin([o EXCEPT !.cpath = @ + 1], w, "create")
      [] c.cmd = "relay" /\ c.rcmd = "truncated" -> circuit_truncated(o, c.hop, w)
      [] c.cmd = "destroy" ->
            origin_mark_for_close([o EXCEPT !.n = FALSE], w, FALSE)
      [] OTHER -> [o |-> o, w |-> w, protocol |-> FALSE]

command_process_cell_at_origin ==
    /\ wire[Bwd(1)] # <<>>
    /\ ApplyOrigin(OriginHandle(origin, Head(wire[Bwd(1)]),
                                [wire EXCEPT ![Bwd(1)] = Tail(@)]))

\* The user sends a DATA cell through an open circuit to one of its hops.
SendData(h) ==
    /\ origin.state = "open"
    /\ origin.sent < MaxData
    /\ h \in 1..(IF origin.trunc = 0 THEN origin.cpath ELSE origin.trunc)
    /\ ApplyOrigin(relay_send_command_from_edge_(
           [origin EXCEPT !.sent = @ + 1], wire, "data", h))

\* circuit_extend_to_new_exit: an open circuit is cannibalized and grows
\* by one hop; not while a TRUNCATE awaits its reply, when the origin
\* sends nothing past the truncating hop.
circuit_extend_to_new_exit ==
    /\ origin.state = "open"
    /\ origin.trunc = 0
    /\ origin.target < N
    /\ ApplyOrigin(circuit_send_next_onion_skin(
           [origin EXCEPT !.state = "building", !.target = @ + 1], wire, "create"))

\* An OP that uses TRUNCATE (spec 5; Tor's own client does not send it)
\* asks hop k of its open circuit to cut the path after it, and sends
\* nothing past hop k until the TRUNCATED reply.
circuit_truncate(k) ==
    /\ ClientTruncates
    /\ origin.state = "open"
    /\ origin.trunc = 0
    /\ k \in 1..origin.cpath
    /\ ApplyOrigin(relay_send_command_from_edge_(
           [origin EXCEPT !.trunc = k], wire, "truncate", k))

\* The origin closes its circuit: build timeout, or the user is done.
OriginClose ==
    /\ OriginLive
    /\ ApplyOrigin(origin_mark_for_close(origin, wire, FALSE))

-----------------------------------------------------------------------------
(* The relay side.  Relay i meets cells from behind on Fwd(i) and, when    *)
(* i < N, from ahead on Bwd(i+1).                                          *)
(***************************************************************************)

\* circuit_extend (spec 4.6): a relay with no next hop yet opens one and
\* sends it a CREATE.  A second EXTEND on the same circuit is refused.
\* Relay N has no further relay to reach, so its connect fails.
circuit_extend(i, r, w) ==
    CASE r.n    -> circuit_mark_for_close(i, r, w, TRUE)
      [] i = N  -> circuit_mark_for_close(i, r, w, FALSE)
      [] OTHER  -> Keep([r EXCEPT !.n = TRUE], Send(w, Fwd(i + 1), Cell("create")))

\* Mutant of handle_relay_truncate: TRUNCATED is only sent when a next hop
\* was actually cut off.
handle_relay_truncate_reply_if_cut(i, r, w) ==
    IF r.n
    THEN Keep([r EXCEPT !.n = FALSE],
              Send([w EXCEPT ![Fwd(i + 1)] = <<Cell("destroy")>>], Bwd(i),
                   RelayCell("relay", "truncated", i)))
    ELSE Keep(r, w)

\* The TRUNCATE case of handle_relay_msg at a relay: a next hop, if there
\* is one, is cut off (circuit_clear_cell_queue drops the cells still
\* queued for n_chan, then a DESTROY goes out on it and n_chan is
\* detached), and TRUNCATED is sent back whether or not there was one.
handle_relay_truncate(i, r, w) ==
    LET w1 == IF r.n THEN [w EXCEPT ![Fwd(i + 1)] = <<Cell("destroy")>>] ELSE w
    IN Keep([r EXCEPT !.n = FALSE], Send(w1, Bwd(i), RelayCell("relay", "truncated", i)))

\* The EXTEND, EXTENDED and TRUNCATE cases of handle_relay_msg at a relay.  An EXTEND
\* that did not come in a RELAY_EARLY cell is dropped and the circuit is
\* left as it is.  DATA goes to an edge, and an EXTENDED is dropped at a
\* non-origin; neither changes the circuit.
connection_edge_process_relay_cell(i, r, c, w) ==
    CASE c.rcmd = "extend" /\ c.cmd = "relay_early" -> circuit_extend(i, r, w)
      [] c.rcmd = "truncate" -> handle_relay_truncate(i, r, w)
      [] OTHER -> Keep(r, w)

\* circuit_receive_relay_cell: outward, the cell is recognized at the hop
\* it is encrypted to; otherwise it is passed on, keeping its command, or
\* the circuit is closed when there is nowhere to pass it.
circuit_receive_relay_cell(i, r, c, w, dir) ==
    CASE dir = "out" /\ c.hop = i -> connection_edge_process_relay_cell(i, r, c, w)
      [] dir = "out" /\ r.n -> Keep(r, Send(w, Fwd(i + 1), c))
      [] dir = "in" /\ r.p  -> Keep(r, Send(w, Bwd(i), c))
      [] OTHER -> circuit_mark_for_close(i, r, w, TRUE)

\* command_process_relay_cell at a relay: a circuit still waiting on its
\* onionskin, an inbound RELAY_EARLY, or a RELAY_EARLY beyond the budget
\* closes the circuit; otherwise an outbound RELAY_EARLY spends one unit.
command_process_relay_cell(i, r, c, w, dir) ==
    CASE r.state = "pending" -> circuit_mark_for_close(i, r, w, TRUE)
      [] c.cmd = "relay_early" /\ dir = "in" -> circuit_mark_for_close(i, r, w, TRUE)
      [] c.cmd = "relay_early" /\ r.early = 0 -> circuit_mark_for_close(i, r, w, TRUE)
      [] OTHER ->
            circuit_receive_relay_cell(
                i, IF c.cmd = "relay_early" THEN [r EXCEPT !.early = @ - 1] ELSE r,
                c, w, dir)

\* What a relay may do with a CREATE besides accept it: refuse it while
\* hibernating or under DoS defence (a DESTROY back, no circuit), or fail
\* after creating the circuit (the new circuit is closed).  A CREATE fails
\* when the onionskin cannot be handed to a cpuworker, and a CREATE_FAST
\* when the inline handshake or onionskin_answer fails.
CreateOutcomes == IF CanRefuse THEN {"ok", "refused", "failed"}
                               ELSE {"ok"}

\* command_process_create_cell: a circuit id already in use drops the cell;
\* a CREATE goes to a cpuworker (ONIONSKIN_PENDING), and a CREATE_FAST is
\* answered at once, opening the circuit and sending CREATED_FAST back.
command_process_create_cell(i, r, w, outcome, fast) ==
    LET new == [state |-> "pending", p |-> TRUE, n |-> FALSE,
                early |-> MAX_RELAY_EARLY_CELLS_PER_CIRCUIT, job |-> FALSE]
    IN CASE r.state # "none"          -> Keep(r, w)
         [] outcome = "refused"       -> Keep(r, Send(w, Bwd(i), Cell("destroy")))
         [] outcome = "failed"        -> circuit_mark_for_close(i, new, w, FALSE)
         [] fast -> Keep([new EXCEPT !.state = "open"],
                         Send(w, Bwd(i), Cell("created_fast")))
         [] OTHER                     -> Keep([new EXCEPT !.job = TRUE], w)

\* Mutants of command_process_destroy_cell: the channel the DESTROY did
\* not come from is detached too, so nothing is propagated that way.
command_process_destroy_cell_forward_dropped(i, r, w, fromBehind) ==
    circuit_mark_for_close(i, IF fromBehind THEN [r EXCEPT !.p = FALSE, !.n = FALSE]
                                            ELSE [r EXCEPT !.n = FALSE], w, FALSE)

command_process_destroy_cell_back_dropped(i, r, w, fromBehind) ==
    circuit_mark_for_close(i, IF fromBehind THEN [r EXCEPT !.p = FALSE]
                                            ELSE [r EXCEPT !.n = FALSE, !.p = FALSE], w, FALSE)

\* command_process_destroy_cell at a relay: the channel the DESTROY came
\* from is detached first, then the circuit is closed with reason
\* DESTROYED, which sends a DESTROY on toward the other side.
command_process_destroy_cell(i, r, w, fromBehind) ==
    circuit_mark_for_close(i, IF fromBehind THEN [r EXCEPT !.p = FALSE]
                                            ELSE [r EXCEPT !.n = FALSE], w, FALSE)

\* command_process_cell for a cell from behind (the p side).
RelayHandleFromBehind(i, r, c, w, outcome) ==
    CASE c.cmd \in CreateCmds ->
            command_process_create_cell(i, r, w, outcome, c.cmd = "create_fast")
      [] ~Live(i) -> Keep(r, w)
      [] c.cmd \in {"relay", "relay_early"} ->
            command_process_relay_cell(i, r, c, w, "out")
      [] c.cmd = "destroy" -> command_process_destroy_cell(i, r, w, TRUE)
      [] OTHER -> circuit_mark_for_close(i, r, w, TRUE)

\* command_process_cell for a cell from ahead (the n side).  A CREATED is
\* packed into an EXTENDED and sent back toward the origin.
RelayHandleFromAhead(i, r, c, w) ==
    CASE ~(Live(i) /\ r.n) -> Keep(r, w)
      [] c.cmd \in CreatedCmds ->
            Keep(r, Send(w, Bwd(i), RelayCell("relay", "extended", i)))
      [] c.cmd \in {"relay", "relay_early"} ->
            command_process_relay_cell(i, r, c, w, "in")
      [] c.cmd = "destroy" -> command_process_destroy_cell(i, r, w, FALSE)
      [] OTHER -> Keep(r, w)

command_process_cell_from_behind(i) ==
    /\ wire[Fwd(i)] # <<>>
    /\ \E outcome \in CreateOutcomes :
          ApplyRelay(i, RelayHandleFromBehind(i, circ[i], Head(wire[Fwd(i)]),
                                 [wire EXCEPT ![Fwd(i)] = Tail(@)], outcome))
    /\ UNCHANGED origin

command_process_cell_from_ahead(i) ==
    /\ i < N
    /\ wire[Bwd(i + 1)] # <<>>
    /\ ApplyRelay(i, RelayHandleFromAhead(i, circ[i], Head(wire[Bwd(i + 1)]),
                               [wire EXCEPT ![Bwd(i + 1)] = Tail(@)]))
    /\ UNCHANGED origin

\* A cpuworker reply (spec 6): the onionskin answer opens the circuit and
\* sends CREATED back; a failed answer closes it; a reply for a circuit
\* closed in the meantime is dropped.
cpuworker_reply(i) ==
    /\ circ[i].job
    /\ LET r == [circ[i] EXCEPT !.job = FALSE]
       IN \E ok \in IF CanRefuse THEN BOOLEAN ELSE {TRUE} :
            ApplyRelay(i,
              CASE r.state # "pending" -> Keep(r, wire)
                [] ok -> Keep([r EXCEPT !.state = "open"],
                              Send(wire, Bwd(i), Cell("created")))
                [] OTHER -> circuit_mark_for_close(i, r, wire, FALSE))
    /\ UNCHANGED origin

\* A relay closes the circuit on its own: OOM, an edge error, its channel
\* to a neighbour failing.
RelayClose(i) ==
    /\ Live(i)
    /\ ApplyRelay(i, circuit_mark_for_close(i, circ[i], wire, FALSE))
    /\ UNCHANGED origin

-----------------------------------------------------------------------------
Init ==
    /\ origin = [state |-> "none", cpath |-> 0, target |-> InitialPathLen,
                 early |-> MAX_RELAY_EARLY_CELLS_PER_CIRCUIT, n |-> FALSE,
                 sent |-> 0, trunc |-> 0]
    /\ circ = [i \in Relays |-> [state |-> "none", p |-> FALSE, n |-> FALSE,
                                 early |-> 0, job |-> FALSE]]
    /\ wire = [l \in Links |-> <<>>]
    /\ protocolClosed = {}

Next ==
    \/ circuit_establish_circuit
    \/ command_process_cell_at_origin
    \/ \E h \in Relays : SendData(h)
    \/ circuit_extend_to_new_exit
    \/ \E k \in Relays : circuit_truncate(k)
    \/ OriginClose
    \/ \E i \in Relays :
          \/ command_process_cell_from_behind(i)
          \/ command_process_cell_from_ahead(i)
          \/ cpuworker_reply(i)
          \/ RelayClose(i)

\* The main loop reads every channel with cells waiting and runs every
\* cpuworker reply it is handed (spec 6); the user's and the environment's
\* actions have no fairness.
Fairness ==
    /\ WF_vars(command_process_cell_at_origin)
    /\ \A i \in Relays :
          /\ WF_vars(command_process_cell_from_behind(i))
          /\ WF_vars(command_process_cell_from_ahead(i))
          /\ WF_vars(cpuworker_reply(i))

Spec == Init /\ [][Next]_vars /\ Fairness

-----------------------------------------------------------------------------
TypeOK ==
    /\ origin \in [state : OriginStates, cpath : 0..N, target : 1..N,
                   early : 0..MAX_RELAY_EARLY_CELLS_PER_CIRCUIT,
                   n : BOOLEAN, sent : 0..MaxData, trunc : 0..N]
    /\ circ \in [Relays -> [state : OrStates, p : BOOLEAN, n : BOOLEAN,
                           early : 0..MAX_RELAY_EARLY_CELLS_PER_CIRCUIT,
                           job : BOOLEAN]]
    /\ \A l \in Links : wire[l] \in Seq(Cells)
    /\ protocolClosed \subseteq Nodes

\* Between a stock origin and stock relays no node ever closes the circuit
\* for a protocol violation: the origin's RELAY_EARLY accounting in
\* relay_send_command_from_edge_ never exceeds what each relay's
\* command_process_relay_cell allows, no relay cell reaches a circuit still
\* waiting on its onionskin, and every cell finds its hop.
NoProtocolClose == protocolClosed = {}

DestroyToward(l) == \E k \in 1..Len(wire[l]) : wire[l][k].cmd = "destroy"
CreateToward(l) == \E k \in 1..Len(wire[l]) : wire[l][k].cmd \in CreateCmds

LinkedBehind(i) ==
    IF i = 1 THEN OriginLive /\ origin.n ELSE Live(i - 1) /\ circ[i - 1].n

LinkedAhead(i) ==
    (Live(i + 1) /\ circ[i + 1].p) \/ DestroyToward(Bwd(i + 1))
        \/ CreateToward(Fwd(i + 1))

\* No half-open circuit: a live relay circuit is linked to a live circuit
\* behind it or has a DESTROY coming from there, and a live circuit with
\* an n_chan (the origin or a relay) is linked to a live circuit ahead or
\* has a CREATE or DESTROY in flight on that link.  This is what the
\* DESTROY propagation in command_process_destroy_cell and
\* circuit_mark_for_close exists to keep.
OrphanFree ==
    /\ (OriginLive /\ origin.n) =>
          (Live(1) /\ circ[1].p) \/ DestroyToward(Bwd(1)) \/ CreateToward(Fwd(1))
    /\ \A i \in Relays : Live(i) =>
          /\ LinkedBehind(i) \/ DestroyToward(Fwd(i))
          /\ (circ[i].n /\ i < N) => LinkedAhead(i)

\* Once the origin has closed its circuit, every relay circuit on the path
\* is eventually closed too, whatever state each was in (even one still
\* waiting on its cpuworker).
TeardownCompletes ==
    (origin.state = "closed") ~> (\A i \in Relays : ~Live(i))

ConsumesNonEarlyExtend(i) ==
    /\ circ[i].state = "open"
    /\ wire[Fwd(i)] # <<>>
    /\ Head(wire[Fwd(i)]) = RelayCell("relay", "extend", i)
    /\ wire'[Fwd(i)] = Tail(wire[Fwd(i)])

\* spec.md section 7: an EXTEND that did not come in a RELAY_EARLY cell is a
\* protocol error and tears the circuit down with TORPROTOCOL.  The step
\* in which relay i consumes such a cell must close its circuit.
NonEarlyExtendTearsDown ==
    [][\A i \in Relays : ConsumesNonEarlyExtend(i) =>
          circ'[i].state = "closed" /\ i \in protocolClosed']_vars

\* The origin's count of hops agrees with the relays: while it is open and
\* awaits no TRUNCATED, every hop in its cpath still has its circuit, or
\* a DESTROY is coming inward from it.  After a TRUNCATE this rests on
\* circuit_truncated closing the circuit whose far hops the truncating
\* relay has cut off.
PathAgreement ==
    (origin.state = "open" /\ origin.trunc = 0) =>
        \A i \in 1..origin.cpath :
            Live(i) \/ \E j \in 1..i : DestroyToward(Bwd(j))

\* A TRUNCATE is always answered: the origin eventually gets its
\* TRUNCATED or its circuit closes, whether or not the truncating hop had
\* a next hop to cut (handle_relay_truncate replies in both cases).
TruncateAnswered ==
    (origin.trunc # 0) ~> (origin.trunc = 0 \/ origin.state = "closed")

====
