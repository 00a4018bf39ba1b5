# TLA+ models of the Tor relay cell path

This directory holds TLA+ models of the parts of this Tor tree
(`src/src/...`) whose correctness depends on how events interleave. These are
SENDME flow control, circuit cell queues, cell dispatch, the exit DNS cache,
path bias accounting. The microdescriptor cache is planned. Each module translates the
C code named in `PROJECT.json` ("map"), keeping its control flow and
abstracting its data. The models are checked with TLC.

## The system

| Part | Source | State | Operations |
|---|---|---|---|
| SENDME flow control | `core/or/sendme.c`, `core/or/relay.c` | circuit and per-hop package/deliver windows, stream package/deliver windows, `circ->sendme_last_digests` | package DATA (`connection_edge_package_raw_inbuf`), receive DATA (`connection_edge_process_relay_cell`), consider sending SENDMEs, validate and apply SENDMEs (`sendme_is_valid`, `sendme_process_*_level`), stop/resume edge reading |
| Relay cell path | `core/or/relay.c` | recognized/forwarded cells, `remaining_relay_early_cells` | `circuit_receive_relay_cell`, `circuit_package_relay_cell`, `relay_send_command_from_edge_` |
| Cell queues and cmux | `core/or/relay.c` | `n_chan_cells`/`p_chan_cells`, destroy queues, `circuit_blocked_on_*_chan`, streams' `edge_blocked_on_circ`, total allocated cells, memory pressure time | `append_cell_to_circuit_queue`, `channel_flush_from_first_active_circuit`, `circuit_clear_cell_queue`, `cell_queues_check_size` |
| Cell dispatch | `core/or/command.c` | circuit state (ONIONSKIN_PENDING / open), `received_destroy`, p_chan/n_chan | `command_process_create_cell`, `_created_cell`, `_relay_cell`, `_destroy_cell` |
| Exit DNS cache | `feature/relay/dns.c` | hash map of `cached_resolve_t` (PENDING/CACHED/DONE), expiry priority queue, pending connections, per-family answer status | `dns_resolve_impl`, `dns_found_answer`, `make_pending_resolve_cached`, `purge_expired_resolves`, `dns_cancel_pending_resolve`, `launch_resolve`, `dns_cache_handle_oom` |
| Path bias | `feature/client/circpathbias.c` | per-circuit `path_state`, per-guard attempt/success/use counters | count build attempt/success, use attempt/success, probe, close, scale |
| Microdescriptor cache | `feature/nodelist/microdesc.c` | cache map, journal/bytes counts | add to cache, clean, rebuild |
| Relay keys, AES, benchmarks, Ext-ORPort tests | `feature/relay/routerkeys.c`, `lib/crypt_ops/aes_openssl.c`, `test/*` | — | not modelled (see below) |

How the parts interact: DATA cells that `connection_edge_package_raw_inbuf` packages
go through `relay_send_command_from_edge_` into the circuit queue, and the
cmux flushes them to the channel. At the other end,
`command_process_relay_cell` hands them to `circuit_receive_relay_cell`. That
either forwards them or, when they are recognized, passes them to
`connection_edge_process_relay_cell`, which decrements the deliver windows
and answers with SENDMEs. A full queue (high watermark) blocks the edge
streams, and so does an empty package window. A flush down to the low
watermark unblocks the streams, and so does a SENDME.

## Modules

### SendmeFlow (with MCSendmeFlow)

This module covers one origin circuit whose streams exit at one or more hops.

- **Client side.** The variables are `inbuf`, `reading`, `package_window`
  (per stream), `layer_package_window` (per hop, `layer_hint->package_window`),
  `sendme_last_digests` (one list per circuit, as in the code), `layer_digest`
  and `packaging`. `packaging` is the set of streams a running package loop
  still serves. While it is non-empty the single-threaded client does nothing
  else.
- **Network.** `fwd[h]` and `bwd[h]` are the FIFO paths to and from hop `h`.
- **Hop side.** The variables are `hop_digest`, `circ_deliver_window`,
  `deliver_window` (per exit stream), `outbuf` and `delivered`.
- **Relay cell digests.** A digest is abstracted to `<<hop, n>>`: the digest
  state of the hop after its `n`th cell, which is all the tag comparison tells
  apart.

Actions and the code they stand for:

| Action | Code |
|---|---|
| `connection_edge_process_inbuf(s)` | a read event starts the package loop |
| `connection_edge_package_raw_inbuf(s)` | one pass of its `repeat` loop, with `relay_send_command_from_edge_`: the digest is recorded by `sendme_record_cell_digest_on_circ`, then the window is decremented by `sendme_note_circuit_data_packaged`; also `sendme_note_stream_data_packaged` and `circuit_consider_stop_edge_reading` |
| `process_circuit_sendme(h)` | `process_sendme_cell` for stream 0: `sendme_process_circuit_level` (validate, `_impl`), then `circuit_resume_edge_reading` |
| `process_stream_sendme(h)` | `process_sendme_cell` for a stream: `sendme_process_stream_level`, start reading, package |
| `circuit_receive_relay_cell(h)` | a DATA cell recognized at hop `h`: `sendme_circuit_data_received`, then `sendme_circuit_consider_sending` (synchronously, so the tag is this cell's digest), then the DATA case of `handle_relay_msg` |
| `connection_edge_flushed_some(s)` | the exit socket drains and `sendme_connection_edge_consider_sending` releases held-back stream SENDMEs |
| `forge_circuit_sendme`, `forge_stream_sendme` | a malicious hop (`Forgers`) |
| `client_overruns_window` | a modified client (`MaxOverrun`) |

Three definitions come from code outside `src/` and are marked `spec_modelled`:
`circuit_sent_cell_for_sendme` (congestion_control_common.c),
`connection_outbuf_too_full` and the read event (connection.c,
connection_edge.c).

Runs:

- `sendme_honest` (pass). One hop, two streams of 5 cells each. The windows
  are 4/2 (circuit) and 4/2 (stream); the real values are 1000/100 and 500/50,
  and the model keeps start a multiple of increment. Outbuf limit 1. Checks:
  - `FirstTagMatchesNextSendme`: the next SENDME carries the head tag;
  - `NoProtocolClose`: no flow-control close between stock peers;
  - `AllDataDelivered`: liveness.

  Both windows bind, and the exit's outbuf holds SENDMEs back.
- `sendme_hostile` (pass). The exit may send 2 forged SENDMEs of either
  version, with any tag it can compute. The client may send 2 DATA cells
  beyond its windows. The workload is one stream of 6 cells, windows 4/2 and
  an outbuf limit of 1. Checks:
  - `TypeOK`, which includes window ≤ START_MAX;
  - `ExitOutbufBounded`: the exit's outbuf never exceeds the outbuf limit
    plus a stream window.
  - `CreditSafety`: the run refines the safety part of CircuitCredit
    (below). No accepted SENDME, forged or not, refunds cells the hop has not
    received.
- `sendme_twohops` (violation). One stream at each of two hops. The
  per-circuit digest list meets the SENDMEs of two hops in any order, and an
  honest SENDME is compared with the other hop's tag. The spec gives each hop
  its own `sendme_tags`; see the finding in PROJECT.json. Tor clients attach
  their streams to the last hop, so this is a limit of the code: it is
  correct only when all data on a circuit goes to one hop.

Fairness: weak fairness on every handler of the client and the hops, and on
socket flushes. The main loop dispatches every ready event, and a package
loop always runs to its end. The forging and overrunning actions have no
fairness.

`overrun` is counted per hop, so the refinement can tell which hop's
window a cell sent without credit bypassed.

### CircuitCredit (abstract; instanced by SendmeFlow)

CircuitCredit states what circuit-level SENDME flow control promises
(spec.md 4.3), with no windows, digests or cells. Per hop it keeps:

- `window`: the client's credit;
- `sent`: DATA cells sent towards the hop;
- `received`: cells the hop has received;
- `acked`: cells whose credit has come back;
- `overrun`: cells sent without credit.

Its actions:

- `Send`: spends a credit.
- `Overrun`: sends without credit, at most `MaxOverrun` times.
- `Receive`: the hop receives a cell, and may close the circuit.
- `Acknowledge`: returns INCREMENT credits. It is enabled only when the hop
  has received INCREMENT cells not yet acknowledged, and when the credit
  stays within START.
- `Close`.

SendmeFlow instances it with this mapping:

- `window <- layer_package_window`;
- `sent <- layer_digest`;
- `received <- hop_digest`;
- `acked <- CreditReturned(h)`, where `CreditReturned(h)` is the window plus
  the cells sent with credit, minus START.

Each SendmeFlow step then either matches one abstract step or changes none
of the mapped state:

- packaging a cell is a `Send`;
- `client_overruns_window` is an `Overrun`;
- a hop receiving a cell is a `Receive`;
- an accepted circuit SENDME is an `Acknowledge`;
- every close is a `Receive` or a `Close`.

The mapping holds only because the v1 tag stands for what the hop received.
The client records a digest at window positions k·INCREMENT, so a tag it
accepts proves the hop has received k·INCREMENT cells.

`sendme_hostile` checks `CreditSafety == Credit!SafetySpec`. Its mutant drops
the tag comparison (`sendme_is_valid_untagged`), and TLC then finds a forged
SENDME that refunds credit before the hop has the cells.

The liveness part of `Credit!Spec` is weak fairness on `Receive`. It follows
from the weak fairness on `circuit_receive_relay_cell`, and `AllDataDelivered`
already checks it in the honest run. Checking the full `Credit!Spec` on the
hostile state space takes over four minutes, so the liveness part is not
rechecked there.

The finite workload ends in an idle circuit, and a rejected cell ends in a
closed one. Both are terminal states, so the SENDME runs set
`CHECK_DEADLOCK FALSE`. `AllDataDelivered` is what says the honest run ends
in the right terminal state.

### CellQueue (with MCCellQueue)

All circuits are OR circuits of one relay. They share one channel per
direction: "in" is p_chan, towards the client, and "out" is n_chan. The exit
streams of a circuit write to its inbound queue. Cells are counted, not
named.

| Variable | Code |
|---|---|
| `queue[<<c, d>>]` | `p_chan_cells.n` / `n_chan_cells.n` |
| `cmux_cells[<<c, d>>]` | the count the channel's cmux holds (`circuitmux_set_num_cells`) |
| `blocked[<<c, d>>]` | `circuit_blocked_on_p_chan` / `_n_chan` |
| `has_p_chan`, `has_n_chan`, `marked`, `freed` | the circuit's channels, `marked_for_close`, freed |
| `destroy_queue[d]` | the DESTROY cells the cmux sends before any circuit's cells |
| `stream_state`, `reading`, `can_package`, `data`, `packaging` | exit stream: connecting/open/closed, `connection_is_reading`, package window open, socket data left, inside `connection_edge_package_raw_inbuf` |
| `now`, `last_time_under_memory_pressure` | `approx_time()` and the static of relay.c |

| Action | Code |
|---|---|
| `connection_edge_finished_connecting(st)` | the stream starts reading and sends CONNECTED (`fromstream` = st) |
| `connection_edge_process_inbuf(st)` | a read event enters the package loop |
| `connection_edge_package_raw_inbuf(st)` | one pass of its loop: stop reading on a closed window, stop on an empty inbuf, or queue a DATA cell |
| `circuit_receive_relay_cell(c, d)` | an unrecognized cell is queued towards the other channel |
| `process_sendme_cell(st)` | stream-level SENDME: reopen the window; restart reading unless `circuit_queue_streams_are_blocked` |
| `truncate(c)` | `handle_relay_msg` TRUNCATE: `circuit_clear_cell_queue` on n_chan, DESTROY on n_chan, forget n_chan, queue TRUNCATED |
| `channel_flush_from_first_active_circuit(d)` | one iteration of its loop |
| `command_process_destroy_cell(c, d)` | DESTROY from a peer: null that channel and mark |
| `circuit_about_to_free(c)` | free a marked circuit: queues and cmux counts to 0, DESTROY on each remaining channel, streams closed |
| `tick` | time passes |

Every append goes through `append_cell_to_circuit_queue`. This covers the
marked-circuit drop, the `max_queue_size` cap (the circuit is closed),
`cell_queues_check_size` (pressure time, then OOM), the high watermark
(`set_circuit_blocked_on_chan`), the `fromstream` re-block and
`update_circuit_on_cmux`. The OOM handler (`circuits_handle_oom`, outside
`src/`) marks any nonempty set of circuits with cells and clears their
queues. It does not tell the cmux, which is the "cmux dragon" race that
relay.c comments on.

Runs:

- `cellqueue_backpressure` (pass). Circuits c1, c2 and two streams on c1; s2
  connects during the run. High/low watermark 2/1, cap 3, one cell per
  stream, one relayed cell and one SENDME per stream. Checks:
  - `TypeOK`, which includes the cap;
  - `BlockedStreamsStopped`: no stream of a blocked, unmarked circuit reads
    once a package loop is over;
  - `BlockedEventuallyReleased`: a blocked circuit is unblocked or closed.
- `cellqueue_oom` (pass). One stream, 4 cells of total memory, OOM victims
  any nonempty set, 2 clock ticks. Checks `CmuxCountAccurate`: an unmarked
  circuit's cmux count equals its queue. TRUNCATE's clear is covered; the
  dragon is confined to marked circuits.
- `cellqueue_pressure` (violation). `have_been_under_memory_pressure`
  compares in the wrong direction (a code_bug finding in PROJECT.json).

Fairness: weak fairness on the package loop, read events, both channels'
flushes and the freeing of marked circuits. These are what the main loop
always runs. SENDMEs, relayed cells, TRUNCATE and DESTROY come from peers,
so they have no fairness. The stream SENDMEs are bounded (`MaxSendmes`)
because each answers data sent earlier; unbounded, they could starve the
flush.

### DnsCache (with MCDnsCache)

An exit relay resolves the hostname of a BEGIN or RESOLVE stream through
dns.c. A lookup creates a PENDING `cached_resolve_t` in the hash map and the
expiry queue, and sends evdns requests (A, plus AAAA with IPv6Exit, or PTR
for an `.in-addr.arpa` name). Later streams for the same name join its
waiting list. When every request has answered, the waiting streams are told,
and the record becomes DONE and leaves the map. A CACHED copy takes its
place, expiring after the smallest TTL. Expired records are purged by
`dns_resolve_impl` and, with a cutoff in the future, by the OOM handler.
Addresses are model values; an answer is OK or ERR with a TTL from `Ttls`.
Each handler is a function on one record of the whole state (`St`), so a
handler composes the functions it calls, in the code's order.

| Variable | Code |
|---|---|
| `rec[r]` | the `cached_resolve_t` behind id r: state, address, expire, the three `res_status_*`, the smallest TTL set, `pending_connections` |
| `cache[a]` | `cache_root`, the map from address to record |
| `pq` | `cached_resolve_pqueue`, as a set (purges pop by expiry) |
| `stream[st]` | the exit stream: new, resolving, ok (connecting or RESOLVED sent), failed, timeout, closed |
| `queries[<<a, qt>>]` | evdns requests in flight |
| `now` | `time(NULL)` |

| Action | Code |
|---|---|
| `dns_resolve(st)` | `dns_resolve` with `dns_resolve_impl`: purge, refuse a BEGIN to a reverse name, join/answer/create and `launch_resolve`; on -1 `dns_cancel_pending_resolve` |
| `evdns_callback(a, qt)` | one request answers: `dns_found_answer`, `cached_resolve_add_answer`, then `inform_pending_connections` and `make_pending_resolve_cached` |
| `connection_exit_about_to_close(st)` | a RESOLVING stream closes: `connection_dns_remove` |
| `dns_cache_handle_oom` | the OOM loop, all its stopping points (`OomOutcomes`, recursive) |
| `tick` | time passes |

Runs:

- `dns_live` (pass, `MCDnsCache_live.cfg`). A reverse name asked for by
  RESOLVE and by BEGIN, and a forward name asked for A and AAAA on an IPv6
  exit whose launches can fail. The BEGIN to the reverse name is refused,
  and `dns_resolve` then cancels the RESOLVE stream waiting on the same
  name, which is a hazard in PROJECT.json. Late answers from cancelled
  records and OOM purges of pending records happen here. Checks:
  - `TypeOK`;
  - `CacheConsistent`: the map, the queue and the waiting lists agree (the
    assertions of `assert_cache_ok_`, strengthened). Among other cases, this
    covers a DONE record left in the queue beside its CACHED copy. Expiring
    it must not evict the copy from the map: a purge that removed map
    entries by address whatever the record's state fails this check within
    a few steps;
  - `ResolvingStreamsPending`: a stream is RESOLVING exactly when it waits
    on the record the map holds for its address;
  - `ResolvesEventuallyAnswered`: every waiting stream leaves RESOLVING.

Fairness: weak fairness on each evdns answer. evdns retries and times out by
itself and then calls back with an error, so every accepted request is
answered. Nothing else is fair: new streams and OOM come from outside.
`LaunchFailures` lets any `evdns_base_resolve_*` call fail. When the A
launch fails, AAAA stays INFLIGHT and is never sent; the record is then
cancelled, which `ResolvesEventuallyAnswered` depends on.

Not modelled in dns.c:
- IP literals, exit policy reject-star and invalid destinations. They return
  before the cache is touched.
- Nameserver configuration and resolv.conf reloads.
- Wildcard (hijack) detection. `evdns_callback` treats a wildcarded answer
  as an error, so in DnsCache it is one more error result. The detector's
  own state is left out: the per-address answer counts,
  `n_wildcard_requests`, the wildcard list and the wildcarded test
  addresses. It would need a run of its own, and all twelve run slots
  hold runs with properties or findings. It has one ordering hazard,
  listed in PROJECT.json without a property. `wildcard_increment_answer`
  lists an address only when one increment sees both its count above 5
  and more than 10 requests answered. So an address answered for six
  bogus names early, and never again, is never listed.
- The IPv6 timeout counters, which are statistics.

### PathBias (with MCPathBias)

`PathBias.tla` models `src/feature/client/circpathbias.c` for the
general-purpose circuits of a client through one entry guard. It also
models relay.c's calls into it: probe responses, a TRUNCATED that `pathbias_count_valid_cells` turns
into a close, and unrecognized cells on probe circuits
(`circuit_receive_relay_cell`), and an END that signals
tagging (`connection_ap_process_end_not_open`). The circuit lifecycle that
calls the `pathbias_*` functions lives in circuitbuild.c, circuituse.c and
circuitlist.c, which are outside this tree. It is the environment: one
action per caller, each calling what its caller calls at that point. Those
actions are marked spec_modelled.

| variable | code |
|---|---|
| `path_state[s]` | `origin_circuit_t.path_state`, the enum as 0..6 (the code compares with `<`) |
| `phase[s]` | where the circuit is: building, waiting for hop 2's keys, open, a `PATH_BIAS_TESTING` probe, or free |
| `pb` | the guard's `guard_pathbias_t`: counters and rate flags |
| `known` | `entry_guard_get_by_id_digest` finds the guard |
| `launched` | circuits launched so far (bounded by `MaxCircs`) |

The counters are doubles in the code. Here they are integers in units of
1/`Unit`, so one scaling by 1/2 is exact at `Unit` = 2. `Scaled` asserts
exactness, and TLC stops if a run ever needs more precision.

Operations: `entry_guard_inc_circ_attempt_count` (measure, refuse if
disabled, scale, count), `pathbias_count_build_attempt`,
`_build_success`, `_use_attempt`, `pathbias_mark_use_success`,
`_use_rollback`, `pathbias_count_use_success`, `_timeout`,
`pathbias_check_close` (count by state, or send a probe), and both measure
and both scale functions. `pathbias_should_count` is taken as true:
cannibalized, one-hop and hidden-service circuits are not modelled.

Runs:

- `pathbias_counts` (pass, `MCPathBias.cfg`). Two slots, twelve circuits,
  the guard always found. Both scaling thresholds (10) are crossed; a probe
  run showed the counters reaching odd units, so scaling happens. Checks:
  - `CircCountsSane` and `UseCountsSane`: successes never exceed attempts.
    The code logs a violation of either as LD_BUG.
  - `SuccessesAccounted`: every counted success is on a live built circuit
    or counted once as closed, collapsed or unusable, across scaling.
  The view drops the rate flags and `timeouts`. Without DROPGUARDS nothing
  reads them, so this is sound.
- `pathbias_drop` (pass, `MCPathBias_drop.cfg`). One slot, seven circuits,
  DROPGUARDS on, and the guard lookup toggling at any time. The guard is
  disabled and refuses the attempt, closing the circuit. Checks
  `CircCountsSane`.
- `pathbias_lookup` (violation, `MCPathBias_lookup.cfg`).
  `UseCountsSane` fails once the guard lookup can fail. Take a circuit
  whose use attempt was not counted, because the guard was unknown at that
  moment or the build attempt was never counted. `pathbias_mark_use_success`
  still makes it USE_SUCCEEDED, and if the guard is found at close a use
  success is added. This is a finding in PROJECT.json.

No fairness: the client may stop launching circuits, and no liveness
property is claimed.

Not modelled: the probe cell's contents and nonce (a matching answer is one
disjunct); the valid-byte counting of `pathbias_count_valid_cells` (only its
TRUNCATED case changes state); the state file; the rate-limited
logs.

### CircuitCells (with MCCircuitCells)

One circuit from an origin (node 0) through relays 1..N. Each relay holds
its `or_circuit_t` as `circ[i]`: the state (none, ONIONSKIN_PENDING, open,
marked), whether `p_chan` and `n_chan` are set,
`remaining_relay_early_cells`, and whether a cpuworker job is out. The
origin holds `origin`: the build state, the cpath length, the target
length, its own `remaining_relay_early_cells`, whether `n_chan` is set,
and the hop a TRUNCATE awaits an answer from (`trunc`).
Links carry FIFO sequences of cells in each direction (`wire`). A cell is
its command, and for a relay cell the relay command and hop. Circuit ids
are abstracted: a lookup by (circ_id, chan) finds the circuit exactly when
it is live and still attached to that channel.
`protocolClosed` records which nodes closed with TORPROTOCOL.

| Action | Code |
|---|---|
| `command_process_cell_from_behind(i)` | `command_process_cell` on the p side. The create handler with the in-use and hibernation/DoS exits, and a failure after the circuit exists (`CreateOutcomes`). A CREATE then goes to a cpuworker (ONIONSKIN_PENDING); a CREATE_FAST is answered inline, so the circuit opens and CREATED_FAST goes back at once. The relay handler: ONIONSKIN_PENDING, inbound RELAY_EARLY and the budget, then `circuit_receive_relay_cell` (recognize, forward or "circ stops here"), then `handle_relay_msg` EXTEND (dropped unless RELAY_EARLY, else `circuit_extend`) and TRUNCATE (`handle_relay_truncate`: clear the n_chan queue, DESTROY on n_chan, detach it, reply TRUNCATED even with no next hop). The destroy handler from behind |
| `command_process_cell_from_ahead(i)` | `command_process_cell` on the n side: CREATED packed into EXTENDED, inbound relay cells forwarded, DESTROY from ahead |
| `command_process_cell_at_origin` | the OP's created, relay (EXTENDED, TRUNCATED, inbound RELAY_EARLY) and destroy handlers, then `circuit_send_next_onion_skin`; on TRUNCATED, `circuit_truncated` marks the circuit for close with a remote reason (relay.c: "the circuit is being torn down anyway"; circpathbias.c does the same for probe circuits) |
| `circuit_truncate(k)` | an OP that uses TRUNCATE sends one to hop k of its open circuit, and until the answer sends nothing past hop k and does not extend. Tor's own client never sends TRUNCATE, so this is constant `ClientTruncates` |
| `SendData(h)` | one DATA cell through `relay_send_command_from_edge_`, which picks RELAY_EARLY when budget remains and the cell is an EXTEND or not for hop 1 |
| `circuit_establish_circuit`, `circuit_extend_to_new_exit`, `OriginClose` | start a build (the first hop by CREATE or CREATE_FAST), cannibalize, close (spec.md) |
| `cpuworker_reply(i)` | the onionskin answer: open and send CREATED, fail and close, or drop for a circuit already closed (spec.md 6) |
| `RelayClose(i)` | a relay closes on its own (OOM, edge error, channel loss) |

`circuit_mark_for_close` and `circuit_about_to_free` are one step. They
send a DESTROY to each channel still attached and never pass on the remote
reason. They, the cpuworker and `circuit_extend` are in files not in this
tree, so they are modelled from spec.md (`spec_modelled` in the map).

Runs:

- `cells_lifecycle` (pass). N = 3, a two-hop build and MaxData 2. The
  RELAY_EARLY budget is cut to 3 so that it runs out within the bound:
  EXTEND plus two DATA cells to hop 2 spend it, and a cannibalizing EXTEND
  then goes as RELAY. Relays may refuse CREATEs and cpuworkers may fail.
  The OP may truncate at any hop of its open circuit. 109,646
  distinct states, about 1.5 minutes. Checks:
  - `TypeOK`;
  - `NoProtocolClose`: no node ever closes with TORPROTOCOL. The origin's
    RELAY_EARLY accounting matches every relay's, no relay cell meets an
    ONIONSKIN_PENDING circuit, and every cell finds its hop;
  - `OrphanFree`: a live circuit is linked to a live neighbour on each
    attached side, or a CREATE or DESTROY is in flight on that link;
  - `PathAgreement`: while the origin is open and awaits no TRUNCATED,
    every hop in its cpath still has a live circuit or a DESTROY coming
    inward from it. After a truncate this needs `circuit_truncated` to
    close the origin, since the relays past the truncating hop are gone
    (taking TRUNCATED as cpath bookkeeping only breaks it). A relay hop
    that failed meanwhile must also be announced by a DESTROY;
  - `TeardownCompletes`: after the origin closes, every relay circuit
    eventually closes;
  - `TruncateAnswered`: a pending TRUNCATE ends in TRUNCATED or in the
    circuit closing. This includes a truncate at the last hop, where
    there is nothing to cut.
- `cells_nonearly` (violation). Tor's real budget of 8. Seven DATA cells
  to hop 2 spend it, and the cannibalizing EXTEND arrives as plain RELAY.
  `handle_relay_msg` drops it and leaves the circuit open. spec.md section
  7 says this tears the circuit down with TORPROTOCOL (see the finding).

Fairness: weak fairness on reading each link and on each cpuworker reply.
The main loop serves every readable channel, and the worker pool answers
every job (spec.md 6). Building, sending, cannibalizing and closing have no
fairness. There is one circuit, so once it is torn down the model stops
(CHECK_DEADLOCK FALSE).

Not modelled here: circuit ids and their high bit, TAP and unparseable
create cells (a stock OP sends neither), handshake failures at the origin,
`rend_splice`, path-bias testing circuits, the queue cap (CellQueue),
and stream cells. TRUNCATE's queue clearing is modelled as dropping every
cell still on the link toward the cut hop; cells already written to the
channel are not told apart from queued ones. Those cells are DATA only,
since the circuit is open. The queue side of TRUNCATE is in CellQueue.

## Plan (in order)

1. **SendmeFlow** (done): windows, tags, forging, overrun.
2. **CellQueue** (done): queues, cmux flush, backpressure, cap, OOM,
   TRUNCATE, DESTROY, free. Origin-side queues (p_streams blocked on n_chan)
   remain.
3. **CircuitCells** (done): create/created/relay/destroy dispatch, the
   ONIONSKIN_PENDING state, the RELAY_EARLY budget on both ends and
   DESTROY propagation, TRUNCATE/TRUNCATED. Remaining: a hostile peer (inbound RELAY_EARLY,
   a second EXTEND, CREATE on a used id), and circuit ids (two circuits
   sharing a link, re-extension after a truncate).
4. **DnsCache** (done): records, pending connections, the expiry queue,
   answers arriving after purge or cancel, the two-family launch, OOM.
5. **PathBias** (done): the `path_state` machine, the counters with
   scaling, probing, dropguards, and guard lookup failures.
6. **MicrodescCache**: the cache, journal and rebuild.
7. **CircuitCredit** (done): the abstract flow-control spec. SendmeFlow
   refines its safety part by INSTANCE ... WITH.

## Not modelled

- **routerkeys.c**: key files, generation and signatures.
- **aes_openssl.c**: a cipher.
- **bench.c**: timing.
- **test_extorport.c**: tests of code not in this tree.

These are I/O or cryptography with no protocol state for TLC to explore.
Congestion control, conflux and XON/XOFF are outside `src/` and off in every
run.
