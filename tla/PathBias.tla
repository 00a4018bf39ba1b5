------------------------------ MODULE PathBias --------------------------------
(***************************************************************************)
(* Path bias accounting of a client (src/feature/client/circpathbias.c):  *)
(* the path_state of each origin circuit built through one entry guard,   *)
(* and the guard's guard_pathbias_t counters, rate flags and scaling.     *)
(* The circuit lifecycle that calls into it (circuitbuild.c, circuituse.c,*)
(* connection_edge.c, circuitlist.c) is outside this tree: it is modelled *)
(* as the environment, each step calling the pathbias_* function the      *)
(* caller calls at that point.  relay.c's own calls (probe responses, an  *)
(* END that signals tagging, unrecognized cells on probe circuits) are    *)
(* translated from relay.c.                                               *)
(*                                                                         *)
(* The counters are doubles in the code.  Here they are integers in units *)
(* of 1/Unit: a circuit adds Unit, scaling multiplies by                  *)
(* pb_multfactor/pb_scalefactor, and an Assert stops TLC if a product     *)
(* would not be exact.                                                    *)
(***************************************************************************)
EXTENDS Integers, FiniteSets, TLC

CONSTANTS
    Slots,                  \* origin circuits alive at the same time
    MaxCircs,               \* circuits launched in a run
    Unit,                   \* one circuit, in counter units
    PB_MULTFACTOR,          \* pb_multfactor
    PB_SCALEFACTOR,         \* pb_scalefactor
    MIN_CIRCS,              \* pathbias_get_min_circs
    NOTICE_PCT, WARN_PCT, EXTREME_PCT,
    SCALE_THRESHOLD,        \* pathbias_get_scale_threshold
    MIN_USE,                \* pathbias_get_min_use
    NOTICE_USE_PCT, EXTREME_USE_PCT,
    SCALE_USE_THRESHOLD,    \* pathbias_get_scale_use_threshold
    DROPGUARDS,             \* pathbias_get_dropguards
    GuardLookupCanFail      \* entry_guard_get_by_id_digest may miss the guard

ASSUME /\ Unit \in Nat \ {0}
       /\ 1 <= PB_MULTFACTOR /\ PB_MULTFACTOR <= PB_SCALEFACTOR
       /\ MIN_CIRCS >= 5 /\ MIN_USE >= 3
       /\ SCALE_THRESHOLD >= 10 /\ SCALE_USE_THRESHOLD >= 10
       /\ DROPGUARDS \in BOOLEAN /\ GuardLookupCanFail \in BOOLEAN

\* path_state_t, in its enum order (the code compares states with < and >=).
PATH_STATE_NEW_CIRC == 0
PATH_STATE_BUILD_ATTEMPTED == 1
PATH_STATE_BUILD_SUCCEEDED == 2
PATH_STATE_USE_ATTEMPTED == 3
PATH_STATE_USE_SUCCEEDED == 4
PATH_STATE_USE_FAILED == 5
PATH_STATE_ALREADY_COUNTED == 6

\* Where a circuit is in its life: building its first hop, waiting for the
\* second hop's keys, open, or a PATH_BIAS_TESTING probe circuit.
Phases == {"free", "building", "extending", "open", "probing"}
Live == Phases \ {"free"}

\* Close reasons: ours, the remote side's (END_CIRC_REASON_FLAG_REMOTE),
\* or CHANNEL_CLOSED with the channel closed by us or not.
Reasons == {"local", "remote", "chan_requested", "chan_failed"}

VARIABLES
    path_state,   \* each slot's origin_circuit_t path_state
    phase,
    pb,           \* the guard's guard_pathbias_t
    known,        \* entry_guard_get_by_id_digest finds the guard
    launched

vars == <<path_state, phase, pb, known, launched>>

PbFields == {"circ_attempts", "circ_successes", "successful_circuits_closed",
             "collapsed_circuits", "unusable_circuits", "timeouts",
             "use_attempts", "use_successes"}
PbFlags == {"path_bias_noticed", "path_bias_warned", "path_bias_extreme",
            "path_bias_disabled", "path_bias_use_noticed", "path_bias_use_extreme"}

\* The state as one value, and its assignment to the variables.
St == [ps |-> path_state, phase |-> phase, pb |-> pb]
Apply(S) == /\ path_state' = S.ps /\ phase' = S.phase /\ pb' = S.pb

\* pathbias_count_circs_in_states: live (unmarked) circuits through the
\* guard whose path_state lies in from..to.
pathbias_count_circs_in_states(S, from, to) ==
    Cardinality({s \in Slots : S.phase[s] \in Live /\ S.ps[s] \in from..to})

\* pathbias_get_close_success_count and pathbias_get_use_success_count: the
\* counted successes plus the open circuits given the benefit of the doubt.
pathbias_get_close_success_count(S) ==
    S.pb.successful_circuits_closed
      + Unit * pathbias_count_circs_in_states(S, PATH_STATE_BUILD_SUCCEEDED, PATH_STATE_USE_SUCCEEDED)
pathbias_get_use_success_count(S) ==
    S.pb.use_successes
      + Unit * pathbias_count_circs_in_states(S, PATH_STATE_USE_ATTEMPTED, PATH_STATE_USE_SUCCEEDED)

\* count / attempts < pct/100, for counts in units.
Below(count, attempts, pct) == count * 100 < pct * attempts

\* x * pb_multfactor / pb_scalefactor, which must be exact at this Unit.
Scaled(x) ==
    IF Assert((x * PB_MULTFACTOR) % PB_SCALEFACTOR = 0, "scaling is not exact at this Unit")
    THEN (x * PB_MULTFACTOR) \div PB_SCALEFACTOR ELSE 0

\* pathbias_measure_close_rate: past MIN_CIRCS attempts, a close success
\* rate below the extreme rate disables the guard (with dropguards) or
\* sets path_bias_extreme; below the warn or notice rate it sets that flag.
pathbias_measure_close_rate(S) ==
    LET p  == S.pb
        cs == pathbias_get_close_success_count(S)
        f(flag) == [S EXCEPT !.pb[flag] = TRUE]
    IN IF p.circ_attempts <= MIN_CIRCS * Unit THEN S
       ELSE IF Below(cs, p.circ_attempts, EXTREME_PCT)
            THEN IF DROPGUARDS THEN f("path_bias_disabled") ELSE f("path_bias_extreme")
       ELSE IF Below(cs, p.circ_attempts, WARN_PCT) THEN f("path_bias_warned")
       ELSE IF Below(cs, p.circ_attempts, NOTICE_PCT) THEN f("path_bias_noticed")
       ELSE S

\* pathbias_measure_use_rate, the same for stream use past MIN_USE.
pathbias_measure_use_rate(S) ==
    LET p  == S.pb
        us == pathbias_get_use_success_count(S)
        f(flag) == [S EXCEPT !.pb[flag] = TRUE]
    IN IF p.use_attempts <= MIN_USE * Unit THEN S
       ELSE IF Below(us, p.use_attempts, EXTREME_USE_PCT)
            THEN IF DROPGUARDS THEN f("path_bias_disabled") ELSE f("path_bias_use_extreme")
       ELSE IF Below(us, p.use_attempts, NOTICE_USE_PCT) THEN f("path_bias_use_noticed")
       ELSE S

\* Mutant: the live circuits' attempts are scaled with the rest, while their
\* successes are kept out.
pathbias_scale_close_rates_all_attempts(S) ==
    LET p  == S.pb
        oa == Unit * pathbias_count_circs_in_states(S, PATH_STATE_BUILD_ATTEMPTED, PATH_STATE_BUILD_ATTEMPTED)
        ob == Unit * pathbias_count_circs_in_states(S, PATH_STATE_BUILD_SUCCEEDED, PATH_STATE_USE_FAILED)
    IN IF p.circ_attempts <= SCALE_THRESHOLD * Unit THEN S
       ELSE [S EXCEPT !.pb = [p EXCEPT
               !.circ_attempts = Scaled(@),
               !.circ_successes = Scaled(@ - ob) + ob,
               !.timeouts = Scaled(@),
               !.successful_circuits_closed = Scaled(@),
               !.collapsed_circuits = Scaled(@),
               !.unusable_circuits = Scaled(@)]]

\* Mutant: the successes of the live built circuits are scaled too.
pathbias_scale_close_rates_all_successes(S) ==
    LET p  == S.pb
        oa == Unit * pathbias_count_circs_in_states(S, PATH_STATE_BUILD_ATTEMPTED, PATH_STATE_BUILD_ATTEMPTED)
        ob == Unit * pathbias_count_circs_in_states(S, PATH_STATE_BUILD_SUCCEEDED, PATH_STATE_USE_FAILED)
    IN IF p.circ_attempts <= SCALE_THRESHOLD * Unit THEN S
       ELSE [S EXCEPT !.pb = [p EXCEPT
               !.circ_attempts = Scaled(@ - (oa + ob)) + oa + ob,
               !.circ_successes = Scaled(@),
               !.timeouts = Scaled(@),
               !.successful_circuits_closed = Scaled(@),
               !.collapsed_circuits = Scaled(@),
               !.unusable_circuits = Scaled(@)]]

\* pathbias_scale_close_rates: past SCALE_THRESHOLD attempts, scale the
\* close counters, keeping the attempts (and successes) of the live
\* circuits out of the scaling.
pathbias_scale_close_rates(S) ==
    LET p  == S.pb
        oa == Unit * pathbias_count_circs_in_states(S, PATH_STATE_BUILD_ATTEMPTED, PATH_STATE_BUILD_ATTEMPTED)
        ob == Unit * pathbias_count_circs_in_states(S, PATH_STATE_BUILD_SUCCEEDED, PATH_STATE_USE_FAILED)
    IN IF p.circ_attempts <= SCALE_THRESHOLD * Unit THEN S
       ELSE [S EXCEPT !.pb = [p EXCEPT
               !.circ_attempts = Scaled(@ - (oa + ob)) + oa + ob,
               !.circ_successes = Scaled(@ - ob) + ob,
               !.timeouts = Scaled(@),
               !.successful_circuits_closed = Scaled(@),
               !.collapsed_circuits = Scaled(@),
               !.unusable_circuits = Scaled(@)]]

\* Mutant: the open circuits' use attempts are scaled with the rest.
pathbias_scale_use_rates_all(S) ==
    IF S.pb.use_attempts <= SCALE_USE_THRESHOLD * Unit THEN S
    ELSE [S EXCEPT !.pb.use_attempts = Scaled(@), !.pb.use_successes = Scaled(@)]

\* pathbias_scale_use_rates: the same for the use counters, keeping the
\* circuits in USE_ATTEMPTED..USE_SUCCEEDED out.
pathbias_scale_use_rates(S) ==
    LET p  == S.pb
        oa == Unit * pathbias_count_circs_in_states(S, PATH_STATE_USE_ATTEMPTED, PATH_STATE_USE_SUCCEEDED)
    IN IF p.use_attempts <= SCALE_USE_THRESHOLD * Unit THEN S
       ELSE [S EXCEPT !.pb = [p EXCEPT
               !.use_attempts = Scaled(@ - oa) + oa,
               !.use_successes = Scaled(@)]]

\* entry_guard_inc_circ_attempt_count: measure the close rate; a disabled
\* guard refuses the attempt (-1); otherwise scale and count it.
entry_guard_inc_circ_attempt_count(S) ==
    LET S1 == pathbias_measure_close_rate(S) IN
    IF S1.pb.path_bias_disabled
    THEN [S |-> S1, ret |-> -1]
    ELSE LET S2 == pathbias_scale_close_rates(S1)
         IN [S |-> [S2 EXCEPT !.pb.circ_attempts = @ + Unit], ret |-> 0]

\* pathbias_count_build_attempt for circuit s, at the point where its second
\* hop awaits keys: a NEW circuit whose guard is found becomes
\* BUILD_ATTEMPTED and is counted; the result is < 0 if the guard is
\* disabled.  (Opened, cannibalized circuits are not modelled.)
pathbias_count_build_attempt(S, s) ==
    IF ~known \/ S.ps[s] # PATH_STATE_NEW_CIRC THEN [S |-> S, ret |-> 0]
    ELSE entry_guard_inc_circ_attempt_count([S EXCEPT !.ps[s] = PATH_STATE_BUILD_ATTEMPTED])

\* Mutant: a build success is counted whatever the circuit's path_state.
pathbias_count_build_success_any_state(S, s) ==
    IF ~known THEN S
    ELSE [S EXCEPT !.ps[s] = PATH_STATE_BUILD_SUCCEEDED, !.pb.circ_successes = @ + Unit]

\* pathbias_count_build_success: a BUILD_ATTEMPTED circuit whose guard is
\* found becomes BUILD_SUCCEEDED and counts a success.
pathbias_count_build_success(S, s) ==
    IF ~known \/ S.ps[s] # PATH_STATE_BUILD_ATTEMPTED THEN S
    ELSE [S EXCEPT !.ps[s] = PATH_STATE_BUILD_SUCCEEDED, !.pb.circ_successes = @ + Unit]

\* pathbias_count_use_attempt: a built circuit's first use measures and
\* scales the use rates and counts an attempt if the guard is found; it
\* becomes USE_ATTEMPTED either way.  Earlier states only log.
pathbias_count_use_attempt(S, s) ==
    IF S.ps[s] < PATH_STATE_BUILD_SUCCEEDED \/ S.ps[s] >= PATH_STATE_USE_ATTEMPTED THEN S
    ELSE LET S1 == IF known
                   THEN LET T == pathbias_scale_use_rates(pathbias_measure_use_rate(S))
                        IN [T EXCEPT !.pb.use_attempts = @ + Unit]
                   ELSE S
         IN [S1 EXCEPT !.ps[s] = PATH_STATE_USE_ATTEMPTED]

\* pathbias_mark_use_success: a circuit not yet USE_ATTEMPTED first goes
\* through pathbias_count_use_attempt; then it is USE_SUCCEEDED.
pathbias_mark_use_success(S, s) ==
    LET S1 == IF S.ps[s] < PATH_STATE_USE_ATTEMPTED THEN pathbias_count_use_attempt(S, s) ELSE S
    IN [S1 EXCEPT !.ps[s] = PATH_STATE_USE_SUCCEEDED]

\* Mutant: a rollback that steps the path_state back without checking it.
pathbias_mark_use_rollback_unchecked(S, s) == [S EXCEPT !.ps[s] = @ - 1]

\* pathbias_mark_use_rollback: a stream detached; USE_SUCCEEDED goes back
\* to USE_ATTEMPTED.
pathbias_mark_use_rollback(S, s) ==
    IF S.ps[s] = PATH_STATE_USE_SUCCEEDED THEN [S EXCEPT !.ps[s] = PATH_STATE_USE_ATTEMPTED] ELSE S

\* pathbias_count_successful_close, pathbias_count_collapse,
\* pathbias_count_use_failed, pathbias_count_timeout: add one to a counter
\* if the guard is found.
CountIfKnown(S, field) == IF known THEN [S EXCEPT !.pb[field] = @ + Unit] ELSE S

\* pathbias_count_use_success: a USE_SUCCEEDED circuit adds a use success.
pathbias_count_use_success(S, s) ==
    IF S.ps[s] # PATH_STATE_USE_SUCCEEDED THEN S ELSE CountIfKnown(S, "use_successes")

\* pathbias_count_timeout: a circuit that timed out, unless already used.
pathbias_count_timeout(S, s) ==
    IF S.ps[s] = PATH_STATE_USE_SUCCEEDED THEN S ELSE CountIfKnown(S, "timeouts")

\* pathbias_send_usable_probe succeeds unless the circuit already has a
\* probe out or its channel is closed.
ProbeSent(S, s, reason) ==
    S.phase[s] # "probing" /\ reason \notin {"chan_requested", "chan_failed"}

\* pathbias_check_close (with pathbias_send_usable_probe): count the
\* circuit by its path_state and make it ALREADY_COUNTED, or, for a circuit
\* whose use was attempted and not confirmed, send a probe instead (-1: the
\* circuit stays open as a PATH_BIAS_TESTING circuit).
pathbias_check_close(S, s, reason) ==
    LET st == S.ps[s]
        S1 == CASE st = PATH_STATE_BUILD_SUCCEEDED ->
                     IF reason \in {"remote", "chan_failed"}
                     THEN CountIfKnown(S, "collapsed_circuits")
                     ELSE CountIfKnown(S, "successful_circuits_closed")
                [] st = PATH_STATE_USE_ATTEMPTED /\ ~ProbeSent(S, s, reason) ->
                     CountIfKnown(S, "unusable_circuits")
                [] st = PATH_STATE_USE_SUCCEEDED ->
                     pathbias_count_use_success(CountIfKnown(S, "successful_circuits_closed"), s)
                [] st = PATH_STATE_USE_FAILED ->
                     CountIfKnown(S, "unusable_circuits")
                [] OTHER -> S
    IN IF st = PATH_STATE_USE_ATTEMPTED /\ ProbeSent(S, s, reason)
       THEN [S |-> [S EXCEPT !.phase[s] = "probing"], ret |-> -1]
       ELSE [S |-> [S1 EXCEPT !.ps[s] = PATH_STATE_ALREADY_COUNTED], ret |-> 0]

\* circuit_mark_for_close_: pathbias_check_close, then the circuit is
\* closed unless a probe was sent.
circuit_mark_for_close(S, s, reason) ==
    LET R == pathbias_check_close(S, s, reason)
    IN IF R.ret = -1 THEN R.S ELSE [R.S EXCEPT !.phase[s] = "free"]
-----------------------------------------------------------------------------
\* The circuit lifecycle (callers outside this tree) and relay.c's calls.

\* A new general-purpose circuit through the guard; a disabled guard is no
\* longer chosen.
circuit_launch(s) ==
    /\ phase[s] = "free" /\ launched < MaxCircs /\ ~pb.path_bias_disabled
    /\ phase' = [phase EXCEPT ![s] = "building"]
    /\ path_state' = [path_state EXCEPT ![s] = PATH_STATE_NEW_CIRC]
    /\ launched' = launched + 1
    /\ UNCHANGED <<pb, known>>

\* The first hop is open and the second awaits keys: the build attempt is
\* counted; a refused attempt closes the circuit (TORPROTOCOL).
circuit_send_intermediate_onion_skin(s) ==
    /\ phase[s] = "building"
    /\ LET R == pathbias_count_build_attempt(St, s) IN
       Apply(IF R.ret < 0 THEN circuit_mark_for_close(R.S, s, "local")
             ELSE [R.S EXCEPT !.phase[s] = "extending"])
    /\ UNCHANGED <<known, launched>>

\* The last hop answers: pathbias_count_build_success, then has_opened.
circuit_build_no_more_hops(s) ==
    /\ phase[s] = "extending"
    /\ Apply([pathbias_count_build_success(St, s) EXCEPT !.phase[s] = "open"])
    /\ UNCHANGED <<known, launched>>

\* The build fails or times out (pathbias_count_timeout first) and the
\* circuit is closed.
circuit_build_failed(s) ==
    /\ phase[s] \in {"building", "extending"}
    /\ \E timeout \in BOOLEAN, reason \in Reasons :
         Apply(circuit_mark_for_close(IF timeout THEN pathbias_count_timeout(St, s) ELSE St, s, reason))
    /\ UNCHANGED <<known, launched>>

\* A stream is attached to the open circuit (pathbias_count_use_attempt).
stream_attached(s) ==
    /\ phase[s] = "open"
    /\ Apply(pathbias_count_use_attempt(St, s))
    /\ UNCHANGED <<known, launched>>

\* A stream on it gets CONNECTED or RESOLVED, or an END with a reason that
\* shows the exit understood it (pathbias_mark_use_success).
stream_succeeded(s) ==
    /\ phase[s] = "open"
    /\ Apply(pathbias_mark_use_success(St, s))
    /\ UNCHANGED <<known, launched>>

\* A stream detaches to be retried elsewhere (pathbias_mark_use_rollback).
stream_detached(s) ==
    /\ phase[s] = "open"
    /\ Apply(pathbias_mark_use_rollback(St, s))
    /\ UNCHANGED <<known, launched>>

\* connection_ap_process_end_not_open: an END with reason TORPROTOCOL or
\* DESTROY may be a failed tag: USE_FAILED, and the circuit is closed.
connection_ap_process_end_not_open(s) ==
    /\ phase[s] = "open"
    /\ Apply(circuit_mark_for_close([St EXCEPT !.ps[s] = PATH_STATE_USE_FAILED], s, "local"))
    /\ UNCHANGED <<known, launched>>

\* The open circuit closes: we close it, the far end destroys it, or its
\* channel closes.
circuit_close(s) ==
    /\ phase[s] = "open"
    /\ \E reason \in Reasons : Apply(circuit_mark_for_close(St, s, reason))
    /\ UNCHANGED <<known, launched>>

\* pathbias_check_probe_response: an END with reason EXITPOLICY on the probe
\* stream that echoes the nonce marks use success and closes the circuit
\* (FINISHED). Any other cell returns an error, and a short END or a
\* strange nonce does too; the caller then hands the cell to
\* pathbias_count_valid_cells.
pathbias_check_probe_response(S, s, echoesNonce) ==
    IF echoesNonce
    THEN circuit_mark_for_close(pathbias_mark_use_success(S, s), s, "local")
    ELSE S

\* pathbias_count_valid_cells: a TRUNCATED on the probe circuit goes to
\* circuit_truncated, which closes it with a remote reason; an END or DATA
\* of a half-closed stream only counts as valid bytes.
pathbias_count_valid_cells(S, s, truncated) ==
    IF truncated THEN circuit_mark_for_close(S, s, "remote") ELSE S

\* circuit_receive_relay_cell on a PATH_BIAS_TESTING circuit: a recognized
\* cell goes to pathbias_check_probe_response, and one it rejects to
\* pathbias_count_valid_cells.  An unrecognized cell makes
\* it USE_FAILED and closes it.
circuit_receive_relay_cell(s) ==
    /\ phase[s] = "probing"
    /\ \/ Apply(pathbias_check_probe_response(St, s, TRUE))
       \/ \E truncated \in BOOLEAN :
             Apply(pathbias_count_valid_cells(
                     pathbias_check_probe_response(St, s, FALSE), s, truncated))
       \/ Apply(circuit_mark_for_close([St EXCEPT !.ps[s] = PATH_STATE_USE_FAILED], s, "local"))
    /\ UNCHANGED <<known, launched>>

\* circuit_expire_building gives up on a probe circuit and closes it.
circuit_expire_building(s) ==
    /\ phase[s] = "probing"
    /\ Apply(circuit_mark_for_close(St, s, "local"))
    /\ UNCHANGED <<known, launched>>

\* The guard selection changes, so entry_guard_get_by_id_digest finds the
\* guard or not.
guard_lookup_changes ==
    /\ GuardLookupCanFail
    /\ known' = ~known
    /\ UNCHANGED <<path_state, phase, pb, launched>>

Init ==
    /\ path_state = [s \in Slots |-> PATH_STATE_NEW_CIRC]
    /\ phase = [s \in Slots |-> "free"]
    /\ pb = [f \in PbFields \cup PbFlags |-> IF f \in PbFlags THEN FALSE ELSE 0]
    /\ known = TRUE
    /\ launched = 0

Next ==
    \/ \E s \in Slots :
         \/ circuit_launch(s) \/ circuit_send_intermediate_onion_skin(s)
         \/ circuit_build_no_more_hops(s) \/ circuit_build_failed(s)
         \/ stream_attached(s) \/ stream_succeeded(s) \/ stream_detached(s)
         \/ connection_ap_process_end_not_open(s) \/ circuit_close(s)
         \/ circuit_receive_relay_cell(s) \/ circuit_expire_building(s)
    \/ guard_lookup_changes

Spec == Init /\ [][Next]_vars

TypeOK ==
    /\ path_state \in [Slots -> PATH_STATE_NEW_CIRC..PATH_STATE_ALREADY_COUNTED]
    /\ phase \in [Slots -> Phases]
    /\ \A f \in PbFields : pb[f] \in Int
    /\ \A f \in PbFlags : pb[f] \in BOOLEAN
    /\ known \in BOOLEAN
    /\ launched \in 0..MaxCircs

\* The guard never has more circuit successes than attempts: the code logs
\* "Unexpectedly high successes counts" as a bug in
\* pathbias_count_build_success, and checks the same after
\* pathbias_scale_close_rates moves the live circuits' counts around.
CircCountsSane == pb.circ_successes <= pb.circ_attempts

\* The same for stream use: pathbias_count_use_success logs "Unexpectedly
\* high use successes counts" as a bug.
UseCountsSane == pb.use_successes <= pb.use_attempts

\* The accounting the code states in pathbias_count_successful_close
\* ("circuit_success ~= successful_circuit_close + circ_failure +
\* stream_failure"): every counted success is either still on a live built
\* circuit or counted once as closed, collapsed or unusable, and scaling
\* keeps it so.
SuccessesAccounted ==
    pb.circ_successes =
        pb.successful_circuits_closed + pb.collapsed_circuits + pb.unusable_circuits
          + Unit * pathbias_count_circs_in_states(St, PATH_STATE_BUILD_SUCCEEDED, PATH_STATE_USE_FAILED)
====
