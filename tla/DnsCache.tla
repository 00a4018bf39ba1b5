------------------------------ MODULE DnsCache -------------------------------
(***************************************************************************)
(* The exit relay's DNS cache (src/feature/relay/dns.c): cached_resolve_t  *)
(* records in the cache map and the expiry priority queue, the streams     *)
(* waiting on a pending record, the evdns requests in flight, and the      *)
(* handlers that change them: dns_resolve (with dns_resolve_impl,          *)
(* purge_expired_resolves, launch_resolve and dns_cancel_pending_resolve), *)
(* evdns_callback -> dns_found_answer (with inform_pending_connections and *)
(* make_pending_resolve_cached), connection_dns_remove and                 *)
(* dns_cache_handle_oom.                                                   *)
(*                                                                         *)
(* A record is an id from Records; the state of all of them, the map, the *)
(* queue, the streams and the requests in flight form one value S so that  *)
(* a handler is a composition of the functions it calls.  Addresses are    *)
(* model values, answers are OK or ERR with a TTL from a small set.        *)
(***************************************************************************)
EXTENDS Integers, FiniteSets

CONSTANTS
    Addresses,
    PtrNames,             \* the .in-addr.arpa names among Addresses
    Streams,
    StreamAddr,           \* exitconn->base_.address
    StreamPurpose,        \* EXIT_PURPOSE_CONNECT or EXIT_PURPOSE_RESOLVE
    StreamFamilies,       \* the families a BEGIN's flags accept
    Records,              \* ids for cached_resolve_t allocations
    IPv6Exit,
    LaunchCanFail,        \* evdns_base_resolve_* may return NULL
    Ttls,                 \* clip_dns_fuzzy_ttl() results
    RESOLVE_MAX_TIMEOUT,
    OomSteps,             \* passes of the dns_cache_handle_oom loop
    OOM_TTL_STEP,         \* MAX_DNS_TTL / 4
    MaxTime,
    NoRecord

Purposes == {"connect", "resolve"}
QTypes == {"A", "AAAA", "PTR"}
Status == {"none", "INFLIGHT", "OK", "ERR"}

ASSUME /\ PtrNames \subseteq Addresses
       /\ StreamAddr \in [Streams -> Addresses]
       /\ StreamPurpose \in [Streams -> Purposes]
       /\ StreamFamilies \in [Streams -> SUBSET {"v4", "v6"}]
       \* each dns_resolve allocates at most one record, and each record at
       \* most one cached copy: the pool never runs out
       /\ Cardinality(Records) >= 2 * Cardinality(Streams)
       /\ NoRecord \notin Records

\* The latest expiry any record can get, and the ttl of a record no answer
\* has set yet (UINT32_MAX in the code), which lies beyond it.
MaxExpire == MaxTime + (CHOOSE m \in Ttls \cup {RESOLVE_MAX_TIMEOUT} :
                           \A x \in Ttls \cup {RESOLVE_MAX_TIMEOUT} : x <= m)
NoTtl == MaxExpire + 1

\* The OOM loop's last pass reaches every expiry, so it always empties the
\* map (in the code time_inc grows until it does).
ASSUME OomSteps * OOM_TTL_STEP >= MaxExpire - MaxTime

VARIABLES
    rec,       \* the cached_resolve_t behind each id
    cache,     \* cache_map: address -> record
    pq,        \* cached_resolve_pqueue, as a set (it is popped by expiry)
    stream,    \* each exit stream's progress
    queries,   \* evdns requests in flight per address and query type
    now

vars == <<rec, cache, pq, stream, queries, now>>

Unused == [state |-> "unused", addr |-> NoRecord, expire |-> 0,
           v4 |-> "none", v6 |-> "none", ptr |-> "none",
           ttl |-> NoTtl, pending |-> {}]

\* A record after tor_free: nothing of it is read again.
Freed == [Unused EXCEPT !.state = "freed"]

\* The state as one value, and its assignment to the variables.
St == [rec |-> rec, cache |-> cache, pq |-> pq, stream |-> stream,
       queries |-> queries]
Apply(S) ==
    /\ rec' = S.rec /\ cache' = S.cache /\ pq' = S.pq
    /\ stream' = S.stream /\ queries' = S.queries

\* The status field for a query type.
Field(qt) == CASE qt = "A" -> "v4" [] qt = "AAAA" -> "v6" [] qt = "PTR" -> "ptr"

\* A purge that frees expired records without ending their streams.
purge_expired_resolves_silent(S, cutoff) ==
    LET gone == {r \in S.pq : S.rec[r].expire <= cutoff}
        keys == {S.rec[r].addr : r \in {x \in gone : S.rec[x].state \in {"PENDING", "CACHED"}}}
    IN [S EXCEPT
          !.pq    = @ \ gone,
          !.rec   = [r \in Records |-> IF r \in gone
                                       THEN Freed
                                       ELSE S.rec[r]],
          !.cache = [a \in Addresses |-> IF a \in keys THEN NoRecord ELSE S.cache[a]]]

\* purge_expired_resolves(cutoff): pop every queued record whose expire is
\* at most cutoff; its pending streams get END TIMEOUT; a PENDING or
\* CACHED one is removed from the map (HT_REMOVE by address); all are freed.
purge_expired_resolves(S, cutoff) ==
    LET gone    == {r \in S.pq : S.rec[r].expire <= cutoff}
        waiting == UNION {S.rec[r].pending : r \in gone}
        keys    == {S.rec[r].addr : r \in {x \in gone : S.rec[x].state \in {"PENDING", "CACHED"}}}
    IN [S EXCEPT
          !.pq     = @ \ gone,
          !.rec    = [r \in Records |-> IF r \in gone
                                        THEN Freed
                                        ELSE S.rec[r]],
          !.cache  = [a \in Addresses |-> IF a \in keys THEN NoRecord ELSE S.cache[a]],
          !.stream = [st \in Streams |-> IF st \in waiting THEN "timeout" ELSE S.stream[st]]]

\* A cancel that fails the streams but leaves the DONE record in the map.
dns_cancel_pending_resolve_keeping_entry(S, a) ==
    LET r == S.cache[a] IN
    IF r = NoRecord \/ S.rec[r].state # "PENDING" \/ S.rec[r].pending = {}
    THEN S
    ELSE [S EXCEPT
            !.stream = [st \in Streams |-> IF st \in S.rec[r].pending THEN "failed" ELSE S.stream[st]],
            !.rec[r] = [@ EXCEPT !.pending = {}, !.state = "DONE"]]

\* A cancel that takes the record out of the map without ending its streams.
dns_cancel_pending_resolve_dropping_streams(S, a) ==
    LET r == S.cache[a] IN
    IF r = NoRecord \/ S.rec[r].state # "PENDING" \/ S.rec[r].pending = {}
    THEN S
    ELSE [S EXCEPT
            !.rec[r] = [@ EXCEPT !.pending = {}, !.state = "DONE"],
            !.cache[a] = NoRecord]

\* dns_cancel_pending_resolve(address): if the map holds a PENDING record
\* with waiting streams, they all get END RESOLVEFAILED, the record leaves
\* the map and becomes DONE (it stays queued until it expires).  A record in
\* another state, or without waiting streams, is left alone (a BUG log).
dns_cancel_pending_resolve(S, a) ==
    LET r == S.cache[a] IN
    IF r = NoRecord \/ S.rec[r].state # "PENDING" \/ S.rec[r].pending = {}
    THEN S
    ELSE [S EXCEPT
            !.stream = [st \in Streams |-> IF st \in S.rec[r].pending THEN "failed" ELSE S.stream[st]],
            !.rec[r] = [@ EXCEPT !.pending = {}, !.state = "DONE"],
            !.cache[a] = NoRecord]

\* A free record id (tor_malloc_zero / tor_memdup).
NewRecord(S) == CHOOSE r \in Records : S.rec[r].state = "unused"

\* The requests whose evdns_base_resolve_* call fails, among those made.
LaunchFailures == IF LaunchCanFail THEN SUBSET QTypes ELSE {{}}

\* launch_resolve(resolve) for record r with the evdns calls in fails
\* failing: a forward name sets A (and AAAA with IPv6Exit) INFLIGHT, then
\* launches A, then AAAA only if A was launched; a failed launch resets its
\* status and makes the result -1.  A PTR name launches one PTR request.
\* Returns the new state and the result.
launch_resolve(S, r, fails) ==
    LET a      == S.rec[r].addr
        v4fail == "A" \in fails
        v6try  == IPv6Exit /\ ~v4fail
        v6fail == v6try /\ "AAAA" \in fails
        pfail  == "PTR" \in fails
        sent   == IF a \in PtrNames THEN (IF pfail THEN {} ELSE {"PTR"})
                  ELSE (IF v4fail THEN {} ELSE {"A"}) \cup (IF v6try /\ ~v6fail THEN {"AAAA"} ELSE {})
        R      == IF a \in PtrNames
                  THEN [S.rec[r] EXCEPT !.ptr = IF pfail THEN "none" ELSE "INFLIGHT"]
                  ELSE [S.rec[r] EXCEPT
                          !.v4 = IF v4fail THEN "none" ELSE "INFLIGHT",
                          !.v6 = IF IPv6Exit /\ ~v6fail THEN "INFLIGHT" ELSE "none"]
        failed == IF a \in PtrNames THEN pfail ELSE v4fail \/ v6fail
    IN [S   |-> [S EXCEPT
                   !.rec[r] = R,
                   !.queries = [k \in Addresses \X QTypes |->
                                  IF k[1] = a /\ k[2] \in sent THEN @[k] + 1 ELSE @[k]]],
        ret |-> IF failed THEN -1 ELSE 0]

\* set_exitconn_info_from_resolve's verdict for stream st: a reverse lookup
\* needs the hostname; otherwise an address of a family the stream accepts
\* (RESOLVE streams accept both; IPv6 needs IPv6Exit).  When both or
\* neither are usable the exit policy and the client's preference pick one,
\* which does not change whether the answer is an address.
AnswerOk(R, st) ==
    IF StreamAddr[st] \in PtrNames
    THEN R.ptr = "OK"
    ELSE LET fam == IF StreamPurpose[st] = "resolve" THEN {"v4", "v6"} ELSE StreamFamilies[st]
         IN \/ R.v4 = "OK" /\ "v4" \in fam
            \/ R.v6 = "OK" /\ "v6" \in fam /\ IPv6Exit

MinTtl(x, y) == IF x <= y THEN x ELSE y

\* An answer that sets the status but not the ttl.
cached_resolve_add_answer_no_ttl(R, qt, result, ttl) ==
    IF R[Field(qt)] # "INFLIGHT" THEN R ELSE [R EXCEPT ![Field(qt)] = result]

\* cached_resolve_add_answer: only a query type still INFLIGHT takes the
\* answer (DONE_OK or DONE_ERR) and its ttl.
cached_resolve_add_answer(R, qt, result, ttl) ==
    IF R[Field(qt)] # "INFLIGHT" THEN R
    ELSE [R EXCEPT ![Field(qt)] = result, !.ttl = MinTtl(@, ttl)]

\* A completeness test that counts an error as still outstanding.
cached_resolve_have_all_answers_ok_only(R) ==
    \A f \in {"v4", "v6", "ptr"} : R[f] \notin {"INFLIGHT", "ERR"}

\* cached_resolve_have_all_answers.
cached_resolve_have_all_answers(R) ==
    \A f \in {"v4", "v6", "ptr"} : R[f] # "INFLIGHT"

\* inform_pending_connections: every waiting stream is answered from the
\* record: CONNECT streams start connecting or get END RESOLVEFAILED,
\* RESOLVE streams get RESOLVED (an address, a hostname or an error).
inform_pending_connections(S, r) ==
    [S EXCEPT
       !.stream = [st \in Streams |->
                     IF st \in S.rec[r].pending
                     THEN IF AnswerOk(S.rec[r], st) THEN "ok" ELSE "failed"
                     ELSE S.stream[st]],
       !.rec[r].pending = {}]

\* set_expiry: the record gets its expiry time and enters
\* cached_resolve_pqueue.
set_expiry(S, r, expires) ==
    [S EXCEPT !.rec[r].expire = expires, !.pq = @ \cup {r}]

\* make_pending_resolve_cached: the record becomes DONE and leaves the map
\* (it stays queued until its own expiry); a CACHED copy enters the map and
\* the queue, expiring after the smallest ttl of its answers.
make_pending_resolve_cached(S, r) ==
    LET n == NewRecord(S)
        R == S.rec[r]
    IN set_expiry([S EXCEPT
                     !.rec = [@ EXCEPT ![r].state = "DONE",
                                       ![n] = [R EXCEPT !.state = "CACHED", !.expire = 0]],
                     !.cache[R.addr] = n],
                  n, now + R.ttl)

\* dns_found_answer: an answer for an address with no PENDING record in
\* the map is ignored; otherwise it is added, and once no query is in
\* flight the waiting streams are informed and the record is cached.
dns_found_answer(S, a, qt, result, ttl) ==
    LET r == S.cache[a] IN
    IF r = NoRecord \/ S.rec[r].state # "PENDING"
    THEN S
    ELSE LET S1 == [S EXCEPT !.rec[r] = cached_resolve_add_answer(S.rec[r], qt, result, ttl)]
         IN IF cached_resolve_have_all_answers(S1.rec[r])
            THEN make_pending_resolve_cached(inform_pending_connections(S1, r), r)
            ELSE S1

\* connection_dns_remove: a closing RESOLVING stream leaves the waiting
\* list of the record the map holds for its address (if any).
connection_dns_remove(S, st) ==
    LET r == S.cache[StreamAddr[st]] IN
    IF r = NoRecord THEN S ELSE [S EXCEPT !.rec[r].pending = @ \ {st}]

\* dns_resolve_impl(exitconn) once the address is known to be a hostname:
\* purge the expired records, refuse a CONNECT to a reverse-lookup name,
\* then join a PENDING record, answer from a CACHED one, or create a
\* PENDING record (expiring after RESOLVE_MAX_TIMEOUT) and launch it.  A
\* record in the map that is expired after the purge, or DONE, is an
\* assertion failure: no arm applies.  Returns the state and the result.
dns_resolve_impl(S, st, fails) ==
    LET a  == StreamAddr[st]
        S0 == purge_expired_resolves(S, now)
        r  == S0.cache[a]
        n  == NewRecord(S0)
        Sn == set_expiry([S0 EXCEPT
                            !.rec[n] = [Unused EXCEPT !.state = "PENDING", !.addr = a,
                                                      !.pending = {st}],
                            !.cache[a] = n],
                         n, now + RESOLVE_MAX_TIMEOUT)
    IN CASE a \in PtrNames /\ StreamPurpose[st] = "connect"
              -> [S |-> S0, ret |-> -1]
         [] r # NoRecord /\ S0.rec[r].expire > now /\ S0.rec[r].state = "PENDING"
              -> [S |-> [S0 EXCEPT !.rec[r].pending = @ \cup {st}], ret |-> 0]
         [] r # NoRecord /\ S0.rec[r].expire > now /\ S0.rec[r].state = "CACHED"
              -> [S |-> S0, ret |-> IF AnswerOk(S0.rec[r], st) THEN 1 ELSE -1]
         [] r = NoRecord
              -> launch_resolve(Sn, n, fails)

\* dns_resolve(exitconn) for a new exit stream: 1 answers it at once, 0
\* leaves it resolving, -1 fails it and cancels every stream waiting on a
\* PENDING record for the same address.
dns_resolve(st) ==
    /\ stream[st] = "new"
    /\ \E fails \in LaunchFailures :
         LET R == dns_resolve_impl(St, st, fails) IN
         Apply(CASE R.ret = 1 -> [R.S EXCEPT !.stream[st] = "ok"]
                 [] R.ret = 0 -> [R.S EXCEPT !.stream[st] = "resolving"]
                 [] OTHER     -> [dns_cancel_pending_resolve(R.S, StreamAddr[st])
                                    EXCEPT !.stream[st] = "failed"])
    /\ UNCHANGED now

\* evdns_callback: evdns answers one request in flight for address a and
\* query type qt, with a result (an answer; an error, a wildcarded answer
\* or an answer of the wrong type all become an error) and a clipped TTL.
evdns_callback(a, qt) ==
    /\ queries[<<a, qt>>] > 0
    /\ \E result \in {"OK", "ERR"}, ttl \in Ttls :
         Apply(dns_found_answer([St EXCEPT !.queries[<<a, qt>>] = @ - 1], a, qt, result, ttl))
    /\ UNCHANGED now

\* connection_exit_about_to_close for a stream closed (END cell, circuit
\* close) while RESOLVING.
connection_exit_about_to_close(st) ==
    /\ stream[st] = "resolving"
    /\ Apply([connection_dns_remove(St, st) EXCEPT !.stream[st] = "closed"])
    /\ UNCHANGED now

\* The addresses with an entry in the map (dns_cache_entry_count).
Entries(S) == {a \in Addresses : S.cache[a] # NoRecord}

\* The states dns_cache_handle_oom can leave, from pass i on: each pass
\* purges with cutoff now + i * MAX_DNS_TTL/4; the loop stops after a pass
\* that brought the removed bytes up to the (any positive) target, which
\* needs that pass to remove an entry, or when the map is empty.
RECURSIVE OomOutcomes(_, _)
OomOutcomes(S, i) ==
    IF Entries(S) = {} \/ i > OomSteps THEN {}
    ELSE LET S1 == purge_expired_resolves(S, now + i * OOM_TTL_STEP)
         IN (IF Entries(S1) # Entries(S) THEN {S1} ELSE {}) \cup OomOutcomes(S1, i + 1)

\* dns_cache_handle_oom, called by cell_queues_check_size when the cache
\* holds more than a fifth of MaxMemInQueues.
dns_cache_handle_oom ==
    /\ Entries(St) # {}
    /\ \E S1 \in OomOutcomes(St, 0) : Apply(S1)
    /\ UNCHANGED now

\* Time passes.
tick ==
    /\ now < MaxTime
    /\ now' = now + 1
    /\ UNCHANGED <<rec, cache, pq, stream, queries>>

Init ==
    /\ rec = [r \in Records |-> Unused]
    /\ cache = [a \in Addresses |-> NoRecord]
    /\ pq = {}
    /\ stream = [st \in Streams |-> "new"]
    /\ queries = [k \in Addresses \X QTypes |-> 0]
    /\ now = 0

Next ==
    \/ \E st \in Streams : dns_resolve(st) \/ connection_exit_about_to_close(st)
    \/ \E a \in Addresses, qt \in QTypes : evdns_callback(a, qt)
    \/ dns_cache_handle_oom
    \/ tick

\* evdns answers every request it accepted: it retries and times out on its
\* own and then calls back with an error.
Fairness == \A a \in Addresses, qt \in QTypes : WF_vars(evdns_callback(a, qt))

Spec == Init /\ [][Next]_vars /\ Fairness

StreamStates == {"new", "resolving", "ok", "failed", "timeout", "closed"}

TypeOK ==
    /\ rec \in [Records -> [state : {"unused", "PENDING", "CACHED", "DONE", "freed"},
                            addr : Addresses \cup {NoRecord}, expire : 0..MaxExpire,
                            v4 : Status, v6 : Status, ptr : Status,
                            ttl : Ttls \cup {NoTtl}, pending : SUBSET Streams]]
    /\ cache \in [Addresses -> Records \cup {NoRecord}]
    /\ pq \subseteq Records
    /\ stream \in [Streams -> StreamStates]
    /\ queries \in [Addresses \X QTypes -> Nat]
    /\ now \in 0..MaxTime

\* assert_cache_ok_ and assert_resolve_ok, strengthened: the map holds only
\* PENDING or CACHED records, each under its own address and queued; every
\* queued PENDING or CACHED record is the one the map holds for its address;
\* only a PENDING record has waiting streams.  Breaking it takes a cancel,
\* a purge or a completion that leaves the map and the queue out of step.
CacheConsistent ==
    /\ \A a \in Entries(St) :
         /\ rec[cache[a]].state \in {"PENDING", "CACHED"}
         /\ rec[cache[a]].addr = a
         /\ cache[a] \in pq
    /\ \A r \in pq : rec[r].state \in {"PENDING", "CACHED"} => cache[rec[r].addr] = r
    /\ \A r \in Records : rec[r].state # "PENDING" => rec[r].pending = {}

\* A stream is RESOLVING exactly when it waits on the PENDING record the map
\* holds for its address: purge, cancel and inform_pending_connections must
\* end every waiting stream of a record they take out of the map, or
\* connection_dns_remove later meets a record without it (or asserts).
ResolvingStreamsPending ==
    \A st \in Streams :
       (stream[st] = "resolving") <=>
          /\ cache[StreamAddr[st]] # NoRecord
          /\ st \in rec[cache[StreamAddr[st]]].pending

\* Every stream that waits on a resolve is eventually answered, failed or
\* timed out: the record it waits on gets all its answers from evdns.
ResolvesEventuallyAnswered ==
    \A st \in Streams : stream[st] = "resolving" ~> stream[st] # "resolving"
=============================================================================
