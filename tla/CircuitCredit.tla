---------------------------- MODULE CircuitCredit ----------------------------
(***************************************************************************)
(* What circuit-level SENDME flow control promises (spec.md section 4.3),  *)
(* independent of how windows, digests and SENDME cells implement it.      *)
(*                                                                         *)
(* The client holds a credit (window) per hop, which starts at START.  It  *)
(* spends one credit per DATA cell it sends towards the hop, and regains   *)
(* INCREMENT credits only for INCREMENT cells the hop has already          *)
(* received and not yet acknowledged.  The credit never exceeds START.  A  *)
(* misbehaving client may send up to MaxOverrun cells per hop without      *)
(* credit.  The circuit may be closed at any point, after which nothing    *)
(* moves.                                                                  *)
(***************************************************************************)
EXTENDS Naturals

CONSTANTS Hops, START, INCREMENT, MaxOverrun

VARIABLES
    window,    \* window[h]: credit the client holds for hop h
    sent,      \* sent[h]: DATA cells the client has sent towards h
    received,  \* received[h]: of those, the cells h has received
    acked,     \* acked[h]: cells for which credit has come back
    overrun,   \* overrun[h]: cells sent towards h without credit
    closed

vars == <<window, sent, received, acked, overrun, closed>>

Init ==
    /\ window = [h \in Hops |-> START]
    /\ sent = [h \in Hops |-> 0]
    /\ received = [h \in Hops |-> 0]
    /\ acked = [h \in Hops |-> 0]
    /\ overrun = [h \in Hops |-> 0]
    /\ closed = FALSE

Send(h) ==
    /\ ~closed
    /\ window[h] > 0
    /\ window' = [window EXCEPT ![h] = @ - 1]
    /\ sent' = [sent EXCEPT ![h] = @ + 1]
    /\ UNCHANGED <<received, acked, overrun, closed>>

Overrun(h) ==
    /\ ~closed
    /\ overrun[h] < MaxOverrun
    /\ sent' = [sent EXCEPT ![h] = @ + 1]
    /\ overrun' = [overrun EXCEPT ![h] = @ + 1]
    /\ UNCHANGED <<window, received, acked, closed>>

\* The hop receives the next cell; receiving it may close the circuit.
Receive(h) ==
    /\ ~closed
    /\ received[h] < sent[h]
    /\ received' = [received EXCEPT ![h] = @ + 1]
    /\ closed' \in BOOLEAN
    /\ UNCHANGED <<window, sent, acked, overrun>>

Acknowledge(h) ==
    /\ ~closed
    /\ received[h] - acked[h] >= INCREMENT
    /\ window[h] + INCREMENT <= START
    /\ window' = [window EXCEPT ![h] = @ + INCREMENT]
    /\ acked' = [acked EXCEPT ![h] = @ + INCREMENT]
    /\ UNCHANGED <<sent, received, overrun, closed>>

Close ==
    /\ closed' = TRUE
    /\ UNCHANGED <<window, sent, received, acked, overrun>>

Next ==
    \/ \E h \in Hops : Send(h) \/ Overrun(h) \/ Receive(h) \/ Acknowledge(h)
    \/ Close

\* The safety part of the promise.
SafetySpec == Init /\ [][Next]_vars

\* Every cell sent reaches its hop unless the circuit is closed.
Spec == Init /\ [][Next]_vars /\ \A h \in Hops : WF_vars(Receive(h))
====
