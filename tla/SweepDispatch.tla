---------------------------- MODULE SweepDispatch ----------------------------
(***************************************************************************)
(* The sweep cycle of the harvester: orchestrators select due rows of      *)
(* sweep_targets, stamp them by compare-and-set and send one SQS message   *)
(* per query; workers gate, search, commit a history row, count it in      *)
(* Redis, and the one that reads the full count finalizes the row.         *)
(*                                                                         *)
(* Time is not counted.  next_due_at and dispatched_at are read only       *)
(* through comparisons with now, so a row keeps the outcome of each        *)
(* comparison (due, stale) and an action flips it.  A timer that fires     *)
(* while the work it guards can still finish is a fault, like a crash or a *)
(* lost message; a timer over dead work is not, and fairness makes it      *)
(* fire.  MaxFaults bounds the faults of a behaviour.                      *)
(***************************************************************************)
EXTENDS Naturals, FiniteSets

CONSTANTS
    Targets,        \* rows of sweep_targets, source serper, of one corpus
    Orchestrators,  \* orchestrator processes (one intended, two "wasteful but safe")
    Workers,        \* message slots of the sweep worker threads
    Rank,           \* target -> its place in (priority, next_due_at, id) order
    BatchLimit,     \* max_sweeps_per_dispatch
    MaxReceive,     \* MAX_RECEIVE_COUNT of the queue's redrive policy
    MaxQueries,     \* bound: queries generated for one jurisdiction
    MaxDispatch,    \* bound: dispatch ids (uuid4) issued
    MaxFaults,      \* bound: faults in a behaviour
    MaxResweeps     \* bound: times a finalized row falls due again

ASSUME ParamAssumption ==
    /\ IsFiniteSet(Targets)
    /\ Rank \in [Targets -> Nat]
    /\ \A t, u \in Targets : t # u => Rank[t] # Rank[u]
    /\ BatchLimit \in Nat \ {0}
    /\ MaxReceive \in Nat \ {0}
    /\ MaxQueries \in Nat \ {0}
    /\ MaxDispatch \in Nat
    /\ MaxFaults \in Nat
    /\ MaxResweeps \in Nat

VARIABLES
    running,    \* campaign_controls.state = "running"
    row,        \* sweep_targets
    issued,     \* number of dispatch ids issued so far
    owner,      \* dispatch -> sweep_target_id carried by its messages
    count,      \* dispatch -> query_count carried by its messages
    msgs,       \* SQS: messages not deleted
    history,    \* harvest_sweeps rows
    counter,    \* Redis hash sweep:{dispatch_id}
    counted,    \* history variable: increments counter holds
    orch,       \* control state of each orchestrator
    worker,     \* control state of each worker slot
    faults,     \* faults so far
    resweeps    \* rows fallen due again so far

store == <<row, issued, owner, count>>
vars  == <<running, row, issued, owner, count, msgs, history, counter, counted,
           orch, worker, faults, resweeps>>

Dispatches == 1 .. MaxDispatch
NoDispatch == 0
Seqs       == 0 .. MaxQueries - 1
Results    == {"candidates", "not_found", "error"}
NoResult   == "none"

\* How one query ends: a result, or an error after candidates were staged already (its row
\* says "error" with candidates_staged > 0, and both are counted).
Answers    == Results \cup {"error_staged"}
Staged(a)  == a \in {"candidates", "error_staged"}
Errored(a) == a \in {"error", "error_staged"}

Rows     == [dispatch_id : 0 .. MaxDispatch, due : BOOLEAN, stale : BOOLEAN,
             last_result : Results \cup {NoResult}]
Messages == [d : Dispatches, seq : Seqs, receives : 0 .. MaxReceive, visible : BOOLEAN]
HistoryRows == [d : Dispatches, seq : Seqs, result : Answers]
Counters == [done : Nat, candidates : Nat, errors : Nat]
NoCounts == [done |-> 0, candidates |-> 0, errors |-> 0]

OrchStates == [pc : {"idle", "stamp", "send"}, todo : SUBSET Targets,
               seen : [Targets -> 0 .. MaxDispatch], d : 0 .. MaxDispatch, next : Nat]
IdleOrch   == [pc |-> "idle", todo |-> {}, seen |-> [t \in Targets |-> NoDispatch],
               d |-> 0, next |-> 0]
WorkerStates == [pc : {"idle", "gate", "search", "history", "count", "finalize", "delete"},
                 d : 0 .. MaxDispatch, seq : Seqs, result : Answers \cup {NoResult},
                 verdict : Results \cup {NoResult}]
IdleWorker == [pc |-> "idle", d |-> 0, seq |-> 0, result |-> NoResult, verdict |-> NoResult]

TypeOK == /\ running \in BOOLEAN
          /\ row \in [Targets -> Rows]
          /\ issued \in 0 .. MaxDispatch
          /\ owner \in [1 .. issued -> Targets]
          /\ count \in [1 .. issued -> 1 .. MaxQueries]
          /\ msgs \subseteq Messages
          /\ history \subseteq HistoryRows
          /\ counter \in [Dispatches -> Counters]
          /\ counted \subseteq HistoryRows
          /\ orch \in [Orchestrators -> OrchStates]
          /\ worker \in [Workers -> WorkerStates]
          /\ faults \in 0 .. MaxFaults
          /\ resweeps \in 0 .. MaxResweeps

\* insert_target: a seeded row is due now and carries no dispatch.
Init == /\ running = TRUE
        /\ row = [t \in Targets |-> [dispatch_id |-> NoDispatch, due |-> TRUE,
                                     stale |-> FALSE, last_result |-> NoResult]]
        /\ issued = 0
        /\ owner = [d \in 1 .. 0 |-> CHOOSE t \in Targets : TRUE]
        /\ count = [d \in 1 .. 0 |-> 1]
        /\ msgs = {}
        /\ history = {}
        /\ counter = [d \in Dispatches |-> NoCounts]
        /\ counted = {}
        /\ orch = [o \in Orchestrators |-> IdleOrch]
        /\ worker = [w \in Workers |-> IdleWorker]
        /\ faults = 0
        /\ resweeps = 0

Fault == faults < MaxFaults /\ faults' = faults + 1
NoFault == UNCHANGED <<faults, resweeps>>

-----------------------------------------------------------------------------
(* The orchestrator: run_cycle, dispatch_cycle.                            *)

\* Faulty variant: the stamp's age is not looked at.
EligibleNeverStale == {t \in Targets : row[t].due /\ row[t].dispatch_id = NoDispatch}

\* WHERE next_due_at <= now AND (dispatched_at IS NULL OR dispatched_at <= cutoff)
Eligible == {t \in Targets : row[t].due /\ (row[t].dispatch_id = NoDispatch \/ row[t].stale)}

\* ORDER BY priority, next_due_at, id LIMIT BatchLimit
Batch == {t \in Eligible : Cardinality({u \in Eligible : Rank[u] < Rank[t]}) < BatchLimit}

First(S) == CHOOSE t \in S : \A u \in S : Rank[t] <= Rank[u]

\* The orchestrator after the target it is working on: the next one, or the end of the cycle.
After(s) == LET rest == s.todo \ {First(s.todo)}
            IN IF rest = {} THEN IdleOrch
               ELSE [s EXCEPT !.pc = "stamp", !.todo = rest, !.d = 0, !.next = 0]

\* The run switch, then the due rows with the stamps they carry at this moment.
Select(o) ==
    /\ orch[o].pc = "idle"
    /\ running
    /\ Batch # {}
    /\ orch' = [orch EXCEPT ![o] =
                 [pc |-> "stamp", todo |-> Batch, seen |-> [t \in Targets |-> row[t].dispatch_id],
                  d |-> 0, next |-> 0]]
    /\ UNCHANGED <<store, running, msgs, history, counter, counted, worker>> /\ NoFault

\* generate_queries raised GenerationError: the row is left untouched.
SkipGeneration(o) ==
    /\ orch[o].pc = "stamp"
    /\ orch' = [orch EXCEPT ![o] = After(@)]
    /\ Fault
    /\ UNCHANGED <<store, running, msgs, history, counter, counted, worker, resweeps>>

\* Faulty variant: stamp without comparing.
StampAlways(o, t) == TRUE

\* WHERE dispatch_id = expected AND dispatched_at = expected.  dispatched_at is written with
\* dispatch_id and cleared with it, so the id stands for both.
StampMatches(o, t) == row[t].dispatch_id = orch[o].seen[t]

\* The orchestrator about to send the messages of dispatch d.
Sending(s, d) == [s EXCEPT !.pc = "send", !.d = d, !.next = 0]

\* stamp_target: the compare-and-set on the stamp that Select read.
Stamp(o) ==
    LET s == orch[o]
        t == First(s.todo)
        d == issued + 1
    IN /\ s.pc = "stamp"
       /\ IF StampMatches(o, t)
          THEN /\ issued < MaxDispatch
               /\ \E n \in 1 .. MaxQueries :
                    /\ count' = [e \in 1 .. d |-> IF e = d THEN n ELSE count[e]]
                    /\ owner' = [e \in 1 .. d |-> IF e = d THEN t ELSE owner[e]]
               /\ issued' = d
               /\ row' = [row EXCEPT ![t] = [row[t] EXCEPT !.dispatch_id = d, !.stale = FALSE]]
               /\ orch' = [orch EXCEPT ![o] = Sending(s, d)]
          ELSE /\ orch' = [orch EXCEPT ![o] = After(s)]
               /\ UNCHANGED store
       /\ UNCHANGED <<running, msgs, history, counter, counted, worker>> /\ NoFault

\* One queue.send of the enumerate loop.
Send(o) ==
    LET s == orch[o]
    IN /\ s.pc = "send"
       /\ msgs' = msgs \cup {[d |-> s.d, seq |-> s.next, receives |-> 0, visible |-> TRUE]}
       /\ orch' = [orch EXCEPT ![o] = IF s.next + 1 = count[s.d] THEN After(s)
                                      ELSE [s EXCEPT !.next = s.next + 1]]
       /\ UNCHANGED <<store, running, history, counter, counted, worker>> /\ NoFault

\* A send raised: the cycle moves on and leaves the row stamped.
SendFails(o) ==
    /\ orch[o].pc = "send"
    /\ orch' = [orch EXCEPT ![o] = After(@)]
    /\ Fault
    /\ UNCHANGED <<store, running, msgs, history, counter, counted, worker, resweeps>>

OrchestratorCrash(o) ==
    /\ orch[o].pc # "idle"
    /\ orch' = [orch EXCEPT ![o] = IdleOrch]
    /\ Fault
    /\ UNCHANGED <<store, running, msgs, history, counter, counted, worker, resweeps>>

-----------------------------------------------------------------------------
(* The sweep worker: one message of a batch per slot.                      *)

HasHistory(d, q) == \E h \in history : h.d = d /\ h.seq = q

\* Faulty variant: one delivery more than the redrive policy allows.
DeliverableOnceMore(m) == m.visible /\ m.receives <= MaxReceive

Deliverable(m) == m.visible /\ m.receives < MaxReceive

Receive(w) ==
    /\ worker[w].pc = "idle"
    /\ \E m \in msgs :
         /\ Deliverable(m)
         /\ msgs' = (msgs \ {m}) \cup {[m EXCEPT !.receives = @ + 1, !.visible = FALSE]}
         /\ worker' = [worker EXCEPT ![w] =
                        [IdleWorker EXCEPT !.pc = "gate", !.d = m.d, !.seq = m.seq]]
    /\ UNCHANGED <<store, running, history, counter, counted, orch>> /\ NoFault

\* gate_sweep: the run switch, the row's current dispatch, no history row yet.
GatePasses(d, q) == running /\ row[owner[d]].dispatch_id = d /\ ~HasHistory(d, q)

Gate(w) ==
    /\ worker[w].pc = "gate"
    /\ worker' = [worker EXCEPT ![w].pc =
                    IF GatePasses(worker[w].d, worker[w].seq) THEN "search" ELSE "delete"]
    /\ UNCHANGED <<store, running, msgs, history, counter, counted, orch>> /\ NoFault

\* Search, triage and staging end in an answer for this query.
Search(w) ==
    /\ worker[w].pc = "search"
    /\ \E r \in Answers :
         worker' = [worker EXCEPT ![w] = [worker[w] EXCEPT !.pc = "history", !.result = r]]
    /\ UNCHANGED <<store, running, msgs, history, counter, counted, orch>> /\ NoFault

\* RateLimited or TriageError: nothing is recorded, the message is left undeleted.
Defer(w) ==
    /\ worker[w].pc = "search"
    /\ worker' = [worker EXCEPT ![w] = IdleWorker]
    /\ Fault
    /\ UNCHANGED <<store, running, msgs, history, counter, counted, orch, resweeps>>

\* Faulty variant: no unique constraint, every delivery inserts.
AlwaysInserts(d, q) == TRUE

\* uq_sweep_dispatch_seq
FirstInsert(d, q) == ~HasHistory(d, q)

\* insert_history under the unique (dispatch_id, query_seq): only the first insert counts.
InsertHistory(w) ==
    LET s == worker[w]
    IN /\ s.pc = "history"
       /\ IF FirstInsert(s.d, s.seq)
          THEN /\ history' = history \cup {[d |-> s.d, seq |-> s.seq, result |-> s.result]}
               /\ worker' = [worker EXCEPT ![w].pc = "count"]
          ELSE /\ worker' = [worker EXCEPT ![w].pc = "delete"]
               /\ UNCHANGED history
       /\ UNCHANGED <<store, running, msgs, counter, counted, orch>> /\ NoFault

\* Faulty variant: the last query is not waited for.
CompletesEarly(c, n) == c.done + 1 >= n

Completes(c, n) == c.done = n

\* Faulty variant: one failed query makes an error of a sweep without candidates.
AggregateAnyError(c, n) == IF c.errors > 0 /\ c.candidates = 0 THEN "error"
                           ELSE IF c.candidates > 0 THEN "candidates" ELSE "not_found"

\* The aggregate the fan-in writes back from the counts it read.
Aggregate(c, n) == IF c.errors >= n /\ c.candidates = 0 THEN "error"
                   ELSE IF c.candidates > 0 THEN "candidates" ELSE "not_found"

Bump(c, r) == [done |-> c.done + 1,
               candidates |-> c.candidates + (IF Staged(r) THEN 1 ELSE 0),
               errors |-> c.errors + (IF Errored(r) THEN 1 ELSE 0)]

\* record_query_done: one atomic HINCRBY, whose reply decides who finalizes.
Count(w) ==
    LET s == worker[w]
        c == Bump(counter[s.d], s.result)
    IN /\ s.pc = "count"
       /\ counter' = [counter EXCEPT ![s.d] = c]
       /\ counted' = counted \cup {[d |-> s.d, seq |-> s.seq, result |-> s.result]}
       /\ worker' = [worker EXCEPT ![w] =
                      IF Completes(c, count[s.d])
                      THEN [s EXCEPT !.pc = "finalize", !.verdict = Aggregate(c, count[s.d])]
                      ELSE [s EXCEPT !.pc = "delete"]]
       /\ UNCHANGED <<store, running, msgs, history, orch>> /\ NoFault

\* Faulty variant: WHERE id = :target alone.
FinalizesAny(d) == TRUE

\* WHERE id = :target AND dispatch_id = :dispatch
StillCurrent(d) == row[owner[d]].dispatch_id = d

\* finalize_target: gated by the dispatch id; every result puts next_due_at in the future.
Finalize(w) ==
    LET s == worker[w]
        t == owner[s.d]
    IN /\ s.pc = "finalize"
       /\ row' = IF StillCurrent(s.d)
                 THEN [row EXCEPT ![t] = [dispatch_id |-> NoDispatch, due |-> FALSE,
                                          stale |-> FALSE, last_result |-> s.verdict]]
                 ELSE row
       /\ worker' = [worker EXCEPT ![w].pc = "delete"]
       /\ UNCHANGED <<running, issued, owner, count, msgs, history, counter, counted, orch>>
       /\ NoFault

Delete(w) ==
    LET s == worker[w]
    IN /\ s.pc = "delete"
       /\ msgs' = {m \in msgs : ~(m.d = s.d /\ m.seq = s.seq)}
       /\ worker' = [worker EXCEPT ![w] = IdleWorker]
       /\ UNCHANGED <<store, running, history, counter, counted, orch>> /\ NoFault

\* The thread dies, or the handler raises (a database error): the message stays undeleted.
WorkerCrash(w) ==
    /\ worker[w].pc # "idle"
    /\ worker' = [worker EXCEPT ![w] = IdleWorker]
    /\ Fault
    /\ UNCHANGED <<store, running, msgs, history, counter, counted, orch, resweeps>>

-----------------------------------------------------------------------------
(* The queue, Redis, the clock and the operator.                           *)

Holds(w, d, q) == worker[w].pc # "idle" /\ worker[w].d = d /\ worker[w].seq = q

\* The visibility timeout over a message nobody works on any more.
Redeliver ==
    /\ \E m \in msgs :
         /\ ~m.visible
         /\ \A w \in Workers : ~Holds(w, m.d, m.seq)
         /\ msgs' = (msgs \ {m}) \cup {[m EXCEPT !.visible = TRUE]}
    /\ UNCHANGED <<store, running, history, counter, counted, orch, worker>> /\ NoFault

\* The same timeout while a slow worker still holds the message.
RedeliverEarly ==
    /\ \E m \in msgs :
         /\ ~m.visible
         /\ \E w \in Workers : Holds(w, m.d, m.seq)
         /\ msgs' = (msgs \ {m}) \cup {[m EXCEPT !.visible = TRUE]}
    /\ Fault
    /\ UNCHANGED <<store, running, history, counter, counted, orch, worker, resweeps>>

\* The redrive policy: received MaxReceive times already, moved to the DLQ.
DeadLetter ==
    /\ \E m \in msgs : m.visible /\ ~Deliverable(m) /\ msgs' = msgs \ {m}
    /\ UNCHANGED <<store, running, history, counter, counted, orch, worker>> /\ NoFault

\* Redis fails over, or the fan-in TTL expires.
CounterLost ==
    /\ \E d \in 1 .. issued :
         /\ counter[d] # NoCounts
         /\ counter' = [counter EXCEPT ![d] = NoCounts]
         /\ counted' = {h \in counted : h.d # d}
    /\ Fault
    /\ UNCHANGED <<store, running, msgs, history, orch, worker, resweeps>>

\* Somebody can still bring the dispatch to its end.
InProgress(d) == \/ \E m \in msgs : m.d = d
                 \/ \E w \in Workers : worker[w].pc # "idle" /\ worker[w].d = d
                 \/ \E o \in Orchestrators : orch[o].pc = "send" /\ orch[o].d = d

\* dispatched_at passes the dispatch timeout, with nothing left that could finalize it.
TimeoutDead(t) ==
    /\ row[t].dispatch_id # NoDispatch /\ ~row[t].stale
    /\ ~InProgress(row[t].dispatch_id)
    /\ row' = [row EXCEPT ![t].stale = TRUE]
    /\ UNCHANGED <<running, issued, owner, count, msgs, history, counter, counted, orch, worker>>
    /\ NoFault

\* The same timeout while messages or workers of the dispatch are still alive.
TimeoutLive(t) ==
    /\ row[t].dispatch_id # NoDispatch /\ ~row[t].stale
    /\ InProgress(row[t].dispatch_id)
    /\ row' = [row EXCEPT ![t].stale = TRUE]
    /\ Fault
    /\ UNCHANGED <<running, issued, owner, count, msgs, history, counter, counted, orch,
                   worker, resweeps>>

\* next_due_at passes: the resweep interval, or the one-day retry after an error.
FallDue(t) ==
    /\ ~row[t].due
    /\ resweeps < MaxResweeps
    /\ row' = [row EXCEPT ![t].due = TRUE]
    /\ resweeps' = resweeps + 1
    /\ UNCHANGED <<running, issued, owner, count, msgs, history, counter, counted, orch,
                   worker, faults>>

Stop ==
    /\ running /\ running' = FALSE
    /\ Fault
    /\ UNCHANGED <<store, msgs, history, counter, counted, orch, worker, resweeps>>

Start ==
    /\ ~running /\ running' = TRUE
    /\ UNCHANGED <<store, msgs, history, counter, counted, orch, worker>> /\ NoFault

-----------------------------------------------------------------------------
OrchestratorStep(o) == Select(o) \/ Stamp(o) \/ Send(o)
WorkerStep(w) == \/ Receive(w) \/ Gate(w) \/ Search(w) \/ InsertHistory(w)
                 \/ Count(w) \/ Finalize(w) \/ Delete(w)

Next == \/ \E o \in Orchestrators : \/ Select(o) \/ SkipGeneration(o) \/ Stamp(o)
                                    \/ Send(o) \/ SendFails(o) \/ OrchestratorCrash(o)
        \/ \E w \in Workers : \/ Receive(w) \/ Gate(w) \/ Search(w) \/ Defer(w)
                              \/ InsertHistory(w) \/ Count(w) \/ Finalize(w)
                              \/ Delete(w) \/ WorkerCrash(w)
        \/ Redeliver \/ RedeliverEarly \/ DeadLetter \/ CounterLost
        \/ \E t \in Targets : TimeoutDead(t) \/ TimeoutLive(t) \/ FallDue(t)
        \/ Stop \/ Start

Spec == Init /\ [][Next]_vars

\* Processes keep running and clocks keep ticking; no fault, and no operator's stop, is fair.
Fairness == /\ \A o \in Orchestrators : WF_vars(OrchestratorStep(o))
            /\ \A w \in Workers : WF_vars(WorkerStep(w))
            /\ WF_vars(Redeliver) /\ WF_vars(DeadLetter) /\ WF_vars(Start)
            /\ \A t \in Targets : WF_vars(TimeoutDead(t))

FairSpec == Spec /\ Fairness

-----------------------------------------------------------------------------
(* Properties.                                                             *)

RowsOf(S, d) == {h \in S : h.d = d}
Tally(S, d) == [done |-> Cardinality(RowsOf(S, d)),
                candidates |-> Cardinality({h \in RowsOf(S, d) : Staged(h.result)}),
                errors |-> Cardinality({h \in RowsOf(S, d) : Errored(h.result)})]
AllAnswered(d) == \A q \in 0 .. count[d] - 1 : HasHistory(d, q)

\* What the answers of a dispatch amount to, read off its history rows.
Outcome(d) == IF \E h \in RowsOf(history, d) : Staged(h.result) THEN "candidates"
              ELSE IF \A h \in RowsOf(history, d) : Errored(h.result) THEN "error"
              ELSE "not_found"

\* The Redis counter is exact for what it still holds: it counts committed history rows
\* only, each at most once, whatever is redelivered, crashes or is lost in between.
CounterExact == /\ counted \subseteq history
                /\ \A d \in Dispatches : counter[d] = Tally(counted, d)

\* A worker about to write the fan-in verdict belongs to a dispatch whose every query has
\* its history row, is the only one of that dispatch, and carries what exactly those rows
\* amount to, although it computed it from the counts of one HINCRBY reply.
VerdictSound ==
    \A w \in Workers, d \in Dispatches : worker[w].pc = "finalize" /\ worker[w].d = d =>
        /\ AllAnswered(d)
        /\ worker[w].verdict = Outcome(d)
        /\ \A v \in Workers \ {w} : worker[v].pc = "finalize" => worker[v].d # d

\* A row lets go of its dispatch only when the dispatch timed out and is replaced, or when
\* every query of it has been answered: a late worker of an old dispatch, or a second
\* orchestrator, never takes a live dispatch off the row.
LetsGoOnlyWhenDone ==
    [][\A t \in Targets :
         LET d == row[t].dispatch_id
         IN d # NoDispatch /\ row'[t].dispatch_id # d =>
              \/ row[t].stale /\ row'[t].dispatch_id # NoDispatch
              \/ row'[t].dispatch_id = NoDispatch /\ AllAnswered(d)]_vars

\* Only a due row is dispatched (one orchestrator): between the read of the due rows and the
\* stamp no verdict may have moved next_due_at into the future.
StampsOnlyDue ==
    [][\A t \in Targets :
         row'[t].dispatch_id \notin {NoDispatch, row[t].dispatch_id} => row[t].due]_vars

\* Every due target is swept to a verdict in the end, through any bounded number of crashes,
\* lost counters, rate limits, early timeouts and stops.
EverySweepCompletes == \A t \in Targets : row[t].due ~> ~row[t].due

\* The cursor this module implements.
Cursor == INSTANCE SweepCursor WITH
            cursor   <- [t \in Targets |-> row[t].dispatch_id],
            asked    <- [d \in Dispatches |-> IF d <= issued THEN 0 .. count[d] - 1 ELSE {}],
            answered <- {<<h.d, h.seq>> : h \in history}
ImplementsCursor == Cursor!Spec
==============================================================================
