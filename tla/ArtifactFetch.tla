---------------------------- MODULE ArtifactFetch ----------------------------
(***************************************************************************)
(* The life of an artifact: sweep and code workers stage candidate URLs,   *)
(* the orchestrator's reconciliation publishes again what went stale, and  *)
(* fetch workers download, judge and store the document.  All of them      *)
(* write the artifacts table in separate transactions; a fetch worker      *)
(* writes back the whole row it read at its gate.                          *)
(*                                                                         *)
(* Time is treated as in SweepDispatch: a row keeps whether dispatched_at  *)
(* is older than the dispatch timeout, and a timer over work that can      *)
(* still finish is a fault.                                                *)
(***************************************************************************)
EXTENDS Naturals, FiniteSets

CONSTANTS
    Urls,           \* candidate URLs
    Contents,       \* sha256 values the fetched bytes can have
    Stagers,        \* worker threads staging candidates
    Fetchers,       \* fetch worker threads
    AttemptLimit,   \* FETCH_ATTEMPT_LIMIT
    RedispatchLimit,\* max_fetch_redispatch
    MaxReceive,     \* MAX_RECEIVE_COUNT
    MaxArtifact,    \* bound: artifact ids issued
    MaxPublish,     \* bound: fetch dispatch ids issued
    MaxFaults       \* bound: faults in a behaviour

ASSUME ParamAssumption ==
    /\ AttemptLimit \in Nat \ {0}
    /\ RedispatchLimit \in Nat \ {0}
    /\ MaxReceive \in Nat \ {0}
    /\ MaxArtifact \in Nat
    /\ MaxPublish \in Nat
    /\ MaxFaults \in Nat
    /\ "none" \notin Urls \cup Contents

VARIABLES
    running,    \* campaign_controls.state = "running"
    artifact,   \* artifacts: id -> row
    inserted,   \* ids issued by the table's sequence
    published,  \* dispatch ids issued
    urlKeys,    \* Redis url:{corpus}:* keys
    docKeys,    \* Redis doc:{corpus}:* keys
    objects,    \* contents stored in S3
    msgs,       \* the fetch queue: messages not deleted
    stager, recon, fetcher,     \* control states
    faults

vars == <<running, artifact, inserted, published, urlKeys, docKeys, objects, msgs,
          stager, recon, fetcher, faults>>

Ids == 1 .. MaxArtifact
None == "none"
NoDispatch == 0
Statuses == {"pending", "fetched", "failed", "not_document", "duplicate"}
NoRow == [url |-> None, status |-> None, attempts |-> 0, sha256 |-> None,
          dispatch_id |-> NoDispatch, stale |-> FALSE]
Rows == [url : Urls, status : Statuses, attempts : 0 .. AttemptLimit,
         sha256 : Contents \cup {None}, dispatch_id : 0 .. MaxPublish, stale : BOOLEAN]
Messages == [id : Ids, d : 1 .. MaxPublish, receives : 0 .. MaxReceive, visible : BOOLEAN]
IdleStager  == [pc |-> "idle", url |-> None, id |-> 0, d |-> 0]
IdleRecon   == [pc |-> "idle", todo |-> {}, d |-> 0]
IdleFetcher == [pc |-> "idle", id |-> 0, d |-> 0, mine |-> NoRow, sha |-> None]

TypeOK == /\ running \in BOOLEAN
          /\ artifact \in [Ids -> Rows \cup {NoRow}]
          /\ inserted \in 0 .. MaxArtifact
          /\ published \in 0 .. MaxPublish
          /\ urlKeys \subseteq Urls
          /\ docKeys \subseteq Contents
          /\ objects \subseteq Contents
          /\ msgs \subseteq Messages
          /\ stager \in [Stagers -> [pc : {"idle", "insert", "setnx", "stamp", "send"},
                                     url : Urls \cup {None}, id : 0 .. MaxArtifact,
                                     d : 0 .. MaxPublish]]
          /\ recon \in [pc : {"idle", "stamp", "send"}, todo : SUBSET Ids, d : 0 .. MaxPublish]
          /\ fetcher \in [Fetchers ->
                [pc : {"idle", "gate", "get", "drop", "attempt", "not_document", "redis",
                       "backstop", "heal", "duplicate", "put", "commit", "setnx", "delete"},
                 id : 0 .. MaxArtifact, d : 0 .. MaxPublish, mine : Rows \cup {NoRow},
                 sha : Contents \cup {None}]]
          /\ faults \in 0 .. MaxFaults

Init == /\ running = TRUE
        /\ artifact = [i \in Ids |-> NoRow]
        /\ inserted = 0 /\ published = 0
        /\ urlKeys = {} /\ docKeys = {} /\ objects = {} /\ msgs = {}
        /\ stager = [s \in Stagers |-> IdleStager]
        /\ recon = IdleRecon
        /\ fetcher = [f \in Fetchers |-> IdleFetcher]
        /\ faults = 0

Fault == faults < MaxFaults /\ faults' = faults + 1
NoFault == UNCHANGED faults

Exists(i)  == artifact[i] # NoRow
Pending(i) == artifact[i].status = "pending"

\* UPDATE ... WHERE id = :id, which touches nothing when the row is gone.
Stamped(i, d) == IF Exists(i)
                 THEN [artifact EXCEPT ![i].dispatch_id = d, ![i].stale = FALSE]
                 ELSE artifact
Publish(i, d) == msgs' = msgs \cup {[id |-> i, d |-> d, receives |-> 0, visible |-> TRUE]}

-----------------------------------------------------------------------------
(* stage_candidate.                                                        *)

\* uq_artifact_corpus_url
AlreadyStaged(u) == \E i \in Ids : artifact[i].url = u

\* The fast path missed: kv.get(url key) is None.
StageStart(s) ==
    /\ stager[s].pc = "idle"
    /\ \E u \in Urls \ urlKeys :
         stager' = [stager EXCEPT ![s].pc = "insert", ![s].url = u]
    /\ UNCHANGED <<running, artifact, inserted, published, urlKeys, docKeys, objects, msgs,
                   recon, fetcher>> /\ NoFault

\* insert_artifact; on UniqueViolation the key is healed and nothing is published.
StageInsert(s) ==
    LET u == stager[s].url
        i == inserted + 1
    IN /\ stager[s].pc = "insert"
       /\ IF AlreadyStaged(u)
          THEN /\ urlKeys' = urlKeys \cup {u}
               /\ stager' = [stager EXCEPT ![s] = IdleStager]
               /\ UNCHANGED <<artifact, inserted>>
          ELSE /\ inserted < MaxArtifact
               /\ inserted' = i
               /\ artifact' = [artifact EXCEPT ![i] = [NoRow EXCEPT !.url = u, !.status = "pending"]]
               /\ stager' = [stager EXCEPT ![s].pc = "setnx", ![s].id = i]
               /\ UNCHANGED urlKeys
       /\ UNCHANGED <<running, published, docKeys, objects, msgs, recon, fetcher>> /\ NoFault

StageSetnx(s) ==
    /\ stager[s].pc = "setnx"
    /\ urlKeys' = urlKeys \cup {stager[s].url}
    /\ stager' = [stager EXCEPT ![s].pc = "stamp"]
    /\ UNCHANGED <<running, artifact, inserted, published, docKeys, objects, msgs, recon,
                   fetcher>> /\ NoFault

StageStamp(s) ==
    LET d == published + 1
    IN /\ stager[s].pc = "stamp"
       /\ published < MaxPublish
       /\ published' = d
       /\ artifact' = Stamped(stager[s].id, d)
       /\ stager' = [stager EXCEPT ![s].pc = "send", ![s].d = d]
       /\ UNCHANGED <<running, inserted, urlKeys, docKeys, objects, msgs, recon, fetcher>>
       /\ NoFault

StageSend(s) ==
    /\ stager[s].pc = "send"
    /\ Publish(stager[s].id, stager[s].d)
    /\ stager' = [stager EXCEPT ![s] = IdleStager]
    /\ UNCHANGED <<running, artifact, inserted, published, urlKeys, docKeys, objects, recon,
                   fetcher>> /\ NoFault

\* The thread dies or a call raises, anywhere between the steps.
StagerCrash(s) ==
    /\ stager[s].pc # "idle"
    /\ stager' = [stager EXCEPT ![s] = IdleStager]
    /\ Fault
    /\ UNCHANGED <<running, artifact, inserted, published, urlKeys, docKeys, objects, msgs,
                   recon, fetcher>>

-----------------------------------------------------------------------------
(* reconcile_fetch.                                                        *)

\* Faulty variant: only rows whose stamp is old, not those never stamped.
PendingOld == {i \in Ids : Pending(i) /\ artifact[i].stale}

\* select_pending_stale, before its limit
PendingStale == {i \in Ids : Pending(i) /\ (artifact[i].dispatch_id = NoDispatch \/ artifact[i].stale)}

Redispatch == {i \in PendingStale : Cardinality({j \in PendingStale : j < i}) < RedispatchLimit}

Least(S) == CHOOSE i \in S : \A j \in S : i <= j

AfterRecon == LET rest == recon.todo \ {Least(recon.todo)}
              IN IF rest = {} THEN IdleRecon ELSE [pc |-> "stamp", todo |-> rest, d |-> 0]

ReconSelect ==
    /\ recon.pc = "idle" /\ running
    /\ Redispatch # {}
    /\ recon' = [pc |-> "stamp", todo |-> Redispatch, d |-> 0]
    /\ UNCHANGED <<running, artifact, inserted, published, urlKeys, docKeys, objects, msgs,
                   stager, fetcher>> /\ NoFault

\* stamp_artifact is unconditional: it does not look at the row selected before.
ReconStamp ==
    LET d == published + 1
    IN /\ recon.pc = "stamp"
       /\ published < MaxPublish
       /\ published' = d
       /\ artifact' = Stamped(Least(recon.todo), d)
       /\ recon' = [recon EXCEPT !.pc = "send", !.d = d]
       /\ UNCHANGED <<running, inserted, urlKeys, docKeys, objects, msgs, stager, fetcher>>
       /\ NoFault

ReconSend ==
    /\ recon.pc = "send"
    /\ Publish(Least(recon.todo), recon.d)
    /\ recon' = AfterRecon
    /\ UNCHANGED <<running, artifact, inserted, published, urlKeys, docKeys, objects, stager,
                   fetcher>> /\ NoFault

\* The send raised: logged, the next artifact is tried.
ReconSendFails ==
    /\ recon.pc = "send"
    /\ recon' = AfterRecon
    /\ Fault
    /\ UNCHANGED <<running, artifact, inserted, published, urlKeys, docKeys, objects, msgs,
                   stager, fetcher>>

\* The orchestrator dies, or the database raises: the rest of the pass is dropped.
ReconCrash ==
    /\ recon.pc # "idle"
    /\ recon' = IdleRecon
    /\ Fault
    /\ UNCHANGED <<running, artifact, inserted, published, urlKeys, docKeys, objects, msgs,
                   stager, fetcher>>

-----------------------------------------------------------------------------
(* The fetch worker: handle_one.                                           *)

Goto(f, pc) == fetcher' = [fetcher EXCEPT ![f].pc = pc]

\* Faulty variant: one delivery more than the redrive policy allows.
DeliverableOnceMore(m) == m.visible /\ m.receives <= MaxReceive

Deliverable(m) == m.visible /\ m.receives < MaxReceive

Receive(f) ==
    /\ fetcher[f].pc = "idle"
    /\ \E m \in msgs :
         /\ Deliverable(m)
         /\ msgs' = (msgs \ {m}) \cup {[m EXCEPT !.receives = @ + 1, !.visible = FALSE]}
         /\ fetcher' = [fetcher EXCEPT ![f] =
                         [IdleFetcher EXCEPT !.pc = "gate", !.id = m.id, !.d = m.d]]
    /\ UNCHANGED <<running, artifact, inserted, published, urlKeys, docKeys, objects, stager,
                   recon>> /\ NoFault

\* Faulty variant: the status is not looked at.
GateIgnoresStatus(i, d) == running /\ Exists(i) /\ artifact[i].dispatch_id = d

\* gate_fetch
GatePasses(i, d) == running /\ Exists(i) /\ Pending(i) /\ artifact[i].dispatch_id = d

Gate(f) ==
    LET s == fetcher[f]
    IN /\ s.pc = "gate"
       /\ fetcher' = [fetcher EXCEPT ![f] =
                       IF GatePasses(s.id, s.d)
                       THEN [s EXCEPT !.pc = "get", !.mine = artifact[s.id]]
                       ELSE [s EXCEPT !.pc = "delete"]]
       /\ UNCHANGED <<running, artifact, inserted, published, urlKeys, docKeys, objects, msgs,
                      stager, recon>> /\ NoFault

\* The GET and the sniff: a dead link, an error, no document, or bytes of some hash.
Get(f) ==
    /\ fetcher[f].pc = "get"
    /\ \/ \E pc \in {"drop", "attempt", "not_document"} : Goto(f, pc)
       \/ \E c \in Contents :
            fetcher' = [fetcher EXCEPT ![f].pc = "redis", ![f].sha = c]
    /\ UNCHANGED <<running, artifact, inserted, published, urlKeys, docKeys, objects, msgs,
                   stager, recon>> /\ NoFault

\* delete_artifact; the url key is left behind.
DropRow(f) ==
    /\ fetcher[f].pc = "drop"
    /\ artifact' = [artifact EXCEPT ![fetcher[f].id] = NoRow]
    /\ Goto(f, "delete")
    /\ UNCHANGED <<running, inserted, published, urlKeys, docKeys, objects, msgs, stager, recon>>
    /\ NoFault

\* The row as the worker writes it back: what it read at the gate, with its verdict.
Tried(r) == LET n == r.attempts + 1
            IN IF n >= AttemptLimit
               THEN [r EXCEPT !.attempts = n, !.status = "failed"]
               ELSE [r EXCEPT !.attempts = n, !.dispatch_id = NoDispatch, !.stale = FALSE]
Verdict(s) == CASE s.pc = "attempt"      -> Tried(s.mine)
                [] s.pc = "not_document" -> [s.mine EXCEPT !.status = "not_document"]
                [] s.pc = "duplicate"    -> [s.mine EXCEPT !.status = "duplicate", !.sha256 = s.sha]
                [] s.pc = "commit"       -> [s.mine EXCEPT !.status = "fetched", !.sha256 = s.sha]

\* update_artifact: every column, keyed by id alone.
WriteBack(f) ==
    LET s == fetcher[f]
    IN /\ s.pc \in {"attempt", "not_document", "duplicate", "commit"}
       /\ artifact' = IF Exists(s.id) THEN [artifact EXCEPT ![s.id] = Verdict(s)] ELSE artifact
       /\ Goto(f, IF s.pc = "commit" THEN "setnx" ELSE "delete")
       /\ UNCHANGED <<running, inserted, published, urlKeys, docKeys, objects, msgs, stager,
                      recon>> /\ NoFault

\* Faulty variant: the lookup claims the doc key, before the bytes are stored.
AskRedisClaims(f) ==
    /\ fetcher[f].pc = "redis"
    /\ docKeys' = docKeys \cup {fetcher[f].sha}
    /\ Goto(f, IF fetcher[f].sha \in docKeys THEN "duplicate" ELSE "backstop")
    /\ UNCHANGED <<running, artifact, inserted, published, urlKeys, objects, msgs, stager, recon>>
    /\ NoFault

AskRedis(f) ==
    /\ fetcher[f].pc = "redis"
    /\ Goto(f, IF fetcher[f].sha \in docKeys THEN "duplicate" ELSE "backstop")
    /\ UNCHANGED <<running, artifact, inserted, published, urlKeys, docKeys, objects, msgs,
                   stager, recon>> /\ NoFault

\* Faulty variant: no Postgres backstop behind the Redis key.
NoBackstop(i, c) == FALSE

\* corpus_has_sha256
CorpusHas(i, c) == \E j \in Ids \ {i} : artifact[j].sha256 = c

AskPostgres(f) ==
    /\ fetcher[f].pc = "backstop"
    /\ Goto(f, IF CorpusHas(fetcher[f].id, fetcher[f].sha) THEN "heal" ELSE "put")
    /\ UNCHANGED <<running, artifact, inserted, published, urlKeys, docKeys, objects, msgs,
                   stager, recon>> /\ NoFault

\* setnx on the doc key: to heal the cache, or after the commit of a fetched row.
SetDocKey(f) ==
    /\ fetcher[f].pc \in {"heal", "setnx"}
    /\ docKeys' = docKeys \cup {fetcher[f].sha}
    /\ Goto(f, IF fetcher[f].pc = "heal" THEN "duplicate" ELSE "delete")
    /\ UNCHANGED <<running, artifact, inserted, published, urlKeys, objects, msgs, stager, recon>>
    /\ NoFault

PutObject(f) ==
    /\ fetcher[f].pc = "put"
    /\ objects' = objects \cup {fetcher[f].sha}
    /\ Goto(f, "commit")
    /\ UNCHANGED <<running, artifact, inserted, published, urlKeys, docKeys, msgs, stager, recon>>
    /\ NoFault

Delete(f) ==
    /\ fetcher[f].pc = "delete"
    /\ msgs' = {m \in msgs : m.d # fetcher[f].d}
    /\ fetcher' = [fetcher EXCEPT ![f] = IdleFetcher]
    /\ UNCHANGED <<running, artifact, inserted, published, urlKeys, docKeys, objects, stager,
                   recon>> /\ NoFault

FetcherCrash(f) ==
    /\ fetcher[f].pc # "idle"
    /\ fetcher' = [fetcher EXCEPT ![f] = IdleFetcher]
    /\ Fault
    /\ UNCHANGED <<running, artifact, inserted, published, urlKeys, docKeys, objects, msgs,
                   stager, recon>>

-----------------------------------------------------------------------------
(* The queue, Redis, the clock and the operator.                           *)

Held(m) == \E f \in Fetchers : fetcher[f].pc # "idle" /\ fetcher[f].d = m.d

Redeliver ==
    /\ \E m \in msgs : /\ ~m.visible /\ ~Held(m)
                       /\ msgs' = (msgs \ {m}) \cup {[m EXCEPT !.visible = TRUE]}
    /\ UNCHANGED <<running, artifact, inserted, published, urlKeys, docKeys, objects, stager,
                   recon, fetcher>> /\ NoFault

RedeliverEarly ==
    /\ \E m \in msgs : /\ ~m.visible /\ Held(m)
                       /\ msgs' = (msgs \ {m}) \cup {[m EXCEPT !.visible = TRUE]}
    /\ Fault
    /\ UNCHANGED <<running, artifact, inserted, published, urlKeys, docKeys, objects, stager,
                   recon, fetcher>>

DeadLetter ==
    /\ \E m \in msgs : m.visible /\ ~Deliverable(m) /\ msgs' = msgs \ {m}
    /\ UNCHANGED <<running, artifact, inserted, published, urlKeys, docKeys, objects, stager,
                   recon, fetcher>> /\ NoFault

\* ElastiCache fails over and loses every key.
RedisLost ==
    /\ urlKeys \cup docKeys # {}
    /\ urlKeys' = {} /\ docKeys' = {}
    /\ Fault
    /\ UNCHANGED <<running, artifact, inserted, published, objects, msgs, stager, recon, fetcher>>

InProgress(i) == \/ \E m \in msgs : m.id = i /\ m.d = artifact[i].dispatch_id
                 \/ \E f \in Fetchers : fetcher[f].pc # "idle" /\ fetcher[f].id = i
                 \/ \E s \in Stagers : stager[s].pc = "send" /\ stager[s].id = i
                 \/ recon.pc = "send" /\ Least(recon.todo) = i

Aged(i) == /\ Pending(i) /\ artifact[i].dispatch_id # NoDispatch /\ ~artifact[i].stale
           /\ artifact' = [artifact EXCEPT ![i].stale = TRUE]
           /\ UNCHANGED <<running, inserted, published, urlKeys, docKeys, objects, msgs, stager,
                          recon, fetcher>>

\* dispatched_at passes the dispatch timeout over dead work, and over live work.
TimeoutDead(i) == ~InProgress(i) /\ Aged(i) /\ NoFault
TimeoutLive(i) == InProgress(i) /\ Aged(i) /\ Fault

Stop == /\ running /\ running' = FALSE
        /\ Fault
        /\ UNCHANGED <<artifact, inserted, published, urlKeys, docKeys, objects, msgs, stager,
                       recon, fetcher>>
Start == /\ ~running /\ running' = TRUE
         /\ UNCHANGED <<artifact, inserted, published, urlKeys, docKeys, objects, msgs, stager,
                        recon, fetcher>> /\ NoFault

-----------------------------------------------------------------------------
StagerStep(s) == StageStart(s) \/ StageInsert(s) \/ StageSetnx(s) \/ StageStamp(s) \/ StageSend(s)
ReconStep == ReconSelect \/ ReconStamp \/ ReconSend
FetcherStep(f) == \/ Receive(f) \/ Gate(f) \/ Get(f) \/ DropRow(f) \/ WriteBack(f) \/ AskRedis(f)
                  \/ AskPostgres(f) \/ SetDocKey(f) \/ PutObject(f) \/ Delete(f)

Next == \/ \E s \in Stagers : \/ StageStart(s) \/ StageInsert(s) \/ StageSetnx(s)
                              \/ StageStamp(s) \/ StageSend(s) \/ StagerCrash(s)
        \/ ReconSelect \/ ReconStamp \/ ReconSend \/ ReconSendFails \/ ReconCrash
        \/ \E f \in Fetchers : \/ Receive(f) \/ Gate(f) \/ Get(f) \/ DropRow(f) \/ WriteBack(f)
                               \/ AskRedis(f) \/ AskPostgres(f) \/ SetDocKey(f) \/ PutObject(f)
                               \/ Delete(f) \/ FetcherCrash(f)
        \/ Redeliver \/ RedeliverEarly \/ DeadLetter \/ RedisLost
        \/ \E i \in Ids : TimeoutDead(i) \/ TimeoutLive(i)
        \/ Stop \/ Start

Spec == Init /\ [][Next]_vars

\* Threads keep running, clocks keep ticking; faults, stops and new candidates are not fair.
Fairness == /\ \A s \in Stagers : WF_vars(stager[s].pc # "idle" /\ StagerStep(s))
            /\ WF_vars(ReconStep)
            /\ \A f \in Fetchers : WF_vars(FetcherStep(f))
            /\ WF_vars(Redeliver) /\ WF_vars(DeadLetter) /\ WF_vars(Start)
            /\ \A i \in Ids : WF_vars(TimeoutDead(i))

FairSpec == Spec /\ Fairness

-----------------------------------------------------------------------------
(* Properties.                                                             *)

\* Every staged artifact leaves "pending" in the end (or its dead link is deleted), through
\* any bounded number of crashes, lost keys, lost sends, redeliveries and stops.
EveryArtifactSettles == \A i \in Ids : Pending(i) ~> ~Pending(i)

\* A worker past its gate, before its verdict is written; the workers judging a row; a row judged.
Judging == {"get", "drop", "attempt", "not_document", "redis", "backstop", "heal", "duplicate",
            "put", "commit"}
JudgesOf(i) == {f \in Fetchers : fetcher[f].pc \in Judging /\ fetcher[f].id = i}
Settled(i)  == Exists(i) /\ ~Pending(i)
Judgement(i) == <<artifact[i].status, artifact[i].sha256>>

\* What is left of "terminal" when several fetch threads write back whole rows (update_artifact):
\* no worker takes up a settled row, however often its message is redelivered and its row stamped
\* again; and a verdict is overruled only by a worker that passed its gate before, which, unless a
\* fault delivered one message twice, works for another dispatch of the row than the stamp names.
VerdictsRest ==
    [][\A i \in Ids : Settled(i) =>
         /\ JudgesOf(i)' \subseteq JudgesOf(i)
         /\ Judgement(i)' # Judgement(i) =>
              \E f \in JudgesOf(i) : fetcher[f].d # artifact[i].dispatch_id \/ faults > 0]_vars

\* The rows that keep a content, and the workers past both lookups that will add another row.
Keepers(c) == {i \in Ids : artifact[i].status = "fetched" /\ artifact[i].sha256 = c}
Storing(c) == {f \in Fetchers : /\ fetcher[f].pc \in {"put", "commit"} /\ fetcher[f].sha = c
                                /\ fetcher[f].id \notin Keepers(c)}

\* Workers that hold the same bytes at the same time may each keep them (fetch.py, the lookups and
\* the commit are apart).  After that race nobody keeps them again: once a content is kept and no
\* worker is storing it, no row is added to its keepers while they stay, whatever Redis has lost.
KeptOnce ==
    [][\A c \in Contents : Keepers(c) # {} /\ Storing(c) = {} =>
         \/ ~(Keepers(c) \subseteq Keepers(c)')
         \/ Keepers(c)' = Keepers(c) /\ Storing(c)' = {}]_vars

\* Whatever a later fetch may be called a duplicate of, by its doc key or by the hash of a row, has
\* its bytes in the object store, though the row that stored them may have been overruled since.
KnownIsStored == docKeys \cup ({artifact[i].sha256 : i \in Ids} \ {None}) \subseteq objects
==============================================================================
