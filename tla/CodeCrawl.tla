------------------------------ MODULE CodeCrawl ------------------------------
(***************************************************************************)
(* The legal_codes half of the harvester, for one jurisdiction with its    *)
(* portals registered in code_sources: the orchestrator parks or           *)
(* dispatches its row, code workers crawl the portals publisher by         *)
(* publisher in a child process that reports through a pipe, stage what it *)
(* found, and record one verdict per dispatch.                             *)
(*                                                                         *)
(* Here time is counted, in ticks, because the code is about durations:    *)
(* the visibility of a message, the heartbeat, the deadline of a task and  *)
(* the dispatch timeout.  A tick passes freely while workers only crawl or *)
(* wait, and, as often as a bound allows, over a message that waits its    *)
(* turn because the workers are busy with the targets of other             *)
(* jurisdictions; a tick that passes over any other step (a slow           *)
(* transaction, a send not done) is a fault.                               *)
(***************************************************************************)
EXTENDS Naturals, FiniteSets

CONSTANTS
    Urls,           \* portal entry pages registered for the jurisdiction
    PublisherOf,    \* url -> municode, amlegal, ecode360 or other
    Pages,          \* page -> what it shows: a set of [kind, to]
    MaxPages,       \* code_max_pages
    PipeSizes,      \* how many items the pipe of a multiprocessing.Queue may hold unread
    Orchestrators, Workers,
    Beat,           \* CODE_HEARTBEAT_S, in ticks
    Visibility,     \* CODE_VISIBILITY_TIMEOUT_S
    Deadline,       \* CODE_DEADLINE_S
    Timeout,        \* CODE_DISPATCH_TIMEOUT_S
    MaxReceive,     \* MAX_RECEIVE_COUNT of the queue's redrive policy
    MaxDispatch,    \* bound: dispatch ids issued
    MaxFaults,      \* bound: faults in a behaviour
    MaxBacklog,     \* bound: ticks a message of the row waits behind those of other targets
    MaxEdits,       \* bound: edits of code_sources and of the run switch
    MaxRecrawls     \* bound: times the row falls due again

ASSUME CrawlAssumption ==
    /\ IsFiniteSet(Urls) /\ Urls # {}
    /\ Urls \subseteq DOMAIN Pages /\ \A p \in DOMAIN Pages : IsFiniteSet(Pages[p])
    /\ MaxPages \in Nat \ {0} /\ PipeSizes \subseteq Nat \ {0}
    /\ Beat \in Nat \ {0}
    /\ Visibility \in Nat /\ Beat < Visibility
    /\ Deadline \in Nat /\ Visibility < Deadline
    /\ Timeout \in Nat /\ Deadline < Timeout
    /\ MaxReceive \in Nat \ {0}
    /\ MaxDispatch \in Nat /\ MaxFaults \in Nat
    /\ MaxBacklog \in Nat /\ MaxEdits \in Nat /\ MaxRecrawls \in Nat

VARIABLES
    running,    \* campaign_controls.state = "running"
    enabled,    \* code_sources rows that are enabled
    row,        \* the sweep_targets row, source legal_codes
    issued,     \* dispatch ids issued
    msgs,       \* harvest-code-tasks
    history,    \* harvest_sweeps rows
    artifacts,  \* source_url of the artifacts rows
    orch,       \* control state of each orchestrator
    worker,     \* control state of each code worker, with its child process
    faults, backlog, edits, recrawls

tables == <<running, enabled, row, issued, history, artifacts>>
counts == <<backlog, edits, recrawls>>
vars == <<tables, msgs, orch, worker, faults, counts>>

Dispatches == 1 .. MaxDispatch
Results    == {"candidates", "not_found", "error"}
Publishers == {PublisherOf[u] : u \in Urls}
Documents  == UNION {{i.to : i \in Pages[p]} : p \in DOMAIN Pages}
Looks      == Publishers \X DOMAIN Pages

Rows == [d : {0} \cup Dispatches, due : BOOLEAN, age : 0 .. Timeout, result : Results \cup {"none"}]
Messages == [d : Dispatches, urls : SUBSET Urls, receives : 0 .. MaxReceive, hidden : 0 .. Visibility]
\* long: the row is due again after the resweep interval, not tomorrow; portals: what the task asked
\* for; seen and blocked: the pages of each publisher that were rendered and those that could not be.
HistoryRows == [d : Dispatches, result : Results, long : BOOLEAN, portals : SUBSET Urls,
                blocked : SUBSET Looks, seen : SUBSET Looks]

Fault   == faults < MaxFaults /\ faults' = faults + 1
NoFault == UNCHANGED <<faults, counts>>

\* What a worker holds: its message, the clock of its task, the publishers left, the outcome so
\* far, and the child process with the pages it has visited and the items it has put.
IdleWorker == [pc |-> "idle", d |-> 0, urls |-> {}, elapsed |-> 0, beatAt |-> 0, todo |-> {},
               publisher |-> "none", seen |-> {}, blocked |-> {}, staged |-> FALSE,
               errors |-> FALSE, complete |-> TRUE, verdict |-> "none", child |-> "none",
               frontier |-> {}, visited |-> {}, items |-> 0, piped |-> {}, pipe |-> 0]

-----------------------------------------------------------------------------
(* The orchestrator.                                                       *)

IdleOrch == [pc |-> "idle", seen |-> 0, urls |-> {}, d |-> 0]

Fresh == [d |-> 0, due |-> TRUE, age |-> 0, result |-> "none"]

\* seed_targets has inserted the row, whose jurisdiction is in scope and has an enabled seed.
Init ==
    /\ running = TRUE
    /\ enabled = Urls
    /\ row = Fresh
    /\ issued = 0
    /\ msgs = {} /\ history = {} /\ artifacts = {}
    /\ orch = [o \in Orchestrators |-> IdleOrch]
    /\ worker = [w \in Workers |-> IdleWorker]
    /\ faults = 0 /\ backlog = 0 /\ edits = 0 /\ recrawls = 0

\* run_cycle behind the run switch.  A pass of seed_targets that is not throttled parks a due row
\* without an enabled seed, on the strength of this reading.
Cycle(o) ==
    /\ orch[o].pc = "idle" /\ running
    /\ \/ orch' = [orch EXCEPT ![o].pc = "select"]
       \/ /\ enabled = {} /\ row.due
          /\ orch' = [orch EXCEPT ![o].pc = "park_seeding"]
    /\ UNCHANGED <<tables, msgs, worker>> /\ NoFault

\* Faulty variant: a dispatch never times out.
EligibleNeverStale == row.due /\ row.d = 0

\* Faulty variant: the timeout is the deadline of a crawl.
EligibleAtDeadline == row.due /\ (row.d = 0 \/ row.age >= Deadline)

\* select_due: due, and either free or stamped longer ago than the timeout of its source.
Eligible == row.due /\ (row.d = 0 \/ row.age = Timeout)

Select(o) ==
    /\ orch[o].pc = "select"
    /\ orch' = [orch EXCEPT ![o] = IF Eligible THEN [@ EXCEPT !.pc = "sources", !.seen = row.d]
                                   ELSE IdleOrch]
    /\ UNCHANGED <<tables, msgs, worker>> /\ NoFault

\* _dispatch_code: list_code_sources(enabled_only=True).
ReadSources(o) ==
    /\ orch[o].pc = "sources"
    /\ orch' = [orch EXCEPT ![o] = [@ EXCEPT !.pc = IF enabled = {} THEN "park" ELSE "stamp",
                                             !.urls = enabled]]
    /\ UNCHANGED <<tables, msgs, worker>> /\ NoFault

\* park_target: by id alone, whatever has happened to the row since it was read.
Parked == [d |-> 0, due |-> FALSE, age |-> 0, result |-> "error"]

Park(o) ==
    /\ orch[o].pc \in {"park", "park_seeding"}
    /\ row' = Parked
    /\ orch' = [orch EXCEPT ![o] = [IdleOrch EXCEPT !.pc = IF orch[o].pc = "park" THEN "idle" ELSE "select"]]
    /\ UNCHANGED <<running, enabled, issued, history, artifacts, msgs, worker>> /\ NoFault

\* stamp_target: compare-and-set on the stamp that was read.
Stamp(o) ==
    /\ orch[o].pc = "stamp"
    /\ IF row.d = orch[o].seen
       THEN /\ issued < MaxDispatch
            /\ issued' = issued + 1
            /\ row' = [row EXCEPT !.d = issued + 1, !.age = 0]
            /\ orch' = [orch EXCEPT ![o].pc = "send", ![o].d = issued + 1]
       ELSE /\ orch' = [orch EXCEPT ![o] = IdleOrch]
            /\ UNCHANGED <<row, issued>>
    /\ UNCHANGED <<running, enabled, history, artifacts, msgs, worker>> /\ NoFault

Send(o) ==
    /\ orch[o].pc = "send"
    /\ msgs' = msgs \cup {[d |-> orch[o].d, urls |-> orch[o].urls, receives |-> 0, hidden |-> 0]}
    /\ orch' = [orch EXCEPT ![o] = IdleOrch]
    /\ UNCHANGED <<tables, worker>> /\ NoFault

\* A failing send is caught per target and a failing cycle by the loop; a dead process restarts.
OrchestratorFails(o) ==
    /\ orch[o].pc # "idle"
    /\ orch' = [orch EXCEPT ![o] = IdleOrch]
    /\ Fault
    /\ UNCHANGED <<tables, msgs, worker, counts>>

-----------------------------------------------------------------------------
(* A code worker up to the crawl.                                          *)

\* Faulty variant: one receive more than the redrive policy allows.
DeliverableOnceMore(m) == m.hidden = 0 /\ m.receives <= MaxReceive

Deliverable(m) == m.hidden = 0 /\ m.receives < MaxReceive

Receive(w) ==
    /\ worker[w].pc = "idle"
    /\ \E m \in msgs :
         /\ Deliverable(m)
         /\ msgs' = (msgs \ {m}) \cup {[m EXCEPT !.receives = @ + 1, !.hidden = Visibility]}
         /\ worker' = [worker EXCEPT ![w] = [IdleWorker EXCEPT !.pc = "gate", !.d = m.d, !.urls = m.urls]]
    /\ UNCHANGED <<tables, orch>> /\ NoFault

\* gate_code: the run switch and the row's current dispatch; it does not ask for a history row.
GatePasses(d) == running /\ row.d = d

Groups(urls) == {PublisherOf[u] : u \in urls}

\* Past the gate the heartbeat starts and the portals are grouped by publisher.
Gate(w) ==
    LET s == worker[w] IN
    /\ s.pc = "gate"
    /\ worker' = [worker EXCEPT ![w] =
                    IF GatePasses(s.d)
                    THEN [s EXCEPT !.pc = "group", !.todo = Groups(s.urls), !.beatAt = Beat]
                    ELSE [IdleWorker EXCEPT !.pc = "delete", !.d = s.d]]
    /\ UNCHANGED <<tables, msgs, orch>> /\ NoFault

\* Heartbeat.maybe_beat: a beat is owed and the deadline has not passed.
Beats(s) == s.elapsed >= s.beatAt /\ s.elapsed < Deadline

Extended(s) == {IF Beats(s) /\ m.d = s.d THEN [m EXCEPT !.hidden = Visibility] ELSE m : m \in msgs}
BeatNext(s) == IF Beats(s) THEN s.elapsed + Beat ELSE s.beatAt

\* The for loop over the publishers: beat, give up past the deadline, otherwise start a child.
NextGroup(w) ==
    LET s == worker[w] IN
    /\ s.pc = "group" /\ s.todo # {}
    /\ msgs' = Extended(s)
    /\ IF s.elapsed >= Deadline
       THEN worker' = [worker EXCEPT ![w] = [s EXCEPT !.pc = "record", !.complete = FALSE]]
       ELSE \E p \in s.todo, n \in PipeSizes :
              worker' = [worker EXCEPT ![w] =
                           [s EXCEPT !.pc = "crawl", !.publisher = p, !.todo = @ \ {p},
                                     !.beatAt = BeatNext(s),
                                     !.child = "runs", !.pipe = n,
                                     !.frontier = {u \in s.urls : PublisherOf[u] = p}]]
    /\ UNCHANGED <<tables, orch>> /\ NoFault

NoGroupLeft(w) ==
    /\ worker[w].pc = "group" /\ worker[w].todo = {}
    /\ worker' = [worker EXCEPT ![w].pc = "record"]
    /\ UNCHANGED <<tables, msgs, orch>> /\ NoFault

-----------------------------------------------------------------------------
(* The child process of discover(), its pipe, and what the worker makes of *)
(* them.                                                                   *)

\* What the strategy of a publisher takes from a rendered page, by kind of link: pdf (a .pdf),
\* export (the publisher's own download link), office (another document extension), page (the
\* table of contents), site (the same host elsewhere), api (JSON of the publisher's content API),
\* json (any other captured JSON).
CandidateKinds(p) ==
    CASE p \in {"municode", "amlegal", "ecode360"} -> {"pdf", "export", "api"}
      [] p = "other" -> {"pdf", "office", "api", "json"}
TocKinds(p) ==
    CASE p \in {"municode", "amlegal"} -> {"page"}
      [] p = "ecode360" -> {"page", "site", "office"}
      [] p = "other" -> {"page", "site", "export"}

Candidates(p, page) == {i.to : i \in {j \in Pages[page] : j.kind \in CandidateKinds(p)}}
TocLinks(p, page)   == {i.to : i \in {j \in Pages[page] : j.kind \in TocKinds(p)}}

\* The pipe takes items while there is room (its bytes bound their number); the rest waits in the
\* child's feeder thread, since nobody reads before the child is joined.
Room(s)    == s.pipe - s.items
Fits(s, k) == IF k < Room(s) THEN k ELSE Room(s)

\* PortalSpider.parse: one out_queue.put per candidate, a request per link not yet followed, and
\* no new page past CLOSESPIDER_PAGECOUNT.
Render(w) ==
    LET s == worker[w] IN
    /\ s.pc = "crawl" /\ s.child = "runs" /\ Cardinality(s.visited) < MaxPages
    /\ \E page \in s.frontier :
         LET found == Candidates(s.publisher, page)
             visited == s.visited \cup {page}
         IN \E kept \in SUBSET found :
              /\ Cardinality(kept) = Fits(s, Cardinality(found))
              /\ worker' = [worker EXCEPT ![w] =
                   [s EXCEPT !.visited = visited, !.seen = @ \cup {<<s.publisher, page>>}, !.piped = @ \cup kept,
                             !.items = @ + Cardinality(kept),
                             !.frontier = (@ \cup (TocLinks(s.publisher, page) \cap DOMAIN Pages)) \ visited]]
    /\ UNCHANGED <<tables, msgs, orch>> /\ NoFault

\* on_error: the portal cannot be reached, forbids the page or blocks the crawler.
Unreachable(w) ==
    LET s == worker[w] IN
    /\ s.pc = "crawl" /\ s.child = "runs" /\ Cardinality(s.visited) < MaxPages
    /\ \E page \in s.frontier :
         worker' = [worker EXCEPT ![w] =
                      [s EXCEPT !.visited = @ \cup {page}, !.blocked = @ \cup {<<s.publisher, page>>},
                                !.items = @ + Fits(s, 1), !.frontier = @ \ {page}]]
    /\ Fault
    /\ UNCHANGED <<tables, msgs, orch, counts>>

\* The spider closes and puts the sentinel; the process can exit once its feeder has flushed all.
CrawlEnds(w) ==
    LET s == worker[w] IN
    /\ s.pc = "crawl" /\ s.child = "runs"
    /\ s.frontier = {} \/ Cardinality(s.visited) = MaxPages
    /\ worker' = [worker EXCEPT ![w].child = IF Room(s) > 0 THEN "exited" ELSE "stuck"]
    /\ UNCHANGED <<tables, msgs, orch>> /\ NoFault

\* The child is killed, or its crawl raises: it exits without the sentinel.
ChildDies(w) ==
    /\ worker[w].pc = "crawl" /\ worker[w].child \in {"runs", "stuck"}
    /\ worker' = [worker EXCEPT ![w].child = "died"]
    /\ Fault
    /\ UNCHANGED <<tables, msgs, orch, counts>>

\* Faulty variant: a crawl cut off at the deadline counts as complete.
CompleteAnyhow(s) == s.child # "died"

\* DiscoveryResult.complete: the sentinel was read and the join did not time out.
Complete(s) == s.child = "exited"

\* discover returns after the join: the pipe is drained, and a child that died with nothing to
\* show raises TransientPortalError, which leaves the message and returns.
Discovered(w) ==
    LET s == worker[w] IN
    /\ s.pc = "crawl"
    /\ s.child \in {"exited", "died"} \/ s.elapsed >= Deadline
    /\ worker' = [worker EXCEPT ![w] =
         IF s.child = "died" /\ s.piped = {} THEN IdleWorker
         ELSE [s EXCEPT !.pc = "stage", !.complete = @ /\ Complete(s),
                        !.child = "none", !.items = 0, !.visited = {}, !.frontier = {}, !.pipe = 0]]
    /\ UNCHANGED <<tables, msgs, orch>> /\ NoFault

\* PortalError of a discoverer: noted, and the next publisher has its turn.
PortalFails(w) ==
    LET s == worker[w] IN
    /\ s.pc = "crawl" /\ s.visited = {} /\ s.child = "runs"
    /\ worker' = [worker EXCEPT ![w] =
         [s EXCEPT !.pc = "group", !.errors = TRUE, !.blocked = @ \cup ({s.publisher} \X s.frontier),
                   !.frontier = {}]]
    /\ Fault
    /\ UNCHANGED <<tables, msgs, orch, counts>>

\* _stage_all: stage_candidate for one candidate after another; only a new artifact is counted.
StageOne(w) ==
    LET s == worker[w] IN
    /\ s.pc = "stage" /\ s.piped # {}
    /\ LET c == CHOOSE c \in s.piped : TRUE
       IN /\ artifacts' = artifacts \cup {c}
          /\ worker' = [worker EXCEPT ![w] = [s EXCEPT !.piped = @ \ {c}, !.staged = @ \/ c \notin artifacts]]
    /\ UNCHANGED <<running, enabled, row, issued, history, msgs, orch>> /\ NoFault

\* The beat after the publisher's candidates are staged.
GroupEnds(w) ==
    LET s == worker[w] IN
    /\ s.pc = "stage" /\ s.piped = {}
    /\ msgs' = Extended(s)
    /\ worker' = [worker EXCEPT ![w] = [s EXCEPT !.pc = "group", !.publisher = "none", !.beatAt = BeatNext(s)]]
    /\ UNCHANGED <<tables, orch>> /\ NoFault

-----------------------------------------------------------------------------
(* The verdict.                                                            *)

Verdict(s) ==
    IF s.errors /\ ~s.staged /\ s.complete THEN "error"
    ELSE IF s.staged THEN "candidates"
    ELSE IF s.complete THEN "not_found" ELSE "error"

\* Faulty variant: a truncated crawl that staged something rests for the resweep interval.
RestsIfStaged(s) == s.complete \/ s.staged

\* next_due_at: an error or a truncated crawl is due tomorrow, the rest after the interval.
RestsLong(s) == s.complete /\ ~(s.errors /\ ~s.staged)

\* Faulty variant: whoever is done finalizes.
AlwaysFirst(d) == TRUE

\* uq_sweep_dispatch_seq, with query_seq 0
FirstInsert(d) == \A h \in history : h.d # d

\* insert_history; only the worker whose row went in finalizes.
Record(w) ==
    LET s == worker[w] IN
    /\ s.pc = "record"
    /\ history' = IF \E h \in history : h.d = s.d THEN history
                  ELSE history \cup {[d |-> s.d, result |-> Verdict(s), long |-> RestsLong(s),
                                      portals |-> s.urls, blocked |-> s.blocked, seen |-> s.seen]}
    /\ worker' = [worker EXCEPT ![w] =
                    [IdleWorker EXCEPT !.pc = IF FirstInsert(s.d) THEN "finalize" ELSE "delete",
                                       !.d = s.d, !.verdict = Verdict(s)]]
    /\ UNCHANGED <<running, enabled, row, issued, artifacts, msgs, orch>> /\ NoFault

\* Faulty variant: WHERE id = :target alone.
FinalizesAny(d) == TRUE

\* WHERE id = :target AND dispatch_id = :dispatch
StillCurrent(d) == row.d = d

Finalize(w) ==
    LET s == worker[w] IN
    /\ s.pc = "finalize"
    /\ row' = IF StillCurrent(s.d) THEN [d |-> 0, due |-> FALSE, age |-> 0, result |-> s.verdict] ELSE row
    /\ worker' = [worker EXCEPT ![w] = [IdleWorker EXCEPT !.pc = "delete", !.d = s.d]]
    /\ UNCHANGED <<running, enabled, issued, history, artifacts, msgs, orch>> /\ NoFault

Delete(w) ==
    /\ worker[w].pc = "delete"
    /\ msgs' = {m \in msgs : m.d # worker[w].d}
    /\ worker' = [worker EXCEPT ![w] = IdleWorker]
    /\ UNCHANGED <<tables, orch>> /\ NoFault

\* The thread dies, or the handler raises: the message stays undeleted.
WorkerFails(w) ==
    /\ worker[w].pc # "idle"
    /\ worker' = [worker EXCEPT ![w] = IdleWorker]
    /\ Fault
    /\ UNCHANGED <<tables, msgs, orch, counts>>

-----------------------------------------------------------------------------
(* The queue, the clock and the operator.                                  *)

DeadLetter ==
    /\ \E m \in msgs : m.hidden = 0 /\ m.receives = MaxReceive /\ msgs' = msgs \ {m}
    /\ UNCHANGED <<tables, orch, worker>> /\ NoFault

Waiting(s) == s.pc = "idle" \/ (s.pc = "crawl" /\ s.child \in {"runs", "stuck"} /\ s.elapsed < Deadline)

\* Nothing is under way but crawls, and no send is pending.
OnlyCrawls == /\ \A w \in Workers : Waiting(worker[w])
              /\ \A o \in Orchestrators : orch[o].pc # "send"

\* A message could be had, and a worker is not at work for this row.
InQueue == \E m \in msgs, w \in Workers : Deliverable(m) /\ worker[w].pc = "idle"

Timed(s) == s.pc \in {"group", "crawl", "stage"} /\ s.elapsed < Deadline

Later ==
    /\ \/ \E m \in msgs : m.hidden > 0
       \/ row.d # 0 /\ row.age < Timeout
       \/ \E w \in Workers : Timed(worker[w])
    /\ msgs' = {[m EXCEPT !.hidden = IF @ > 0 THEN @ - 1 ELSE 0] : m \in msgs}
    /\ row' = [row EXCEPT !.age = IF row.d # 0 /\ @ < Timeout THEN @ + 1 ELSE @]
    /\ worker' = [w \in Workers |-> IF Timed(worker[w]) THEN [worker[w] EXCEPT !.elapsed = @ + 1] ELSE worker[w]]
    /\ UNCHANGED <<running, enabled, issued, history, artifacts, orch>>

Tick     == OnlyCrawls /\ ~InQueue /\ Later /\ NoFault
TickLate == ~OnlyCrawls /\ Later /\ Fault /\ UNCHANGED counts

\* The workers that do nothing for this row are busy with other targets of the queue.
TickBacklog == /\ OnlyCrawls /\ InQueue /\ Later
               /\ backlog < MaxBacklog /\ backlog' = backlog + 1
               /\ UNCHANGED <<faults, edits, recrawls>>

\* next_due_at passes.
FallDue ==
    /\ row.d = 0 /\ ~row.due /\ recrawls < MaxRecrawls
    /\ row' = [row EXCEPT !.due = TRUE]
    /\ recrawls' = recrawls + 1
    /\ UNCHANGED <<running, enabled, issued, history, artifacts, msgs, orch, worker, faults, backlog, edits>>

\* set_code_source_enabled
SetEnabled(u) ==
    /\ edits < MaxEdits /\ edits' = edits + 1
    /\ enabled' = IF u \in enabled THEN enabled \ {u} ELSE enabled \cup {u}
    /\ UNCHANGED <<running, row, issued, history, artifacts, msgs, orch, worker, faults, backlog, recrawls>>

\* The run switch; Start is not counted, so that a stopped corpus can always be started again.
Stop ==
    /\ running /\ edits < MaxEdits /\ edits' = edits + 1
    /\ running' = FALSE
    /\ UNCHANGED <<enabled, row, issued, history, artifacts, msgs, orch, worker, faults, backlog, recrawls>>

Start ==
    /\ ~running /\ running' = TRUE
    /\ UNCHANGED <<enabled, row, issued, history, artifacts, msgs, orch, worker, faults, counts>>

-----------------------------------------------------------------------------

OrchStep(o) == Cycle(o) \/ Select(o) \/ ReadSources(o) \/ Park(o) \/ Stamp(o) \/ Send(o)
ChildStep(w) == Render(w) \/ Unreachable(w) \/ CrawlEnds(w) \/ ChildDies(w)
WorkerStep(w) == \/ Receive(w) \/ Gate(w) \/ NextGroup(w) \/ NoGroupLeft(w) \/ Discovered(w)
                 \/ StageOne(w) \/ GroupEnds(w) \/ Record(w) \/ Finalize(w) \/ Delete(w)

Next ==
    \/ \E o \in Orchestrators : OrchStep(o) \/ OrchestratorFails(o)
    \/ \E w \in Workers : WorkerStep(w) \/ ChildStep(w) \/ PortalFails(w) \/ WorkerFails(w)
    \/ DeadLetter \/ Tick \/ TickLate \/ TickBacklog \/ FallDue
    \/ \E u \in Urls : SetEnabled(u)
    \/ Stop \/ Start

Spec == Init /\ [][Next]_vars

\* The loops go on, time passes, SQS redrives, and a stopped corpus is started again.  Nothing is
\* asked of the child: a render may hang until the deadline.
Fairness ==
    /\ \A o \in Orchestrators : WF_vars(OrchStep(o))
    /\ \A w \in Workers : WF_vars(WorkerStep(w))
    /\ WF_vars(DeadLetter) /\ WF_vars(Tick) /\ WF_vars(Start)

FairSpec == Spec /\ Fairness

-----------------------------------------------------------------------------
(* Properties.                                                             *)

WorkerPcs == {"idle", "gate", "group", "crawl", "stage", "record", "finalize", "delete"}

\* Types of the tables, the queue and the control states.
TypeOK ==
    /\ running \in BOOLEAN /\ enabled \subseteq Urls
    /\ row \in Rows /\ issued \in 0 .. MaxDispatch
    /\ msgs \subseteq Messages /\ history \subseteq HistoryRows /\ artifacts \subseteq Documents
    /\ \A o \in Orchestrators : orch[o].pc \in {"idle", "select", "sources", "park", "park_seeding", "stamp", "send"}
                                /\ orch[o].seen \in 0 .. MaxDispatch /\ orch[o].urls \subseteq Urls
    /\ \A w \in Workers : LET s == worker[w] IN
         /\ s.pc \in WorkerPcs /\ s.d \in 0 .. MaxDispatch /\ s.elapsed \in 0 .. Deadline
         /\ s.items \in 0 .. s.pipe /\ s.piped \subseteq Documents
         /\ s.child \in {"none", "runs", "exited", "stuck", "died"}

\* A row leaves a dispatch other than for a newer one only with the verdict the history keeps for
\* that dispatch, or because the orchestrator found no enabled seed and parked it.
LetGoByItsVerdict ==
    [][ (row.d # 0 /\ row'.d = 0) =>
          \/ \E h \in history : h.d = row.d /\ h.result = row'.result
          \/ \E o \in Orchestrators : orch[o].pc \in {"park", "park_seeding"} /\ orch'[o].pc # orch[o].pc ]_vars

\* The pages of publisher p that a crawl rendered or was refused.
Looked(h, p) == {page \in DOMAIN Pages : <<p, page>> \in h.seen \cup h.blocked}

\* A crawl is put to rest for the whole resweep interval only if every portal it was asked for was
\* rendered or refused, or the page budget of its publisher was spent, and every document on a page
\* it rendered is staged: partial crawls, deadlines, dying children and crashes between two
\* candidates must come back tomorrow.
RestMeansExhausted ==
    \A h \in history : h.long =>
        /\ \A u \in h.portals : LET pages == Looked(h, PublisherOf[u])
                               IN u \in pages \/ Cardinality(pages) >= MaxPages
        /\ \A x \in h.seen : Candidates(x[1], x[2]) \subseteq artifacts

\* Every due crawl is settled in the end: recorded, parked or rescheduled, whatever dies on the way.
EveryCrawlSettles == row.due ~> ~row.due

\* While nothing fails, the dispatch timeout outlives every crawl of a dispatch, the ones that the
\* queue handed out a second time included, as long as its messages wait their turn for less than
\* what the timeout leaves beyond a deadline: no newer dispatch is stamped over a live crawl.
TimeoutOutlivesCrawl ==
    faults = 0 /\ recrawls = 0 /\ backlog + Deadline < Timeout =>
        \A w \in Workers : worker[w].pc = "crawl" => row.d \in {0, worker[w].d}
=============================================================================
