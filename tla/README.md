# Formal models of dialogue-microservices

TLA+ modules, TLC runs and TLAPS proofs for the two systems of this repository: the harvesting
system (`core/`, `orchestrator/`, `harvester/`) and the public-records pipeline (`records/`).
Every definition is translated from the Python source; `PROJECT.json` maps each one to the
lines it stands for, lists the hazards of the code, and says which property looks at which.

## 1. The system

### 1.1 Harvesting

Postgres is the durable state, SQS carries work at least once, Redis holds disposable counters
and dedupe keys. The orchestrator is one loop; harvesters are pools of threads.

| component | state it keeps | operations | what makes it correct |
|---|---|---|---|
| dispatch (`dispatch.py`, `generate.py`) | stamp (`dispatch_id`, `dispatched_at`), `next_due_at` and `last_result` of each `sweep_targets` row | select due rows, generate queries, compare-and-set stamp, one send per query | a row carries one live dispatch; nothing is lost for ever between stamp and send |
| sweep worker (`sweep.py`) | the messages it holds | gate, search, triage, stage, unique history insert | a query has one result however often it is delivered |
| fan-in (`fanin.py`) | Redis counter per dispatch | `HINCRBY`, aggregate on the last query, guarded finalize | the verdict fits the answers; a late worker never touches a newer dispatch |
| staging (`staging.py`) | `artifacts` row, url key | fast path, insert, key, stamp, send | one row per URL; a row without a message is found again |
| fetch worker (`fetch.py`) | `artifacts` verdict, doc key, S3 object | gate, GET, sniff, dedupe, store, commit | a content is kept once, but for races; a verdict is only overruled by work already under way |
| reconciliation (`reconcile.py`) | none | select stale pending rows, stamp, send | every artifact settles |
| code worker (`code.py`, `spiders/`) | the message's visibility, a child process and its pipe, one history row per dispatch | gate, crawl a publisher's portals, stage, record, finalize | a crawl rests for the whole interval only when the portals were exhausted; row and history agree |
| census (`census.py`) | `jurisdictions`, whose state row marks a state as loaded; a throttle and a download per process | download, insert places one by one, marker last | the marker is never over a half-loaded state |
| seeding (`seeding.py`) | `sweep_targets` rows | resolve the scope, backfill from history, insert, park orphans | every place in scope has its rows; nothing is bought twice |
| operator (`ops.py`, `cli.py`) | run switch, `code_sources` | start, stop, import, enable, purge | a purge or a switch under way breaks nothing for good |

Hard: redelivery to two workers at once, crashes between any two of the stores' steps, lost
Redis keys and counters, timeouts that fire over live work, two orchestrators, whole-row
writes of rows read in an earlier transaction, a crawl that outlasts the visibility of its
message, a purge or a change of configuration under work that goes on.

### 1.2 Public records

One process; a thread per queue (search, contacts, follow-ups, inbound mail, dead letters) and
the orchestrator's tick (seed, mail poll, follow-up scan, digest) share one SQL store.

| component | state it keeps | operations | what makes it correct |
|---|---|---|---|
| seeding (`orchestrator.py`, `census.py`) | jurisdictions, search targets, `seeded` | load a state, one target per jurisdiction, send a known contact or enqueue queries and count them | reruns of a pass converge; a seeded campaign has every office on its way |
| scraper (`scraper.py`) | resolved flag and consumed queries of a target, contact of a jurisdiction | gate, search and pick, compare-and-set, contact or escalation | an office is decided once; used-up queries mean a decision |
| sender (`sender.py`) | threads, outbound rows | initial request, follow-ups, replies | no second mail for one job; at most the configured follow-ups; no mail on closed threads |
| receiver (`receiver.py`) | inbound rows, status, escalations | match, log, classify, react | every inbound mail is reacted to once |
| follow-up scan (`orchestrator.py`) | `next_action_at` | due threads: send a job or close | every open thread is closed or parked in the end |
| fees (`fees.py`) | spend ledger | book under budget, then agree | spend within budget, agreement only for booked fees |
| gates of a request (`sender.py`) | outbound rows of the day, `last_contacted_at` of the shared office row | consent, daily cap, cooldown, anonymous states | cap and cooldown hold for the mails that left; a throttled contact is not lost |
| dead-letter watcher (`consumer.py`) | dead letters | escalate, delete | every dead letter comes to the operator |
| digest (`digest.py`) | `notified` of escalations and fees | read, mail, mark | every row is alerted, once |
| operator (`ops.py`) | campaigns, escalations | start, stop, kill, resolve, approve | only a human reopens a parked thread; a kill leaves the other campaigns whole |

Hard: check-then-act on thread status in two statements, reactions after the commit that makes
the message a duplicate, sends before the record of them, deferral by redelivery that a receive
limit cuts short, campaigns that share offices, a campaign killed under its own messages.

## 2. Modules

| module | models | state |
|---|---|---|
| `SweepCursor` | abstract: what `sweep_targets` and `harvest_sweeps` promise together | the dispatch a target carries, the queries asked, the queries answered |
| `SweepDispatch` | dispatch, sweep worker, fan-in, queue, clock, switches | rows with their stamp, messages with receive counts, history, counters, a control state per orchestrator and worker |
| `ArtifactFetch` | staging, fetch worker, reconciliation | artifact rows, Redis keys, S3 objects, messages, control states, the row each fetcher read |
| `ContactSearch` | seed pass, census load, scraper, its queue and dead letters | campaign flags, jurisdiction rows with their contact, target rows, query messages, a control state per seeder and scraper thread, counts of contacts sent and escalations per office |
| `Correspondence` | contact sender, follow-up sender, receiver, follow-up scan, mail poll, dead-letter watcher, operator | the thread rows, the messages of the four queues, a control state per actor, inbound rows, counts of requests, replies, escalations and cents booked |
| `CodeCrawl` | the `legal_codes` half: dispatch and parking of a code row, code workers, crawling child, pipe, heartbeat | row, seeds, messages with receives and visibility, history, staged documents, a control state per orchestrator and worker with its child |
| `CorpusSeed` | census load, scope, seeding with backfill, purge, rebuild, reconfiguration, the operator's switches | jurisdictions, code sources, target rows, history, sweeps in flight, a control state per orchestrator process, a day counter |
| `Outreach` | gates of a request, dead-letter watcher, digest and operator, for several campaigns on shared offices | campaigns, threads, outbound counts, cooldown clocks, contact messages and dead letters, alert rows, a control state per thread of the process, a day counter |
| `MCSweepDispatch`, `MCArtifactFetch`, `MCContactSearch`, `MCCorrespondence`, `MCCodeCrawl`, `MCCorpusSeed`, `MCOutreach` | small instances for TLC | |
| `SweepDispatchProofs`, `SweepRefinementProofs`, `ArtifactFetchProofs`, `CodeCrawlProofs`, `CorpusSeedProofs`, `ContactSearchProofs`, `CorrespondenceProofs`, `OutreachProofs` | theorems about the module they are named after; `SweepRefinementProofs` is about `SweepDispatch` and `SweepCursor` | |

How they fit together: `CorpusSeed` makes the rows that `SweepDispatch` (search) and `CodeCrawl`
(portals) sweep, with a sweep in one step; what either finds is staged and fetched in
`ArtifactFetch`. `ContactSearch` decides which office is asked, `Outreach` whether and when the
request leaves, `Correspondence` what becomes of its thread. Each takes its neighbour as an
environment that may do anything the neighbour's own module allows.

**Steps.** Every transaction, Redis command and queue call is one action, in the order of the
code; what a worker remembers between two of them (the dispatch, the answer, the row it read)
is in its control state. A crash, or an exception that leaves a batch or a cycle, returns the
actor to idle between any two steps.

**Threads of correspondence.** `records/` runs one process with one thread per queue, so an actor
is named by its queue, a message is held by at most one of them, and a crash takes all of them
at once. Every status change is `Check` (the select and `check_transition`) followed by `Write`
(the update by id), because `set_thread_status` and the record of a send run both statements
in a READ COMMITTED transaction without a lock. `IllegalTransition` leaves the handler, except
in `escalate`, which swallows it. `next_action_at` is null, later or due. The counts
`approved`, `resolved`, `mailed` and `reacted` are kept for the properties only, or to say what
an office may answer.

**Search.** `ContactSearch` speaks of one campaign and one state, all of whose places are in scope.
A test campaign (`test_contacts`) and a real one differ in the first step of the pass. Crawl and
pick end in one of four ways: left for redelivery, a generic address, a personal one, none. The
pass is single-flight and runs in one process, so there is one seeder; the scraper is a pool of
any number of threads by the design document, which the code runs with one. Copies of a query
come from a repeated pass. `sent`, `told`, `dead` and `early` are kept for the properties.

**Crawls.** `CodeCrawl` counts time in ticks, because this code is about durations: visibility,
heartbeat, deadline, dispatch timeout. A tick is free while workers crawl or wait. Over a message that
could be received it is backlog (`TickBacklog`: the other workers are busy with other targets), which is
no fault but is counted, and bounded by `MaxBacklog`. It is a fault when it passes over anything else. A
portal is a table of pages and of what the parser takes from each; the child puts what it finds into a
pipe of bounded size that nobody reads before the child has been joined (`discoverer.py:140`), so a
child with more to say than the pipe holds stays until the deadline. `seen` and `blocked` of a history
row say which pages, of which publisher's group, the crawl behind it rendered and was refused; the code
keeps no such record.

**Seeding.** `CorpusSeed` counts days, the unit of the resweep interval, and takes a cycle to be
shorter than one. `epoch` stands for row ids: a row born after a purge is another row. The
throttle and the cached download live in the process, so a crash loses them and a failing cycle
does not. `scope` is one of the configurations of the instance and may change, with a restart.
`kept` remembers what history there was when the queue was dropped, for `NeverRepurchased`.

**Outreach.** One process, so one contacts thread for all campaigns, one watcher, one digest. The
day a request is charged to is the day of its gate, which is the `now` the handler carries to
`record_initial_send`. The rest of a thread's life appears as what it causes here: a counted mail,
an escalation, a fee, a referral. A kill is its transaction on the store; the queues keep the
campaign's messages. `requests`, `shown`, `asked` and `stopped` are kept for the properties.

**Queues.** In the harvesting modules a message stays in `msgs` until it is deleted. `Receive` hides it
and counts; `Redeliver` makes it visible when no one holds it any more, `RedeliverEarly` while someone
still does (the visibility timeout is shorter than the work). A message received `MaxReceive` times is
dead-lettered.

**Time.** A row keeps only what the code asks of its dates: is it due, is the stamp older than
the timeout. A timeout over dead work (no message, no holder) is free; a timeout over work
that can still finish is a fault. `FallDue` (a target falls due again) is bounded by
`MaxResweeps`. A follow-up interval likewise passes freely when nothing is under way for the
thread, and is a fault over a job still on its way (`FallsQuiet`, `FallsEarly`).

**Faults.** Crashes, failing sends and generations, early redeliveries and timeouts, lost Redis state,
stops, handlers that raise: each takes one of `MaxFaults`. A contact refused by the daily cap or the
cooldown, or a draft that fails, is no fault: it returns the message for free. The proofs hold for every
`MaxFaults`.

## 3. Runs

Bounds: `MaxDispatch` / `MaxArtifact` / `MaxPublish` cap the ids issued, `MaxQueries` the
queries of a dispatch, `MaxReceive` the receives (3 in the code; 1 or 2 here, enough for a
redelivery and for a dead letter), `MaxFaults` the faults, `MaxResweeps` the times a target
falls due again. Deadlock checking is off: with its ids used up the model stops, as a
system with nothing due does.

| run | instance | shows |
|---|---|---|
| `sweep_race` | 2 orchestrators, 2 workers, 1 target, 2 queries, 2 dispatches, 1 fault | `LetsGoOnlyWhenDone`, `CounterExact`, `VerdictSound`, and that `SweepDispatch` implements `SweepCursor` |
| `sweep_live` | 2 targets in a batch of 1, 1 orchestrator, 1 worker, 1 query, 1 receive, 5 dispatches, 1 re-sweep, 1 fault | `TypeOK`, `StampsOnlyDue`; every due target is swept to a verdict |
| `fetch_pool` | 2 URLs with the same bytes, 1 stager, 2 fetchers, 1 fault | `TypeOK`, `VerdictsRest`, `KeptOnce`, `KnownIsStored` |
| `fetch_live` | 1 URL, 2 stagers, 2 fetchers, 1 fault | every artifact leaves pending |
| `crawl_code` | 2 portals of 2 publishers, 2 workers, 2 pages per crawl, a pipe of 2, 2 dispatches, 1 fault, 1 tick of backlog | `TypeOK`, `RestMeansExhausted`, `LetGoByItsVerdict`, `TimeoutOutlivesCrawl` |
| `crawl_live` | 1 portal, 1 worker, 6 dispatches, 1 re-crawl, 1 act of the operator, 1 fault, 1 tick of backlog | every due crawl is recorded, parked or rescheduled |
| `corpus_seed` | 2 states, 3 places (a county, its town, an unsplit county), 5 scopes, 2 days, 1 fault, 1 act of the operator | `MarkerMeansLoaded`, `NeverRepurchased`; every place in scope is seeded; dispatch goes on while census.gov is down |
| `search_once` | 1 office, 1 seeder, 2 scraper threads, 2 queries, 2 receives, 1 fault | `TypeOK`, `OutcomeOnce`, `SeededCovers`, `UsedUpIsDecided` |
| `outreach` | 3 campaigns (one of tests, one anonymous), 2 offices, cap and cooldown of 1, 2 receives, 2 days, 1 fault, 1 reply, 1 act of the operator | `CapHolds`, `CooldownHolds`, `NoContactVanishes`, `AlertedOnce`; in the end nothing is forgotten |
| `mail_safe` | 1 thread, 1 mail, 2 follow-ups, fees of 1 and 2 against a budget of 1, 2 receives, 1 fault | `TypeOK`, `FollowupsBounded`, `RepliesOnce`, `FeesCovered` |
| `mail_live` | 1 thread, a silent office, 2 follow-ups, 2 receives, 1 resolved escalation, 2 faults | `RequestsBounded`, `ParkedIsEscalated`, `EveryThreadSettles` |
| `mail_reply` | 1 thread, 1 mail, no fault and no operator | a violation: see 3.1 |

Why these bounds. One target with two queries is the least in which a dispatch is not closed by
its first answer; two dispatches let a late worker meet a newer one. Two queries and two threads are
likewise the least in which one query can find a contact while another is the last to fail, and
one fault is a crash anywhere in the pass, with the repeated queries of the next one. In `sweep_live` a batch of
one forces the targets to take turns. One mail suffices for redelivery against its own log row
(two mails, without faults, were also explored: 2.5 million states, no error). One follow-up
reaches both branches of the scan; two let a redelivered job of an old index meet a new one. Two faults
in `mail_live` reach the state that `EveryThreadSettles` excludes by name: without its `faults > 1` TLC
finds it violated there. Two fetch threads are the least that can hold the same bytes, or two messages
of one row, at once. In `sweep_live` a dispatch has a single query, so that one partly sent, or a counter
lost with part of its answers, occurs only in `sweep_race`, for the safety properties.

In `crawl_code` the ticks keep the order of the code's durations (heartbeat 300 s < visibility
900 s < deadline 3600 s < dispatch timeout, twice the deadline) at 1 < 2 < 3 < 5 (6 in `crawl_live`), the
least at which a second worker can receive the message of a live crawl and a message can wait one tick
before its crawl. Two pages per crawl cut a portal of three
short, and a pipe of 2 is too small for the 3 links of the first portal's pages. In `corpus_seed`
an interval of 2 over days 0 and 1 makes every repetition of a kept sweep a mistake; two states
separate a loaded one from one that waits for census.gov, and one act of the operator is a
purge, a rebuild, a switch or a new scope at any step. Its theorems hold for all bounds. In
`outreach` a cap of 1 is reached by the first mail and a cooldown of 1 ends with the second day;
two receives let a throttled contact come back once and then die.

### 3.1 Where the code departs from what it says

* `mail_reply`: the inbound row is committed before the reaction to it. A reaction that raises
  (a late answer on a parked thread is enough: `set_thread_status` refuses) leaves the message,
  its redelivery is taken for a duplicate, and the reply is neither acted on nor dead-lettered.

Seen while modelling, without a run.

Sweeps and fetches:

* `stamp_target` compares with what was read, which is null before a sweep and null again after
  it. An orchestrator overtaken by a complete sweep of another one compares null with null and
  dispatches a row that is no longer due, although `dispatch.py:5-6` says the loser "stamps
  nothing and sends nothing". (`StampsOnlyDue` is therefore checked and proved for one orchestrator.)
* Rows whose generation always fails keep the head of the dispatch order (`dispatch.py:74`): as many
  of them as the batch limit starve every other target. `EverySweepCompletes` bounds failures.
* Reconciliation can publish an artifact between its stager's insert and stamp. With two fetch
  threads both messages pass the gate in turn, and `update_artifact` writes whole rows by id: a
  settled verdict is replaced or its row deleted, without any fault. `fetched`, `duplicate` and the
  rest are terminal for the gate only; `VerdictsRest` says which workers may still overrule them.
* No unique index covers `(corpus, sha256)` (only `ix_artifacts_sha`, `postgres.py:99`): two workers with
  the same bytes both keep them, where `NEW_HARVESTER.md:513-515` has the race land on the unique
  constraint. `KeptOnce` confines the copies to that race, and `CopiesAreBounded` counts them.
* The row whose bytes made another one a duplicate can itself be judged again and end without them;
  the document then lies in the object store (`KnownIsStored`) and no row is `fetched`.
* The comment at `fetch.py:189-190` says a stale stamp brings a failed attempt back after the
  dispatch timeout; the code clears the stamp, so reconciliation publishes it in its next cycle.
* A dead link deletes its artifact row and keeps its url key in Redis, so the fast path skips a
  URL no row exists for; `NEW_HARVESTER.md:513` says that cannot occur.

Crawls:

* `on_error` only queues an error and the spider then closes normally, so an unreachable portal is
  recorded as `not_found` and rests for the whole interval (`discoverer.py:105`, `code.py:109-111`),
  where `NEW_HARVESTER.md:471` has no history row and a redelivery. `RestMeansExhausted` counts
  such a portal as looked at, by name (`blocked`).
* The heartbeat beats before and after each `discover`, not during it. A crawl of more than 900 s is
  received by a second worker (`NEW_HARVESTER.md:143-147` and 444-445 have a beat every 300 s). The
  second may record `not_found` for documents the first has staged.
* A code message waits for a worker while its stamp ages: up to 25 targets a cycle, a few code threads,
  crawls of up to an hour, against 7200 s. Once the wait and a deadline reach the timeout a newer
  dispatch is stamped over a live crawl with nothing failing, which `NEW_HARVESTER.md:555-558` has the
  long timeout rule out ("or a slow-but-alive crawl would be double-dispatched"). The bound in
  `TimeoutOutlivesCrawl` (`backlog + Deadline < Timeout`) is tight.
* `discover` joins the child before it drains the pipe: a child with much to report hangs until the
  deadline (`discoverer.py:140`), and the crawl comes back tomorrow.
* A crash between the history row and the finalize of a crawl leaves the target in flight until
  the dispatch timeout. A `PortalError` beside a portal that was staged rests for the whole interval.
  A crawl closed by its page budget counts as complete, even when portals of the same publisher
  were still waiting: `RestMeansExhausted` allows an unseen portal only then, and speaks of the
  documents of the pages that were rendered.
* `park_target` is unconditional: it clears a dispatch another orchestrator has just stamped.
  `LetGoByItsVerdict` allows a parking by name.

Seeding and purge:

* `purge_corpus` stops nobody. A worker past its gate writes a history row after the purge, which
  makes the re-seeded place rest an interval; an orchestrator in mid-cycle seeds the purged corpus
  although the switch is off. A crash between its transaction and the cleaning of Redis and S3
  leaves keys, and the S3 prefix is a slug that corpora may share.
* A state whose file answers 200 with no places gets its marker over nothing and is never loaded
  again. One missing state during an outage stops the seeding of the loaded ones, too.
* Rows outside of a narrowed scope stay in the queue and are swept on; importing code sources before
  the census skips them silently, and importing again does not enable a disabled one.
* `parent_id` is never read; a city in several counties matches no `within`.

Public records:

* A contact refused by cap or cooldown is left to redelivery (`sender.py:111`, "let visibility expire
  and retry later", `NEW_PUBLIC_RECORDS.md:426-436`), five receives of 15 minutes apart: a cap that
  lasts till midnight or a cooldown of days turns healthy contacts into escalations. `NothingIsForgotten`
  counts them as told. An escalation of the watcher or of `contact_needs_review` names no thread, so
  resolving it to `pending_send` sends nothing (`ops.py:37-45`).
* The dead letter of a killed campaign raises on its foreign key at every drain and ends the batch it
  is in (`ops.py:67`; `consumer.py:54` has "exactly one `other` escalation").
* A crash between a digest and its marks alerts its rows again (`digest.py:3`, "each row alerted exactly
  once"): the `faults` of `AlertedOnce`. Escalations without a campaign are in no digest.
* A kill of the process between a mail and its record mails the office once more, as the comment at
  `cli.py:189-191` says: `FollowupsBounded`, `RepliesOnce` and `RequestsBounded` count what is on record.
* A kill of the campaign in the same place leaves the mail sent and no cooldown stamped. Its
  `delete_prefix` of Redis keys has no separator behind the slug: killing `la` takes the keys of `la-2`.
* Stopping a campaign drains its queued contacts; starting it again does not bring them back.
* `max_concurrent_sends` (`config.py:64`) is read by nothing; the contacts queue has one thread.
* The scan sends a follow-up job before it moves the date, and the sender writes back the date it
  read. In between, the thread stays due and is nudged twice in one interval.
* A status is checked and written without a lock. The scan's write of the status it read opens a
  thread the receiver has closed in between.
* `set_target_queries_enqueued` runs after the queries are sent. When the scraper uses up the last
  of them first, `mark_query_consumed` sees a count of zero and answers false, and no later step
  asks again: the target stays unresolved and unescalated, where `NEW_PUBLIC_RECORDS.md` section 6
  has `no_contact_found` escalated once all messages are consumed. `UsedUpIsDecided` exempts these
  offices by name (`early`); without the exemption TLC finds the loss without any fault.
* A state's row is its loaded marker and is inserted before its places. After a crash in between,
  the rest of the state is never loaded, and `SeededCovers`, which speaks of the rows in the table,
  is silent about it. (Two seeders, which the deployment rules out, break even `SeededCovers`: the
  second takes a half-loaded state for a whole one.)
* Section 6 has the writes of an outcome "in one transaction"; the code uses one each for the
  compare-and-set, the contact and the send. A crash after the first loses the contact, which
  section 5.1 accepts for seeded contacts and does not mention for found ones. This is the
  `faults > 0` of `OutcomeOnce`.
* `followup_scan` and `handle_followup_job` never look at `campaigns.active` or consent, while
  `NEW_PUBLIC_RECORDS.md:623-624` has consent re-checked at every send, and line 721-723 has a
  stopped campaign's queues drain inertly.
* A thread can be open with no date, and is then never scanned again: a follow-up job that read
  the thread when it was parked records its send with a null date after a scan's lost update
  has reopened it. It takes two faults, a job dead-lettered at its first receive
  (`MaxReceive = 1`), or a mail; `EveryThreadSettles` names all three as exceptions.
* An escalation resolved to an open status leaves the thread without a date too, which is why
  `EveryThreadSettles` exempts threads the operator has touched.

### 3.2 Fairness

`FairSpec` adds weak fairness of each actor's own steps (a thread that holds a message goes on;
the loop of `Orchestrator.run_forever` and `ConsumerLoop.run_forever` never returns), of the
redelivery and dead-lettering that SQS performs on its own, of the clock over dead work, and of
the operator starting the service again. Nothing is assumed of faults, and staging a new URL is
not fair. Strong fairness is used once, in `CorpusSeed`. `FallDue` is not fair
and happens once in `sweep_live`, whose 5 dispatches leave room for it and for the repair of
every fault.

`CodeCrawl` is fair to loops, ticks, redrive and to a stopped corpus being started again, and asks
nothing of the child, whose page may hang until the deadline. `CorpusSeed` is weakly fair to the
steps of a cycle and strongly fair to the end of its throttle: the throttle ends only between cycles,
and its 600 s are longer than any cycle with a failing download (3 attempts of 120 s, their pauses
of 7 s, an interval of 60 s), so throttled cycles come in between. Census.gov need not come back, nor the
operator act, nor a sweep end. `Outreach` is fair to the contacts thread, the redrive, the watcher
and the digest. Which message comes next is open, so its liveness does rely on the queue not
handing out the letter of a killed campaign before every other one.

`Correspondence` is fair to each of the process's threads, to SQS's redrive and to the clock over
idle threads. Offices, the operator and the sender's refusals are not obliged to anything:
`EveryThreadSettles` speaks of threads that are open, and a contact that is never let through
opens none.

## 4. Proofs

Every safety invariant and every action property that a run checks is also a theorem, for every
value of the constants that the module's `ASSUME` admits. Some need one actor of a kind, as
a hypothesis of the theorem itself; the runs make the same restriction, and 3.1 says what happens
without it:

| theorem | only with | because |
|---|---|---|
| `StampsAreDue`, `CrawlsAreOutlived` | one orchestrator | a second one can compare null with null |
| `SeededIsCovered` | one seeder | a second takes a half-loaded state for a loaded one |

The assumptions on constants are orders and ranges (a limit is at least one, durations are in the
order of the settings, two kinds of actor differ) and finiteness of what the code holds in tables:
portals and the links of a page (`CodeCrawl`), threads and mails (`Correspondence`). Each inductive
invariant was checked by TLC on the run's instance before it was proved.

### 4.1 Sweeps

`SweepDispatchProofs` is about the protocol of the sweeps (under `ParamAssumption` and
`RankAssumption`); `SweepRefinementProofs` proves that it implements `SweepCursor`.

The inductive invariant is `TypeOK /\ Formed /\ Safe /\ Held`:

* `Formed`: shapes of the control states the types alone do not give (an orchestrator that
  stamps has a target left, one that sends owns an issued dispatch; a worker past its gate holds
  an issued dispatch and one of its queries).
* `Safe`, the conjunction of
  * `CountInv`: one history row per query, the counter tallies exactly the counted rows, and a
    row that waits to be counted is in the history, held by its worker alone, and not counted;
  * `VerdictCounted`: a worker about to finalize has all queries of its dispatch counted and the
    verdict of exactly those rows. `CountedAll` gets "all queries" from "as many as queries" by a
    pigeonhole argument on `query_seq`;
  * `Quiet`: dispatches not issued yet have no messages, rows, counts or workers.
* `Held`: a message's dispatch is issued and its sequence number is one of its queries.

`CounterExact` alone is not inductive: the step that counts must know the row was not counted
before, which is the per-worker part of `CountInv`. `LetsGoOnlyWhenDone` and the refinement
follow from the same invariant, action by action. The temporal steps use PTL only.

`StampsAreDue` has an invariant of its own, `Awake`, about the targets an orchestrator has read and
not stamped yet: one that was free when read is free still, and one that carries the stamp that
was read is due. `DueChange` says what can become of a row in a step (it rests, is settled, or is
stamped by the orchestrator whose turn it is): a late worker that settles the row takes the stamp
away, so that the compare-and-set fails.

### 4.2 Fetches

`ArtifactFetchProofs`, for any number of stagers, fetch workers and artifacts. `InOrder`: ids are issued in
order, so a staged row is a new one.

* `KnownBytesAreStored` from `Stored`: bytes are put before the row, and the row is committed before the
  key; a worker that is past the put carries a stored hash, and rows and keys only repeat one.
* `ContentsAreKeptOnce` needs types and `InOrder` alone: a worker comes to the put only when Postgres
  has no row with the hash, and a row comes to be kept only by the commit of a worker that was storing.
* `CopiesAreBounded`, for a finite pool, from `Bounded`: the rows that keep a content and the workers about
  to add one, counted together, never outnumber the workers: they only become more while no row keeps
  the content, and then each has its worker. With one worker that is uniqueness.
* `VerdictsAreRespected`. `Reads`: a worker that judges works for the stamp it read; `SentOnce`: a dispatch
  id is sent once, by whoever stamped it; and, until something fails, `HeldOnce`: a dispatch is in the queue
  once and with one worker at a time, and `Other`: a worker still judging a settled row works for another
  dispatch than its stamp names. The gate keeps new workers off a settled row.

### 4.3 Crawls

`CodeCrawlProofs` (under `CrawlAssumption`). `Typed` includes that a pipe is never overfull and that
a child's visited pages are a finite set, within the budget. Then:

* `VerdictsLetGo` from `Recorded`: a worker about to finalize has its verdict in the history.
* `RestsAreEarned` from `Thorough`, which follows each portal through a crawl. `Orderly`: a publisher
  still to be crawled has not been looked at, and what the child visited is what was looked at of
  the present one. `Accounted`: while a crawl is complete, each portal is to be crawled, under way
  or done with. `Gathered`: each candidate of a rendered page is staged or in the pipe, if the pipe had
  room. `Exited`: a child that exits by itself had nothing left or its budget spent, and had
  room; that is what the parent's test of the exit is worth.
* `CrawlsAreOutlived` from `Undisturbed`, while nothing fails, nothing is crawled anew and the backlog
  and a deadline fit in the timeout. Before the first receiver passes the gate the stamp is no older
  than the backlog (`Waits`); from then on that receiver leads the dispatch: the stamp is older than its
  crawl by the backlog at most (`Leading`), the deadline ends the crawl before the timeout, and whoever
  received the message after it stands back once its row is in the history. `Reads` ties what the
  orchestrator read to the row it stamps.

### 4.4 Seeding

`CorpusSeedProofs` proves three things of `CorpusSeed`, for every census file, scope, number of
orchestrators, days, faults and acts of the operator (under `SeedAssumption` and `ScopeAssumption`):

* `TypeCorrect`. Beside the types of the process states it needs `Rooted`: whatever a process is
  about to seed has its jurisdiction in the table, which is the foreign key of `sweep_targets`.
  `ResolveWithin` is the reason: the scope is resolved inside the table, the anchor having been
  inserted before.
* `MarkerCorrect`: `MarkerMeansLoaded`, with `Loading`: while a process loads a state, every place of
  the state is in the table or left to insert. The marker alone is not inductive, since it comes
  when nothing is left, and says nothing of the steps before.
* `NothingRepurchased`: `NeverRepurchased`, with `Spared`: no row, and no row a process has read the
  history for and not inserted yet, is due within the interval after a kept sweep; a row in
  flight was due when it was sent. That a backfilled date does so is `BackfillSpares`, which rests on
  the newest row of a history existing (`NewestExists`, by well-foundedness of the numbers).

### 4.5 Contact search

`ContactSearchProofs`, for any number of offices, queries and scraper threads, and of seeders but
for the last:

* `OutcomesAreSingle` from `OneOwner`: only the caller whose compare-and-set resolved a target has its
  outcome in hand, and nothing has come of it yet. `InTable` says that whatever is in hand or in the
  queue has its row.
* `TargetsAreDecided` from `UsedUp`: a query that was sent is in the queue, consumed or needed no more,
  and an undecided target keeps a message nobody is about to delete. That a target with all
  queries consumed has its full count is a pigeonhole argument on their indexes.
* `SeededIsCovered` from `Covering`: a jurisdiction in the table is covered, or ahead of the pass.

### 4.6 Correspondence

`CorrespondenceProofs`, for any finite sets of threads and mails and any fees. There is one
thread per queue, so between a handler's read and its write no other handler of that queue comes in;
what the other queues may do is what the invariants have to withstand.

* `FollowupsAreBounded` from `Nudged`: the job carries the counter it was sent for, below the limit, and
  the sender goes on only when the row's counter is not past it; a repeated job is thus dropped.
* `RepliesAreOnce` from `Answering`: past its lookup, a job answers a mail without an answer.
* `RequestsAreBounded` from `Requested`: a thread that may be sent a request has had one approval for
  each request on record.
* `ParkedAreEscalated` from `Parking`: whoever is about to park a thread has told the operator before.
* `FeesAreCovered`: the ledger `Committed` is a fold over the mails. Its lemmas (booking a fee adds its
  amount, a subset sums to no more) go by a least finite set for which they fail, since
  induction over sets is out of the prover's reach; `AgreementsBooked` says that an
  agreement on its way was booked.

### 4.7 Outreach

`OutreachProofs` proves the five invariants of `Outreach` that its run checks, for every number of
campaigns, offices, seeds, receives, days, faults, replies and acts of the operator (under
`OutreachAssumption`). `TypeCorrect` comes first, as `Typed`, one part per group of variables, each
with a lemma that names the actions that touch it. Each other theorem adds what its invariant lacks:

* `AlertsOnce`: `Alerted`. An unnotified row has been in no more digests than failed, unless it is
  in the digest that is out; the rows of a digest read but not mailed likewise. That both tables
  are marked from the rows read before the mail is what `MarkFees` needs to leave none behind.
* `CooldownKept`: `Clocked`, for the contacts the cooldown binds; approvals, referrals and test contacts
  bear `bypass_cooldown`. The clock of an office is past every recorded request, also of a
  killed campaign, and between the gate and the record it stays where the gate saw it, because
  one thread alone sends.
* `ContactsAccounted`: `Disposed`. A message about to be deleted, or the dead letter being drained,
  has its thread or escalation; a row that names a contact belongs to its campaign, so that the
  kill of another takes no contact's trace away.
* `CapKept`: `Capped`, which counts requests with and without their record apart. The recorded ones
  are within `posted` and within the cap, below it while one is on its way; the others are paid by
  a fault, by the one being recorded, or by the kill of the campaign, after which only one can still
  leave.

### 4.8 Only model-checked

Liveness under fairness, which the prover cannot express: `EverySweepCompletes`, `EveryArtifactSettles`,
`EveryCrawlSettles`, `EveryPlaceSeeded`, `DispatchedThoughCensusDown`, `EveryThreadSettles` and
`NothingIsForgotten`. `InboundReacted` is false, and `mail_reply` shows it.

## 5. Not modelled, and what is left of the plan

Left of the plan, in this order:

1. Proofs: what still holds with several orchestrators, for the rows of the table in section 4 (with two
   orchestrators, a row that is not due can only be stamped when it carries no dispatch).
2. Attachments: spooling, dedupe keys and storage of inbound mail, with the kill that removes them.
3. The purge of artifact rows, Redis keys and S3 objects under a fetch worker.
4. Pure algorithms against reference definitions: triage chunking, amount parsing, address picking.

Left out for good: HTTP, LLM, search and S3 clients (I/O whose outcomes are nondeterministic
choices), what the browser and the parser make of a page beyond the table of captures, text
extraction, parsing and name cleaning of the census file, drafting and classification of mails,
registration of campaigns, process wiring, listing commands and health pages.
