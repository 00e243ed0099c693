----------------------------- MODULE ContactSearch -----------------------------
(***************************************************************************)
(* How a campaign finds the offices it writes to.  The seed pass loads the *)
(* census rows of a state, makes one search target per jurisdiction, and   *)
(* either hands a known address to the sender or enqueues a few queries;   *)
(* the scrapers work the queries until one of them decides the target.     *)
(*                                                                         *)
(* A test campaign brings its jurisdictions and addresses with it.  Every  *)
(* store transaction and every queue call is a step of its own, and a pass *)
(* or a handler may stop between any two of them.                          *)
(***************************************************************************)
EXTENDS Naturals, FiniteSets

CONSTANTS
    Jurisdictions,  \* those of one state, all in the campaign's scope
    Seeders,        \* orchestrators
    Scrapers,       \* threads of the scraper's pool
    MaxQueries,     \* QUERIES_PER_TARGET_MAX
    MaxReceive,     \* MAX_RECEIVE_SEARCH
    MaxFaults       \* bound: faults in a behaviour

ASSUME ParamAssumption ==
    /\ MaxQueries \in Nat \ {0} /\ MaxReceive \in Nat \ {0} /\ MaxFaults \in Nat
    /\ Seeders \cap Scrapers = {}

VARIABLES
    test,       \* the campaign carries test_contacts
    active,     \* campaigns.active, with consent
    seeded,     \* campaigns.seeded
    marked,     \* the state-level jurisdiction row, the loaded marker
    loaded,     \* rows of jurisdictions
    contact,    \* jurisdictions whose contact_email is set
    target,     \* search_targets: jurisdiction -> row, NoRow when there is none
    msgs,       \* pr-search-queries, not deleted
    at,         \* seeder or scraper -> what it is doing
    sent,       \* jurisdiction -> pr-contacts messages sent for it
    told,       \* jurisdiction -> escalations of its outcome
    dead,       \* jurisdictions a query of which was dead-lettered and escalated
    early,      \* jurisdictions a query of which was consumed before its target's count was set
    faults

campaign == <<test, active, seeded>>
census   == <<marked, loaded>>
outcome  == <<sent, told>>
vars     == <<campaign, census, contact, target, msgs, at, outcome, dead, early, faults>>

NoRow    == [enqueued |-> 0, consumed |-> {}, resolved |-> FALSE, exists |-> FALSE]
Fresh    == [NoRow EXCEPT !.exists = TRUE]
Indexes  == 0 .. MaxQueries - 1
Rows     == [enqueued : 0 .. MaxQueries, consumed : SUBSET Indexes, resolved : BOOLEAN,
             exists : BOOLEAN]
Messages == [j : Jurisdictions, index : Indexes, copy : Nat \ {0}, receives : 0 .. MaxReceive]
NoMsg    == [j |-> "none"]
Pass     == [j : Jurisdictions, known : BOOLEAN]

Idle == [pc |-> "idle", todo |-> {}, j |-> "none", known |-> FALSE, queries |-> 0, next |-> 0,
         msg |-> NoMsg, hit |-> "none"]
Controls == [pc : {"idle", "census", "state", "places", "scope", "next", "insert", "resolve",
                   "contact", "send", "count", "start", "hit", "write", "tell", "mark", "last",
                   "delete"},
             todo : SUBSET Pass, j : Jurisdictions \cup {"none"}, known : BOOLEAN,
             queries : 0 .. MaxQueries, next : 0 .. MaxQueries, msg : Messages \cup {NoMsg},
             hit : {"none", "generic", "personal"}]

TypeOK == /\ test \in BOOLEAN /\ active \in BOOLEAN /\ seeded \in BOOLEAN
          /\ marked \in BOOLEAN /\ loaded \subseteq Jurisdictions
          /\ contact \subseteq Jurisdictions
          /\ target \in [Jurisdictions -> Rows]
          /\ msgs \subseteq Messages
          /\ at \in [Seeders \cup Scrapers -> Controls]
          /\ sent \in [Jurisdictions -> Nat] /\ told \in [Jurisdictions -> Nat]
          /\ dead \subseteq Jurisdictions /\ early \subseteq Jurisdictions
          /\ faults \in 0 .. MaxFaults

\* A registered campaign; the shared rows may be there already, with or without an address.
Init == /\ test \in BOOLEAN /\ active = TRUE /\ seeded = FALSE
        /\ \/ marked = FALSE /\ loaded = {}
           \/ marked = TRUE /\ loaded = Jurisdictions
        /\ contact \in SUBSET loaded
        /\ target = [j \in Jurisdictions |-> NoRow]
        /\ msgs = {}
        /\ at = [a \in Seeders \cup Scrapers |-> Idle]
        /\ sent = [j \in Jurisdictions |-> 0] /\ told = [j \in Jurisdictions |-> 0]
        /\ dead = {} /\ early = {}
        /\ faults = 0

Fault == faults < MaxFaults /\ faults' = faults + 1
NoFault == UNCHANGED faults

At(a, pc) == at[a].pc = pc
Become(a, c) == at' = [at EXCEPT ![a] = c]
Goto(a, pc) == Become(a, [at[a] EXCEPT !.pc = pc])

\* Faulty variant: the update does not ask whether the target is resolved already.
WinsAlways(j) == target[j].exists

\* resolve_target, a compare-and-set: does this caller decide the target?
Wins(j) == target[j].exists /\ ~target[j].resolved

\* The winner goes on to what it decided, the others to what follows.
Decide(a, won, lost) ==
    LET j == at[a].j
    IN IF Wins(j) THEN target' = [target EXCEPT ![j].resolved = TRUE] /\ Goto(a, won)
                  ELSE UNCHANGED target /\ Goto(a, lost)

-----------------------------------------------------------------------------
(* seed_pass, ensure_states, _seed_test_contacts.                          *)

SeedStart(o) ==
    /\ At(o, "idle") /\ active /\ ~seeded
    /\ IF test
       THEN Become(o, [Idle EXCEPT !.pc = "next", !.todo = {[j |-> j, known |-> TRUE] : j \in Jurisdictions}])
       ELSE Goto(o, "census")
    /\ UNCHANGED <<campaign, census, contact, target, msgs, outcome, dead, early>> /\ NoFault

\* state_row_exists, else the census client is asked.
Census(o) ==
    /\ At(o, "census")
    /\ Goto(o, IF marked THEN "scope" ELSE "state")
    /\ UNCHANGED <<campaign, census, contact, target, msgs, outcome, dead, early>> /\ NoFault

\* The marker goes in first, the places after it; a row that exists is left as it is.
InsertState(o) ==
    /\ At(o, "state")
    /\ marked' = TRUE
    /\ Become(o, [Idle EXCEPT !.pc = "places", !.todo = {[j |-> j, known |-> FALSE] : j \in Jurisdictions}])
    /\ UNCHANGED <<campaign, loaded, contact, target, msgs, outcome, dead, early>> /\ NoFault

InsertPlace(o) ==
    /\ At(o, "places")
    /\ \/ /\ at[o].todo = {}
          /\ Goto(o, "scope")
          /\ UNCHANGED loaded
       \/ \E e \in at[o].todo :
            /\ loaded' = loaded \cup {e.j}
            /\ Become(o, [at[o] EXCEPT !.todo = @ \ {e}])
    /\ UNCHANGED <<campaign, marked, contact, target, msgs, outcome, dead, early>> /\ NoFault

\* resolve_scope reads the rows, their addresses with them.
Scope(o) ==
    /\ At(o, "scope")
    /\ Become(o, [Idle EXCEPT !.pc = "next", !.todo = {[j |-> j, known |-> j \in contact] : j \in loaded}])
    /\ UNCHANGED <<campaign, census, contact, target, msgs, outcome, dead, early>> /\ NoFault

\* Faulty variant: a target that has a row is skipped.
SkipsRows(row) == row.exists

\* The crash-rerun skip marker.
Skipped(row) == row.resolved \/ row.enqueued > 0

\* An address is handed on, otherwise one to MaxQueries queries are made up.
Prepare(o, c) ==
    IF c.known THEN Become(o, [c EXCEPT !.pc = "resolve"])
    ELSE \E n \in 1 .. MaxQueries : Become(o, [c EXCEPT !.pc = "send", !.queries = n, !.next = 0])

FindTarget(o) ==
    /\ At(o, "next")
    /\ \E e \in at[o].todo :
         LET c == [at[o] EXCEPT !.todo = @ \ {e}, !.j = e.j, !.known = e.known]
         IN /\ loaded' = IF test THEN loaded \cup {e.j} ELSE loaded
            /\ IF ~target[e.j].exists THEN Become(o, [c EXCEPT !.pc = "insert"])
               ELSE IF Skipped(target[e.j]) THEN Become(o, c)
               ELSE Prepare(o, c)
    /\ UNCHANGED <<campaign, marked, contact, target, msgs, outcome, dead, early>> /\ NoFault

\* The unique key keeps the row of a seeder that was faster.
InsertTarget(o) ==
    LET c == at[o]
        row == IF target[c.j].exists THEN target[c.j] ELSE Fresh
    IN /\ At(o, "insert")
       /\ target' = [target EXCEPT ![c.j] = row]
       /\ IF Skipped(row) THEN Goto(o, "next") ELSE Prepare(o, c)
       /\ UNCHANGED <<campaign, census, contact, msgs, outcome, dead, early>> /\ NoFault

ResolveKnown(o) ==
    /\ At(o, "resolve")
    /\ Decide(o, "contact", "next")
    /\ UNCHANGED <<campaign, census, contact, msgs, outcome, dead, early>> /\ NoFault

Unused(S) == CHOOSE k \in 1 .. Cardinality(S) + 1 : k \notin S

\* A query that a pass sends again is told apart from the one that is still there.
SendQuery(o) ==
    LET c == at[o]
        equal == {m \in msgs : m.j = c.j /\ m.index = c.next}
    IN /\ At(o, "send")
       /\ msgs' = msgs \cup {[j |-> c.j, index |-> c.next, receives |-> 0,
                              copy |-> Unused({m.copy : m \in equal})]}
       /\ Become(o, [c EXCEPT !.next = @ + 1, !.pc = IF c.next + 1 = c.queries THEN "count" ELSE "send"])
       /\ UNCHANGED <<campaign, census, contact, target, outcome, dead, early>> /\ NoFault

\* set_target_queries_enqueued, once every query is on its way.
SetCount(o) ==
    /\ At(o, "count")
    /\ target' = [target EXCEPT ![at[o].j].enqueued = at[o].queries]
    /\ Goto(o, "next")
    /\ UNCHANGED <<campaign, census, contact, msgs, outcome, dead, early>> /\ NoFault

SetSeeded(o) ==
    /\ At(o, "next") /\ at[o].todo = {}
    /\ seeded' = TRUE
    /\ Become(o, Idle)
    /\ UNCHANGED <<test, active, census, contact, target, msgs, outcome, dead, early>> /\ NoFault

SeedStep(o) == \/ SeedStart(o) \/ Census(o) \/ InsertState(o) \/ InsertPlace(o) \/ Scope(o)
               \/ FindTarget(o) \/ InsertTarget(o) \/ ResolveKnown(o) \/ SendQuery(o)
               \/ SetCount(o) \/ SetSeeded(o)

-----------------------------------------------------------------------------
(* handle_search_message.                                                  *)

Same(m, n) == <<m.j, m.index, m.copy>> = <<n.j, n.index, n.copy>>
Held(m) == \E w \in Scrapers : at[w].msg # NoMsg /\ Same(at[w].msg, m)

\* Faulty variant: one delivery more than the redrive policy allows.
DeliverableOnceMore(m) == m.receives <= MaxReceive

Deliverable(m) == m.receives < MaxReceive

\* A message still in someone's hands comes again when its visibility runs out: a fault.
Receive(w) ==
    /\ At(w, "idle")
    /\ \E m \in msgs :
         LET r == [m EXCEPT !.receives = @ + 1]
         IN /\ Deliverable(m)
            /\ IF Held(m) THEN Fault ELSE NoFault
            /\ msgs' = (msgs \ {m}) \cup {r}
            /\ Become(w, [Idle EXCEPT !.pc = "start", !.msg = r, !.j = r.j])
    /\ UNCHANGED <<campaign, census, contact, target, outcome, dead, early>>

\* The gate, the search and the pick: dropped, left for redelivery, a hit or none.
Search(w) ==
    LET c == at[w]
    IN /\ At(w, "start")
       /\ IF target[c.j].resolved THEN Goto(w, "delete")
          ELSE \/ Become(w, Idle)
               \/ \E kind \in {"generic", "personal"} : Become(w, [c EXCEPT !.pc = "hit", !.hit = kind])
               \/ Goto(w, "mark")
       /\ UNCHANGED <<campaign, census, contact, target, msgs, outcome, dead, early>> /\ NoFault

ResolveHit(w) ==
    /\ At(w, "hit")
    /\ Decide(w, IF at[w].hit = "generic" THEN "write" ELSE "tell", "delete")
    /\ UNCHANGED <<campaign, census, contact, msgs, outcome, dead, early>> /\ NoFault

WriteContact(w) ==
    /\ At(w, "write")
    /\ contact' = contact \cup {at[w].j}
    /\ Goto(w, "contact")
    /\ UNCHANGED <<campaign, census, target, msgs, outcome, dead, early>> /\ NoFault

\* The address goes to the sender: a known one from the seeder, a found one from a scraper.
SendContact(a) ==
    /\ At(a, "contact")
    /\ sent' = [sent EXCEPT ![at[a].j] = @ + 1]
    /\ Goto(a, IF a \in Seeders THEN "next" ELSE "delete")
    /\ UNCHANGED <<campaign, census, contact, target, msgs, told, dead, early>> /\ NoFault

\* Faulty variant: an off-by-one that waits for one query more.
LastStrictly(row) == row.enqueued > 0 /\ Cardinality(row.consumed) > row.enqueued

\* mark_query_consumed's answer.
Last(row) == row.enqueued > 0 /\ Cardinality(row.consumed) >= row.enqueued

MarkConsumed(w) ==
    LET c == at[w]
        row == [target[c.j] EXCEPT !.consumed = @ \cup {c.msg.index}]
    IN /\ At(w, "mark")
       /\ target' = [target EXCEPT ![c.j] = row]
       /\ early' = IF row.enqueued = 0 THEN early \cup {c.j} ELSE early
       /\ Goto(w, IF Last(row) THEN "last" ELSE "delete")
       /\ UNCHANGED <<campaign, census, contact, msgs, outcome, dead>> /\ NoFault

ResolveNone(w) ==
    /\ At(w, "last")
    /\ Decide(w, "tell", "delete")
    /\ UNCHANGED <<campaign, census, contact, msgs, outcome, dead, early>> /\ NoFault

\* CONTACT_NEEDS_REVIEW or NO_CONTACT_FOUND.
Tell(w) ==
    /\ At(w, "tell")
    /\ told' = [told EXCEPT ![at[w].j] = @ + 1]
    /\ Goto(w, "delete")
    /\ UNCHANGED <<campaign, census, contact, target, msgs, sent, dead, early>> /\ NoFault

Delete(w) ==
    /\ At(w, "delete")
    /\ msgs' = {m \in msgs : ~Same(m, at[w].msg)}
    /\ Become(w, Idle)
    /\ UNCHANGED <<campaign, census, contact, target, outcome, dead, early>> /\ NoFault

\* The redrive policy, and the watcher's escalation of what it finds.
DeadLetter ==
    /\ \E m \in msgs : /\ ~Deliverable(m) /\ ~Held(m)
                       /\ msgs' = msgs \ {m}
                       /\ dead' = dead \cup {m.j}
    /\ UNCHANGED <<campaign, census, contact, target, at, outcome, early>> /\ NoFault

ScrapeStep(w) == \/ Receive(w) \/ Search(w) \/ ResolveHit(w) \/ WriteContact(w) \/ MarkConsumed(w)
                 \/ ResolveNone(w) \/ Tell(w) \/ Delete(w)

-----------------------------------------------------------------------------
\* A call raises, or the process dies: the pass starts over, the message comes again.
Fails(a) ==
    /\ ~At(a, "idle")
    /\ Become(a, Idle)
    /\ Fault
    /\ UNCHANGED <<campaign, census, contact, target, msgs, outcome, dead, early>>

SetActive ==
    /\ active' = ~active
    /\ IF active THEN Fault ELSE NoFault
    /\ UNCHANGED <<test, seeded, census, contact, target, msgs, at, outcome, dead, early>>

Next == \/ \E o \in Seeders : SeedStep(o)
        \/ \E w \in Scrapers : ScrapeStep(w)
        \/ \E a \in Seeders \cup Scrapers : SendContact(a) \/ Fails(a)
        \/ DeadLetter \/ SetActive

Spec == Init /\ [][Next]_vars

-----------------------------------------------------------------------------
(* Properties.                                                             *)

\* An office is decided once: however queries are duplicated or redelivered and passes are
\* repeated, at most one address goes to the sender or one escalation to a human, only for a
\* resolved target, and a resolved target lacks its outcome only in someone's hands or after
\* a fault (the seed pass resolves first on purpose).
OutcomeOnce ==
    \A j \in Jurisdictions :
        /\ sent[j] + told[j] <= 1
        /\ sent[j] + told[j] = 1 => target[j].resolved
        /\ target[j].resolved => \/ sent[j] + told[j] = 1
                                 \/ \E a \in Seeders \cup Scrapers :
                                      at[a].j = j /\ at[a].pc \in {"write", "contact", "tell"}
                                 \/ faults > 0

\* A campaign counts as seeded only when every office in the table has been resolved or has
\* its queries on the way, through any rerun of a pass that died.
SeededCovers ==
    seeded => \A j \in loaded : target[j].resolved \/ target[j].enqueued > 0

\* A target whose queries are used up has been decided, unless one was dead-lettered (and
\* escalated) or was used up before the pass had counted them.
UsedUpIsDecided ==
    \A j \in Jurisdictions :
        target[j].enqueued > 0 /\ ~target[j].resolved /\ j \notin dead \cup early
            => \E m \in msgs : m.j = j
===============================================================================
