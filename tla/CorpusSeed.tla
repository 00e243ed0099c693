------------------------------ MODULE CorpusSeed ------------------------------
(***************************************************************************)
(* How the work queue of a corpus comes to be.  Orchestrators load the     *)
(* places of each state from the census file into jurisdictions, resolve   *)
(* the configured scope over that table, and give every jurisdiction in    *)
(* scope a sweep_targets row, due at once or backfilled from its history.  *)
(* Around them the operator imports code sources, flips the run switch,    *)
(* purges the corpus, or drops the queue to have it rebuilt.               *)
(*                                                                         *)
(* Time is a day counter, the unit of resweep_interval_days.  A dispatched *)
(* sweep is one step here: SweepDispatch and CodeCrawl have its inside.    *)
(***************************************************************************)
EXTENDS Naturals, FiniteSets

CONSTANTS
    States,         \* the states of the census, each standing for its own state-level row
    Federal,        \* the anchor row, federal / US / 'United States'
    Places,         \* what the census file lists
    StateOf,        \* place -> its state
    LevelOf,        \* place -> "county" or "city"
    ParentOf,       \* place -> the county named beside it, or the place itself
    CommaCounties,  \* unsplit 'A County, B County' values of the county column
    Scopes,         \* the scope section of the configurations considered
    Sourced,        \* jurisdictions the code-source CSV names
    Orchestrators,
    Interval,       \* resweep_interval_days
    MaxDay,         \* bound: days in a behaviour
    MaxFaults,      \* bound: crashes, failed cycles and outages of census.gov
    MaxEdits        \* bound: acts of the operator

ASSUME SeedAssumption ==
    /\ IsFiniteSet(States) /\ IsFiniteSet(Places)
    /\ Federal \notin States \cup Places /\ States \cap Places = {}
    /\ StateOf \in [Places -> States]
    /\ LevelOf \in [Places -> {"county", "city"}]
    /\ ParentOf \in [Places -> Places]
    /\ CommaCounties \subseteq {p \in Places : LevelOf[p] = "county"}
    /\ Sourced \subseteq States \cup Places \cup {Federal}
    /\ Interval \in Nat /\ 1 < Interval
    /\ MaxDay \in Nat /\ MaxFaults \in Nat /\ MaxEdits \in Nat

Jurisdictions == States \cup Places \cup {Federal}
Sources == {"serper", "legal_codes"}
Jobs    == Jurisdictions \X Sources
Days    == 0 .. MaxDay + Interval

VARIABLES
    scope,      \* the scope of the configuration the orchestrators run with
    running,    \* the run switch
    jurs,       \* rows of jurisdictions
    imported,   \* jurisdictions with a code_sources row
    enabled,    \* those whose row is enabled
    targets,    \* rows of sweep_targets: job -> row
    history,    \* rows of harvest_sweeps
    inflight,   \* sweeps a worker is past the gate of
    day,
    censusUp,   \* census.gov answers
    orch,       \* control state of each orchestrator process
    epoch,      \* times the rows were deleted: a row keeps the epoch it was born in as its id
    kept,       \* history there was when the queue was last dropped for a rebuild
    faults, edits

desk == <<scope, running, imported, enabled, epoch, kept>>
vars == <<desk, jurs, targets, history, inflight, day, censusUp, orch, faults, edits>>

Level(j) == CASE j = Federal -> "federal" [] j \in States -> "state" [] OTHER -> LevelOf[j]
Home(j)  == IF j \in Places THEN StateOf[j] ELSE j
Beside(j) == IF j \in Places THEN ParentOf[j] ELSE j

ScopeRecords == [region : BOOLEAN, matches : SUBSET Jurisdictions, levels : SUBSET {"federal", "state", "county", "city"},
                 states : SUBSET States, within : SUBSET Jurisdictions, only : SUBSET Jurisdictions]
ASSUME ScopeAssumption == Scopes \subseteq ScopeRecords

\* sent: the day of the live dispatch, counted from 1; 0 when the row is free.
TargetRows  == [born : Nat, due : Days, sent : 0 .. MaxDay + 1]
HistoryRows == [job : Jobs, day : 0 .. MaxDay, result : {"done", "error"}]
Sweeps      == [job : Jobs, born : Nat, sent : 1 .. MaxDay + 1]

\* _last_run and the cached download outlive a cycle that raises, not the process.
Process == [pc |-> "idle", throttle |-> "off", cached |-> FALSE, todo |-> {}, state |-> Federal,
            left |-> {}, pool |-> {}, jobs |-> {}, late |-> {}, job |-> <<Federal, "serper">>, due |-> 0]
Resting(p) == [Process EXCEPT !.throttle = p.throttle, !.cached = p.cached]

\* The first corpus of a database, or a corpus beside others, which share these two tables.
Init ==
    /\ scope \in Scopes
    /\ running = TRUE
    /\ \/ jurs = {} /\ imported = {} /\ enabled = {}
       \/ jurs = Jurisdictions /\ imported = Sourced /\ enabled = Sourced
    /\ targets = [j \in {} |-> Federal]
    /\ history = {} /\ inflight = {} /\ day = 0 /\ censusUp = TRUE
    /\ orch = [o \in Orchestrators |-> Process]
    /\ epoch = 0 /\ kept = {} /\ faults = 0 /\ edits = 0

Quiet == UNCHANGED <<desk, history, inflight, day, censusUp, faults, edits>>
NoRows == UNCHANGED <<jurs, targets>>

-----------------------------------------------------------------------------
(* Census seeding.                                                         *)

\* Faulty variant: the throttle is set by a load that succeeds.
StartSeedingUnthrottled(p) == [p EXCEPT !.pc = "census", !.todo = scope.states]

\* ensure_states notes the attempt before it has succeeded.
StartSeeding(p) == [p EXCEPT !.pc = "census", !.todo = scope.states, !.throttle = "on"]

\* run_cycle: the switch is read here and not again.
Cycle(o) ==
    /\ orch[o].pc = "idle" /\ running
    /\ orch' = [orch EXCEPT ![o] = IF @.throttle = "off" THEN StartSeeding(@)
                                   ELSE [@ EXCEPT !.pc = "dispatch", !.throttle = "running"]]
    /\ NoRows /\ Quiet

\* SEED_THROTTLE_S have passed since this process last seeded.  They outlast a failed download
\* and one interval (3 * 120 + 7 + 60 s), so that one throttled cycle at least comes in between.
ThrottleEnds(o) ==
    /\ orch[o].throttle = "running" /\ orch[o].pc = "idle"
    /\ orch' = [orch EXCEPT ![o].throttle = "off"]
    /\ NoRows /\ Quiet

\* state_row_exists: the state row is the loaded marker.
CheckState(o) ==
    /\ orch[o].pc = "census"
    /\ \E s \in orch[o].todo :
          orch' = [orch EXCEPT ![o] = IF s \in jurs THEN [@ EXCEPT !.todo = orch[o].todo \ {s}]
                                      ELSE [@ EXCEPT !.pc = "download", !.state = s]]
    /\ NoRows /\ Quiet

AllLoaded(o) ==
    /\ orch[o].pc = "census" /\ orch[o].todo = {}
    /\ orch' = [orch EXCEPT ![o].pc = "scope"]
    /\ NoRows /\ Quiet

\* load_state: one national file, downloaded once per process; three failed attempts raise, and
\* the cycle is over.
Download(o) ==
    /\ orch[o].pc = "download"
    /\ orch' = [orch EXCEPT ![o] =
          IF @.cached \/ censusUp
          THEN [@ EXCEPT !.pc = "load", !.cached = TRUE, !.left = {p \in Places : StateOf[p] = orch[o].state}]
          ELSE Resting(@)]
    /\ NoRows /\ Quiet

\* Faulty variant: a state is loaded once its counties are in.
LastRowEarly(left) == \A p \in left : LevelOf[p] # "county"

\* The state row comes when no place is left.
LastRow(left) == left = {}

\* Faulty variant: a row that is already there ends the cycle, as any other error would.
AfterInsertOrRaise(p, j) == IF j \in jurs THEN Resting(p) ELSE [p EXCEPT !.left = @ \ {j}]

\* A UniqueViolation is passed over.
AfterInsert(p, j) == [p EXCEPT !.left = @ \ {j}]

\* _load_state, counties before the rest, one transaction each.  The link to the county's id is
\* left out: nothing reads parent_id.
InsertPlace(o) ==
    /\ orch[o].pc = "load" /\ ~LastRow(orch[o].left)
    /\ \E p \in orch[o].left :
          /\ LevelOf[p] = "county" \/ \A q \in orch[o].left : LevelOf[q] # "county"
          /\ jurs' = jurs \cup {p}
          /\ orch' = [orch EXCEPT ![o] = AfterInsert(@, p)]
    /\ UNCHANGED targets /\ Quiet

InsertStateRow(o) ==
    /\ orch[o].pc = "load" /\ LastRow(orch[o].left)
    /\ jurs' = jurs \cup {orch[o].state}
    /\ orch' = [orch EXCEPT ![o] = [@ EXCEPT !.pc = "census",
                                                !.todo = orch[o].todo \ {orch[o].state}]]
    /\ UNCHANGED targets /\ Quiet

-----------------------------------------------------------------------------
(* Target seeding.                                                         *)

\* resolve_scope over the rows js.  A region query looks at names alone; otherwise levels and
\* states select, and the federal anchor joins them.  Comma counties are never swept.
Resolve(js) ==
    LET listed == IF scope.region THEN js \cap scope.matches
                  ELSE {j \in js : Level(j) \in scope.levels /\ Home(j) \in scope.states}
                       \cup {j \in {Federal} : "federal" \in scope.levels}
        near   == {j \in listed : j \in scope.within \/ Beside(j) \in scope.within \/ j = Federal}
        local  == IF scope.within = {} THEN listed ELSE near
        exact  == IF scope.only = {} THEN local ELSE local \cap scope.only
    IN  exact \ CommaCounties

\* Faulty variant: the anchor is resolved without being inserted.
AnchoredNever == {}

\* ensure_federal_anchor.
Anchored == IF ~scope.region /\ "federal" \in scope.levels THEN {Federal} ELSE {}

\* seed_targets begins: the scope, with ensure_federal_anchor, and the rows there already are.
\* late: code rows that are due.
ReadQueue(o) ==
    /\ orch[o].pc = "scope"
    /\ jurs' = jurs \cup Anchored
    /\ orch' = [orch EXCEPT ![o] = [@ EXCEPT
          !.pc = "seeds", !.pool = Resolve(jurs'), !.jobs = DOMAIN targets,
          !.late = {t \in {[j |-> j, born |-> targets[j].born] : j \in DOMAIN targets} :
                       t.j[2] = "legal_codes" /\ targets[t.j].due <= day}]]
    /\ UNCHANGED targets /\ Quiet

Wanted(pool, seeded) == (pool \X {"serper"}) \cup ((pool \cap seeded) \X {"legal_codes"})

\* list_code_sources(enabled_only=True); what is left to insert, and to park.
ReadSeeds(o) ==
    /\ orch[o].pc = "seeds"
    /\ orch' = [orch EXCEPT ![o] = [@ EXCEPT
          !.pc = "seed", !.jobs = Wanted(orch[o].pool, enabled) \ orch[o].jobs, !.pool = {},
          !.late = {t \in orch[o].late : t.j[1] \notin enabled}]]
    /\ NoRows /\ Quiet

Newest(hs) == CHOOSE d \in {h.day : h \in hs} : \A h \in hs : h.day <= d

\* Faulty variant: a row is due as long after its last sweep as an error is.
BackfillSoon(j) ==
    LET past == {h \in history : h.job = j}
    IN  IF past = {} THEN day ELSE Newest(past) + 1

\* _backfill_due.
BackfillDue(j) ==
    LET past == {h \in history : h.job = j}
        done == {h \in past : h.result # "error"}
    IN  CASE past = {} -> day
          [] done # {} -> Newest(done) + Interval
          [] OTHER     -> Newest(past) + 1

ReadHistory(o) ==
    /\ orch[o].pc = "seed"
    /\ \E j \in orch[o].jobs :
          orch' = [orch EXCEPT ![o] = [@ EXCEPT !.pc = "insert", !.job = j, !.due = BackfillDue(j)]]
    /\ NoRows /\ Quiet

\* insert_target; the loser of a race finds the row there.
InsertTarget(o) ==
    LET j == orch[o].job IN
    /\ orch[o].pc = "insert"
    /\ targets' = [k \in DOMAIN targets \cup {j} |->
                     IF k \in DOMAIN targets THEN targets[k]
                     ELSE [born |-> epoch, due |-> orch[o].due, sent |-> 0]]
    /\ orch' = [orch EXCEPT ![o] = [@ EXCEPT !.pc = "seed", !.jobs = orch[o].jobs \ {j}]]
    /\ UNCHANGED jurs /\ Quiet

Parked(row) == [row EXCEPT !.due = day + Interval, !.sent = 0]

\* park_target of a due code row without an enabled seed, by the id that was read.
ParkOrphan(o) ==
    /\ orch[o].pc = "seed" /\ orch[o].jobs = {}
    /\ \E t \in orch[o].late :
          /\ targets' = [j \in DOMAIN targets |->
                           IF j = t.j /\ targets[j].born = t.born THEN Parked(targets[j])
                           ELSE targets[j]]
          /\ orch' = [orch EXCEPT ![o].late = @ \ {t}]
    /\ UNCHANGED jurs /\ Quiet

Seeded(o) ==
    /\ orch[o].pc = "seed" /\ orch[o].jobs = {} /\ orch[o].late = {}
    /\ orch' = [orch EXCEPT ![o] = [Resting(@) EXCEPT !.pc = "dispatch"]]
    /\ NoRows /\ Quiet

-----------------------------------------------------------------------------
(* The rest of the cycle, and the sweeps it sends out, in one step each.   *)

Due(j) == targets[j].sent = 0 /\ targets[j].due <= day

\* dispatch_cycle over the rows that are due; a code row without an enabled seed is parked.
Dispatch(o) ==
    LET orphan(j) == j[2] = "legal_codes" /\ j[1] \notin enabled
        row(j)    == CASE ~Due(j) -> targets[j]
                       [] orphan(j) -> Parked(targets[j])
                       [] OTHER -> [targets[j] EXCEPT !.sent = day + 1]
    IN
    /\ orch[o].pc = "dispatch"
    /\ targets' = [j \in DOMAIN targets |-> row(j)]
    /\ inflight' = inflight \cup {[job |-> j, born |-> targets[j].born, sent |-> day + 1] :
                                     j \in {k \in DOMAIN targets : Due(k) /\ ~orphan(k)}}
    /\ orch' = [orch EXCEPT ![o] = Resting(@)]
    /\ UNCHANGED <<desk, jurs, history, day, censusUp, faults, edits>>

\* A worker past its gate writes its history whatever became of the row since; only the row of
\* its dispatch is finalized.
SweepEnds ==
    \E f \in inflight, result \in {"done", "error"} :
        /\ inflight' = inflight \ {f}
        /\ history' = history \cup {[job |-> f.job, day |-> day, result |-> result]}
        /\ targets' = [j \in DOMAIN targets |->
               IF j = f.job /\ targets[j].born = f.born /\ targets[j].sent = f.sent
               THEN [targets[j] EXCEPT !.sent = 0, !.due = day + IF result = "error" THEN 1 ELSE Interval]
               ELSE targets[j]]
        /\ UNCHANGED <<desk, jurs, day, censusUp, orch, faults, edits>>

-----------------------------------------------------------------------------
(* The operator.                                                           *)

Edit == edits < MaxEdits /\ edits' = edits + 1 /\ UNCHANGED <<jurs, inflight, day, censusUp, faults>>
AtDesk == Edit /\ UNCHANGED <<scope, orch>>

\* import-code-sources: a jurisdiction that is not loaded is skipped, a row that is there too.
Import ==
    /\ AtDesk
    /\ \E j \in (Sourced \cap jurs) \ imported :
          imported' = imported \cup {j} /\ enabled' = enabled \cup {j}
    /\ UNCHANGED <<running, targets, history, epoch, kept>>

SetEnabled ==
    /\ AtDesk
    /\ \E j \in imported :
          enabled' = IF j \in enabled THEN enabled \ {j} ELSE enabled \cup {j}
    /\ UNCHANGED <<running, imported, targets, history, epoch, kept>>

Switch ==
    /\ AtDesk /\ running' = ~running
    /\ UNCHANGED <<imported, enabled, targets, history, epoch, kept>>

\* purge_corpus: the rows go in one transaction.  Jurisdictions, code sources and the run switch
\* stay, and nothing keeps an orchestrator or a worker from writing on.
Purge ==
    /\ AtDesk
    /\ targets' = [j \in {} |-> Federal] /\ history' = {} /\ epoch' = epoch + 1 /\ kept' = {}
    /\ UNCHANGED <<running, imported, enabled>>

\* The queue is dropped, with no cycle under way, to be rebuilt from the history.
DropQueue ==
    /\ AtDesk
    /\ \A o \in Orchestrators : orch[o].pc = "idle"
    /\ targets' = [j \in {} |-> Federal] /\ epoch' = epoch + 1 /\ kept' = history
    /\ UNCHANGED <<running, imported, enabled, history>>

\* A new configuration, read by processes started anew.  Rows outside of it stay in the queue.
Reconfigure ==
    /\ Edit
    /\ scope' \in Scopes \ {scope}
    /\ orch' = [o \in Orchestrators |-> Process]
    /\ UNCHANGED <<running, imported, enabled, targets, history, epoch, kept>>

-----------------------------------------------------------------------------
(* Time and faults.                                                        *)

Fault == faults < MaxFaults /\ faults' = faults + 1
         /\ UNCHANGED <<desk, jurs, targets, history, inflight, day, edits>>

\* A cycle is short beside a day: the clock readings of one cycle fall on one day.
NextDay ==
    /\ day < MaxDay /\ day' = day + 1
    /\ \A o \in Orchestrators : orch[o].pc = "idle"
    /\ UNCHANGED <<desk, jurs, targets, history, inflight, censusUp, orch, faults, edits>>

\* run_forever catches what a cycle raises; a killed process forgets.
CycleFails ==
    /\ Fault /\ UNCHANGED censusUp
    /\ \E o \in Orchestrators :
          /\ orch[o].pc # "idle"
          /\ orch' = [orch EXCEPT ![o] = Resting(@)]

Crash ==
    /\ Fault /\ UNCHANGED censusUp
    /\ \E o \in Orchestrators : orch' = [orch EXCEPT ![o] = Process]

CensusDown == Fault /\ censusUp /\ censusUp' = FALSE /\ UNCHANGED orch

CensusBack ==
    /\ ~censusUp /\ censusUp' = TRUE
    /\ UNCHANGED <<desk, jurs, targets, history, inflight, day, orch, faults, edits>>

-----------------------------------------------------------------------------
Work(o) ==
    \/ Cycle(o) \/ CheckState(o) \/ AllLoaded(o) \/ Download(o) \/ InsertPlace(o) \/ InsertStateRow(o)
    \/ ReadQueue(o) \/ ReadSeeds(o) \/ ReadHistory(o) \/ InsertTarget(o) \/ ParkOrphan(o) \/ Seeded(o)
    \/ Dispatch(o)

Next ==
    \/ \E o \in Orchestrators : Work(o) \/ ThrottleEnds(o)
    \/ SweepEnds
    \/ Import \/ SetEnabled \/ Switch \/ Purge \/ DropQueue \/ Reconfigure
    \/ NextDay \/ CycleFails \/ Crash \/ CensusDown \/ CensusBack

Spec == Init /\ [][Next]_vars

\* The loops turn and the throttle runs out.  Census.gov need never come back, the operator need
\* never act, and no sweep need end.
FairSpec == Spec /\ \A o \in Orchestrators : WF_vars(Work(o)) /\ SF_vars(ThrottleEnds(o))

-----------------------------------------------------------------------------
\* Every variable has its type.
TypeOK ==
    /\ scope \in ScopeRecords
    /\ running \in BOOLEAN /\ censusUp \in BOOLEAN
    /\ jurs \subseteq Jurisdictions
    /\ enabled \subseteq imported /\ imported \subseteq jurs
    /\ DOMAIN targets \subseteq Jobs /\ \A j \in DOMAIN targets : targets[j] \in TargetRows
    /\ {j[1] : j \in DOMAIN targets} \subseteq jurs
    /\ history \subseteq HistoryRows /\ kept \subseteq HistoryRows
    /\ inflight \subseteq Sweeps
    /\ day \in 0 .. MaxDay /\ epoch \in 0 .. MaxEdits
    /\ faults \in 0 .. MaxFaults /\ edits \in 0 .. MaxEdits

\* A state whose marker row is there has all its places: no crash or failed cycle leaves a
\* marker over a half-loaded state (census.py, "must not appear before the places are in").
MarkerMeansLoaded ==
    \A s \in States \cap jurs : {p \in Places : StateOf[p] = s} \subseteq jurs

Sends(j) ==
    /\ j \in DOMAIN targets' /\ targets'[j].sent # 0
    /\ j \in DOMAIN targets => targets[j].sent # targets'[j].sent

\* Rebuilding the queue does not buy work again: a sweep that was on record when the queue was
\* dropped is not repeated within the resweep interval (_backfill_due).
NeverRepurchased ==
    [][\A h \in kept : Sends(h.job) /\ h.result # "error" => h.day + Interval <= day]_vars

\* While the system is left running and census.gov answers, every jurisdiction in scope comes to
\* have its rows, the code row where a source is enabled, also after a crash in the middle of a
\* load, after a purge and under a new configuration.
EveryPlaceSeeded ==
    <>[](running /\ censusUp)
        => []<>(Wanted(Resolve(Jurisdictions), enabled) \subseteq DOMAIN targets)

\* Rows that are due get dispatched even while census.gov is down and a state is missing: the
\* raising load spoils one cycle per throttle period, not every cycle.
DispatchedThoughCensusDown ==
    <>[]running => []<>(\A j \in DOMAIN targets : ~Due(j))
=============================================================================
