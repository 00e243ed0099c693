--------------------------- MODULE CorpusSeedProofs ---------------------------
(***************************************************************************)
(* Theorems about CorpusSeed, for every census file, configuration, number *)
(* of orchestrators, days, faults and acts of the operator.                *)
(***************************************************************************)
EXTENDS CorpusSeed, WellFoundedInduction, TLAPS

-----------------------------------------------------------------------------
(* The inductive invariant.                                                *)

Pcs == {"idle", "census", "download", "load", "scope", "seeds", "seed", "insert", "dispatch"}
Processes == [pc : Pcs, throttle : {"off", "on", "running"}, cached : BOOLEAN, todo : SUBSET States,
              state : States \cup {Federal}, left : SUBSET Places, pool : SUBSET Jurisdictions,
              jobs : SUBSET Jobs, late : SUBSET [j : Jobs, born : Nat], job : Jobs, due : Days]

Typed == /\ TypeOK
         /\ epoch <= edits
         /\ orch \in [Orchestrators -> Processes]

\* What an orchestrator is about to seed is in the table it read it from.
Rooted == \A o \in Orchestrators :
    /\ orch[o].pool \subseteq jurs
    /\ \A j \in orch[o].jobs : j[1] \in jurs
    /\ orch[o].pc = "insert" => orch[o].job[1] \in jurs

\* While a state is loaded, what is not left to insert is in the table.
Loading == \A o \in Orchestrators :
    orch[o].pc = "load" => \A p \in Places : StateOf[p] = orch[o].state => p \in jurs \cup orch[o].left

-----------------------------------------------------------------------------
(* Facts about the history.                                                *)

\* Days are numbers under MaxDay, so some row of a history is the newest.
LEMMA NewestExists ==
    ASSUME NEW H \in SUBSET HistoryRows, H # {}
    PROVE  /\ Newest(H) \in 0 .. MaxDay
           /\ \A h \in H : h.day <= Newest(H)
<1> DEFINE R == {MaxDay - h.day : h \in H}
           D == {h.day : h \in H}
<1>1. \A h \in H : h.day \in 0 .. MaxDay
  BY DEF HistoryRows
<1>2. R \subseteq Nat /\ R # {}
  BY <1>1, SeedAssumption
<1>3. PICK r \in R : \A q \in R : ~(<<q, r>> \in OpToRel(<, Nat))
  BY <1>2, NatLessThanWellFounded, WFMin
<1>4. PICK k \in H : r = MaxDay - k.day
  OBVIOUS
<1>5. \A h \in H : h.day <= k.day
  <2> SUFFICES ASSUME NEW h \in H PROVE h.day <= k.day
    OBVIOUS
  <2>1. MaxDay - h.day \in R /\ MaxDay - h.day \in Nat /\ r \in Nat
    BY <1>2
  <2>2. ~(MaxDay - h.day < r)
    BY <2>1, <1>3 DEF OpToRel
  <2> QED BY <2>2, <1>1, <1>4, SeedAssumption
<1>6. \E d \in D : \A h \in H : h.day <= d
  BY <1>5
<1>7. Newest(H) \in D /\ \A h \in H : h.day <= Newest(H)
  BY <1>6 DEF Newest
<1> QED BY <1>1, <1>7

\* A backfilled row is due within the days there are, and not within the interval after any
\* sweep of it that did not fail.
LEMMA BackfillSpares ==
    ASSUME TypeOK, NEW j
    PROVE  /\ BackfillDue(j) \in Days
           /\ \A h \in history : h.job = j /\ h.result # "error" => h.day + Interval <= BackfillDue(j)
<1> DEFINE past == {h \in history : h.job = j}
           done == {h \in past : h.result # "error"}
<1>1. past \in SUBSET HistoryRows /\ done \in SUBSET HistoryRows /\ day \in 0 .. MaxDay
  BY DEF TypeOK
<1>2. BackfillDue(j) = CASE past = {} -> day
                         [] done # {} -> Newest(done) + Interval
                         [] OTHER     -> Newest(past) + 1
  BY DEF BackfillDue
<1>3. \A h \in history : h.job = j /\ h.result # "error" => h \in done
  OBVIOUS
<1>4. done # {} => past # {}
  OBVIOUS
<1>5. \A h \in history : h.day \in 0 .. MaxDay
  BY DEF TypeOK, HistoryRows
<1> HIDE DEF past, done
<1>6. CASE done # {}
  <2>1. Newest(done) \in 0 .. MaxDay /\ \A h \in done : h.day <= Newest(done)
    BY <1>1, <1>6, NewestExists
  <2>2. BackfillDue(j) = Newest(done) + Interval
    BY <1>2, <1>4, <1>6
  <2> QED BY <2>1, <2>2, <1>3, <1>5, SeedAssumption DEF Days
<1>7. CASE done = {} /\ past # {}
  <2>1. Newest(past) \in 0 .. MaxDay
    BY <1>1, <1>7, NewestExists
  <2>2. BackfillDue(j) = Newest(past) + 1
    BY <1>2, <1>7
  <2> QED BY <2>1, <2>2, <1>3, <1>7, SeedAssumption DEF Days
<1>8. CASE past = {}
  <2>1. BackfillDue(j) = day
    BY <1>2, <1>4, <1>8
  <2> QED BY <2>1, <1>1, <1>3, <1>4, <1>8, SeedAssumption DEF Days
<1> QED BY <1>6, <1>7, <1>8

-----------------------------------------------------------------------------
(* Types.                                                                  *)

LEMMA Shapes ==
    /\ Process \in Processes
    /\ \A p \in Processes : Resting(p) \in Processes
    /\ Federal \in Jurisdictions /\ States \subseteq Jurisdictions /\ Places \subseteq Jurisdictions
<1>1. Federal \in Jurisdictions /\ States \subseteq Jurisdictions /\ Places \subseteq Jurisdictions
  BY DEF Jurisdictions
<1>2. <<Federal, "serper">> \in Jobs /\ 0 \in Days
  BY <1>1, SeedAssumption DEF Jobs, Sources, Days
<1>3. Process \in Processes
  BY <1>2 DEF Process, Processes, Pcs
<1>4. \A p \in Processes : Resting(p) \in Processes
  BY <1>3 DEF Resting, Processes
<1> QED BY <1>1, <1>3, <1>4

\* The scope is resolved within the table, once the anchor is in it.
LEMMA ResolveWithin ==
    ASSUME NEW js, Anchored \subseteq js
    PROVE  Resolve(js) \subseteq js
BY DEF Resolve, Anchored

\* A process state whose pool, jobs and job are rooted in the table js.
RootedIn(p, js) == /\ p \in Processes
                   /\ p.pool \subseteq js
                   /\ \A j \in p.jobs : j[1] \in js
                   /\ p.pc = "insert" => p.job[1] \in js

\* One orchestrator, o, goes on to p.
Moves(o, p) == /\ orch' = [orch EXCEPT ![o] = p]
               /\ jurs \subseteq jurs' /\ jurs' \subseteq Jurisdictions
               /\ RootedIn(p, jurs')

LEMMA RestingRooted ==
    ASSUME NEW p \in Processes, NEW js
    PROVE  /\ RootedIn(Resting(p), js) /\ RootedIn(Process, js)
           /\ RootedIn([Resting(p) EXCEPT !.pc = "dispatch"], js)
<1>1. /\ Resting(p).pool = {} /\ Resting(p).jobs = {} /\ Resting(p).pc = "idle"
      /\ Process.pool = {} /\ Process.jobs = {} /\ Process.pc = "idle"
  BY DEF Resting, Process
<1> QED BY <1>1, Shapes DEF RootedIn, Processes, Pcs

\* Each step of an orchestrator takes one process from one well-formed state to another.
LEMMA WorkForms ==
    ASSUME Typed, Rooted, NEW o \in Orchestrators, Work(o) \/ ThrottleEnds(o)
    PROVE  \E p : Moves(o, p)
<1>1. /\ jurs \subseteq Jurisdictions /\ scope.states \subseteq States
      /\ orch[o] \in Processes /\ RootedIn(orch[o], jurs)
  BY DEF Typed, TypeOK, Rooted, RootedIn, ScopeRecords
<1>2. CASE Cycle(o)
  <2>1. orch' = [orch EXCEPT ![o] = IF orch[o].throttle = "off" THEN StartSeeding(orch[o])
                                    ELSE [orch[o] EXCEPT !.pc = "dispatch", !.throttle = "running"]]
    BY <1>2 DEF Cycle
  <2>2. RootedIn(StartSeeding(orch[o]), jurs)
    <3>1. StartSeeding(orch[o]) = [orch[o] EXCEPT !.pc = "census", !.todo = scope.states, !.throttle = "on"]
      BY DEF StartSeeding
    <3> QED BY <1>1, <3>1 DEF RootedIn, Processes, Pcs
  <2>3. RootedIn([orch[o] EXCEPT !.pc = "dispatch", !.throttle = "running"], jurs)
    BY <1>1 DEF RootedIn, Processes, Pcs
  <2> QED BY <1>1, <1>2, <2>1, <2>2, <2>3 DEF Cycle, NoRows, Moves
<1>3. CASE ThrottleEnds(o)
  <2>1. RootedIn([orch[o] EXCEPT !.throttle = "off"], jurs)
    BY <1>1 DEF RootedIn, Processes, Pcs
  <2> QED BY <1>1, <1>3, <2>1 DEF ThrottleEnds, NoRows, Moves
<1>4. CASE CheckState(o)
  <2>1. PICK s \in orch[o].todo :
          orch' = [orch EXCEPT ![o] = IF s \in jurs THEN [orch[o] EXCEPT !.todo = orch[o].todo \ {s}]
                                      ELSE [orch[o] EXCEPT !.pc = "download", !.state = s]]
    BY <1>4 DEF CheckState
  <2>2. s \in States
    BY <1>1 DEF Processes
  <2>3. RootedIn([orch[o] EXCEPT !.todo = orch[o].todo \ {s}], jurs)
    BY <1>1 DEF RootedIn, Processes, Pcs
  <2>4. RootedIn([orch[o] EXCEPT !.pc = "download", !.state = s], jurs)
    BY <1>1, <2>2 DEF RootedIn, Processes, Pcs
  <2> QED BY <1>1, <1>4, <2>1, <2>3, <2>4 DEF CheckState, NoRows, Moves
<1>5. CASE AllLoaded(o)
  <2>1. RootedIn([orch[o] EXCEPT !.pc = "scope"], jurs)
    BY <1>1 DEF RootedIn, Processes, Pcs
  <2> QED BY <1>1, <1>5, <2>1 DEF AllLoaded, NoRows, Moves
<1>6. CASE Download(o)
  <2> DEFINE L == {p \in Places : StateOf[p] = orch[o].state}
  <2>1. orch' = [orch EXCEPT ![o] = IF orch[o].cached \/ censusUp
                                    THEN [orch[o] EXCEPT !.pc = "load", !.cached = TRUE, !.left = L]
                                    ELSE Resting(orch[o])]
    BY <1>6 DEF Download
  <2>2. L \subseteq Places
    OBVIOUS
  <2> HIDE DEF L
  <2>3. RootedIn([orch[o] EXCEPT !.pc = "load", !.cached = TRUE, !.left = L], jurs)
    BY <1>1, <2>2 DEF RootedIn, Processes, Pcs
  <2> QED BY <1>1, <1>6, <2>1, <2>3, RestingRooted DEF Download, NoRows, Moves
<1>7. CASE InsertPlace(o)
  <2>1. PICK p \in orch[o].left : /\ jurs' = jurs \cup {p}
                                  /\ orch' = [orch EXCEPT ![o] = [orch[o] EXCEPT !.left = @ \ {p}]]
    BY <1>7 DEF InsertPlace, AfterInsert
  <2>2. p \in Places
    BY <1>1 DEF Processes
  <2>3. RootedIn([orch[o] EXCEPT !.left = @ \ {p}], jurs')
    BY <1>1, <2>1 DEF RootedIn, Processes, Pcs
  <2> QED BY <1>1, <2>1, <2>2, <2>3, Shapes DEF Moves
<1>8. CASE InsertStateRow(o)
  <2>1. /\ jurs' = jurs \cup {orch[o].state}
        /\ orch' = [orch EXCEPT ![o] = [orch[o] EXCEPT !.pc = "census",
                                                        !.todo = orch[o].todo \ {orch[o].state}]]
    BY <1>8 DEF InsertStateRow
  <2>3. orch[o].state \in Jurisdictions
    BY <1>1, Shapes DEF Processes
  <2>2. RootedIn([orch[o] EXCEPT !.pc = "census", !.todo = orch[o].todo \ {orch[o].state}], jurs')
    BY <1>1, <2>1 DEF RootedIn, Processes, Pcs
  <2> QED BY <1>1, <2>1, <2>2, <2>3 DEF Moves
<1>9. CASE ReadQueue(o)
  <2> DEFINE late == {t \in {[j |-> j, born |-> targets[j].born] : j \in DOMAIN targets} :
                         t.j[2] = "legal_codes" /\ targets[t.j].due <= day}
             next == [orch[o] EXCEPT !.pc = "seeds", !.pool = Resolve(jurs'), !.jobs = DOMAIN targets,
                                     !.late = late]
  <2>1. jurs' = jurs \cup Anchored /\ orch' = [orch EXCEPT ![o] = next]
    BY <1>9 DEF ReadQueue
  <2>2. Resolve(jurs') \subseteq jurs' /\ jurs \subseteq jurs' /\ jurs' \subseteq Jurisdictions
    <3>1. Anchored \subseteq Jurisdictions
      BY Shapes DEF Anchored
    <3> QED BY <1>1, <2>1, <3>1, ResolveWithin
  <2>3. DOMAIN targets \subseteq Jobs /\ \A j \in DOMAIN targets : j[1] \in jurs
    BY DEF Typed, TypeOK
  <2>4. late \subseteq [j : Jobs, born : Nat]
    BY DEF Typed, TypeOK, TargetRows
  <2> HIDE DEF late
  <2>5. RootedIn(next, jurs')
    BY <1>1, <2>2, <2>3, <2>4 DEF RootedIn, Processes, Pcs
  <2> QED BY <2>1, <2>2, <2>5 DEF Moves
<1>10. CASE ReadSeeds(o)
  <2> DEFINE want == Wanted(orch[o].pool, enabled) \ orch[o].jobs
             late == {t \in orch[o].late : t.j[1] \notin enabled}
             next == [orch[o] EXCEPT !.pc = "seed", !.jobs = want, !.pool = {}, !.late = late]
  <2>1. orch' = [orch EXCEPT ![o] = next] /\ jurs' = jurs
    BY <1>10 DEF ReadSeeds, NoRows
  <2>2. orch[o].pool \subseteq Jurisdictions /\ orch[o].pool \subseteq jurs
    BY <1>1 DEF RootedIn
  <2>3. want \subseteq Jobs /\ \A j \in want : j[1] \in jurs
    BY <2>2 DEF Wanted, Jobs, Sources
  <2>4. late \subseteq orch[o].late
    OBVIOUS
  <2> HIDE DEF want, late
  <2>5. RootedIn(next, jurs')
    BY <1>1, <2>1, <2>3, <2>4 DEF RootedIn, Processes, Pcs
  <2> QED BY <1>1, <2>1, <2>5 DEF Moves
<1>11. CASE ReadHistory(o)
  <2>1. PICK j \in orch[o].jobs :
          orch' = [orch EXCEPT ![o] = [orch[o] EXCEPT !.pc = "insert", !.job = j, !.due = BackfillDue(j)]]
    BY <1>11 DEF ReadHistory
  <2>2. BackfillDue(j) \in Days /\ j \in Jobs /\ j[1] \in jurs
    BY <1>1, BackfillSpares DEF Typed, RootedIn, Processes
  <2>3. RootedIn([orch[o] EXCEPT !.pc = "insert", !.job = j, !.due = BackfillDue(j)], jurs)
    BY <1>1, <2>2 DEF RootedIn, Processes, Pcs
  <2> QED BY <1>1, <1>11, <2>1, <2>3 DEF ReadHistory, NoRows, Moves
<1>12. CASE InsertTarget(o)
  <2>1. RootedIn([orch[o] EXCEPT !.pc = "seed", !.jobs = orch[o].jobs \ {orch[o].job}], jurs)
    BY <1>1 DEF RootedIn, Processes, Pcs
  <2> QED BY <1>1, <1>12, <2>1 DEF InsertTarget, Moves
<1>13. CASE ParkOrphan(o)
  <2>1. PICK t \in orch[o].late : orch' = [orch EXCEPT ![o] = [orch[o] EXCEPT !.late = @ \ {t}]]
    BY <1>13 DEF ParkOrphan
  <2>2. RootedIn([orch[o] EXCEPT !.late = @ \ {t}], jurs)
    BY <1>1 DEF RootedIn, Processes, Pcs
  <2> QED BY <1>1, <1>13, <2>1, <2>2 DEF ParkOrphan, Moves
<1>14. CASE Seeded(o)
  <2>1. orch' = [orch EXCEPT ![o] = [Resting(orch[o]) EXCEPT !.pc = "dispatch"]] /\ jurs' = jurs
    BY <1>14 DEF Seeded, NoRows
  <2> QED BY <1>1, <2>1, RestingRooted DEF Moves
<1>15. CASE Dispatch(o)
  BY <1>1, <1>15, RestingRooted DEF Dispatch, Moves
<1> QED BY <1>2, <1>3, <1>4, <1>5, <1>6, <1>7, <1>8, <1>9, <1>10, <1>11, <1>12, <1>13, <1>14, <1>15
        DEF Work

\* Acts of the operator, days, sweeps and faults leave the table of jurisdictions alone and stop
\* processes at most.
LEMMA OthersForm ==
    ASSUME Typed, Rooted, [Next]_vars, ~ \E o \in Orchestrators : Work(o) \/ ThrottleEnds(o)
    PROVE  /\ jurs' = jurs
           /\ orch' \in [Orchestrators -> Processes]
           /\ \A o \in Orchestrators : orch'[o] = orch[o] \/ orch'[o] = Process \/ orch'[o] = Resting(orch[o])
<1>1. orch \in [Orchestrators -> Processes]
  BY DEF Typed
<1>2. CASE CycleFails
  BY <1>1, <1>2, Shapes DEF CycleFails, Fault
<1>3. CASE Crash
  BY <1>1, <1>3, Shapes DEF Crash, Fault
<1>4. CASE Reconfigure
  BY <1>1, <1>4, Shapes DEF Reconfigure, Edit
<1>5. CASE SweepEnds \/ NextDay \/ CensusDown \/ CensusBack \/ UNCHANGED vars
  BY <1>1, <1>5 DEF SweepEnds, NextDay, CensusDown, CensusBack, Fault, vars
<1>6. CASE Import \/ SetEnabled \/ Switch \/ Purge \/ DropQueue
  BY <1>1, <1>6 DEF Import, SetEnabled, Switch, Purge, DropQueue, AtDesk, Edit
<1> QED BY <1>2, <1>3, <1>4, <1>5, <1>6 DEF Next

\* The table only grows, and processes stay well formed over it.
LEMMA RootedStep ==
    ASSUME Typed, Rooted, [Next]_vars
    PROVE  /\ jurs \subseteq jurs' /\ jurs' \subseteq Jurisdictions
           /\ orch' \in [Orchestrators -> Processes]
           /\ Rooted'
<1>1. orch \in [Orchestrators -> Processes] /\ jurs \subseteq Jurisdictions
  BY DEF Typed, TypeOK
<1>2. \A q \in Orchestrators : RootedIn(orch[q], jurs)
  BY <1>1 DEF Rooted, RootedIn
<1>3. CASE \E o \in Orchestrators : Work(o) \/ ThrottleEnds(o)
  <2>1. PICK o \in Orchestrators : Work(o) \/ ThrottleEnds(o)
    BY <1>3
  <2>2. PICK p : Moves(o, p)
    BY <2>1, WorkForms
  <2>3. \A q \in Orchestrators : RootedIn(orch'[q], jurs')
    BY <1>1, <1>2, <2>2 DEF Moves, RootedIn
  <2> QED BY <1>1, <2>2, <2>3 DEF Moves, RootedIn, Rooted
<1>4. CASE ~ \E o \in Orchestrators : Work(o) \/ ThrottleEnds(o)
  <2>1. \A q \in Orchestrators : RootedIn(orch'[q], jurs')
    BY <1>1, <1>2, <1>4, OthersForm, RestingRooted
  <2> QED BY <1>1, <1>4, <2>1, OthersForm DEF RootedIn, Rooted
<1> QED BY <1>3, <1>4

\* The queue changes in five kinds of step.
LEMMA QueueChange ==
    ASSUME [Next]_vars
    PROVE  \/ UNCHANGED targets
           \/ \E o \in Orchestrators : InsertTarget(o) \/ ParkOrphan(o) \/ Dispatch(o)
           \/ SweepEnds
           \/ DOMAIN targets' = {}
<1>1. ASSUME NEW o \in Orchestrators, Work(o) \/ ThrottleEnds(o)
      PROVE  UNCHANGED targets \/ InsertTarget(o) \/ ParkOrphan(o) \/ Dispatch(o)
  BY <1>1 DEF Work, ThrottleEnds, Cycle, CheckState, AllLoaded, Download, InsertPlace, InsertStateRow,
              ReadQueue, ReadSeeds, ReadHistory, Seeded, NoRows
<1>2. CASE Purge \/ DropQueue
  BY <1>2 DEF Purge, DropQueue
<1>3. CASE Import \/ SetEnabled \/ Switch \/ Reconfigure
  BY <1>3 DEF Import, SetEnabled, Switch, Reconfigure
<1>4. CASE NextDay \/ CycleFails \/ Crash \/ CensusDown \/ CensusBack \/ UNCHANGED vars
  BY <1>4 DEF NextDay, CycleFails, Crash, CensusDown, CensusBack, Fault, vars
<1> QED BY <1>1, <1>2, <1>3, <1>4 DEF Next

\* Rows of targets that are of their type and in the table js.
RowsIn(js) == /\ DOMAIN targets \subseteq Jobs
              /\ \A j \in DOMAIN targets : targets[j] \in TargetRows /\ j[1] \in js

LEMMA ParkedType ==
    ASSUME day \in 0 .. MaxDay, NEW r \in TargetRows
    PROVE  Parked(r) \in TargetRows
<1>1. day + Interval \in Days /\ 0 \in 0 .. MaxDay + 1
  BY SeedAssumption DEF Days
<1> QED BY <1>1 DEF Parked, TargetRows

LEMMA RowsStep ==
    ASSUME Typed, Rooted, [Next]_vars
    PROVE  RowsIn(jurs)'
<1>1. /\ DOMAIN targets \subseteq Jobs
      /\ \A j \in DOMAIN targets : targets[j] \in TargetRows /\ j[1] \in jurs
      /\ jurs \subseteq jurs'
      /\ orch \in [Orchestrators -> Processes]
      /\ day \in 0 .. MaxDay /\ epoch \in Nat
  BY RootedStep, SeedAssumption DEF Typed, TypeOK
<1>2. CASE UNCHANGED targets
  BY <1>1, <1>2 DEF RowsIn
<1>3. CASE DOMAIN targets' = {}
  BY <1>3 DEF RowsIn
<1>4. CASE SweepEnds
  <2>1. PICK f \in inflight, result \in {"done", "error"} :
          targets' = [j \in DOMAIN targets |->
               IF j = f.job /\ targets[j].born = f.born /\ targets[j].sent = f.sent
               THEN [targets[j] EXCEPT !.sent = 0, !.due = day + IF result = "error" THEN 1 ELSE Interval]
               ELSE targets[j]]
    BY <1>4 DEF SweepEnds
  <2> DEFINE late == day + IF result = "error" THEN 1 ELSE Interval
  <2>2. late \in Days /\ 0 \in 0 .. MaxDay + 1
    BY <1>1, SeedAssumption DEF Days
  <2> HIDE DEF late
  <2>3. ASSUME NEW j \in DOMAIN targets
        PROVE  [targets[j] EXCEPT !.sent = 0, !.due = late] \in TargetRows
    BY <1>1, <2>2, <2>3 DEF TargetRows
  <2> QED BY <1>1, <2>1, <2>3 DEF RowsIn, late
<1>5. ASSUME NEW o \in Orchestrators, InsertTarget(o) PROVE RowsIn(jurs)'
  <2> DEFINE new == [born |-> epoch, due |-> orch[o].due, sent |-> 0]
  <2>1. /\ orch[o].pc = "insert"
        /\ targets' = [k \in DOMAIN targets \cup {orch[o].job} |->
                         IF k \in DOMAIN targets THEN targets[k] ELSE new]
    BY <1>5 DEF InsertTarget
  <2>2. orch[o].job \in Jobs /\ orch[o].job[1] \in jurs /\ new \in TargetRows
    BY <1>1, <2>1, SeedAssumption DEF Rooted, Processes, TargetRows
  <2> HIDE DEF new
  <2> QED BY <1>1, <2>1, <2>2 DEF RowsIn
<1>6. ASSUME NEW o \in Orchestrators, ParkOrphan(o) PROVE RowsIn(jurs)'
  <2>1. \A r \in TargetRows : Parked(r) \in TargetRows
    BY <1>1, ParkedType
  <2>2. PICK t : targets' = [j \in DOMAIN targets |->
                    IF j = t.j /\ targets[j].born = t.born THEN Parked(targets[j]) ELSE targets[j]]
    BY <1>6 DEF ParkOrphan
  <2> QED BY <1>1, <2>1, <2>2 DEF RowsIn
<1>7. ASSUME NEW o \in Orchestrators, Dispatch(o) PROVE RowsIn(jurs)'
  <2>1. \A r \in TargetRows : Parked(r) \in TargetRows
    BY <1>1, ParkedType
  <2>2. \A r \in TargetRows : [r EXCEPT !.sent = day + 1] \in TargetRows
    BY <1>1, SeedAssumption DEF TargetRows
  <2>3. /\ DOMAIN targets' = DOMAIN targets
        /\ \A j \in DOMAIN targets : targets'[j] \in {targets[j], Parked(targets[j]),
                                                      [targets[j] EXCEPT !.sent = day + 1]}
    BY <1>7 DEF Dispatch
  <2> QED BY <1>1, <2>1, <2>2, <2>3 DEF RowsIn
<1> QED BY <1>2, <1>3, <1>4, <1>5, <1>6, <1>7, QueueChange

\* A cycle leaves the desk, the history and the clock alone.
LEMMA WorkQuiet ==
    ASSUME NEW o \in Orchestrators, Work(o) \/ ThrottleEnds(o)
    PROVE  /\ UNCHANGED <<scope, running, imported, enabled, epoch, kept, history, day, censusUp, faults, edits>>
           /\ UNCHANGED inflight \/ Dispatch(o)
<1>1. CASE Cycle(o) \/ ThrottleEnds(o) \/ CheckState(o) \/ AllLoaded(o) \/ Download(o)
  BY <1>1 DEF Cycle, ThrottleEnds, CheckState, AllLoaded, Download, Quiet, desk
<1>2. CASE InsertPlace(o) \/ InsertStateRow(o) \/ ReadQueue(o) \/ ReadSeeds(o)
  BY <1>2 DEF InsertPlace, InsertStateRow, ReadQueue, ReadSeeds, Quiet, desk
<1>3. CASE ReadHistory(o) \/ InsertTarget(o) \/ ParkOrphan(o) \/ Seeded(o) \/ Dispatch(o)
  BY <1>3 DEF ReadHistory, InsertTarget, ParkOrphan, Seeded, Dispatch, Quiet, desk
<1> QED BY <1>1, <1>2, <1>3 DEF Work

\* The rest of the variables.
Rest == /\ scope \in ScopeRecords
        /\ running \in BOOLEAN /\ censusUp \in BOOLEAN
        /\ enabled \subseteq imported /\ imported \subseteq jurs
        /\ history \subseteq HistoryRows /\ kept \subseteq HistoryRows
        /\ inflight \subseteq Sweeps
        /\ day \in 0 .. MaxDay /\ epoch \in 0 .. MaxEdits
        /\ faults \in 0 .. MaxFaults /\ edits \in 0 .. MaxEdits
        /\ epoch <= edits

LEMMA RestStep ==
    ASSUME Typed, Rooted, [Next]_vars
    PROVE  Rest'
<1>1. Rest /\ scope \in Scopes \cup {scope}
  BY DEF Rest, Typed, TypeOK
<1>2. /\ jurs \subseteq jurs'
      /\ DOMAIN targets \subseteq Jobs /\ \A j \in DOMAIN targets : targets[j] \in TargetRows
  BY RootedStep DEF Typed, TypeOK
<1> USE SeedAssumption
<1>3. CASE \E o \in Orchestrators : Work(o) \/ ThrottleEnds(o)
  <2>1. PICK o \in Orchestrators : Work(o) \/ ThrottleEnds(o)
    BY <1>3
  <2>2. inflight' \subseteq Sweeps
    <3>1. CASE Dispatch(o)
      <4>1. \A j \in DOMAIN targets : [job |-> j, born |-> targets[j].born, sent |-> day + 1] \in Sweeps
        BY <1>1, <1>2 DEF Rest, Sweeps, TargetRows
      <4> QED BY <1>1, <3>1, <4>1 DEF Dispatch, Rest
    <3> QED BY <1>1, <2>1, <3>1, WorkQuiet DEF Rest
  <2> QED BY <1>1, <1>2, <2>1, <2>2, WorkQuiet DEF Rest
<1>4. CASE SweepEnds
  <2>1. PICK f \in inflight, result \in {"done", "error"} :
          history' = history \cup {[job |-> f.job, day |-> day, result |-> result]}
    BY <1>4 DEF SweepEnds
  <2>2. [job |-> f.job, day |-> day, result |-> result] \in HistoryRows
    BY <1>1 DEF Rest, Sweeps, HistoryRows
  <2> QED BY <1>1, <1>2, <1>4, <2>1, <2>2 DEF SweepEnds, Rest, desk
<1>5. CASE Import \/ SetEnabled \/ Switch
  <2>1. /\ UNCHANGED <<scope, jurs, inflight, day, censusUp, faults, history, epoch, kept>>
        /\ edits < MaxEdits /\ edits' = edits + 1
    BY <1>5 DEF Import, SetEnabled, Switch, AtDesk, Edit
  <2>2. running' \in BOOLEAN /\ enabled' \subseteq imported' /\ imported' \subseteq jurs
    <3>1. CASE Import
      BY <1>1, <3>1 DEF Import, Rest
    <3>2. CASE SetEnabled
      BY <1>1, <3>2 DEF SetEnabled, Rest
    <3>3. CASE Switch
      BY <1>1, <3>3 DEF Switch, Rest
    <3> QED BY <1>5, <3>1, <3>2, <3>3
  <2> QED BY <1>1, <2>1, <2>2 DEF Rest
<1>6. CASE Purge \/ DropQueue
  BY <1>1, <1>2, <1>6 DEF Purge, DropQueue, AtDesk, Edit, Rest
<1>7. CASE Reconfigure
  BY <1>1, <1>2, <1>7, ScopeAssumption DEF Reconfigure, Edit, Rest
<1>8. CASE NextDay
  BY <1>1, <1>2, <1>8 DEF NextDay, Rest, desk
<1>9. CASE CycleFails \/ Crash \/ CensusDown \/ CensusBack
  <2>1. UNCHANGED <<scope, running, imported, enabled, epoch, kept, jurs, history, inflight, day, edits>>
    BY <1>9 DEF CycleFails, Crash, CensusDown, CensusBack, Fault, desk
  <2>2. faults' \in 0 .. MaxFaults
    <3>1. faults' = faults \/ (faults < MaxFaults /\ faults' = faults + 1)
      BY <1>9 DEF CycleFails, Crash, CensusDown, CensusBack, Fault
    <3>2. faults \in 0 .. MaxFaults
      BY <1>1 DEF Rest
    <3> QED BY <3>1, <3>2
  <2>3. censusUp' \in BOOLEAN
    BY <1>1, <1>9, Zenon DEF CycleFails, Crash, CensusDown, CensusBack, Rest
  <2> QED BY <1>1, <2>1, <2>2, <2>3 DEF Rest
<1>10. CASE UNCHANGED vars
  BY <1>1, <1>2, <1>10 DEF vars, Rest, desk
<1> QED BY <1>3, <1>4, <1>5, <1>6, <1>7, <1>8, <1>9, <1>10 DEF Next

LEMMA TypedStep ==
    ASSUME Typed, Rooted, [Next]_vars
    PROVE  Typed'
<1>1. {j[1] : j \in DOMAIN targets'} \subseteq jurs'
  BY RowsStep DEF RowsIn
<1> QED BY <1>1, RowsStep, RestStep, RootedStep DEF RowsIn, Rest, Typed, TypeOK

LEMMA InitTyped == Init => Typed /\ Rooted
<1> SUFFICES ASSUME Init PROVE Typed /\ Rooted
  OBVIOUS
<1> USE SeedAssumption
<1>1. /\ orch \in [Orchestrators -> Processes]
      /\ \A o \in Orchestrators : orch[o] = Process
  BY Shapes DEF Init
<1>2. Rooted
  BY <1>1 DEF Rooted, Process
<1>3. scope \in ScopeRecords
  BY ScopeAssumption DEF Init
<1>4. TypeOK /\ epoch <= edits
  BY <1>3 DEF Init, TypeOK, Jurisdictions
<1> QED BY <1>1, <1>2, <1>4 DEF Typed

LEMMA TypedAlways == Spec => [](Typed /\ Rooted)
<1>1. Typed /\ Rooted /\ [Next]_vars => (Typed /\ Rooted)'
  BY TypedStep, RootedStep
<1> QED BY <1>1, InitTyped, PTL DEF Spec

\* Rows, history, sweeps and every process keep their types, and all that hangs from the table of
\* jurisdictions is in it: no target and no code source without its jurisdiction.
THEOREM TypeCorrect == Spec => []TypeOK
BY TypedAlways, PTL DEF Typed

-----------------------------------------------------------------------------
(* The marker of a loaded state.                                           *)

LEMMA LoadSteps ==
    ASSUME Typed, NEW o \in Orchestrators, Work(o) \/ ThrottleEnds(o), orch'[o].pc = "load"
    PROVE  Download(o) \/ InsertPlace(o)
<1>1. orch \in [Orchestrators -> Processes] /\ orch[o] \in Processes
  BY DEF Typed
<1>2. CASE Cycle(o)
  <2>1. /\ StartSeeding(orch[o]).pc = "census"
        /\ [orch[o] EXCEPT !.pc = "dispatch", !.throttle = "running"].pc = "dispatch"
    BY <1>1 DEF StartSeeding, Processes
  <2> QED BY <1>1, <1>2, <2>1 DEF Cycle
<1>12. CASE ThrottleEnds(o)
  BY <1>1, <1>12 DEF ThrottleEnds, Processes
<1>13. CASE AllLoaded(o)
  BY <1>1, <1>13 DEF AllLoaded, Processes
<1>3. CASE CheckState(o)
  BY <1>1, <1>3 DEF CheckState, Processes
<1>4. CASE InsertStateRow(o)
  BY <1>1, <1>4 DEF InsertStateRow, Processes
<1>5. CASE ReadQueue(o)
  BY <1>1, <1>5 DEF ReadQueue, Processes
<1>6. CASE ReadSeeds(o)
  BY <1>1, <1>6 DEF ReadSeeds, Processes
<1>7. CASE ReadHistory(o)
  BY <1>1, <1>7 DEF ReadHistory, Processes
<1>8. CASE InsertTarget(o)
  BY <1>1, <1>8 DEF InsertTarget, Processes
<1>9. CASE ParkOrphan(o)
  BY <1>1, <1>9 DEF ParkOrphan, Processes
<1>10. CASE Seeded(o)
  BY <1>1, <1>10 DEF Seeded, Resting, Process
<1>11. CASE Dispatch(o)
  BY <1>1, <1>11 DEF Dispatch, Resting, Process
<1> QED BY <1>2, <1>3, <1>4, <1>5, <1>6, <1>7, <1>8, <1>9, <1>10, <1>11, <1>12, <1>13
        DEF Work

LEMMA LoadingStep ==
    ASSUME Typed, Rooted, Loading, [Next]_vars
    PROVE  Loading'
<1> SUFFICES ASSUME NEW q \in Orchestrators, orch'[q].pc = "load",
                    NEW p \in Places, StateOf[p] = orch'[q].state
             PROVE  p \in jurs' \cup orch'[q].left
  BY DEF Loading
<1>1. orch \in [Orchestrators -> Processes] /\ jurs \subseteq jurs'
  BY RootedStep DEF Typed
<1>2. CASE orch'[q] = orch[q]
  BY <1>1, <1>2 DEF Loading
<1>3. CASE ~ \E o \in Orchestrators : Work(o) \/ ThrottleEnds(o)
  <2>1. Process.pc = "idle" /\ Resting(orch[q]).pc = "idle"
    BY DEF Resting, Process
  <2> QED BY <1>2, <1>3, <2>1, OthersForm
<1>4. ASSUME NEW o \in Orchestrators, Work(o) \/ ThrottleEnds(o), orch'[q] # orch[q]
      PROVE  p \in jurs' \cup orch'[q].left
  <2>1. o = q
    BY <1>1, <1>4, WorkForms DEF Moves
  <2>2. CASE Download(q)
    BY <1>1, <2>2 DEF Download, Resting, Process, Processes
  <2>3. CASE InsertPlace(q)
    <3>1. PICK k \in orch[q].left : jurs' = jurs \cup {k} /\ orch' = [orch EXCEPT ![q] = AfterInsert(orch[q], k)]
      BY <2>3 DEF InsertPlace
    <3>2. orch'[q] = [orch[q] EXCEPT !.left = @ \ {k}] /\ orch[q].pc = "load"
      BY <1>1, <2>3, <3>1 DEF AfterInsert, InsertPlace
    <3>3. orch'[q].state = orch[q].state /\ orch'[q].left = orch[q].left \ {k}
      BY <1>1, <3>2 DEF Processes
    <3> QED BY <3>1, <3>2, <3>3 DEF Loading
  <2> QED BY <1>4, <2>1, <2>2, <2>3, LoadSteps
<1> QED BY <1>2, <1>3, <1>4

LEMMA MarkerStep ==
    ASSUME Typed, Rooted, Loading, MarkerMeansLoaded, [Next]_vars
    PROVE  MarkerMeansLoaded'
<1> SUFFICES ASSUME NEW s \in States, s \in jurs', s \notin jurs, NEW p \in Places, StateOf[p] = s
             PROVE  p \in jurs'
  BY RootedStep DEF MarkerMeansLoaded
<1>1. orch \in [Orchestrators -> Processes]
  BY DEF Typed
<1>2. PICK o \in Orchestrators : Work(o) \/ ThrottleEnds(o)
  BY OthersForm
<1>3. CASE InsertStateRow(o)
  BY <1>3 DEF InsertStateRow, LastRow, Loading
<1>4. CASE InsertPlace(o)
  <2>1. PICK k \in orch[o].left : jurs' = jurs \cup {k}
    BY <1>4 DEF InsertPlace
  <2>2. k \in Places
    BY <1>1 DEF Processes
  <2> QED BY <2>1, <2>2, SeedAssumption
<1>5. CASE ReadQueue(o)
  BY <1>5, SeedAssumption DEF ReadQueue, Anchored
<1>6. CASE UNCHANGED jurs
  BY <1>6
<1> QED BY <1>2, <1>3, <1>4, <1>5, <1>6 DEF Work, ThrottleEnds, Cycle, CheckState, AllLoaded, Download,
           ReadSeeds, ReadHistory, InsertTarget, ParkOrphan, Seeded, Dispatch, NoRows

\* A state with its marker row has all its places, after any crash, failing cycle, outage or race
\* of two orchestrators: the places a loader has not inserted itself or found there are still left
\* when it comes to the marker.
THEOREM MarkerCorrect == Spec => []MarkerMeansLoaded
<1>1. Init => Loading /\ MarkerMeansLoaded
  BY SeedAssumption DEF Init, Loading, MarkerMeansLoaded, Process, Jurisdictions
<1>2. Typed /\ Rooted /\ Loading /\ MarkerMeansLoaded /\ [Next]_vars => (Loading /\ MarkerMeansLoaded)'
  BY LoadingStep, MarkerStep
<1> QED BY <1>1, <1>2, TypedAlways, PTL DEF Spec

-----------------------------------------------------------------------------
(* What was bought is not bought again.                                    *)

LEMMA InsertSteps ==
    ASSUME Typed, NEW o \in Orchestrators, Work(o) \/ ThrottleEnds(o), orch'[o].pc = "insert"
    PROVE  ReadHistory(o)
<1>1. orch \in [Orchestrators -> Processes] /\ orch[o] \in Processes
  BY DEF Typed
<1>2. CASE Cycle(o)
  <2>1. /\ StartSeeding(orch[o]).pc = "census"
        /\ [orch[o] EXCEPT !.pc = "dispatch", !.throttle = "running"].pc = "dispatch"
    BY <1>1 DEF StartSeeding, Processes
  <2> QED BY <1>1, <1>2, <2>1 DEF Cycle
<1>3. CASE ThrottleEnds(o)
  BY <1>1, <1>3 DEF ThrottleEnds, Processes
<1>4. CASE CheckState(o)
  BY <1>1, <1>4 DEF CheckState, Processes
<1>5. CASE AllLoaded(o)
  BY <1>1, <1>5 DEF AllLoaded, Processes
<1>6. CASE Download(o)
  BY <1>1, <1>6 DEF Download, Resting, Process, Processes
<1>7. CASE InsertPlace(o)
  BY <1>1, <1>7 DEF InsertPlace, AfterInsert, Processes
<1>8. CASE InsertStateRow(o)
  BY <1>1, <1>8 DEF InsertStateRow, Processes
<1>9. CASE ReadQueue(o)
  BY <1>1, <1>9 DEF ReadQueue, Processes
<1>10. CASE ReadSeeds(o)
  BY <1>1, <1>10 DEF ReadSeeds, Processes
<1>11. CASE InsertTarget(o)
  BY <1>1, <1>11 DEF InsertTarget, Processes
<1>12. CASE ParkOrphan(o)
  BY <1>1, <1>12 DEF ParkOrphan, Processes
<1>13. CASE Seeded(o)
  BY <1>1, <1>13 DEF Seeded, Resting, Process
<1>14. CASE Dispatch(o)
  BY <1>1, <1>14 DEF Dispatch, Resting, Process
<1> QED BY <1>2, <1>3, <1>4, <1>5, <1>6, <1>7, <1>8, <1>9, <1>10, <1>11, <1>12, <1>13, <1>14 DEF Work

\* The sweeps that were kept and need no repetition.
Bought == {h \in kept : h.result # "error"}

\* Neither a row nor a row to come is due within the interval after a sweep that was kept.
RowsSpared == \A h \in Bought : h.job \in DOMAIN targets => h.day + Interval <= targets[h.job].due
ComingSpared == \A h \in Bought, o \in Orchestrators :
                   orch[o].pc = "insert" /\ orch[o].job = h.job => h.day + Interval <= orch[o].due
SentDue == \A j \in DOMAIN targets : targets[j].sent # 0 => targets[j].due <= day
Past    == kept \subseteq history /\ \A h \in history : h.day <= day

Spared == Past /\ SentDue /\ RowsSpared /\ ComingSpared

\* What was kept is of the past, too.
LEMMA PastStep ==
    ASSUME Typed, Past, [Next]_vars
    PROVE  Past'
<1>1. /\ kept \subseteq history /\ history \subseteq HistoryRows /\ day \in 0 .. MaxDay
      /\ \A h \in history : h.day \in 0 .. MaxDay /\ h.day <= day
  BY DEF Past, Typed, TypeOK, HistoryRows
<1> USE SeedAssumption
<1>2. CASE \E o \in Orchestrators : Work(o) \/ ThrottleEnds(o)
  BY <1>1, <1>2, WorkQuiet DEF Past
<1>3. CASE SweepEnds
  <2>1. PICK f, result : history' = history \cup {[job |-> f.job, day |-> day, result |-> result]}
    BY <1>3 DEF SweepEnds
  <2>2. UNCHANGED <<kept, day>>
    BY <1>3 DEF SweepEnds, desk
  <2> QED BY <1>1, <2>1, <2>2 DEF Past
<1>4. CASE Import \/ SetEnabled \/ Switch \/ Reconfigure
  BY <1>1, <1>4 DEF Import, SetEnabled, Switch, Reconfigure, AtDesk, Edit, Past
<1>5. CASE Purge \/ DropQueue
  BY <1>1, <1>5 DEF Purge, DropQueue, AtDesk, Edit, Past
<1>6. CASE NextDay
  BY <1>1, <1>6 DEF NextDay, desk, Past
<1>7. CASE CycleFails \/ Crash \/ CensusDown \/ CensusBack \/ UNCHANGED vars
  BY <1>1, <1>7 DEF CycleFails, Crash, CensusDown, CensusBack, Fault, vars, desk, Past
<1> QED BY <1>2, <1>3, <1>4, <1>5, <1>6, <1>7 DEF Next

\* What was kept changes with the queue gone: with all processes idle, or to nothing.
LEMMA PurgedStep ==
    ASSUME Typed, [Next]_vars, Bought' # Bought
    PROVE  ComingSpared' /\ RowsSpared' /\ DOMAIN targets' = {}
<1>1. CASE Purge
  BY <1>1 DEF Purge, Bought, ComingSpared, RowsSpared
<1>2. CASE DropQueue
  BY <1>2 DEF DropQueue, AtDesk, ComingSpared, RowsSpared
<1>3. CASE ~Purge /\ ~DropQueue
  <2>1. UNCHANGED kept
    BY <1>3, WorkQuiet DEF Next, SweepEnds, Import, SetEnabled, Switch, Reconfigure, AtDesk, Edit,
                           NextDay, CycleFails, Crash, CensusDown, CensusBack, Fault, desk, vars
  <2> QED BY <2>1 DEF Bought
<1> QED BY <1>1, <1>2, <1>3

LEMMA DayGrows ==
    ASSUME Typed, [Next]_vars
    PROVE  day \in Nat /\ day' \in Nat /\ day <= day'
<1>1. day \in Nat
  BY SeedAssumption DEF Typed, TypeOK
<1>2. day' = day \/ day' = day + 1
  BY WorkQuiet DEF Next, SweepEnds, Import, SetEnabled, Switch, Purge, DropQueue, Reconfigure, AtDesk, Edit,
                   NextDay, CycleFails, Crash, CensusDown, CensusBack, Fault, vars
<1> QED BY <1>1, <1>2

LEMMA ComingStep ==
    ASSUME Typed, Rooted, Spared, [Next]_vars, Bought' = Bought
    PROVE  ComingSpared'
<1> SUFFICES ASSUME NEW h \in Bought, NEW q \in Orchestrators, orch'[q].pc = "insert", orch'[q].job = h.job
             PROVE  h.day + Interval <= orch'[q].due
  BY DEF ComingSpared
<1>1. orch \in [Orchestrators -> Processes] /\ h \in history /\ h.result # "error"
  BY DEF Typed, Spared, Past, Bought
<1>2. CASE orch'[q] = orch[q]
  BY <1>2 DEF Spared, ComingSpared
<1>3. CASE ~ \E o \in Orchestrators : Work(o) \/ ThrottleEnds(o)
  <2>1. Process.pc = "idle" /\ Resting(orch[q]).pc = "idle"
    BY DEF Resting, Process
  <2> QED BY <1>2, <1>3, <2>1, OthersForm
<1>4. ASSUME NEW o \in Orchestrators, Work(o) \/ ThrottleEnds(o), orch'[q] # orch[q]
      PROVE  h.day + Interval <= orch'[q].due
  <2>1. o = q
    BY <1>1, <1>4, WorkForms DEF Moves
  <2>2. ReadHistory(q)
    BY <1>4, <2>1, InsertSteps
  <2>3. PICK j : orch' = [orch EXCEPT ![q] = [orch[q] EXCEPT !.pc = "insert", !.job = j, !.due = BackfillDue(j)]]
    BY <2>2 DEF ReadHistory
  <2>4. orch'[q].job = j /\ orch'[q].due = BackfillDue(j)
    BY <1>1, <2>3 DEF Processes
  <2> QED BY <1>1, <2>4, BackfillSpares DEF Typed
<1> QED BY <1>2, <1>3, <1>4

LEMMA QueueStep ==
    ASSUME Typed, Rooted, Spared, [Next]_vars, Bought' = Bought
    PROVE  SentDue' /\ RowsSpared'
<1>1. /\ \A j \in DOMAIN targets : targets[j] \in TargetRows
      /\ SentDue /\ RowsSpared /\ orch \in [Orchestrators -> Processes]
      /\ day \in Nat /\ day' \in Nat /\ day <= day'
      /\ \A h \in Bought : h.day \in Nat /\ h.day <= day
  BY DayGrows DEF Typed, TypeOK, Spared, Past, Bought, HistoryRows
<1>2. \A j \in DOMAIN targets : targets[j].due \in Nat /\ targets[j].sent \in Nat
  BY <1>1, SeedAssumption DEF TargetRows, Days
<1>3. CASE UNCHANGED targets
  BY <1>1, <1>2, <1>3 DEF SentDue, RowsSpared
<1>4. CASE DOMAIN targets' = {}
  BY <1>4 DEF SentDue, RowsSpared
<1>5. CASE SweepEnds
  <2>1. PICK f \in inflight, result \in {"done", "error"} :
          targets' = [j \in DOMAIN targets |->
               IF j = f.job /\ targets[j].born = f.born /\ targets[j].sent = f.sent
               THEN [targets[j] EXCEPT !.sent = 0, !.due = day + IF result = "error" THEN 1 ELSE Interval]
               ELSE targets[j]]
    BY <1>5 DEF SweepEnds
  <2>2. f.sent # 0
    BY DEF Typed, TypeOK, Sweeps
  <2> DEFINE late == day + IF result = "error" THEN 1 ELSE Interval
  <2>3. late \in Nat /\ day <= late
    BY <1>1, SeedAssumption
  <2>4. \A j \in DOMAIN targets : LET r == [targets[j] EXCEPT !.sent = 0, !.due = late]
                                  IN  r.sent = 0 /\ r.due = late
    BY <1>1 DEF TargetRows
  <2> HIDE DEF late
  <2>5. ASSUME NEW j \in DOMAIN targets
        PROVE  \/ targets'[j] = targets[j]
               \/ targets[j].sent # 0 /\ targets'[j].sent = 0 /\ targets'[j].due = late
    BY <2>1, <2>2, <2>4 DEF late
  <2>6. DOMAIN targets' = DOMAIN targets
    BY <2>1
  <2> QED BY <1>1, <1>2, <2>3, <2>5, <2>6, SeedAssumption DEF SentDue, RowsSpared
<1>6. ASSUME NEW o \in Orchestrators, InsertTarget(o) PROVE SentDue' /\ RowsSpared'
  <2>1. /\ orch[o].pc = "insert"
        /\ targets' = [k \in DOMAIN targets \cup {orch[o].job} |->
                         IF k \in DOMAIN targets THEN targets[k]
                         ELSE [born |-> epoch, due |-> orch[o].due, sent |-> 0]]
    BY <1>6 DEF InsertTarget
  <2>2. \A h \in Bought : orch[o].job = h.job => h.day + Interval <= orch[o].due
    BY <2>1 DEF Spared, ComingSpared
  <2> QED BY <1>1, <1>2, <2>1, <2>2, SeedAssumption DEF SentDue, RowsSpared
<1>7. \A r \in TargetRows : Parked(r).sent = 0 /\ Parked(r).due = day + Interval
  BY DEF Parked, TargetRows
<1>8. ASSUME NEW o \in Orchestrators, ParkOrphan(o) PROVE SentDue' /\ RowsSpared'
  <2>1. /\ DOMAIN targets' = DOMAIN targets
        /\ \A j \in DOMAIN targets : targets'[j] \in {targets[j], Parked(targets[j])}
    BY <1>8 DEF ParkOrphan
  <2> QED BY <1>1, <1>2, <1>7, <2>1, SeedAssumption DEF SentDue, RowsSpared
<1>9. ASSUME NEW o \in Orchestrators, Dispatch(o) PROVE SentDue' /\ RowsSpared'
  <2>1. /\ DOMAIN targets' = DOMAIN targets
        /\ \A j \in DOMAIN targets :
              \/ targets'[j] \in {targets[j], Parked(targets[j])}
              \/ targets[j].due <= day /\ targets'[j] = [targets[j] EXCEPT !.sent = day + 1]
    BY <1>9 DEF Dispatch, Due
  <2>2. \A r \in TargetRows : [r EXCEPT !.sent = day + 1].due = r.due
    BY DEF TargetRows
  <2>3. ASSUME NEW j \in DOMAIN targets
        PROVE  \/ targets'[j] = targets[j]
               \/ targets'[j].sent = 0 /\ targets'[j].due = day + Interval
               \/ targets'[j].due = targets[j].due /\ targets[j].due <= day
    BY <1>1, <1>7, <2>1, <2>2
  <2> QED BY <1>1, <1>2, <2>1, <2>3, SeedAssumption DEF SentDue, RowsSpared
<1> QED BY <1>3, <1>4, <1>5, <1>6, <1>8, <1>9, QueueChange

LEMMA SparedAlways == Spec => [](Typed /\ Rooted /\ Spared)
<1>1. Init => Typed /\ Rooted /\ Spared
  <2>1. Init => Spared
    BY DEF Init, Spared, Past, SentDue, RowsSpared, ComingSpared, Bought
  <2> QED BY <2>1, InitTyped
<1>2. ASSUME Typed, Rooted, Spared, [Next]_vars PROVE Spared'
  <2>1. Past'
    BY <1>2, PastStep DEF Spared
  <2>2. CASE Bought' = Bought
    BY <1>2, <2>1, <2>2, ComingStep, QueueStep DEF Spared
  <2>3. CASE Bought' # Bought
    <3>1. /\ ComingSpared' /\ RowsSpared'
          /\ DOMAIN targets' = {}
      BY <1>2, <2>3, PurgedStep
    <3> QED BY <2>1, <3>1 DEF SentDue, Spared
  <2> QED BY <2>2, <2>3
<1>3. Typed /\ Rooted /\ Spared /\ [Next]_vars => (Typed /\ Rooted /\ Spared)'
  BY <1>2, TypedStep, RootedStep
<1> QED BY <1>1, <1>3, PTL DEF Spec

\* A sweep goes out in a dispatch of a row that is due.
LEMMA SendStep ==
    ASSUME Typed, Rooted, Spared, [Next]_vars, NEW h \in Bought, Sends(h.job)
    PROVE  h.day + Interval <= day
<1> DEFINE j == h.job
<1>1. /\ \A k \in DOMAIN targets : targets[k] \in TargetRows
      /\ RowsSpared /\ day \in Nat
      /\ h.day \in Nat /\ h.day <= day
  BY DayGrows DEF Typed, TypeOK, Spared, Past, Bought, HistoryRows
<1>2. \A k \in DOMAIN targets : targets[k].due \in Nat
  BY <1>1, SeedAssumption DEF TargetRows, Days
<1>3. /\ j \in DOMAIN targets' /\ targets'[j].sent # 0
      /\ j \in DOMAIN targets => targets[j].sent # targets'[j].sent
  BY DEF Sends
<1> HIDE DEF j
<1>4. PICK o \in Orchestrators : Dispatch(o)
  <2>1. \A r \in TargetRows : Parked(r).sent = 0
    BY DEF Parked, TargetRows
  <2>2. ASSUME NEW o \in Orchestrators, InsertTarget(o) PROVE FALSE
    BY <1>3, <2>2 DEF InsertTarget
  <2>3. ASSUME NEW o \in Orchestrators, ParkOrphan(o) PROVE FALSE
    BY <1>1, <1>3, <2>1, <2>3 DEF ParkOrphan
  <2>4. CASE SweepEnds
    <3>1. /\ DOMAIN targets' = DOMAIN targets
          /\ \A k \in DOMAIN targets : \/ targets'[k] = targets[k]
                                       \/ \E d : targets'[k] = [targets[k] EXCEPT !.sent = 0, !.due = d]
      BY <2>4 DEF SweepEnds
    <3>2. ASSUME NEW k \in DOMAIN targets, targets'[k] # targets[k] PROVE targets'[k].sent = 0
      <4>1. PICK d : targets'[k] = [targets[k] EXCEPT !.sent = 0, !.due = d]
        BY <3>1, <3>2
      <4> QED BY <1>1, <4>1 DEF TargetRows
    <3> QED BY <1>3, <3>1, <3>2
  <2> QED BY <1>3, <2>2, <2>3, <2>4, QueueChange
<1>5. j \in DOMAIN targets /\ Due(j)
  <2>1. \A r \in TargetRows : Parked(r).sent = 0
    BY DEF Parked, TargetRows
  <2>2. /\ DOMAIN targets' = DOMAIN targets
        /\ \A k \in DOMAIN targets : targets'[k] \in {targets[k], Parked(targets[k])} \/ Due(k)
    BY <1>4 DEF Dispatch
  <2> QED BY <1>1, <1>3, <2>1, <2>2
<1>6. h.day + Interval <= targets[j].due /\ targets[j].due <= day
  BY <1>1, <1>5 DEF RowsSpared, Due, j
<1> QED BY <1>1, <1>2, <1>5, <1>6, SeedAssumption

\* A queue rebuilt from the history buys nothing again within the interval, whatever crashes in
\* between and however seeding, dispatch and late workers interleave.
THEOREM NothingRepurchased == Spec => NeverRepurchased
<1> DEFINE Buys == \A h \in kept : Sends(h.job) /\ h.result # "error" => h.day + Interval <= day
<1>1. Typed /\ Rooted /\ Spared /\ [Next]_vars => [Buys]_vars
  BY SendStep DEF Bought
<1>2. [][Buys]_vars => NeverRepurchased
  BY PTL DEF NeverRepurchased
<1> QED BY <1>1, <1>2, SparedAlways, PTL DEF Spec
===============================================================================
