----------------------- MODULE SweepRefinementProofs -----------------------
(***************************************************************************)
(* The sweep cycle implements the durable cursor, for every value of the   *)
(* constants: stamping is a Dispatch, the first insert of a history row is *)
(* an Answer, a finalize that passes its gate is a Resolve, and every      *)
(* other step -- messages, Redis, crashes, timeouts -- is a stutter.       *)
(***************************************************************************)
EXTENDS SweepDispatchProofs

MapCursor == [t \in Targets |-> row[t].dispatch_id]
MapAsked == [d \in Dispatches |-> IF d <= issued THEN 0 .. count[d] - 1 ELSE {}]
MapAnswered == {<<h.d, h.seq>> : h \in history}

\* A step that leaves the rows' dispatches, the issued dispatches and the history alone.
LEMMA StutterStep ==
    ASSUME UNCHANGED <<issued, count, history>>,
           \A t \in Targets : row'[t].dispatch_id = row[t].dispatch_id
    PROVE  UNCHANGED Cursor!vars
BY DEF Cursor!vars

LEMMA StampRefines ==
    ASSUME TypeOK, Formed, NEW o \in Orchestrators, Stamp(o),
           StampMatches(o, First(orch[o].todo))
    PROVE  Cursor!Next
<1> DEFINE s == orch[o]
           t == First(s.todo)
           d == issued + 1
<1>1. t \in Targets /\ issued \in Nat /\ MaxDispatch \in Nat /\ MaxQueries \in Nat
  <2>1. s.todo \in SUBSET Targets /\ s.todo # {}
    BY DEF Stamp, TypeOK, Formed, OrchStates
  <2> QED BY <2>1, FirstInSet, ParamAssumption DEF TypeOK
<1>2. PICK n \in 1 .. MaxQueries : count' = [e \in 1 .. d |-> IF e = d THEN n ELSE count[e]]
  BY DEF Stamp
<1>3. /\ issued' = d /\ issued < MaxDispatch /\ history' = history
      /\ row' = [row EXCEPT ![t] = [row[t] EXCEPT !.dispatch_id = d, !.stale = FALSE]]
  BY DEF Stamp
<1>4. d \in Dispatches
  BY <1>1, <1>3 DEF Dispatches
<1>5. MapAsked[d] = {}
  BY <1>1, <1>4 DEF MapAsked
<1>6. MapCursor' = [MapCursor EXCEPT ![t] = d]
  <2>1. row'[t].dispatch_id = d /\ \A u \in Targets : u # t => row'[u] = row[u]
    BY <1>1, <1>3 DEF TypeOK, Rows
  <2> QED BY <2>1 DEF MapCursor
<1>7. MapAsked' = [MapAsked EXCEPT ![d] = 0 .. n - 1]
  <2>1. \A e \in Dispatches : (IF e <= issued' THEN 0 .. count'[e] - 1 ELSE {})
                               = IF e = d THEN 0 .. n - 1 ELSE MapAsked[e]
    BY <1>1, <1>2, <1>3 DEF MapAsked, Dispatches
  <2> QED BY <2>1 DEF MapAsked
<1>8. MapAnswered' = MapAnswered
  BY <1>3 DEF MapAnswered
<1>9. PICK u \in Targets, e \in Dispatches : u = t /\ e = d
  BY <1>1, <1>4
<1>10. Cursor!Dispatch(u, e)
  BY <1>5, <1>6, <1>7, <1>8, <1>9 DEF Cursor!Dispatch, MapCursor, MapAsked, MapAnswered
<1> QED BY <1>10 DEF Cursor!Next, Cursor!Dispatches, Dispatches

LEMMA InsertRefines ==
    ASSUME TypeOK, Formed, NEW w \in Workers, InsertHistory(w),
           FirstInsert(worker[w].d, worker[w].seq)
    PROVE  Cursor!Next
<1> DEFINE s == worker[w]
           h == [d |-> s.d, seq |-> s.seq, result |-> s.result]
<1>1. /\ s.d \in 1 .. issued /\ s.seq \in 0 .. count[s.d] - 1 /\ issued \in 0 .. MaxDispatch
      /\ MaxDispatch \in Nat /\ count[s.d] \in 1 .. MaxQueries /\ MaxQueries \in Nat
  BY ParamAssumption DEF InsertHistory, TypeOK, Formed, Issued
<1>2. s.d \in Dispatches /\ s.seq \in 0 .. MaxQueries - 1 /\ s.seq \in MapAsked[s.d]
  BY <1>1 DEF Dispatches, MapAsked
<1>3. history' = history \cup {h} /\ UNCHANGED <<row, issued, count>>
  BY DEF InsertHistory, store
<1>4. <<s.d, s.seq>> \notin MapAnswered
  BY DEF MapAnswered, FirstInsert, HasHistory
<1>5. MapAnswered' = MapAnswered \cup {<<s.d, s.seq>>}
  <2>1. h.d = s.d /\ h.seq = s.seq
    OBVIOUS
  <2> HIDE DEF h
  <2>2. ASSUME NEW G, NEW g
        PROVE  {<<x.d, x.seq>> : x \in G \cup {g}}
                  = {<<x.d, x.seq>> : x \in G} \cup {<<g.d, g.seq>>}
    BY Zenon
  <2>3. MapAnswered' = {<<x.d, x.seq>> : x \in history \cup {h}}
    BY <1>3 DEF MapAnswered
  <2> QED BY <2>1, <2>2, <2>3 DEF MapAnswered
<1>6. PICK d \in Dispatches, q \in 0 .. MaxQueries - 1 : d = s.d /\ q = s.seq
  BY <1>2
<1>7. Cursor!Answer(d, q)
  BY <1>2, <1>3, <1>4, <1>5, <1>6 DEF Cursor!Answer, MapAsked, MapAnswered
<1> QED BY <1>7 DEF Cursor!Next, Cursor!Dispatches, Dispatches

LEMMA FinalizeRefines ==
    ASSUME TypeOK, Formed, Safe, NEW w \in Workers, Finalize(w), StillCurrent(worker[w].d)
    PROVE  Cursor!Next
<1> DEFINE s == worker[w]
           t == owner[s.d]
           k == [dispatch_id |-> NoDispatch, due |-> FALSE, stale |-> FALSE,
                 last_result |-> s.verdict]
<1>1. s.pc = "finalize" /\ s.d \in 1 .. issued /\ issued \in 0 .. MaxDispatch /\ MaxDispatch \in Nat
  BY ParamAssumption DEF Finalize, TypeOK, Formed, Issued
<1>2. t \in Targets /\ s.d \in Dispatches
  BY <1>1 DEF TypeOK, Dispatches
<1>3. row' = [row EXCEPT ![t] = k] /\ UNCHANGED <<issued, count, history>> /\ row[t].dispatch_id = s.d
  BY DEF Finalize, StillCurrent
<1>4. AllAnswered(s.d)
  BY <1>1, <1>2 DEF Safe, VerdictCounted
<1>5. MapCursor[t] = s.d /\ s.d # 0
  BY <1>1, <1>2, <1>3 DEF MapCursor
<1>6. \A q \in MapAsked[s.d] : <<s.d, q>> \in MapAnswered
  BY <1>1, <1>2, <1>4 DEF MapAsked, MapAnswered, AllAnswered, HasHistory
<1>7. MapCursor' = [MapCursor EXCEPT ![t] = 0]
  BY <1>2, <1>3 DEF MapCursor, TypeOK, NoDispatch
<1>8. PICK u \in Targets : u = t
  BY <1>2
<1>9. Cursor!Resolve(u)
  BY <1>3, <1>5, <1>6, <1>7, <1>8 DEF Cursor!Resolve, MapCursor, MapAsked, MapAnswered
<1> QED BY <1>9 DEF Cursor!Next

LEMMA CursorStep ==
    ASSUME TypeOK, Formed, Safe, [Next]_vars
    PROVE  Cursor!Next \/ UNCHANGED Cursor!vars
<1>1. ASSUME UNCHANGED <<issued, count, history, row>>
      PROVE  UNCHANGED Cursor!vars
  BY <1>1, StutterStep
<1>2. CASE \E o \in Orchestrators : Stamp(o)
  <2>1. PICK o \in Orchestrators : Stamp(o)
    BY <1>2
  <2>2. CASE ~StampMatches(o, First(orch[o].todo))
    BY <1>1, <2>1, <2>2 DEF Stamp, store
  <2> QED BY <2>1, <2>2, StampRefines
<1>3. CASE \E w \in Workers : InsertHistory(w)
  <2>1. PICK w \in Workers : InsertHistory(w)
    BY <1>3
  <2>2. CASE ~FirstInsert(worker[w].d, worker[w].seq)
    BY <1>1, <2>1, <2>2 DEF InsertHistory, store
  <2> QED BY <2>1, <2>2, InsertRefines
<1>4. CASE \E w \in Workers : Finalize(w)
  <2>1. PICK w \in Workers : Finalize(w)
    BY <1>4
  <2>2. CASE ~StillCurrent(worker[w].d)
    BY <1>1, <2>1, <2>2 DEF Finalize
  <2> QED BY <2>1, <2>2, FinalizeRefines
<1>5. CASE \E t \in Targets : TimeoutDead(t) \/ TimeoutLive(t) \/ FallDue(t)
  <2>1. PICK t \in Targets : TimeoutDead(t) \/ TimeoutLive(t) \/ FallDue(t)
    BY <1>5
  <2>2. /\ [row[t] EXCEPT !.stale = TRUE].dispatch_id = row[t].dispatch_id
        /\ [row[t] EXCEPT !.due = TRUE].dispatch_id = row[t].dispatch_id
    BY DEF TypeOK, Rows
  <2>3. \/ row' = [row EXCEPT ![t] = [row[t] EXCEPT !.stale = TRUE]]
        \/ row' = [row EXCEPT ![t] = [row[t] EXCEPT !.due = TRUE]]
    BY <2>1 DEF TimeoutDead, TimeoutLive, FallDue, TypeOK
  <2>4. \A u \in Targets : row'[u].dispatch_id = row[u].dispatch_id
    BY <2>2, <2>3 DEF TypeOK
  <2>5. UNCHANGED <<issued, count, history>>
    BY <2>1 DEF TimeoutDead, TimeoutLive, FallDue
  <2> QED BY <2>4, <2>5, StutterStep
<1>6. CASE \E o \in Orchestrators : \/ Select(o) \/ SkipGeneration(o) \/ Send(o)
                                    \/ SendFails(o) \/ OrchestratorCrash(o)
  BY <1>1, <1>6 DEF Select, SkipGeneration, Send, SendFails, OrchestratorCrash, store
<1>7. CASE \E w \in Workers : \/ Receive(w) \/ Gate(w) \/ Search(w) \/ Defer(w)
                              \/ Count(w) \/ Delete(w) \/ WorkerCrash(w)
  BY <1>1, <1>7 DEF Receive, Gate, Search, Defer, Count, Delete, WorkerCrash, store
<1>8. CASE Redeliver \/ RedeliverEarly \/ DeadLetter \/ CounterLost
  BY <1>1, <1>8 DEF Redeliver, RedeliverEarly, DeadLetter, CounterLost, store
<1>9. CASE Stop \/ Start
  BY <1>1, <1>9, Zenon DEF Stop, Start, store
<1>10. CASE UNCHANGED vars
  BY <1>1, <1>10 DEF vars, store
<1> QED BY <1>2, <1>3, <1>4, <1>5, <1>6, <1>7, <1>8, <1>9, <1>10 DEF Next

LEMMA CursorInit == Init => Cursor!Init
<1> SUFFICES ASSUME Init PROVE Cursor!Init
  OBVIOUS
<1>1. MapCursor = [t \in Targets |-> 0]
  BY DEF Init, MapCursor, NoDispatch
<1>2. MapAsked = [d \in Dispatches |-> {}]
  <2>1. \A d \in Dispatches : ~(d <= issued)
    BY ParamAssumption DEF Init, Dispatches
  <2> QED BY <2>1 DEF MapAsked
<1>3. MapAnswered = {}
  BY DEF Init, MapAnswered
<1> QED BY <1>1, <1>2, <1>3 DEF Cursor!Init, Cursor!Dispatches, Dispatches, MapCursor, MapAsked,
             MapAnswered

\* The whole sweep cycle -- queue, workers, Redis counters, crashes and redeliveries included
\* -- behaves like the durable cursor: a dispatch is let go of by being replaced or by having
\* every query answered, and no query is answered twice.
THEOREM SweepImplementsCursor == Spec => ImplementsCursor
<1>1. Init => Cursor!Init
  BY CursorInit
<1>2. TypeOK /\ Formed /\ Safe /\ [Next]_vars => [Cursor!Next]_(Cursor!vars)
  BY CursorStep
<1> QED BY <1>1, <1>2, SafeAlways, PTL DEF Spec, ImplementsCursor, Cursor!Spec
=============================================================================
