------------------------- MODULE SweepDispatchProofs -------------------------
(***************************************************************************)
(* Theorems about SweepDispatch, for every number of targets,              *)
(* orchestrators, workers, queries, dispatches and faults.                 *)
(***************************************************************************)
EXTENDS SweepDispatch, FiniteSetTheorems, WellFoundedInduction, TLAPS

-----------------------------------------------------------------------------
(* Facts about sets and tallies.                                           *)

\* Ranks are distinct numbers, so a batch has a first target.
LEMMA FirstInSet ==
    ASSUME NEW S \in SUBSET Targets, S # {}
    PROVE  First(S) \in S
<1> DEFINE R == {Rank[t] : t \in S}
<1>1. R \subseteq Nat /\ R # {}
  BY ParamAssumption
<1>2. PICK r \in R : \A q \in R : ~(<<q, r>> \in OpToRel(<, Nat))
  BY <1>1, NatLessThanWellFounded, WFMin
<1>3. PICK t \in S : r = Rank[t]
  OBVIOUS
<1>4. \A u \in S : Rank[t] <= Rank[u]
  <2> SUFFICES ASSUME NEW u \in S PROVE Rank[t] <= Rank[u]
    OBVIOUS
  <2>1. Rank[u] \in R /\ Rank[u] \in Nat /\ r \in Nat
    BY <1>1
  <2>2. ~(Rank[u] < r)
    BY <2>1, <1>2 DEF OpToRel
  <2> QED BY <2>1, <2>2, <1>3
<1> QED BY <1>3, <1>4 DEF First

\* A row added to a finite set of rows is one more increment for its dispatch.
LEMMA TallyAdd ==
    ASSUME NEW S, IsFiniteSet(S), NEW h \in HistoryRows, h \notin S
    PROVE  Tally(S \cup {h}, h.d) = Bump(Tally(S, h.d), h.result)
<1> DEFINE A == RowsOf(S, h.d)
           C == {k \in A : Staged(k.result)}
           E == {k \in A : Errored(k.result)}
           A2 == RowsOf(S \cup {h}, h.d)
           C2 == {k \in A2 : Staged(k.result)}
           E2 == {k \in A2 : Errored(k.result)}
<1>1. IsFiniteSet(A) /\ IsFiniteSet(C) /\ IsFiniteSet(E)
  <2>1. A \in SUBSET S /\ C \in SUBSET S /\ E \in SUBSET S
    BY DEF RowsOf
  <2> QED BY <2>1, FS_Subset
<1>2. h \notin A /\ h \notin C /\ h \notin E
  BY DEF RowsOf
<1>3. A2 = A \cup {h}
  BY DEF RowsOf
<1>4. /\ C2 = IF Staged(h.result) THEN C \cup {h} ELSE C
      /\ E2 = IF Errored(h.result) THEN E \cup {h} ELSE E
  BY <1>3
<1>5. /\ Tally(S, h.d) = [done |-> Cardinality(A), candidates |-> Cardinality(C),
                          errors |-> Cardinality(E)]
      /\ Tally(S \cup {h}, h.d) = [done |-> Cardinality(A2), candidates |-> Cardinality(C2),
                                   errors |-> Cardinality(E2)]
  BY DEF Tally
<1> HIDE DEF A, C, E, A2, C2, E2
<1>6. Cardinality(A) \in Nat /\ Cardinality(C) \in Nat /\ Cardinality(E) \in Nat
  BY <1>1, FS_CardinalityType
<1>7. Cardinality(A2) = Cardinality(A) + 1
  BY <1>1, <1>2, <1>3, FS_AddElement
<1>8. Cardinality(C2) = Cardinality(C) + (IF Staged(h.result) THEN 1 ELSE 0)
  <2>1. CASE Staged(h.result)
    BY <2>1, <1>1, <1>2, <1>4, FS_AddElement
  <2>2. CASE ~Staged(h.result)
    BY <2>2, <1>4, <1>6
  <2> QED BY <2>1, <2>2
<1>9. Cardinality(E2) = Cardinality(E) + (IF Errored(h.result) THEN 1 ELSE 0)
  <2>1. CASE Errored(h.result)
    BY <2>1, <1>1, <1>2, <1>4, FS_AddElement
  <2>2. CASE ~Errored(h.result)
    BY <2>2, <1>4, <1>6
  <2> QED BY <2>1, <2>2
<1> QED BY <1>5, <1>7, <1>8, <1>9 DEF Bump

\* Rows of other dispatches do not change a tally.
LEMMA TallyOther ==
    ASSUME NEW S, NEW T, NEW d, RowsOf(S, d) = RowsOf(T, d)
    PROVE  Tally(S, d) = Tally(T, d)
BY DEF Tally

\* Counts are numbers, and a dispatch without rows has none.
LEMMA TallyType ==
    ASSUME NEW S, IsFiniteSet(S), NEW d
    PROVE  /\ Tally(S, d) \in Counters
           /\ RowsOf(S, d) = {} => Tally(S, d) = NoCounts
<1> DEFINE A == RowsOf(S, d)
           C == {k \in A : Staged(k.result)}
           E == {k \in A : Errored(k.result)}
<1>1. IsFiniteSet(A) /\ IsFiniteSet(C) /\ IsFiniteSet(E)
  <2>1. A \in SUBSET S /\ C \in SUBSET S /\ E \in SUBSET S
    BY DEF RowsOf
  <2> QED BY <2>1, FS_Subset
<1>2. Cardinality(A) \in Nat /\ Cardinality(C) \in Nat /\ Cardinality(E) \in Nat
  BY <1>1, FS_CardinalityType
<1>3. A = {} => Cardinality(A) = 0 /\ Cardinality(C) = 0 /\ Cardinality(E) = 0
  BY FS_EmptySet
<1> QED BY <1>2, <1>3 DEF Tally, Counters, NoCounts

\* If n rows of a dispatch with n queries are counted, every row is, and every query has one.
LEMMA CountedAll ==
    ASSUME NEW H, IsFiniteSet(H), NEW K \in SUBSET H, NEW n \in Nat,
           \A h \in H : h.seq \in 0 .. n - 1,
           \A h, k \in H : h.seq = k.seq => h = k,
           Cardinality(K) = n
    PROVE  K = H /\ \A q \in 0 .. n - 1 : \E h \in H : h.seq = q
<1> DEFINE f == [h \in H |-> h.seq]
<1>1. f \in Injection(H, 0 .. n - 1)
  BY DEF Injection, IsInjective
<1>2. IsFiniteSet(0 .. n - 1) /\ Cardinality(0 .. n - 1) = n
  <2>1. 0 \in Int /\ n - 1 \in Int
    OBVIOUS
  <2>2. /\ IsFiniteSet(0 .. n - 1)
        /\ Cardinality(0 .. n - 1) = IF 0 > n - 1 THEN 0 ELSE (n - 1) - 0 + 1
    BY <2>1, FS_Interval
  <2> QED BY <2>2
<1>3. /\ Cardinality(H) <= n
      /\ Cardinality(H) = n => f \in Surjection(H, 0 .. n - 1)
  BY <1>1, <1>2, FS_Injection
<1>4. Cardinality(H) \in Nat /\ n <= Cardinality(H) /\ (Cardinality(H) = n => K = H)
  BY FS_Subset, FS_CardinalityType
<1>5. Cardinality(H) = n
  BY <1>3, <1>4
<1>6. f \in Surjection(H, 0 .. n - 1)
  BY <1>3, <1>5
<1> QED BY <1>4, <1>5, <1>6 DEF Surjection

-----------------------------------------------------------------------------
(* The inductive invariant.                                                *)

Issued(d, q) == d \in 1 .. issued /\ q \in 0 .. count[d] - 1
Mine(w) == [d |-> worker[w].d, seq |-> worker[w].seq, result |-> worker[w].result]

\* Whatever names a query names one that was issued, a worker past its search has a result,
\* and a busy orchestrator has work.
Formed == /\ \A m \in msgs : Issued(m.d, m.seq)
          /\ \A h \in history : Issued(h.d, h.seq)
          /\ \A w \in Workers : worker[w].pc # "idle" => Issued(worker[w].d, worker[w].seq)
          /\ \A w \in Workers : worker[w].pc \in {"history", "count"} => worker[w].result \in Answers
          /\ \A o \in Orchestrators :
                /\ orch[o].pc # "idle" => orch[o].todo # {}
                /\ orch[o].pc = "send" => Issued(orch[o].d, orch[o].next)

\* A worker between its history row and its increment: the row is there and not counted yet,
\* and nobody else is about to count it.
Counting == /\ IsFiniteSet(history)
            /\ \A w \in Workers : worker[w].pc = "count" => Mine(w) \in history \ counted
            /\ \A v, w \in Workers :
                  worker[v].pc = "count" /\ worker[w].pc = "count" /\ v # w => Mine(v) # Mine(w)

\* While a worker is about to finalize a dispatch, nobody is about to count for it.
Quiet == \A v, w \in Workers : worker[w].pc = "finalize" /\ worker[v].pc = "count" =>
             worker[v].d # worker[w].d

\* VerdictSound in terms of the counts: they are those of the whole history of the dispatch.
VerdictCounted ==
    \A w \in Workers, d \in Dispatches : worker[w].pc = "finalize" /\ worker[w].d = d =>
        /\ AllAnswered(d)
        /\ Tally(history, d).done = count[d]
        /\ worker[w].verdict = Aggregate(Tally(history, d), count[d])
        /\ \A v \in Workers \ {w} : worker[v].pc = "finalize" => worker[v].d # d

\* The unique index: a query of a dispatch has one history row.
OneRowEach == \A h, k \in history : h.d = k.d /\ h.seq = k.seq => h = k

CountInv == OneRowEach /\ Counting /\ CounterExact
Safe == CountInv /\ VerdictCounted /\ Quiet

-----------------------------------------------------------------------------
(* Types.                                                                  *)

\* What remains of an orchestrator's cycle is an orchestrator's state, with work or idle.
LEMMA AfterType ==
    ASSUME NEW s \in OrchStates, s.todo # {}
    PROVE  /\ After(s) \in OrchStates
           /\ After(s).pc # "send"
           /\ After(s).pc # "idle" => After(s).todo # {}
<1>1. s.todo \in SUBSET Targets
  BY DEF OrchStates
<1>2. IdleOrch \in OrchStates /\ IdleOrch.pc = "idle"
  BY ParamAssumption DEF IdleOrch, OrchStates, NoDispatch
<1>3. CASE s.todo \ {First(s.todo)} = {}
  BY <1>2, <1>3 DEF After
<1>4. CASE s.todo \ {First(s.todo)} # {}
  <2> DEFINE r == [s EXCEPT !.pc = "stamp", !.todo = s.todo \ {First(s.todo)}, !.d = 0, !.next = 0]
  <2>1. After(s) = r
    BY <1>4 DEF After
  <2>2. 0 \in 0 .. MaxDispatch /\ 0 \in Nat
    BY ParamAssumption
  <2>3. ASSUME NEW T \in SUBSET Targets
        PROVE  LET q == [s EXCEPT !.pc = "stamp", !.todo = T, !.d = 0, !.next = 0]
               IN q \in OrchStates /\ q.pc = "stamp" /\ q.todo = T
    BY <2>2 DEF OrchStates
  <2>4. s.todo \ {First(s.todo)} \in SUBSET Targets
    BY <1>1
  <2>5. r \in OrchStates /\ r.pc = "stamp" /\ r.todo = s.todo \ {First(s.todo)}
    BY <2>3, <2>4
  <2> QED BY <2>1, <2>5, <1>4
<1> QED BY <1>3, <1>4

LEMMA SendingType ==
    ASSUME NEW s \in OrchStates, NEW d \in 0 .. MaxDispatch
    PROVE  /\ Sending(s, d) \in OrchStates /\ Sending(s, d).pc = "send"
           /\ Sending(s, d).d = d /\ Sending(s, d).next = 0 /\ Sending(s, d).todo = s.todo
<1>1. 0 \in Nat
  OBVIOUS
<1> QED BY <1>1 DEF Sending, OrchStates

LEMMA InitType == Init => TypeOK /\ Formed
<1> SUFFICES ASSUME Init PROVE TypeOK /\ Formed
  OBVIOUS
<1>1. MaxDispatch \in Nat /\ MaxReceive \in Nat /\ MaxQueries \in Nat /\ MaxQueries > 0
      /\ MaxFaults \in Nat /\ MaxResweeps \in Nat
  BY ParamAssumption
<1>2. row \in [Targets -> Rows]
  BY <1>1 DEF Init, Rows, NoDispatch
<1>3. counter \in [Dispatches -> Counters]
  BY DEF Init, Counters, NoCounts
<1>4. orch \in [Orchestrators -> OrchStates]
  BY <1>1 DEF Init, OrchStates, IdleOrch, NoDispatch
<1>5. worker \in [Workers -> WorkerStates]
  BY <1>1 DEF Init, WorkerStates, IdleWorker, Seqs
<1>6. owner \in [1 .. issued -> Targets] /\ count \in [1 .. issued -> 1 .. MaxQueries]
  <2>1. 1 .. 0 = {} /\ issued = 0
    BY DEF Init
  <2>2. owner \in [{} -> Targets] /\ count \in [{} -> 1 .. MaxQueries]
    BY <2>1 DEF Init
  <2> QED BY <2>1, <2>2
<1>7. TypeOK
  <2>1. /\ running \in BOOLEAN /\ issued \in 0 .. MaxDispatch /\ msgs \subseteq Messages
        /\ history \subseteq HistoryRows /\ counted \subseteq HistoryRows
        /\ faults \in 0 .. MaxFaults /\ resweeps \in 0 .. MaxResweeps
    BY <1>1 DEF Init
  <2> QED BY <1>2, <1>3, <1>4, <1>5, <1>6, <2>1 DEF TypeOK
<1>8. Formed
  BY DEF Init, Formed, IdleOrch, IdleWorker
<1> QED BY <1>7, <1>8

\* Only orch changes, to a well-formed state: the other parts of TypeOK and Formed stay.
LEMMA OnlyOrch ==
    ASSUME TypeOK, Formed, NEW o \in Orchestrators, NEW s \in OrchStates,
           s.pc # "idle" => s.todo # {},
           s.pc = "send" => Issued(s.d, s.next),
           orch' = [orch EXCEPT ![o] = s],
           UNCHANGED <<store, running, msgs, history, counter, counted, worker>>,
           faults' \in 0 .. MaxFaults, resweeps' \in 0 .. MaxResweeps
    PROVE  TypeOK' /\ Formed'
<1>1. TypeOK'
  BY DEF TypeOK, store
<1>2. \A p \in Orchestrators : /\ orch'[p].pc # "idle" => orch'[p].todo # {}
                               /\ orch'[p].pc = "send" => Issued(orch'[p].d, orch'[p].next)
  <2> SUFFICES ASSUME NEW p \in Orchestrators
               PROVE  /\ orch'[p].pc # "idle" => orch'[p].todo # {}
                      /\ orch'[p].pc = "send" => Issued(orch'[p].d, orch'[p].next)
    OBVIOUS
  <2>1. orch'[p] = IF p = o THEN s ELSE orch[p]
    BY DEF TypeOK
  <2> QED BY <2>1 DEF Formed
<1>3. Formed'
  BY <1>2 DEF Formed, Issued, store
<1> QED BY <1>1, <1>3

\* No dispatch is issued and no orchestrator moves: what the other parts become is well formed
\* when each of them is.
LEMMA OthersType ==
    ASSUME TypeOK, Formed,
           UNCHANGED <<issued, owner, count, orch>>,
           running' \in BOOLEAN, row' \in [Targets -> Rows],
           msgs' \subseteq Messages, \A m \in msgs' : Issued(m.d, m.seq),
           history' \subseteq HistoryRows, \A h \in history' : Issued(h.d, h.seq),
           counter' \in [Dispatches -> Counters], counted' \subseteq HistoryRows,
           worker' \in [Workers -> WorkerStates],
           \A w \in Workers : worker'[w].pc # "idle" => Issued(worker'[w].d, worker'[w].seq),
           \A w \in Workers : worker'[w].pc \in {"history", "count"} => worker'[w].result \in Answers,
           faults' \in 0 .. MaxFaults, resweeps' \in 0 .. MaxResweeps
    PROVE  TypeOK' /\ Formed'
<1>1. TypeOK'
  BY DEF TypeOK
<1>2. Formed'
  BY DEF Formed, Issued
<1> QED BY <1>1, <1>2

\* The same when one worker moves to a well-formed state.
LEMMA OnlyWorker ==
    ASSUME TypeOK, Formed, NEW w \in Workers, NEW s \in WorkerStates,
           s.pc # "idle" => Issued(s.d, s.seq),
           s.pc \in {"history", "count"} => s.result \in Answers,
           worker' = [worker EXCEPT ![w] = s],
           msgs' \subseteq Messages, \A m \in msgs' : Issued(m.d, m.seq),
           history' \subseteq HistoryRows, \A h \in history' : Issued(h.d, h.seq),
           counter' \in [Dispatches -> Counters], counted' \subseteq HistoryRows,
           row' \in [Targets -> Rows],
           UNCHANGED <<issued, owner, count, running, orch>>,
           faults' \in 0 .. MaxFaults, resweeps' \in 0 .. MaxResweeps
    PROVE  TypeOK' /\ Formed'
<1>1. worker' \in [Workers -> WorkerStates] /\ running' \in BOOLEAN
  BY DEF TypeOK
<1>2. \A v \in Workers : /\ worker'[v].pc # "idle" => Issued(worker'[v].d, worker'[v].seq)
                         /\ worker'[v].pc \in {"history", "count"} => worker'[v].result \in Answers
  <2> SUFFICES ASSUME NEW v \in Workers
               PROVE  /\ worker'[v].pc # "idle" => Issued(worker'[v].d, worker'[v].seq)
                      /\ worker'[v].pc \in {"history", "count"} => worker'[v].result \in Answers
    OBVIOUS
  <2>1. worker'[v] = IF v = w THEN s ELSE worker[v]
    BY DEF TypeOK
  <2> QED BY <2>1 DEF Formed
<1> QED BY <1>1, <1>2, OthersType

LEMMA OrchestratorType ==
    ASSUME TypeOK, Formed, NEW o \in Orchestrators,
           \/ Select(o) \/ SkipGeneration(o) \/ Send(o) \/ SendFails(o) \/ OrchestratorCrash(o)
    PROVE  TypeOK' /\ Formed'
<1> DEFINE s == orch[o]
<1>1. /\ s \in OrchStates
      /\ s.pc # "idle" => s.todo # {}
      /\ s.pc = "send" => Issued(s.d, s.next)
      /\ faults \in Nat /\ MaxFaults \in Nat
      /\ faults \in 0 .. MaxFaults /\ resweeps \in 0 .. MaxResweeps
  <2>1. /\ s.pc # "idle" => s.todo # {}
        /\ s.pc = "send" => Issued(s.d, s.next)
    BY DEF Formed
  <2> QED BY <2>1, ParamAssumption DEF TypeOK
<1>2. IdleOrch \in OrchStates /\ IdleOrch.pc = "idle"
  BY ParamAssumption DEF IdleOrch, OrchStates, NoDispatch
<1>3. s.pc # "idle" => /\ After(s) \in OrchStates /\ After(s).pc # "send"
                       /\ After(s).pc # "idle" => After(s).todo # {}
  BY <1>1, AfterType
<1>4. CASE Select(o)
  <2> DEFINE r == [pc |-> "stamp", todo |-> Batch, seen |-> [t \in Targets |-> row[t].dispatch_id],
                   d |-> 0, next |-> 0]
  <2>1. Batch \in SUBSET Targets
    BY DEF Batch, Eligible
  <2>2. [t \in Targets |-> row[t].dispatch_id] \in [Targets -> 0 .. MaxDispatch]
    BY DEF TypeOK, Rows
  <2>3. r \in OrchStates /\ r.pc = "stamp" /\ r.todo # {}
    <3>1. issued \in 0 .. MaxDispatch /\ 0 \in 0 .. MaxDispatch /\ Batch # {}
      BY <1>4, ParamAssumption DEF TypeOK, Select
    <3> QED BY <2>1, <2>2, <3>1 DEF OrchStates
  <2> HIDE DEF r
  <2>4. orch' = [orch EXCEPT ![o] = r]
    BY <1>4 DEF Select, r
  <2> QED BY <1>1, <1>4, <2>3, <2>4, OnlyOrch DEF Select, NoFault
<1>5. CASE SkipGeneration(o)
  <2>1. s.pc = "stamp" /\ orch' = [orch EXCEPT ![o] = After(s)] /\ faults' \in 0 .. MaxFaults
    BY <1>1, <1>5 DEF SkipGeneration, Fault
  <2> QED BY <1>1, <1>3, <1>5, <2>1, OnlyOrch DEF SkipGeneration
<1>6. CASE SendFails(o)
  <2>1. s.pc = "send" /\ orch' = [orch EXCEPT ![o] = After(s)] /\ faults' \in 0 .. MaxFaults
    BY <1>1, <1>6 DEF SendFails, Fault
  <2> QED BY <1>1, <1>3, <1>6, <2>1, OnlyOrch DEF SendFails
<1>7. CASE OrchestratorCrash(o)
  <2>1. orch' = [orch EXCEPT ![o] = IdleOrch] /\ faults' \in 0 .. MaxFaults
    BY <1>1, <1>7 DEF OrchestratorCrash, Fault
  <2> QED BY <1>1, <1>2, <1>7, <2>1, OnlyOrch DEF OrchestratorCrash
<1>8. CASE Send(o)
  <2> DEFINE m == [d |-> s.d, seq |-> s.next, receives |-> 0, visible |-> TRUE]
             r == IF s.next + 1 = count[s.d] THEN After(s) ELSE [s EXCEPT !.next = s.next + 1]
  <2>1. s.pc = "send" /\ s.d \in 1 .. issued /\ s.next \in 0 .. count[s.d] - 1
    BY <1>1, <1>8 DEF Send, Issued
  <2>2. count[s.d] \in 1 .. MaxQueries /\ issued \in 0 .. MaxDispatch
    BY <2>1 DEF TypeOK
  <2>3. m \in Messages
    BY <2>1, <2>2, ParamAssumption DEF Messages, Dispatches, Seqs
  <2>4. [s EXCEPT !.next = s.next + 1] \in OrchStates
    BY <1>1, <2>1, <2>2 DEF OrchStates
  <2>5. r \in OrchStates /\ (r.pc # "idle" => r.todo # {}) /\ (r.pc = "send" => Issued(r.d, r.next))
    <3>1. CASE s.next + 1 = count[s.d]
      BY <1>3, <2>1, <3>1
    <3>2. CASE s.next + 1 # count[s.d]
      <4>1. LET q == [s EXCEPT !.next = s.next + 1]
            IN q.d = s.d /\ q.next = s.next + 1 /\ q.todo = s.todo
        BY <1>1 DEF OrchStates
      <4> QED BY <1>1, <2>1, <2>2, <2>4, <3>2, <4>1, ParamAssumption DEF Issued
    <3> QED BY <3>1, <3>2
  <2>6. msgs' = msgs \cup {m} /\ orch' = [orch EXCEPT ![o] = r]
    BY <1>8 DEF Send
  <2> HIDE DEF r
  <2>7. TypeOK'
    BY <1>8, <2>3, <2>5, <2>6 DEF TypeOK, Send, store, NoFault
  <2>8. m.d = s.d /\ m.seq = s.next
    OBVIOUS
  <2> HIDE DEF m
  <2>9. \A k \in msgs' : Issued(k.d, k.seq)
    BY <1>1, <2>1, <2>6, <2>8 DEF Formed
  <2>10. \A p \in Orchestrators : /\ orch'[p].pc # "idle" => orch'[p].todo # {}
                                  /\ orch'[p].pc = "send" => Issued(orch'[p].d, orch'[p].next)
    <3> SUFFICES ASSUME NEW p \in Orchestrators
                 PROVE  /\ orch'[p].pc # "idle" => orch'[p].todo # {}
                        /\ orch'[p].pc = "send" => Issued(orch'[p].d, orch'[p].next)
      OBVIOUS
    <3>1. orch'[p] = IF p = o THEN r ELSE orch[p]
      BY <2>6 DEF TypeOK
    <3> QED BY <2>5, <3>1 DEF Formed
  <2>11. Formed'
    BY <1>8, <2>9, <2>10 DEF Formed, Issued, Send, store
  <2> QED BY <2>7, <2>11
<1> QED BY <1>4, <1>5, <1>6, <1>7, <1>8

LEMMA StampType ==
    ASSUME TypeOK, Formed, NEW o \in Orchestrators, Stamp(o)
    PROVE  TypeOK' /\ Formed'
<1> DEFINE s == orch[o]
           t == First(s.todo)
           d == issued + 1
<1>1. /\ s \in OrchStates /\ s.pc = "stamp" /\ s.todo # {}
      /\ issued \in 0 .. MaxDispatch /\ MaxDispatch \in Nat
      /\ faults' \in 0 .. MaxFaults /\ resweeps' \in 0 .. MaxResweeps
  BY ParamAssumption DEF TypeOK, Formed, Stamp, NoFault
<1>2. t \in Targets
  <2>1. s.todo \in SUBSET Targets
    BY <1>1 DEF OrchStates
  <2> QED BY <1>1, <2>1, FirstInSet
<1>3. CASE ~StampMatches(o, t)
  <2>1. orch' = [orch EXCEPT ![o] = After(s)]
    BY <1>3 DEF Stamp
  <2>2. UNCHANGED <<store, running, msgs, history, counter, counted, worker>>
    BY <1>3 DEF Stamp
  <2> QED BY <1>1, <2>1, <2>2, AfterType, OnlyOrch
<1>4. CASE StampMatches(o, t)
  <2>1. PICK n \in 1 .. MaxQueries :
           /\ count' = [e \in 1 .. d |-> IF e = d THEN n ELSE count[e]]
           /\ owner' = [e \in 1 .. d |-> IF e = d THEN t ELSE owner[e]]
    BY <1>4 DEF Stamp
  <2>2. /\ issued < MaxDispatch /\ issued' = d
        /\ row' = [row EXCEPT ![t] = [row[t] EXCEPT !.dispatch_id = d, !.stale = FALSE]]
        /\ orch' = [orch EXCEPT ![o] = Sending(s, d)]
        /\ UNCHANGED <<running, msgs, history, counter, counted, worker>>
    BY <1>4 DEF Stamp
  <2>3. d \in 1 .. MaxDispatch
    BY <1>1, <2>2
  <2>4. count' \in [1 .. issued' -> 1 .. MaxQueries] /\ owner' \in [1 .. issued' -> Targets]
    <3>1. \A e \in 1 .. d : e # d => e \in 1 .. issued
      BY <1>1
    <3>2. \A e \in 1 .. issued : count[e] \in 1 .. MaxQueries /\ owner[e] \in Targets
      BY DEF TypeOK
    <3> QED BY <1>2, <2>1, <2>2, <3>1, <3>2
  <2>5. row' \in [Targets -> Rows]
    <3>1. ASSUME NEW x \in 0 .. MaxDispatch, NEW k \in Rows
          PROVE  [k EXCEPT !.dispatch_id = x, !.stale = FALSE] \in Rows
      BY DEF Rows
    <3>2. d \in 0 .. MaxDispatch /\ row[t] \in Rows
      BY <1>1, <1>2, <2>3 DEF TypeOK
    <3>3. [row[t] EXCEPT !.dispatch_id = d, !.stale = FALSE] \in Rows
      BY <3>1, <3>2
    <3> QED BY <1>2, <2>2, <3>3 DEF TypeOK
  <2> DEFINE r == Sending(s, d)
  <2>6. r \in OrchStates /\ r.pc = "send" /\ r.d = d /\ r.next = 0 /\ r.todo = s.todo
    <3>1. d \in 0 .. MaxDispatch
      BY <2>3
    <3> HIDE DEF d
    <3> QED BY <1>1, <3>1, SendingType
  <2>7. orch' = [orch EXCEPT ![o] = r]
    BY <2>2 DEF TypeOK
  <2> HIDE DEF r
  <2>8. TypeOK'
    BY <1>1, <2>2, <2>3, <2>4, <2>5, <2>6, <2>7 DEF TypeOK
  <2> DEFINE Now(e, q) == e \in 1 .. d /\ q \in 0 .. count'[e] - 1
  <2>9. \A e, q : Issued(e, q) => Now(e, q)
    BY <1>1, <2>1 DEF Issued
  <2>10. Now(d, 0)
    <3>1. count'[d] = n /\ d \in 1 .. d
      BY <1>1, <2>1
    <3> QED BY <3>1, ParamAssumption
  <2>11. /\ \A m \in msgs : Now(m.d, m.seq)
         /\ \A h \in history : Now(h.d, h.seq)
         /\ \A w \in Workers : worker[w].pc # "idle" => Now(worker[w].d, worker[w].seq)
    BY <2>9 DEF Formed
  <2>12. \A p \in Orchestrators : /\ orch'[p].pc # "idle" => orch'[p].todo # {}
                                  /\ orch'[p].pc = "send" => Now(orch'[p].d, orch'[p].next)
    <3> SUFFICES ASSUME NEW p \in Orchestrators
                 PROVE  /\ orch'[p].pc # "idle" => orch'[p].todo # {}
                        /\ orch'[p].pc = "send" => Now(orch'[p].d, orch'[p].next)
      OBVIOUS
    <3> HIDE DEF Now
    <3>1. orch'[p] = IF p = o THEN r ELSE orch[p]
      BY <2>7 DEF TypeOK
    <3>2. CASE p = o
      BY <1>1, <2>6, <2>10, <3>1, <3>2
    <3>3. CASE p # o
      BY <2>9, <3>1, <3>3 DEF Formed
    <3> QED BY <3>2, <3>3
  <2>13. Formed'
    BY <2>2, <2>11, <2>12 DEF Formed, Issued
  <2> QED BY <2>8, <2>13
<1> QED BY <1>3, <1>4

\* A message received or made visible again is a message, of the same query.
LEMMA MessageType ==
    ASSUME NEW m \in Messages, NEW b \in BOOLEAN, NEW k \in 0 .. MaxReceive
    PROVE  LET n == [m EXCEPT !.receives = k, !.visible = b]
           IN n \in Messages /\ n.d = m.d /\ n.seq = m.seq
BY DEF Messages

LEMMA WorkerType ==
    ASSUME TypeOK, Formed, NEW w \in Workers,
           \/ Receive(w) \/ Gate(w) \/ Search(w) \/ Defer(w) \/ InsertHistory(w)
           \/ Count(w) \/ Finalize(w) \/ Delete(w) \/ WorkerCrash(w)
    PROVE  TypeOK' /\ Formed'
<1> DEFINE s == worker[w]
<1>1. /\ s \in WorkerStates
      /\ s.pc # "idle" => Issued(s.d, s.seq)
      /\ s.pc \in {"history", "count"} => s.result \in Answers
      /\ msgs \subseteq Messages /\ \A m \in msgs : Issued(m.d, m.seq)
      /\ history \subseteq HistoryRows /\ \A h \in history : Issued(h.d, h.seq)
      /\ counter \in [Dispatches -> Counters] /\ counted \subseteq HistoryRows
      /\ row \in [Targets -> Rows]
      /\ faults \in 0 .. MaxFaults /\ resweeps \in 0 .. MaxResweeps
      /\ issued \in 0 .. MaxDispatch /\ MaxFaults \in Nat /\ MaxDispatch \in Nat
  BY ParamAssumption DEF TypeOK, Formed
<1>2. IdleWorker \in WorkerStates /\ IdleWorker.pc = "idle"
  BY ParamAssumption DEF IdleWorker, WorkerStates, Seqs
<1>3. ASSUME NEW p \in {"gate", "search", "history", "count", "finalize", "delete"},
             s.pc # "idle"
      PROVE  LET r == [s EXCEPT !.pc = p]
             IN /\ r \in WorkerStates /\ Issued(r.d, r.seq)
                /\ r.pc = p /\ r.result = s.result
  <2>1. [s EXCEPT !.pc = p] \in WorkerStates /\ [s EXCEPT !.pc = p].d = s.d
        /\ [s EXCEPT !.pc = p].seq = s.seq
        /\ [s EXCEPT !.pc = p].pc = p /\ [s EXCEPT !.pc = p].result = s.result
    BY <1>1 DEF WorkerStates
  <2> QED BY <1>1, <1>3, <2>1
<1>4. CASE Defer(w) \/ WorkerCrash(w)
  <2>1. worker' = [worker EXCEPT ![w] = IdleWorker] /\ faults' \in 0 .. MaxFaults
        /\ UNCHANGED <<store, running, msgs, history, counter, counted, orch, resweeps>>
    BY <1>1, <1>4 DEF Defer, WorkerCrash, Fault
  <2> QED BY <1>1, <1>2, <2>1, OnlyWorker DEF store
<1>5. CASE Gate(w)
  <2> DEFINE p == IF GatePasses(s.d, s.seq) THEN "search" ELSE "delete"
             r == [s EXCEPT !.pc = p]
  <2>1. s.pc # "idle" /\ worker' = [worker EXCEPT ![w] = r]
    BY <1>5 DEF Gate, TypeOK
  <2>2. r \in WorkerStates /\ Issued(r.d, r.seq) /\ r.pc \notin {"history", "count"}
    BY <1>3, <2>1
  <2> HIDE DEF r
  <2> QED BY <1>1, <1>5, <2>1, <2>2, OnlyWorker DEF Gate, store, NoFault
<1>6. CASE Search(w)
  <2>1. PICK x \in Answers : worker' = [worker EXCEPT ![w] = [s EXCEPT !.pc = "history", !.result = x]]
    BY <1>6 DEF Search
  <2> DEFINE r == [s EXCEPT !.pc = "history", !.result = x]
  <2>2. r \in WorkerStates /\ r.d = s.d /\ r.seq = s.seq /\ r.result \in Answers
    BY <1>1 DEF WorkerStates
  <2> HIDE DEF r
  <2>3. s.pc # "idle" /\ worker' = [worker EXCEPT ![w] = r]
    BY <1>6, <2>1 DEF Search, r
  <2> QED BY <1>1, <1>6, <2>2, <2>3, OnlyWorker DEF Search, store, NoFault
<1>7. CASE InsertHistory(w)
  <2> DEFINE h == [d |-> s.d, seq |-> s.seq, result |-> s.result]
             p == IF FirstInsert(s.d, s.seq) THEN "count" ELSE "delete"
             r == [s EXCEPT !.pc = p]
  <2>1. s.pc = "history" /\ s.pc # "idle" /\ worker' = [worker EXCEPT ![w] = r]
    BY <1>7 DEF InsertHistory, TypeOK
  <2>2. r \in WorkerStates /\ Issued(r.d, r.seq) /\ r.result \in Answers
    BY <1>1, <1>3, <2>1
  <2>3. h \in HistoryRows /\ h.d = s.d /\ h.seq = s.seq
    BY <1>1, <2>1 DEF HistoryRows, WorkerStates, Issued, Dispatches
  <2>4. history' \subseteq history \cup {h}
    BY <1>7 DEF InsertHistory
  <2> HIDE DEF r, h
  <2>5. history' \subseteq HistoryRows /\ \A k \in history' : Issued(k.d, k.seq)
    BY <1>1, <2>1, <2>3, <2>4
  <2> QED BY <1>1, <1>7, <2>1, <2>2, <2>5, OnlyWorker DEF InsertHistory, store, NoFault
<1>8. CASE Count(w)
  <2> DEFINE h == [d |-> s.d, seq |-> s.seq, result |-> s.result]
             c == Bump(counter[s.d], s.result)
             r == IF Completes(c, count[s.d])
                  THEN [s EXCEPT !.pc = "finalize", !.verdict = Aggregate(c, count[s.d])]
                  ELSE [s EXCEPT !.pc = "delete"]
  <2>1. s.pc = "count" /\ worker' = [worker EXCEPT ![w] = r]
        /\ counter' = [counter EXCEPT ![s.d] = c] /\ counted' = counted \cup {h}
    BY <1>8 DEF Count
  <2>2. s.d \in Dispatches
    BY <1>1, <2>1 DEF Issued, Dispatches
  <2>3. h \in HistoryRows
    BY <1>1, <2>1, <2>2 DEF HistoryRows, WorkerStates
  <2>4. c \in Counters
    BY <1>1, <2>2 DEF Counters, Bump
  <2>5. r \in WorkerStates /\ r.d = s.d /\ r.seq = s.seq /\ r.pc \notin {"history", "count"}
    <3>1. Aggregate(c, count[s.d]) \in Results
      BY DEF Aggregate, Results
    <3>2. ASSUME NEW v \in Results
          PROVE  LET q == [s EXCEPT !.pc = "finalize", !.verdict = v]
                 IN q \in WorkerStates /\ q.d = s.d /\ q.seq = s.seq /\ q.pc = "finalize"
      BY <1>1 DEF WorkerStates
    <3>3. LET q == [s EXCEPT !.pc = "delete"]
          IN q \in WorkerStates /\ q.d = s.d /\ q.seq = s.seq /\ q.pc = "delete"
      BY <1>1 DEF WorkerStates
    <3> HIDE DEF c
    <3> QED BY <3>1, <3>2, <3>3
  <2>6. r.pc # "idle" => Issued(r.d, r.seq)
    BY <1>1, <2>1, <2>5
  <2> HIDE DEF r, c, h
  <2>7. counter' \in [Dispatches -> Counters] /\ counted' \subseteq HistoryRows
    BY <1>1, <2>1, <2>3, <2>4
  <2> QED BY <1>1, <1>8, <2>1, <2>5, <2>6, <2>7, OnlyWorker DEF Count, store, NoFault
<1>9. CASE Finalize(w)
  <2> DEFINE r == [s EXCEPT !.pc = "delete"]
             t == owner[s.d]
             k == [dispatch_id |-> NoDispatch, due |-> FALSE, stale |-> FALSE,
                   last_result |-> s.verdict]
  <2>1. s.pc = "finalize" /\ s.pc # "idle" /\ worker' = [worker EXCEPT ![w] = r]
    BY <1>9 DEF Finalize, TypeOK
  <2>2. r \in WorkerStates /\ Issued(r.d, r.seq) /\ r.pc \notin {"history", "count"}
    BY <1>3, <2>1
  <2>3. k \in Rows
    BY <1>1 DEF Rows, WorkerStates, NoDispatch
  <2>4. row' = row \/ row' = [row EXCEPT ![t] = k]
    BY <1>9 DEF Finalize
  <2> HIDE DEF r, k, t
  <2>5. row' \in [Targets -> Rows]
    BY <1>1, <2>3, <2>4
  <2> QED BY <1>1, <1>9, <2>1, <2>2, <2>5, OnlyWorker DEF Finalize, NoFault
<1>10. CASE Delete(w)
  <2>1. worker' = [worker EXCEPT ![w] = IdleWorker] /\ msgs' \subseteq msgs
    BY <1>10 DEF Delete
  <2>2. msgs' \subseteq Messages /\ \A m \in msgs' : Issued(m.d, m.seq)
    BY <1>1, <2>1
  <2> QED BY <1>1, <1>2, <1>10, <2>1, <2>2, OnlyWorker DEF Delete, store, NoFault
<1>11. CASE Receive(w)
  <2>1. PICK m \in msgs :
           /\ Deliverable(m)
           /\ msgs' = (msgs \ {m}) \cup {[m EXCEPT !.receives = m.receives + 1, !.visible = FALSE]}
           /\ worker' = [worker EXCEPT ![w] =
                          [IdleWorker EXCEPT !.pc = "gate", !.d = m.d, !.seq = m.seq]]
    BY <1>11 DEF Receive
  <2> DEFINE n == [m EXCEPT !.receives = m.receives + 1, !.visible = FALSE]
             r == [IdleWorker EXCEPT !.pc = "gate", !.d = m.d, !.seq = m.seq]
  <2>2. m \in Messages /\ Issued(m.d, m.seq)
    BY <1>1
  <2>3. m.receives + 1 \in 0 .. MaxReceive
    BY <2>1, <2>2, ParamAssumption DEF Messages, Deliverable
  <2>4. n \in Messages /\ n.d = m.d /\ n.seq = m.seq
    BY <2>2, <2>3, MessageType
  <2>5. r \in WorkerStates /\ r.d = m.d /\ r.seq = m.seq /\ r.pc = "gate"
    <3>1. m.d \in 0 .. MaxDispatch /\ m.seq \in Seqs
      BY <1>1, <2>2 DEF Messages, Dispatches
    <3> QED BY <1>2, <3>1 DEF WorkerStates
  <2> HIDE DEF n, r
  <2>6. msgs' \subseteq Messages /\ \A k \in msgs' : Issued(k.d, k.seq)
    BY <1>1, <2>1, <2>2, <2>4 DEF n
  <2>7. worker' = [worker EXCEPT ![w] = r]
    BY <2>1 DEF r
  <2> QED BY <1>1, <1>11, <2>2, <2>5, <2>6, <2>7, OnlyWorker DEF Receive, store, NoFault
<1> QED BY <1>4, <1>5, <1>6, <1>7, <1>8, <1>9, <1>10, <1>11

\* The queue, Redis, the clock and the operator.
LEMMA OutsideType ==
    ASSUME TypeOK, Formed,
           \/ Redeliver \/ RedeliverEarly \/ DeadLetter \/ CounterLost \/ Stop \/ Start
           \/ \E t \in Targets : TimeoutDead(t) \/ TimeoutLive(t) \/ FallDue(t)
    PROVE  TypeOK' /\ Formed'
<1>1. /\ msgs \subseteq Messages /\ \A m \in msgs : Issued(m.d, m.seq)
      /\ history \subseteq HistoryRows /\ \A h \in history : Issued(h.d, h.seq)
      /\ counter \in [Dispatches -> Counters] /\ counted \subseteq HistoryRows
      /\ row \in [Targets -> Rows] /\ running \in BOOLEAN
      /\ faults \in 0 .. MaxFaults /\ resweeps \in 0 .. MaxResweeps
  BY DEF TypeOK, Formed
<1>2. MaxFaults \in Nat /\ MaxResweeps \in Nat
  BY ParamAssumption
<1>3. /\ worker \in [Workers -> WorkerStates]
      /\ \A w \in Workers : worker[w].pc # "idle" => Issued(worker[w].d, worker[w].seq)
      /\ \A w \in Workers : worker[w].pc \in {"history", "count"} => worker[w].result \in Answers
  BY DEF TypeOK, Formed
<1>4. CASE Redeliver \/ RedeliverEarly
  <2>1. PICK m \in msgs : msgs' = (msgs \ {m}) \cup {[m EXCEPT !.visible = TRUE]}
    BY <1>4 DEF Redeliver, RedeliverEarly
  <2> DEFINE n == [m EXCEPT !.visible = TRUE]
  <2>2. n \in Messages /\ n.d = m.d /\ n.seq = m.seq
    BY <1>1 DEF Messages
  <2>3. msgs' = (msgs \ {m}) \cup {n} /\ Issued(n.d, n.seq)
    BY <1>1, <2>1, <2>2
  <2> HIDE DEF n
  <2>4. msgs' \subseteq Messages /\ \A k \in msgs' : Issued(k.d, k.seq)
    BY <1>1, <2>2, <2>3
  <2>5. /\ faults' \in 0 .. MaxFaults
        /\ UNCHANGED <<store, running, history, counter, counted, orch, worker, resweeps>>
    BY <1>1, <1>2, <1>4 DEF Redeliver, RedeliverEarly, Fault, NoFault
  <2> QED BY <1>1, <1>3, <2>4, <2>5, OthersType DEF store
<1>5. CASE DeadLetter
  <2>1. /\ msgs' \subseteq msgs
        /\ UNCHANGED <<store, running, history, counter, counted, orch, worker, faults, resweeps>>
    BY <1>5 DEF DeadLetter, NoFault
  <2>2. msgs' \subseteq Messages /\ \A k \in msgs' : Issued(k.d, k.seq)
    BY <1>1, <2>1
  <2> QED BY <1>1, <1>3, <2>1, <2>2, OthersType DEF store
<1>6. CASE CounterLost
  <2>1. PICK d \in 1 .. issued : /\ counter' = [counter EXCEPT ![d] = NoCounts]
                                 /\ counted' = {h \in counted : h.d # d}
    BY <1>6 DEF CounterLost
  <2>2. NoCounts \in Counters
    BY DEF NoCounts, Counters
  <2>3. counter' \in [Dispatches -> Counters] /\ counted' \subseteq HistoryRows
    BY <1>1, <2>1, <2>2
  <2>4. /\ faults' \in 0 .. MaxFaults
        /\ UNCHANGED <<store, running, msgs, history, orch, worker, resweeps>>
    BY <1>1, <1>2, <1>6 DEF CounterLost, Fault
  <2> QED BY <1>1, <1>3, <2>3, <2>4, OthersType DEF store
<1>7. CASE Stop \/ Start
  <2>1. /\ running' \in BOOLEAN /\ faults' \in 0 .. MaxFaults
        /\ UNCHANGED <<store, msgs, history, counter, counted, orch, worker, resweeps>>
    <3>1. CASE Stop
      <4>1. running' = FALSE
        BY <3>1, Zenon DEF Stop
      <4>2. faults' \in 0 .. MaxFaults
        <5>1. Fault
          BY <3>1, Zenon DEF Stop
        <5> QED BY <5>1, <1>1, <1>2 DEF Fault
      <4> QED BY <3>1, <4>1, <4>2, Zenon DEF Stop
    <3>2. CASE Start
      <4>1. running' = TRUE
        BY <3>2, Zenon DEF Start
      <4>2. UNCHANGED <<faults, resweeps>>
        BY <3>2, Zenon DEF Start, NoFault
      <4> QED BY <1>1, <3>2, <4>1, <4>2, Zenon DEF Start
    <3> QED BY <1>7, <3>1, <3>2
  <2> QED BY <1>1, <1>3, <2>1, OthersType DEF store
<1>8. CASE \E t \in Targets : TimeoutDead(t) \/ TimeoutLive(t) \/ FallDue(t)
  <2>1. PICK t \in Targets : TimeoutDead(t) \/ TimeoutLive(t) \/ FallDue(t)
    BY <1>8
  <2>2. /\ [row[t] EXCEPT !.stale = TRUE] \in Rows
        /\ [row[t] EXCEPT !.due = TRUE] \in Rows
    BY <1>1 DEF Rows
  <2>3. \/ row' = [row EXCEPT ![t] = [row[t] EXCEPT !.stale = TRUE]]
        \/ row' = [row EXCEPT ![t] = [row[t] EXCEPT !.due = TRUE]]
    BY <1>1, <2>1 DEF TimeoutDead, TimeoutLive, FallDue
  <2>4. row' \in [Targets -> Rows]
    BY <1>1, <2>2, <2>3
  <2>5. /\ faults' \in 0 .. MaxFaults /\ resweeps' \in 0 .. MaxResweeps
        /\ UNCHANGED <<running, issued, owner, count, msgs, history, counter, counted, orch, worker>>
    BY <1>1, <1>2, <2>1 DEF TimeoutDead, TimeoutLive, FallDue, Fault, NoFault
  <2> QED BY <1>1, <1>3, <2>4, <2>5, OthersType
<1> QED BY <1>4, <1>5, <1>6, <1>7, <1>8

\* Types and well-formedness are inductive by themselves.
LEMMA TypeStep == TypeOK /\ Formed /\ [Next]_vars => TypeOK' /\ Formed'
<1> SUFFICES ASSUME TypeOK, Formed, [Next]_vars PROVE TypeOK' /\ Formed'
  OBVIOUS
<1>1. CASE Next
  <2>1. CASE \E o \in Orchestrators : \/ Select(o) \/ SkipGeneration(o) \/ Stamp(o)
                                      \/ Send(o) \/ SendFails(o) \/ OrchestratorCrash(o)
    BY <2>1, OrchestratorType, StampType
  <2>2. CASE \E w \in Workers : \/ Receive(w) \/ Gate(w) \/ Search(w) \/ Defer(w)
                                \/ InsertHistory(w) \/ Count(w) \/ Finalize(w)
                                \/ Delete(w) \/ WorkerCrash(w)
    BY <2>2, WorkerType
  <2>3. CASE \/ Redeliver \/ RedeliverEarly \/ DeadLetter \/ CounterLost \/ Stop \/ Start
             \/ \E t \in Targets : TimeoutDead(t) \/ TimeoutLive(t) \/ FallDue(t)
    BY <2>3, OutsideType
  <2> QED BY <1>1, <2>1, <2>2, <2>3 DEF Next
<1>2. CASE UNCHANGED vars
  BY <1>2 DEF vars, store, TypeOK, Formed, Issued
<1> QED BY <1>1, <1>2

-----------------------------------------------------------------------------
(* Counting and the verdict.                                               *)

\* A step that touches neither history nor counters, and brings no worker to count or to
\* finalize, preserves what is said of them.
LEMMA FrameStep ==
    ASSUME TypeOK, Formed, Safe,
           UNCHANGED <<history, counter, counted>>,
           \A w \in Workers : worker'[w].pc \in {"count", "finalize"} => worker'[w] = worker[w],
           \A e \in 1 .. issued : count'[e] = count[e]
    PROVE  Safe'
<1>1. CountInv'
  <2>1. OneRowEach' /\ CounterExact'
    BY DEF Safe, CountInv, OneRowEach, CounterExact, Tally, RowsOf
  <2>2. Counting'
    BY DEF Safe, CountInv, Counting, Mine
  <2> QED BY <2>1, <2>2 DEF CountInv
<1>2. Quiet'
  BY DEF Safe, Quiet
<1>3. VerdictCounted'
  <2> SUFFICES ASSUME NEW w \in Workers, NEW d \in Dispatches,
                      worker'[w].pc = "finalize", worker'[w].d = d
               PROVE  /\ AllAnswered(d)'
                      /\ (Tally(history, d).done = count[d])'
                      /\ worker'[w].verdict = Aggregate(Tally(history, d), count[d])'
                      /\ \A v \in Workers \ {w} : worker'[v].pc = "finalize" => worker'[v].d # d
    BY DEF VerdictCounted
  <2>1. worker'[w] = worker[w] /\ worker[w].pc = "finalize" /\ worker[w].d = d
    OBVIOUS
  <2>2. count'[d] = count[d]
    BY <2>1 DEF Formed, Issued
  <2>3. /\ AllAnswered(d)
        /\ Tally(history, d).done = count[d]
        /\ worker[w].verdict = Aggregate(Tally(history, d), count[d])
        /\ \A v \in Workers \ {w} : worker[v].pc = "finalize" => worker[v].d # d
    BY <2>1 DEF Safe, VerdictCounted
  <2>4. AllAnswered(d)'
    BY <2>2, <2>3 DEF AllAnswered, HasHistory
  <2>5. Aggregate(Tally(history, d), count[d])' = Aggregate(Tally(history, d), count[d])
    BY <2>2 DEF Tally, RowsOf, Aggregate
  <2>6. \A v \in Workers \ {w} : worker'[v].pc = "finalize" => worker'[v].d # d
    BY <2>3
  <2>7. (Tally(history, d).done = count[d])'
    BY <2>2, <2>3 DEF Tally, RowsOf
  <2> QED BY <2>1, <2>3, <2>4, <2>5, <2>6, <2>7
<1> QED BY <1>1, <1>2, <1>3 DEF Safe

\* The history row: the unique constraint keeps a worker from inserting into a dispatch that
\* is fully answered.
LEMMA InsertStep ==
    ASSUME TypeOK, Formed, Safe, NEW w \in Workers, InsertHistory(w)
    PROVE  Safe'
<1> DEFINE s == worker[w]
           h == [d |-> s.d, seq |-> s.seq, result |-> s.result]
<1>1. /\ s.pc = "history" /\ s \in WorkerStates /\ Issued(s.d, s.seq) /\ s.d \in Dispatches
      /\ s.result \in Answers
      /\ UNCHANGED <<counter, counted, count>>
  BY ParamAssumption DEF InsertHistory, TypeOK, Formed, store, Issued, Dispatches
<1>2. CASE ~FirstInsert(s.d, s.seq)
  <2>1. UNCHANGED history /\ worker' = [worker EXCEPT ![w] = [s EXCEPT !.pc = "delete"]]
    BY <1>2 DEF InsertHistory, TypeOK
  <2>2. [s EXCEPT !.pc = "delete"].pc = "delete"
    BY <1>1 DEF WorkerStates
  <2>3. \A v \in Workers : worker'[v] = IF v = w THEN [s EXCEPT !.pc = "delete"] ELSE worker[v]
    BY <2>1 DEF TypeOK
  <2>4. \A v \in Workers : worker'[v].pc \in {"count", "finalize"} => worker'[v] = worker[v]
    BY <2>2, <2>3
  <2> QED BY <1>1, <2>1, <2>4, FrameStep
<1>3. CASE FirstInsert(s.d, s.seq)
  <2> DEFINE r == [s EXCEPT !.pc = "count"]
  <2>1. history' = history \cup {h} /\ worker' = [worker EXCEPT ![w] = r]
    BY <1>3 DEF InsertHistory, TypeOK
  <2>2. r.pc = "count" /\ r.d = s.d /\ r.seq = s.seq /\ r.result = s.result
    BY <1>1 DEF WorkerStates
  <2>3. h.d = s.d /\ h.seq = s.seq /\ h.result = s.result
    OBVIOUS
  <2>4. \A k \in history : ~(k.d = h.d /\ k.seq = h.seq)
    BY <1>3, <2>3 DEF FirstInsert, HasHistory
  <2>5. h \notin history
    BY <2>4
  <2> HIDE DEF h, r
  <2>6. \A v \in Workers : worker'[v] = IF v = w THEN r ELSE worker[v]
    BY <2>1 DEF TypeOK
  <2>7. CountInv'
    <3>1. OneRowEach'
      BY <2>1, <2>4 DEF Safe, CountInv, OneRowEach
    <3>2. CounterExact'
      <4>1. counted \subseteq history /\ counter' = counter /\ counted' = counted
            /\ \A d \in Dispatches : counter[d] = Tally(counted, d)
        BY <1>1 DEF Safe, CountInv, CounterExact
      <4> QED BY <2>1, <4>1 DEF CounterExact, Tally, RowsOf
    <3>3. IsFiniteSet(history')
      BY <2>1, FS_AddElement DEF Safe, CountInv, Counting
    <3>4. counted \subseteq history /\ counted' = counted
      BY <1>1 DEF Safe, CountInv, CounterExact
    <3>5. Mine(w)' = h
      BY <2>2, <2>6 DEF Mine, h
    <3>6. \A v \in Workers \ {w} : worker'[v] = worker[v] /\ Mine(v)' = Mine(v)
      BY <2>6 DEF Mine
    <3>7. \A v \in Workers \ {w} : worker[v].pc = "count" => Mine(v) \in history \ counted
      BY DEF Safe, CountInv, Counting
    <3>8. \A v \in Workers : worker'[v].pc = "count" => Mine(v)' \in history' \ counted'
      <4> SUFFICES ASSUME NEW v \in Workers, worker'[v].pc = "count"
                   PROVE  Mine(v)' \in history' \ counted'
        OBVIOUS
      <4>1. CASE v = w
        BY <2>1, <2>5, <3>4, <3>5, <4>1
      <4>2. CASE v # w
        BY <2>1, <3>4, <3>6, <3>7, <4>2
      <4> QED BY <4>1, <4>2
    <3>9. \A u, v \in Workers : worker'[u].pc = "count" /\ worker'[v].pc = "count" /\ u # v
                                  => Mine(u)' # Mine(v)'
      <4> SUFFICES ASSUME NEW u \in Workers, NEW v \in Workers, u # v,
                          worker'[u].pc = "count", worker'[v].pc = "count"
                   PROVE  Mine(u)' # Mine(v)'
        OBVIOUS
      <4>1. CASE u # w /\ v # w
        BY <3>6, <4>1 DEF Safe, CountInv, Counting
      <4>2. CASE u = w
        BY <2>5, <3>5, <3>6, <3>7, <4>2
      <4>3. CASE v = w
        BY <2>5, <3>5, <3>6, <3>7, <4>3
      <4> QED BY <4>1, <4>2, <4>3
    <3>10. Counting'
      BY <3>3, <3>8, <3>9 DEF Counting
    <3> QED BY <3>1, <3>2, <3>10 DEF CountInv
  <2>8. \A v \in Workers : worker[v].pc = "finalize" => worker[v].d # s.d
    <3> SUFFICES ASSUME NEW v \in Workers, worker[v].pc = "finalize", worker[v].d = s.d
                 PROVE  FALSE
      OBVIOUS
    <3>1. AllAnswered(s.d)
      BY <1>1 DEF Safe, VerdictCounted
    <3>2. s.seq \in 0 .. count[s.d] - 1
      BY <1>1 DEF Issued
    <3> QED BY <1>3, <3>1, <3>2 DEF AllAnswered, FirstInsert
  <2>9. Quiet'
    BY <2>2, <2>6, <2>8 DEF Safe, Quiet
  <2>10. VerdictCounted'
    <3> SUFFICES ASSUME NEW v \in Workers, NEW d \in Dispatches,
                        worker'[v].pc = "finalize", worker'[v].d = d
                 PROVE  /\ AllAnswered(d)'
                        /\ (Tally(history, d).done = count[d])'
                        /\ worker'[v].verdict = Aggregate(Tally(history, d), count[d])'
                        /\ \A u \in Workers \ {v} : worker'[u].pc = "finalize" => worker'[u].d # d
      BY DEF VerdictCounted
    <3>1. worker'[v] = worker[v] /\ worker[v].pc = "finalize" /\ d # s.d
      BY <2>2, <2>6, <2>8
    <3>2. /\ AllAnswered(d)
          /\ Tally(history, d).done = count[d]
          /\ worker[v].verdict = Aggregate(Tally(history, d), count[d])
          /\ \A u \in Workers \ {v} : worker[u].pc = "finalize" => worker[u].d # d
      BY <3>1 DEF Safe, VerdictCounted
    <3>3. AllAnswered(d)'
      BY <1>1, <2>1, <3>2 DEF AllAnswered, HasHistory
    <3>4. RowsOf(history', d) = RowsOf(history, d)
      BY <2>1, <2>3, <3>1 DEF RowsOf
    <3>5. Tally(history', d) = Tally(history, d)
      BY <3>4, TallyOther
    <3>6. Aggregate(Tally(history, d), count[d])' = Aggregate(Tally(history, d), count[d])
      BY <1>1, <3>5 DEF Aggregate
    <3>7. \A u \in Workers \ {v} : worker'[u].pc = "finalize" => worker'[u].d # d
      BY <2>2, <2>6, <3>2
    <3>8. (Tally(history, d).done = count[d])'
      BY <1>1, <3>2, <3>5
    <3> QED BY <3>1, <3>2, <3>3, <3>6, <3>7, <3>8
  <2> QED BY <2>7, <2>9, <2>10 DEF Safe
<1> QED BY <1>2, <1>3

\* The increment: a worker that reads the full count has every row of the dispatch behind it,
\* counted, so nobody else is about to count for it and the counts it read are the rows.
LEMMA CountStep ==
    ASSUME TypeOK, Formed, Safe, NEW w \in Workers, Count(w)
    PROVE  Safe'
<1> DEFINE s == worker[w]
           h == Mine(w)
           c == Bump(counter[s.d], s.result)
           n == count[s.d]
           r == IF Completes(c, n) THEN [s EXCEPT !.pc = "finalize", !.verdict = Aggregate(c, n)]
                ELSE [s EXCEPT !.pc = "delete"]
<1>1. /\ s.pc = "count" /\ s \in WorkerStates /\ Issued(s.d, s.seq) /\ s.d \in Dispatches
      /\ n \in 1 .. MaxQueries /\ MaxQueries \in Nat
      /\ UNCHANGED <<history, count>>
      /\ counter \in [Dispatches -> Counters]
  BY ParamAssumption DEF Count, TypeOK, Formed, store, Issued, Dispatches
<1>2. /\ counter' = [counter EXCEPT ![s.d] = c]
      /\ counted' = counted \cup {h}
      /\ worker' = [worker EXCEPT ![w] = r]
  BY DEF Count, Mine
<1>3. /\ h \in HistoryRows /\ h \in history /\ h \notin counted
      /\ h.d = s.d /\ h.seq = s.seq /\ h.result = s.result
  BY <1>1 DEF Safe, CountInv, Counting, Mine, TypeOK
<1>4. IsFiniteSet(history) /\ counted \subseteq history /\ IsFiniteSet(counted)
  <2>1. IsFiniteSet(history) /\ counted \in SUBSET history
    BY DEF Safe, CountInv, Counting, CounterExact
  <2> QED BY <2>1, FS_Subset
<1>5. /\ r.pc \in {"finalize", "delete"} /\ r.d = s.d
      /\ Completes(c, n) => r.pc = "finalize" /\ r.verdict = Aggregate(c, n)
      /\ ~Completes(c, n) => r.pc = "delete"
  BY <1>1 DEF WorkerStates
<1>6. c = Tally(counted', s.d)
  <2>1. counter[s.d] = Tally(counted, s.d)
    BY <1>1 DEF Safe, CountInv, CounterExact
  <2> QED BY <1>2, <1>3, <1>4, <2>1, TallyAdd
<1> HIDE DEF c, n, r, h
<1>7. \A v \in Workers : worker'[v] = IF v = w THEN r ELSE worker[v]
  BY <1>2 DEF TypeOK
<1>8. CounterExact'
  <2>1. counted' \subseteq history'
    BY <1>1, <1>2, <1>3, <1>4
  <2>2. ASSUME NEW d \in Dispatches, d # s.d
        PROVE  counter'[d] = Tally(counted', d)
    <3>1. RowsOf(counted', d) = RowsOf(counted, d)
      BY <1>2, <1>3, <2>2 DEF RowsOf
    <3>2. counter[d] = Tally(counted, d) /\ counter'[d] = counter[d]
      BY <1>1, <1>2, <2>2 DEF Safe, CountInv, CounterExact
    <3> QED BY <3>1, <3>2, TallyOther
  <2>3. counter'[s.d] = Tally(counted', s.d)
    BY <1>1, <1>2, <1>6
  <2>4. \A d \in Dispatches : counter'[d] = Tally(counted', d)
    BY <2>2, <2>3
  <2> QED BY <2>1, <2>4 DEF CounterExact
<1>9. \A v \in Workers : worker'[v].pc = "count" =>
          worker'[v] = worker[v] /\ v # w /\ Mine(v)' = Mine(v) /\ Mine(v) # h
  <2> SUFFICES ASSUME NEW v \in Workers, worker'[v].pc = "count"
               PROVE  worker'[v] = worker[v] /\ v # w /\ Mine(v)' = Mine(v) /\ Mine(v) # h
    OBVIOUS
  <2>1. worker'[v] = worker[v] /\ v # w
    BY <1>5, <1>7
  <2>2. Mine(v)' = Mine(v) /\ Mine(v) # Mine(w)
    BY <1>1, <2>1 DEF Safe, CountInv, Counting, Mine
  <2> QED BY <2>1, <2>2 DEF h
<1>10. Counting'
  <2>1. \A v \in Workers : worker'[v].pc = "count" => Mine(v)' \in history' \ counted'
    BY <1>1, <1>2, <1>9 DEF Safe, CountInv, Counting
  <2>2. \A u, v \in Workers : worker'[u].pc = "count" /\ worker'[v].pc = "count" /\ u # v
                                => Mine(u)' # Mine(v)'
    BY <1>9 DEF Safe, CountInv, Counting
  <2> QED BY <1>1, <1>4, <2>1, <2>2 DEF Counting
<1>11. CountInv'
  BY <1>1, <1>8, <1>10 DEF Safe, CountInv, OneRowEach
<1>12. \A v \in Workers : worker[v].pc = "finalize" => worker[v].d # s.d /\ v # w
  BY <1>1 DEF Safe, Quiet
<1>13. ASSUME Completes(c, n)
       PROVE  /\ AllAnswered(s.d)
              /\ c = Tally(history, s.d)
              /\ RowsOf(history, s.d) \subseteq counted'
  <2> DEFINE H == RowsOf(history, s.d)
             K == RowsOf(counted', s.d)
  <2>1. K \in SUBSET H /\ H \in SUBSET history
    BY <1>2, <1>3, <1>4 DEF RowsOf
  <2>2. IsFiniteSet(H)
    BY <1>4, <2>1, FS_Subset
  <2>3. Cardinality(K) = n
    BY <1>6, <1>13 DEF Completes, Tally
  <2>4. \A k \in H : k.seq \in 0 .. n - 1
    BY DEF RowsOf, Formed, Issued, n
  <2>5. \A k, m \in H : k.seq = m.seq => k = m
    BY DEF RowsOf, Safe, CountInv, OneRowEach
  <2>6. n \in Nat
    BY <1>1
  <2> HIDE DEF H, K
  <2>7. K = H /\ \A q \in 0 .. n - 1 : \E k \in H : k.seq = q
    BY <2>1, <2>2, <2>3, <2>4, <2>5, <2>6, CountedAll
  <2>8. AllAnswered(s.d)
    BY <2>7 DEF AllAnswered, HasHistory, H, RowsOf, n
  <2>9. c = Tally(history, s.d)
    BY <1>6, <2>7, TallyOther DEF H, K
  <2>10. H \subseteq counted'
    BY <2>7 DEF K, RowsOf
  <2> QED BY <2>8, <2>9, <2>10 DEF H
<1>14. \A v \in Workers : worker[v].pc = "count" => Mine(v) \in RowsOf(history, worker[v].d)
  BY DEF Safe, CountInv, Counting, Mine, RowsOf
<1>15. Quiet'
  <2> SUFFICES ASSUME NEW v \in Workers, NEW u \in Workers,
                      worker'[u].pc = "finalize", worker'[v].pc = "count",
                      worker'[v].d = worker'[u].d
               PROVE  FALSE
    BY DEF Quiet
  <2>1. worker'[v] = worker[v] /\ v # w /\ Mine(v)' = Mine(v)
    BY <1>9
  <2>2. CASE u # w
    BY <1>7, <2>1, <2>2 DEF Safe, Quiet
  <2>3. CASE u = w
    <3>1. Completes(c, n) /\ worker[v].d = s.d
      BY <1>5, <1>7, <2>1, <2>3
    <3>2. Mine(v) \in counted'
      BY <1>13, <1>14, <2>1, <3>1
    <3>3. Mine(v) \notin counted'
      BY <1>10, <2>1 DEF Counting
    <3> QED BY <3>2, <3>3
  <2> QED BY <2>2, <2>3
<1>16. VerdictCounted'
  <2> SUFFICES ASSUME NEW v \in Workers, NEW d \in Dispatches,
                      worker'[v].pc = "finalize", worker'[v].d = d
               PROVE  /\ AllAnswered(d)'
                      /\ (Tally(history, d).done = count[d])'
                      /\ worker'[v].verdict = Aggregate(Tally(history, d), count[d])'
                      /\ \A u \in Workers \ {v} : worker'[u].pc = "finalize" => worker'[u].d # d
    BY DEF VerdictCounted
  <2>1. AllAnswered(d)' <=> AllAnswered(d)
    BY <1>1 DEF AllAnswered, HasHistory
  <2>2. /\ Aggregate(Tally(history, d), count[d])' = Aggregate(Tally(history, d), count[d])
        /\ (Tally(history, d).done = count[d])' <=> Tally(history, d).done = count[d]
    BY <1>1 DEF Aggregate, Tally, RowsOf
  <2>3. CASE v = w
    <3>1. Completes(c, n) /\ d = s.d /\ worker'[v].verdict = Aggregate(c, n)
      BY <1>5, <1>7, <2>3
    <3>2. /\ worker'[v].verdict = Aggregate(Tally(history, d), count[d])
          /\ Tally(history, d).done = count[d]
      BY <1>13, <3>1 DEF n, Completes
    <3>3. \A u \in Workers \ {v} : worker'[u].pc = "finalize" => worker'[u].d # d
      BY <1>7, <1>12, <2>3, <3>1
    <3> QED BY <1>13, <2>1, <2>2, <3>1, <3>2, <3>3
  <2>4. CASE v # w
    <3>1. worker[v].pc = "finalize" /\ worker[v].d = d /\ worker'[v] = worker[v] /\ d # s.d
      BY <1>7, <1>12, <2>4
    <3>2. /\ AllAnswered(d)
          /\ Tally(history, d).done = count[d]
          /\ worker[v].verdict = Aggregate(Tally(history, d), count[d])
          /\ \A u \in Workers \ {v} : worker[u].pc = "finalize" => worker[u].d # d
      BY <3>1 DEF Safe, VerdictCounted
    <3>3. \A u \in Workers \ {v} : worker'[u].pc = "finalize" => worker'[u].d # d
      BY <1>5, <1>7, <3>1, <3>2
    <3> QED BY <2>1, <2>2, <3>1, <3>2, <3>3
  <2> QED BY <2>3, <2>4
<1> QED BY <1>11, <1>15, <1>16 DEF Safe

\* Redis loses a counter: the increments it held are forgotten with it.
LEMMA LostStep ==
    ASSUME TypeOK, Formed, Safe, CounterLost
    PROVE  Safe'
<1>1. PICK d \in 1 .. issued : /\ counter' = [counter EXCEPT ![d] = NoCounts]
                               /\ counted' = {h \in counted : h.d # d}
  BY DEF CounterLost
<1>2. UNCHANGED <<history, worker, count>> /\ counter \in [Dispatches -> Counters]
  BY DEF CounterLost, store, TypeOK
<1>3. counted \subseteq history /\ IsFiniteSet(history)
      /\ \A e \in Dispatches : counter[e] = Tally(counted, e)
  BY DEF Safe, CountInv, CounterExact, Counting
<1>4. IsFiniteSet(counted')
  <2>1. counted' \in SUBSET history
    BY <1>1, <1>3
  <2> QED BY <1>3, <2>1, FS_Subset
<1>5. \A e \in Dispatches : counter'[e] = Tally(counted', e)
  <2> SUFFICES ASSUME NEW e \in Dispatches PROVE counter'[e] = Tally(counted', e)
    OBVIOUS
  <2>1. CASE e = d
    <3>1. RowsOf(counted', e) = {}
      BY <1>1, <2>1 DEF RowsOf
    <3>2. Tally(counted', e) = NoCounts
      BY <1>4, <3>1, TallyType
    <3> QED BY <1>1, <1>2, <2>1, <3>2
  <2>2. CASE e # d
    <3>1. RowsOf(counted', e) = RowsOf(counted, e)
      BY <1>1, <2>2 DEF RowsOf
    <3>2. Tally(counted', e) = Tally(counted, e)
      BY <3>1, TallyOther
    <3> QED BY <1>1, <1>2, <1>3, <2>2, <3>2
  <2> QED BY <2>1, <2>2
<1>6. CounterExact'
  BY <1>1, <1>2, <1>3, <1>5 DEF CounterExact
<1>7. Counting'
  BY <1>1, <1>2 DEF Safe, CountInv, Counting, Mine
<1>8. OneRowEach' /\ Quiet'
  BY <1>2 DEF Safe, CountInv, OneRowEach, Quiet
<1>9. VerdictCounted'
  <2>1. \A e \in Dispatches :
           /\ AllAnswered(e)' <=> AllAnswered(e)
           /\ Aggregate(Tally(history, e), count[e])' = Aggregate(Tally(history, e), count[e])
           /\ (Tally(history, e).done = count[e])' <=> Tally(history, e).done = count[e]
    BY <1>2 DEF AllAnswered, HasHistory, Aggregate, Tally, RowsOf
  <2> QED BY <1>2, <2>1 DEF Safe, VerdictCounted
<1> QED BY <1>6, <1>7, <1>8, <1>9 DEF Safe, CountInv

\* The other steps of a worker leave it neither about to count nor about to finalize.
LEMMA WorkerSafe ==
    ASSUME TypeOK, Formed, Safe, NEW w \in Workers,
           \/ Receive(w) \/ Gate(w) \/ Search(w) \/ Defer(w) \/ Finalize(w) \/ Delete(w)
           \/ WorkerCrash(w)
    PROVE  Safe'
<1>1. UNCHANGED <<history, counter, counted, count>>
  BY DEF Receive, Gate, Search, Defer, Finalize, Delete, WorkerCrash, store
<1>2. PICK r : worker' = [worker EXCEPT ![w] = r] /\ r.pc \notin {"count", "finalize"}
  <2>1. CASE Receive(w)
    <3>1. PICK m \in msgs : worker' = [worker EXCEPT ![w] =
                              [IdleWorker EXCEPT !.pc = "gate", !.d = m.d, !.seq = m.seq]]
      BY <2>1 DEF Receive
    <3>2. [IdleWorker EXCEPT !.pc = "gate", !.d = m.d, !.seq = m.seq].pc = "gate"
      BY DEF IdleWorker
    <3> QED BY <3>1, <3>2
  <2>2. CASE Search(w)
    <3>1. PICK x \in Answers :
             worker' = [worker EXCEPT ![w] = [worker[w] EXCEPT !.pc = "history", !.result = x]]
      BY <2>2 DEF Search
    <3>2. [worker[w] EXCEPT !.pc = "history", !.result = x].pc = "history"
      BY DEF TypeOK, WorkerStates
    <3> QED BY <3>1, <3>2
  <2>3. CASE Gate(w) \/ Finalize(w)
    <3>1. \/ worker' = [worker EXCEPT ![w] = [worker[w] EXCEPT !.pc = "search"]]
          \/ worker' = [worker EXCEPT ![w] = [worker[w] EXCEPT !.pc = "delete"]]
      BY <2>3 DEF Gate, Finalize, TypeOK
    <3>2. /\ [worker[w] EXCEPT !.pc = "search"].pc = "search"
          /\ [worker[w] EXCEPT !.pc = "delete"].pc = "delete"
      BY DEF TypeOK, WorkerStates
    <3> QED BY <3>1, <3>2
  <2>4. CASE Defer(w) \/ Delete(w) \/ WorkerCrash(w)
    <3>1. worker' = [worker EXCEPT ![w] = IdleWorker] /\ IdleWorker.pc = "idle"
      BY <2>4 DEF Defer, Delete, WorkerCrash, IdleWorker
    <3> QED BY <3>1
  <2> QED BY <2>1, <2>2, <2>3, <2>4
<1>3. \A v \in Workers : worker'[v] = IF v = w THEN r ELSE worker[v]
  BY <1>2 DEF TypeOK
<1>4. \A v \in Workers : worker'[v].pc \in {"count", "finalize"} => worker'[v] = worker[v]
  BY <1>2, <1>3
<1> QED BY <1>1, <1>4, FrameStep

LEMMA SafeStep ==
    ASSUME TypeOK, Formed, Safe, [Next]_vars
    PROVE  Safe'
<1>1. ASSUME UNCHANGED <<history, counter, counted, worker>>,
             \A e \in 1 .. issued : count'[e] = count[e]
      PROVE  Safe'
  BY <1>1, FrameStep
<1>2. CASE \E o \in Orchestrators : \/ Select(o) \/ SkipGeneration(o) \/ Stamp(o)
                                    \/ Send(o) \/ SendFails(o) \/ OrchestratorCrash(o)
  <2>1. PICK o \in Orchestrators : \/ Select(o) \/ SkipGeneration(o) \/ Stamp(o)
                                   \/ Send(o) \/ SendFails(o) \/ OrchestratorCrash(o)
    BY <1>2
  <2>2. UNCHANGED <<history, counter, counted, worker>>
    BY <2>1 DEF Select, SkipGeneration, Stamp, Send, SendFails, OrchestratorCrash
  <2>3. \A e \in 1 .. issued : count'[e] = count[e]
    <3>1. CASE Stamp(o)
      <4>1. issued \in Nat
        BY DEF TypeOK
      <4>2. CASE StampMatches(o, First(orch[o].todo))
        <5>1. PICK n \in 1 .. MaxQueries :
                 count' = [e \in 1 .. issued + 1 |-> IF e = issued + 1 THEN n ELSE count[e]]
          BY <3>1, <4>2 DEF Stamp
        <5>2. \A e \in 1 .. issued : e \in 1 .. issued + 1 /\ e # issued + 1
          BY <4>1
        <5> QED BY <5>1, <5>2
      <4>3. CASE ~StampMatches(o, First(orch[o].todo))
        BY <3>1, <4>3 DEF Stamp, store
      <4> QED BY <4>2, <4>3
    <3>2. CASE ~Stamp(o)
      BY <2>1, <3>2 DEF Select, SkipGeneration, Send, SendFails, OrchestratorCrash, store
    <3> QED BY <3>1, <3>2
  <2> QED BY <1>1, <2>2, <2>3
<1>3. CASE \E w \in Workers : \/ Receive(w) \/ Gate(w) \/ Search(w) \/ Defer(w)
                              \/ InsertHistory(w) \/ Count(w) \/ Finalize(w)
                              \/ Delete(w) \/ WorkerCrash(w)
  BY <1>3, InsertStep, CountStep, WorkerSafe
<1>4. CASE Redeliver \/ RedeliverEarly \/ DeadLetter
  BY <1>1, <1>4 DEF Redeliver, RedeliverEarly, DeadLetter, store
<1>5. CASE CounterLost
  BY <1>5, LostStep
<1>6. CASE Stop \/ Start
  BY <1>1, <1>6, Zenon DEF Stop, Start, store
<1>7. CASE \E t \in Targets : TimeoutDead(t) \/ TimeoutLive(t) \/ FallDue(t)
  BY <1>1, <1>7 DEF TimeoutDead, TimeoutLive, FallDue
<1>8. CASE UNCHANGED vars
  BY <1>1, <1>8 DEF vars, store
<1> QED BY <1>2, <1>3, <1>4, <1>5, <1>6, <1>7, <1>8 DEF Next

LEMMA InitSafe == Init => Safe
<1> SUFFICES ASSUME Init PROVE Safe
  OBVIOUS
<1>1. IsFiniteSet(history) /\ IsFiniteSet(counted) /\ history = {} /\ counted = {}
  BY FS_EmptySet DEF Init
<1>2. CounterExact
  <2> SUFFICES ASSUME NEW d \in Dispatches PROVE counter[d] = Tally(counted, d)
    BY <1>1 DEF CounterExact
  <2>1. RowsOf(counted, d) = {}
    BY <1>1 DEF RowsOf
  <2>2. Tally(counted, d) = NoCounts
    BY <1>1, <2>1, TallyType
  <2> QED BY <2>2 DEF Init
<1>3. \A w \in Workers : worker[w].pc = "idle"
  BY DEF Init, IdleWorker
<1>4. OneRowEach /\ Counting /\ Quiet
  BY <1>1, <1>3 DEF OneRowEach, Counting, Quiet
<1>5. VerdictCounted
  BY <1>3 DEF VerdictCounted
<1> QED BY <1>2, <1>4, <1>5 DEF Safe, CountInv

-----------------------------------------------------------------------------
(* The invariants.                                                         *)

\* The variables of the sweep cycle keep their types: in particular a dispatch's messages,
\* history rows and workers always name a query that was issued.
THEOREM TypeCorrect == Spec => []TypeOK
<1>1. Init => TypeOK /\ Formed
  BY InitType
<1>2. TypeOK /\ Formed /\ [Next]_vars => (TypeOK /\ Formed)'
  BY TypeStep
<1> QED BY <1>1, <1>2, PTL DEF Spec

LEMMA SafeAlways == Spec => [](TypeOK /\ Formed /\ Safe)
<1>1. Init => TypeOK /\ Formed /\ Safe
  BY InitType, InitSafe
<1>2. TypeOK /\ Formed /\ Safe /\ [Next]_vars => (TypeOK /\ Formed /\ Safe)'
  BY TypeStep, SafeStep
<1> QED BY <1>1, <1>2, PTL DEF Spec

\* The Redis counter of every dispatch equals the committed history rows it stands for,
\* however messages are redelivered, workers crash and counters are lost.
THEOREM CounterCorrect == Spec => []CounterExact
<1>1. TypeOK /\ Formed /\ Safe => CounterExact
  BY DEF Safe, CountInv
<1> QED BY <1>1, SafeAlways, PTL

\* Counts of a nonempty finite set of rows say what the rows amount to.
LEMMA AggregateOutcome ==
    ASSUME NEW d, NEW n \in Nat \ {0}, IsFiniteSet(history), history \subseteq HistoryRows,
           Tally(history, d).done = n
    PROVE  Aggregate(Tally(history, d), n) = Outcome(d)
<1> DEFINE A == RowsOf(history, d)
           C == {k \in A : Staged(k.result)}
           E == {k \in A : Errored(k.result)}
<1>1. IsFiniteSet(A) /\ IsFiniteSet(C) /\ IsFiniteSet(E) /\ E \in SUBSET A
  <2>1. A \in SUBSET history /\ C \in SUBSET history /\ E \in SUBSET history /\ E \in SUBSET A
    BY DEF RowsOf
  <2> QED BY <2>1, FS_Subset
<1>2. Cardinality(A) = n /\ Cardinality(C) \in Nat /\ Cardinality(E) \in Nat
  BY <1>1, FS_CardinalityType DEF Tally
<1>3. Cardinality(C) > 0 <=> \E k \in A : Staged(k.result)
  <2>1. Cardinality(C) = 0 <=> C = {}
    BY <1>1, FS_EmptySet
  <2> QED BY <1>2, <2>1
<1>4. Cardinality(E) >= n <=> \A k \in A : Errored(k.result)
  <2>1. Cardinality(E) <= Cardinality(A) /\ (Cardinality(E) = Cardinality(A) => E = A)
    BY <1>1, FS_Subset
  <2>2. (\A k \in A : Errored(k.result)) => E = A
    OBVIOUS
  <2>3. E = A => \A k \in A : Errored(k.result)
    OBVIOUS
  <2> HIDE DEF A, E
  <2> QED BY <1>2, <2>1, <2>2, <2>3
<1>5. Tally(history, d).candidates = Cardinality(C) /\ Tally(history, d).errors = Cardinality(E)
  BY DEF Tally
<1> HIDE DEF C, E
<1> QED BY <1>2, <1>3, <1>4, <1>5 DEF Aggregate, Outcome

\* Whoever reads the full count and goes to finalize a row is alone, has every answer behind
\* it and carries what exactly those answers amount to.
THEOREM VerdictCorrect == Spec => []VerdictSound
<1>1. TypeOK /\ Formed /\ Safe => VerdictSound
  <2> SUFFICES ASSUME TypeOK, Formed, Safe, NEW w \in Workers, NEW d \in Dispatches,
                      worker[w].pc = "finalize", worker[w].d = d
               PROVE  worker[w].verdict = Outcome(d)
    BY DEF Safe, VerdictCounted, VerdictSound
  <2>1. /\ Tally(history, d).done = count[d]
        /\ worker[w].verdict = Aggregate(Tally(history, d), count[d])
    BY DEF Safe, VerdictCounted
  <2>2. count[d] \in Nat \ {0}
    BY ParamAssumption DEF TypeOK, Formed, Issued
  <2>3. IsFiniteSet(history) /\ history \subseteq HistoryRows
    BY DEF Safe, CountInv, Counting, TypeOK
  <2> QED BY <2>1, <2>2, <2>3, AggregateOutcome
<1> QED BY <1>1, SafeAlways, PTL

-----------------------------------------------------------------------------
(* What a row lets go of.                                                  *)

\* A row carries an issued dispatch; a stamp an orchestrator read is an issued one, and while
\* the row still carries it, it is stale.
Held == /\ \A t \in Targets : row[t].dispatch_id \in 0 .. issued
        /\ \A o \in Orchestrators : \A t \in orch[o].todo :
              /\ orch[o].seen[t] \in 0 .. issued
              /\ orch[o].seen[t] # NoDispatch /\ row[t].dispatch_id = orch[o].seen[t]
                    => row[t].stale

\* A row keeps its dispatch, or a worker about to finalize clears it, or an orchestrator
\* that read the stamp it still carries replaces it by a new one.
Keeps(t) == row'[t].dispatch_id = row[t].dispatch_id /\ (row[t].stale => row'[t].stale)
Clears(t) == /\ row'[t].dispatch_id = NoDispatch
             /\ \E w \in Workers : worker[w].pc = "finalize" /\ worker[w].d = row[t].dispatch_id
Replaces(t) == /\ row'[t].dispatch_id = issued + 1 /\ issued' = issued + 1
               /\ \E o \in Orchestrators : /\ t \in orch[o].todo
                                           /\ row[t].dispatch_id = orch[o].seen[t]

LEMMA RowChange ==
    ASSUME TypeOK, Formed, [Next]_vars, NEW t \in Targets
    PROVE  /\ Keeps(t) \/ Clears(t) \/ Replaces(t)
           /\ issued' = issued \/ issued' = issued + 1
<1>1. CASE UNCHANGED <<row, issued>>
  BY <1>1 DEF Keeps
<1>2. CASE \E o \in Orchestrators : Stamp(o)
  <2>1. PICK o \in Orchestrators : Stamp(o)
    BY <1>2
  <2> DEFINE s == orch[o]
             u == First(s.todo)
  <2>2. s.pc = "stamp" /\ s.todo \in SUBSET Targets /\ s.todo # {}
    BY <2>1 DEF Stamp, TypeOK, Formed, OrchStates
  <2>3. u \in s.todo /\ u \in Targets
    BY <2>2, FirstInSet
  <2>4. CASE ~StampMatches(o, u)
    BY <1>1, <2>1, <2>4 DEF Stamp, store
  <2>5. CASE StampMatches(o, u)
    <3>1. /\ row' = [row EXCEPT ![u] = [row[u] EXCEPT !.dispatch_id = issued + 1, !.stale = FALSE]]
          /\ issued' = issued + 1
      BY <2>1, <2>5 DEF Stamp
    <3>2. CASE t = u
      <4>1. row'[t].dispatch_id = issued + 1
        BY <2>3, <3>1, <3>2 DEF TypeOK, Rows
      <4> QED BY <2>3, <2>5, <3>1, <3>2, <4>1 DEF Replaces, StampMatches
    <3>3. CASE t # u
      BY <3>1, <3>3 DEF Keeps, TypeOK
    <3> QED BY <3>1, <3>2, <3>3
  <2> QED BY <2>4, <2>5
<1>3. CASE \E w \in Workers : Finalize(w)
  <2>1. PICK w \in Workers : Finalize(w)
    BY <1>3
  <2> DEFINE s == worker[w]
             u == owner[s.d]
             k == [dispatch_id |-> NoDispatch, due |-> FALSE, stale |-> FALSE,
                   last_result |-> s.verdict]
  <2>2. issued' = issued /\ s.pc = "finalize"
    BY <2>1 DEF Finalize
  <2>3. CASE StillCurrent(s.d)
    <3>1. row' = [row EXCEPT ![u] = k] /\ row[u].dispatch_id = s.d
      BY <2>1, <2>3 DEF Finalize, StillCurrent
    <3>2. CASE t = u
      BY <2>2, <3>1, <3>2 DEF Clears, TypeOK
    <3>3. CASE t # u
      BY <2>2, <3>1, <3>3 DEF Keeps, TypeOK
    <3> QED BY <3>2, <3>3
  <2>4. CASE ~StillCurrent(s.d)
    BY <1>1, <2>1, <2>4 DEF Finalize
  <2> QED BY <2>3, <2>4
<1>4. CASE \E u \in Targets : TimeoutDead(u) \/ TimeoutLive(u) \/ FallDue(u)
  <2>1. PICK u \in Targets : TimeoutDead(u) \/ TimeoutLive(u) \/ FallDue(u)
    BY <1>4
  <2>2. issued' = issued
    BY <2>1 DEF TimeoutDead, TimeoutLive, FallDue
  <2>3. /\ [row[u] EXCEPT !.stale = TRUE].dispatch_id = row[u].dispatch_id
        /\ [row[u] EXCEPT !.due = TRUE].dispatch_id = row[u].dispatch_id
        /\ [row[u] EXCEPT !.stale = TRUE].stale = TRUE
        /\ [row[u] EXCEPT !.due = TRUE].stale = row[u].stale
    BY DEF TypeOK, Rows
  <2>4. \/ row' = [row EXCEPT ![u] = [row[u] EXCEPT !.stale = TRUE]]
        \/ row' = [row EXCEPT ![u] = [row[u] EXCEPT !.due = TRUE]]
    BY <2>1 DEF TimeoutDead, TimeoutLive, FallDue, TypeOK
  <2>5. Keeps(t)
    <3>1. CASE t = u
      BY <2>3, <2>4, <3>1 DEF Keeps, TypeOK
    <3>2. CASE t # u
      BY <2>4, <3>2 DEF Keeps, TypeOK
    <3> QED BY <3>1, <3>2
  <2> QED BY <2>2, <2>5
<1>5. CASE \E o \in Orchestrators : \/ Select(o) \/ SkipGeneration(o) \/ Send(o)
                                    \/ SendFails(o) \/ OrchestratorCrash(o)
  BY <1>1, <1>5 DEF Select, SkipGeneration, Send, SendFails, OrchestratorCrash, store
<1>6. CASE \E w \in Workers : \/ Receive(w) \/ Gate(w) \/ Search(w) \/ Defer(w)
                              \/ InsertHistory(w) \/ Count(w) \/ Delete(w) \/ WorkerCrash(w)
  BY <1>1, <1>6 DEF Receive, Gate, Search, Defer, InsertHistory, Count, Delete, WorkerCrash, store
<1>7. CASE Redeliver \/ RedeliverEarly \/ DeadLetter \/ CounterLost
  BY <1>1, <1>7 DEF Redeliver, RedeliverEarly, DeadLetter, CounterLost, store
<1>8. CASE Stop \/ Start
  BY <1>1, <1>8, Zenon DEF Stop, Start, store
<1>9. CASE UNCHANGED vars
  BY <1>1, <1>9 DEF vars, store
<1> QED BY <1>2, <1>3, <1>4, <1>5, <1>6, <1>7, <1>8, <1>9 DEF Next

\* A step other than Select gives an orchestrator nothing to work on it did not have.
Shrinks(o) == \A t \in orch'[o].todo : t \in orch[o].todo /\ orch'[o].seen[t] = orch[o].seen[t]

LEMMA OrchChange ==
    ASSUME TypeOK, Formed, [Next]_vars, NEW p \in Orchestrators
    PROVE  Shrinks(p) \/ Select(p)
<1>1. CASE UNCHANGED orch
  BY <1>1 DEF Shrinks
<1>2. ASSUME NEW o \in Orchestrators, orch[o].pc # "idle",
             \/ orch' = [orch EXCEPT ![o] = After(orch[o])]
             \/ orch' = [orch EXCEPT ![o] = IdleOrch]
      PROVE  Shrinks(p)
  <2> DEFINE s == orch[o]
  <2>1. s \in OrchStates
    BY DEF TypeOK
  <2>2. IdleOrch.todo = {}
    BY DEF IdleOrch
  <2>3. \A t \in After(s).todo : t \in s.todo /\ After(s).seen[t] = s.seen[t]
    BY <2>1, <2>2 DEF After, OrchStates
  <2>4. orch'[p] = orch[p] \/ (p = o /\ (orch'[p] = After(s) \/ orch'[p] = IdleOrch))
    BY <1>2 DEF TypeOK
  <2> QED BY <2>2, <2>3, <2>4 DEF Shrinks
<1>3. CASE \E o \in Orchestrators : SkipGeneration(o) \/ SendFails(o) \/ OrchestratorCrash(o)
  <2>1. PICK o \in Orchestrators : SkipGeneration(o) \/ SendFails(o) \/ OrchestratorCrash(o)
    BY <1>3
  <2>2. orch[o].pc # "idle"
    BY <2>1 DEF SkipGeneration, SendFails, OrchestratorCrash
  <2>3. \/ orch' = [orch EXCEPT ![o] = After(orch[o])]
        \/ orch' = [orch EXCEPT ![o] = IdleOrch]
    BY <2>1 DEF SkipGeneration, SendFails, OrchestratorCrash
  <2> QED BY <1>2, <2>2, <2>3
<1>4. CASE \E o \in Orchestrators : Send(o)
  <2>1. PICK o \in Orchestrators : Send(o)
    BY <1>4
  <2> DEFINE s == orch[o]
             r == [s EXCEPT !.next = s.next + 1]
  <2>2. s \in OrchStates /\ s.pc # "idle"
    BY <2>1 DEF TypeOK, Send
  <2>3. r.todo = s.todo /\ r.seen = s.seen
    BY <2>2 DEF OrchStates
  <2>4. orch' = [orch EXCEPT ![o] = After(s)] \/ orch' = [orch EXCEPT ![o] = r]
    BY <2>1 DEF Send
  <2> HIDE DEF r
  <2>5. CASE orch' = [orch EXCEPT ![o] = r]
    BY <2>3, <2>5 DEF Shrinks, TypeOK
  <2> QED BY <1>2, <2>2, <2>4, <2>5
<1>5. CASE \E o \in Orchestrators : Stamp(o)
  <2>1. PICK o \in Orchestrators : Stamp(o)
    BY <1>5
  <2> DEFINE s == orch[o]
             r == Sending(s, issued + 1)
  <2>2. s \in OrchStates /\ s.pc # "idle" /\ issued \in 0 .. MaxDispatch /\ MaxDispatch \in Nat
    BY <2>1, ParamAssumption DEF TypeOK, Stamp
  <2>3. r.todo = s.todo /\ r.seen = s.seen
    BY <2>2 DEF OrchStates, Sending
  <2>4. orch' = [orch EXCEPT ![o] = After(s)] \/ orch' = [orch EXCEPT ![o] = r]
    BY <2>1 DEF Stamp
  <2> HIDE DEF r
  <2>5. CASE orch' = [orch EXCEPT ![o] = r]
    BY <2>3, <2>5 DEF Shrinks, TypeOK
  <2> QED BY <1>2, <2>2, <2>4, <2>5
<1>6. CASE \E o \in Orchestrators : Select(o)
  <2>1. PICK o \in Orchestrators : Select(o)
    BY <1>6
  <2>2. CASE p = o
    BY <2>1, <2>2
  <2>3. CASE p # o
    BY <2>1, <2>3 DEF Select, Shrinks, TypeOK
  <2> QED BY <2>2, <2>3
<1>7. CASE \E w \in Workers : \/ Receive(w) \/ Gate(w) \/ Search(w) \/ Defer(w)
                              \/ InsertHistory(w) \/ Count(w) \/ Finalize(w)
                              \/ Delete(w) \/ WorkerCrash(w)
  BY <1>1, <1>7 DEF Receive, Gate, Search, Defer, InsertHistory, Count, Finalize, Delete, WorkerCrash
<1>8. CASE Redeliver \/ RedeliverEarly \/ DeadLetter \/ CounterLost
  BY <1>1, <1>8 DEF Redeliver, RedeliverEarly, DeadLetter, CounterLost
<1>9. CASE Stop \/ Start
  BY <1>1, <1>9, Zenon DEF Stop, Start
<1>10. CASE \E t \in Targets : TimeoutDead(t) \/ TimeoutLive(t) \/ FallDue(t)
  BY <1>1, <1>10 DEF TimeoutDead, TimeoutLive, FallDue
<1>11. CASE UNCHANGED vars
  BY <1>1, <1>11 DEF vars
<1> QED BY <1>3, <1>4, <1>5, <1>6, <1>7, <1>8, <1>9, <1>10, <1>11 DEF Next

LEMMA HeldStep ==
    ASSUME TypeOK, Formed, Held, [Next]_vars
    PROVE  Held'
<1>1. issued \in Nat
  BY DEF TypeOK
<1>2. \A t \in Targets : \/ Keeps(t)
                         \/ row'[t].dispatch_id = NoDispatch
                         \/ row'[t].dispatch_id = issued + 1 /\ issued' = issued + 1
  BY RowChange DEF Clears, Replaces
<1>3. ASSUME NEW t \in Targets
      PROVE  issued' = issued \/ issued' = issued + 1
  BY RowChange
<1>4. \A t \in Targets : row'[t].dispatch_id \in 0 .. issued'
  BY <1>1, <1>2, <1>3 DEF Held, Keeps, NoDispatch
<1>5. ASSUME NEW o \in Orchestrators, NEW t \in orch'[o].todo
      PROVE  /\ orch'[o].seen[t] \in 0 .. issued'
             /\ orch'[o].seen[t] # NoDispatch /\ row'[t].dispatch_id = orch'[o].seen[t]
                   => row'[t].stale
  <2>1. CASE Select(o)
    <3>1. UNCHANGED <<row, issued>> /\ orch'[o].todo = Batch
          /\ orch'[o].seen = [u \in Targets |-> row[u].dispatch_id]
      BY <2>1 DEF Select, store, TypeOK
    <3>2. t \in Targets /\ (row[t].dispatch_id = NoDispatch \/ row[t].stale)
      BY <1>5, <3>1 DEF Batch, Eligible
    <3> QED BY <3>1, <3>2 DEF Held
  <2>2. CASE Shrinks(o)
    <3>1. t \in orch[o].todo /\ orch'[o].seen[t] = orch[o].seen[t]
      BY <1>5, <2>2 DEF Shrinks
    <3>2. t \in Targets
      BY <3>1 DEF TypeOK, OrchStates
    <3>3. /\ orch[o].seen[t] \in 0 .. issued
          /\ orch[o].seen[t] # NoDispatch /\ row[t].dispatch_id = orch[o].seen[t] => row[t].stale
      BY <3>1 DEF Held
    <3> QED BY <1>1, <1>2, <1>3, <3>1, <3>2, <3>3 DEF Keeps, NoDispatch
  <2> QED BY <2>1, <2>2, OrchChange
<1> QED BY <1>4, <1>5 DEF Held

LEMMA HeldAlways == Spec => [](TypeOK /\ Formed /\ Safe /\ Held)
<1>1. Init => TypeOK /\ Formed /\ Safe /\ Held
  <2>1. Init => Held
    BY DEF Init, Held, IdleOrch, NoDispatch
  <2> QED BY <2>1, InitType, InitSafe
<1>2. TypeOK /\ Formed /\ Safe /\ Held /\ [Next]_vars => (TypeOK /\ Formed /\ Safe /\ Held)'
  BY TypeStep, SafeStep, HeldStep
<1> QED BY <1>1, <1>2, PTL DEF Spec

LEMMA LetsGoStep ==
    ASSUME TypeOK, Formed, Safe, Held, [Next]_vars, NEW t \in Targets,
           row[t].dispatch_id # NoDispatch, row'[t].dispatch_id # row[t].dispatch_id
    PROVE  \/ row[t].stale /\ row'[t].dispatch_id # NoDispatch
           \/ row'[t].dispatch_id = NoDispatch /\ AllAnswered(row[t].dispatch_id)
<1>1. row[t].dispatch_id \in Dispatches /\ issued \in Nat
  BY ParamAssumption DEF TypeOK, Rows, Dispatches, NoDispatch
<1>2. CASE Clears(t)
  BY <1>1, <1>2 DEF Clears, Safe, VerdictCounted
<1>3. CASE Replaces(t)
  BY <1>1, <1>3 DEF Replaces, Held, NoDispatch
<1> QED BY <1>2, <1>3, RowChange DEF Keeps

\* No late worker of an old dispatch, and no second orchestrator, takes a live dispatch off a
\* row: a row lets go of a dispatch when it is replaced after its timeout, or when every query
\* of it has been answered.
THEOREM LetsGoCorrect == Spec => LetsGoOnlyWhenDone
<1> DEFINE Lets(t) == LET d == row[t].dispatch_id
                      IN d # NoDispatch /\ row'[t].dispatch_id # d =>
                           \/ row[t].stale /\ row'[t].dispatch_id # NoDispatch
                           \/ row'[t].dispatch_id = NoDispatch /\ AllAnswered(d)
<1>1. TypeOK /\ Formed /\ Safe /\ Held /\ [Next]_vars => [\A t \in Targets : Lets(t)]_vars
  BY LetsGoStep
<1>2. [][\A t \in Targets : Lets(t)]_vars => LetsGoOnlyWhenDone
  BY PTL DEF LetsGoOnlyWhenDone
<1> QED BY <1>1, <1>2, HeldAlways, PTL DEF Spec

-----------------------------------------------------------------------------
(* One orchestrator stamps due rows only.                                  *)

\* The targets of a cycle that are still to be stamped.
Ahead(s) == IF s.pc = "send" THEN s.todo \ {First(s.todo)} ELSE s.todo

\* A target that was free when it was read is free still, and one that is as it was read is due.
Awake(o) == \A t \in Ahead(orch[o]) :
    /\ orch[o].seen[t] = NoDispatch => row[t].dispatch_id = NoDispatch
    /\ row[t].dispatch_id = orch[o].seen[t] => row[t].due

\* What can become of a row: it stays as it is, is finalized, or is stamped by the orchestrator
\* whose turn it is.
Rests(t)  == row'[t].dispatch_id = row[t].dispatch_id /\ (row[t].due => row'[t].due)
Settled(t) == row[t].dispatch_id # NoDispatch /\ row'[t].dispatch_id = NoDispatch
IsStamped(t) == \E o \in Orchestrators :
    Stamp(o) /\ t = First(orch[o].todo) /\ row[t].dispatch_id = orch[o].seen[t]

LEMMA DueChange ==
    ASSUME TypeOK, Formed, [Next]_vars, NEW t \in Targets
    PROVE  Rests(t) \/ Settled(t) \/ IsStamped(t)
<1>1. CASE UNCHANGED row
  BY <1>1 DEF Rests
<1>2. ASSUME NEW o \in Orchestrators, Stamp(o) PROVE Rests(t) \/ IsStamped(t)
  <2>1. CASE StampMatches(o, First(orch[o].todo)) /\ t = First(orch[o].todo)
    BY <1>2, <2>1 DEF IsStamped, StampMatches
  <2>2. CASE StampMatches(o, First(orch[o].todo)) /\ t # First(orch[o].todo)
    BY <1>2, <2>2 DEF Stamp, Rests, TypeOK
  <2>3. CASE ~StampMatches(o, First(orch[o].todo))
    <3>1. UNCHANGED row
      BY <1>2, <2>3 DEF Stamp, store
    <3> QED BY <3>1 DEF Rests
  <2> QED BY <2>1, <2>2, <2>3
<1>3. ASSUME NEW w \in Workers, Finalize(w) PROVE Rests(t) \/ Settled(t)
  <2>1. worker[w].d # NoDispatch
    BY <1>3 DEF Finalize, Formed, Issued, NoDispatch, TypeOK
  <2>2. CASE StillCurrent(worker[w].d) /\ t = owner[worker[w].d]
    BY <1>3, <2>1, <2>2 DEF Finalize, StillCurrent, Settled, TypeOK
  <2>3. CASE StillCurrent(worker[w].d) /\ t # owner[worker[w].d]
    BY <1>3, <2>3 DEF Finalize, Rests, TypeOK
  <2>4. CASE ~StillCurrent(worker[w].d)
    <3>1. UNCHANGED row
      BY <1>3, <2>4 DEF Finalize
    <3> QED BY <3>1 DEF Rests
  <2> QED BY <2>2, <2>3, <2>4
<1>4. ASSUME NEW u \in Targets, TimeoutDead(u) \/ TimeoutLive(u) \/ FallDue(u) PROVE Rests(t)
  <2>1. /\ [row[u] EXCEPT !.stale = TRUE].dispatch_id = row[u].dispatch_id
        /\ [row[u] EXCEPT !.stale = TRUE].due = row[u].due
        /\ [row[u] EXCEPT !.due = TRUE].dispatch_id = row[u].dispatch_id
        /\ [row[u] EXCEPT !.due = TRUE].due
    BY DEF TypeOK, Rows
  <2>2. \/ row' = [row EXCEPT ![u] = [row[u] EXCEPT !.stale = TRUE]]
        \/ row' = [row EXCEPT ![u] = [row[u] EXCEPT !.due = TRUE]]
    BY <1>4 DEF TimeoutDead, TimeoutLive, FallDue, TypeOK
  <2>3. CASE t = u
    BY <2>1, <2>2, <2>3 DEF Rests, TypeOK
  <2>4. CASE t # u
    BY <2>2, <2>4 DEF Rests, TypeOK
  <2> QED BY <2>3, <2>4
<1>5. CASE \E o \in Orchestrators : \/ Select(o) \/ SkipGeneration(o) \/ Send(o)
                                    \/ SendFails(o) \/ OrchestratorCrash(o)
  BY <1>1, <1>5 DEF Select, SkipGeneration, Send, SendFails, OrchestratorCrash, store
<1>6. CASE \E w \in Workers : \/ Receive(w) \/ Gate(w) \/ Search(w) \/ Defer(w)
                              \/ InsertHistory(w) \/ Count(w) \/ Delete(w) \/ WorkerCrash(w)
  BY <1>1, <1>6 DEF Receive, Gate, Search, Defer, InsertHistory, Count, Delete, WorkerCrash, store
<1>7. CASE Redeliver \/ RedeliverEarly \/ DeadLetter \/ CounterLost
  BY <1>1, <1>7 DEF Redeliver, RedeliverEarly, DeadLetter, CounterLost, store
<1>8. CASE Stop \/ Start
  BY <1>1, <1>8, Zenon DEF Stop, Start, store
<1>9. CASE UNCHANGED vars
  BY <1>1, <1>9 DEF vars, store
<1> QED BY <1>2, <1>3, <1>4, <1>5, <1>6, <1>7, <1>8, <1>9 DEF Next

\* A cycle goes forward: what is ahead was ahead, unless it has just been selected, and a target
\* is not ahead once its turn to be stamped has come.
LEMMA AheadChange ==
    ASSUME TypeOK, Formed, [Next]_vars, NEW o, Orchestrators = {o}, NEW t \in Ahead(orch'[o])
    PROVE  \/ Select(o)
           \/ /\ t \in Ahead(orch[o]) /\ orch'[o].seen[t] = orch[o].seen[t]
              /\ Stamp(o) => t # First(orch[o].todo)
<1> DEFINE s == orch[o]
<1>0. s \in OrchStates /\ o \in Orchestrators
  BY DEF TypeOK
<1>1. CASE UNCHANGED orch /\ ~Stamp(o)
  BY <1>1
<1>2. ASSUME s.pc # "idle", orch'[o] = After(s) \/ orch'[o] = IdleOrch
      PROVE  t \in Ahead(s) /\ orch'[o].seen[t] = s.seen[t] /\ t # First(s.todo)
  <2>1. IdleOrch.todo = {} /\ IdleOrch.pc = "idle"
    BY DEF IdleOrch
  <2>2. After(s).pc # "send"
    BY <1>0, <1>2, AfterType DEF Formed
  <2>3. \A u \in After(s).todo : u \in s.todo \ {First(s.todo)} /\ After(s).seen[u] = s.seen[u]
    BY <1>0, <2>1 DEF After, OrchStates
  <2> QED BY <1>2, <2>1, <2>2, <2>3 DEF Ahead
<1>3. CASE SkipGeneration(o) \/ SendFails(o) \/ OrchestratorCrash(o)
  BY <1>0, <1>2, <1>3 DEF SkipGeneration, SendFails, OrchestratorCrash, TypeOK
<1>4. CASE Send(o)
  <2> DEFINE r == [s EXCEPT !.next = s.next + 1]
  <2>1. s.pc = "send" /\ (orch'[o] = After(s) \/ orch'[o] = r)
    BY <1>0, <1>4 DEF Send, TypeOK
  <2>2. r.todo = s.todo /\ r.seen = s.seen /\ r.pc = s.pc
    BY <1>0 DEF OrchStates
  <2>3. ~Stamp(o)
    BY <2>1 DEF Stamp
  <2> HIDE DEF r
  <2>4. CASE orch'[o] = r
    BY <2>2, <2>3, <2>4 DEF Ahead
  <2> QED BY <1>2, <2>1, <2>4
<1>5. CASE Stamp(o)
  <2> DEFINE r == Sending(s, issued + 1)
  <2>1. s.pc = "stamp" /\ (orch'[o] = After(s) \/ orch'[o] = r)
    BY <1>0, <1>5 DEF Stamp, TypeOK
  <2>2. r.todo = s.todo /\ r.seen = s.seen /\ r.pc = "send"
    BY <1>0 DEF OrchStates, Sending
  <2> HIDE DEF r
  <2>3. CASE orch'[o] = r
    BY <2>1, <2>2, <2>3 DEF Ahead
  <2> QED BY <1>2, <2>1, <2>3
<1>6. CASE Select(o)
  BY <1>6
<1>7. ASSUME UNCHANGED orch
      PROVE  t \in Ahead(orch[o]) /\ orch'[o].seen[t] = orch[o].seen[t] /\ (Stamp(o) => t # First(orch[o].todo))
  <2>1. CASE Stamp(o)
    BY <1>5, <2>1, <1>7 DEF Stamp, Sending, Select
  <2>2. CASE ~Stamp(o)
    BY <1>7, <2>2
  <2> QED BY <2>1, <2>2
<1>8. CASE \E w \in Workers : \/ Receive(w) \/ Gate(w) \/ Search(w) \/ Defer(w)
                              \/ InsertHistory(w) \/ Count(w) \/ Finalize(w)
                              \/ Delete(w) \/ WorkerCrash(w)
  BY <1>7, <1>8 DEF Receive, Gate, Search, Defer, InsertHistory, Count, Finalize, Delete, WorkerCrash
<1>9. CASE Redeliver \/ RedeliverEarly \/ DeadLetter \/ CounterLost
  BY <1>7, <1>9 DEF Redeliver, RedeliverEarly, DeadLetter, CounterLost
<1>10. CASE Stop \/ Start
  BY <1>7, <1>10, Zenon DEF Stop, Start
<1>11. CASE \E u \in Targets : TimeoutDead(u) \/ TimeoutLive(u) \/ FallDue(u)
  BY <1>7, <1>11 DEF TimeoutDead, TimeoutLive, FallDue
<1>12. CASE UNCHANGED vars
  BY <1>7, <1>12 DEF vars
<1> QED BY <1>3, <1>4, <1>5, <1>6, <1>8, <1>9, <1>10, <1>11, <1>12 DEF Next

LEMMA AwakeStep ==
    ASSUME NEW o, Orchestrators = {o}, TypeOK, Formed, Awake(o), [Next]_vars
    PROVE  Awake(o)'
<1> SUFFICES ASSUME NEW t \in Ahead(orch'[o])
             PROVE  /\ orch'[o].seen[t] = NoDispatch => row'[t].dispatch_id = NoDispatch
                    /\ row'[t].dispatch_id = orch'[o].seen[t] => row'[t].due
  BY DEF Awake
<1>1. CASE Select(o)
  <2>1. /\ UNCHANGED row /\ orch'[o].todo = Batch /\ orch'[o].pc = "stamp"
        /\ orch'[o].seen = [u \in Targets |-> row[u].dispatch_id]
    BY <1>1 DEF Select, store, TypeOK
  <2>2. t \in Targets /\ row[t].due
    BY <2>1 DEF Ahead, Batch, Eligible
  <2> QED BY <2>1, <2>2
<1>2. CASE ~Select(o)
  <2>1. /\ t \in Ahead(orch[o]) /\ orch'[o].seen[t] = orch[o].seen[t]
        /\ Stamp(o) => t # First(orch[o].todo)
    BY <1>2, AheadChange
  <2>2. t \in Targets
    BY <2>1 DEF Ahead, TypeOK, OrchStates
  <2>3. ~IsStamped(t)
    BY <2>1 DEF IsStamped
  <2>4. Rests(t) \/ Settled(t)
    BY <2>2, <2>3, DueChange
  <2> QED BY <2>1, <2>4 DEF Awake, Rests, Settled
<1> QED BY <1>1, <1>2

\* With one orchestrator, between the read of the due rows and the stamp no verdict moves the due
\* date of a row that is then stamped: a free row stays free, and one that a late worker settles
\* no longer carries the stamp that was read.
THEOREM StampsAreDue ==
    ASSUME NEW o, Orchestrators = {o}
    PROVE  Spec => StampsOnlyDue
<1> DEFINE Due(t) == row'[t].dispatch_id \notin {NoDispatch, row[t].dispatch_id} => row[t].due
<1>1. Init => TypeOK /\ Formed /\ Awake(o)
  <2>1. Init => Awake(o)
    BY DEF Init, Awake, Ahead, IdleOrch
  <2> QED BY <2>1, InitType
<1>2. TypeOK /\ Formed /\ Awake(o) /\ [Next]_vars => (TypeOK /\ Formed /\ Awake(o))'
  BY TypeStep, AwakeStep
<1>3. TypeOK /\ Formed /\ Awake(o) /\ [Next]_vars => \A t \in Targets : Due(t)
  <2> SUFFICES ASSUME TypeOK, Formed, Awake(o), [Next]_vars, NEW t \in Targets,
                      row'[t].dispatch_id \notin {NoDispatch, row[t].dispatch_id}
               PROVE  row[t].due
    OBVIOUS
  <2>1. Stamp(o) /\ t = First(orch[o].todo) /\ row[t].dispatch_id = orch[o].seen[t]
    BY DueChange DEF Rests, Settled, IsStamped
  <2>2. orch[o].pc = "stamp" /\ orch[o].todo \in SUBSET Targets /\ orch[o].todo # {}
    BY <2>1 DEF Stamp, Formed, TypeOK, OrchStates
  <2>3. t \in Ahead(orch[o])
    BY <2>1, <2>2, FirstInSet DEF Ahead
  <2> QED BY <2>1, <2>3 DEF Awake
<1> QED BY <1>1, <1>2, <1>3, PTL DEF Spec, StampsOnlyDue
==============================================================================
