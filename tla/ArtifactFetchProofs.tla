-------------------------- MODULE ArtifactFetchProofs --------------------------
(***************************************************************************)
(* Theorems about ArtifactFetch, for any number of stagers and of fetch    *)
(* workers, any set of URLs and contents and any number of attempts,       *)
(* redeliveries and faults.                                                *)
(***************************************************************************)
EXTENDS ArtifactFetch, FiniteSetTheorems, NaturalsInduction, TLAPS

-----------------------------------------------------------------------------
(* The inductive invariant.                                                *)

\* A row that is tried again has attempts left, and no content yet.
Open(r) == r \in Rows /\ r.status = "pending" /\ r.attempts < AttemptLimit /\ r.sha256 = None

Hashed  == {"redis", "backstop", "heal", "duplicate", "put", "commit", "setnx"}

Stagings  == [pc : {"idle", "insert", "setnx", "stamp", "send"}, url : Urls \cup {None},
              id : 0 .. MaxArtifact, d : 0 .. MaxPublish]
Recons    == [pc : {"idle", "stamp", "send"}, todo : SUBSET Ids, d : 0 .. MaxPublish]
Fetchings == [pc : {"idle", "gate", "get", "drop", "attempt", "not_document", "redis", "backstop",
                    "heal", "duplicate", "put", "commit", "setnx", "delete"},
              id : 0 .. MaxArtifact, d : 0 .. MaxPublish, mine : Rows \cup {NoRow},
              sha : Contents \cup {None}]
StagerAt(c)  == /\ c \in Stagings
                /\ c.pc # "idle" => c.url \in Urls
                /\ c.pc \in {"setnx", "stamp", "send"} => c.id \in Ids
                /\ c.pc = "send" => c.d \in 1 .. MaxPublish
ReconAt(c)   == /\ c \in Recons
                /\ c.pc # "idle" => c.todo # {}
                /\ c.pc = "send" => c.d \in 1 .. MaxPublish
FetcherAt(c) == /\ c \in Fetchings
                /\ c.pc # "idle" => c.id \in Ids /\ c.d \in 1 .. MaxPublish
                /\ c.pc \in Judging => Open(c.mine)
                /\ c.pc \in Hashed => c.sha \in Contents

TableTyped == /\ artifact \in [Ids -> Rows \cup {NoRow}]
              /\ \A i \in Ids : Pending(i) => Open(artifact[i])
              /\ inserted \in 0 .. MaxArtifact /\ published \in 0 .. MaxPublish
StoresTyped == /\ urlKeys \subseteq Urls /\ docKeys \subseteq Contents /\ objects \subseteq Contents
               /\ msgs \subseteq Messages /\ running \in BOOLEAN /\ faults \in 0 .. MaxFaults
ActorsTyped == /\ stager \in [Stagers -> Stagings] /\ fetcher \in [Fetchers -> Fetchings]
               /\ \A t \in Stagers : StagerAt(stager[t])
               /\ \A f \in Fetchers : FetcherAt(fetcher[f])
               /\ ReconAt(recon)
Typed == TableTyped /\ StoresTyped /\ ActorsTyped

\* Ids are issued in order.
InOrder == \A i \in Ids : Exists(i) => i <= inserted

\* Bytes somebody holds a key, a row or a verdict for are stored.
Stored == /\ docKeys \subseteq objects
          /\ \A i \in Ids : artifact[i].sha256 # None => artifact[i].sha256 \in objects
          /\ \A f \in Fetchers : fetcher[f].pc \in {"heal", "duplicate", "commit", "setnx"} =>
                                    fetcher[f].sha \in objects

\* Dispatch ids: a judging worker works for the stamp it read, and an id is sent once, by the one
\* actor that has stamped it and not sent it yet.
Reads == \A f \in Fetchers : fetcher[f].pc \in Judging => fetcher[f].mine.dispatch_id = fetcher[f].d
Fresh(d) == /\ \A m \in msgs : m.d # d
            /\ \A f \in Fetchers : fetcher[f].pc # "idle" => fetcher[f].d # d
SentOnce ==
    /\ \A m \in msgs : m.d <= published
    /\ \A f \in Fetchers : fetcher[f].pc # "idle" => fetcher[f].d <= published
    /\ \A t \in Stagers : stager[t].pc = "send" =>
         /\ stager[t].d <= published /\ Fresh(stager[t].d)
         /\ recon.pc = "send" => recon.d # stager[t].d
         /\ \A b \in Stagers \ {t} : stager[b].pc = "send" => stager[b].d # stager[t].d
    /\ recon.pc = "send" => recon.d <= published /\ Fresh(recon.d)

\* Without a fault a dispatch is in the queue once and with one worker at a time.
HeldOnce ==
    /\ \A m, n \in msgs : m.d = n.d => m = n
    /\ \A f \in Fetchers : fetcher[f].pc # "idle" =>
         /\ \A m \in msgs : m.visible => m.d # fetcher[f].d
         /\ \A g \in Fetchers \ {f} : fetcher[g].pc # "idle" => fetcher[g].d # fetcher[f].d

\* A worker still judging a row that is settled works for another dispatch than its stamp names.
Other == \A f \in Fetchers : fetcher[f].pc \in Judging /\ Settled(fetcher[f].id) =>
             artifact[fetcher[f].id].dispatch_id # fetcher[f].d

\* The rows that keep a content or are about to.
Copies(c) == Keepers(c) \cup {fetcher[f].id : f \in Storing(c)}

-----------------------------------------------------------------------------
(* Helpers.                                                                *)

\* A set of ids that is not empty has a least member.
LEMMA LeastIs ==
    ASSUME NEW S \in SUBSET Ids, S # {}
    PROVE  Least(S) \in S
<1>1. S \subseteq Nat
  BY ParamAssumption DEF Ids
<1>2. PICK i \in S : \A j \in S : ~(<<j, i>> \in OpToRel(<, Nat))
  BY <1>1, NatLessThanWellFounded, WFMin
<1>3. \A j \in S : i <= j
  <2> SUFFICES ASSUME NEW j \in S PROVE i <= j
    OBVIOUS
  <2>1. i \in Nat /\ j \in Nat
    BY <1>1
  <2>2. ~(j < i)
    BY <1>2, <2>1 DEF OpToRel
  <2> QED BY <2>1, <2>2
<1> QED BY <1>3 DEF Least

LEMMA EmptyRow ==
    /\ NoRow.url = None /\ NoRow.status = None /\ NoRow.attempts = 0 /\ NoRow.sha256 = None
    /\ NoRow.status \notin Statuses
    /\ NoRow \notin Rows
BY ParamAssumption DEF NoRow, None, Rows, Statuses

\* What a row is after each of the updates.
LEMMA Updates ==
    ASSUME NEW r \in Rows
    PROVE  /\ \A d \in 0 .. MaxPublish :
                LET t == [r EXCEPT !.dispatch_id = d, !.stale = FALSE]
                IN t \in Rows /\ t.status = r.status /\ t.attempts = r.attempts /\ t.sha256 = r.sha256
           /\ LET t == [r EXCEPT !.stale = TRUE]
              IN t \in Rows /\ t.status = r.status /\ t.attempts = r.attempts /\ t.sha256 = r.sha256
<1>1. ASSUME NEW d \in 0 .. MaxPublish, NEW t, t = [r EXCEPT !.dispatch_id = d, !.stale = FALSE]
      PROVE  t \in Rows /\ t.status = r.status /\ t.attempts = r.attempts /\ t.sha256 = r.sha256
  BY <1>1 DEF Rows
<1>2. ASSUME NEW t, t = [r EXCEPT !.stale = TRUE]
      PROVE  t \in Rows /\ t.status = r.status /\ t.attempts = r.attempts /\ t.sha256 = r.sha256
  BY <1>2 DEF Rows
<1> QED BY <1>1, <1>2

\* A new row, and what a verdict makes of the row the worker read.
New(u) == [NoRow EXCEPT !.url = u, !.status = "pending"]
LEMMA NewIs ==
    ASSUME NEW u \in Urls
    PROVE  Open(New(u)) /\ New(u) # NoRow
<1>1. New(u) \in Rows
  <2>1. 0 \in 0 .. AttemptLimit /\ NoDispatch \in 0 .. MaxPublish
    BY ParamAssumption DEF NoDispatch
  <2>2. NoRow \in [url : {None}, status : {None}, attempts : 0 .. AttemptLimit,
                   sha256 : {None}, dispatch_id : 0 .. MaxPublish, stale : BOOLEAN]
    BY <2>1 DEF NoRow
  <2> QED BY <2>2 DEF New, Rows, Statuses
<1>2. New(u).status = "pending" /\ New(u).attempts = 0 /\ New(u).sha256 = None
  BY DEF New, NoRow
<1>3. New(u) # NoRow
  BY <1>1, EmptyRow
<1> QED BY <1>1, <1>2, <1>3, ParamAssumption DEF Open

LEMMA VerdictIs ==
    ASSUME NEW c, FetcherAt(c), c.pc \in {"attempt", "not_document", "duplicate", "commit"}
    PROVE  /\ Verdict(c) \in Rows
           /\ Verdict(c).status = "pending" => Open(Verdict(c))
           /\ c.pc \in {"attempt", "not_document"} =>
                Verdict(c).sha256 = None /\ Verdict(c).status \in {"pending", "failed", "not_document"}
           /\ c.pc = "duplicate" => Verdict(c).sha256 = c.sha /\ Verdict(c).status = "duplicate"
           /\ c.pc = "commit" => Verdict(c).sha256 = c.sha /\ Verdict(c).status = "fetched"
           /\ Verdict(c).status # "pending" => Verdict(c).dispatch_id = c.mine.dispatch_id
<1> DEFINE r == c.mine
<1>1. r \in Rows /\ r.status = "pending" /\ r.attempts < AttemptLimit /\ r.sha256 = None
  BY DEF FetcherAt, Judging, Open
<1>2. CASE c.pc = "attempt"
  <2> DEFINE n == r.attempts + 1
  <2>1. Verdict(c) = Tried(r)
    BY <1>2 DEF Verdict
  <2>2. n \in 0 .. AttemptLimit
    BY <1>1, ParamAssumption DEF Rows
  <2>3. CASE n >= AttemptLimit
    <3>1. Tried(r) = [r EXCEPT !.attempts = n, !.status = "failed"]
      BY <2>3 DEF Tried
    <3>2. Tried(r) \in Rows /\ Tried(r).status = "failed" /\ Tried(r).sha256 = None
         /\ Tried(r).dispatch_id = r.dispatch_id
      BY <1>1, <2>2, <3>1 DEF Rows, Statuses
    <3> QED BY <1>2, <2>1, <3>2
  <2>4. CASE ~(n >= AttemptLimit)
    <3>1. Tried(r) = [r EXCEPT !.attempts = n, !.dispatch_id = NoDispatch, !.stale = FALSE]
      BY <2>4 DEF Tried
    <3>2. NoDispatch \in 0 .. MaxPublish
      BY ParamAssumption DEF NoDispatch
    <3>3. /\ Tried(r) \in Rows /\ Tried(r).status = "pending" /\ Tried(r).sha256 = None
          /\ Tried(r).attempts = n
      BY <1>1, <2>2, <3>1, <3>2 DEF Rows
    <3>4. n < AttemptLimit
      BY <2>2, <2>4, ParamAssumption
    <3> QED BY <1>2, <2>1, <3>3, <3>4 DEF Open
  <2> QED BY <2>3, <2>4
<1>3. CASE c.pc = "not_document"
  <2>1. Verdict(c) = [r EXCEPT !.status = "not_document"]
    BY <1>3 DEF Verdict
  <2>2. Verdict(c) \in Rows /\ Verdict(c).status = "not_document" /\ Verdict(c).sha256 = None
         /\ Verdict(c).dispatch_id = r.dispatch_id
    BY <1>1, <2>1 DEF Rows, Statuses
  <2> QED BY <1>3, <2>2
<1>4. CASE c.pc = "duplicate"
  <2>1. Verdict(c) = [r EXCEPT !.status = "duplicate", !.sha256 = c.sha] /\ c.sha \in Contents
    BY <1>4 DEF Verdict, FetcherAt, Hashed
  <2>2. Verdict(c) \in Rows /\ Verdict(c).status = "duplicate" /\ Verdict(c).sha256 = c.sha
         /\ Verdict(c).dispatch_id = r.dispatch_id
    BY <1>1, <2>1 DEF Rows, Statuses
  <2> QED BY <1>4, <2>2
<1>5. CASE c.pc = "commit"
  <2>1. Verdict(c) = [r EXCEPT !.status = "fetched", !.sha256 = c.sha] /\ c.sha \in Contents
    BY <1>5 DEF Verdict, FetcherAt, Hashed
  <2>2. Verdict(c) \in Rows /\ Verdict(c).status = "fetched" /\ Verdict(c).sha256 = c.sha
         /\ Verdict(c).dispatch_id = r.dispatch_id
    BY <1>1, <2>1 DEF Rows, Statuses
  <2> QED BY <1>5, <2>2
<1> QED BY <1>2, <1>3, <1>4, <1>5

-----------------------------------------------------------------------------
(* Who writes what.                                                        *)

LEMMA TableWriters ==
    ASSUME [Next]_vars
    PROVE  \/ UNCHANGED <<artifact, inserted>>
           \/ \E t \in Stagers : StageInsert(t) \/ StageStamp(t)
           \/ ReconStamp
           \/ \E f \in Fetchers : DropRow(f) \/ WriteBack(f)
           \/ \E i \in Ids : Aged(i)
BY DEF Next, StageStart, StageSetnx, StageSend, StagerCrash, ReconSelect, ReconSend, ReconSendFails,
       ReconCrash, Receive, Gate, Get, AskRedis, AskPostgres, SetDocKey, PutObject, Delete, FetcherCrash,
       Redeliver, RedeliverEarly, DeadLetter, RedisLost, TimeoutDead, TimeoutLive, Stop, Start, vars

LEMMA StagerWriters ==
    ASSUME [Next]_vars
    PROVE  \/ UNCHANGED stager
           \/ \E t \in Stagers : \/ StageStart(t) \/ StageInsert(t) \/ StageSetnx(t)
                                 \/ StageStamp(t) \/ StageSend(t) \/ StagerCrash(t)
BY DEF Next, ReconSelect, ReconStamp, ReconSend, ReconSendFails, DropRow, WriteBack, Aged,
       ReconCrash, Receive, Gate, Get, AskRedis, AskPostgres, SetDocKey, PutObject, Delete, FetcherCrash,
       Redeliver, RedeliverEarly, DeadLetter, RedisLost, TimeoutDead, TimeoutLive, Stop, Start, vars

LEMMA ReconWriters ==
    ASSUME [Next]_vars
    PROVE  UNCHANGED recon \/ ReconSelect \/ ReconStamp \/ ReconSend \/ ReconSendFails \/ ReconCrash
BY DEF Next, StageStart, StageInsert, StageSetnx, StageStamp, StageSend, StagerCrash, DropRow, WriteBack,
       Aged, Receive, Gate, Get, AskRedis, AskPostgres, SetDocKey, PutObject, Delete, FetcherCrash,
       Redeliver, RedeliverEarly, DeadLetter, RedisLost, TimeoutDead, TimeoutLive, Stop, Start, vars

FetcherTurn(f) == \/ Receive(f) \/ Gate(f) \/ Get(f) \/ DropRow(f) \/ WriteBack(f)
                  \/ AskRedis(f) \/ AskPostgres(f) \/ SetDocKey(f) \/ PutObject(f)
                  \/ Delete(f) \/ FetcherCrash(f)
LEMMA FetcherWriters ==
    ASSUME [Next]_vars
    PROVE  \/ \E f \in Fetchers : FetcherTurn(f)
           \/ /\ UNCHANGED <<fetcher, objects>>
              /\ UNCHANGED docKeys \/ (RedisLost /\ UNCHANGED artifact)
BY DEF Next, StageStart, StageInsert, StageSetnx, StageStamp, StageSend, StagerCrash, ReconSelect, ReconStamp,
       ReconSend, ReconSendFails, ReconCrash, Redeliver, RedeliverEarly, DeadLetter, RedisLost, TimeoutDead,
       TimeoutLive, Aged, Stop, Start, FetcherTurn, vars

LEMMA QueueWriters ==
    ASSUME [Next]_vars
    PROVE  \/ UNCHANGED msgs
           \/ \E t \in Stagers : StageSend(t)
           \/ ReconSend
           \/ \E f \in Fetchers : Receive(f) \/ Delete(f)
           \/ Redeliver \/ RedeliverEarly \/ DeadLetter
BY DEF Next, StageStart, StageInsert, StageSetnx, StageStamp, StagerCrash, ReconSelect, ReconStamp,
       ReconSendFails, ReconCrash, DropRow, WriteBack, Aged, Gate, Get, AskRedis, AskPostgres, SetDocKey,
       PutObject, FetcherCrash, RedisLost, TimeoutDead, TimeoutLive, Stop, Start, vars

-----------------------------------------------------------------------------
(* Types.                                                                  *)

LEMMA InitTyped == Init => Typed
<1> SUFFICES ASSUME Init PROVE Typed
  OBVIOUS
<1>0. /\ 0 \in 0 .. MaxArtifact /\ 0 \in 0 .. MaxPublish /\ 0 \in 0 .. MaxFaults
  BY ParamAssumption
<1>1. TableTyped
  <2>1. \A i \in Ids : artifact[i] = NoRow
    BY DEF Init
  <2> QED BY <1>0, <2>1, EmptyRow DEF Init, TableTyped, Pending, None, NoRow
<1>2. StoresTyped
  BY <1>0 DEF Init, StoresTyped
<1>3. IdleStager \in Stagings /\ IdleStager.pc = "idle"
  BY <1>0 DEF IdleStager, Stagings
<1>4. IdleFetcher \in Fetchings /\ IdleFetcher.pc = "idle"
  BY <1>0 DEF IdleFetcher, Fetchings
<1>5. IdleRecon \in Recons /\ IdleRecon.pc = "idle"
  BY <1>0 DEF IdleRecon, Recons
<1> QED BY <1>1, <1>2, <1>3, <1>4, <1>5
        DEF Init, Typed, ActorsTyped, StagerAt, FetcherAt, ReconAt, Judging, Hashed

LEMMA RowTyped ==
    ASSUME TableTyped, NEW i \in Ids, NEW r \in Rows \cup {NoRow}, r.status = "pending" => Open(r),
           artifact' = [artifact EXCEPT ![i] = r]
    PROVE  /\ artifact' \in [Ids -> Rows \cup {NoRow}]
           /\ \A j \in Ids : Pending(j)' => Open(artifact'[j])
BY DEF TableTyped, Pending

\* Every update of a row that exists keeps what its status and its content say, but a verdict.
LEMMA StampedIs ==
    ASSUME TableTyped, NEW i \in Ids, NEW d \in 0 .. MaxPublish, artifact' = Stamped(i, d)
    PROVE  /\ artifact' \in [Ids -> Rows \cup {NoRow}]
           /\ \A j \in Ids : Pending(j)' => Open(artifact'[j])
           /\ \A j \in Ids : /\ Exists(j)' <=> Exists(j)
                             /\ artifact'[j].status = artifact[j].status
                             /\ artifact'[j].sha256 = artifact[j].sha256
<1>1. CASE ~Exists(i)
  BY <1>1 DEF Stamped, TableTyped, Exists, Pending
<1>2. CASE Exists(i)
  <2> DEFINE r == [artifact[i] EXCEPT !.dispatch_id = d, !.stale = FALSE]
  <2>1. artifact[i] \in Rows
    BY <1>2 DEF TableTyped, Exists
  <2>2. /\ r \in Rows /\ r.status = artifact[i].status /\ r.attempts = artifact[i].attempts
        /\ r.sha256 = artifact[i].sha256
    BY <2>1, Updates
  <2>3. artifact' = [artifact EXCEPT ![i] = r]
    BY <1>2 DEF Stamped, TableTyped
  <2> HIDE DEF r
  <2>4. r.status = "pending" => Open(r)
    BY <2>2 DEF TableTyped, Pending, Open
  <2>5. /\ artifact' \in [Ids -> Rows \cup {NoRow}]
        /\ \A j \in Ids : Pending(j)' => Open(artifact'[j])
    BY <2>2, <2>3, <2>4, RowTyped
  <2>6. \A j \in Ids : artifact'[j] = IF j = i THEN r ELSE artifact[j]
    BY <2>3 DEF TableTyped
  <2> QED BY <1>2, <2>2, <2>5, <2>6, EmptyRow DEF Exists
<1> QED BY <1>1, <1>2

LEMMA AgedIs ==
    ASSUME TableTyped, NEW i \in Ids, Aged(i)
    PROVE  /\ artifact' \in [Ids -> Rows \cup {NoRow}]
           /\ \A j \in Ids : Pending(j)' => Open(artifact'[j])
           /\ \A j \in Ids : /\ Exists(j)' <=> Exists(j)
                             /\ artifact'[j].status = artifact[j].status
                             /\ artifact'[j].sha256 = artifact[j].sha256
<1> DEFINE r == [artifact[i] EXCEPT !.stale = TRUE]
<1>1. artifact[i] \in Rows
  BY DEF TableTyped, Aged, Open
<1>2. /\ r \in Rows /\ r.status = artifact[i].status /\ r.attempts = artifact[i].attempts
      /\ r.sha256 = artifact[i].sha256
  BY <1>1, Updates
<1>3. artifact' = [artifact EXCEPT ![i] = r]
  BY DEF Aged, TableTyped
<1> HIDE DEF r
<1>4. r.status = "pending" => Open(r)
  BY <1>2 DEF TableTyped, Pending, Open
<1>5. /\ artifact' \in [Ids -> Rows \cup {NoRow}]
      /\ \A j \in Ids : Pending(j)' => Open(artifact'[j])
  BY <1>2, <1>3, <1>4, RowTyped
<1>6. \A j \in Ids : artifact'[j] = IF j = i THEN r ELSE artifact[j]
  BY <1>3 DEF TableTyped
<1> QED BY <1>1, <1>2, <1>5, <1>6, EmptyRow DEF Exists

\* A new row takes the next id.
LEMMA InsertedIs ==
    ASSUME TableTyped, NEW t \in Stagers, StagerAt(stager[t]), StageInsert(t)
    PROVE  \/ UNCHANGED <<artifact, inserted>> /\ urlKeys' = urlKeys \cup {stager[t].url}
              /\ stager[t].url \in Urls
           \/ /\ inserted' = inserted + 1 /\ inserted + 1 \in Ids /\ UNCHANGED urlKeys
              /\ \E r : /\ Open(r) /\ r # NoRow
                        /\ artifact' = [artifact EXCEPT ![inserted + 1] = r]
<1> DEFINE u == stager[t].url
           i == inserted + 1
<1>1. u \in Urls
  BY DEF StagerAt, StageInsert
<1>2. CASE AlreadyStaged(u)
  BY <1>1, <1>2 DEF StageInsert
<1>3. CASE ~AlreadyStaged(u)
  <2>1. inserted < MaxArtifact /\ inserted' = i /\ UNCHANGED urlKeys
        /\ artifact' = [artifact EXCEPT ![i] = New(u)]
    BY <1>3 DEF StageInsert, New
  <2>2. i \in Ids
    BY <2>1, ParamAssumption DEF TableTyped, Ids
  <2> QED BY <1>1, <2>1, <2>2, NewIs
<1> QED BY <1>2, <1>3

LEMMA TableStep == Typed /\ [Next]_vars => TableTyped'
<1> SUFFICES ASSUME Typed, [Next]_vars PROVE TableTyped'
  OBVIOUS
<1>0. TableTyped /\ \A t \in Stagers : StagerAt(stager[t])
  BY DEF Typed, ActorsTyped
<1>p. published' \in 0 .. MaxPublish
  <2>1. UNCHANGED published \/ (published < MaxPublish /\ published' = published + 1)
    BY DEF Next, StageStart, StageInsert, StageSetnx, StageStamp, StageSend, StagerCrash, ReconSelect, ReconStamp,
           ReconSend, ReconSendFails, ReconCrash, DropRow, WriteBack, Receive, Gate, Get, AskRedis, AskPostgres,
           SetDocKey, PutObject, Delete, FetcherCrash, Redeliver, RedeliverEarly, DeadLetter, RedisLost,
           TimeoutDead, TimeoutLive, Aged, Stop, Start, vars
  <2> QED BY <1>0, <2>1, ParamAssumption DEF TableTyped
<1>1. CASE UNCHANGED <<artifact, inserted>>
  BY <1>0, <1>p, <1>1 DEF TableTyped, Pending
<1>2. ASSUME NEW t \in Stagers, StageInsert(t) PROVE TableTyped'
  <2>1. CASE UNCHANGED <<artifact, inserted>>
    BY <1>1, <2>1
  <2>2. ASSUME inserted' = inserted + 1, inserted + 1 \in Ids,
               NEW r, Open(r), artifact' = [artifact EXCEPT ![inserted + 1] = r]
        PROVE  TableTyped'
    <3>1. inserted' \in 0 .. MaxArtifact
      BY <2>2, ParamAssumption DEF Ids
    <3>2. r \in Rows
      BY <2>2 DEF Open
    <3> QED BY <1>0, <1>p, <2>2, <3>1, <3>2, RowTyped DEF TableTyped
  <2> QED BY <1>0, <1>2, <2>1, <2>2, InsertedIs
<1>3. ASSUME NEW i \in Ids, NEW d \in 0 .. MaxPublish, artifact' = Stamped(i, d), inserted' = inserted
      PROVE  TableTyped'
  BY <1>0, <1>p, <1>3, StampedIs DEF TableTyped
<1>4. ASSUME NEW t \in Stagers, StageStamp(t) PROVE TableTyped'
  <2>1. stager[t].id \in Ids
    BY <1>0, <1>4 DEF StagerAt, StageStamp
  <2> QED BY <1>3, <1>4, <1>p, <2>1 DEF StageStamp
<1>5. ASSUME ReconStamp PROVE TableTyped'
  <2>1. Least(recon.todo) \in Ids
    BY <1>5, LeastIs DEF ReconStamp, Typed, ActorsTyped, ReconAt, Recons
  <2> QED BY <1>3, <1>5, <1>p, <2>1 DEF ReconStamp
<1>6. ASSUME NEW f \in Fetchers, DropRow(f) PROVE TableTyped'
  <2>1. fetcher[f].id \in Ids
    BY <1>6 DEF DropRow, Typed, ActorsTyped, FetcherAt
  <2> QED BY <1>0, <1>p, <1>6, <2>1, RowTyped, EmptyRow DEF DropRow, TableTyped, Statuses
<1>7. ASSUME NEW f \in Fetchers, WriteBack(f) PROVE TableTyped'
  <2> DEFINE c == fetcher[f]
  <2>1. FetcherAt(c) /\ c.id \in Ids /\ c.pc \in {"attempt", "not_document", "duplicate", "commit"}
    BY <1>7 DEF WriteBack, Typed, ActorsTyped, FetcherAt
  <2>2. inserted' = inserted /\ (artifact' = artifact \/ artifact' = [artifact EXCEPT ![c.id] = Verdict(c)])
    BY <1>7 DEF WriteBack
  <2>3. Verdict(c) \in Rows /\ (Verdict(c).status = "pending" => Open(Verdict(c)))
    BY <2>1, VerdictIs
  <2> HIDE DEF c
  <2>4. CASE artifact' = [artifact EXCEPT ![c.id] = Verdict(c)]
    BY <1>0, <1>p, <2>1, <2>2, <2>3, <2>4, RowTyped DEF TableTyped
  <2> QED BY <1>1, <2>2, <2>4
<1>8. ASSUME NEW i \in Ids, Aged(i) PROVE TableTyped'
  BY <1>0, <1>p, <1>8, AgedIs DEF Aged, TableTyped
<1> QED BY <1>1, <1>2, <1>4, <1>5, <1>6, <1>7, <1>8, TableWriters

\* Messages keep their artifact and their dispatch id.
LEMMA MessageIs ==
    ASSUME NEW m \in Messages
    PROVE  /\ \A b \in BOOLEAN : [m EXCEPT !.visible = b] \in Messages
           /\ Deliverable(m) => [m EXCEPT !.receives = @ + 1, !.visible = FALSE] \in Messages
<1>1. Deliverable(m) => m.receives + 1 \in 0 .. MaxReceive
  BY ParamAssumption DEF Messages, Deliverable
<1> QED BY <1>1 DEF Messages

LEMMA QueueStep == Typed /\ [Next]_vars => msgs' \subseteq Messages
<1> SUFFICES ASSUME Typed, [Next]_vars PROVE msgs' \subseteq Messages
  OBVIOUS
<1>0. msgs \subseteq Messages
  BY DEF Typed, StoresTyped
<1>1. ASSUME NEW i \in Ids, NEW d \in 1 .. MaxPublish, Publish(i, d) PROVE msgs' \subseteq Messages
  <2>1. [id |-> i, d |-> d, receives |-> 0, visible |-> TRUE] \in Messages
    BY ParamAssumption DEF Messages
  <2> QED BY <1>0, <1>1, <2>1 DEF Publish
<1>2. ASSUME NEW t \in Stagers, StageSend(t) PROVE msgs' \subseteq Messages
  BY <1>1, <1>2 DEF StageSend, Typed, ActorsTyped, StagerAt
<1>3. ASSUME ReconSend PROVE msgs' \subseteq Messages
  <2>1. Least(recon.todo) \in Ids /\ recon.d \in 1 .. MaxPublish
    BY <1>3, LeastIs DEF ReconSend, Typed, ActorsTyped, ReconAt, Recons
  <2> QED BY <1>1, <1>3, <2>1 DEF ReconSend
<1>4. ASSUME NEW f \in Fetchers, Receive(f) PROVE msgs' \subseteq Messages
  BY <1>0, <1>4, MessageIs DEF Receive
<1>5. ASSUME NEW f \in Fetchers, Delete(f) PROVE msgs' \subseteq Messages
  BY <1>0, <1>5 DEF Delete
<1>6. ASSUME Redeliver \/ RedeliverEarly \/ DeadLetter PROVE msgs' \subseteq Messages
  BY <1>0, <1>6, MessageIs DEF Redeliver, RedeliverEarly, DeadLetter
<1> QED BY <1>0, <1>2, <1>3, <1>4, <1>5, <1>6, QueueWriters

LEMMA StagerStepTyped ==
    ASSUME Typed, [Next]_vars
    PROVE  stager' \in [Stagers -> Stagings] /\ \A t \in Stagers : StagerAt(stager[t])'
<1>0. stager \in [Stagers -> Stagings] /\ \A t \in Stagers : StagerAt(stager[t])
  BY DEF Typed, ActorsTyped
<1>1. CASE UNCHANGED stager
  BY <1>0, <1>1
<1>2. ASSUME NEW t \in Stagers, NEW c, StagerAt(c), stager' = [stager EXCEPT ![t] = c]
      PROVE  stager' \in [Stagers -> Stagings] /\ \A b \in Stagers : StagerAt(stager[b])'
  <2>1. c \in Stagings
    BY <1>2 DEF StagerAt
  <2>2. \A b \in Stagers : stager'[b] = IF b = t THEN c ELSE stager[b]
    BY <1>0, <1>2
  <2> QED BY <1>0, <1>2, <2>1, <2>2
<1>3. ASSUME NEW t \in Stagers,
             \/ StageStart(t) \/ StageInsert(t) \/ StageSetnx(t)
             \/ StageStamp(t) \/ StageSend(t) \/ StagerCrash(t)
      PROVE  \E c : StagerAt(c) /\ stager' = [stager EXCEPT ![t] = c]
  <2> DEFINE b == stager[t]
  <2>0. StagerAt(b) /\ b \in Stagings
    BY <1>0 DEF StagerAt
  <2>i. StagerAt(IdleStager)
    <3>1. IdleStager \in Stagings /\ IdleStager.pc = "idle"
      BY ParamAssumption DEF IdleStager, Stagings
    <3> QED BY <3>1 DEF StagerAt
  <2>1. CASE StageStart(t)
    <3> PICK u \in Urls : stager' = [stager EXCEPT ![t].pc = "insert", ![t].url = u]
      BY <2>1 DEF StageStart
    <3> DEFINE c == [b EXCEPT !.pc = "insert", !.url = u]
    <3>1. stager' = [stager EXCEPT ![t] = c]
      BY <1>0
    <3>2. c \in Stagings /\ c.pc = "insert" /\ c.url \in Urls
      BY <2>0 DEF Stagings
    <3> HIDE DEF c
    <3> QED BY <3>1, <3>2 DEF StagerAt
  <2>2. CASE StageInsert(t)
    <3>1. CASE stager' = [stager EXCEPT ![t] = IdleStager]
      BY <2>i, <3>1
    <3>2. CASE stager' = [stager EXCEPT ![t].pc = "setnx", ![t].id = inserted + 1] /\ inserted < MaxArtifact
      <4> DEFINE c == [b EXCEPT !.pc = "setnx", !.id = inserted + 1]
      <4>1. stager' = [stager EXCEPT ![t] = c]
        BY <1>0, <3>2
      <4>2. inserted + 1 \in 0 .. MaxArtifact /\ inserted + 1 \in Ids /\ b.url \in Urls
        BY <2>0, <2>2, <3>2, ParamAssumption DEF Typed, TableTyped, Ids, StageInsert, StagerAt
      <4>3. c \in Stagings /\ c.pc = "setnx" /\ c.url \in Urls /\ c.id \in Ids
        BY <2>0, <4>2 DEF Stagings
      <4> HIDE DEF c
      <4> QED BY <4>1, <4>3 DEF StagerAt
    <3> QED BY <2>2, <3>1, <3>2 DEF StageInsert
  <2>3. CASE StageSetnx(t)
    <3> DEFINE c == [b EXCEPT !.pc = "stamp"]
    <3>1. stager' = [stager EXCEPT ![t] = c] /\ b.pc = "setnx"
      BY <1>0, <2>3 DEF StageSetnx
    <3>2. c \in Stagings /\ c.pc = "stamp" /\ c.url \in Urls /\ c.id \in Ids
      BY <2>0, <3>1 DEF Stagings, StagerAt
    <3> HIDE DEF c
    <3> QED BY <3>1, <3>2 DEF StagerAt
  <2>4. CASE StageStamp(t)
    <3> DEFINE c == [b EXCEPT !.pc = "send", !.d = published + 1]
    <3>1. stager' = [stager EXCEPT ![t] = c] /\ b.pc = "stamp" /\ published < MaxPublish
      BY <1>0, <2>4 DEF StageStamp
    <3>2. published + 1 \in 1 .. MaxPublish /\ published + 1 \in 0 .. MaxPublish
      BY <3>1, ParamAssumption DEF Typed, TableTyped
    <3>3. c \in Stagings /\ c.pc = "send" /\ c.url \in Urls /\ c.id \in Ids /\ c.d \in 1 .. MaxPublish
      BY <2>0, <3>1, <3>2 DEF Stagings, StagerAt
    <3> HIDE DEF c
    <3> QED BY <3>1, <3>3 DEF StagerAt
  <2>5. CASE StageSend(t) \/ StagerCrash(t)
    BY <2>i, <2>5 DEF StageSend, StagerCrash
  <2> QED BY <1>3, <2>1, <2>2, <2>3, <2>4, <2>5
<1> QED BY <1>1, <1>2, <1>3, StagerWriters

LEMMA ReconStepTyped == Typed /\ [Next]_vars => ReconAt(recon)'
<1> SUFFICES ASSUME Typed, [Next]_vars PROVE ReconAt(recon)'
  OBVIOUS
<1>0. ReconAt(recon) /\ recon \in Recons
  BY DEF Typed, ActorsTyped, ReconAt
<1>i. ReconAt(IdleRecon)
  BY ParamAssumption DEF ReconAt, IdleRecon, Recons
<1>1. CASE ReconSelect
  <2>1. Redispatch \in SUBSET Ids /\ Redispatch # {}
    BY <1>1 DEF ReconSelect, Redispatch, PendingStale
  <2> HIDE DEF Redispatch
  <2>2. recon' = [pc |-> "stamp", todo |-> Redispatch, d |-> 0]
    BY <1>1 DEF ReconSelect
  <2> QED BY <2>1, <2>2, ParamAssumption DEF ReconAt, Recons
<1>2. CASE ReconStamp
  <2>1. recon' = [recon EXCEPT !.pc = "send", !.d = published + 1] /\ recon.pc = "stamp"
        /\ published < MaxPublish
    BY <1>2 DEF ReconStamp
  <2>2. published + 1 \in 1 .. MaxPublish /\ published + 1 \in 0 .. MaxPublish
    BY <2>1, ParamAssumption DEF Typed, TableTyped
  <2>3. recon' \in Recons /\ recon'.pc = "send" /\ recon'.todo = recon.todo /\ recon'.d = published + 1
    BY <1>0, <2>1, <2>2 DEF Recons
  <2> QED BY <1>0, <2>1, <2>2, <2>3 DEF ReconAt
<1>3. ASSUME recon' = AfterRecon PROVE ReconAt(recon)'
  <2> DEFINE rest == recon.todo \ {Least(recon.todo)}
  <2>1. rest \in SUBSET Ids
    BY <1>0 DEF Recons
  <2>2. recon' = IF rest = {} THEN IdleRecon ELSE [pc |-> "stamp", todo |-> rest, d |-> 0]
    BY <1>3 DEF AfterRecon
  <2> HIDE DEF rest
  <2>3. rest # {} => ReconAt([pc |-> "stamp", todo |-> rest, d |-> 0])
    BY <2>1, ParamAssumption DEF ReconAt, Recons
  <2> QED BY <1>i, <2>2, <2>3
<1>4. CASE ReconSend \/ ReconSendFails
  BY <1>3, <1>4 DEF ReconSend, ReconSendFails
<1>5. CASE ReconCrash
  BY <1>i, <1>5 DEF ReconCrash
<1>6. CASE UNCHANGED recon
  BY <1>0, <1>6
<1> QED BY <1>1, <1>2, <1>4, <1>5, <1>6, ReconWriters

\* What a fetch worker does next, from what it has in hand.
Places == {"idle", "gate", "get", "drop", "attempt", "not_document", "redis", "backstop",
           "heal", "duplicate", "put", "commit", "setnx", "delete"}
LEMMA FetcherGoes ==
    ASSUME NEW c, FetcherAt(c), NEW pc \in Places, c.pc # "idle",
           pc \in Judging => c.pc \in Judging,
           pc \in Hashed => c.pc \in Hashed,
           NEW e, e = [c EXCEPT !.pc = pc]
    PROVE  FetcherAt(e) /\ e.pc = pc /\ e.id = c.id /\ e.sha = c.sha /\ e.mine = c.mine /\ e.d = c.d
<1>1. e \in Fetchings /\ e.pc = pc /\ e.id = c.id /\ e.sha = c.sha /\ e.mine = c.mine /\ e.d = c.d
  BY DEF FetcherAt, Fetchings, Places
<1> QED BY <1>1 DEF FetcherAt

\* The turns of a fetch worker: where it comes from, where it goes, and what it keeps.
Moves(c, e) ==
    \/ c.pc = "idle" /\ e.pc = "gate"
    \/ e = IdleFetcher
    \/ /\ e.id = c.id /\ e.d = c.d
       /\ \/ c.pc = "gate" /\ e.pc \in {"get", "delete"}
          \/ c.pc = "get" /\ e.pc \in {"drop", "attempt", "not_document", "redis"} /\ e.mine = c.mine
          \/ /\ e.mine = c.mine /\ e.sha = c.sha
             /\ \/ c.pc \in {"drop", "attempt", "not_document", "duplicate", "setnx"} /\ e.pc = "delete"
                \/ c.pc = "redis" /\ e.pc \in {"duplicate", "backstop"}
                \/ c.pc = "backstop" /\ e.pc \in {"heal", "put"}
                \/ c.pc = "heal" /\ e.pc = "duplicate"
                \/ c.pc = "put" /\ e.pc = "commit"
                \/ c.pc = "commit" /\ e.pc = "setnx"

LEMMA FetcherTurnIs ==
    ASSUME Typed, NEW f \in Fetchers, FetcherTurn(f)
    PROVE  \E e : FetcherAt(e) /\ Moves(fetcher[f], e) /\ fetcher' = [fetcher EXCEPT ![f] = e]
<1> DEFINE c == fetcher[f]
<1>0. /\ FetcherAt(c) /\ c \in Fetchings /\ fetcher \in [Fetchers -> Fetchings]
      /\ artifact \in [Ids -> Rows \cup {NoRow}] /\ \A i \in Ids : Pending(i) => Open(artifact[i])
      /\ msgs \subseteq Messages
  BY DEF Typed, ActorsTyped, FetcherAt, TableTyped, StoresTyped
<1>i. FetcherAt(IdleFetcher) /\ IdleFetcher \in Fetchings
  <2>1. IdleFetcher \in Fetchings /\ IdleFetcher.pc = "idle"
    BY ParamAssumption DEF IdleFetcher, Fetchings
  <2> QED BY <2>1 DEF FetcherAt, Judging, Hashed
<1>g. ASSUME NEW pc \in Places, Goto(f, pc), c.pc # "idle",
             pc \in Judging => c.pc \in Judging, pc \in Hashed => c.pc \in Hashed
      PROVE  \E e : /\ FetcherAt(e) /\ e.pc = pc /\ e.id = c.id /\ e.sha = c.sha /\ e.mine = c.mine
                    /\ e.d = c.d /\ fetcher' = [fetcher EXCEPT ![f] = e]
  <2>1. PICK e : e = [c EXCEPT !.pc = pc]
    OBVIOUS
  <2>2. fetcher' = [fetcher EXCEPT ![f] = e]
    BY <1>0, <1>g, <2>1 DEF Goto
  <2>3. FetcherAt(e) /\ e.pc = pc /\ e.id = c.id /\ e.sha = c.sha /\ e.mine = c.mine /\ e.d = c.d
    BY <1>0, <1>g, <2>1, FetcherGoes
  <2> QED BY <2>2, <2>3
<1>1. CASE Receive(f)
  <2> PICK m \in msgs :
        fetcher' = [fetcher EXCEPT ![f] = [IdleFetcher EXCEPT !.pc = "gate", !.id = m.id, !.d = m.d]]
    BY <1>1 DEF Receive
  <2> DEFINE e == [IdleFetcher EXCEPT !.pc = "gate", !.id = m.id, !.d = m.d]
  <2>1. m.id \in Ids /\ m.d \in 1 .. MaxPublish /\ m.id \in 0 .. MaxArtifact /\ m.d \in 0 .. MaxPublish
    BY <1>0, ParamAssumption DEF Messages, Ids
  <2>2. e \in Fetchings /\ e.pc = "gate" /\ e.id = m.id /\ e.d = m.d
    BY <1>i, <2>1 DEF Fetchings
  <2>3. fetcher' = [fetcher EXCEPT ![f] = e] /\ c.pc = "idle"
    BY <1>1 DEF Receive
  <2> HIDE DEF e
  <2>4. FetcherAt(e) /\ Moves(c, e)
    BY <2>1, <2>2, <2>3 DEF FetcherAt, Judging, Hashed, Moves
  <2> QED BY <2>3, <2>4
<1>2. CASE Gate(f)
  <2>1. CASE ~GatePasses(c.id, c.d)
    <3>1. Goto(f, "delete") /\ c.pc = "gate"
      BY <1>0, <1>2, <2>1 DEF Gate, Goto
    <3> QED BY <1>g, <3>1 DEF Places, Judging, Hashed, Moves
  <2>2. CASE GatePasses(c.id, c.d)
    <3> DEFINE e == [c EXCEPT !.pc = "get", !.mine = artifact[c.id]]
    <3>1. fetcher' = [fetcher EXCEPT ![f] = e] /\ c.pc = "gate"
      BY <1>2, <2>2 DEF Gate
    <3>2. c.id \in Ids /\ c.d \in 1 .. MaxPublish
      BY <1>0, <3>1 DEF FetcherAt
    <3>3. Open(artifact[c.id]) /\ artifact[c.id] \in Rows
      BY <1>0, <2>2, <3>2 DEF GatePasses, Open
    <3>4. e \in Fetchings /\ e.pc = "get" /\ e.id = c.id /\ e.d = c.d /\ e.mine = artifact[c.id]
      BY <1>0, <3>3 DEF Fetchings
    <3> HIDE DEF e
    <3>5. FetcherAt(e) /\ Moves(c, e)
      BY <3>1, <3>2, <3>3, <3>4 DEF FetcherAt, Judging, Hashed, Moves
    <3> QED BY <3>1, <3>5
  <2> QED BY <2>1, <2>2
<1>3. CASE Get(f)
  <2>0. c.pc = "get"
    BY <1>3 DEF Get
  <2>1. ASSUME NEW k \in Contents, fetcher' = [fetcher EXCEPT ![f].pc = "redis", ![f].sha = k]
        PROVE  \E e : FetcherAt(e) /\ Moves(c, e) /\ fetcher' = [fetcher EXCEPT ![f] = e]
    <3> DEFINE e == [c EXCEPT !.pc = "redis", !.sha = k]
    <3>1. fetcher' = [fetcher EXCEPT ![f] = e]
      BY <1>0, <2>1
    <3>2. /\ e \in Fetchings /\ e.pc = "redis" /\ e.id = c.id /\ e.d = c.d /\ e.mine = c.mine
          /\ e.sha = k
      BY <1>0 DEF Fetchings
    <3> HIDE DEF e
    <3>3. FetcherAt(e) /\ Moves(c, e)
      BY <1>0, <2>0, <3>2 DEF FetcherAt, Judging, Hashed, Moves
    <3> QED BY <3>1, <3>3
  <2>2. ASSUME NEW pc \in {"drop", "attempt", "not_document"}, Goto(f, pc)
        PROVE  \E e : FetcherAt(e) /\ Moves(c, e) /\ fetcher' = [fetcher EXCEPT ![f] = e]
    BY <1>g, <2>0, <2>2 DEF Places, Judging, Hashed, Moves
  <2> QED BY <1>3, <2>1, <2>2 DEF Get
<1>4. CASE DropRow(f)
  BY <1>g, <1>4 DEF DropRow, Places, Judging, Hashed, Moves
<1>5. CASE WriteBack(f)
  <2>1. \/ c.pc = "commit" /\ Goto(f, "setnx")
        \/ c.pc \in {"attempt", "not_document", "duplicate"} /\ Goto(f, "delete")
    BY <1>5 DEF WriteBack
  <2> QED BY <1>g, <2>1 DEF Places, Judging, Hashed, Moves
<1>6. CASE AskRedis(f)
  <2>1. c.pc = "redis" /\ (Goto(f, "duplicate") \/ Goto(f, "backstop"))
    BY <1>6 DEF AskRedis
  <2> QED BY <1>g, <2>1 DEF Places, Judging, Hashed, Moves
<1>7. CASE AskPostgres(f)
  <2>1. c.pc = "backstop" /\ (Goto(f, "heal") \/ Goto(f, "put"))
    BY <1>7 DEF AskPostgres
  <2> QED BY <1>g, <2>1 DEF Places, Judging, Hashed, Moves
<1>8. CASE SetDocKey(f)
  <2>1. \/ c.pc = "heal" /\ Goto(f, "duplicate")
        \/ c.pc = "setnx" /\ Goto(f, "delete")
    BY <1>8 DEF SetDocKey
  <2> QED BY <1>g, <2>1 DEF Places, Judging, Hashed, Moves
<1>9. CASE PutObject(f)
  BY <1>g, <1>9 DEF PutObject, Places, Judging, Hashed, Moves
<1>10. CASE Delete(f) \/ FetcherCrash(f)
  BY <1>i, <1>10 DEF Delete, FetcherCrash, Moves
<1> QED BY <1>1, <1>2, <1>3, <1>4, <1>5, <1>6, <1>7, <1>8, <1>9, <1>10 DEF FetcherTurn

LEMMA FetcherStepTyped ==
    ASSUME Typed, [Next]_vars
    PROVE  fetcher' \in [Fetchers -> Fetchings] /\ \A f \in Fetchers : FetcherAt(fetcher[f])'
<1>0. fetcher \in [Fetchers -> Fetchings] /\ \A f \in Fetchers : FetcherAt(fetcher[f])
  BY DEF Typed, ActorsTyped
<1>1. ASSUME NEW f \in Fetchers, NEW e, FetcherAt(e), fetcher' = [fetcher EXCEPT ![f] = e]
      PROVE  fetcher' \in [Fetchers -> Fetchings] /\ \A g \in Fetchers : FetcherAt(fetcher[g])'
  <2>1. e \in Fetchings
    BY <1>1 DEF FetcherAt
  <2>2. \A g \in Fetchers : fetcher'[g] = IF g = f THEN e ELSE fetcher[g]
    BY <1>0, <1>1
  <2> QED BY <1>0, <1>1, <2>1, <2>2
<1>2. CASE UNCHANGED fetcher
  BY <1>0, <1>2
<1> QED BY <1>1, <1>2, FetcherTurnIs, FetcherWriters

LEMMA StoresStep == Typed /\ [Next]_vars => StoresTyped'
<1> SUFFICES ASSUME Typed, [Next]_vars PROVE StoresTyped'
  OBVIOUS
<1>0. StoresTyped /\ \A f \in Fetchers : FetcherAt(fetcher[f])
  BY DEF Typed, ActorsTyped
<1>1. msgs' \subseteq Messages
  BY QueueStep
<1>2. urlKeys' \subseteq Urls
  <2>1. \/ UNCHANGED urlKeys \/ urlKeys' = {}
        \/ \E t \in Stagers : StageInsert(t) \/ StageSetnx(t)
    BY DEF Next, StageStart, StageStamp, StageSend, StagerCrash, ReconSelect, ReconStamp, ReconSend,
           ReconSendFails, ReconCrash, DropRow, WriteBack, Receive, Gate, Get, AskRedis, AskPostgres, SetDocKey,
           PutObject, Delete, FetcherCrash, Redeliver, RedeliverEarly, DeadLetter, RedisLost, TimeoutDead,
           TimeoutLive, Aged, Stop, Start, vars
  <2>2. ASSUME NEW t \in Stagers, StageInsert(t) PROVE urlKeys' \subseteq Urls
    <3>1. StagerAt(stager[t]) /\ TableTyped
      BY DEF Typed, ActorsTyped
    <3>2. stager[t].url \in Urls
      BY <2>2, <3>1 DEF StagerAt, StageInsert
    <3>3. urlKeys' \subseteq urlKeys \cup {stager[t].url}
      BY <2>2 DEF StageInsert
    <3> QED BY <1>0, <3>2, <3>3 DEF StoresTyped
  <2>3. ASSUME NEW t \in Stagers, StageSetnx(t) PROVE urlKeys' \subseteq Urls
    BY <1>0, <2>3 DEF StageSetnx, StoresTyped, Typed, ActorsTyped, StagerAt
  <2> QED BY <1>0, <2>1, <2>2, <2>3 DEF StoresTyped
<1>3. docKeys' \subseteq Contents /\ objects' \subseteq Contents
  <2>1. ASSUME NEW f \in Fetchers, FetcherTurn(f)
        PROVE  docKeys' \subseteq Contents /\ objects' \subseteq Contents
    <3>1. \/ UNCHANGED <<docKeys, objects>>
          \/ SetDocKey(f)
          \/ PutObject(f)
      BY <2>1 DEF FetcherTurn, Receive, Gate, Get, DropRow, WriteBack, AskRedis, AskPostgres, Delete,
                  FetcherCrash
    <3>2. FetcherAt(fetcher[f])
      BY <1>0
    <3> QED BY <1>0, <3>1, <3>2 DEF SetDocKey, PutObject, StoresTyped, FetcherAt, Hashed
  <2>2. RedisLost => docKeys' = {}
    BY DEF RedisLost
  <2> QED BY <1>0, <2>1, <2>2, FetcherWriters DEF StoresTyped
<1>4. running' \in BOOLEAN /\ faults' \in 0 .. MaxFaults
  <2>1. UNCHANGED running \/ Stop \/ Start
    BY DEF Next, StageStart, StageInsert, StageSetnx, StageStamp, StageSend, StagerCrash, ReconSelect,
           ReconStamp, ReconSend, ReconSendFails, ReconCrash, DropRow, WriteBack, Receive, Gate, Get, AskRedis,
           AskPostgres, SetDocKey, PutObject, Delete, FetcherCrash, Redeliver, RedeliverEarly, DeadLetter,
           RedisLost, TimeoutDead, TimeoutLive, Aged, vars
  <2>2. UNCHANGED faults \/ Fault
    BY DEF Next, StageStart, StageInsert, StageSetnx, StageStamp, StageSend, StagerCrash, ReconSelect,
           ReconStamp, ReconSend, ReconSendFails, ReconCrash, DropRow, WriteBack, Receive, Gate, Get, AskRedis,
           AskPostgres, SetDocKey, PutObject, Delete, FetcherCrash, Redeliver, RedeliverEarly, DeadLetter,
           RedisLost, TimeoutDead, TimeoutLive, Aged, Stop, Start, NoFault, vars
  <2>3. running' \in BOOLEAN
    BY <1>0, <2>1 DEF StoresTyped, Stop, Start
  <2>4. faults' \in 0 .. MaxFaults
    BY <1>0, <2>2, ParamAssumption DEF StoresTyped, Fault
  <2> QED BY <2>3, <2>4
<1> QED BY <1>1, <1>2, <1>3, <1>4 DEF StoresTyped

LEMMA TypedStep == Typed /\ [Next]_vars => Typed'
BY TableStep, StoresStep, StagerStepTyped, ReconStepTyped, FetcherStepTyped DEF Typed, ActorsTyped

\* Every variable keeps its type with any number of stagers and fetch workers; in particular a
\* row that is still tried has attempts left, so that no count passes FETCH_ATTEMPT_LIMIT even
\* when two workers write back what each of them read.
THEOREM TypeCorrect == Spec => []TypeOK
<1>1. Typed => TypeOK
  BY DEF Typed, TableTyped, StoresTyped, ActorsTyped, ReconAt, Stagings, Recons, Fetchings, TypeOK
<1> QED BY <1>1, InitTyped, TypedStep, PTL DEF Spec

-----------------------------------------------------------------------------
(* What changes rows and moves workers.                                    *)

\* The steps on the table, as far as the verdicts are concerned.
LEMMA RowsChange ==
    ASSUME Typed, InOrder, [Next]_vars
    PROVE  \/ /\ \A j \in Ids : /\ Exists(j)' <=> Exists(j)
                                /\ artifact'[j].status = artifact[j].status
                                /\ artifact'[j].sha256 = artifact[j].sha256
              /\ inserted' = inserted
           \/ \E i \in Ids : /\ ~Exists(i) /\ inserted' = i /\ i = inserted + 1
                             /\ Open(artifact'[i])
                             /\ \A j \in Ids \ {i} : artifact'[j] = artifact[j]
           \/ \E f \in Fetchers :
                /\ fetcher[f].id \in Ids /\ inserted' = inserted
                /\ \A j \in Ids \ {fetcher[f].id} : artifact'[j] = artifact[j]
                /\ \/ DropRow(f) /\ artifact'[fetcher[f].id] = NoRow
                   \/ /\ WriteBack(f) /\ Exists(fetcher[f].id)
                      /\ artifact'[fetcher[f].id] = Verdict(fetcher[f])
<1>0. TableTyped /\ \A t \in Stagers : StagerAt(stager[t])
  BY DEF Typed, ActorsTyped
<1> DEFINE Same == /\ \A j \in Ids : /\ Exists(j)' <=> Exists(j)
                                     /\ artifact'[j].status = artifact[j].status
                                     /\ artifact'[j].sha256 = artifact[j].sha256
                   /\ inserted' = inserted
<1>1. UNCHANGED <<artifact, inserted>> => Same
  BY DEF Exists
<1>2. ASSUME NEW t \in Stagers, StageStamp(t) PROVE Same
  <2>1. stager[t].id \in Ids /\ published' \in 0 .. MaxPublish /\ artifact' = Stamped(stager[t].id, published')
        /\ inserted' = inserted
    BY <1>0, <1>2, TypedStep DEF StagerAt, StageStamp, Typed, TableTyped
  <2> QED BY <1>0, <2>1, StampedIs
<1>3. ASSUME ReconStamp PROVE Same
  <2>1. Least(recon.todo) \in Ids
    BY <1>3, LeastIs DEF ReconStamp, Typed, ActorsTyped, ReconAt, Recons
  <2>2. published' \in 0 .. MaxPublish /\ artifact' = Stamped(Least(recon.todo), published')
        /\ inserted' = inserted
    BY <1>3, TypedStep DEF ReconStamp, Typed, TableTyped
  <2> QED BY <1>0, <2>1, <2>2, StampedIs
<1>4. ASSUME NEW i \in Ids, Aged(i) PROVE Same
  BY <1>0, <1>4, AgedIs DEF Aged
<1>5. ASSUME NEW t \in Stagers, StageInsert(t), ~UNCHANGED <<artifact, inserted>>
      PROVE  \E i \in Ids : /\ ~Exists(i) /\ inserted' = i /\ i = inserted + 1
                            /\ Open(artifact'[i])
                            /\ \A j \in Ids \ {i} : artifact'[j] = artifact[j]
  <2> DEFINE i == inserted + 1
  <2>1. PICK r : /\ inserted' = i /\ i \in Ids /\ Open(r)
                 /\ artifact' = [artifact EXCEPT ![i] = r]
    BY <1>0, <1>5, InsertedIs
  <2>2. ~Exists(i)
    BY <1>0, <2>1, ParamAssumption DEF InOrder, TableTyped
  <2>3. \A j \in Ids : artifact'[j] = IF j = i THEN r ELSE artifact[j]
    BY <1>0, <2>1 DEF TableTyped
  <2> QED BY <2>1, <2>2, <2>3
<1>6. ASSUME NEW f \in Fetchers, DropRow(f)
      PROVE  /\ fetcher[f].id \in Ids /\ inserted' = inserted
             /\ \A j \in Ids \ {fetcher[f].id} : artifact'[j] = artifact[j]
             /\ artifact'[fetcher[f].id] = NoRow
  <2>1. fetcher[f].id \in Ids
    BY <1>6 DEF DropRow, Typed, ActorsTyped, FetcherAt
  <2> QED BY <1>0, <1>6, <2>1 DEF DropRow, TableTyped
<1>7. ASSUME NEW f \in Fetchers, WriteBack(f), ~UNCHANGED artifact
      PROVE  /\ fetcher[f].id \in Ids /\ inserted' = inserted
             /\ \A j \in Ids \ {fetcher[f].id} : artifact'[j] = artifact[j]
             /\ Exists(fetcher[f].id) /\ artifact'[fetcher[f].id] = Verdict(fetcher[f])
  <2>1. fetcher[f].id \in Ids
    BY <1>7 DEF WriteBack, Typed, ActorsTyped, FetcherAt
  <2>2. Exists(fetcher[f].id) /\ artifact' = [artifact EXCEPT ![fetcher[f].id] = Verdict(fetcher[f])]
    BY <1>7 DEF WriteBack
  <2> QED BY <1>0, <1>7, <2>1, <2>2 DEF WriteBack, TableTyped
<1>8. ASSUME NEW f \in Fetchers, WriteBack(f), UNCHANGED artifact PROVE UNCHANGED <<artifact, inserted>>
  BY <1>8 DEF WriteBack
<1> HIDE DEF Same
<1>9. \/ Same
      \/ \E t \in Stagers : StageInsert(t) /\ ~UNCHANGED <<artifact, inserted>>
      \/ \E f \in Fetchers : DropRow(f) \/ (WriteBack(f) /\ ~UNCHANGED artifact)
  BY <1>1, <1>2, <1>3, <1>4, <1>8, TableWriters
<1> QED BY <1>5, <1>6, <1>7, <1>9 DEF Same

LEMMA InOrderStep == Typed /\ InOrder /\ [Next]_vars => InOrder'
<1> SUFFICES ASSUME Typed, InOrder, [Next]_vars, NEW j \in Ids, Exists(j)' PROVE j <= inserted'
  BY DEF InOrder
<1>0. inserted \in Nat /\ j \in Nat
  BY ParamAssumption DEF Typed, TableTyped, Ids
<1>1. ASSUME NEW i \in Ids, inserted' = i, i = inserted + 1,
             \A k \in Ids \ {i} : artifact'[k] = artifact[k]
      PROVE  j <= inserted'
  BY <1>0, <1>1 DEF InOrder, Exists
<1>2. ASSUME inserted' = inserted, Exists(j) PROVE j <= inserted'
  BY <1>2 DEF InOrder
<1>3. ASSUME NEW f \in Fetchers, fetcher[f].id \in Ids, inserted' = inserted,
             \A k \in Ids \ {fetcher[f].id} : artifact'[k] = artifact[k],
             artifact'[fetcher[f].id] = NoRow \/ Exists(fetcher[f].id)
      PROVE  j <= inserted'
  BY <1>2, <1>3 DEF Exists
<1> QED BY <1>1, <1>2, <1>3, RowsChange

\* What a fetch worker's turn tells of the lookup it comes from.
LEMMA TurnTells ==
    ASSUME Typed, NEW f \in Fetchers, FetcherTurn(f)
    PROVE  LET c == fetcher[f]
               e == fetcher'[f]
           IN /\ e.pc = "get" => Gate(f) /\ e.id = c.id /\ e.d = c.d /\ GatePasses(c.id, c.d)
                                 /\ e.mine = artifact[c.id]
              /\ e.pc = "put" => AskPostgres(f) /\ e.id = c.id /\ e.sha = c.sha /\ ~CorpusHas(c.id, c.sha)
              /\ e.pc = "heal" => AskPostgres(f) /\ e.id = c.id /\ e.sha = c.sha /\ CorpusHas(c.id, c.sha)
              /\ e.pc = "commit" => PutObject(f) /\ c.pc = "put" /\ e.id = c.id /\ e.sha = c.sha
              /\ e.pc = "duplicate" => /\ e.sha = c.sha
                                       /\ \/ AskRedis(f) /\ c.sha \in docKeys
                                          \/ SetDocKey(f) /\ c.pc = "heal"
              /\ e.pc = "setnx" => WriteBack(f) /\ c.pc = "commit" /\ e.sha = c.sha
<1> DEFINE c == fetcher[f]
<1>0. fetcher \in [Fetchers -> Fetchings] /\ c \in Fetchings
  BY DEF Typed, ActorsTyped
<1> PICK e : Moves(c, e) /\ fetcher'[f] = e /\ FetcherAt(e)
  BY <1>0, FetcherTurnIs
<1>g. ASSUME NEW pc, Goto(f, pc) PROVE e.pc = pc
  BY <1>0, <1>g DEF Goto, Fetchings
<1>c. (~FetcherCrash(f) /\ ~Delete(f)) \/ e.pc = "idle"
  BY <1>0 DEF FetcherCrash, Delete, IdleFetcher
<1>5. ASSUME e.pc = "get"
      PROVE  /\ Gate(f) /\ e.id = c.id /\ e.d = c.d /\ GatePasses(c.id, c.d) /\ e.mine = artifact[c.id]
  <2>1. c.pc = "gate" /\ e.id = c.id /\ e.d = c.d
    BY <1>5 DEF Moves, IdleFetcher
  <2>2. Gate(f)
    BY <1>5, <1>c, <2>1 DEF FetcherTurn, Receive, Get, DropRow, WriteBack, AskRedis, AskPostgres, SetDocKey,
                            PutObject
  <2>3. GatePasses(c.id, c.d)
    <3>1. ~GatePasses(c.id, c.d) => e = [c EXCEPT !.pc = "delete"]
      BY <1>0, <2>2 DEF Gate
    <3> QED BY <1>0, <1>5, <3>1 DEF Fetchings
  <2>4. e = [c EXCEPT !.pc = "get", !.mine = artifact[c.id]]
    BY <1>0, <2>2, <2>3 DEF Gate
  <2>5. e.mine = artifact[c.id]
    BY <1>0, <2>4 DEF Fetchings
  <2> QED BY <2>1, <2>2, <2>3, <2>5
<1>1. ASSUME e.pc \in {"put", "heal"}
      PROVE  /\ AskPostgres(f) /\ e.id = c.id /\ e.sha = c.sha
             /\ e.pc = "heal" <=> CorpusHas(c.id, c.sha)
  <2>1. c.pc = "backstop" /\ e.id = c.id /\ e.sha = c.sha
    BY <1>1 DEF Moves, IdleFetcher
  <2>2. AskPostgres(f)
    BY <1>1, <1>c, <2>1 DEF FetcherTurn, Receive, Gate, Get, DropRow, WriteBack, AskRedis, SetDocKey, PutObject
  <2> QED BY <1>1, <1>g, <2>1, <2>2 DEF AskPostgres
<1>2. ASSUME e.pc = "commit" PROVE PutObject(f) /\ c.pc = "put" /\ e.id = c.id /\ e.sha = c.sha
  <2>1. c.pc = "put" /\ e.id = c.id /\ e.sha = c.sha
    BY <1>2 DEF Moves, IdleFetcher
  <2> QED BY <1>2, <1>c, <2>1 DEF FetcherTurn, Receive, Gate, Get, DropRow, WriteBack, AskRedis, AskPostgres,
                                  SetDocKey
<1>3. ASSUME e.pc = "duplicate"
      PROVE  /\ e.sha = c.sha
             /\ \/ AskRedis(f) /\ c.sha \in docKeys
                \/ SetDocKey(f) /\ c.pc = "heal"
  <2>1. c.pc \in {"redis", "heal"} /\ e.sha = c.sha
    BY <1>3 DEF Moves, IdleFetcher
  <2>2. AskRedis(f) \/ (SetDocKey(f) /\ c.pc = "heal")
    BY <1>3, <1>c, <2>1 DEF FetcherTurn, Receive, Gate, Get, DropRow, WriteBack, AskPostgres, PutObject,
                            SetDocKey
  <2>3. AskRedis(f) => c.sha \in docKeys
    BY <1>3, <1>g DEF AskRedis
  <2> QED BY <2>1, <2>2, <2>3
<1>4. ASSUME e.pc = "setnx" PROVE WriteBack(f) /\ c.pc = "commit" /\ e.sha = c.sha
  <2>1. c.pc = "commit" /\ e.sha = c.sha
    BY <1>4 DEF Moves, IdleFetcher
  <2> QED BY <1>4, <1>c, <2>1 DEF FetcherTurn, Receive, Gate, Get, DropRow, AskRedis, AskPostgres,
                                  SetDocKey, PutObject
<1> QED BY <1>1, <1>2, <1>3, <1>4, <1>5

\* A step is the turn of one fetch worker, or none of them moves.
LEMMA OneMoves ==
    ASSUME Typed, [Next]_vars
    PROVE  \/ /\ UNCHANGED <<fetcher, objects>>
              /\ UNCHANGED docKeys \/ docKeys' = {}
           \/ \E f \in Fetchers : /\ FetcherTurn(f) /\ Moves(fetcher[f], fetcher'[f])
                                  /\ FetcherAt(fetcher'[f])
                                  /\ \A g \in Fetchers \ {f} : fetcher'[g] = fetcher[g]
<1>0. fetcher \in [Fetchers -> Fetchings]
  BY DEF Typed, ActorsTyped
<1>1. ASSUME NEW f \in Fetchers, FetcherTurn(f)
      PROVE  /\ Moves(fetcher[f], fetcher'[f]) /\ FetcherAt(fetcher'[f])
             /\ \A g \in Fetchers \ {f} : fetcher'[g] = fetcher[g]
  <2> PICK e : FetcherAt(e) /\ Moves(fetcher[f], e) /\ fetcher' = [fetcher EXCEPT ![f] = e]
    BY <1>1, FetcherTurnIs
  <2> QED BY <1>0
<1> QED BY <1>1, FetcherWriters DEF RedisLost

\* A worker that judges a row was judging it before, or its gate has just found it pending.
LEMMA JudgesBefore ==
    ASSUME Typed, [Next]_vars, NEW f \in Fetchers, fetcher'[f].pc \in Judging
    PROVE  /\ fetcher'[f].id = fetcher[f].id /\ fetcher'[f].d = fetcher[f].d
           /\ \/ /\ fetcher[f].pc \in Judging /\ fetcher'[f].mine = fetcher[f].mine
                 /\ ~DropRow(f) /\ ~WriteBack(f)
              \/ /\ fetcher[f].pc = "gate" /\ UNCHANGED artifact
                 /\ GatePasses(fetcher[f].id, fetcher[f].d)
                 /\ fetcher'[f].mine = artifact[fetcher[f].id]
<1>0. fetcher \in [Fetchers -> Fetchings]
  BY DEF Typed, ActorsTyped
<1>1. CASE FetcherTurn(f)
  <2> PICK e : Moves(fetcher[f], e) /\ e = fetcher'[f]
    BY <1>0, <1>1, FetcherTurnIs
  <2>1. e.pc = "get" => Gate(f) /\ e.id = fetcher[f].id /\ e.d = fetcher[f].d
                        /\ GatePasses(fetcher[f].id, fetcher[f].d) /\ e.mine = artifact[fetcher[f].id]
    BY <1>1, TurnTells
  <2>2. \/ e.pc = "get" /\ fetcher[f].pc = "gate"
        \/ /\ fetcher[f].pc \in Judging /\ e.id = fetcher[f].id /\ e.d = fetcher[f].d
           /\ e.mine = fetcher[f].mine
    BY DEF Moves, Judging, IdleFetcher
  <2>3. ~DropRow(f) /\ ~WriteBack(f)
    <3>1. DropRow(f) => e.pc = "delete"
      BY <1>0 DEF DropRow, Goto, Fetchings
    <3>2. WriteBack(f) => e.pc \in {"setnx", "delete"}
      BY <1>0 DEF WriteBack, Goto, Fetchings
    <3> QED BY <3>1, <3>2 DEF Judging
  <2> QED BY <2>1, <2>2, <2>3 DEF Gate
<1>2. CASE ~FetcherTurn(f)
  <2>1. fetcher'[f] = fetcher[f] /\ ~DropRow(f) /\ ~WriteBack(f)
    BY <1>2, OneMoves DEF FetcherTurn
  <2> QED BY <2>1
<1> QED BY <1>1, <1>2

-----------------------------------------------------------------------------
(* What is known is stored.                                                *)

LEMMA StoredStep ==
    ASSUME Typed, InOrder, Stored, [Next]_vars
    PROVE  Stored'
<1>0. \A f \in Fetchers : FetcherAt(fetcher[f])
  BY DEF Typed, ActorsTyped
<1>1. objects \subseteq objects'
  BY FetcherWriters DEF FetcherTurn, Receive, Gate, Get, DropRow, WriteBack, AskRedis, AskPostgres,
                        SetDocKey, PutObject, Delete, FetcherCrash
<1>2. docKeys' \subseteq objects'
  <2>1. ASSUME NEW f \in Fetchers, FetcherTurn(f) PROVE docKeys' \subseteq objects'
    <3>1. docKeys' = docKeys \/ SetDocKey(f)
      BY <2>1 DEF FetcherTurn, Receive, Gate, Get, DropRow, WriteBack, AskRedis, AskPostgres, PutObject,
                  Delete, FetcherCrash
    <3> QED BY <1>1, <3>1 DEF SetDocKey, Stored
  <2> QED BY <1>1, <2>1, OneMoves DEF Stored
<1>3. ASSUME NEW i \in Ids, NEW k, k = artifact'[i].sha256, k # None PROVE k \in objects'
  <2>1. CASE k = artifact[i].sha256
    BY <1>1, <1>3, <2>1 DEF Stored
  <2>2. CASE Open(artifact'[i]) \/ artifact'[i] = NoRow
    BY <1>3, <2>2, EmptyRow DEF Open
  <2>3. ASSUME NEW f \in Fetchers, WriteBack(f), artifact'[i] = Verdict(fetcher[f]) PROVE k \in objects'
    <3>1. FetcherAt(fetcher[f]) /\ fetcher[f].pc \in {"attempt", "not_document", "duplicate", "commit"}
      BY <1>0, <2>3 DEF WriteBack
    <3>2. fetcher[f].pc \in {"duplicate", "commit"} /\ k = fetcher[f].sha
      BY <1>3, <2>3, <3>1, VerdictIs
    <3> QED BY <1>1, <3>2 DEF Stored
  <2> QED BY <1>3, <2>1, <2>2, <2>3, RowsChange
<1>4. ASSUME NEW f \in Fetchers, fetcher'[f].pc \in {"heal", "duplicate", "commit", "setnx"}
      PROVE  fetcher'[f].sha \in objects'
  <2>1. CASE fetcher'[f] = fetcher[f]
    BY <1>1, <1>4, <2>1 DEF Stored
  <2>2. CASE FetcherTurn(f)
    <3> DEFINE c == fetcher[f]
    <3>1. CASE fetcher'[f].pc = "heal"
      <4>1. fetcher'[f].sha = c.sha /\ CorpusHas(c.id, c.sha) /\ c.pc = "backstop"
        BY <2>2, <3>1, TurnTells DEF AskPostgres
      <4>2. c.sha # None
        BY <1>0, <4>1, ParamAssumption DEF FetcherAt, Hashed, None
      <4> QED BY <1>1, <4>1, <4>2 DEF CorpusHas, Stored
    <3>2. CASE fetcher'[f].pc = "duplicate"
      BY <1>1, <2>2, <3>2, TurnTells DEF Stored
    <3>3. CASE fetcher'[f].pc = "commit"
      BY <2>2, <3>3, TurnTells DEF PutObject
    <3>4. CASE fetcher'[f].pc = "setnx"
      BY <1>1, <2>2, <3>4, TurnTells DEF Stored
    <3> QED BY <1>4, <3>1, <3>2, <3>3, <3>4
  <2> QED BY <2>1, <2>2, OneMoves
<1> QED BY <1>2, <1>3, <1>4 DEF Stored

LEMMA InitPlain == Init => /\ InOrder /\ Stored /\ Reads /\ SentOnce /\ HeldOnce /\ Other
                           /\ \A i \in Ids : artifact[i] = NoRow
                           /\ \A f \in Fetchers : fetcher[f].pc = "idle"
<1> SUFFICES ASSUME Init PROVE /\ InOrder /\ Stored /\ Reads /\ SentOnce /\ HeldOnce /\ Other
                               /\ \A i \in Ids : artifact[i] = NoRow
                               /\ \A f \in Fetchers : fetcher[f].pc = "idle"
  OBVIOUS
<1>1. /\ \A i \in Ids : artifact[i] = NoRow
      /\ \A f \in Fetchers : fetcher[f].pc = "idle"
      /\ \A t \in Stagers : stager[t].pc = "idle"
      /\ recon.pc = "idle" /\ docKeys = {} /\ msgs = {}
  BY DEF Init, IdleFetcher, IdleStager, IdleRecon
<1>2. InOrder /\ Stored
  BY <1>1, EmptyRow DEF InOrder, Stored, Exists
<1>3. Reads /\ SentOnce /\ HeldOnce /\ Other
  BY <1>1 DEF Reads, SentOnce, HeldOnce, Other, Judging
<1> QED BY <1>1, <1>2, <1>3

\* What a later fetch is called a duplicate of has its bytes stored, with any number of workers
\* that overwrite each other's verdicts and whatever keys Redis loses in between.
THEOREM KnownBytesAreStored == Spec => []KnownIsStored
<1> DEFINE Inv == Typed /\ InOrder /\ Stored
<1>1. Init => Inv
  BY InitTyped, InitPlain
<1>2. Inv /\ [Next]_vars => Inv'
  BY TypedStep, InOrderStep, StoredStep
<1>3. Inv => KnownIsStored
  BY DEF Stored, KnownIsStored
<1> QED BY <1>1, <1>2, <1>3, PTL DEF Spec

-----------------------------------------------------------------------------
(* Copies of one content.                                                  *)

\* A new keeper was storing; a worker that stores was storing the same before, or it has just
\* found that no other row has the content.
LEMMA KeeperWas ==
    ASSUME Typed, InOrder, [Next]_vars, NEW c \in Contents, NEW i \in Ids, i \in Keepers(c)'
    PROVE  i \in Copies(c)
<1>0. artifact'[i].status = "fetched" /\ artifact'[i].sha256 = c
  BY DEF Keepers
<1>1. CASE artifact'[i].status = artifact[i].status /\ artifact'[i].sha256 = artifact[i].sha256
  BY <1>0, <1>1 DEF Keepers, Copies
<1>2. CASE Open(artifact'[i]) \/ artifact'[i] = NoRow
  BY <1>0, <1>2, EmptyRow DEF Open, Statuses
<1>3. ASSUME NEW f \in Fetchers, WriteBack(f), fetcher[f].id = i, artifact'[i] = Verdict(fetcher[f])
      PROVE  i \in Copies(c)
  <2>1. FetcherAt(fetcher[f]) /\ fetcher[f].pc \in {"attempt", "not_document", "duplicate", "commit"}
    BY <1>3 DEF WriteBack, Typed, ActorsTyped
  <2>2. fetcher[f].pc = "commit" /\ fetcher[f].sha = c
    BY <1>0, <1>3, <2>1, VerdictIs
  <2> QED BY <1>3, <2>2 DEF Storing, Copies
<1> QED BY <1>1, <1>2, <1>3, RowsChange

LEMMA StorerWas ==
    ASSUME Typed, [Next]_vars, NEW c \in Contents, NEW f \in Fetchers,
           fetcher'[f].pc \in {"put", "commit"}, fetcher'[f].sha = c
    PROVE  /\ fetcher'[f].id = fetcher[f].id
           /\ \/ fetcher[f].pc \in {"put", "commit"} /\ fetcher[f].sha = c
              \/ UNCHANGED artifact /\ Keepers(c) \subseteq {fetcher[f].id}
<1>1. CASE fetcher'[f] = fetcher[f]
  BY <1>1
<1>2. CASE FetcherTurn(f) /\ fetcher'[f].pc = "put"
  <2>1. AskPostgres(f) /\ fetcher'[f].id = fetcher[f].id /\ ~CorpusHas(fetcher[f].id, c)
    BY <1>2, TurnTells
  <2>2. UNCHANGED artifact
    BY <2>1 DEF AskPostgres
  <2> QED BY <2>1, <2>2 DEF CorpusHas, Keepers
<1>3. CASE FetcherTurn(f) /\ fetcher'[f].pc = "commit"
  BY <1>3, TurnTells
<1> QED BY <1>1, <1>2, <1>3, OneMoves

\* A content is kept by the workers that raced for it and by nobody after them, with any number of
\* workers: once it is kept and nobody is storing it, no row is added to its keepers.
THEOREM ContentsAreKeptOnce == Spec => KeptOnce
<1> DEFINE Inv == Typed /\ InOrder
           Once(c) == Keepers(c) # {} /\ Storing(c) = {} =>
                         \/ ~(Keepers(c) \subseteq Keepers(c)')
                         \/ Keepers(c)' = Keepers(c) /\ Storing(c)' = {}
<1>1. Init => Inv
  BY InitTyped, InitPlain
<1>2. Inv /\ [Next]_vars => Inv'
  BY TypedStep, InOrderStep
<1>3. ASSUME Inv, [Next]_vars, NEW c \in Contents PROVE Once(c)
  <2> SUFFICES ASSUME Keepers(c) # {}, Storing(c) = {}, Keepers(c) \subseteq Keepers(c)'
               PROVE  Keepers(c)' = Keepers(c) /\ Storing(c)' = {}
    OBVIOUS
  <2>1. Keepers(c)' = Keepers(c)
    <3>1. Copies(c) = Keepers(c)
      BY DEF Copies
    <3>2. Keepers(c)' \subseteq Ids
      BY DEF Keepers
    <3> QED BY <1>3, <3>1, <3>2, KeeperWas
  <2>2. ASSUME NEW f \in Fetchers, f \in Storing(c)' PROVE FALSE
    <3>1. fetcher'[f].pc \in {"put", "commit"} /\ fetcher'[f].sha = c /\ fetcher'[f].id \notin Keepers(c)
      BY <2>1, <2>2 DEF Storing
    <3>2. fetcher[f].pc \in {"put", "commit"} /\ fetcher[f].sha = c /\ fetcher[f].id \notin Keepers(c)
      BY <1>3, <3>1, StorerWas
    <3> QED BY <3>2 DEF Storing
  <2>3. Storing(c)' \subseteq Fetchers
    BY DEF Storing
  <2> QED BY <2>1, <2>2, <2>3
<1>4. Inv /\ [Next]_vars => [\A c \in Contents : Once(c)]_vars
  BY <1>3
<1> QED BY <1>1, <1>2, <1>4, PTL DEF Spec, KeptOnce

\* The bound on the copies, as an invariant.
Bounded == \A c \in Contents : Cardinality(Copies(c)) <= Cardinality(Fetchers)

LEMMA CopiesFinite == Typed => \A c \in Contents : Copies(c) \subseteq Ids /\ IsFiniteSet(Ids)
<1> SUFFICES ASSUME Typed, NEW c \in Contents PROVE Copies(c) \subseteq Ids /\ IsFiniteSet(Ids)
  OBVIOUS
<1>1. IsFiniteSet(Ids)
  BY FS_Interval, ParamAssumption DEF Ids
<1>2. \A f \in Fetchers : fetcher[f].pc # "idle" => fetcher[f].id \in Ids
  BY DEF Typed, ActorsTyped, FetcherAt
<1> QED BY <1>1, <1>2 DEF Copies, Keepers, Storing

LEMMA BoundedStep ==
    ASSUME IsFiniteSet(Fetchers), Typed, InOrder, Bounded, [Next]_vars
    PROVE  Bounded'
<1> SUFFICES ASSUME NEW c \in Contents
             PROVE  Cardinality(Copies(c)') <= Cardinality(Fetchers)
  BY DEF Bounded
<1>f. /\ Copies(c) \subseteq Ids /\ Copies(c)' \subseteq Ids /\ IsFiniteSet(Ids)
      /\ IsFiniteSet(Copies(c)) /\ IsFiniteSet(Copies(c)')
      /\ Cardinality(Copies(c)) \in Nat /\ Cardinality(Copies(c)') \in Nat
  <2>1. Copies(c) \subseteq Ids /\ IsFiniteSet(Ids)
    BY CopiesFinite
  <2>2. \A f \in Fetchers : fetcher'[f].pc # "idle" => fetcher'[f].id \in Ids
    BY TypedStep DEF Typed, ActorsTyped, FetcherAt
  <2>3. Copies(c)' \subseteq Ids
    BY <2>2 DEF Copies, Keepers, Storing
  <2> QED BY <2>1, <2>3, FS_Subset, FS_CardinalityType
<1>n. Cardinality(Fetchers) \in Nat
  BY FS_CardinalityType
<1>k. Keepers(c)' \subseteq Copies(c)
  BY KeeperWas DEF Keepers
<1>s. ASSUME NEW f \in Fetchers, f \in Storing(c)'
      PROVE  fetcher'[f].pc \in {"put", "commit"} /\ fetcher'[f].sha = c /\ fetcher'[f].id = fetcher[f].id
  BY <1>s, StorerWas DEF Storing
<1>1. CASE \A f \in Fetchers : f \in Storing(c)' =>
             fetcher[f].pc \in {"put", "commit"} /\ fetcher[f].sha = c
  <2>1. ASSUME NEW f \in Fetchers, f \in Storing(c)' PROVE fetcher'[f].id \in Copies(c)
    BY <1>1, <1>s, <2>1 DEF Storing, Copies
  <2>2. Copies(c)' \subseteq Copies(c)
    BY <1>k, <2>1 DEF Copies, Storing
  <2>3. Cardinality(Copies(c)') <= Cardinality(Copies(c))
    BY <1>f, <2>2, FS_Subset
  <2> QED BY <1>f, <1>n, <2>3 DEF Bounded
<1>2. ASSUME NEW f \in Fetchers, f \in Storing(c)',
             ~(fetcher[f].pc \in {"put", "commit"} /\ fetcher[f].sha = c)
      PROVE  Cardinality(Copies(c)') <= Cardinality(Fetchers)
  <2> DEFINE P == {g \in Fetchers : fetcher'[g].pc \in {"put", "commit"} /\ fetcher'[g].sha = c}
             T == {fetcher'[g].id : g \in P}
             M == [g \in P |-> fetcher'[g].id]
  <2>1. UNCHANGED artifact /\ Keepers(c) \subseteq {fetcher'[f].id} /\ f \in P
    BY <1>2, <1>s, StorerWas
  <2>2. Keepers(c)' = Keepers(c)
    BY <2>1 DEF Keepers
  <2>3. Copies(c)' \subseteq T
    BY <2>1, <2>2 DEF Copies, Storing
  <2>4. P \subseteq Fetchers
    OBVIOUS
  <2>5. IsFiniteSet(P) /\ Cardinality(P) <= Cardinality(Fetchers) /\ Cardinality(P) \in Nat
    BY <2>4, FS_Subset, FS_CardinalityType
  <2>6. M \in Surjection(P, T)
    BY DEF Surjection
  <2> HIDE DEF P, T, M
  <2>7. IsFiniteSet(T) /\ Cardinality(T) <= Cardinality(P)
    BY <2>5, <2>6, FS_Surjection
  <2>8. Cardinality(T) \in Nat
    BY <2>7, FS_CardinalityType
  <2>9. Cardinality(Copies(c)') <= Cardinality(T)
    BY <2>3, <2>7, FS_Subset
  <2> QED BY <1>f, <1>n, <2>5, <2>7, <2>8, <2>9
<1> QED BY <1>1, <1>2

\* No content is kept by more rows than there are fetch workers, however many URLs serve it: with
\* one worker it is kept once, and each further worker can add one copy.
THEOREM CopiesAreBounded ==
    ASSUME IsFiniteSet(Fetchers)
    PROVE  Spec => [](\A c \in Contents : Cardinality(Keepers(c)) <= Cardinality(Fetchers))
<1> DEFINE Inv == Typed /\ InOrder /\ Bounded
           Few == \A c \in Contents : Cardinality(Keepers(c)) <= Cardinality(Fetchers)
<1>1. Init => Inv
  <2> SUFFICES ASSUME Init, NEW c \in Contents PROVE Cardinality(Copies(c)) <= Cardinality(Fetchers)
    BY InitTyped, InitPlain DEF Bounded
  <2>1. Copies(c) = {}
    BY InitPlain, EmptyRow DEF Copies, Keepers, Storing, Statuses
  <2> QED BY <2>1, FS_EmptySet, FS_CardinalityType
<1>2. Inv /\ [Next]_vars => Inv'
  BY TypedStep, InOrderStep, BoundedStep
<1>3. Inv => Few
  <2> SUFFICES ASSUME Inv, NEW c \in Contents PROVE Cardinality(Keepers(c)) <= Cardinality(Fetchers)
    OBVIOUS
  <2>1. IsFiniteSet(Copies(c)) /\ Keepers(c) \subseteq Copies(c)
    BY CopiesFinite, FS_Subset DEF Copies
  <2>2. /\ Cardinality(Keepers(c)) <= Cardinality(Copies(c)) /\ IsFiniteSet(Keepers(c))
    BY <2>1, FS_Subset
  <2>3. /\ Cardinality(Keepers(c)) \in Nat /\ Cardinality(Copies(c)) \in Nat
        /\ Cardinality(Fetchers) \in Nat
    BY <2>1, <2>2, FS_CardinalityType
  <2> QED BY <2>2, <2>3 DEF Bounded
<1> QED BY <1>1, <1>2, <1>3, PTL DEF Spec

-----------------------------------------------------------------------------
(* Who overrules whom.                                                     *)

LEMMA Counters ==
    ASSUME [Next]_vars
    PROVE  /\ UNCHANGED faults \/ faults' = faults + 1
           /\ UNCHANGED published \/ (published < MaxPublish /\ published' = published + 1)
BY DEF Next, StageStart, StageInsert, StageSetnx, StageStamp, StageSend, StagerCrash, ReconSelect,
       ReconStamp, ReconSend, ReconSendFails, ReconCrash, DropRow, WriteBack, Receive, Gate, Get, AskRedis,
       AskPostgres, SetDocKey, PutObject, Delete, FetcherCrash, Redeliver, RedeliverEarly, DeadLetter,
       RedisLost, TimeoutDead, TimeoutLive, Aged, Stop, Start, NoFault, Fault, vars

LEMMA ReadsStep ==
    ASSUME Typed, Reads, [Next]_vars
    PROVE  Reads'
<1> SUFFICES ASSUME NEW f \in Fetchers, fetcher'[f].pc \in Judging
             PROVE  fetcher'[f].mine.dispatch_id = fetcher'[f].d
  BY DEF Reads
<1> QED BY JudgesBefore DEF Reads, GatePasses

\* Where a dispatch id in use comes from: it was in use the same way, or one step earlier in its
\* way from the stamp over the queue to a worker.
LEMMA Senders ==
    ASSUME Typed, [Next]_vars
    PROVE  \/ UNCHANGED <<stager, recon, published>>
           \/ \E t \in Stagers : /\ UNCHANGED <<recon, msgs, fetcher>>
                                 /\ \A b \in Stagers \ {t} : stager'[b] = stager[b]
                                 /\ \/ UNCHANGED published /\ stager'[t].pc # "send"
                                    \/ /\ stager'[t].pc = "send" /\ stager'[t].d = published + 1
                                       /\ published' = published + 1
           \/ \E t \in Stagers : /\ stager[t].pc = "send" /\ stager'[t].pc = "idle"
                                 /\ UNCHANGED <<recon, fetcher, published>>
                                 /\ \A b \in Stagers \ {t} : stager'[b] = stager[b]
                                 /\ Publish(stager[t].id, stager[t].d)
           \/ /\ UNCHANGED <<stager, msgs, fetcher>>
              /\ \/ UNCHANGED published /\ recon'.pc # "send"
                 \/ recon'.pc = "send" /\ recon'.d = published + 1 /\ published' = published + 1
           \/ /\ recon.pc = "send" /\ recon'.pc # "send"
              /\ UNCHANGED <<stager, fetcher, published>>
              /\ Publish(Least(recon.todo), recon.d)
<1>0. /\ stager \in [Stagers -> Stagings] /\ recon \in Recons
      /\ \A t \in Stagers : StagerAt(stager[t])
  BY DEF Typed, ActorsTyped, ReconAt
<1>1. ASSUME NEW t \in Stagers, StageStart(t) \/ StageInsert(t) \/ StageSetnx(t) \/ StagerCrash(t)
      PROVE  /\ UNCHANGED <<recon, msgs, fetcher, published>>
             /\ \A b \in Stagers \ {t} : stager'[b] = stager[b]
             /\ stager'[t].pc # "send"
  <2>1. IdleStager.pc = "idle"
    BY DEF IdleStager
  <2>2. CASE StageInsert(t)
    <3>1. \/ stager' = [stager EXCEPT ![t] = IdleStager]
          \/ stager' = [stager EXCEPT ![t].pc = "setnx", ![t].id = inserted + 1]
      BY <2>2 DEF StageInsert
    <3> QED BY <1>0, <2>1, <2>2, <3>1 DEF StageInsert, Stagings
  <2>3. CASE StageStart(t)
    <3> PICK u : stager' = [stager EXCEPT ![t].pc = "insert", ![t].url = u]
      BY <2>3 DEF StageStart
    <3> QED BY <1>0, <2>3 DEF StageStart, Stagings
  <2>4. CASE StageSetnx(t)
    BY <1>0, <2>4 DEF StageSetnx, Stagings
  <2>5. CASE StagerCrash(t)
    BY <1>0, <2>1, <2>5 DEF StagerCrash
  <2> QED BY <1>1, <2>2, <2>3, <2>4, <2>5
<1>2. ASSUME NEW t \in Stagers, StageStamp(t)
      PROVE  /\ UNCHANGED <<recon, msgs, fetcher>>
             /\ \A b \in Stagers \ {t} : stager'[b] = stager[b]
             /\ stager'[t].pc = "send" /\ stager'[t].d = published + 1
             /\ published' = published + 1
  BY <1>0, <1>2 DEF StageStamp, Stagings
<1>3. ASSUME NEW t \in Stagers, StageSend(t)
      PROVE  /\ stager[t].pc = "send" /\ stager'[t].pc = "idle"
             /\ UNCHANGED <<recon, fetcher, published>>
             /\ \A b \in Stagers \ {t} : stager'[b] = stager[b]
             /\ Publish(stager[t].id, stager[t].d)
  BY <1>0, <1>3 DEF StageSend, IdleStager
<1>a. AfterRecon.pc # "send"
  BY DEF AfterRecon, IdleRecon
<1>4. ASSUME ReconSelect \/ ReconSendFails \/ ReconCrash
      PROVE  UNCHANGED <<stager, msgs, fetcher, published>> /\ recon'.pc # "send"
  BY <1>a, <1>4 DEF ReconSelect, ReconSendFails, ReconCrash, IdleRecon
<1>5. ASSUME ReconStamp
      PROVE  /\ UNCHANGED <<stager, msgs, fetcher>>
             /\ recon'.pc = "send" /\ recon'.d = published + 1 /\ published' = published + 1
  BY <1>0, <1>5 DEF ReconStamp, Recons
<1>6. ASSUME ReconSend
      PROVE  /\ recon.pc = "send" /\ recon'.pc # "send"
             /\ UNCHANGED <<stager, fetcher, published>>
             /\ Publish(Least(recon.todo), recon.d)
  BY <1>a, <1>6 DEF ReconSend
<1>7. \/ UNCHANGED <<stager, recon, published>>
      \/ \E t \in Stagers : \/ StageStart(t) \/ StageInsert(t) \/ StageSetnx(t) \/ StagerCrash(t)
                            \/ StageStamp(t) \/ StageSend(t)
      \/ ReconSelect \/ ReconSendFails \/ ReconCrash \/ ReconStamp \/ ReconSend
  BY DEF Next, DropRow, WriteBack, Receive, Gate, Get, AskRedis, AskPostgres, SetDocKey, PutObject, Delete,
         FetcherCrash, Redeliver, RedeliverEarly, DeadLetter, RedisLost, TimeoutDead, TimeoutLive, Aged,
         Stop, Start, vars
<1> QED BY <1>1, <1>2, <1>3, <1>4, <1>5, <1>6, <1>7

\* The queue and the workers, when no dispatch is sent: every id in use was in use.
LEMMA Holders ==
    ASSUME Typed, [Next]_vars
    PROVE  \/ \E t \in Stagers : stager[t].pc = "send" /\ stager'[t].pc # "send"
           \/ recon.pc = "send" /\ recon'.pc # "send"
           \/ /\ \A m \in msgs' : \E n \in msgs : n.d = m.d
              /\ \A f \in Fetchers : fetcher'[f].pc # "idle" =>
                   \/ fetcher[f].pc # "idle" /\ fetcher'[f].d = fetcher[f].d
                   \/ \E n \in msgs : n.d = fetcher'[f].d
<1>0. msgs \subseteq Messages /\ fetcher \in [Fetchers -> Fetchings]
  BY DEF Typed, StoresTyped, ActorsTyped
<1>1. ASSUME \A t \in Stagers : ~StageSend(t), ~ReconSend
      PROVE  \A m \in msgs' : \E n \in msgs : n.d = m.d
  <2>1. ASSUME NEW m \in msgs PROVE /\ [m EXCEPT !.receives = @ + 1, !.visible = FALSE].d = m.d
                                    /\ [m EXCEPT !.visible = TRUE].d = m.d
    BY <1>0 DEF Messages
  <2>2. ASSUME NEW f \in Fetchers, Receive(f) PROVE \A m \in msgs' : \E n \in msgs : n.d = m.d
    BY <2>1, <2>2 DEF Receive
  <2>3. ASSUME Redeliver \/ RedeliverEarly \/ DeadLetter PROVE \A m \in msgs' : \E n \in msgs : n.d = m.d
    BY <2>1, <2>3 DEF Redeliver, RedeliverEarly, DeadLetter
  <2>4. ASSUME NEW f \in Fetchers, Delete(f) PROVE \A m \in msgs' : \E n \in msgs : n.d = m.d
    BY <2>4 DEF Delete
  <2> QED BY <1>1, <2>2, <2>3, <2>4, QueueWriters
<1>2. ASSUME NEW f \in Fetchers, fetcher'[f].pc # "idle"
      PROVE  \/ fetcher[f].pc # "idle" /\ fetcher'[f].d = fetcher[f].d
             \/ \E n \in msgs : n.d = fetcher'[f].d
  <2>1. CASE fetcher'[f] = fetcher[f]
    BY <1>2, <2>1
  <2>2. CASE Receive(f)
    <3> PICK m \in msgs :
          fetcher' = [fetcher EXCEPT ![f] = [IdleFetcher EXCEPT !.pc = "gate", !.id = m.id, !.d = m.d]]
      BY <2>2 DEF Receive
    <3>1. fetcher'[f].d = m.d
      BY <1>0 DEF IdleFetcher
    <3> QED BY <3>1
  <2>3. CASE FetcherTurn(f) /\ ~Receive(f)
    <3>1. fetcher[f].pc # "idle"
      BY <2>3 DEF FetcherTurn, Gate, Get, DropRow, WriteBack, AskRedis, AskPostgres, SetDocKey, PutObject,
                  Delete, FetcherCrash
    <3> PICK e : Moves(fetcher[f], e) /\ e = fetcher'[f]
      BY <1>0, <2>3, FetcherTurnIs
    <3>2. e.d = fetcher[f].d
      BY <1>2, <3>1 DEF Moves, IdleFetcher
    <3> QED BY <3>1, <3>2
  <2> QED BY <2>1, <2>2, <2>3, OneMoves
<1>3. ASSUME NEW t \in Stagers, StageSend(t) PROVE stager[t].pc = "send" /\ stager'[t].pc # "send"
  BY <1>3 DEF StageSend, IdleStager, Typed, ActorsTyped
<1>4. ASSUME ReconSend PROVE recon.pc = "send" /\ recon'.pc # "send"
  BY <1>4 DEF ReconSend, AfterRecon, IdleRecon
<1> QED BY <1>1, <1>2, <1>3, <1>4

LEMMA SentOnceStep ==
    ASSUME Typed, SentOnce, [Next]_vars
    PROVE  SentOnce'
<1>0. published \in Nat /\ published <= published'
  BY Counters, ParamAssumption DEF Typed, TableTyped
<1>1. \A m \in msgs : m.d \in Nat
  BY ParamAssumption DEF Typed, StoresTyped, Messages
<1>2. /\ \A f \in Fetchers : fetcher[f].d \in Nat
      /\ \A t \in Stagers : stager[t].d \in Nat
      /\ recon.d \in Nat
  BY ParamAssumption DEF Typed, ActorsTyped, Fetchings, Stagings, ReconAt, Recons
\* Ids that stay with the queue and the workers.
<1>3. ASSUME \A m \in msgs' : \E n \in msgs : n.d = m.d,
             \A f \in Fetchers : fetcher'[f].pc # "idle" =>
                \/ fetcher[f].pc # "idle" /\ fetcher'[f].d = fetcher[f].d
                \/ \E n \in msgs : n.d = fetcher'[f].d
      PROVE  /\ \A m \in msgs' : m.d <= published
             /\ \A f \in Fetchers : fetcher'[f].pc # "idle" => fetcher'[f].d <= published
             /\ \A d : Fresh(d) => Fresh(d)'
  <2>1. \A m \in msgs' : m.d <= published
    BY <1>3 DEF SentOnce
  <2>2. ASSUME NEW f \in Fetchers, fetcher'[f].pc # "idle" PROVE fetcher'[f].d <= published
    BY <1>3, <2>2 DEF SentOnce
  <2>3. ASSUME NEW d, Fresh(d) PROVE Fresh(d)'
    <3>1. \A m \in msgs' : m.d # d
      BY <1>3, <2>3 DEF Fresh
    <3>2. \A f \in Fetchers : fetcher'[f].pc # "idle" => fetcher'[f].d # d
      BY <1>3, <2>3 DEF Fresh
    <3> QED BY <3>1, <3>2 DEF Fresh
  <2> QED BY <2>1, <2>2, <2>3
\* A dispatch sent: its id is in use from now on.
<1>4. ASSUME NEW i, NEW d, Publish(i, d), UNCHANGED fetcher, d <= published
      PROVE  /\ \A m \in msgs' : m.d <= published
             /\ \A f \in Fetchers : fetcher'[f].pc # "idle" => fetcher'[f].d <= published
             /\ \A e : Fresh(e) /\ e # d => Fresh(e)'
  BY <1>4 DEF Publish, SentOnce, Fresh
<1>5. CASE UNCHANGED <<stager, recon, published>>
  <2>1. /\ \A m \in msgs' : m.d <= published
        /\ \A f \in Fetchers : fetcher'[f].pc # "idle" => fetcher'[f].d <= published
        /\ \A d : Fresh(d) => Fresh(d)'
    BY <1>3, <1>5, Holders
  <2> QED BY <1>5, <2>1 DEF SentOnce
<1>6. ASSUME NEW t \in Stagers, UNCHANGED <<recon, msgs, fetcher>>,
             \A b \in Stagers \ {t} : stager'[b] = stager[b],
             \/ UNCHANGED published /\ stager'[t].pc # "send"
             \/ /\ stager'[t].pc = "send" /\ stager'[t].d = published + 1
                /\ published' = published + 1
      PROVE  SentOnce'
  <2>1. /\ \A m \in msgs' : m.d <= published'
        /\ \A f \in Fetchers : fetcher'[f].pc # "idle" => fetcher'[f].d <= published'
        /\ \A d : Fresh(d)' <=> Fresh(d)
    BY <1>0, <1>1, <1>2, <1>6 DEF SentOnce, Fresh
  <2>2. stager'[t].pc = "send" =>
          /\ stager'[t].d <= published' /\ Fresh(stager'[t].d)
          /\ recon.pc = "send" => recon.d # stager'[t].d
          /\ \A b \in Stagers \ {t} : stager[b].pc = "send" => stager[b].d # stager'[t].d
    BY <1>0, <1>1, <1>2, <1>6 DEF SentOnce, Fresh
  <2>3. ASSUME NEW b \in Stagers, stager'[b].pc = "send"
        PROVE  /\ stager'[b].d <= published' /\ Fresh(stager'[b].d)
               /\ recon'.pc = "send" => recon'.d # stager'[b].d
               /\ \A a \in Stagers \ {b} : stager'[a].pc = "send" => stager'[a].d # stager'[b].d
    <3>1. CASE b = t
      BY <1>6, <2>2, <2>3, <3>1
    <3>2. CASE b # t
      BY <1>0, <1>2, <1>6, <2>2, <2>3, <3>2 DEF SentOnce
    <3> QED BY <3>1, <3>2
  <2>4. recon'.pc = "send" => recon'.d <= published' /\ Fresh(recon'.d)
    BY <1>0, <1>2, <1>6 DEF SentOnce
  <2>5. \A b \in Stagers : stager'[b].pc = "send" => Fresh(stager[b].d)'
    BY <2>1, <2>3 DEF Fresh
  <2>6. recon'.pc = "send" => Fresh(recon.d)'
    BY <2>4, <1>6 DEF Fresh
  <2> QED BY <2>1, <2>3, <2>4, <2>5, <2>6 DEF SentOnce
<1>7. ASSUME NEW t \in Stagers, stager[t].pc = "send", stager'[t].pc = "idle",
             UNCHANGED <<recon, fetcher, published>>,
             \A b \in Stagers \ {t} : stager'[b] = stager[b],
             Publish(stager[t].id, stager[t].d)
      PROVE  SentOnce'
  <2>1. /\ \A m \in msgs' : m.d <= published
        /\ \A f \in Fetchers : fetcher'[f].pc # "idle" => fetcher'[f].d <= published
        /\ \A e : Fresh(e) /\ e # stager[t].d => Fresh(e)'
    BY <1>4, <1>7 DEF SentOnce
  <2>2. ASSUME NEW b \in Stagers, stager'[b].pc = "send" PROVE b # t /\ stager'[b] = stager[b]
    BY <1>7, <2>2
  <2>3. \A b \in Stagers : stager'[b].pc = "send" => stager'[b].d # stager[t].d /\ Fresh(stager'[b].d)
    BY <1>7, <2>2 DEF SentOnce
  <2>4. recon'.pc = "send" => recon.d # stager[t].d /\ Fresh(recon.d)
    BY <1>7 DEF SentOnce
  <2>5. \A b \in Stagers : stager'[b].pc = "send" => Fresh(stager[b].d)'
    BY <2>1, <2>2, <2>3 DEF Fresh
  <2>6. recon'.pc = "send" => Fresh(recon.d)'
    BY <1>7, <2>1, <2>4 DEF Fresh
  <2> QED BY <1>7, <2>1, <2>2, <2>5, <2>6 DEF SentOnce
<1>8. ASSUME UNCHANGED <<stager, msgs, fetcher>>,
             \/ UNCHANGED published /\ recon'.pc # "send"
             \/ recon'.pc = "send" /\ recon'.d = published + 1 /\ published' = published + 1
      PROVE  SentOnce'
  <2>1. /\ \A m \in msgs' : m.d <= published'
        /\ \A f \in Fetchers : fetcher'[f].pc # "idle" => fetcher'[f].d <= published'
        /\ \A d : Fresh(d)' <=> Fresh(d)
    BY <1>0, <1>1, <1>2, <1>8 DEF SentOnce, Fresh
  <2>2. recon'.pc = "send" =>
          /\ recon'.d <= published' /\ Fresh(recon'.d)
          /\ \A t \in Stagers : stager[t].pc = "send" => recon'.d # stager[t].d
    BY <1>0, <1>1, <1>2, <1>8 DEF SentOnce, Fresh
  <2>3. recon'.pc = "send" => Fresh(recon.d)'
    BY <1>8, <2>2 DEF Fresh
  <2>4. \A t \in Stagers : stager'[t].pc = "send" => stager'[t].d <= published'
    BY <1>0, <1>2, <1>8 DEF SentOnce
  <2> QED BY <1>8, <2>1, <2>2, <2>3, <2>4 DEF SentOnce
<1>9. ASSUME recon.pc = "send", recon'.pc # "send", UNCHANGED <<stager, fetcher, published>>,
             Publish(Least(recon.todo), recon.d)
      PROVE  SentOnce'
  <2>1. /\ \A m \in msgs' : m.d <= published
        /\ \A f \in Fetchers : fetcher'[f].pc # "idle" => fetcher'[f].d <= published
        /\ \A e : Fresh(e) /\ e # recon.d => Fresh(e)'
    BY <1>4, <1>9 DEF SentOnce
  <2>2. \A t \in Stagers : stager[t].pc = "send" => stager[t].d # recon.d /\ Fresh(stager[t].d)
    BY <1>9 DEF SentOnce
  <2>3. \A t \in Stagers : stager'[t].pc = "send" => Fresh(stager[t].d)'
    BY <1>9, <2>1, <2>2 DEF Fresh
  <2> QED BY <1>9, <2>1, <2>3 DEF SentOnce
<1> QED BY <1>5, <1>6, <1>7, <1>8, <1>9, Senders

LEMMA HeldOnceStep ==
    ASSUME Typed, SentOnce, HeldOnce, [Next]_vars, UNCHANGED faults
    PROVE  HeldOnce'
<1>0. /\ fetcher \in [Fetchers -> Fetchings] /\ msgs \subseteq Messages /\ faults \in Nat
      /\ recon \in Recons
  BY ParamAssumption DEF Typed, ActorsTyped, StoresTyped, ReconAt
<1>1. ~Fault
  BY <1>0 DEF Fault
\* Fewer messages and workers, or workers that go on with what they hold.
<1>2. ASSUME msgs' \subseteq msgs,
             \A f \in Fetchers : fetcher'[f].pc # "idle" =>
                fetcher[f].pc # "idle" /\ fetcher'[f].d = fetcher[f].d
      PROVE  HeldOnce'
  BY <1>2 DEF HeldOnce
<1>3. ASSUME NEW i, NEW d, Publish(i, d), UNCHANGED fetcher, Fresh(d) PROVE HeldOnce'
  <2> PICK n : n = [id |-> i, d |-> d, receives |-> 0, visible |-> TRUE] /\ msgs' = msgs \cup {n}
    BY <1>3 DEF Publish
  <2>1. n.d = d
    OBVIOUS
  <2>2. \A a, b \in msgs' : a.d = b.d => a = b
    BY <1>3, <2>1 DEF HeldOnce, Fresh
  <2>3. ASSUME NEW f \in Fetchers, fetcher'[f].pc # "idle"
        PROVE  /\ \A a \in msgs' : a.visible => a.d # fetcher'[f].d
               /\ \A g \in Fetchers \ {f} : fetcher'[g].pc # "idle" => fetcher'[g].d # fetcher'[f].d
    <3>1. fetcher' = fetcher /\ fetcher[f].d # d
      BY <1>3, <2>3 DEF Fresh
    <3>2. \A a \in msgs : a.visible => a.d # fetcher[f].d
      BY <2>3, <3>1 DEF HeldOnce
    <3>3. \A g \in Fetchers \ {f} : fetcher[g].pc # "idle" => fetcher[g].d # fetcher[f].d
      BY <2>3, <3>1 DEF HeldOnce
    <3> QED BY <2>1, <3>1, <3>2, <3>3
  <2> QED BY <2>2, <2>3 DEF HeldOnce
<1>4. ASSUME NEW t \in Stagers, StageSend(t) PROVE HeldOnce'
  BY <1>3, <1>4 DEF StageSend, SentOnce
<1>5. ASSUME ReconSend PROVE HeldOnce'
  BY <1>3, <1>5 DEF ReconSend, SentOnce
<1>6. ASSUME NEW f \in Fetchers, Receive(f) PROVE HeldOnce'
  <2> PICK m \in msgs :
        /\ Deliverable(m)
        /\ msgs' = (msgs \ {m}) \cup {[m EXCEPT !.receives = @ + 1, !.visible = FALSE]}
        /\ fetcher' = [fetcher EXCEPT ![f] = [IdleFetcher EXCEPT !.pc = "gate", !.id = m.id, !.d = m.d]]
    BY <1>6 DEF Receive
  <2> PICK n : n = [m EXCEPT !.receives = @ + 1, !.visible = FALSE]
    OBVIOUS
  <2>1. n.d = m.d /\ ~n.visible /\ m.visible /\ msgs' = (msgs \ {m}) \cup {n}
    BY <1>0 DEF Messages, Deliverable
  <2>2. fetcher'[f].d = m.d /\ \A g \in Fetchers \ {f} : fetcher'[g] = fetcher[g]
    BY <1>0 DEF IdleFetcher
  <2>3. \A a, b \in msgs' : a.d = b.d => a = b
    BY <2>1 DEF HeldOnce
  <2>4. ASSUME NEW g \in Fetchers, fetcher'[g].pc # "idle"
        PROVE  /\ \A a \in msgs' : a.visible => a.d # fetcher'[g].d
               /\ \A h \in Fetchers \ {g} : fetcher'[h].pc # "idle" => fetcher'[h].d # fetcher'[g].d
    <3>m. /\ \A h \in Fetchers : fetcher[h].pc # "idle" => fetcher[h].d # m.d
          /\ \A a \in msgs \ {m} : a.d # m.d
      BY <2>1 DEF HeldOnce
    <3>1. CASE g = f
      <4>1. \A a \in msgs' : a.visible => a.d # m.d
        BY <2>1, <3>m
      <4>2. \A h \in Fetchers \ {f} : fetcher'[h].pc # "idle" => fetcher'[h].d # m.d
        BY <2>2, <3>m
      <4> QED BY <2>2, <3>1, <4>1, <4>2
    <3>2. CASE g # f
      <4>1. fetcher'[g] = fetcher[g] /\ fetcher[g].pc # "idle" /\ fetcher[g].d # m.d
        BY <2>2, <2>4, <3>2, <3>m
      <4>2. \A a \in msgs' : a.visible => a.d # fetcher[g].d
        BY <2>1, <4>1 DEF HeldOnce
      <4>3. \A h \in Fetchers \ {g} : fetcher'[h].pc # "idle" => fetcher'[h].d # fetcher[g].d
        <5>1. ASSUME NEW h \in Fetchers \ {g}, fetcher'[h].pc # "idle" PROVE fetcher'[h].d # fetcher[g].d
          <6>1. CASE h = f
            BY <2>2, <4>1, <6>1
          <6>2. CASE h # f
            BY <2>2, <4>1, <5>1, <6>2 DEF HeldOnce
          <6> QED BY <6>1, <6>2
        <5> QED BY <5>1
      <4> QED BY <4>1, <4>2, <4>3
    <3> QED BY <3>1, <3>2
  <2> QED BY <2>3, <2>4 DEF HeldOnce
<1>7. ASSUME Redeliver PROVE HeldOnce'
  <2> PICK m \in msgs : ~Held(m) /\ msgs' = (msgs \ {m}) \cup {[m EXCEPT !.visible = TRUE]}
    BY <1>7 DEF Redeliver
  <2> PICK n : n = [m EXCEPT !.visible = TRUE]
    OBVIOUS
  <2>1. n.d = m.d /\ msgs' = (msgs \ {m}) \cup {n} /\ UNCHANGED fetcher
    BY <1>0, <1>7 DEF Messages, Redeliver
  <2>2. \A f \in Fetchers : fetcher[f].pc # "idle" => fetcher[f].d # n.d
    BY <2>1 DEF Held
  <2> QED BY <2>1, <2>2 DEF HeldOnce
<1>8. ASSUME DeadLetter PROVE HeldOnce'
  BY <1>2, <1>8 DEF DeadLetter
<1>9. ASSUME NEW f \in Fetchers, Delete(f) PROVE HeldOnce'
  <2>1. \A g \in Fetchers : fetcher'[g].pc # "idle" => fetcher[g].pc # "idle" /\ fetcher'[g].d = fetcher[g].d
    BY <1>0, <1>9 DEF Delete, IdleFetcher
  <2>2. msgs' \subseteq msgs
    BY <1>9 DEF Delete
  <2> QED BY <1>2, <2>1, <2>2
<1>10. ASSUME NEW f \in Fetchers, FetcherTurn(f), ~Receive(f), ~Delete(f) PROVE HeldOnce'
  <2>1. UNCHANGED msgs /\ fetcher[f].pc # "idle"
    BY <1>10 DEF FetcherTurn, Gate, Get, DropRow, WriteBack, AskRedis, AskPostgres, SetDocKey, PutObject,
                 FetcherCrash
  <2> PICK e : Moves(fetcher[f], e) /\ fetcher' = [fetcher EXCEPT ![f] = e]
    BY <1>10, FetcherTurnIs
  <2>2. e.pc # "idle" => e.d = fetcher[f].d
    BY <2>1 DEF Moves, IdleFetcher
  <2>3. \A g \in Fetchers : fetcher'[g] = IF g = f THEN e ELSE fetcher[g]
    BY <1>0
  <2> QED BY <1>2, <2>1, <2>2, <2>3
<1>11. CASE UNCHANGED <<msgs, fetcher>>
  BY <1>2, <1>11
<1>12. ~RedeliverEarly
  BY <1>1 DEF RedeliverEarly
<1> QED BY <1>4, <1>5, <1>6, <1>7, <1>8, <1>9, <1>10, <1>11, <1>12, QueueWriters, FetcherWriters

\* A row settled after a step was settled before, under its stamp or a new one, or a worker has
\* just written it back.
LEMMA StampsChange ==
    ASSUME Typed, InOrder, [Next]_vars, NEW i \in Ids, Settled(i)'
    PROVE  \/ /\ Settled(i)
              /\ \/ artifact'[i].dispatch_id = artifact[i].dispatch_id
                 \/ artifact'[i].dispatch_id = published + 1
           \/ \E f \in Fetchers : /\ WriteBack(f) /\ fetcher[f].id = i
                                  /\ artifact'[i] = Verdict(fetcher[f])
<1> DEFINE Same == /\ Settled(i)
                   /\ \/ artifact'[i].dispatch_id = artifact[i].dispatch_id
                      \/ artifact'[i].dispatch_id = published + 1
<1>0. TableTyped /\ (\A t \in Stagers : StagerAt(stager[t])) /\ artifact \in [Ids -> Rows \cup {NoRow}]
  BY DEF Typed, ActorsTyped, TableTyped
<1>s. artifact'[i] # NoRow /\ artifact'[i].status # "pending"
  BY DEF Settled, Exists, Pending
<1>1. ASSUME artifact'[i] = artifact[i] PROVE Same
  BY <1>1, <1>s DEF Settled, Exists, Pending
<1>2. ASSUME NEW j \in Ids, artifact' = Stamped(j, published + 1) PROVE Same
  <2>1. CASE j # i \/ ~Exists(j)
    <3>1. artifact'[i] = artifact[i]
      BY <1>0, <1>2, <2>1 DEF Stamped
    <3> QED BY <1>1, <3>1
  <2>2. CASE j = i /\ Exists(i)
    <3> DEFINE r == [artifact[i] EXCEPT !.dispatch_id = published + 1, !.stale = FALSE]
    <3>1. artifact'[i] = r
      BY <1>0, <1>2, <2>2 DEF Stamped
    <3>2. artifact[i] \in Rows
      BY <1>0, <2>2 DEF Exists
    <3>3. r.dispatch_id = published + 1 /\ r.status = artifact[i].status
      BY <3>2 DEF Rows
    <3> HIDE DEF r
    <3> QED BY <1>s, <2>2, <3>1, <3>3 DEF Settled, Pending
  <2> QED BY <2>1, <2>2
<1>3. ASSUME NEW t \in Stagers, StageStamp(t) PROVE Same
  BY <1>0, <1>2, <1>3 DEF StageStamp, StagerAt
<1>4. ASSUME ReconStamp PROVE Same
  <2>1. Least(recon.todo) \in Ids
    BY <1>4, LeastIs DEF ReconStamp, Typed, ActorsTyped, ReconAt, Recons
  <2> QED BY <1>2, <1>4, <2>1 DEF ReconStamp
<1>5. ASSUME NEW j \in Ids, Aged(j) PROVE Same
  <2>1. CASE j = i
    <3>1. artifact'[i].status = artifact[i].status /\ Pending(i)
      BY <1>0, <1>5, <2>1, AgedIs DEF Aged
    <3> QED BY <1>s, <3>1 DEF Pending
  <2>2. CASE j # i
    <3>1. artifact'[i] = artifact[i]
      BY <1>0, <1>5, <2>2 DEF Aged
    <3> QED BY <1>1, <3>1
  <2> QED BY <2>1, <2>2
<1>6. ASSUME NEW t \in Stagers, StageInsert(t) PROVE Same
  <2>1. CASE UNCHANGED artifact
    BY <1>1, <2>1
  <2>2. ASSUME NEW r, Open(r), inserted + 1 \in Ids, artifact' = [artifact EXCEPT ![inserted + 1] = r]
        PROVE  Same
    <3>1. i # inserted + 1
      BY <1>0, <1>s, <2>2 DEF Open
    <3> QED BY <1>0, <1>1, <2>2, <3>1
  <2> QED BY <1>0, <1>6, <2>1, <2>2, InsertedIs
<1>7. ASSUME NEW f \in Fetchers, DropRow(f) \/ WriteBack(f)
      PROVE  Same \/ (WriteBack(f) /\ fetcher[f].id = i /\ artifact'[i] = Verdict(fetcher[f]))
  <2>1. fetcher[f].id \in Ids
    BY <1>7 DEF DropRow, WriteBack, Typed, ActorsTyped, FetcherAt
  <2>2. CASE artifact'[i] = artifact[i]
    BY <1>1, <2>2
  <2>3. CASE DropRow(f) /\ artifact'[i] # artifact[i]
    <3>1. artifact'[i] = NoRow
      BY <1>0, <2>1, <2>3 DEF DropRow
    <3> QED BY <1>s, <3>1
  <2>4. CASE WriteBack(f) /\ artifact'[i] # artifact[i]
    <3>1. artifact' = [artifact EXCEPT ![fetcher[f].id] = Verdict(fetcher[f])]
      BY <2>4 DEF WriteBack
    <3> QED BY <1>0, <2>1, <2>4, <3>1
  <2> QED BY <1>7, <2>2, <2>3, <2>4
<1> HIDE DEF Same
<1>8. UNCHANGED artifact => Same
  BY <1>1
<1>9. Same \/ \E f \in Fetchers : WriteBack(f) /\ fetcher[f].id = i /\ artifact'[i] = Verdict(fetcher[f])
  BY <1>3, <1>4, <1>5, <1>6, <1>7, <1>8, TableWriters
<1> QED BY <1>9 DEF Same

LEMMA OtherStep ==
    ASSUME Typed, InOrder, Reads, SentOnce, HeldOnce, Other, [Next]_vars
    PROVE  Other'
<1> SUFFICES ASSUME NEW f \in Fetchers, fetcher'[f].pc \in Judging, NEW i, i = fetcher'[f].id, Settled(i)'
             PROVE  artifact'[i].dispatch_id # fetcher'[f].d
  BY DEF Other, Settled, Exists, Pending
<1>0. /\ \A g \in Fetchers : FetcherAt(fetcher[g])
      /\ \A g \in Fetchers : fetcher[g].d \in Nat
      /\ published \in Nat
  BY ParamAssumption DEF Typed, ActorsTyped, TableTyped, Fetchings
<1>s. artifact'[i].status # "pending"
  BY DEF Settled, Pending
\* The gate has just found the row pending: it cannot be settled.
<1>1. /\ fetcher[f].pc \in Judging /\ i = fetcher[f].id /\ fetcher'[f].d = fetcher[f].d
      /\ ~WriteBack(f)
  BY <1>s, JudgesBefore DEF GatePasses, Pending
<1>2. i \in Ids /\ fetcher[f].pc # "idle"
  BY <1>0, <1>1 DEF FetcherAt, Judging
<1>3. CASE Settled(i) /\ artifact'[i].dispatch_id = artifact[i].dispatch_id
  BY <1>1, <1>3 DEF Other
<1>4. CASE artifact'[i].dispatch_id = published + 1
  <2>1. fetcher[f].d <= published
    BY <1>2 DEF SentOnce
  <2> QED BY <1>0, <1>1, <1>4, <2>1
<1>5. ASSUME NEW g \in Fetchers, WriteBack(g), artifact'[i] = Verdict(fetcher[g])
      PROVE  artifact'[i].dispatch_id # fetcher'[f].d
  <2>1. /\ fetcher[g].pc \in {"attempt", "not_document", "duplicate", "commit"}
        /\ fetcher[g].pc \in Judging /\ fetcher[g].pc # "idle"
    BY <1>5 DEF WriteBack, Judging
  <2>2. Verdict(fetcher[g]).dispatch_id = fetcher[g].mine.dispatch_id
    BY <1>0, <1>5, <1>s, <2>1, VerdictIs
  <2>3. fetcher[g].mine.dispatch_id = fetcher[g].d
    BY <2>1 DEF Reads
  <2>4. g # f
    BY <1>1, <1>5
  <2>5. fetcher[g].d # fetcher[f].d
    BY <1>2, <2>1, <2>4 DEF HeldOnce
  <2> QED BY <1>1, <1>5, <2>2, <2>3, <2>5
<1> QED BY <1>2, <1>3, <1>4, <1>5, StampsChange

\* A verdict is overruled only by a worker that passed its gate before the verdict was written, and,
\* while nothing failed, only by one of another dispatch; and no worker takes up a settled row: with
\* any number of fetch workers and stagers, and the reconciliation beside them.
THEOREM VerdictsAreRespected == Spec => VerdictsRest
<1> DEFINE Inv == /\ Typed /\ InOrder /\ Reads /\ SentOnce
                  /\ faults = 0 => HeldOnce /\ Other
           Rests(i) == Settled(i) =>
                /\ JudgesOf(i)' \subseteq JudgesOf(i)
                /\ Judgement(i)' # Judgement(i) =>
                     \E f \in JudgesOf(i) : fetcher[f].d # artifact[i].dispatch_id \/ faults > 0
<1>1. Init => Inv
  BY InitTyped, InitPlain
<1>2. Inv /\ [Next]_vars => Inv'
  <2> SUFFICES ASSUME Inv, [Next]_vars PROVE Inv'
    OBVIOUS
  <2>1. Typed' /\ InOrder' /\ Reads' /\ SentOnce'
    BY TypedStep, InOrderStep, ReadsStep, SentOnceStep
  <2>2. faults' = 0 => faults = 0 /\ UNCHANGED faults
    BY Counters, ParamAssumption DEF Typed, StoresTyped
  <2>3. faults' = 0 => HeldOnce' /\ Other'
    BY <2>2, HeldOnceStep, OtherStep
  <2> QED BY <2>1, <2>3
<1>3. ASSUME Inv, [Next]_vars, NEW i \in Ids PROVE Rests(i)
  <2> SUFFICES ASSUME Settled(i) PROVE Rests(i)
    OBVIOUS
  <2>0. artifact[i] # NoRow /\ artifact[i].status # "pending" /\ faults \in Nat
    BY <1>3, ParamAssumption DEF Settled, Exists, Pending, Typed, StoresTyped
  <2>1. ASSUME NEW f \in Fetchers, f \in JudgesOf(i)' PROVE f \in JudgesOf(i)
    <3>1. fetcher'[f].pc \in Judging /\ fetcher'[f].id = i
      BY <2>1 DEF JudgesOf
    <3>2. fetcher[f].pc \in Judging /\ fetcher[f].id = i
      BY <1>3, <2>0, <3>1, JudgesBefore DEF GatePasses, Pending
    <3> QED BY <3>2 DEF JudgesOf
  <2>2. ASSUME Judgement(i)' # Judgement(i)
        PROVE  \E f \in JudgesOf(i) : fetcher[f].d # artifact[i].dispatch_id \/ faults > 0
    <3>1. ~(artifact'[i].status = artifact[i].status /\ artifact'[i].sha256 = artifact[i].sha256)
      BY <2>2 DEF Judgement
    <3>2. PICK f \in Fetchers : /\ DropRow(f) \/ WriteBack(f)
                                /\ \A j \in Ids \ {fetcher[f].id} : artifact'[j] = artifact[j]
      BY <1>3, <2>0, <3>1, RowsChange DEF Exists
    <3>3. fetcher[f].id = i /\ fetcher[f].pc \in Judging
      BY <3>1, <3>2 DEF DropRow, WriteBack, Judging
    <3>4. faults = 0 => fetcher[f].d # artifact[i].dispatch_id
      BY <1>3, <3>3 DEF Other
    <3> QED BY <2>0, <3>3, <3>4 DEF JudgesOf
  <2> QED BY <2>1, <2>2 DEF JudgesOf
<1>4. Inv /\ [Next]_vars => [\A i \in Ids : Rests(i)]_vars
  BY <1>3
<1> QED BY <1>1, <1>2, <1>4, PTL DEF Spec, VerdictsRest
===============================================================================
