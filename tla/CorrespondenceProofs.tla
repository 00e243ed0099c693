------------------------- MODULE CorrespondenceProofs -------------------------
(***************************************************************************)
(* Theorems about Correspondence, for every set of threads and mails, and  *)
(* every limit, budget, number of receives, faults and acts of the         *)
(* operator.                                                               *)
(***************************************************************************)
EXTENDS Correspondence, FiniteSetTheorems, WellFoundedInduction, TLAPS

-----------------------------------------------------------------------------
(* The inductive invariant.                                                *)

\* A queue carries its own kinds of message; all but a follow-up name a mail where they name one.
Fitting(m) ==
    /\ m.q = "contacts" => m.kind \notin JobKinds
    /\ m.q = "followups" => m.kind \in JobKinds
    /\ m.q = "inbound" => m.kind \in {"reply", "stray"}
    /\ m.kind = "followup" => m.ref \in Nat
    /\ m.kind \in {"clarification_reply", "fee_agreement", "reply", "stray"} => m.ref \in Mails

\* Where an actor can be, and the statuses it sets.
Places(a) ==
    CASE a = "contacts"  -> {"idle", "start", "deliver", "record", "check", "write", "delete"}
      [] a = "followups" -> {"idle", "start", "read", "deliver", "check", "write", "delete"}
      [] a = "inbound"   -> {"idle", "start", "log", "react", "agree", "check", "write", "delete"}
      [] a = "dead"      -> {"idle", "start", "check", "write", "delete"}
      [] a = "scan"      -> {"idle", "next", "check", "write"}
      [] a = "operator"  -> {"idle", "check", "write", "approve"}
Targets(a) ==
    CASE a = "contacts"  -> {"request_sent", "needs_human"}
      [] a = "followups" -> {"awaiting_reply"}
      [] a = "inbound"   -> {"fulfilled", "referred", "awaiting_reply", "needs_human"}
      [] a = "dead"      -> {"needs_human"}
      [] a = "scan"      -> OpenStatuses \cup {"needs_human"}
      [] a = "operator"  -> Statuses

\* A consumer that is not idle holds a message of its queue, about the thread it works on.
Sound(a, c) ==
    /\ c \in Controls
    /\ c.pc \in Places(a)
    /\ a \in Consumers /\ c.pc # "idle" =>
          c.msg \in Messages /\ c.msg.q = a /\ Fitting(c.msg) /\ c.t = c.msg.t
    /\ c.pc \in {"check", "write"} => c.t \in Threads /\ c.to \in Targets(a)
    /\ c.pc = "approve" => c.t \in Threads
    /\ \A e \in c.todo : e[2].status \in OpenStatuses

RowsTyped   == /\ thread \in [Threads -> Rows \cup {NoRow}]
               /\ requests \in [Threads -> Nat] /\ replies \in [Mails -> Nat]
               /\ booked \in [Mails -> Nat] /\ open \in [Threads -> Nat]
               /\ approved \in [Threads -> Nat] /\ resolved \in [Threads -> 0 .. MaxHuman]
MailTyped   == /\ active \in BOOLEAN /\ faults \in 0 .. MaxFaults
               /\ arrived \subseteq ArrivedMails /\ IsFiniteSet(arrived)
               /\ logged \subseteq Mails \X BOOLEAN /\ reacted \subseteq Mails
               /\ mailed \subseteq Threads
QueueTyped  == /\ msgs \subseteq Messages /\ IsFiniteSet(msgs)
               /\ \A m \in msgs : Fitting(m)
ActorsTyped == /\ at \in [Actors -> Controls]
               /\ \A a \in Actors : Sound(a, at[a])
Typed == RowsTyped /\ MailTyped /\ QueueTyped /\ ActorsTyped

\* A follow-up job that was sent was allowed, and one that is past its look at the counter is not
\* behind it.
Sending == at["followups"].pc \in {"deliver", "check", "write"}
Nudged ==
    /\ FollowupsBounded
    /\ \A m \in msgs : m.kind = "followup" => m.ref < MaxFollowups
    /\ at["followups"].pc # "idle" /\ at["followups"].msg.kind = "followup" =>
          /\ at["followups"].msg.ref < MaxFollowups
          /\ Sending => thread[at["followups"].t].followups <= at["followups"].msg.ref

\* A job past its lookup answers a mail that has no answer.
Answering ==
    /\ RepliesOnce
    /\ Sending /\ at["followups"].msg.kind # "followup" => replies[at["followups"].msg.ref] = 0

\* A thread that may be sent a request has one approval for each it had.
Requesting == \/ at["contacts"].pc \in {"deliver", "record"}
              \/ at["contacts"].pc \in {"check", "write"} /\ at["contacts"].to # "needs_human"
Requested ==
    /\ RequestsBounded
    /\ \A t \in Threads : thread[t].status \in {"none", "pending_send"} => requests[t] <= approved[t]
    /\ Requesting => requests[at["contacts"].t] <= approved[at["contacts"].t]

\* Whoever is about to park a thread has told the operator, who has not forgotten it.
Known(t) == open[t] + resolved[t] > 0
Parking ==
    /\ ParkedIsEscalated
    /\ \A a \in Actors : at[a].pc \in {"check", "write"} /\ at[a].to = "needs_human" => Known(at[a].t)

\* Before its agreement is sent, a fee is booked.
AgreementsBooked ==
    /\ \A j \in msgs : j.kind = "fee_agreement" => booked[j.ref] > 0
    /\ at["inbound"].pc = "agree" => booked[at["inbound"].msg.ref] > 0

-----------------------------------------------------------------------------
(* Messages.                                                               *)

\* Some number up to one more than a finite set has members is not in it.
LEMMA UnusedIsNew ==
    ASSUME NEW S, IsFiniteSet(S)
    PROVE  Unused(S) \in Nat \ {0} /\ Unused(S) \notin S
<1> DEFINE n == Cardinality(S) + 1
<1>1. n \in Nat \ {0}
  BY FS_CardinalityType
<1>2. ~(1 .. n \subseteq S)
  <2> SUFFICES ASSUME 1 .. n \in SUBSET S PROVE FALSE
    OBVIOUS
  <2>1. Cardinality(1 .. n) <= Cardinality(S)
    BY FS_Subset
  <2>2. Cardinality(1 .. n) = n
    BY <1>1, FS_Interval
  <2> QED BY <2>1, <2>2, FS_CardinalityType
<1>3. \E c \in 1 .. n : c \notin S
  BY <1>2
<1>4. Unused(S) \in 1 .. n /\ Unused(S) \notin S
  BY <1>3 DEF Unused
<1> QED BY <1>1, <1>4

\* The image of a finite set under a field is finite.
LEMMA CopiesFinite ==
    ASSUME NEW S, IsFiniteSet(S)
    PROVE  IsFiniteSet({m.copy : m \in S})
<1> DEFINE T == {m.copy : m \in S}
           f == [m \in S |-> m.copy]
<1>1. f \in Surjection(S, T)
  BY DEF Surjection
<1> QED BY <1>1, FS_Surjection

\* A post adds one message, not received yet.
Posted(q, t, kind, ref, c) ==
    [q |-> q, t |-> t, kind |-> kind, ref |-> ref, receives |-> 0, copy |-> c]
LEMMA PostIs ==
    ASSUME NEW S, IsFiniteSet(S), NEW q, NEW t, NEW kind, NEW ref
    PROVE  \E c \in Nat \ {0} : Post(S, q, t, kind, ref) = S \cup {Posted(q, t, kind, ref, c)}
<1> DEFINE equal == {m \in S : m.q = q /\ m.t = t /\ m.kind = kind /\ m.ref = ref}
<1>1. IsFiniteSet(equal)
  BY FS_Subset
<1>2. IsFiniteSet({m.copy : m \in equal})
  BY <1>1, CopiesFinite
<1>3. Unused({m.copy : m \in equal}) \in Nat \ {0}
  BY <1>2, UnusedIsNew
<1> QED BY <1>3 DEF Post, Posted

LEMMA PostedFits ==
    ASSUME NEW q \in Consumers, NEW t \in Threads, NEW kind \in Kinds, NEW ref \in Mails \cup Nat,
           NEW c \in Nat \ {0}
    PROVE  /\ Posted(q, t, kind, ref, c) \in Messages
           /\ LET m == Posted(q, t, kind, ref, c)
              IN m.q = q /\ m.t = t /\ m.kind = kind /\ m.ref = ref /\ m.receives = 0
BY ParamAssumption DEF Posted, Messages

LEMMA PostTyped ==
    ASSUME NEW S \in SUBSET Messages, IsFiniteSet(S), \A m \in S : Fitting(m),
           NEW q \in Consumers, NEW t \in Threads, NEW kind \in Kinds, NEW ref \in Mails \cup Nat,
           \A c \in Nat \ {0} : Fitting(Posted(q, t, kind, ref, c))
    PROVE  /\ Post(S, q, t, kind, ref) \subseteq Messages
           /\ IsFiniteSet(Post(S, q, t, kind, ref))
           /\ \A m \in Post(S, q, t, kind, ref) : Fitting(m)
BY PostIs, PostedFits, FS_AddElement

LEMMA KindsAre ==
    /\ JobKinds \subseteq Kinds
    /\ \A k \in {"seeded", "referral", "human_approved", "reply", "stray"} : k \in Kinds \ JobKinds
BY DEF Kinds, JobKinds

-----------------------------------------------------------------------------
(* Types.                                                                  *)

LEMMA QueueInit == Init => QueueTyped
<1> SUFFICES ASSUME Init PROVE QueueTyped
  OBVIOUS
<1> DEFINE M(t) == [q |-> "contacts", t |-> t, kind |-> "seeded", ref |-> NoRef, copy |-> 1,
                    receives |-> 0]
           f == [t \in Threads |-> M(t)]
<1>1. msgs = {M(t) : t \in Threads}
  BY DEF Init
<1>2. f \in Surjection(Threads, msgs)
  BY <1>1 DEF Surjection
<1>3. IsFiniteSet(msgs)
  BY <1>2, FS_Surjection, ParamAssumption
<1>4. \A t \in Threads : M(t) \in Messages
  BY ParamAssumption DEF Messages, Consumers, Senders, Kinds, JobKinds, NoRef
<1>5. \A t \in Threads : Fitting(M(t))
  BY DEF Fitting, JobKinds
<1> QED BY <1>1, <1>3, <1>4, <1>5 DEF QueueTyped

LEMMA IdleSound == ASSUME NEW a \in Actors PROVE Sound(a, Idle)
<1>1. Idle \in Controls
  BY DEF Idle, Controls
<1> QED BY <1>1 DEF Sound, Idle, Places, Actors, Consumers, Senders

LEMMA RowsInit == Init => RowsTyped /\ MailTyped
BY FS_EmptySet, ParamAssumption DEF Init, RowsTyped, MailTyped, Zero

LEMMA InitTyped == Init => Typed
<1> SUFFICES ASSUME Init PROVE Typed
  OBVIOUS
<1>1. ActorsTyped
  <2>1. \A a \in Actors : at[a] = Idle
    BY DEF Init
  <2>2. at \in [Actors -> Controls]
    BY IdleSound DEF Init, Sound
  <2> QED BY <2>1, <2>2, IdleSound DEF ActorsTyped
<1> QED BY <1>1, QueueInit, RowsInit DEF Typed

\* The actions that change a thread's row.
LEMMA ThreadChange ==
    ASSUME [Next]_vars
    PROVE  \/ UNCHANGED thread
           \/ \E a \in Actors : Write(a)
           \/ \E q \in Senders : RecordSend(q)
           \/ RecordNew
           \/ \E t \in Threads : Falls(t)
BY DEF Next, vars, Receive, Delete, Check, Fails, Deliver, ContactGate, JobStart, JobRead, Arrive,
       Poll, Match, LogMail, React, Agree, ScanSelect, ScanThread, DeadLetter, Drain, Crash,
       Resolve, Approve, SetActive, FallsQuiet, FallsEarly

LEMMA CountsChange ==
    ASSUME [Next]_vars
    PROVE  \/ UNCHANGED <<requests, replies>>
           \/ \E q \in Senders : RecordSend(q)
           \/ RecordNew
BY DEF Next, vars, rows, Receive, Delete, Check, Write, Fails, Deliver, ContactGate, JobStart,
       JobRead, Arrive, Poll, Match, LogMail, React, Agree, ScanSelect, ScanThread, DeadLetter,
       Drain, Crash, Resolve, Approve, SetActive, FallsQuiet, FallsEarly, Falls

LEMMA BookedChange ==
    ASSUME [Next]_vars
    PROVE  UNCHANGED booked \/ (React /\ ReactPay)
BY DEF Next, vars, rows, Receive, Delete, Check, Write, Fails, Deliver, RecordSend, RecordNew,
       ContactGate, JobStart, JobRead, Arrive, Poll, Match, LogMail, React, ReactFulfil, ReactAck,
       ReactGiveUp, ReactRefer, ReactClarify, Agree, ScanSelect, ScanThread, DeadLetter, Drain,
       Crash, Resolve, Approve, SetActive, FallsQuiet, FallsEarly, Falls

LEMMA OpenChange ==
    ASSUME [Next]_vars
    PROVE  \/ UNCHANGED <<open, resolved>>
           \/ ContactGate \/ Drain \/ React \/ ScanThread \/ Resolve
BY DEF Next, vars, rows, human, Receive, Delete, Check, Write, Fails, Deliver, RecordSend,
       RecordNew, JobStart, JobRead, Arrive, Poll, Match, LogMail, Agree, ScanSelect, DeadLetter,
       Crash, Approve, SetActive, FallsQuiet, FallsEarly, Falls

LEMMA ApprovedChange ==
    ASSUME [Next]_vars
    PROVE  UNCHANGED approved \/ \E a \in Actors : Write(a)
BY DEF Next, vars, rows, human, Receive, Delete, Check, Fails, Deliver, RecordSend,
       RecordNew, ContactGate, JobStart, JobRead, Arrive, Poll, Match, LogMail, React, Agree,
       ScanSelect, ScanThread, DeadLetter, Drain, Crash, Resolve, Approve, SetActive, FallsQuiet,
       FallsEarly, Falls

LEMMA MessagesChange ==
    ASSUME [Next]_vars
    PROVE  \/ UNCHANGED msgs
           \/ \E q \in Consumers : Receive(q) \/ Delete(q)
           \/ Poll \/ React \/ Agree \/ ScanThread \/ DeadLetter \/ Approve
BY DEF Next, vars, Check, Write, Fails, Deliver, RecordSend, RecordNew, ContactGate, JobStart,
       JobRead, Arrive, Match, LogMail, ScanSelect, Drain, Crash, Resolve, SetActive, FallsQuiet,
       FallsEarly, Falls

LEMMA ReactedChange ==
    ASSUME [Next]_vars
    PROVE  UNCHANGED reacted \/ LogMail \/ \E a \in Actors : Check(a) \/ Write(a)
BY DEF Next, vars, mailbox, Receive, Delete, Fails, Deliver, RecordSend, RecordNew, ContactGate,
       JobStart, JobRead, Arrive, Poll, Match, React, Agree, ScanSelect, ScanThread, DeadLetter,
       Drain, Crash, Resolve, Approve, SetActive, FallsQuiet, FallsEarly, Falls

LEMMA MailChange ==
    ASSUME [Next]_vars
    PROVE  /\ UNCHANGED arrived \/ \E m \in Mails : Arrive(m)
           /\ UNCHANGED logged \/ LogMail
           /\ UNCHANGED mailed \/ \E q \in Senders : Deliver(q)
           /\ UNCHANGED active \/ SetActive
           /\ UNCHANGED faults \/ Fault
<1>1. UNCHANGED vars => UNCHANGED <<active, arrived, logged, mailed, faults>>
  BY DEF vars, mailbox
<1>2. Next => /\ UNCHANGED arrived \/ \E m \in Mails : Arrive(m)
              /\ UNCHANGED logged \/ LogMail
              /\ UNCHANGED mailed \/ \E q \in Senders : Deliver(q)
  BY DEF Next, mailbox, Receive, Delete, Check, Write, Fails, RecordSend, RecordNew, ContactGate,
         JobStart, JobRead, Poll, Match, React, Agree, ScanSelect, ScanThread, DeadLetter, Drain,
         Crash, Resolve, Approve, SetActive, FallsQuiet, FallsEarly, Falls, Deliver, Arrive, LogMail
<1>3. Next => UNCHANGED active \/ SetActive
  BY DEF Next, mailbox, Receive, Delete, Check, Write, Fails, Deliver, RecordSend, RecordNew,
         ContactGate, JobStart, JobRead, Arrive, Poll, Match, LogMail, React, Agree, ScanSelect,
         ScanThread, DeadLetter, Drain, Crash, Resolve, Approve, FallsQuiet, FallsEarly, Falls
<1>4. Next => UNCHANGED faults \/ Fault
  BY DEF Next, NoFault, Receive, Delete, Check, Write, Fails, Deliver, RecordSend, RecordNew,
         ContactGate, JobStart, JobRead, Arrive, Poll, Match, LogMail, React, Agree, ScanSelect,
         ScanThread, DeadLetter, Drain, Crash, Resolve, Approve, SetActive, FallsQuiet, FallsEarly
<1> QED BY <1>1, <1>2, <1>3, <1>4

\* What an actor's control says, in a typed state.
LEMMA ActorIs ==
    ASSUME Typed, NEW a \in Actors
    PROVE  /\ at[a] \in Controls /\ Sound(a, at[a])
           /\ at[a].pc \in Places(a)
           /\ a \in Consumers /\ at[a].pc # "idle" =>
                 /\ at[a].msg \in Messages /\ at[a].msg.q = a /\ Fitting(at[a].msg)
                 /\ at[a].t = at[a].msg.t /\ at[a].t \in Threads
           /\ at[a].pc \in {"check", "write"} =>
                 /\ at[a].t \in Threads /\ at[a].to \in Targets(a) /\ at[a].to \in Statuses
                 /\ at[a].next \in {"null", "later", "due"}
           /\ at[a].pc = "approve" => at[a].t \in Threads
           /\ \A e \in at[a].todo : e \in Threads \X Rows /\ e[2].status \in OpenStatuses
<1>1. Sound(a, at[a])
  BY DEF Typed, ActorsTyped
<1>2. Targets(a) \subseteq Statuses
  BY DEF Targets, Statuses, OpenStatuses, Actors, Consumers, Senders
<1>3. \A m \in Messages : m.t \in Threads
  BY DEF Messages
<1> QED BY <1>1, <1>2, <1>3 DEF Sound, Controls

\* A write keeps the counter, and leaves a row even where there was none.
LEMMA WriteIs ==
    ASSUME Typed, NEW a \in Actors, Write(a)
    PROVE  /\ at[a].t \in Threads /\ at[a].to \in Targets(a)
           /\ at[a].to \in Statuses /\ at[a].next \in {"null", "later", "due"}
           /\ thread[at[a].t].followups \in Nat
           /\ thread' = [thread EXCEPT ![at[a].t] =
                 [status |-> at[a].to, next |-> at[a].next, followups |-> thread[at[a].t].followups]]
<1> DEFINE t == at[a].t
           s == at[a].to
           n == at[a].next
           k == thread[t].followups
           one == [thread EXCEPT ![t].status = s]
           two == [one EXCEPT ![t].next = n]
           r == [status |-> s, next |-> n, followups |-> k]
<1>1. thread' = two
  BY DEF Write
<1>2. t \in Threads /\ s \in Targets(a) /\ s \in Statuses /\ n \in {"null", "later", "due"}
  BY ActorIs DEF Write, At
<1>3. thread \in [Threads -> Rows \cup {NoRow}]
  BY DEF Typed, RowsTyped
<1> HIDE DEF t, s, n
<1>4. thread[t] = [status |-> thread[t].status, next |-> thread[t].next, followups |-> k] /\ k \in Nat
  BY <1>2, <1>3 DEF Rows, NoRow
<1>5. one[t] = [status |-> s, next |-> thread[t].next, followups |-> k]
  BY <1>2, <1>3, <1>4
<1>6. DOMAIN two = Threads /\ two[t] = r /\ \A u \in Threads \ {t} : two[u] = thread[u]
  BY <1>2, <1>3, <1>5
<1>7. two = [thread EXCEPT ![t] = r]
  BY <1>3, <1>6
<1>8. thread' = [thread EXCEPT ![t] = r]
  BY <1>1, <1>7
<1> QED BY <1>2, <1>4, <1>8 DEF t, s, n

LEMMA ThreadTyped ==
    ASSUME Typed, [Next]_vars
    PROVE  thread' \in [Threads -> Rows \cup {NoRow}]
<1> USE DEF Typed, RowsTyped
<1>1. CASE UNCHANGED thread
  BY <1>1
<1>2. ASSUME NEW a \in Actors, Write(a) PROVE thread' \in [Threads -> Rows \cup {NoRow}]
  <2> DEFINE t == at[a].t
             s == at[a].to
             n == at[a].next
             k == thread[t].followups
  <2>1. /\ t \in Threads /\ s \in Statuses /\ n \in {"null", "later", "due"} /\ k \in Nat
        /\ thread' = [thread EXCEPT ![t] = [status |-> s, next |-> n, followups |-> k]]
    BY <1>2, WriteIs
  <2> HIDE DEF t, s, n, k
  <2> QED BY <2>1 DEF Rows
<1>3. ASSUME NEW q \in Senders, RecordSend(q) PROVE thread' \in [Threads -> Rows \cup {NoRow}]
  <2>1. at[q].t \in Threads /\ at[q].to \in Statuses /\ at[q].next \in {"null", "later", "due"}
    BY <1>3, ActorIs DEF RecordSend, At, Actors, Consumers
  <2>2. thread[at[q].t].followups \in Nat
    BY <2>1 DEF Rows, NoRow
  <2> DEFINE k == thread[at[q].t].followups
             m == IF at[q].msg.kind = "followup" THEN k + 1 ELSE k
  <2>3. m \in Nat
    BY <2>2
  <2>4. thread' = [thread EXCEPT ![at[q].t] =
                             [status |-> at[q].to, next |-> at[q].next, followups |-> m]]
    BY <1>3 DEF RecordSend
  <2> HIDE DEF m
  <2> QED BY <2>1, <2>3, <2>4 DEF Rows
<1>4. CASE RecordNew
  <2>1. at["contacts"].t \in Threads
    BY <1>4, ActorIs DEF RecordNew, At, Actors, Consumers, Senders
  <2> QED BY <1>4, <2>1 DEF RecordNew, Rows, Statuses, OpenStatuses
<1>5. ASSUME NEW t \in Threads, Falls(t) PROVE thread' \in [Threads -> Rows \cup {NoRow}]
  BY <1>5 DEF Falls, IsOpen, Rows, NoRow, OpenStatuses
<1> QED BY <1>1, <1>2, <1>3, <1>4, <1>5, ThreadChange

LEMMA Escalates ==
    ASSUME NEW t \in Threads, open \in [Threads -> Nat]
    PROVE  /\ Told(t) \in [Threads -> Nat] /\ Told(t)[t] = open[t] + 1
           /\ \A u \in Threads : Told(t)[u] >= open[u]
BY DEF Told

\* The escalations of a step: one thread more is told of, or the operator resolves one.
LEMMA OpenSteps ==
    ASSUME Typed, [Next]_vars
    PROVE  \/ UNCHANGED <<open, resolved>>
           \/ UNCHANGED resolved /\ \E t \in Threads : open' = Told(t)
           \/ \E t \in Threads : /\ open[t] > 0 /\ resolved[t] < MaxHuman
                                 /\ open' = [open EXCEPT ![t] = @ - 1]
                                 /\ resolved' = [resolved EXCEPT ![t] = @ + 1]
<1> DEFINE Done == \/ UNCHANGED <<open, resolved>>
                   \/ UNCHANGED resolved /\ \E t \in Threads : open' = Told(t)
<1> USE DEF Actors, Consumers, Senders
<1>1. CASE ContactGate
  <2>1. at["contacts"].t \in Threads
    BY <1>1, ActorIs DEF ContactGate, At
  <2> QED BY <1>1, <2>1 DEF ContactGate, Escalate, human
<1>2. CASE Drain
  <2>1. at["dead"].t \in Threads
    BY <1>2, ActorIs DEF Drain, At
  <2> QED BY <1>2, <2>1 DEF Drain, Escalate, human
<1>3. CASE React
  <2>1. at["inbound"].t \in Threads
    BY <1>3, ActorIs DEF React, At
  <2>2. UNCHANGED open \/ open' = Told(at["inbound"].t)
    BY <1>3 DEF React, ReactFulfil, ReactAck, ReactGiveUp, ReactRefer, ReactClarify, ReactPay, Escalate
  <2>3. UNCHANGED resolved
    BY <1>3 DEF React, human
  <2> QED BY <2>1, <2>2, <2>3
<1>4. CASE ScanThread
  <2>1. PICK e \in at["scan"].todo : open' = Told(e[1]) \/ UNCHANGED open
    BY <1>4 DEF ScanThread
  <2>2. e[1] \in Threads
    BY ActorIs
  <2> QED BY <1>4, <2>1, <2>2 DEF ScanThread, human
<1>5. CASE Resolve
  BY <1>5 DEF Resolve
<1> QED BY <1>1, <1>2, <1>3, <1>4, <1>5, OpenChange

LEMMA OpenTyped ==
    ASSUME Typed, [Next]_vars
    PROVE  open' \in [Threads -> Nat] /\ resolved' \in [Threads -> 0 .. MaxHuman]
<1> USE DEF Typed, RowsTyped
<1>1. CASE UNCHANGED <<open, resolved>>
  BY <1>1
<1>2. CASE UNCHANGED resolved /\ \E t \in Threads : open' = Told(t)
  BY <1>2, Escalates
<1>3. ASSUME NEW t \in Threads, open[t] > 0, resolved[t] < MaxHuman,
             open' = [open EXCEPT ![t] = @ - 1], resolved' = [resolved EXCEPT ![t] = @ + 1]
      PROVE  open' \in [Threads -> Nat] /\ resolved' \in [Threads -> 0 .. MaxHuman]
  <2>1. open[t] \in Nat /\ resolved[t] \in 0 .. MaxHuman /\ MaxHuman \in Nat
    BY ParamAssumption
  <2>2. open[t] - 1 \in Nat /\ resolved[t] + 1 \in 0 .. MaxHuman
    BY <1>3, <2>1
  <2> QED BY <1>3, <2>2
<1> QED BY <1>1, <1>2, <1>3, OpenSteps

LEMMA OneMoreTyped ==
    ASSUME NEW S, NEW f \in [S -> Nat], NEW x
    PROVE  [f EXCEPT ![x] = @ + 1] \in [S -> Nat]
<1>1. CASE x \in S
  BY <1>1
<1>2. CASE x \notin S
  <2>1. [f EXCEPT ![x] = @ + 1] = f
    BY <1>2
  <2> QED BY <2>1
<1> QED BY <1>1, <1>2

LEMMA CountsTyped ==
    ASSUME Typed, [Next]_vars
    PROVE  /\ requests' \in [Threads -> Nat] /\ replies' \in [Mails -> Nat]
           /\ approved' \in [Threads -> Nat] /\ booked' \in [Mails -> Nat]
<1> USE DEF Typed, RowsTyped
<1>1. requests' \in [Threads -> Nat]
  <2>1. \A t : [requests EXCEPT ![t] = @ + 1] \in [Threads -> Nat]
    BY OneMoreTyped
  <2>2. RecordNew => requests' = [requests EXCEPT ![at["contacts"].t] = @ + 1]
    BY DEF RecordNew
  <2>3. \A q \in Senders : RecordSend(q) =>
            requests' = requests \/ requests' = [requests EXCEPT ![at[q].t] = @ + 1]
    BY DEF RecordSend
  <2> QED BY <2>1, <2>2, <2>3, CountsChange
<1>2. replies' \in [Mails -> Nat]
  <2>1. \A m : [replies EXCEPT ![m] = @ + 1] \in [Mails -> Nat]
    BY OneMoreTyped
  <2>2. RecordNew => replies' = replies
    BY DEF RecordNew
  <2>3. \A q \in Senders : RecordSend(q) =>
            replies' = replies \/ replies' = [replies EXCEPT ![at[q].msg.ref] = @ + 1]
    BY DEF RecordSend
  <2> QED BY <2>1, <2>2, <2>3, CountsChange
<1>3. approved' \in [Threads -> Nat]
  <2>1. \A t : [approved EXCEPT ![t] = @ + 1] \in [Threads -> Nat]
    BY OneMoreTyped
  <2>2. \A a \in Actors : Write(a) =>
            approved' = approved \/ approved' = [approved EXCEPT ![at[a].t] = @ + 1]
    BY DEF Write
  <2> QED BY <2>1, <2>2, ApprovedChange
<1>4. booked' \in [Mails -> Nat]
  BY BookedChange, ParamAssumption DEF React, ReactPay, ReactGiveUp
<1> QED BY <1>1, <1>2, <1>3, <1>4

LEMMA MailStep ==
    ASSUME Typed, [Next]_vars
    PROVE  MailTyped'
<1> USE DEF Typed, MailTyped
<1>1. active' \in BOOLEAN
  BY MailChange DEF SetActive
<1>2. faults' \in 0 .. MaxFaults
  BY MailChange, ParamAssumption DEF Fault
<1>3. arrived' \subseteq ArrivedMails /\ IsFiniteSet(arrived')
  <2>1. CASE UNCHANGED arrived
    BY <2>1
  <2>2. ASSUME NEW m \in Mails, Arrive(m) PROVE arrived' \subseteq ArrivedMails /\ IsFiniteSet(arrived')
    <3>1. PICK t \in mailed, kind \in {"reply", "stray"} :
              arrived' = arrived \cup {[m |-> m, t |-> t, kind |-> kind]}
      BY <2>2 DEF Arrive
    <3> DEFINE x == [m |-> m, t |-> t, kind |-> kind]
    <3>2. x \in ArrivedMails
      BY DEF ArrivedMails
    <3>3. arrived' = arrived \cup {x}
      BY <3>1
    <3> HIDE DEF x
    <3>4. IsFiniteSet(arrived')
      BY <3>3, FS_AddElement
    <3> QED BY <3>2, <3>3, <3>4
  <2> QED BY <2>1, <2>2, MailChange
<1>4. logged' \subseteq Mails \X BOOLEAN
  <2>1. CASE LogMail
    <3>1. at["inbound"].msg.ref \in Mails
      BY <2>1, ActorIs DEF LogMail, At, Fitting, Actors, Consumers, Senders
    <3>2. PICK b \in BOOLEAN : b = (at["inbound"].seen # NoRow)
      OBVIOUS
    <3>3. logged' = logged \cup {<<at["inbound"].msg.ref, b>>}
      BY <2>1, <3>2 DEF LogMail
    <3> QED BY <3>1, <3>3
  <2> QED BY <2>1, MailChange
<1>5. reacted' \subseteq Mails
  <2>1. at["inbound"].pc # "idle" => at["inbound"].msg.ref \in Mails
    BY ActorIs DEF Fitting, Actors, Consumers, Senders
  <2>2. CASE LogMail
    BY <2>1, <2>2 DEF LogMail, At
  <2>3. ASSUME NEW a \in Actors, Check(a) \/ Write(a) PROVE reacted' \subseteq Mails
    <3>1. at[a].pc # "idle"
      BY <2>3 DEF Check, Write, At
    <3>2. Reacted(a) \subseteq Mails
      BY <3>1, <2>1 DEF Reacted
    <3> QED BY <2>3, <3>2 DEF Check, Write
  <2> QED BY <2>2, <2>3, ReactedChange
<1>6. mailed' \subseteq Threads
  <2>1. ASSUME NEW q \in Senders, Deliver(q) PROVE mailed' \subseteq Threads
    <3>1. at[q].t \in Threads
      BY <2>1, ActorIs DEF Deliver, At, Actors, Consumers
    <3> QED BY <2>1, <3>1 DEF Deliver
  <2> QED BY <2>1, MailChange
<1> QED BY <1>1, <1>2, <1>3, <1>4, <1>5, <1>6

\* Every message a step leaves in the queues was there, or is a new one of its queue.
LEMMA ReceivedFits ==
    ASSUME Typed, NEW q \in Consumers, NEW m \in msgs, m.q = q, Deliverable(m),
           NEW r, r = IF q = "dead" THEN m ELSE [m EXCEPT !.receives = @ + 1]
    PROVE  /\ r \in Messages /\ Fitting(r)
           /\ r.q = m.q /\ r.t = m.t /\ r.kind = m.kind /\ r.ref = m.ref
<1>1. m \in Messages /\ Fitting(m)
  BY DEF Typed, QueueTyped
<1>2. CASE q = "dead"
  BY <1>1, <1>2
<1>3. CASE q # "dead"
  <2>1. m.receives + 1 \in 0 .. MaxReceive
    BY <1>1, <1>3, ParamAssumption DEF Deliverable, Messages
  <2>2. r \in Messages /\ r.q = m.q /\ r.t = m.t /\ r.kind = m.kind /\ r.ref = m.ref
    BY <1>1, <1>3, <2>1 DEF Messages
  <2> QED BY <1>1, <2>2 DEF Fitting
<1> QED BY <1>2, <1>3

LEMMA ReceiveQueue ==
    ASSUME Typed, NEW q \in Consumers, Receive(q)
    PROVE  QueueTyped'
<1> DEFINE R(m) == IF q = "dead" THEN m ELSE [m EXCEPT !.receives = @ + 1]
<1>1. PICK m \in msgs : m.q = q /\ Deliverable(m) /\ msgs' = (msgs \ {m}) \cup {R(m)}
  BY DEF Receive
<1>2. R(m) \in Messages /\ Fitting(R(m))
  BY <1>1, ReceivedFits
<1> HIDE DEF R
<1>3. IsFiniteSet(msgs')
  BY <1>1, FS_AddElement, FS_RemoveElement DEF Typed, QueueTyped
<1> QED BY <1>1, <1>2, <1>3 DEF Typed, QueueTyped

LEMMA PollQueue ==
    ASSUME Typed, Poll
    PROVE  QueueTyped'
<1> DEFINE new == {a \in arrived : ~HasSourceKey(a.m)}
           M(a) == [q |-> "inbound", t |-> a.t, kind |-> a.kind, ref |-> a.m, copy |-> 1,
                    receives |-> 0]
           sent == {M(a) : a \in new}
           f == [a \in new |-> M(a)]
<1>1. msgs' = msgs \cup sent
  BY DEF Poll
<1>2. f \in Surjection(new, sent)
  BY DEF Surjection
<1>3. IsFiniteSet(new)
  BY FS_Subset DEF Typed, MailTyped
<1>4. IsFiniteSet(sent)
  BY <1>2, <1>3, FS_Surjection
<1>5. \A a \in new : M(a) \in Messages /\ Fitting(M(a))
  <2> SUFFICES ASSUME NEW a \in new PROVE M(a) \in Messages /\ Fitting(M(a))
    OBVIOUS
  <2>1. a.m \in Mails /\ a.t \in Threads /\ a.kind \in {"reply", "stray"}
    BY DEF Typed, MailTyped, ArrivedMails
  <2>2. a.kind \in Kinds
    BY <2>1, KindsAre
  <2>3. M(a) \in Messages
    BY <2>1, <2>2, ParamAssumption DEF Messages, Consumers
  <2> QED BY <2>1, <2>3 DEF Fitting
<1>6. IsFiniteSet(msgs')
  BY <1>1, <1>4, FS_Union DEF Typed, QueueTyped
<1> HIDE DEF new, M, f
<1> QED BY <1>1, <1>5, <1>6 DEF Typed, QueueTyped

\* The messages a handler posts.
Queues == {S \in SUBSET Messages : IsFiniteSet(S) /\ \A x \in S : Fitting(x)}
LEMMA PostFits ==
    ASSUME Typed
    PROVE  /\ \A u \in Threads, m \in Mails : Post(msgs, "contacts", u, "referral", m) \in Queues
           /\ \A u \in Threads, m \in Mails, k \in {"clarification_reply", "fee_agreement"} :
                Post(msgs, "followups", u, k, m) \in Queues
           /\ \A u \in Threads, n \in Nat : Post(msgs, "followups", u, "followup", n) \in Queues
           /\ \A u \in Threads : Post(msgs, "contacts", u, "human_approved", NoRef) \in Queues
<1> USE DEF Consumers, Senders, Queues
<1>0. msgs \in SUBSET Messages /\ IsFiniteSet(msgs) /\ \A m \in msgs : Fitting(m)
  BY DEF Typed, QueueTyped
<1>1. ASSUME NEW u \in Threads, NEW m \in Mails PROVE Post(msgs, "contacts", u, "referral", m) \in Queues
  <2>1. \A c \in Nat \ {0} : Fitting(Posted("contacts", u, "referral", m, c))
    BY DEF Fitting, Posted, JobKinds
  <2> QED BY <1>0, <2>1, PostTyped, KindsAre
<1>2. ASSUME NEW u \in Threads, NEW m \in Mails, NEW k \in {"clarification_reply", "fee_agreement"}
      PROVE  Post(msgs, "followups", u, k, m) \in Queues
  <2>1. \A c \in Nat \ {0} : Fitting(Posted("followups", u, k, m, c))
    BY DEF Fitting, Posted, JobKinds
  <2>2. k \in Kinds
    BY DEF Kinds, JobKinds
  <2> QED BY <1>0, <2>1, <2>2, PostTyped
<1>3. ASSUME NEW u \in Threads, NEW n \in Nat PROVE Post(msgs, "followups", u, "followup", n) \in Queues
  <2>1. \A c \in Nat \ {0} : Fitting(Posted("followups", u, "followup", n, c))
    BY DEF Fitting, Posted, JobKinds
  <2>2. "followup" \in Kinds
    BY DEF Kinds, JobKinds
  <2> QED BY <1>0, <2>1, <2>2, PostTyped
<1>4. ASSUME NEW u \in Threads PROVE Post(msgs, "contacts", u, "human_approved", NoRef) \in Queues
  <2>1. \A c \in Nat \ {0} : Fitting(Posted("contacts", u, "human_approved", NoRef, c))
    BY DEF Fitting, Posted, JobKinds
  <2> QED BY <1>0, <2>1, PostTyped, KindsAre DEF NoRef
<1> QED BY <1>1, <1>2, <1>3, <1>4

LEMMA InboundIs ==
    ASSUME Typed, at["inbound"].pc # "idle"
    PROVE  at["inbound"].msg.ref \in Mails /\ at["inbound"].t \in Threads
BY ActorIs DEF Fitting, Actors, Consumers, Senders

LEMMA QueueStep ==
    ASSUME Typed, [Next]_vars
    PROVE  QueueTyped'
<1> USE DEF Typed, QueueTyped
<1>1. ASSUME NEW q \in Consumers, Receive(q) PROVE QueueTyped'
  BY <1>1, ReceiveQueue
<1>2. ASSUME NEW q \in Consumers, Delete(q) PROVE QueueTyped'
  BY <1>2, FS_RemoveElement DEF Delete
<1>3. CASE Poll
  BY <1>3, PollQueue
<1>4. CASE React
  <2>1. at["inbound"].msg.ref \in Mails /\ at["inbound"].t \in Threads
    BY <1>4, InboundIs DEF React, At
  <2>2. CASE ReactRefer
    BY <2>1, <2>2, PostFits DEF ReactRefer, Queues
  <2>3. CASE ReactClarify
    BY <2>1, <2>3, PostFits DEF ReactClarify, Queues
  <2>4. CASE UNCHANGED msgs
    BY <2>4
  <2> QED BY <1>4, <2>2, <2>3, <2>4 DEF React, ReactFulfil, ReactAck, ReactGiveUp, ReactPay
<1>5. CASE Agree
  <2>1. at["inbound"].msg.ref \in Mails /\ at["inbound"].t \in Threads
    BY <1>5, InboundIs DEF Agree, At
  <2> QED BY <1>5, <2>1, PostFits DEF Agree, Queues
<1>6. CASE ScanThread
  <2>1. PICK e \in at["scan"].todo : \/ msgs' = msgs
                                     \/ msgs' = Post(msgs, "followups", e[1], "followup", e[2].followups)
    BY <1>6 DEF ScanThread
  <2>2. e[1] \in Threads /\ e[2].followups \in Nat
    BY ActorIs DEF Rows, Actors
  <2> QED BY <2>1, <2>2, PostFits DEF Queues
<1>7. CASE DeadLetter
  <2>1. PICK m \in msgs : msgs' = Post(msgs \ {m}, "dead", m.t, m.kind, m.ref)
    BY <1>7 DEF DeadLetter
  <2>2. m \in Messages /\ Fitting(m)
    OBVIOUS
  <2>3. m.t \in Threads /\ m.kind \in Kinds /\ m.ref \in Mails \cup Nat
    BY <2>2 DEF Messages
  <2>4. \A c \in Nat \ {0} : Fitting(Posted("dead", m.t, m.kind, m.ref, c))
    BY <2>2 DEF Fitting, Posted
  <2>5. msgs \ {m} \in SUBSET Messages /\ IsFiniteSet(msgs \ {m}) /\ \A x \in msgs \ {m} : Fitting(x)
    BY FS_RemoveElement
  <2> QED BY <2>1, <2>3, <2>4, <2>5, PostTyped DEF Consumers
<1>8. CASE Approve
  <2>1. at["operator"].t \in Threads
    BY <1>8, ActorIs DEF Approve, At, Actors
  <2> QED BY <1>8, <2>1, PostFits DEF Approve, Queues
<1>9. CASE UNCHANGED msgs
  BY <1>9
<1> QED BY <1>1, <1>2, <1>3, <1>4, <1>5, <1>6, <1>7, <1>8, <1>9, MessagesChange

\* An actor that becomes what it may be leaves the others as they are.
LEMMA Becoming ==
    ASSUME Typed, NEW a \in Actors, NEW c, Sound(a, c), at' = [at EXCEPT ![a] = c]
    PROVE  ActorsTyped'
<1>1. c \in Controls
  BY DEF Sound
<1>2. at \in [Actors -> Controls] /\ \A b \in Actors : Sound(b, at[b])
  BY DEF Typed, ActorsTyped
<1>3. at' \in [Actors -> Controls]
  BY <1>1, <1>2
<1>4. \A b \in Actors : Sound(b, at'[b])
  BY <1>2
<1> QED BY <1>3, <1>4 DEF ActorsTyped

LEMMA GotoSound ==
    ASSUME Typed, NEW a \in Actors, NEW pc \in Places(a), pc # "idle",
           a \in Consumers => at[a].pc # "idle",
           pc \in {"check", "write"} => at[a].t \in Threads /\ at[a].to \in Targets(a),
           pc = "approve" => at[a].t \in Threads
    PROVE  Sound(a, [at[a] EXCEPT !.pc = pc])
<1> DEFINE c == [at[a] EXCEPT !.pc = pc]
<1>1. Sound(a, at[a]) /\ at[a] \in Controls
  BY ActorIs
<1>2. Places(a) \subseteq {"idle", "start", "read", "deliver", "record", "log", "react", "agree",
                           "next", "check", "write", "approve", "delete"}
  BY DEF Places, Actors, Consumers, Senders
<1>3. c \in Controls /\ c.pc = pc /\ c.msg = at[a].msg /\ c.t = at[a].t /\ c.to = at[a].to
      /\ c.todo = at[a].todo
  BY <1>1, <1>2 DEF Controls
<1> HIDE DEF c
<1>4. Sound(a, c)
  BY <1>1, <1>3 DEF Sound
<1> QED BY <1>4 DEF c

LEMMA SeenSound ==
    ASSUME Typed, NEW a \in Actors, NEW pc \in Places(a), pc \notin {"idle", "check", "write", "approve"},
           a \in Consumers => at[a].pc # "idle", NEW row \in Rows \cup {NoRow}
    PROVE  Sound(a, [at[a] EXCEPT !.pc = pc, !.seen = row])
<1> DEFINE c == [at[a] EXCEPT !.pc = pc, !.seen = row]
<1>1. Sound(a, at[a]) /\ at[a] \in Controls
  BY ActorIs
<1>2. Places(a) \subseteq {"idle", "start", "read", "deliver", "record", "log", "react", "agree",
                           "next", "check", "write", "approve", "delete"}
  BY DEF Places, Actors, Consumers, Senders
<1>3. c \in Controls /\ c.pc = pc /\ c.msg = at[a].msg /\ c.t = at[a].t /\ c.to = at[a].to
      /\ c.todo = at[a].todo
  BY <1>1, <1>2 DEF Controls
<1> HIDE DEF c
<1>4. Sound(a, c)
  BY <1>1, <1>3 DEF Sound
<1> QED BY <1>4 DEF c

LEMMA SettingSound ==
    ASSUME Typed, NEW a \in Actors, NEW t \in Threads, NEW to \in Targets(a),
           NEW next \in {"null", "later", "due"},
           a \in Consumers => at[a].pc # "idle" /\ t = at[a].t
    PROVE  Sound(a, Setting(a, t, to, next))
<1> DEFINE c == Setting(a, t, to, next)
<1>1. Sound(a, at[a]) /\ at[a] \in Controls
  BY ActorIs
<1>2. to \in Statuses
  BY DEF Targets, Statuses, OpenStatuses, Actors, Consumers, Senders
<1>3. c \in Controls /\ c.pc = "check" /\ c.msg = at[a].msg /\ c.t = t /\ c.to = to
      /\ c.todo = at[a].todo
  BY <1>1, <1>2 DEF Controls, Setting
<1>4. "check" \in Places(a)
  BY DEF Places, Actors, Consumers, Senders
<1> HIDE DEF c
<1>5. Sound(a, c)
  BY <1>1, <1>3, <1>4 DEF Sound
<1> QED BY <1>5 DEF c

LEMMA NextSound ==
    ASSUME NEW todo \in SUBSET (Threads \X Rows), \A e \in todo : e[2].status \in OpenStatuses
    PROVE  Sound("scan", [Idle EXCEPT !.pc = "next", !.todo = todo])
<1> DEFINE c == [Idle EXCEPT !.pc = "next", !.todo = todo]
<1>1. c \in Controls /\ c.pc = "next" /\ c.todo = todo
  BY DEF Idle, Controls
<1> HIDE DEF c
<1>2. Sound("scan", c)
  BY <1>1 DEF Sound, Places, Consumers, Senders
<1> QED BY <1>2 DEF c

LEMMA AfterStatusSound ==
    ASSUME Typed, NEW a \in Actors, at[a].pc \in {"check", "write"}
    PROVE  Sound(a, AfterStatus(a))
<1>1. CASE a = "scan"
  <2>1. /\ at["scan"].todo \in SUBSET (Threads \X Rows)
        /\ \A e \in at["scan"].todo : e[2].status \in OpenStatuses
    BY ActorIs DEF Actors
  <2> QED BY <1>1, <2>1, NextSound, IdleSound DEF AfterStatus
<1>2. CASE a = "operator"
  <2>1. at[a].t \in Threads /\ "approve" \in Places(a) /\ a \notin Consumers
    BY <1>2, ActorIs DEF Places, Consumers, Senders
  <2>2. Sound(a, [at[a] EXCEPT !.pc = "approve"])
    BY <2>1, GotoSound
  <2> QED BY <1>2, <2>2, IdleSound DEF AfterStatus
<1>3. CASE a \in Consumers
  <2>1. "delete" \in Places(a) /\ a # "scan" /\ a # "operator"
    BY <1>3 DEF Places, Consumers, Senders
  <2>2. Sound(a, [at[a] EXCEPT !.pc = "delete"])
    BY <2>1, GotoSound
  <2> QED BY <2>1, <2>2 DEF AfterStatus
<1> QED BY <1>1, <1>2, <1>3 DEF Actors

LEMMA ReceiveActors ==
    ASSUME Typed, NEW q \in Consumers, Receive(q)
    PROVE  ActorsTyped'
<1> DEFINE R(m) == IF q = "dead" THEN m ELSE [m EXCEPT !.receives = @ + 1]
           C(m) == [Idle EXCEPT !.pc = "start", !.msg = R(m), !.t = R(m).t]
<1>1. PICK m \in msgs : m.q = q /\ Deliverable(m) /\ at' = [at EXCEPT ![q] = C(m)]
  BY DEF Receive, Become
<1>2. R(m) \in Messages /\ Fitting(R(m)) /\ R(m).q = q
  BY <1>1, ReceivedFits
<1>3. R(m).t \in Threads
  BY <1>2 DEF Messages
<1> HIDE DEF R
<1>4. C(m).pc = "start" /\ C(m).msg = R(m) /\ C(m).t = R(m).t /\ C(m).todo = {}
  BY DEF Idle
<1>5. C(m) \in Controls
  BY <1>2, <1>3 DEF Controls, Idle
<1>6. "start" \in Places(q)
  BY DEF Places, Consumers, Senders
<1>7. Sound(q, C(m))
  BY <1>2, <1>4, <1>5, <1>6 DEF Sound
<1> HIDE DEF C
<1> QED BY <1>1, <1>7, Becoming DEF Actors

LEMMA StatusActors ==
    ASSUME Typed, NEW a \in Actors, Check(a) \/ Write(a)
    PROVE  ActorsTyped'
<1>1. at[a].pc \in {"check", "write"} /\ at[a].t \in Threads /\ at[a].to \in Targets(a)
  BY ActorIs DEF Check, Write, At
<1>2. "write" \in Places(a)
  BY DEF Places, Actors, Consumers, Senders
<1>3. Sound(a, [at[a] EXCEPT !.pc = "write"])
  BY <1>1, <1>2, GotoSound
<1>4. Sound(a, AfterStatus(a)) /\ Sound(a, Idle)
  BY <1>1, AfterStatusSound, IdleSound
<1>5. \/ at' = [at EXCEPT ![a] = [at[a] EXCEPT !.pc = "write"]]
      \/ at' = [at EXCEPT ![a] = AfterStatus(a)]
      \/ at' = [at EXCEPT ![a] = Idle]
  BY DEF Check, Write, Goto, Become
<1> QED BY <1>3, <1>4, <1>5, Becoming

LEMMA SenderActors ==
    ASSUME Typed, \/ ContactGate \/ RecordNew \/ JobStart \/ JobRead
                  \/ \E q \in Senders : Deliver(q) \/ RecordSend(q)
    PROVE  ActorsTyped'
<1> USE DEF Actors, Consumers, Senders
<1>0. \A t \in Threads : thread[t] \in Rows \cup {NoRow}
  BY DEF Typed, RowsTyped
<1>1. CASE ContactGate
  <2>1. at["contacts"].pc # "idle" /\ at["contacts"].t \in Threads
    BY <1>1, ActorIs DEF ContactGate, At
  <2>2. Sound("contacts", [at["contacts"] EXCEPT !.pc = "delete"])
    BY <2>1, GotoSound DEF Places
  <2>3. Sound("contacts", [at["contacts"] EXCEPT !.pc = "deliver", !.seen = thread[at["contacts"].t]])
    BY <1>0, <2>1, SeenSound DEF Places
  <2>4. Sound("contacts", Setting("contacts", at["contacts"].t, "needs_human", "null"))
    BY <2>1, SettingSound DEF Targets
  <2>5. \/ at' = [at EXCEPT !["contacts"] = [at["contacts"] EXCEPT !.pc = "delete"]]
        \/ at' = [at EXCEPT !["contacts"] = Idle]
        \/ at' = [at EXCEPT !["contacts"] =
                    [at["contacts"] EXCEPT !.pc = "deliver", !.seen = thread[at["contacts"].t]]]
        \/ at' = [at EXCEPT !["contacts"] = Setting("contacts", at["contacts"].t, "needs_human", "null")]
    BY <1>1 DEF ContactGate, Goto, Become, Escalate
  <2> QED BY <2>2, <2>3, <2>4, <2>5, IdleSound, Becoming
<1>2. CASE RecordNew
  <2>1. at["contacts"].pc # "idle"
    BY <1>2 DEF RecordNew, At
  <2>2. Sound("contacts", [at["contacts"] EXCEPT !.pc = "delete"])
    BY <2>1, GotoSound DEF Places
  <2> QED BY <1>2, <2>2, Becoming DEF RecordNew, Goto, Become
<1>3. CASE JobStart
  <2>1. at["followups"].pc # "idle"
    BY <1>3 DEF JobStart, At
  <2>2. /\ Sound("followups", [at["followups"] EXCEPT !.pc = "delete"])
        /\ Sound("followups", [at["followups"] EXCEPT !.pc = "read"])
    BY <2>1, GotoSound DEF Places
  <2> QED BY <1>3, <2>2, Becoming DEF JobStart, Goto, Become
<1>4. CASE JobRead
  <2>1. at["followups"].pc # "idle" /\ at["followups"].t \in Threads
    BY <1>4, ActorIs DEF JobRead, At
  <2>2. Sound("followups", [at["followups"] EXCEPT !.pc = "delete"])
    BY <2>1, GotoSound DEF Places
  <2>3. Sound("followups", [at["followups"] EXCEPT !.pc = "deliver", !.seen = thread[at["followups"].t]])
    BY <1>0, <2>1, SeenSound DEF Places
  <2>4. \/ at' = [at EXCEPT !["followups"] = [at["followups"] EXCEPT !.pc = "delete"]]
        \/ at' = [at EXCEPT !["followups"] =
                    [at["followups"] EXCEPT !.pc = "deliver", !.seen = thread[at["followups"].t]]]
    BY <1>4 DEF JobRead, Goto, Become
  <2> QED BY <2>2, <2>3, <2>4, Becoming
<1>5. ASSUME NEW q \in Senders, Deliver(q) PROVE ActorsTyped'
  <2>1. at[q].pc # "idle" /\ at[q].t \in Threads /\ at[q] \in Controls
    BY <1>5, ActorIs DEF Deliver, At
  <2>2. at[q].seen.next \in {"null", "later", "due"}
    BY <2>1 DEF Controls, Rows, NoRow
  <2>3. CASE q = "followups"
    <3>1. DateAfter(at[q]) \in {"null", "later", "due"}
      BY <2>2 DEF DateAfter
    <3>2. Sound(q, Setting(q, at[q].t, "awaiting_reply", DateAfter(at[q])))
      BY <2>1, <2>3, <3>1, SettingSound DEF Targets
    <3> QED BY <1>5, <2>3, <3>2, Becoming DEF Deliver, Become
  <2>4. CASE q = "contacts"
    <3>1. Sound(q, Setting(q, at[q].t, "request_sent", "later"))
      BY <2>1, <2>4, SettingSound DEF Targets
    <3>2. Sound(q, [at[q] EXCEPT !.pc = "record"])
      BY <2>1, <2>4, GotoSound DEF Places
    <3> QED BY <1>5, <2>4, <3>1, <3>2, Becoming DEF Deliver, Become
  <2> QED BY <2>3, <2>4
<1>6. ASSUME NEW q \in Senders, RecordSend(q) PROVE ActorsTyped'
  <2>1. at[q].pc # "idle"
    BY <1>6 DEF RecordSend, At
  <2>2. Sound(q, [at[q] EXCEPT !.pc = "delete"])
    BY <2>1, GotoSound DEF Places
  <2> QED BY <1>6, <2>2, Becoming DEF RecordSend, Goto, Become
<1> QED BY <1>1, <1>2, <1>3, <1>4, <1>5, <1>6

LEMMA InboundActors ==
    ASSUME Typed, Match \/ LogMail \/ React \/ Agree
    PROVE  ActorsTyped'
<1> USE DEF Actors, Consumers, Senders
<1> DEFINE s == at["inbound"]
<1>0. s.pc # "idle" /\ s.t \in Threads /\ s.todo = s.todo
  BY ActorIs DEF Match, LogMail, React, Agree, At
<1>1. CASE Match
  <2>1. \A t \in Threads : thread[t] \in Rows \cup {NoRow}
    BY DEF Typed, RowsTyped
  <2>2. Sound("inbound", [s EXCEPT !.pc = "delete"])
    BY <1>0, GotoSound DEF Places
  <2>3. \A row \in Rows \cup {NoRow} : Sound("inbound", [s EXCEPT !.pc = "log", !.seen = row])
    BY <1>0, SeenSound DEF Places
  <2>4. \/ at' = [at EXCEPT !["inbound"] = [s EXCEPT !.pc = "delete"]]
        \/ \E row \in Rows \cup {NoRow} :
              at' = [at EXCEPT !["inbound"] = [s EXCEPT !.pc = "log", !.seen = row]]
    BY <1>0, <1>1, <2>1 DEF Match, Become
  <2> QED BY <2>2, <2>3, <2>4, Becoming
<1>2. CASE LogMail
  <2>1. Sound("inbound", [s EXCEPT !.pc = "delete"]) /\ Sound("inbound", [s EXCEPT !.pc = "react"])
    BY <1>0, GotoSound DEF Places
  <2> QED BY <1>2, <2>1, Becoming DEF LogMail, Goto, Become
<1>3. ASSUME React \/ Agree PROVE ActorsTyped'
  <2>1. \A to \in {"fulfilled", "referred", "awaiting_reply", "needs_human"}, n \in {"null", "later"} :
            Sound("inbound", Setting("inbound", s.t, to, n))
    BY <1>0, SettingSound DEF Targets
  <2>2. Sound("inbound", [s EXCEPT !.pc = "agree"])
    BY <1>0, GotoSound DEF Places
  <2>3. \/ at' = [at EXCEPT !["inbound"] = [s EXCEPT !.pc = "agree"]]
        \/ \E to \in {"fulfilled", "referred", "awaiting_reply", "needs_human"}, n \in {"null", "later"} :
              at' = [at EXCEPT !["inbound"] = Setting("inbound", s.t, to, n)]
    BY <1>3 DEF React, ReactFulfil, ReactAck, ReactGiveUp, ReactRefer, ReactClarify, ReactPay, Agree,
                Escalate, Become, Goto
  <2> QED BY <2>1, <2>2, <2>3, Becoming
<1> QED BY <1>1, <1>2, <1>3

LEMMA ScanActors ==
    ASSUME Typed, ScanSelect \/ ScanThread
    PROVE  ActorsTyped'
<1> USE DEF Actors
<1>1. CASE ScanSelect
  <2> DEFINE due == {t \in Threads : IsOpen(t) /\ thread[t].next = "due"}
             todo == {<<t, thread[t]>> : t \in due}
  <2>1. at' = [at EXCEPT !["scan"] = [Idle EXCEPT !.pc = "next", !.todo = todo]]
    BY <1>1 DEF ScanSelect, Become
  <2>2. \A t \in due : thread[t] \in Rows /\ thread[t].status \in OpenStatuses
    BY DEF Typed, RowsTyped, IsOpen, NoRow, OpenStatuses
  <2>3. todo \in SUBSET (Threads \X Rows) /\ \A e \in todo : e[2].status \in OpenStatuses
    BY <2>2
  <2> HIDE DEF todo
  <2> QED BY <2>1, <2>3, NextSound, Becoming
<1>2. CASE ScanThread
  <2> DEFINE s == at["scan"]
             C(e, to, next) == [s EXCEPT !.todo = @ \ {e}, !.pc = "check", !.t = e[1],
                                         !.to = to, !.next = next]
  <2>1. PICK e \in s.todo : \/ at' = [at EXCEPT !["scan"] = C(e, "needs_human", "null")]
                            \/ at' = [at EXCEPT !["scan"] = C(e, e[2].status, "later")]
    <3>1. PICK e \in s.todo :
             \E to, next : /\ \/ to = "needs_human" /\ next = "null"
                              \/ to = e[2].status /\ next = "later"
                           /\ at' = [[at EXCEPT !["scan"].todo = @ \ {e}]
                                        EXCEPT !["scan"].pc = "check", !["scan"].t = e[1],
                                               !["scan"].to = to, !["scan"].next = next]
      BY <1>2 DEF ScanThread
    <3>2. PICK to, next :
             /\ \/ to = "needs_human" /\ next = "null"
                \/ to = e[2].status /\ next = "later"
             /\ at' = [[at EXCEPT !["scan"].todo = @ \ {e}]
                          EXCEPT !["scan"].pc = "check", !["scan"].t = e[1],
                                 !["scan"].to = to, !["scan"].next = next]
      BY <3>1
    <3> DEFINE a0 == [at EXCEPT !["scan"].todo = @ \ {e}]
               a1 == [a0 EXCEPT !["scan"].pc = "check"]
               a2 == [a1 EXCEPT !["scan"].t = e[1]]
               a3 == [a2 EXCEPT !["scan"].to = to]
               a4 == [a3 EXCEPT !["scan"].next = next]
               s0 == [s EXCEPT !.todo = @ \ {e}]
    <3>3. at \in [Actors -> Controls]
      BY DEF Typed, ActorsTyped
    <3>4. at' = a4
      BY <3>2
    <3>5. DOMAIN a0 = Actors /\ a0["scan"] = s0 /\ \A b \in Actors \ {"scan"} : a0[b] = at[b]
      BY <3>3
    <3>6. DOMAIN a1 = Actors /\ a1["scan"] = [s0 EXCEPT !.pc = "check"]
          /\ \A b \in Actors \ {"scan"} : a1[b] = at[b]
      BY <3>5
    <3>7. DOMAIN a2 = Actors /\ a2["scan"] = [s0 EXCEPT !.pc = "check", !.t = e[1]]
          /\ \A b \in Actors \ {"scan"} : a2[b] = at[b]
      BY <3>6
    <3>8. DOMAIN a3 = Actors /\ a3["scan"] = [s0 EXCEPT !.pc = "check", !.t = e[1], !.to = to]
          /\ \A b \in Actors \ {"scan"} : a3[b] = at[b]
      BY <3>7
    <3>9. DOMAIN a4 = Actors /\ a4["scan"] = C(e, to, next)
          /\ \A b \in Actors \ {"scan"} : a4[b] = at[b]
      BY <3>8
    <3>10. a4 = [at EXCEPT !["scan"] = C(e, to, next)]
      BY <3>3, <3>9
    <3> QED BY <3>2, <3>4, <3>10
  <2>2. e \in Threads \X Rows /\ e[2].status \in OpenStatuses /\ s \in Controls
    BY ActorIs
  <2>3. \A to \in OpenStatuses \cup {"needs_human"}, next \in {"null", "later"} :
            Sound("scan", C(e, to, next))
    <3> SUFFICES ASSUME NEW to \in OpenStatuses \cup {"needs_human"}, NEW next \in {"null", "later"}
                 PROVE  Sound("scan", C(e, to, next))
      OBVIOUS
    <3> DEFINE c == C(e, to, next)
    <3>1. c \in Controls /\ c.pc = "check" /\ c.t = e[1] /\ c.to = to /\ c.todo = s.todo \ {e}
      BY <2>2 DEF Controls, Statuses
    <3>2. \A d \in s.todo : d[2].status \in OpenStatuses
      BY ActorIs
    <3> HIDE DEF c
    <3>3. Sound("scan", c)
      BY <2>2, <3>1, <3>2 DEF Sound, Places, Targets, Consumers, Senders
    <3> QED BY <3>3 DEF c
  <2> HIDE DEF C
  <2>4. Sound("scan", C(e, "needs_human", "null")) /\ Sound("scan", C(e, e[2].status, "later"))
    BY <2>2, <2>3
  <2> QED BY <2>1, <2>4, Becoming
<1> QED BY <1>1, <1>2

LEMMA ActorsStep ==
    ASSUME Typed, [Next]_vars
    PROVE  ActorsTyped'
<1> USE DEF Actors, Consumers, Senders
<1>1. ASSUME NEW q \in Consumers, Receive(q) PROVE ActorsTyped'
  BY <1>1, ReceiveActors
<1>2. ASSUME NEW q \in Consumers, Delete(q) PROVE ActorsTyped'
  BY <1>2, IdleSound, Becoming DEF Delete, Become
<1>3. ASSUME NEW a \in Actors, Check(a) \/ Write(a) PROVE ActorsTyped'
  BY <1>3, StatusActors
<1>4. ASSUME NEW a \in Actors, Fails(a) PROVE ActorsTyped'
  BY <1>4, IdleSound, Becoming DEF Fails, Become
<1>5. CASE \/ ContactGate \/ RecordNew \/ JobStart \/ JobRead
           \/ \E q \in Senders : Deliver(q) \/ RecordSend(q)
  BY <1>5, SenderActors
<1>6. CASE Match \/ LogMail \/ React \/ Agree
  BY <1>6, InboundActors
<1>7. CASE ScanSelect \/ ScanThread
  BY <1>7, ScanActors
<1>8. CASE Drain
  <2>1. at["dead"].pc # "idle" /\ at["dead"].t \in Threads
    BY <1>8, ActorIs DEF Drain, At
  <2>2. Sound("dead", [at["dead"] EXCEPT !.pc = "delete"])
    BY <2>1, GotoSound DEF Places
  <2>3. Sound("dead", Setting("dead", at["dead"].t, "needs_human", "null"))
    BY <2>1, SettingSound DEF Targets
  <2> QED BY <1>8, <2>2, <2>3, Becoming DEF Drain, Escalate, Become, Goto
<1>9. CASE Crash
  <2>1. at' = [a \in Actors |-> IF a = "operator" THEN at[a] ELSE Idle]
    BY <1>9 DEF Crash
  <2>2. \A a \in Actors : Sound(a, at[a])
    BY ActorIs
  <2>3. \A a \in Actors : Sound(a, at'[a])
    BY <2>1, <2>2, IdleSound
  <2>4. at' \in [Actors -> Controls]
    BY <2>1, <2>3 DEF Sound
  <2> QED BY <2>3, <2>4 DEF ActorsTyped
<1>10. CASE Resolve
  <2>1. PICK t \in Threads : \/ at' = at
                             \/ \E to \in Statuses :
                                   at' = [at EXCEPT !["operator"] = Setting("operator", t, to, "null")]
    BY <1>10 DEF Resolve, Become
  <2>2. \A to \in Statuses : Sound("operator", Setting("operator", t, to, "null"))
    BY SettingSound DEF Targets
  <2>3. at' = at => ActorsTyped'
    BY DEF Typed, ActorsTyped
  <2> QED BY <2>1, <2>2, <2>3, Becoming
<1>11. CASE Approve
  BY <1>11, IdleSound, Becoming DEF Approve, Become
<1>12. CASE UNCHANGED at
  BY <1>12 DEF Typed, ActorsTyped
<1> QED BY <1>1, <1>2, <1>3, <1>4, <1>5, <1>6, <1>7, <1>8, <1>9, <1>10, <1>11, <1>12
        DEF Next, vars, Arrive, Poll, DeadLetter, SetActive, FallsQuiet, FallsEarly, Falls

LEMMA TypedStep ==
    ASSUME Typed, [Next]_vars
    PROVE  Typed'
<1>1. RowsTyped'
  BY ThreadTyped, OpenTyped, CountsTyped DEF RowsTyped
<1> QED BY <1>1, MailStep, QueueStep, ActorsStep DEF Typed

\* The variables keep their types, whatever is lost, duplicated, crashed or decided.
THEOREM TypeCorrect == Spec => []TypeOK
<1>1. Typed => TypeOK
  BY DEF Typed, RowsTyped, MailTyped, QueueTyped, ActorsTyped, TypeOK
<1>2. Spec => []Typed
  BY InitTyped, TypedStep, PTL DEF Spec
<1> QED BY <1>1, <1>2, PTL

-----------------------------------------------------------------------------
(* What a step does to the messages, the counters and the two senders.     *)

LEMMA PostAdds ==
    ASSUME NEW S, IsFiniteSet(S), NEW q, NEW t, NEW kind, NEW ref, NEW m \in Post(S, q, t, kind, ref)
    PROVE  m \in S \/ (m.kind = kind /\ m.ref = ref)
BY PostIs DEF Posted

LEMMA MessagesStep ==
    ASSUME Typed, [Next]_vars, NEW m \in msgs'
    PROVE  \/ \E n \in msgs : m.kind = n.kind /\ m.ref = n.ref
           \/ m.kind \notin {"followup", "fee_agreement"}
           \/ m.kind = "followup" /\ m.ref < MaxFollowups
           \/ Agree /\ m.kind = "fee_agreement" /\ m.ref = at["inbound"].msg.ref
<1> DEFINE Done == \/ \E n \in msgs : m.kind = n.kind /\ m.ref = n.ref
                   \/ m.kind \notin {"followup", "fee_agreement"}
                   \/ m.kind = "followup" /\ m.ref < MaxFollowups
                   \/ Agree /\ m.kind = "fee_agreement" /\ m.ref = at["inbound"].msg.ref
<1>0. IsFiniteSet(msgs) /\ msgs \subseteq Messages
  BY DEF Typed, QueueTyped
<1>1. ASSUME NEW q \in Consumers, Receive(q) PROVE Done
  <2>1. PICK n \in msgs : /\ n.q = q /\ Deliverable(n)
                          /\ \E r : /\ r = IF q = "dead" THEN n ELSE [n EXCEPT !.receives = @ + 1]
                                    /\ msgs' = (msgs \ {n}) \cup {r}
    BY <1>1 DEF Receive
  <2> QED BY <2>1, ReceivedFits
<1>2. ASSUME NEW q \in Consumers, Delete(q) PROVE Done
  BY <1>2 DEF Delete
<1>3. CASE Poll
  <2>1. \A a \in arrived : a.kind \in {"reply", "stray"}
    BY DEF Typed, MailTyped, ArrivedMails
  <2>2. m \in msgs \/ \E a \in arrived : m.kind = a.kind
    BY <1>3 DEF Poll
  <2> QED BY <2>1, <2>2
<1>4. CASE React
  <2>1. CASE UNCHANGED msgs
    BY <2>1
  <2>2. CASE ReactRefer
    BY <1>0, <2>2, PostAdds DEF ReactRefer
  <2>3. CASE ReactClarify
    BY <1>0, <2>3, PostAdds DEF ReactClarify
  <2> QED BY <1>4, <2>1, <2>2, <2>3 DEF React, ReactFulfil, ReactAck, ReactGiveUp, ReactPay
<1>5. CASE Agree
  BY <1>0, <1>5, PostAdds DEF Agree
<1>6. CASE ScanThread
  <2>1. PICK e \in at["scan"].todo :
            \/ msgs' = msgs
            \/ ~Exhausted(e[2]) /\ msgs' = Post(msgs, "followups", e[1], "followup", e[2].followups)
    BY <1>6 DEF ScanThread
  <2>2. e[2].followups \in Nat
    BY ActorIs DEF Rows, Actors
  <2>3. ~Exhausted(e[2]) => e[2].followups < MaxFollowups
    BY <2>2, ParamAssumption DEF Exhausted
  <2> QED BY <1>0, <2>1, <2>3, PostAdds
<1>7. CASE DeadLetter
  <2>1. PICK n \in msgs : msgs' = Post(msgs \ {n}, "dead", n.t, n.kind, n.ref)
    BY <1>7 DEF DeadLetter
  <2>2. IsFiniteSet(msgs \ {n})
    BY <1>0, FS_RemoveElement
  <2> QED BY <2>1, <2>2, PostAdds
<1>8. CASE Approve
  BY <1>0, <1>8, PostAdds DEF Approve
<1>9. CASE UNCHANGED msgs
  BY <1>9
<1> QED BY <1>1, <1>2, <1>3, <1>4, <1>5, <1>6, <1>7, <1>8, <1>9, MessagesChange

\* The actions of one actor.
LEMMA ActorMoves ==
    ASSUME Typed, [Next]_vars
    PROVE  /\ \/ at'["followups"] = at["followups"] \/ at'["followups"] = Idle
              \/ Receive("followups") \/ JobStart \/ JobRead \/ Deliver("followups")
              \/ Check("followups") \/ Write("followups") \/ RecordSend("followups")
           /\ \/ at'["contacts"] = at["contacts"] \/ at'["contacts"] = Idle
              \/ Receive("contacts") \/ ContactGate \/ RecordNew \/ Deliver("contacts")
              \/ Check("contacts") \/ Write("contacts") \/ RecordSend("contacts")
           /\ \/ at'["inbound"] = at["inbound"] \/ at'["inbound"] = Idle
              \/ Receive("inbound") \/ Match \/ LogMail \/ React \/ Agree
              \/ Check("inbound") \/ Write("inbound")
<1> USE DEF Actors, Consumers, Senders
<1> DEFINE Stays(a) == at'[a] = at[a] \/ at'[a] = Idle
           Others(a) == \A b \in Actors \ {a} : at'[b] = at[b]
<1>0. \A a, c : at' = [at EXCEPT ![a] = c] => Others(a)
  BY DEF Typed, ActorsTyped
<1>1. ASSUME NEW a \in Actors, Check(a) \/ Write(a) PROVE Others(a)
  BY <1>0, <1>1 DEF Check, Write, Goto, Become
<1>2. ASSUME NEW q \in Consumers, Receive(q) PROVE Others(q)
  BY <1>0, <1>2 DEF Receive, Become
<1>3. ASSUME NEW q \in Consumers, Delete(q) PROVE Others(q) /\ Stays(q)
  BY <1>0, <1>3 DEF Delete, Become, Typed, ActorsTyped
<1>4. ASSUME NEW a \in Actors, Fails(a) PROVE Others(a) /\ Stays(a)
  BY <1>0, <1>4 DEF Fails, Become, Typed, ActorsTyped
<1>5. ASSUME NEW q \in Senders, Deliver(q) \/ RecordSend(q) PROVE Others(q)
  BY <1>0, <1>5 DEF Deliver, RecordSend, Goto, Become
<1>6. ContactGate \/ RecordNew => Others("contacts")
  BY <1>0 DEF ContactGate, RecordNew, Goto, Become, Escalate
<1>7. JobStart \/ JobRead => Others("followups")
  BY <1>0 DEF JobStart, JobRead, Goto, Become
<1>8. Match \/ LogMail \/ React \/ Agree => Others("inbound")
  BY <1>0 DEF Match, LogMail, React, Agree, ReactFulfil, ReactAck, ReactGiveUp, ReactRefer,
              ReactClarify, ReactPay, Goto, Become, Escalate
<1>9. ScanSelect => Others("scan")
  BY <1>0 DEF ScanSelect, Become
<1>10. ScanThread => Others("scan")
  <2> SUFFICES ASSUME ScanThread PROVE Others("scan")
    OBVIOUS
  <2>1. PICK e, to, next : at' = [[at EXCEPT !["scan"].todo = @ \ {e}]
                                    EXCEPT !["scan"].pc = "check", !["scan"].t = e[1],
                                           !["scan"].to = to, !["scan"].next = next]
    BY DEF ScanThread
  <2> QED BY <2>1 DEF Typed, ActorsTyped
<1>11. Drain => Others("dead")
  BY <1>0 DEF Drain, Goto, Become, Escalate
<1>12. Crash => \A a \in Actors \ {"operator"} : Stays(a)
  BY DEF Crash
<1>13. Resolve \/ Approve => Others("operator") \/ at' = at
  BY <1>0 DEF Resolve, Approve, Become
<1>14. Poll \/ DeadLetter \/ SetActive => at' = at
  BY DEF Poll, DeadLetter, SetActive
<1>15. \A m \in Mails : Arrive(m) => at' = at
  BY DEF Arrive
<1>16. \A t \in Threads : FallsQuiet(t) \/ FallsEarly(t) => at' = at
  BY DEF FallsQuiet, FallsEarly, Falls
<1>17. UNCHANGED vars => at' = at
  BY DEF vars
<1> HIDE DEF Stays, Others
<1>18. \A a \in Actors : at' = at => Stays(a)
  BY DEF Stays
<1>19. \A a \in Actors, b \in Actors : Others(a) /\ a # b => Stays(b)
  BY DEF Stays, Others
<1>20. \/ Stays("followups") \/ Receive("followups") \/ JobStart \/ JobRead \/ Deliver("followups")
       \/ Check("followups") \/ Write("followups") \/ RecordSend("followups")
  BY <1>1, <1>2, <1>3, <1>4, <1>5, <1>6, <1>8, <1>9, <1>10, <1>11, <1>12, <1>13, <1>14, <1>15,
     <1>16, <1>17, <1>18, <1>19 DEF Next
<1>21. \/ Stays("contacts") \/ Receive("contacts") \/ ContactGate \/ RecordNew \/ Deliver("contacts")
       \/ Check("contacts") \/ Write("contacts") \/ RecordSend("contacts")
  BY <1>1, <1>2, <1>3, <1>4, <1>5, <1>7, <1>8, <1>9, <1>10, <1>11, <1>12, <1>13, <1>14, <1>15,
     <1>16, <1>17, <1>18, <1>19 DEF Next
<1>22. \/ Stays("inbound") \/ Receive("inbound") \/ Match \/ LogMail \/ React \/ Agree
       \/ Check("inbound") \/ Write("inbound")
  BY <1>1, <1>2, <1>3, <1>4, <1>5, <1>6, <1>7, <1>9, <1>10, <1>11, <1>12, <1>13, <1>14, <1>15,
     <1>16, <1>17, <1>18, <1>19 DEF Next
<1> QED BY <1>20, <1>21, <1>22 DEF Stays

\* The thread of the follow-up sender: a message is taken up, or its job goes on.
LEMMA FollowupsStep ==
    ASSUME Typed, [Next]_vars, at'["followups"].pc # "idle"
    PROVE  \/ /\ at'["followups"].pc = "start"
              /\ \E m \in msgs : at'["followups"].msg.kind = m.kind /\ at'["followups"].msg.ref = m.ref
           \/ /\ at["followups"].pc # "idle"
              /\ at'["followups"].msg = at["followups"].msg /\ at'["followups"].t = at["followups"].t
              /\ Sending' => \/ Sending
                             \/ ~Duplicate(at["followups"].msg, thread[at["followups"].t])
                                /\ UNCHANGED <<thread, replies>>
<1> USE DEF Actors, Consumers, Senders
<1> DEFINE s == at["followups"]
           Same == s.pc # "idle" /\ at'["followups"].msg = s.msg /\ at'["followups"].t = s.t
<1>0. s \in Controls /\ at \in [Actors -> Controls]
  BY DEF Typed, ActorsTyped
<1>1. CASE at'["followups"] = s
  BY <1>1 DEF Sending
<1>2. CASE at'["followups"] = Idle
  BY <1>2 DEF Idle
<1>3. CASE Receive("followups")
  <2> DEFINE R(m) == [m EXCEPT !.receives = @ + 1]
  <2>1. PICK m \in msgs : /\ m.q = "followups" /\ Deliverable(m)
                          /\ at' = [at EXCEPT !["followups"] =
                                       [Idle EXCEPT !.pc = "start", !.msg = R(m), !.t = R(m).t]]
    BY <1>3 DEF Receive, Become
  <2>2. R(m).kind = m.kind /\ R(m).ref = m.ref
    BY <2>1, ReceivedFits
  <2> HIDE DEF R
  <2>3. at'["followups"].pc = "start" /\ at'["followups"].msg = R(m)
    BY <1>0, <2>1 DEF Idle
  <2> QED BY <2>1, <2>2, <2>3
<1>4. CASE JobStart
  BY <1>0, <1>4 DEF JobStart, At, Goto, Become, Controls, Sending
<1>5. CASE JobRead
  <2>0. at'["followups"] \in {[s EXCEPT !.pc = "delete"],
                              [s EXCEPT !.pc = "deliver", !.seen = thread[s.t]]}
    BY <1>0, <1>5 DEF JobRead, Goto, Become
  <2>1. Same
    BY <1>0, <1>5, <2>0 DEF JobRead, At, Controls
  <2>2. Sending' => ~Duplicate(s.msg, thread[s.t])
    BY <1>0, <1>5 DEF JobRead, Goto, Become, Controls, Sending
  <2>3. UNCHANGED <<thread, replies>>
    BY <1>5 DEF JobRead, rows
  <2> QED BY <2>1, <2>2, <2>3
<1>6. CASE Deliver("followups")
  <2>1. Sending
    BY <1>6 DEF Deliver, At, Sending
  <2> QED BY <1>0, <1>6, <2>1 DEF Deliver, At, Setting, Become, Controls
<1>7. CASE Check("followups") \/ Write("followups")
  <2>1. Sending /\ s.pc # "idle"
    BY <1>7 DEF Check, Write, At, Sending
  <2>2. at'["followups"] \in {[s EXCEPT !.pc = "write"], [s EXCEPT !.pc = "delete"], Idle}
    BY <1>0, <1>7 DEF Check, Write, Goto, Become, AfterStatus
  <2> QED BY <1>0, <2>1, <2>2 DEF Idle, Controls
<1>8. CASE RecordSend("followups")
  BY <1>0, <1>8 DEF RecordSend, At, Goto, Become, Controls, Sending
<1> QED BY <1>1, <1>2, <1>3, <1>4, <1>5, <1>6, <1>7, <1>8, ActorMoves

\* A counter stays, starts again with a new row, or goes up with the follow-up that is recorded.
LEMMA CounterStep ==
    ASSUME Typed, [Next]_vars, NEW t \in Threads
    PROVE  \/ thread'[t].followups = thread[t].followups
           \/ thread'[t].followups = 0
           \/ /\ Sending /\ ~Sending' /\ at["followups"].pc # "idle"
              /\ at["followups"].msg.kind = "followup" /\ t = at["followups"].t
              /\ thread'[t].followups = thread[t].followups + 1
<1>0. thread \in [Threads -> Rows \cup {NoRow}] /\ at \in [Actors -> Controls]
  BY DEF Typed, RowsTyped, ActorsTyped
<1>1. CASE UNCHANGED thread
  BY <1>1
<1>2. ASSUME NEW a \in Actors, Write(a) PROVE thread'[t].followups = thread[t].followups
  <2> DEFINE k == thread[at[a].t].followups
             r == [status |-> at[a].to, next |-> at[a].next, followups |-> k]
  <2>1. at[a].t \in Threads /\ thread' = [thread EXCEPT ![at[a].t] = r]
    BY <1>2, WriteIs
  <2>2. r.followups = k
    OBVIOUS
  <2> HIDE DEF r
  <2> QED BY <1>0, <2>1, <2>2
<1>3. CASE RecordSend("contacts")
  <2>1. at["contacts"].msg.kind # "followup"
    BY <1>3, ActorIs DEF RecordSend, At, Fitting, JobKinds, Actors, Consumers, Senders
  <2> QED BY <1>0, <1>3, <2>1 DEF RecordSend
<1>4. CASE RecordSend("followups")
  <2>1. Sending /\ at["followups"].pc # "idle"
    BY <1>4 DEF RecordSend, At, Sending
  <2>2. ~Sending'
    BY <1>0, <1>4 DEF RecordSend, Goto, Become, Sending, Actors, Consumers, Senders, Controls
  <2> QED BY <1>0, <1>4, <2>1, <2>2 DEF RecordSend
<1>5. CASE RecordNew
  BY <1>0, <1>5 DEF RecordNew
<1>6. ASSUME NEW u \in Threads, Falls(u) PROVE thread'[t].followups = thread[t].followups
  BY <1>0, <1>6 DEF Falls, Rows, NoRow
<1> QED BY <1>1, <1>2, <1>3, <1>4, <1>5, <1>6, ThreadChange DEF Senders

-----------------------------------------------------------------------------
(* Follow-ups and replies.                                                 *)

LEMMA NudgedStep ==
    ASSUME Typed, Typed', Nudged, [Next]_vars
    PROVE  Nudged'
<1> DEFINE s == at["followups"]
           z == at'["followups"]
<1>0. \A t \in Threads : thread[t].followups \in Nat /\ thread'[t].followups \in Nat
  BY DEF Typed, RowsTyped, Rows, NoRow
<1>1. FollowupsBounded'
  <2> SUFFICES ASSUME NEW t \in Threads PROVE thread'[t].followups <= MaxFollowups
    BY DEF FollowupsBounded
  <2>1. thread[t].followups <= MaxFollowups
    BY DEF Nudged, FollowupsBounded
  <2>2. CASE /\ Sending /\ s.pc # "idle" /\ s.msg.kind = "followup" /\ t = s.t
             /\ thread'[t].followups = thread[t].followups + 1
    <3>1. s.msg.ref \in Nat
      BY <2>2, ActorIs DEF Fitting, Actors, Consumers, Senders
    <3>2. s.msg.ref < MaxFollowups /\ thread[t].followups <= s.msg.ref
      BY <2>2 DEF Nudged
    <3> QED BY <1>0, <2>2, <3>1, <3>2, ParamAssumption
  <2> QED BY <2>1, <2>2, CounterStep, ParamAssumption
<1>2. ASSUME NEW m \in msgs', m.kind = "followup" PROVE m.ref < MaxFollowups
  BY <1>2, MessagesStep DEF Nudged
<1>3. ASSUME z.pc # "idle", z.msg.kind = "followup"
      PROVE  z.msg.ref < MaxFollowups /\ (Sending' => thread'[z.t].followups <= z.msg.ref)
  <2>0. z.msg.ref \in Nat /\ z.t \in Threads
    BY <1>3, ActorIs, Typed' DEF Typed, ActorsTyped, Sound, Fitting, Actors, Consumers, Senders, Messages
  <2>1. CASE z.pc = "start" /\ \E m \in msgs : z.msg.kind = m.kind /\ z.msg.ref = m.ref
    BY <1>3, <2>1 DEF Nudged, Sending
  <2>2. CASE /\ s.pc # "idle" /\ z.msg = s.msg /\ z.t = s.t
             /\ Sending' => \/ Sending
                            \/ ~Duplicate(s.msg, thread[s.t]) /\ UNCHANGED <<thread, replies>>
    <3>1. z.msg.ref < MaxFollowups
      BY <1>3, <2>2 DEF Nudged
    <3>2. ASSUME Sending' PROVE thread[z.t].followups <= z.msg.ref
      <4>1. CASE Sending
        BY <1>3, <2>2, <4>1 DEF Nudged
      <4>2. CASE ~Duplicate(s.msg, thread[s.t])
        BY <1>0, <1>3, <2>0, <2>2, <4>2 DEF Duplicate
      <4> QED BY <2>2, <3>2, <4>1, <4>2
    <3>3. ASSUME Sending' PROVE thread'[z.t].followups = thread[z.t].followups \/ thread'[z.t].followups = 0
      BY <2>0, <3>3, CounterStep
    <3> QED BY <1>0, <2>0, <3>1, <3>2, <3>3
  <2> QED BY <1>3, <2>1, <2>2, FollowupsStep
<1> QED BY <1>1, <1>2, <1>3 DEF Nudged

LEMMA AnsweringStep ==
    ASSUME Typed, Typed', Answering, [Next]_vars
    PROVE  Answering'
<1> DEFINE s == at["followups"]
           z == at'["followups"]
<1>0. replies \in [Mails -> Nat]
  BY DEF Typed, RowsTyped
<1>1. \/ UNCHANGED replies
      \/ /\ Sending /\ ~Sending' /\ s.msg.kind # "followup"
         /\ replies' = [replies EXCEPT ![s.msg.ref] = @ + 1]
  <2>1. CASE RecordSend("followups")
    <3>1. Sending
      BY <2>1 DEF RecordSend, At, Sending
    <3>2. ~Sending'
      BY <2>1 DEF RecordSend, Goto, Become, Sending, Typed, ActorsTyped, Actors, Consumers, Senders,
                  Controls
    <3> QED BY <2>1, <3>1, <3>2 DEF RecordSend
  <2>2. CASE RecordSend("contacts")
    BY <2>2 DEF RecordSend
  <2>3. CASE RecordNew
    BY <2>3 DEF RecordNew
  <2> QED BY <2>1, <2>2, <2>3, CountsChange DEF Senders
<1>2. RepliesOnce'
  <2> SUFFICES ASSUME NEW m \in Mails PROVE replies'[m] <= 1
    BY DEF RepliesOnce
  <2>1. replies[m] <= 1
    BY DEF Answering, RepliesOnce
  <2>2. Sending /\ s.msg.kind # "followup" => replies[s.msg.ref] = 0
    BY DEF Answering
  <2> QED BY <1>0, <1>1, <2>1, <2>2
<1>3. ASSUME Sending', z.msg.kind # "followup" PROVE replies'[z.msg.ref] = 0
  <2>1. UNCHANGED replies
    BY <1>1, <1>3
  <2>2. z.pc # "idle" /\ z.pc # "start"
    BY <1>3 DEF Sending
  <2>3. /\ s.pc # "idle" /\ z.msg = s.msg /\ z.t = s.t
        /\ Sending \/ ~Duplicate(s.msg, thread[s.t])
    BY <1>3, <2>2, FollowupsStep
  <2>4. z.msg.ref \in Mails
    <3>1. s.msg \in Messages /\ Fitting(s.msg) /\ s.msg.q = "followups"
      BY <2>3, ActorIs DEF Actors, Consumers, Senders
    <3> QED BY <1>3, <2>3, <3>1 DEF Fitting, JobKinds
  <2>5. CASE Sending
    BY <1>3, <2>1, <2>3, <2>5 DEF Answering
  <2>6. CASE ~Duplicate(s.msg, thread[s.t])
    BY <1>0, <1>3, <2>1, <2>3, <2>4, <2>6 DEF Duplicate
  <2> QED BY <2>3, <2>5, <2>6
<1> QED BY <1>2, <1>3 DEF Answering

-----------------------------------------------------------------------------
(* Requests.                                                               *)

\* A request is counted once, for the thread that was about to be sent it.
LEMMA RequestStep ==
    ASSUME Typed, [Next]_vars
    PROVE  \/ UNCHANGED requests
           \/ /\ Requesting /\ ~Requesting' /\ at["contacts"].t \in Threads
              /\ requests' = [requests EXCEPT ![at["contacts"].t] = @ + 1]
              /\ thread'[at["contacts"].t].status = "request_sent"
<1> USE DEF Actors, Consumers, Senders
<1> DEFINE s == at["contacts"]
<1>0. s \in Controls /\ at \in [Actors -> Controls] /\ thread \in [Threads -> Rows \cup {NoRow}]
  BY DEF Typed, ActorsTyped, RowsTyped
<1>1. CASE RecordSend("followups")
  BY <1>1 DEF RecordSend
<1>2. CASE RecordSend("contacts")
  <2>1. s.pc = "write" /\ s.to # "needs_human"
    BY <1>2 DEF RecordSend, At, Recording
  <2>2. s.t \in Threads /\ s.to = "request_sent"
    BY <2>1, ActorIs DEF Targets
  <2>3. requests' = [requests EXCEPT ![s.t] = @ + 1]
    BY <1>2 DEF RecordSend
  <2>4. ~Requesting'
    BY <1>0, <1>2 DEF RecordSend, Goto, Become, Controls, Requesting
  <2>5. thread'[s.t].status = "request_sent"
    BY <1>0, <1>2, <2>2 DEF RecordSend
  <2> QED BY <2>1, <2>2, <2>3, <2>4, <2>5 DEF Requesting
<1>3. CASE RecordNew
  <2>1. s.pc = "record"
    BY <1>3 DEF RecordNew, At
  <2>2. s.t \in Threads
    BY <2>1, ActorIs
  <2>3. requests' = [requests EXCEPT ![s.t] = @ + 1]
    BY <1>3 DEF RecordNew
  <2>4. ~Requesting'
    BY <1>0, <1>3 DEF RecordNew, Goto, Become, Controls, Requesting
  <2>5. thread'[s.t].status = "request_sent"
    BY <1>0, <1>3, <2>2 DEF RecordNew
  <2> QED BY <2>1, <2>2, <2>3, <2>4, <2>5 DEF Requesting
<1> QED BY <1>1, <1>2, <1>3, CountsChange

\* An approval is counted with the status it sets, and with no other step.
LEMMA ApprovedStep ==
    ASSUME Typed, [Next]_vars
    PROVE  \/ UNCHANGED approved
           \/ /\ at["operator"].t \in Threads
              /\ approved' = [approved EXCEPT ![at["operator"].t] = @ + 1]
<1>1. ASSUME NEW a \in Actors, Write(a), ~UNCHANGED approved PROVE a = "operator"
  BY <1>1 DEF Write
<1>2. ASSUME Write("operator")
      PROVE  /\ at["operator"].t \in Threads
             /\ approved' = approved \/ approved' = [approved EXCEPT ![at["operator"].t] = @ + 1]
  BY <1>2, WriteIs DEF Write, Actors
<1> QED BY <1>1, <1>2, ApprovedChange

\* Only the operator makes a thread wait for a request, and a row never goes away.
LEMMA WaitingStep ==
    ASSUME Typed, [Next]_vars, NEW t \in Threads, thread'[t].status \in {"none", "pending_send"}
    PROVE  \/ thread[t].status \in {"none", "pending_send"}
           \/ approved'[t] = approved[t] + 1
<1> USE DEF Actors, Consumers, Senders
<1>0. /\ at \in [Actors -> Controls] /\ thread \in [Threads -> Rows \cup {NoRow}]
      /\ approved \in [Threads -> Nat]
  BY DEF Typed, ActorsTyped, RowsTyped
<1>1. CASE UNCHANGED thread
  BY <1>1
<1>2. ASSUME NEW a \in Actors, Write(a)
      PROVE  thread[t].status \in {"none", "pending_send"} \/ approved'[t] = approved[t] + 1
  <2> DEFINE r == [status |-> at[a].to, next |-> at[a].next,
                   followups |-> thread[at[a].t].followups]
  <2>1. at[a].t \in Threads /\ at[a].to \in Targets(a) /\ thread' = [thread EXCEPT ![at[a].t] = r]
        /\ at[a].to \in Statuses
    BY <1>2, WriteIs
  <2>2. r.status = at[a].to
    OBVIOUS
  <2> HIDE DEF r
  <2>3. CASE t # at[a].t
    BY <1>0, <2>1, <2>3
  <2>4. CASE t = at[a].t
    <3>1. at[a].to = "pending_send"
      BY <1>0, <2>1, <2>2, <2>4 DEF Statuses, OpenStatuses
    <3>2. a = "operator"
      BY <2>1, <3>1 DEF Targets, OpenStatuses
    <3>3. approved' = [approved EXCEPT ![t] = @ + 1]
      BY <1>2, <2>4, <3>1, <3>2 DEF Write
    <3> QED BY <1>0, <3>3
  <2> QED BY <2>3, <2>4
<1>3. ASSUME NEW q \in Senders, RecordSend(q) PROVE thread[t].status \in {"none", "pending_send"}
  <2>1. at[q].t \in Threads /\ at[q].to \in Targets(q)
    BY <1>3, ActorIs DEF RecordSend, At
  <2>2. at[q].to \notin {"none", "pending_send"}
    BY <2>1 DEF Targets
  <2>3. thread'[at[q].t].status = at[q].to
    BY <1>0, <1>3, <2>1 DEF RecordSend
  <2>4. t # at[q].t
    BY <2>2, <2>3
  <2>5. thread'[t] = thread[t]
    BY <1>0, <1>3, <2>4 DEF RecordSend
  <2> QED BY <2>5
<1>4. CASE RecordNew
  <2>1. t # at["contacts"].t
    BY <1>0, <1>4 DEF RecordNew
  <2> QED BY <1>0, <1>4, <2>1 DEF RecordNew
<1>5. ASSUME NEW u \in Threads, Falls(u) PROVE thread[t].status \in {"none", "pending_send"}
  BY <1>0, <1>5 DEF Falls, Rows, NoRow
<1> QED BY <1>1, <1>2, <1>3, <1>4, <1>5, ThreadChange

LEMMA RequestingStep ==
    ASSUME Typed, [Next]_vars, Requesting'
    PROVE  /\ at'["contacts"].t = at["contacts"].t /\ at["contacts"].t \in Threads
           /\ \/ Requesting
              \/ thread[at["contacts"].t].status \in {"none", "pending_send"}
           /\ UNCHANGED requests
<1> USE DEF Actors, Consumers, Senders
<1> DEFINE s == at["contacts"]
           z == at'["contacts"]
           Done == z.t = s.t /\ s.pc # "idle" /\ Requesting
<1>0. s \in Controls /\ at \in [Actors -> Controls]
  BY DEF Typed, ActorsTyped
<1>9. Requesting => s.pc # "idle" /\ s.t \in Threads
  BY ActorIs DEF Requesting
<1>1. CASE z = s
  BY <1>1, <1>9, RequestStep DEF Requesting
<1>2. z # Idle
  BY DEF Idle, Requesting
<1>3. CASE Receive("contacts")
  <2>1. PICK r : at' = [at EXCEPT !["contacts"] = [Idle EXCEPT !.pc = "start", !.msg = r, !.t = r.t]]
    BY <1>3 DEF Receive, Become
  <2> QED BY <1>0, <2>1 DEF Idle, Requesting
<1>4. CASE ContactGate
  <2>1. s.pc = "start"
    BY <1>4 DEF ContactGate, At
  <2>2. \/ z = [s EXCEPT !.pc = "delete"] \/ z = Idle
        \/ z = Setting("contacts", s.t, "needs_human", "null")
        \/ z = [s EXCEPT !.pc = "deliver", !.seen = thread[s.t]] /\ ~Taken(s.t)
    BY <1>0, <1>4 DEF ContactGate, Goto, Become, Escalate
  <2>3. z = [s EXCEPT !.pc = "deliver", !.seen = thread[s.t]] /\ ~Taken(s.t)
    BY <1>0, <1>2, <2>2 DEF Requesting, Setting, Controls
  <2>4. z.t = s.t
    BY <1>0, <2>3 DEF Controls
  <2>5. thread[s.t].status \in {"none", "pending_send"}
    BY <2>3 DEF Taken, NoRow
  <2> QED BY <2>1, <2>4, <2>5, ActorIs, RequestStep
<1>5. CASE RecordNew \/ RecordSend("contacts")
  BY <1>0, <1>5 DEF RecordNew, RecordSend, Goto, Become, Controls, Requesting
<1>6. CASE Deliver("contacts")
  <2>1. s.pc = "deliver"
    BY <1>6 DEF Deliver, At
  <2>2. z.t = s.t
    BY <1>0, <1>6 DEF Deliver, Become, Setting, Controls
  <2> QED BY <2>1, <2>2, ActorIs, RequestStep DEF Requesting
<1>7. CASE Check("contacts") \/ Write("contacts")
  <2>1. s.pc \in {"check", "write"}
    BY <1>7 DEF Check, Write, At
  <2>2. z \in {[s EXCEPT !.pc = "write"], [s EXCEPT !.pc = "delete"]}
    BY <1>0, <1>2, <1>7 DEF Check, Write, Goto, Become, AfterStatus
  <2>3. z = [s EXCEPT !.pc = "write"]
    BY <1>0, <2>2 DEF Requesting, Controls
  <2>4. z.t = s.t /\ z.to = s.to /\ z.pc = "write"
    BY <1>0, <2>3 DEF Controls
  <2>5. Requesting
    BY <2>1, <2>4 DEF Requesting
  <2> QED BY <2>1, <2>4, <2>5, ActorIs, RequestStep
<1> QED BY <1>1, <1>2, <1>3, <1>4, <1>5, <1>6, <1>7, ActorMoves

LEMMA RequestedStep ==
    ASSUME Typed, Typed', Requested, [Next]_vars
    PROVE  Requested'
<1> DEFINE u == at["contacts"].t
<1>0. /\ \A t \in Threads : requests[t] \in Nat /\ approved[t] \in Nat /\ approved'[t] \in Nat
      /\ requests \in [Threads -> Nat] /\ approved \in [Threads -> Nat]
  BY DEF Typed, RowsTyped
<1>1. \A t \in Threads : approved'[t] >= approved[t]
  BY <1>0, ApprovedStep
<1>2. CASE UNCHANGED requests
  <2>1. RequestsBounded'
    BY <1>0, <1>1, <1>2 DEF Requested, RequestsBounded
  <2>2. ASSUME NEW t \in Threads, thread'[t].status \in {"none", "pending_send"}
        PROVE  requests'[t] <= approved'[t]
    <3>1. requests[t] <= 1 + approved[t]
      BY DEF Requested, RequestsBounded
    <3>2. thread[t].status \in {"none", "pending_send"} => requests[t] <= approved[t]
      BY DEF Requested
    <3> QED BY <1>0, <1>1, <1>2, <2>2, <3>1, <3>2, WaitingStep
  <2>3. ASSUME Requesting' PROVE requests'[at'["contacts"].t] <= approved'[at'["contacts"].t]
    <3>1. at'["contacts"].t = u /\ u \in Threads
      BY <2>3, RequestingStep
    <3>2. requests[u] <= approved[u]
      BY <2>3, <3>1, RequestingStep DEF Requested
    <3> QED BY <1>0, <1>1, <1>2, <3>1, <3>2
  <2> QED BY <2>1, <2>2, <2>3 DEF Requested
<1>3. CASE /\ Requesting /\ ~Requesting' /\ u \in Threads
           /\ requests' = [requests EXCEPT ![u] = @ + 1]
           /\ thread'[u].status = "request_sent"
  <2>1. requests[u] <= approved[u]
    BY <1>3 DEF Requested
  <2>2. requests'[u] = requests[u] + 1 /\ \A t \in Threads \ {u} : requests'[t] = requests[t]
    BY <1>0, <1>3
  <2>3. ASSUME NEW t \in Threads PROVE requests'[t] <= 1 + approved'[t]
    <3>1. requests[t] <= 1 + approved[t]
      BY DEF Requested, RequestsBounded
    <3> QED BY <1>0, <1>1, <1>3, <2>1, <2>2, <3>1
  <2>4. ASSUME NEW t \in Threads, thread'[t].status \in {"none", "pending_send"}
        PROVE  requests'[t] <= approved'[t]
    <3>1. t # u
      BY <1>3, <2>4
    <3>2. requests[t] <= 1 + approved[t]
      BY DEF Requested, RequestsBounded
    <3>3. thread[t].status \in {"none", "pending_send"} => requests[t] <= approved[t]
      BY DEF Requested
    <3> QED BY <1>0, <1>1, <2>2, <2>4, <3>1, <3>2, <3>3, WaitingStep
  <2> QED BY <1>3, <2>3, <2>4 DEF Requested, RequestsBounded
<1> QED BY <1>2, <1>3, RequestStep

-----------------------------------------------------------------------------
(* Give-ups and fees.                                                      *)

KnownNext(t) == open'[t] + resolved'[t] > 0

\* What the operator has been told of a thread is not forgotten.
LEMMA KnownStays ==
    ASSUME Typed, [Next]_vars, NEW t \in Threads, Known(t)
    PROVE  KnownNext(t)
<1>0. /\ open \in [Threads -> Nat] /\ resolved \in [Threads -> Nat]
      /\ open[t] \in Nat /\ resolved[t] \in Nat
  BY ParamAssumption DEF Typed, RowsTyped
<1>1. CASE UNCHANGED <<open, resolved>>
  BY <1>1 DEF Known, KnownNext
<1>2. CASE UNCHANGED resolved /\ \E u \in Threads : open' = Told(u)
  BY <1>0, <1>2 DEF Known, KnownNext, Told
<1>3. ASSUME NEW u \in Threads, open[u] > 0, open' = [open EXCEPT ![u] = @ - 1],
             resolved' = [resolved EXCEPT ![u] = @ + 1]
      PROVE  KnownNext(t)
  BY <1>0, <1>3 DEF Known, KnownNext
<1> QED BY <1>1, <1>2, <1>3, OpenSteps

LEMMA ToldIsKnown ==
    ASSUME Typed, NEW t \in Threads, UNCHANGED resolved, open' = Told(t)
    PROVE  KnownNext(t)
<1>1. open[t] \in Nat /\ resolved[t] \in Nat
  BY ParamAssumption DEF Typed, RowsTyped
<1> QED BY <1>1, Escalates DEF KnownNext, Typed, RowsTyped

\* An actor that is about to park a thread was about to, or has just told the operator.
LEMMA ParkStep ==
    ASSUME Typed, Parking, [Next]_vars, NEW b \in Actors,
           at'[b].pc \in {"check", "write"}, at'[b].to = "needs_human"
    PROVE  KnownNext(at'[b].t)
<1> USE DEF Actors, Consumers, Senders
<1>0. /\ at \in [Actors -> Controls] /\ at[b] \in Controls
      /\ \A c : at'[b] = c => c.pc \in {"check", "write"} /\ c.to = "needs_human"
  BY DEF Typed, ActorsTyped
<1>1. at'[b] # Idle
  BY DEF Idle
<1>2. CASE at'[b].t = at[b].t /\ at[b].pc \in {"check", "write"} /\ at[b].to = "needs_human"
  <2>1. Known(at[b].t) /\ at[b].t \in Threads
    BY <1>2, ActorIs DEF Parking
  <2> QED BY <1>2, <2>1, KnownStays
<1>3. CASE at'[b] = at[b]
  BY <1>2, <1>3
<1>4. ASSUME NEW a \in Actors, NEW c, at' = [at EXCEPT ![a] = c],
             c.pc \notin {"check", "write"} \/ c.to # "needs_human"
      PROVE  KnownNext(at'[b].t)
  <2>1. b # a
    BY <1>0, <1>4
  <2> QED BY <1>0, <1>3, <1>4, <2>1
<1>5. ASSUME NEW a \in Actors, NEW t \in Threads,
             at' = [at EXCEPT ![a] = Setting(a, t, "needs_human", "null")],
             UNCHANGED resolved, open' = Told(t)
      PROVE  KnownNext(at'[b].t)
  <2>1. CASE a # b
    BY <1>0, <1>3, <1>5, <2>1
  <2>2. CASE a = b
    <3>1. at'[b].t = t
      BY <1>0, <1>5, <2>2 DEF Setting, Controls
    <3> QED BY <1>5, <3>1, ToldIsKnown
  <2> QED BY <2>1, <2>2
<1>6. ASSUME NEW q \in Consumers, Receive(q) PROVE KnownNext(at'[b].t)
  <2>1. PICK r : at' = [at EXCEPT ![q] = [Idle EXCEPT !.pc = "start", !.msg = r, !.t = r.t]]
    BY <1>6 DEF Receive, Become
  <2>2. [Idle EXCEPT !.pc = "start", !.msg = r, !.t = r.t].pc = "start"
    BY DEF Idle
  <2> QED BY <1>4, <2>1, <2>2
<1>7. ASSUME NEW a \in Actors, Check(a) \/ Write(a) PROVE KnownNext(at'[b].t)
  <2>1. at[a] \in Controls /\ at[a].pc \in {"check", "write"}
    BY <1>7, ActorIs DEF Check, Write, At
  <2>2. CASE at' = [at EXCEPT ![a] = [at[a] EXCEPT !.pc = "write"]]
    <3>1. CASE a = b
      <4>1. at'[b].t = at[b].t /\ at'[b].to = at[b].to
        BY <1>0, <2>2, <3>1 DEF Controls
      <4> QED BY <1>2, <2>1, <3>1, <4>1
    <3>2. CASE a # b
      BY <1>0, <1>3, <2>2, <3>2
    <3> QED BY <3>1, <3>2
  <2>3. CASE at' = [at EXCEPT ![a] = AfterStatus(a)]
    <3>1. AfterStatus(a).pc \notin {"check", "write"}
      BY <2>1 DEF AfterStatus, Idle, Controls
    <3> QED BY <1>4, <2>3, <3>1
  <2>4. CASE at' = [at EXCEPT ![a] = Idle]
    BY <1>4, <2>4 DEF Idle
  <2> QED BY <1>7, <2>2, <2>3, <2>4 DEF Check, Write, Goto, Become
<1>8. ASSUME NEW a \in Actors, at' = [at EXCEPT ![a] = Idle] PROVE KnownNext(at'[b].t)
  BY <1>4, <1>8 DEF Idle
<1>9. ASSUME NEW a \in Actors, NEW pc, pc \notin {"check", "write"},
             at' = [at EXCEPT ![a] = [at[a] EXCEPT !.pc = pc]]
      PROVE  KnownNext(at'[b].t)
  <2>1. at[a] \in Controls
    BY ActorIs
  <2>2. [at[a] EXCEPT !.pc = pc].pc = pc
    BY <2>1 DEF Controls
  <2> QED BY <1>4, <1>9, <2>2
<1>10. ASSUME NEW a \in Actors, NEW pc, pc \notin {"check", "write"}, NEW row,
              at' = [at EXCEPT ![a] = [at[a] EXCEPT !.pc = pc, !.seen = row]]
       PROVE  KnownNext(at'[b].t)
  <2>1. at[a] \in Controls
    BY ActorIs
  <2>2. [at[a] EXCEPT !.pc = pc, !.seen = row].pc = pc
    BY <2>1 DEF Controls
  <2> QED BY <1>4, <1>10, <2>2
<1>11. ASSUME NEW a \in Actors, NEW t, NEW to, to # "needs_human", NEW n,
              at' = [at EXCEPT ![a] = Setting(a, t, to, n)]
       PROVE  KnownNext(at'[b].t)
  <2>1. at[a] \in Controls
    BY ActorIs
  <2>2. Setting(a, t, to, n).to = to
    BY <2>1 DEF Controls, Setting
  <2> QED BY <1>4, <1>11, <2>2
<1>12. CASE ContactGate
  <2>1. at["contacts"].t \in Threads
    BY <1>12, ActorIs DEF ContactGate, At
  <2> DEFINE s == at["contacts"]
  <2>2. \/ at' = [at EXCEPT !["contacts"] = [s EXCEPT !.pc = "delete"]]
        \/ at' = [at EXCEPT !["contacts"] = Idle]
        \/ at' = [at EXCEPT !["contacts"] = [s EXCEPT !.pc = "deliver", !.seen = thread[s.t]]]
        \/ /\ at' = [at EXCEPT !["contacts"] = Setting("contacts", s.t, "needs_human", "null")]
           /\ open' = Told(s.t)
    BY <1>12 DEF ContactGate, Goto, Become, Escalate
  <2>3. UNCHANGED resolved
    BY <1>12 DEF ContactGate, human
  <2>4. at' = [at EXCEPT !["contacts"] = [s EXCEPT !.pc = "delete"]] => KnownNext(at'[b].t)
    <3>1. [s EXCEPT !.pc = "delete"].pc = "delete"
      BY ActorIs DEF Controls
    <3> QED BY <1>4, <3>1
  <2>5. at' = [at EXCEPT !["contacts"] = [s EXCEPT !.pc = "deliver", !.seen = thread[s.t]]]
            => KnownNext(at'[b].t)
    <3>1. [s EXCEPT !.pc = "deliver", !.seen = thread[s.t]].pc = "deliver"
      BY ActorIs DEF Controls
    <3> QED BY <1>4, <3>1
  <2> QED BY <1>5, <1>8, <2>1, <2>2, <2>3, <2>4, <2>5
<1>13. CASE RecordNew \/ JobStart \/ JobRead
  <2> DEFINE s == at["followups"]
  <2>1. RecordNew \/ JobStart => KnownNext(at'[b].t)
    BY <1>9 DEF RecordNew, JobStart, Goto, Become
  <2>2. JobRead => \/ at' = [at EXCEPT !["followups"] = [s EXCEPT !.pc = "delete"]]
                   \/ at' = [at EXCEPT !["followups"] = [s EXCEPT !.pc = "deliver", !.seen = thread[s.t]]]
    BY DEF JobRead, Goto, Become
  <2>3. at' = [at EXCEPT !["followups"] = [s EXCEPT !.pc = "delete"]] => KnownNext(at'[b].t)
    <3>1. [s EXCEPT !.pc = "delete"].pc = "delete"
      BY ActorIs DEF Controls
    <3> QED BY <1>4, <3>1
  <2>4. at' = [at EXCEPT !["followups"] = [s EXCEPT !.pc = "deliver", !.seen = thread[s.t]]]
            => KnownNext(at'[b].t)
    <3>1. [s EXCEPT !.pc = "deliver", !.seen = thread[s.t]].pc = "deliver"
      BY ActorIs DEF Controls
    <3> QED BY <1>4, <3>1
  <2> QED BY <1>13, <2>1, <2>2, <2>3, <2>4
<1>14. ASSUME NEW q \in Senders, Deliver(q) \/ RecordSend(q) PROVE KnownNext(at'[b].t)
  BY <1>9, <1>11, <1>14 DEF Deliver, RecordSend, Goto, Become
<1>15. CASE Match \/ LogMail
  <2> DEFINE s == at["inbound"]
             row == IF Matches(s.msg) THEN thread[s.t] ELSE NoRow
  <2>0. s \in Controls
    BY ActorIs
  <2>1. LogMail => KnownNext(at'[b].t)
    <3>2. LogMail => \/ at' = [at EXCEPT !["inbound"] = [s EXCEPT !.pc = "react"]]
                     \/ at' = [at EXCEPT !["inbound"] = [s EXCEPT !.pc = "delete"]]
      BY DEF LogMail, Goto, Become
    <3>4. at' = [at EXCEPT !["inbound"] = [s EXCEPT !.pc = "react"]] => KnownNext(at'[b].t)
      <4>1. [s EXCEPT !.pc = "react"].pc = "react"
        BY <2>0 DEF Controls
      <4> QED BY <1>4, <4>1
    <3>5. at' = [at EXCEPT !["inbound"] = [s EXCEPT !.pc = "delete"]] => KnownNext(at'[b].t)
      <4>1. [s EXCEPT !.pc = "delete"].pc = "delete"
        BY <2>0 DEF Controls
      <4> QED BY <1>4, <4>1
    <3> QED BY <3>2, <3>4, <3>5
  <2>2. Match => \/ at' = [at EXCEPT !["inbound"] = [s EXCEPT !.pc = "delete"]]
                 \/ at' = [at EXCEPT !["inbound"] = [s EXCEPT !.pc = "log", !.seen = row]]
    BY DEF Match, Become
  <2> HIDE DEF row
  <2>3. at' = [at EXCEPT !["inbound"] = [s EXCEPT !.pc = "delete"]] => KnownNext(at'[b].t)
    <3>1. [s EXCEPT !.pc = "delete"].pc = "delete"
      BY <2>0 DEF Controls
    <3> QED BY <1>4, <3>1
  <2>4. at' = [at EXCEPT !["inbound"] = [s EXCEPT !.pc = "log", !.seen = row]] => KnownNext(at'[b].t)
    <3>1. [s EXCEPT !.pc = "log", !.seen = row].pc = "log"
      BY <2>0 DEF Controls
    <3> QED BY <1>4, <3>1
  <2> QED BY <1>15, <2>1, <2>2, <2>3, <2>4
<1>16. CASE React \/ Agree
  <2>1. at["inbound"].t \in Threads
    BY <1>16, InboundIs DEF React, Agree, At
  <2>2. ReactGiveUp /\ UNCHANGED resolved => KnownNext(at'[b].t)
    BY <1>5, <2>1 DEF ReactGiveUp, Escalate, Become
  <2> QED BY <1>9, <1>11, <1>16, <2>2
          DEF React, ReactFulfil, ReactAck, ReactRefer, ReactClarify, ReactPay, Agree, Goto, Become, human
<1>17. CASE ScanSelect
  <2>1. PICK todo : at' = [at EXCEPT !["scan"] = [Idle EXCEPT !.pc = "next", !.todo = todo]]
    BY <1>17 DEF ScanSelect, Become
  <2>2. [Idle EXCEPT !.pc = "next", !.todo = todo].pc = "next"
    BY DEF Idle
  <2> QED BY <1>4, <2>1, <2>2
<1>18. CASE ScanThread
  <2> DEFINE C(e, to, next) == [[at EXCEPT !["scan"].todo = @ \ {e}]
                                  EXCEPT !["scan"].pc = "check", !["scan"].t = e[1],
                                         !["scan"].to = to, !["scan"].next = next]
  <2>1. PICK e \in at["scan"].todo : \/ open' = Told(e[1]) /\ at' = C(e, "needs_human", "null")
                                     \/ at' = C(e, e[2].status, "later")
    BY <1>18 DEF ScanThread
  <2>2. PICK to, next : /\ \/ to = "needs_human" /\ open' = Told(e[1])
                           \/ to = e[2].status
                        /\ at' = C(e, to, next)
    <3> HIDE DEF C
    <3> QED BY <2>1
  <2>3. e[1] \in Threads /\ e[2].status \in OpenStatuses
    BY ActorIs
  <2>4. CASE b # "scan"
    <3>1. at'[b] = at[b]
      BY <1>0, <2>2, <2>4
    <3> QED BY <1>3, <3>1
  <2>5. CASE b = "scan"
    <3>1. at'["scan"].t = e[1] /\ at'["scan"].to = to
      BY <1>0, <2>2, <2>5 DEF Controls
    <3>2. open' = Told(e[1]) /\ UNCHANGED resolved
      BY <1>18, <2>2, <2>3, <2>5, <3>1 DEF OpenStatuses, ScanThread, human
    <3> QED BY <2>3, <2>5, <3>1, <3>2, ToldIsKnown
  <2> QED BY <2>4, <2>5
<1>19. CASE Drain
  <2>1. at["dead"].t \in Threads
    BY <1>19, ActorIs DEF Drain, At
  <2> QED BY <1>5, <1>9, <1>19, <2>1 DEF Drain, Goto, Become, Escalate, human
<1>20. CASE Crash
  BY <1>1, <1>3, <1>20 DEF Crash
<1>21. CASE Resolve
  <2>1. PICK t \in Threads :
           /\ open' = [open EXCEPT ![t] = @ - 1]
           /\ resolved' = [resolved EXCEPT ![t] = @ + 1]
           /\ \/ at' = at
              \/ \E to \in Statuses : at' = [at EXCEPT !["operator"] = Setting("operator", t, to, "null")]
    BY <1>21 DEF Resolve, Become
  <2>2. resolved'[t] > 0 /\ open'[t] \in Nat /\ resolved'[t] \in Nat
    <3>1. resolved[t] \in Nat /\ resolved'[t] = resolved[t] + 1
      BY <2>1, ParamAssumption DEF Typed, RowsTyped
    <3>2. open'[t] \in Nat
      BY OpenTyped
    <3> QED BY <3>1, <3>2
  <2>3. KnownNext(t)
    BY <2>2 DEF Known, KnownNext
  <2>4. CASE b = "operator" /\ at' # at
    <3>0. PICK to \in Statuses : at' = [at EXCEPT !["operator"] = Setting("operator", t, to, "null")]
      BY <2>1, <2>4
    <3>1. at'[b].t = t
      BY <1>0, <2>4, <3>0 DEF Setting, Controls
    <3> QED BY <2>3, <3>1
  <2>5. CASE b # "operator"
    BY <1>0, <1>3, <2>1, <2>5
  <2> QED BY <1>3, <2>4, <2>5
<1>22. ASSUME UNCHANGED at PROVE KnownNext(at'[b].t)
  BY <1>3, <1>22
<1>23. ASSUME NEW q \in Consumers, Delete(q) PROVE KnownNext(at'[b].t)
  BY <1>8, <1>23 DEF Delete, Become
<1>24. ASSUME NEW a \in Actors, Fails(a) PROVE KnownNext(at'[b].t)
  BY <1>8, <1>24 DEF Fails, Become
<1>25. CASE Approve
  BY <1>8, <1>25 DEF Approve, Become
<1> QED BY <1>6, <1>7, <1>12, <1>13, <1>14, <1>15, <1>16, <1>17, <1>18, <1>19, <1>20, <1>21, <1>22,
           <1>23, <1>24, <1>25
        DEF Next, vars, Arrive, Poll, DeadLetter, SetActive, FallsQuiet, FallsEarly, Falls

LEMMA ParkingStep ==
    ASSUME Typed, Typed', Parking, [Next]_vars
    PROVE  Parking'
<1> USE DEF Actors, Consumers, Senders
<1>0. thread \in [Threads -> Rows \cup {NoRow}]
  BY DEF Typed, RowsTyped
<1>1. ASSUME NEW b \in Actors, at'[b].pc \in {"check", "write"}, at'[b].to = "needs_human"
      PROVE  KnownNext(at'[b].t)
  BY <1>1, ParkStep
<1>2. ASSUME NEW t \in Threads, thread'[t].status = "needs_human" PROVE KnownNext(t)
  <2>1. CASE thread[t].status = "needs_human"
    <3>1. Known(t)
      BY <2>1 DEF Parking, ParkedIsEscalated, Known
    <3> QED BY <3>1, KnownStays
  <2>2. ASSUME NEW a \in Actors, Write(a), thread[t].status # "needs_human" PROVE KnownNext(t)
    <3> DEFINE r == [status |-> at[a].to, next |-> at[a].next,
                     followups |-> thread[at[a].t].followups]
    <3>1. at[a].t \in Threads /\ thread' = [thread EXCEPT ![at[a].t] = r]
      BY <2>2, WriteIs
    <3>2. r.status = at[a].to
      OBVIOUS
    <3> HIDE DEF r
    <3>3. t = at[a].t /\ at[a].to = "needs_human"
      BY <1>0, <1>2, <2>2, <3>1, <3>2
    <3>4. Known(t)
      BY <2>2, <3>3 DEF Write, At, Parking
    <3> QED BY <3>4, KnownStays
  <2>3. ASSUME NEW q \in Senders, RecordSend(q) PROVE thread[t].status = "needs_human"
    <3>1. at[q].t \in Threads /\ at[q].to # "needs_human"
      BY <2>3, ActorIs DEF RecordSend, At, Recording
    <3>2. t # at[q].t
      BY <1>0, <1>2, <2>3, <3>1 DEF RecordSend
    <3> QED BY <1>0, <1>2, <2>3, <3>2 DEF RecordSend
  <2>4. RecordNew => thread[t].status = "needs_human"
    BY <1>0, <1>2 DEF RecordNew
  <2>5. ASSUME NEW u \in Threads, Falls(u) PROVE thread[t].status = "needs_human"
    BY <1>0, <1>2, <2>5 DEF Falls, Rows, NoRow
  <2> QED BY <1>2, <2>1, <2>2, <2>3, <2>4, <2>5, ThreadChange
<1> QED BY <1>1, <1>2 DEF Parking, ParkedIsEscalated, Known, KnownNext

LEMMA AgreementsStep ==
    ASSUME Typed, Typed', AgreementsBooked, [Next]_vars
    PROVE  AgreementsBooked'
<1> USE DEF Actors, Consumers, Senders
<1> DEFINE s == at["inbound"]
           z == at'["inbound"]
<1>0. s \in Controls /\ at \in [Actors -> Controls] /\ booked \in [Mails -> Nat]
  BY DEF Typed, ActorsTyped, RowsTyped
<1>1. \A m : booked[m] > 0 /\ m \in Mails => booked'[m] > 0
  <2>1. CASE UNCHANGED booked
    BY <2>1
  <2>2. CASE React /\ ReactPay
    <3>1. CASE UNCHANGED booked
      BY <3>1
    <3>2. CASE \E n \in Amounts : booked' = [booked EXCEPT ![s.msg.ref] = @ + n]
      BY <1>0, <3>2, ParamAssumption
    <3> QED BY <2>2, <3>1, <3>2 DEF ReactPay, ReactGiveUp
  <2> QED BY <2>1, <2>2, BookedChange
<1>2. ASSUME NEW j \in msgs', j.kind = "fee_agreement" PROVE booked'[j.ref] > 0
  <2>0. j.ref \in Mails
    BY <1>2 DEF Typed, QueueTyped, Fitting
  <2>1. CASE \E n \in msgs : j.kind = n.kind /\ j.ref = n.ref
    BY <1>1, <1>2, <2>0, <2>1 DEF AgreementsBooked
  <2>2. CASE Agree /\ j.ref = s.msg.ref
    BY <1>1, <2>0, <2>2 DEF Agree, At, AgreementsBooked
  <2> QED BY <1>2, <2>1, <2>2, MessagesStep
<1>3. ASSUME z.pc = "agree" PROVE booked'[z.msg.ref] > 0
  <2>1. CASE z = s
    <3>1. s.pc # "idle" /\ s.pc = "agree"
      BY <1>3, <2>1
    <3>2. s.msg.ref \in Mails
      BY <3>1, InboundIs
    <3> QED BY <1>1, <2>1, <3>1, <3>2 DEF AgreementsBooked
  <2>2. z # Idle
    BY <1>3 DEF Idle
  <2>3. ~Receive("inbound")
    <3> SUFFICES ASSUME Receive("inbound") PROVE FALSE
      OBVIOUS
    <3>1. PICK r : at' = [at EXCEPT !["inbound"] = [Idle EXCEPT !.pc = "start", !.msg = r, !.t = r.t]]
      BY DEF Receive, Become
    <3> QED BY <1>0, <1>3, <3>1 DEF Idle
  <2>4. ~Match /\ ~LogMail /\ ~Agree
    <3>1. Match => \/ z = [s EXCEPT !.pc = "delete"]
                   \/ \E row : z = [s EXCEPT !.pc = "log", !.seen = row]
      BY <1>0 DEF Match, Become
    <3>2. LogMail => z \in {[s EXCEPT !.pc = "delete"], [s EXCEPT !.pc = "react"]}
      BY <1>0 DEF LogMail, Goto, Become
    <3>3. Agree => z = Setting("inbound", s.t, "awaiting_reply", "later")
      BY <1>0 DEF Agree, Become
    <3> QED BY <1>0, <1>3, <3>1, <3>2, <3>3 DEF Setting, Controls
  <2>5. ~Check("inbound") /\ ~Write("inbound")
    BY <1>0, <1>3, <2>2 DEF Check, Write, Goto, Become, AfterStatus, Controls
  <2>6. CASE React
    <3>1. s.msg.ref \in Mails
      BY <2>6, InboundIs DEF React, At
    <3>2. PICK n \in Amounts : /\ booked' = [booked EXCEPT ![s.msg.ref] = @ + n]
                              /\ z = [s EXCEPT !.pc = "agree"]
      <4>1. \A t, to, n : z # Setting("inbound", t, to, n)
        BY <1>0, <1>3 DEF Setting, Controls
      <4>2. ~ReactFulfil /\ ~ReactAck /\ ~ReactGiveUp /\ ~ReactRefer /\ ~ReactClarify
        BY <1>0, <4>1 DEF ReactFulfil, ReactAck, ReactGiveUp, ReactRefer, ReactClarify, Become, Escalate
      <4> QED BY <1>0, <2>6, <4>2 DEF React, ReactPay, Goto, Become
    <3>3. z.msg = s.msg
      BY <1>0, <3>2 DEF Controls
    <3> QED BY <1>0, <3>1, <3>2, <3>3, ParamAssumption
  <2> QED BY <2>1, <2>2, <2>3, <2>4, <2>5, <2>6, ActorMoves
<1> QED BY <1>2, <1>3 DEF AgreementsBooked

-----------------------------------------------------------------------------
(* The ledger.  What is committed is a fold over the mails, which unfolds  *)
(* into a total over each set of them, without the mail it picks first.    *)

Pick(s) == CHOOSE x \in s : TRUE
Totals(f, S, g) == [s \in SUBSET S |-> IF s = {} THEN 0 ELSE f[Pick(s)] + g[s \ {Pick(s)}]]
Total(f, S) == CHOOSE g : g = Totals(f, S, g)

LEMMA CommittedIs ==
    /\ Committed = Total(booked, DOMAIN booked)[DOMAIN booked]
    /\ Committed' = Total(booked', DOMAIN booked')[DOMAIN booked']
BY DEF Committed, FoldFunction, FoldFunctionOnSet, MapThenFoldSet, Total, Totals, Pick

\* What holds of no mail, and of a set if it holds without the mail picked from it, holds of all.
LEMMA PickingUp ==
    ASSUME NEW S, IsFiniteSet(S), NEW G, {} \in G,
           \A s \in SUBSET S : s # {} /\ s \ {Pick(s)} \in G => s \in G
    PROVE  \A s \in SUBSET S : s \in G
<1> SUFFICES ASSUME NEW b \in SUBSET S, b \notin G PROVE FALSE
  OBVIOUS
<1> DEFINE Bad == {s \in SUBSET S : s \notin G}
           R == StrictSubsetOrdering(S)
<1>1. IsWellFoundedOn(R, SUBSET S)
  <2>1. IsWellFoundedOn(R, FiniteSubsetsOf(S))
    BY FS_StrictSubsetOrderingWellFounded
  <2>2. FiniteSubsetsOf(S) = SUBSET S
    BY FS_FiniteSubsetsOfFinite
  <2> QED BY <2>1, <2>2
<1>2. Bad \subseteq SUBSET S /\ Bad # {}
  OBVIOUS
<1>8. \E s \in Bad : \A t \in Bad : ~(<<t, s>> \in R)
  <2> HIDE DEF Bad, R
  <2> QED BY <1>1, <1>2, WFMin
<1>3. PICK s \in Bad : \A t \in Bad : ~(<<t, s>> \in R)
  BY <1>8
<1>4. s # {}
  BY <1>3
<1>5. s \ {Pick(s)} # s /\ s \ {Pick(s)} \in SUBSET S
  BY <1>4 DEF Pick
<1>6. <<s \ {Pick(s)}, s>> \in R
  BY <1>5 DEF StrictSubsetOrdering
<1>7. s \ {Pick(s)} \in G
  BY <1>3, <1>5, <1>6
<1> QED BY <1>3, <1>4, <1>7

\* Totals that agree with their equation up to one size can be had up to the next.
LEMMA TotalsExist ==
    ASSUME NEW S, IsFiniteSet(S), NEW f \in [S -> Nat]
    PROVE  \E g : g = Totals(f, S, g)
<1> DEFINE Solves(g, n) == \A s \in SUBSET S : Cardinality(s) <= n => g[s] = Totals(f, S, g)[s]
           F == [SUBSET S -> Nat]
           Upto == {n \in Nat : \E g \in F : Solves(g, n)}
           Bad == {n \in Nat : n \notin Upto}
<1>0. \A s \in SUBSET S : /\ IsFiniteSet(s) /\ Cardinality(s) \in Nat
                          /\ Cardinality(s) = 0 <=> s = {}
                          /\ s # {} => /\ s \ {Pick(s)} \in SUBSET S /\ Pick(s) \in S
                                       /\ Cardinality(s \ {Pick(s)}) = Cardinality(s) - 1
  <2> SUFFICES ASSUME NEW s \in SUBSET S
               PROVE  /\ IsFiniteSet(s) /\ Cardinality(s) \in Nat
                      /\ Cardinality(s) = 0 <=> s = {}
                      /\ s # {} => /\ s \ {Pick(s)} \in SUBSET S /\ Pick(s) \in S
                                   /\ Cardinality(s \ {Pick(s)}) = Cardinality(s) - 1
    OBVIOUS
  <2>1. IsFiniteSet(s)
    BY FS_Subset
  <2>2. s # {} => Pick(s) \in s
    BY DEF Pick
  <2> QED BY <2>1, <2>2, FS_CardinalityType, FS_EmptySet, FS_RemoveElement
<1>1. \A g \in F : Totals(f, S, g) \in F
  <2> SUFFICES ASSUME NEW g \in F PROVE Totals(f, S, g) \in F
    OBVIOUS
  <2>1. \A s \in SUBSET S : (IF s = {} THEN 0 ELSE f[Pick(s)] + g[s \ {Pick(s)}]) \in Nat
    <3>1. \A s \in SUBSET S : s # {} => Pick(s) \in S /\ s \ {Pick(s)} \in SUBSET S
      BY DEF Pick
    <3>2. \A x \in S, s \in SUBSET S : f[x] + g[s] \in Nat
      OBVIOUS
    <3> QED BY <3>1, <3>2
  <2> QED BY <2>1 DEF Totals
<1>2. 0 \in Upto
  <2> DEFINE g == [s \in SUBSET S |-> 0]
  <2>1. g \in F
    OBVIOUS
  <2>2. ASSUME NEW s \in SUBSET S, Cardinality(s) <= 0 PROVE g[s] = Totals(f, S, g)[s]
    <3>1. s = {}
      <4>1. IsFiniteSet(s)
        BY FS_Subset
      <4>2. Cardinality(s) \in Nat
        BY <4>1, FS_CardinalityType
      <4> QED BY <2>2, <4>1, <4>2, FS_EmptySet
    <3> QED BY <3>1 DEF Totals
  <2> QED BY <2>1, <2>2
<1>3. ASSUME NEW n \in Upto PROVE n + 1 \in Upto
  <2>1. PICK g \in F : Solves(g, n)
    OBVIOUS
  <2> DEFINE h == Totals(f, S, g)
  <2>2. h \in F
    BY <1>1
  <2>3. ASSUME NEW s \in SUBSET S, Cardinality(s) <= n + 1 PROVE h[s] = Totals(f, S, h)[s]
    <3>1. CASE s = {}
      BY <3>1 DEF Totals
    <3>2. CASE s # {}
      <4> DEFINE t == s \ {Pick(s)}
      <4>1. t \in SUBSET S /\ Cardinality(t) <= n
        BY <1>0, <2>3, <3>2
      <4>2. g[t] = h[t]
        BY <2>1, <4>1
      <4>3. h[s] = f[Pick(s)] + g[t] /\ Totals(f, S, h)[s] = f[Pick(s)] + h[t]
        BY <3>2 DEF Totals
      <4> QED BY <4>2, <4>3
    <3> QED BY <3>1, <3>2
  <2>4. Solves(h, n + 1)
    BY <2>3
  <2> HIDE DEF h
  <2> QED BY <2>2, <2>4
<1>4. Bad = {}
  <2> SUFFICES ASSUME Bad # {} PROVE FALSE
    OBVIOUS
  <2>1. PICK k \in Bad : \A j \in Bad : <<j, k>> \notin OpToRel(<, Nat)
    BY NatLessThanWellFounded, WFMin
  <2>2. k \in Nat /\ k # 0
    BY <1>2
  <2>3. k - 1 \in Nat /\ <<k - 1, k>> \in OpToRel(<, Nat)
    BY <2>2 DEF OpToRel
  <2>4. k - 1 \in Upto
    BY <2>1, <2>3
  <2> HIDE DEF Upto
  <2>5. (k - 1) + 1 \in Upto
    BY <1>3, <2>4
  <2> QED BY <2>2, <2>5
<1>5. Cardinality(S) \in Upto
  BY <1>0, <1>4
<1>6. PICK g \in F : Solves(g, Cardinality(S))
  BY <1>5
<1>7. \A s \in SUBSET S : Cardinality(s) <= Cardinality(S)
  BY FS_Subset
<1>8. g = Totals(f, S, g)
  <2>1. \A s \in SUBSET S : g[s] = Totals(f, S, g)[s]
    BY <1>6, <1>7
  <2>2. Totals(f, S, g) \in F
    BY <1>1
  <2> HIDE DEF Solves, Upto, Bad
  <2> QED BY <2>1, <2>2
<1> QED BY <1>8

LEMMA TotalIs ==
    ASSUME NEW S, IsFiniteSet(S), NEW f \in [S -> Nat]
    PROVE  /\ Total(f, S)[{}] = 0
           /\ \A s \in SUBSET S : /\ Total(f, S)[s] \in Nat
                                  /\ s # {} => Total(f, S)[s] = f[Pick(s)] + Total(f, S)[s \ {Pick(s)}]
<1> DEFINE g == Total(f, S)
           G == {s \in SUBSET S : g[s] \in Nat}
<1>1. g = Totals(f, S, g)
  BY TotalsExist DEF Total
<1> HIDE DEF g
<1>2. g[{}] = 0
  BY <1>1 DEF Totals
<1>3. \A s \in SUBSET S : s # {} => g[s] = f[Pick(s)] + g[s \ {Pick(s)}]
  BY <1>1 DEF Totals
<1>4. \A s \in SUBSET S : s # {} => Pick(s) \in S
  BY DEF Pick
<1>5. {} \in G
  BY <1>2
<1>6. \A s \in SUBSET S : s # {} /\ s \ {Pick(s)} \in G => s \in G
  BY <1>3, <1>4
<1>7. \A s \in SUBSET S : s \in G
  BY <1>5, <1>6, PickingUp
<1>8. \A s \in SUBSET S : g[s] \in Nat
  BY <1>7
<1> QED BY <1>2, <1>3, <1>8 DEF g

\* Nothing booked is nothing committed; a fee that is booked is added.
LEMMA TotalOfZero ==
    ASSUME NEW S, IsFiniteSet(S)
    PROVE  Total(Zero(S), S)[S] = 0
<1> DEFINE g == Total(Zero(S), S)
           G == {s \in SUBSET S : g[s] = 0}
<1>1. Zero(S) \in [S -> Nat] /\ \A x \in S : Zero(S)[x] = 0
  BY DEF Zero
<1>2. /\ g[{}] = 0
      /\ \A s \in SUBSET S : s # {} => g[s] = Zero(S)[Pick(s)] + g[s \ {Pick(s)}]
  BY <1>1, TotalIs
<1>3. \A s \in SUBSET S : s # {} => Pick(s) \in S
  BY DEF Pick
<1> HIDE DEF g
<1>4. {} \in G /\ \A s \in SUBSET S : s # {} /\ s \ {Pick(s)} \in G => s \in G
  BY <1>1, <1>2, <1>3
<1>5. \A s \in SUBSET S : s \in G
  BY <1>4, PickingUp
<1> QED BY <1>5 DEF g

LEMMA TotalOfMore ==
    ASSUME NEW S, IsFiniteSet(S), NEW f \in [S -> Nat], NEW m \in S, NEW n \in Nat,
           NEW more, more = [f EXCEPT ![m] = @ + n]
    PROVE  Total(more, S)[S] = Total(f, S)[S] + n
<1> DEFINE g == Total(f, S)
           h == Total(more, S)
           G == {s \in SUBSET S : h[s] = IF m \in s THEN g[s] + n ELSE g[s]}
<1>1. more \in [S -> Nat] /\ more[m] = f[m] + n /\ \A x \in S \ {m} : more[x] = f[x]
  OBVIOUS
<1>2. /\ g[{}] = 0
      /\ \A s \in SUBSET S : g[s] \in Nat /\ (s # {} => g[s] = f[Pick(s)] + g[s \ {Pick(s)}])
  BY TotalIs
<1>3. /\ h[{}] = 0
      /\ \A s \in SUBSET S : h[s] \in Nat /\ (s # {} => h[s] = more[Pick(s)] + h[s \ {Pick(s)}])
  BY <1>1, TotalIs
<1> HIDE DEF g, h
<1>4. {} \in G
  BY <1>2, <1>3
<1>5. ASSUME NEW s \in SUBSET S, s # {}, s \ {Pick(s)} \in G PROVE s \in G
  <2> DEFINE p == Pick(s)
             t == s \ {p}
  <2>1. p \in s /\ f[p] \in Nat /\ t \in SUBSET S
    BY <1>5 DEF Pick
  <2>2. /\ g[s] = f[p] + g[t] /\ h[s] = more[p] + h[t]
        /\ g[t] \in Nat /\ h[t] = IF m \in t THEN g[t] + n ELSE g[t]
    BY <1>2, <1>3, <1>5, <2>1
  <2> HIDE DEF p
  <2>3. CASE p = m
    BY <1>1, <2>1, <2>2, <2>3
  <2>4. CASE p # m
    BY <1>1, <2>1, <2>2, <2>4
  <2> QED BY <2>3, <2>4
<1>6. \A s \in SUBSET S : s \in G
  <2>1. \A s \in SUBSET S : s # {} /\ s \ {Pick(s)} \in G => s \in G
    BY <1>5
  <2> HIDE DEF G
  <2> QED BY <1>4, <2>1, PickingUp
<1>7. h[S] = g[S] + n
  BY <1>6
<1> QED BY <1>7 DEF g, h

LEMMA BudgetInit == Init => Committed <= Budget
<1> SUFFICES ASSUME Init PROVE Committed <= Budget
  OBVIOUS
<1>1. booked = Zero(Mails) /\ DOMAIN booked = Mails
  BY DEF Init, Zero
<1>2. Committed = 0
  BY <1>1, CommittedIs, TotalOfZero, ParamAssumption
<1> QED BY <1>2, ParamAssumption

LEMMA BudgetStep ==
    ASSUME Typed, Committed <= Budget, [Next]_vars
    PROVE  Committed' <= Budget
<1>0. booked \in [Mails -> Nat] /\ IsFiniteSet(Mails)
  BY ParamAssumption DEF Typed, RowsTyped
<1>1. CASE UNCHANGED booked
  BY <1>1, CommittedIs
<1>2. CASE React /\ ReactPay /\ ~UNCHANGED booked
  <2>1. PICK n \in Amounts : Fits(n) /\ booked' = [booked EXCEPT ![at["inbound"].msg.ref] = @ + n]
    BY <1>2 DEF ReactPay, ReactGiveUp
  <2>2. at["inbound"].msg.ref \in Mails
    BY <1>2, InboundIs DEF React, At
  <2>3. n \in Nat
    BY ParamAssumption
  <2>4. DOMAIN booked = Mails /\ DOMAIN booked' = Mails
    BY <1>0, <2>1
  <2>5. Committed' = Committed + n
    <3> DEFINE m == at["inbound"].msg.ref
    <3>1. booked' = [booked EXCEPT ![m] = @ + n] /\ m \in Mails
      BY <2>1, <2>2
    <3> HIDE DEF m
    <3>2. Total(booked', Mails)[Mails] = Total(booked, Mails)[Mails] + n
      BY <1>0, <2>3, <3>1, TotalOfMore
    <3> QED BY <2>4, <3>2, CommittedIs
  <2> QED BY <2>1, <2>5 DEF Fits
<1> QED BY <1>1, <1>2, BookedChange

-----------------------------------------------------------------------------
(* The theorems.                                                           *)

\* The inductive invariant: the types, and what each actor knows of the thread it is about to write.
IInv == Typed /\ Nudged /\ Answering /\ Requested /\ Parking /\ AgreementsBooked /\ Committed <= Budget

LEMMA InitIInv == Init => IInv
<1> SUFFICES ASSUME Init PROVE IInv
  OBVIOUS
<1>1. Typed /\ Committed <= Budget
  BY InitTyped, BudgetInit
<1>2. \A a \in Actors : at[a].pc = "idle"
  BY DEF Init, Idle
<1>3. \A m \in msgs : m.kind = "seeded"
  BY DEF Init
<1>4. \A t \in Threads : /\ thread[t].status = "none" /\ thread[t].followups = 0
                         /\ requests[t] = 0 /\ approved[t] = 0
  BY DEF Init, Zero, NoRow
<1>5. \A m \in Mails : replies[m] = 0
  BY DEF Init, Zero
<1>6. Nudged
  BY <1>2, <1>3, <1>4, ParamAssumption DEF Nudged, FollowupsBounded, Actors, Consumers, Senders
<1>7. Answering
  BY <1>2, <1>5 DEF Answering, RepliesOnce, Sending, Actors, Consumers, Senders
<1>8. Requested
  BY <1>2, <1>4 DEF Requested, RequestsBounded, Requesting, Actors, Consumers, Senders
<1>9. Parking
  BY <1>2, <1>4 DEF Parking, ParkedIsEscalated
<1>10. AgreementsBooked
  BY <1>2, <1>3 DEF AgreementsBooked, Actors, Consumers, Senders
<1> QED BY <1>1, <1>6, <1>7, <1>8, <1>9, <1>10 DEF IInv

LEMMA Inductive == Spec => []IInv
<1>1. IInv /\ [Next]_vars => IInv'
  BY TypedStep, NudgedStep, AnsweringStep, RequestedStep, ParkingStep, AgreementsStep, BudgetStep,
     ParamAssumption DEF IInv
<1> QED BY InitIInv, <1>1, PTL DEF Spec

\* No thread has more than max_followups nudges on record: a follow-up job names the counter it was sent
\* at, so of a job and its duplicates the first to be recorded makes the others late.
THEOREM FollowupsAreBounded == Spec => []FollowupsBounded
<1>1. IInv => FollowupsBounded
  BY DEF IInv, Nudged
<1> QED BY <1>1, Inductive, PTL

\* No inbound mail has two answers on record: the one thread that sends looks for the answer first, and
\* nobody else records one.
THEOREM RepliesAreOnce == Spec => []RepliesOnce
<1>1. IInv => RepliesOnce
  BY DEF IInv, Answering
<1> QED BY <1>1, Inductive, PTL

\* An office gets one recorded request, and one more for each approval: an approval comes with the
\* status that is taken back by the request it allows.
THEOREM RequestsAreBounded == Spec => []RequestsBounded
<1>1. IInv => RequestsBounded
  BY DEF IInv, Requested
<1> QED BY <1>1, Inductive, PTL

\* A parked thread has an escalation, open or resolved: whoever parks it told the operator before.
THEOREM ParkedAreEscalated == Spec => []ParkedIsEscalated
<1>1. IInv => ParkedIsEscalated
  BY DEF IInv, Parking
<1> QED BY <1>1, Inductive, PTL

\* The ledger never exceeds the budget, and it carries every agreement that is on its way.
THEOREM FeesAreCovered == Spec => []FeesCovered
<1>1. IInv => FeesCovered
  BY DEF IInv, AgreementsBooked, FeesCovered
<1> QED BY <1>1, Inductive, PTL
===============================================================================
