---------------------------- MODULE OutreachProofs ----------------------------
(***************************************************************************)
(* Theorems about Outreach, for every number of campaigns, offices, days,  *)
(* receives, faults, replies and acts of the operator.                     *)
(***************************************************************************)
EXTENDS Outreach, FiniteSetTheorems, TLAPS

-----------------------------------------------------------------------------
(* The inductive invariant.                                                *)

Statuses == {"sent", "pending", "parked", "referred"}
Requests == [camp : Campaigns, office : Offices, bypass : BOOLEAN, day : 0 .. MaxDay, logged : BOOLEAN]
Senders  == [pc : {"idle", "gate", "refuse", "send", "record", "delete"}, msg : SUBSET Messages,
             now : 0 .. MaxDay]
Digests  == [pc : {"idle", "mail", "escalations", "fees"}, camp : SUBSET Campaigns, rows : SUBSET Nat]

Days == 0 .. MaxDay

\* Rows and logs are functions and sequences of their types; a busy thread has one message.
CampaignsTyped == /\ day \in Days /\ faults \in Nat
                  /\ active \subseteq camps /\ camps \subseteq Campaigns
                  /\ last \in [Offices -> 0 .. MaxDay + 1]
                  /\ posted \in [Campaigns -> [Days -> Nat]]
ThreadsTyped   == /\ threads \in [DOMAIN threads -> Statuses]
                  /\ \A k \in DOMAIN threads : k \in Threads /\ k.camp \in camps
QueueTyped     == /\ queue \in [DOMAIN queue -> 0 .. MaxReceive]
                  /\ DOMAIN queue \subseteq asked /\ dead \subseteq asked /\ asked \subseteq Messages
SenderTyped    == /\ sender \in Senders /\ sender.msg \subseteq DOMAIN queue
                  /\ IF sender.pc = "idle" THEN sender.msg = {} ELSE \E m \in Messages : sender.msg = {m}
DrainTyped     == drain \subseteq dead /\ (drain = {} \/ \E m \in Messages : drain = {m})
AlertsTyped    == /\ alerts \in [DOMAIN alerts -> Rows]
                  /\ shown \in Seq(Nat) /\ DOMAIN alerts \subseteq DOMAIN shown
                  /\ \A a \in DOMAIN alerts : alerts[a].camp \in camps
LogTyped       == requests \in Seq(Requests)
DigestTyped    == digest \in Digests

Typed == /\ CampaignsTyped /\ ThreadsTyped /\ QueueTyped /\ SenderTyped
         /\ DrainTyped /\ AlertsTyped /\ LogTyped /\ DigestTyped

\* A message that is about to be deleted has its thread or its escalation.
Settled(m)  == ThreadOf(m) \in DOMAIN threads \/ \E a \in DOMAIN alerts : m \in alerts[a].about
Running(m)  == m.camp \in camps \ stopped
Disposed ==
    /\ camps \ stopped \subseteq active
    /\ \A a \in DOMAIN alerts : \A m \in alerts[a].about : m.camp = alerts[a].camp
    /\ \A m \in sender.msg \cup drain :
          (sender.pc = "delete" \/ m \in drain) /\ Running(m) => Settled(m)

\* The clock of an office is not behind a recorded request, and nothing is drafted before it allows.
Clocked ==
    /\ \A o \in Offices : last[o] <= day + 1
    /\ \A i \in DOMAIN requests :
          requests[i].logged /\ requests[i].camp \notin Tests => requests[i].day < last[requests[i].office]
    /\ sender.pc \in {"refuse", "send", "record"} => \A m \in sender.msg :
          /\ sender.now <= day /\ last[m.office] <= sender.now + 1
          /\ sender.pc = "send" /\ ~m.bypass =>
                last[m.office] = 0 \/ last[m.office] + Cooldown <= sender.now + 1
          /\ sender.pc = "record" =>
                /\ requests # <<>>
                /\ requests[Len(requests)].camp = m.camp /\ requests[Len(requests)].office = m.office
                /\ requests[Len(requests)].day = sender.now

\* Rows a digest may still carry have been in no more digests than failed; those of the digest that
\* is out have been in it.
Carrying == digest.pc \in {"escalations", "fees"}
Alerted ==
    /\ \A a \in digest.rows : a \in DOMAIN shown
    /\ \A a \in DOMAIN shown : shown[a] <= 1 + faults
    /\ \A a \in DOMAIN alerts : IF alerts[a].notified THEN shown[a] > 0
                                ELSE shown[a] <= faults \/ (Carrying /\ a \in digest.rows)
    /\ digest.pc = "mail" => \A a \in digest.rows : shown[a] <= faults
    /\ Carrying => \A a \in digest.rows : shown[a] > 0
    /\ digest.pc = "fees" => \A a \in digest.rows \cap DOMAIN alerts :
                                alerts[a].notified \/ alerts[a].kind = "fee"

\* The requests of a campaign on a day, with their record and without.
Mails(c, d)  == {i \in DOMAIN requests : requests[i].camp = c /\ requests[i].day = d}
Logged(c, d) == {i \in Mails(c, d) : requests[i].logged}
Loose(c, d)  == {i \in Mails(c, d) : ~requests[i].logged}

\* One request may lack its record while it is being recorded, or because its campaign was killed
\* before; every other one had a fault.
At(pc, c, d) == sender.pc = pc /\ sender.now = d /\ \E m \in sender.msg : m.camp = c
Owed(c, d) == IF c \in camps THEN IF At("record", c, d) THEN 1 ELSE 0
                             ELSE IF At("send", c, d) THEN 0 ELSE 1
CappedOn(c, d) ==
    /\ Cardinality(Logged(c, d)) <= Cap
    /\ At("send", c, d) \/ At("record", c, d) => Cardinality(Logged(c, d)) < Cap
    /\ c \in camps => Cardinality(Logged(c, d)) <= posted[c][d]
    /\ Cardinality(Loose(c, d)) <= faults + Owed(c, d)
Recording ==
    sender.pc = "record" => \A m \in sender.msg :
        /\ requests # <<>> /\ ~requests[Len(requests)].logged
        /\ requests[Len(requests)].camp = m.camp /\ requests[Len(requests)].day = sender.now
Capped == Recording /\ \A c \in Campaigns, d \in Days : CappedOn(c, d)

-----------------------------------------------------------------------------
(* Types.                                                                  *)

LEMMA HeldIs == ASSUME NEW m, sender.msg = {m} PROVE Held = m
BY DEF Held

LEMMA CampaignsChange ==
    ASSUME [Next]_vars
    PROVE  \/ UNCHANGED <<day, faults, active, camps, last, posted>>
           \/ Record \/ DigestBounces \/ Writes \/ SetActive \/ Kill \/ NextDay \/ Fails \/ Crash
BY DEF Receive, Gate, Refuse, Deliver, Delete, DeadLetter, DrainTake, DrainDelete, DigestReads,
       DigestMail, MarkEscalations, MarkFees, Escalates, Books, Refers, Resolve, Approve, Happens,
       Order, Fault, Send, DrainStep, Tell, store, record, bounds, vars, Next

LEMMA ThreadsChange ==
    ASSUME [Next]_vars
    PROVE  \/ UNCHANGED <<threads, camps>>
           \/ Refuse \/ Record \/ Escalates \/ Refers \/ Approve \/ Kill
BY DEF Receive, Gate, Deliver, Delete, DeadLetter, DrainTake, DrainDelete, DigestReads, DigestMail,
       MarkEscalations, MarkFees, DigestBounces, Writes, Books, SetActive, Resolve, NextDay, Fails,
       Crash, Happens, Order, Fault, Send, DrainStep, Tell, store, record, bounds, vars, Next

LEMMA QueueChange ==
    ASSUME [Next]_vars
    PROVE  \/ UNCHANGED <<queue, dead, asked>>
           \/ Receive \/ Delete \/ DeadLetter \/ DrainDelete \/ Refers \/ Approve
BY DEF Gate, Refuse, Deliver, Record, DrainTake, DigestReads, DigestMail, MarkEscalations, MarkFees,
       DigestBounces, Writes, Escalates, Books, SetActive, Resolve, Kill, NextDay, Fails, Crash,
       Happens, Order, Fault, Send, DrainStep, Tell, store, record, bounds, vars, Next

LEMMA SenderChange ==
    ASSUME [Next]_vars
    PROVE  \/ UNCHANGED <<sender, queue>>
           \/ Receive \/ Gate \/ Refuse \/ Deliver \/ Record \/ Delete 
           \/ DeadLetter \/ Refers \/ Approve \/ Fails \/ Crash
BY DEF DrainTake, DrainDelete, DigestReads, DigestMail, MarkEscalations, MarkFees, DigestBounces,
       Writes, Escalates, Books, SetActive, Resolve, Kill, NextDay, Happens, Order, Fault, Send,
       DrainStep, Tell, store, record, bounds, vars, Next

LEMMA DrainChange ==
    ASSUME [Next]_vars
    PROVE  UNCHANGED <<drain, dead>> \/ DeadLetter \/ DrainTake \/ DrainDelete \/ Fails \/ Crash
BY DEF Receive, Gate, Refuse, Deliver, Record, Delete, DigestReads, DigestMail, MarkEscalations,
       MarkFees, DigestBounces, Writes, Escalates, Books, Refers, SetActive, Resolve, Approve, Kill,
       NextDay, Happens, Order, Fault, Send, DrainStep, Tell, store, record, bounds, vars, Next

LEMMA AlertsChange ==
    ASSUME [Next]_vars
    PROVE  \/ UNCHANGED <<alerts, shown, camps>>
           \/ Refuse \/ DrainTake \/ DigestMail \/ MarkEscalations \/ MarkFees
           \/ Escalates \/ Books \/ Resolve \/ Approve \/ Kill
BY DEF Receive, Gate, Deliver, Record, Delete, DeadLetter, DrainDelete, DigestReads, DigestBounces,
       Writes, Refers, SetActive, NextDay, Fails, Crash, Happens, Order, Fault, Send, DrainStep,
       Tell, store, record, bounds, vars, Next

LEMMA LogChange ==
    ASSUME [Next]_vars
    PROVE  UNCHANGED <<requests>> \/ Deliver \/ Record
BY DEF Receive, Gate, Refuse, Delete, DeadLetter, DrainTake, DrainDelete, DigestReads, DigestMail,
       MarkEscalations, MarkFees, DigestBounces, Writes, Escalates, Books, Refers, SetActive,
       Resolve, Approve, Kill, NextDay, Fails, Crash, Happens, Order, Fault, Send, DrainStep, Tell,
       store, record, bounds, vars, Next

LEMMA DigestChange ==
    ASSUME [Next]_vars
    PROVE  \/ UNCHANGED <<digest>>
           \/ DigestReads \/ DigestMail \/ DigestBounces \/ MarkEscalations \/ MarkFees \/ Fails \/ Crash
BY DEF Receive, Gate, Refuse, Deliver, Record, Delete, DeadLetter, DrainTake, DrainDelete, Writes,
       Escalates, Books, Refers, SetActive, Resolve, Approve, Kill, NextDay, Happens, Order, Fault,
       Send, DrainStep, Tell, store, record, bounds, vars, Next

LEMMA CampaignsStep ==
    ASSUME Typed, [Next]_vars
    PROVE  CampaignsTyped'
<1> USE OutreachAssumption DEF CampaignsTyped
<1>1. CampaignsTyped /\ sender \in Senders /\ (sender.pc # "idle" => \E m \in Messages : sender.msg = {m})
  BY DEF Typed, SenderTyped
<1>2. CASE Record
  <2>1. PICK m \in Messages : sender.msg = {m}
    BY <1>1, <1>2 DEF Record
  <2>2. Held.camp \in Campaigns /\ Held.office \in Offices /\ sender.now \in Days
    BY <1>1, <2>1, HeldIs DEF Messages, Senders, Days
  <2>3. /\ UNCHANGED <<day, camps, active, faults>>
        /\ posted' = posted \/ posted' = [posted EXCEPT ![Held.camp][sender.now] = @ + 1]
        /\ last' = last \/ last' = [last EXCEPT ![Held.office] = sender.now + 1]
    BY <1>2 DEF Record, bounds
  <2>4. sender.now + 1 \in 0 .. MaxDay + 1
    BY <2>2 DEF Days
  <2> QED BY <1>1, <2>2, <2>3, <2>4
<1>3. CASE Writes
  <2>1. PICK k \in SentThreads : posted' = [posted EXCEPT ![k.camp][day] = @ + 1]
    BY <1>3 DEF Writes
  <2>2. UNCHANGED <<day, camps, active, last, faults>>
    BY <1>3 DEF Writes, Happens
  <2>3. k.camp \in Campaigns
    BY <2>1 DEF Typed, ThreadsTyped, SentThreads, Threads
  <2> QED BY <1>1, <2>1, <2>2, <2>3 DEF Days
<1>4. CASE Kill
  <2>1. PICK c \in camps : /\ camps' = camps \ {c} /\ active' = active \ {c}
                           /\ posted' = [posted EXCEPT ![c] = [d \in Days |-> 0]]
    BY <1>4 DEF Kill, Days
  <2>2. UNCHANGED <<day, last, faults>>
    BY <1>4 DEF Kill, Order
  <2>3. [d \in Days |-> 0] \in [Days -> Nat]
    OBVIOUS
  <2> QED BY <1>1, <2>1, <2>2, <2>3
<1>5. CASE SetActive
  BY <1>1, <1>5 DEF SetActive, Order
<1>6. CASE NextDay
  BY <1>1, <1>6 DEF NextDay, Days, store, bounds
<1>7. CASE DigestBounces \/ Fails \/ Crash
  BY <1>1, <1>7 DEF DigestBounces, Fails, Crash, Fault, store
<1>8. CASE UNCHANGED <<day, faults, active, camps, last, posted>>
  BY <1>1, <1>8
<1> QED BY <1>2, <1>3, <1>4, <1>5, <1>6, <1>7, <1>8, CampaignsChange

LEMMA ThreadsStep ==
    ASSUME Typed, [Next]_vars
    PROVE  ThreadsTyped'
<1> USE DEF ThreadsTyped
<1>1. /\ ThreadsTyped /\ (sender.pc # "idle" => \E m \in Messages : sender.msg = {m})
      /\ \A a \in DOMAIN alerts : alerts[a].thread \subseteq Threads /\ alerts[a].camp \in camps
  BY DEF Typed, SenderTyped, AlertsTyped, Rows
<1>2. CASE Refuse
  BY <1>1, <1>2 DEF Refuse, Statuses
<1>3. CASE Record
  <2>1. PICK m \in Messages : sender.msg = {m}
    BY <1>1, <1>3 DEF Record
  <2>2. ThreadOf(Held) \in Threads /\ ThreadOf(Held).camp = Held.camp
    BY <2>1, HeldIs DEF Messages, Threads, ThreadOf
  <2>3. UNCHANGED camps
    BY <1>3 DEF Record
  <2>4. UNCHANGED threads \/ (Held.camp \in camps /\ threads' = With(threads, ThreadOf(Held), "sent"))
    BY <1>3 DEF Record, Recordable
  <2> QED BY <1>1, <2>2, <2>3, <2>4 DEF With, Statuses
<1>4. CASE Escalates
  BY <1>1, <1>4 DEF Escalates, Happens, Statuses
<1>5. CASE Refers
  BY <1>1, <1>5 DEF Refers, Happens, Statuses
<1>6. CASE Approve
  <2>1. PICK a \in DOMAIN alerts : \E k \in alerts[a].thread : threads' = [threads EXCEPT ![k] = "pending"]
    BY <1>6 DEF Approve
  <2>2. UNCHANGED camps
    BY <1>6 DEF Approve
  <2> QED BY <1>1, <2>1, <2>2 DEF Statuses
<1>7. CASE Kill
  <2>1. PICK c \in camps : /\ camps' = camps \ {c}
                           /\ threads' = [k \in {j \in DOMAIN threads : j.camp # c} |-> threads[k]]
    BY <1>7 DEF Kill
  <2> QED BY <1>1, <2>1
<1>8. CASE UNCHANGED <<threads, camps>>
  BY <1>1, <1>8
<1> QED BY <1>2, <1>3, <1>4, <1>5, <1>6, <1>7, <1>8, ThreadsChange

LEMMA QueueStep ==
    ASSUME Typed, [Next]_vars
    PROVE  QueueTyped'
<1> USE OutreachAssumption DEF QueueTyped
<1>1. /\ QueueTyped /\ drain \subseteq dead
      /\ \A k \in DOMAIN threads : k \in Threads
      /\ \A a \in DOMAIN alerts : alerts[a].thread \subseteq Threads
  BY DEF Typed, ThreadsTyped, DrainTyped, AlertsTyped, Rows
<1>2. \A k \in Threads : /\ Contact(k, TRUE) \in Messages
                         /\ Contact([k EXCEPT !.to = "referral"], TRUE) \in Messages
  BY DEF Contact, Threads, Messages
<1>3. CASE Receive
  BY <1>1, <1>3 DEF Receive, Deliverable, record
<1>4. CASE Delete
  BY <1>1, <1>4 DEF Delete, Without, record
<1>5. CASE DeadLetter
  BY <1>1, <1>5 DEF DeadLetter, Without, record
<1>6. CASE DrainDelete
  BY <1>1, <1>6 DEF DrainDelete, record
<1>7. CASE Refers
  <2>1. PICK k \in Threads : LET m == Contact([k EXCEPT !.to = "referral"], TRUE)
                             IN  queue' = With(queue, m, 0) /\ asked' = asked \cup {m}
    BY <1>1, <1>7 DEF Refers, SentThreads
  <2>2. UNCHANGED dead
    BY <1>7 DEF Refers, Happens
  <2> HIDE DEF QueueTyped
  <2> DEFINE m == Contact([k EXCEPT !.to = "referral"], TRUE)
  <2>3. m \in Messages /\ queue' = With(queue, m, 0) /\ asked' = asked \cup {m}
    BY <1>2, <2>1
  <2> HIDE DEF m
  <2> QED BY <1>1, <2>2, <2>3 DEF With, QueueTyped
<1>8. CASE Approve
  <2>1. PICK k \in Threads : /\ queue' = With(queue, Contact(k, TRUE), 0)
                            /\ asked' = asked \cup {Contact(k, TRUE)}
    BY <1>1, <1>8 DEF Approve
  <2>2. UNCHANGED dead
    BY <1>8 DEF Approve, Order
  <2> DEFINE m == Contact(k, TRUE)
  <2>3. m \in Messages /\ queue' = With(queue, m, 0) /\ asked' = asked \cup {m}
    BY <1>2, <2>1
  <2> HIDE DEF m
  <2> QED BY <1>1, <2>2, <2>3 DEF With
<1>9. CASE UNCHANGED <<queue, dead, asked>>
  BY <1>1, <1>9
<1> QED BY <1>3, <1>4, <1>5, <1>6, <1>7, <1>8, <1>9, QueueChange

LEMMA SenderStep ==
    ASSUME Typed, [Next]_vars
    PROVE  SenderTyped'
<1> USE OutreachAssumption DEF SenderTyped
<1>1. SenderTyped /\ QueueTyped /\ day \in Days
  BY DEF Typed, CampaignsTyped
<1>2. sender.msg \subseteq Messages /\ sender.now \in Days /\ 0 \in Days
  BY <1>1 DEF Senders, Days
<1>3. Idle \in Senders /\ Idle.pc = "idle" /\ Idle.msg = {}
  BY <1>2 DEF Idle, Senders, Days
<1>4. CASE sender' = Idle
  BY <1>3, <1>4
<1>5. CASE Receive
  <2>1. PICK m \in DOMAIN queue : /\ queue' = [queue EXCEPT ![m] = @ + 1]
                                 /\ sender' = [pc |-> "gate", msg |-> {m}, now |-> 0]
    BY <1>5 DEF Receive
  <2>2. m \in Messages /\ DOMAIN queue' = DOMAIN queue
    BY <1>1, <2>1 DEF QueueTyped
  <2> QED BY <1>2, <2>1, <2>2 DEF Senders, Days
<1>6. CASE Gate /\ sender' # Idle
  <2>1. /\ sender.pc = "gate" /\ UNCHANGED queue
        /\ sender' = [sender EXCEPT !.pc = Ruling(Held), !.now = day]
        /\ Ruling(Held) \in {"delete", "refuse", "send"}
    BY <1>6 DEF Gate, Ruling
  <2> QED BY <1>1, <2>1 DEF Senders, Days
<1>7. CASE (Refuse \/ Deliver \/ Record) /\ sender' # Idle
  <2>1. PICK pc \in {"delete", "record"} :
          sender.pc # "idle" /\ sender' = [sender EXCEPT !.pc = pc] /\ UNCHANGED queue
    BY <1>7 DEF Refuse, Deliver, Record, store
  <2> QED BY <1>1, <2>1 DEF Senders
<1>8. CASE Delete
  BY <1>4, <1>8 DEF Delete
<1>9. CASE DeadLetter
  BY <1>1, <1>9 DEF DeadLetter, Without
<1>10. CASE Refers \/ Approve
  <2>1. UNCHANGED sender /\ \E m : queue' = With(queue, m, 0)
    BY <1>10 DEF Refers, Approve, Happens, Order
  <2> QED BY <1>1, <2>1 DEF With
<1>11. CASE (Fails \/ Crash) /\ sender' # Idle
  BY <1>1, <1>11 DEF Fails, Crash, Fault
<1>12. CASE UNCHANGED <<sender, queue>>
  BY <1>1, <1>12
<1> QED BY <1>4, <1>5, <1>6, <1>7, <1>8, <1>9, <1>10, <1>11, <1>12, SenderChange

LEMMA DrainKept ==
    ASSUME Typed, [Next]_vars
    PROVE  DrainTyped'
<1> USE DEF DrainTyped
<1>1. DrainTyped /\ dead \subseteq Messages
  BY DEF Typed, QueueTyped
<1>2. CASE DeadLetter
  BY <1>1, <1>2 DEF DeadLetter
<1>3. CASE DrainTake
  BY <1>1, <1>3 DEF DrainTake
<1>4. CASE DrainDelete
  BY <1>1, <1>4 DEF DrainDelete
<1>5. CASE Fails \/ Crash
  BY <1>1, <1>5 DEF Fails, Crash, Fault
<1>6. CASE UNCHANGED <<drain, dead>>
  BY <1>1, <1>6
<1> QED BY <1>2, <1>3, <1>4, <1>5, <1>6, DrainChange

\* A new row takes the next id and keeps the others.
LEMMA ToldTyped ==
    ASSUME AlertsTyped, NEW c \in camps, camps \subseteq Campaigns, NEW kind \in {"escalation", "fee"},
           NEW about \in SUBSET Messages, NEW thread \in SUBSET Threads,
           Told(c, kind, about, thread), UNCHANGED camps
    PROVE  AlertsTyped'
<1> DEFINE n == Len(shown) + 1
           r == [camp |-> c, kind |-> kind, about |-> about, thread |-> thread,
                 open |-> TRUE, notified |-> FALSE]
<1>1. r \in Rows /\ r.camp \in camps
  BY DEF Rows
<1>2. alerts' = With(alerts, n, r) /\ shown' = Append(shown, 0)
  BY DEF Told
<1> HIDE DEF n, r
<1>3. /\ shown' \in Seq(Nat) /\ DOMAIN shown' = DOMAIN shown \cup {n}
  BY <1>2 DEF AlertsTyped, n
<1>4. alerts' = [a \in DOMAIN alerts \cup {n} |-> IF a = n THEN r ELSE alerts[a]]
  BY <1>2 DEF With
<1>5. DOMAIN alerts' = DOMAIN alerts \cup {n} /\ DOMAIN alerts' \subseteq DOMAIN shown'
  BY <1>3, <1>4 DEF AlertsTyped
<1>6. \A a \in DOMAIN alerts' : alerts'[a] \in Rows /\ alerts'[a].camp \in camps
  BY <1>1, <1>4, <1>5 DEF AlertsTyped
<1>7. alerts' \in [DOMAIN alerts' -> Rows]
  BY <1>4, <1>5, <1>6
<1> QED BY <1>3, <1>5, <1>6, <1>7 DEF AlertsTyped

\* A row that is closed or marked stays a row of its campaign.
LEMMA RowsKept ==
    ASSUME AlertsTyped, UNCHANGED <<camps, shown>>, alerts' \in [DOMAIN alerts -> Rows],
           \A a \in DOMAIN alerts : alerts'[a].camp = alerts[a].camp
    PROVE  AlertsTyped'
BY DEF AlertsTyped

LEMMA AlertsStep ==
    ASSUME Typed, [Next]_vars
    PROVE  AlertsTyped'
<1>1. /\ AlertsTyped /\ camps \subseteq Campaigns /\ drain \subseteq Messages /\ dead \subseteq Messages
      /\ sender.msg \subseteq Messages /\ (sender.pc # "idle" => \E m \in Messages : sender.msg = {m})
      /\ \A k \in DOMAIN threads : k \in Threads /\ k.camp \in camps
  BY DEF Typed, CampaignsTyped, ThreadsTyped, QueueTyped, SenderTyped, DrainTyped, Senders
<1>2. alerts \in [DOMAIN alerts -> Rows]
  BY <1>1 DEF AlertsTyped
<1>3. CASE Refuse
  <2>1. Held \in Messages /\ {ThreadOf(Held)} \cap DOMAIN threads \in SUBSET Threads /\ UNCHANGED camps
    BY <1>1, <1>3, HeldIs DEF Refuse
  <2>2. CASE Held.camp \in camps
    BY <1>1, <1>3, <2>1, <2>2, ToldTyped DEF Refuse
  <2>3. CASE Held.camp \notin camps
    BY <1>1, <1>3, <2>1, <2>3 DEF Refuse, AlertsTyped
  <2> QED BY <2>2, <2>3
<1>4. CASE DrainTake
  <2>1. PICK m \in dead : m.camp \in camps /\ Told(m.camp, "escalation", {m}, {})
    BY <1>4 DEF DrainTake, Drainable
  <2>2. {m} \in SUBSET Messages /\ {} \in SUBSET Threads /\ UNCHANGED camps
    BY <1>1, <1>4 DEF DrainTake
  <2> QED BY <1>1, <2>1, <2>2, ToldTyped
<1>5. CASE Escalates \/ Books
  <2>1. PICK k \in DOMAIN threads, kind \in {"escalation", "fee"} : Told(k.camp, kind, {}, {k})
    BY <1>5 DEF Escalates, Books, SentThreads
  <2>2. {k} \in SUBSET Threads /\ {} \in SUBSET Messages /\ UNCHANGED camps
    BY <1>1, <1>5 DEF Escalates, Books, Happens
  <2> QED BY <1>1, <2>1, <2>2, ToldTyped
<1>6. CASE DigestMail
  <2>1. /\ shown' = [a \in DOMAIN shown |-> shown[a] + IF a \in digest.rows THEN 1 ELSE 0]
        /\ UNCHANGED <<alerts, camps>>
    BY <1>6 DEF DigestMail, store
  <2>2. shown' \in Seq(Nat) /\ DOMAIN shown' = DOMAIN shown
    <3>1. shown \in Seq(Nat)
      BY <1>1 DEF AlertsTyped
    <3>2. DOMAIN shown = 1 .. Len(shown) /\ Len(shown) \in Nat /\ \A a \in DOMAIN shown : shown[a] \in Nat
      BY <3>1
    <3>3. \A a \in DOMAIN shown : shown[a] + (IF a \in digest.rows THEN 1 ELSE 0) \in Nat
      BY <3>2
    <3>4. shown' \in [1 .. Len(shown) -> Nat] /\ DOMAIN shown' = DOMAIN shown
      BY <2>1, <3>2, <3>3
    <3> QED BY <3>2, <3>4
  <2> QED BY <1>1, <2>1, <2>2 DEF AlertsTyped
<1>7. CASE MarkEscalations \/ MarkFees
  <2>1. PICK ids : alerts' = Marked(ids)
    BY <1>7 DEF MarkEscalations, MarkFees
  <2>2. UNCHANGED <<camps, shown>>
    BY <1>7 DEF MarkEscalations, MarkFees, record
  <2>3. \A r \in Rows : [r EXCEPT !.notified = TRUE] \in Rows /\ [r EXCEPT !.notified = TRUE].camp = r.camp
    BY DEF Rows
  <2>4. alerts' \in [DOMAIN alerts -> Rows] /\ \A a \in DOMAIN alerts : alerts'[a].camp = alerts[a].camp
    BY <1>2, <2>1, <2>3 DEF Marked
  <2> QED BY <1>1, <2>2, <2>4, RowsKept
<1>8. CASE Resolve \/ Approve
  <2>1. PICK a \in DOMAIN alerts : alerts' = [alerts EXCEPT ![a].open = FALSE]
    BY <1>8 DEF Resolve, Approve
  <2>2. UNCHANGED <<camps, shown>>
    BY <1>8 DEF Resolve, Approve, Order
  <2>3. /\ [alerts[a] EXCEPT !.open = FALSE] \in Rows
        /\ [alerts[a] EXCEPT !.open = FALSE].camp = alerts[a].camp
    BY <1>2 DEF Rows
  <2>4. alerts' \in [DOMAIN alerts -> Rows] /\ \A b \in DOMAIN alerts : alerts'[b].camp = alerts[b].camp
    BY <1>2, <2>1, <2>3
  <2> QED BY <1>1, <2>2, <2>4, RowsKept
<1>9. CASE Kill
  <2>1. PICK c \in camps : /\ camps' = camps \ {c}
                           /\ alerts' = [a \in {b \in DOMAIN alerts : alerts[b].camp # c} |-> alerts[a]]
    BY <1>9 DEF Kill
  <2>2. UNCHANGED shown
    BY <1>9 DEF Kill, Order
  <2> QED BY <1>1, <2>1, <2>2 DEF AlertsTyped
<1>10. CASE UNCHANGED <<alerts, shown, camps>>
  BY <1>1, <1>10 DEF AlertsTyped
<1> QED BY <1>3, <1>4, <1>5, <1>6, <1>7, <1>8, <1>9, <1>10, AlertsChange

LEMMA LogStep ==
    ASSUME Typed, [Next]_vars
    PROVE  LogTyped'
<1> USE DEF LogTyped
<1>1. /\ LogTyped /\ sender.now \in Days
      /\ (sender.pc # "idle" => \E m \in Messages : sender.msg = {m})
  BY DEF Typed, SenderTyped, Senders, Days
<1>2. CASE Deliver
  <2> DEFINE r == [camp |-> Held.camp, office |-> Held.office, bypass |-> Held.bypass,
                   day |-> sender.now, logged |-> FALSE]
  <2>1. Held \in Messages
    BY <1>1, <1>2, HeldIs DEF Deliver
  <2>2. r \in Requests
    BY <1>1, <2>1 DEF Requests, Messages, Days
  <2>3. requests' = Append(requests, r)
    BY <1>2 DEF Deliver
  <2> HIDE DEF r
  <2> QED BY <1>1, <2>2, <2>3
<1>3. CASE Record
  <2>1. UNCHANGED requests \/ requests' = [requests EXCEPT ![Len(requests)].logged = TRUE]
    BY <1>3 DEF Record
  <2>2. CASE requests' = [requests EXCEPT ![Len(requests)].logged = TRUE]
    <3>1. \A r \in Requests : [r EXCEPT !.logged = TRUE] \in Requests
      BY DEF Requests
    <3>2. \A i \in DOMAIN requests : requests[i] \in Requests
      BY <1>1
    <3>3. requests \in [1 .. Len(requests) -> Requests] /\ Len(requests) \in Nat
      BY <1>1
    <3>4. \A i \in DOMAIN requests : requests'[i] \in Requests
      BY <2>2, <3>1, <3>2
    <3>5. DOMAIN requests' = DOMAIN requests /\ requests' \in [1 .. Len(requests) -> Requests]
      BY <2>2, <3>3, <3>4
    <3> QED BY <3>3, <3>5
  <2> QED BY <1>1, <2>1, <2>2
<1>4. CASE UNCHANGED requests
  BY <1>1, <1>4
<1> QED BY <1>2, <1>3, <1>4, LogChange

LEMMA DigestStep ==
    ASSUME Typed, [Next]_vars
    PROVE  DigestTyped'
<1> USE DEF DigestTyped
<1>1. /\ DigestTyped /\ camps \subseteq Campaigns /\ DOMAIN alerts \subseteq Nat
  BY DEF Typed, CampaignsTyped, AlertsTyped
<1>2. CASE DigestReads
  BY <1>1, <1>2 DEF DigestReads, Listed, Unnotified, Digests
<1>3. CASE DigestMail
  BY <1>1, <1>3 DEF DigestMail, Digests
<1>4. CASE MarkEscalations
  BY <1>1, <1>4 DEF MarkEscalations, Digests
<1>5. CASE digest' = Asleep
  BY <1>5 DEF Asleep, Digests
<1>6. CASE UNCHANGED digest
  BY <1>1, <1>6
<1>7. DigestBounces \/ MarkFees \/ Fails \/ Crash => digest' = Asleep \/ UNCHANGED digest
  BY DEF DigestBounces, MarkFees, Fails, Crash
<1> QED BY <1>2, <1>3, <1>4, <1>5, <1>6, <1>7, DigestChange

LEMMA TypedStep == ASSUME Typed, [Next]_vars PROVE Typed'
BY CampaignsStep, ThreadsStep, QueueStep, SenderStep, DrainKept, AlertsStep, LogStep, DigestStep DEF Typed

LEMMA InitTyped == Init => Typed
<1> SUFFICES ASSUME Init PROVE Typed
  OBVIOUS
<1> USE OutreachAssumption DEF Init
<1>1. asked \subseteq Messages /\ camps \subseteq Campaigns
  BY DEF Messages
<1>2. CampaignsTyped
  BY <1>1 DEF CampaignsTyped, Days
<1>3. ThreadsTyped /\ QueueTyped /\ DrainTyped
  BY <1>1 DEF ThreadsTyped, QueueTyped, DrainTyped
<1>4. SenderTyped /\ DigestTyped
  BY DEF SenderTyped, Senders, Idle, DigestTyped, Digests, Asleep
<1>5. AlertsTyped /\ LogTyped
  BY DEF AlertsTyped, LogTyped
<1> QED BY <1>2, <1>3, <1>4, <1>5 DEF Typed

LEMMA TypedAlways == Spec => []Typed
<1>1. Typed /\ [Next]_vars => Typed'
  BY TypedStep
<1> QED BY InitTyped, <1>1, PTL DEF Spec

\* Rows, messages, threads and clocks keep their types: no row outlives its campaign and no message
\* is handled that is not in its queue.
THEOREM TypeCorrect == Spec => []TypeOK
<1>1. Typed => TypeOK
  <2> SUFFICES ASSUME Typed PROVE TypeOK
    OBVIOUS
  <2>1. day \in 0 .. MaxDay /\ active \subseteq camps /\ camps \subseteq Campaigns
        /\ \A o \in Offices : last[o] \in 0 .. MaxDay + 1
    BY DEF Typed, CampaignsTyped, Days
  <2>2. /\ DOMAIN threads \subseteq {k \in Threads : k.camp \in camps}
        /\ \A k \in DOMAIN threads : threads[k] \in {"sent", "pending", "parked", "referred"}
    BY DEF Typed, ThreadsTyped, Statuses
  <2>3. /\ DOMAIN queue \subseteq asked /\ dead \subseteq asked /\ asked \subseteq Messages
        /\ \A m \in DOMAIN queue : queue[m] \in 0 .. MaxReceive
    BY DEF Typed, QueueTyped
  <2>4. /\ sender.pc \in {"idle", "gate", "refuse", "send", "record", "delete"}
        /\ sender.msg \subseteq DOMAIN queue /\ drain \subseteq dead
    BY DEF Typed, SenderTyped, Senders, DrainTyped
  <2>5. /\ DOMAIN alerts \subseteq DOMAIN shown
        /\ \A a \in DOMAIN alerts : alerts[a] \in Rows /\ alerts[a].camp \in camps
    BY DEF Typed, AlertsTyped
  <2> QED BY <2>1, <2>2, <2>3, <2>4, <2>5 DEF TypeOK
<1> QED BY TypedAlways, <1>1, PTL

-----------------------------------------------------------------------------
(* Digests.                                                                *)

LEMMA AlertedTold ==
    ASSUME AlertsTyped, Alerted, NEW c, NEW kind, NEW about, NEW thread,
           Told(c, kind, about, thread), UNCHANGED <<digest, faults>>, faults \in Nat
    PROVE  Alerted'
<1> DEFINE n == Len(shown) + 1
           r == [camp |-> c, kind |-> kind, about |-> about, thread |-> thread,
                 open |-> TRUE, notified |-> FALSE]
<1>1. ~r.notified
  OBVIOUS
<1>2. alerts' = With(alerts, n, r) /\ shown' = Append(shown, 0)
  BY DEF Told
<1> HIDE DEF r
<1>3. /\ shown \in Seq(Nat) /\ DOMAIN shown = 1 .. Len(shown) /\ Len(shown) \in Nat
      /\ n \notin DOMAIN shown /\ n \notin digest.rows
  BY DEF AlertsTyped, Alerted
<1>4. DOMAIN shown' = DOMAIN shown \cup {n} /\ shown'[n] = 0 /\ \A a \in DOMAIN shown : shown'[a] = shown[a]
  BY <1>2, <1>3
<1> HIDE DEF n
<1>5. /\ DOMAIN alerts' = DOMAIN alerts \cup {n} /\ alerts'[n] = r
      /\ \A a \in DOMAIN alerts \ {n} : alerts'[a] = alerts[a]
  BY <1>2 DEF With
<1>6. DOMAIN alerts \subseteq DOMAIN shown
  BY DEF AlertsTyped
<1> QED BY <1>1, <1>3, <1>4, <1>5, <1>6 DEF Alerted, Carrying

LEMMA AlertedStep ==
    ASSUME Typed, Alerted, [Next]_vars
    PROVE  Alerted'
<1>1. /\ AlertsTyped /\ DigestTyped /\ faults \in Nat /\ DOMAIN alerts \subseteq DOMAIN shown
      /\ \A a \in DOMAIN shown : shown[a] \in Nat
  BY DEF Typed, CampaignsTyped, AlertsTyped
<1>2. \A a \in DOMAIN alerts : alerts[a] \in Rows
  BY <1>1 DEF AlertsTyped
<1>3. CASE Refuse \/ DrainTake \/ Escalates \/ Books
  <2>1. UNCHANGED <<digest, faults>>
    BY <1>3 DEF Refuse, DrainTake, Escalates, Books, Happens, bounds
  <2>2. UNCHANGED <<alerts, shown>> \/ \E c, kind, about, thread : Told(c, kind, about, thread)
    BY <1>3 DEF Refuse, DrainTake, Escalates, Books
  <2>3. CASE UNCHANGED <<alerts, shown>>
    BY <2>1, <2>3 DEF Alerted, Carrying
  <2> QED BY <1>1, <2>1, <2>2, <2>3, AlertedTold
<1>4. CASE DigestReads
  <2>1. PICK c : digest' = [pc |-> "mail", camp |-> {c}, rows |-> Unnotified(c)]
    BY <1>4 DEF DigestReads
  <2>2. digest.pc = "idle" /\ UNCHANGED <<alerts, shown, faults>>
    BY <1>4 DEF DigestReads, store, record, bounds
  <2>3. \A a \in Unnotified(c) : a \in DOMAIN alerts /\ ~alerts[a].notified
    BY DEF Unnotified
  <2> QED BY <1>1, <2>1, <2>2, <2>3 DEF Alerted, Carrying
<1>5. CASE DigestMail
  <2>1. /\ shown' = [a \in DOMAIN shown |-> shown[a] + IF a \in digest.rows THEN 1 ELSE 0]
        /\ digest.pc = "mail" /\ digest' = [digest EXCEPT !.pc = "escalations"]
        /\ UNCHANGED <<alerts, faults>>
    BY <1>5 DEF DigestMail, store, bounds
  <2>2. digest'.pc = "escalations" /\ digest'.rows = digest.rows
    BY <1>1, <2>1 DEF DigestTyped, Digests
  <2>3. /\ DOMAIN shown' = DOMAIN shown
        /\ \A a \in DOMAIN shown : shown'[a] = IF a \in digest.rows THEN shown[a] + 1 ELSE shown[a]
    BY <1>1, <2>1
  <2> QED BY <1>1, <2>1, <2>2, <2>3 DEF Alerted, Carrying
<1>6. CASE MarkEscalations
  <2>1. /\ digest.pc = "escalations" /\ digest' = [digest EXCEPT !.pc = "fees"]
        /\ alerts' = Marked(Carried("escalation")) /\ UNCHANGED <<shown, faults>>
    BY <1>6 DEF MarkEscalations, record, bounds
  <2>2. digest'.pc = "fees" /\ digest'.rows = digest.rows
    BY <1>1, <2>1 DEF DigestTyped, Digests
  <2>3. /\ DOMAIN alerts' = DOMAIN alerts
        /\ \A a \in DOMAIN alerts : /\ alerts'[a].kind = alerts[a].kind
                                    /\ alerts[a].kind \in {"escalation", "fee"}
        /\ \A a \in DOMAIN alerts : IF a \in digest.rows /\ alerts[a].kind = "escalation"
                                    THEN alerts'[a].notified ELSE alerts'[a].notified = alerts[a].notified
    BY <1>2, <2>1 DEF Marked, Carried, Rows
  <2> QED BY <1>1, <2>1, <2>2, <2>3 DEF Alerted, Carrying
<1>7. CASE MarkFees
  <2>1. /\ digest.pc = "fees" /\ digest' = Asleep
        /\ alerts' = Marked(Carried("fee")) /\ UNCHANGED <<shown, faults>>
    BY <1>7 DEF MarkFees, record, bounds
  <2>2. /\ DOMAIN alerts' = DOMAIN alerts
        /\ \A a \in DOMAIN alerts : IF a \in digest.rows /\ alerts[a].kind = "fee"
                                    THEN alerts'[a].notified ELSE alerts'[a].notified = alerts[a].notified
    BY <1>2, <2>1 DEF Marked, Carried, Rows
  <2> QED BY <1>1, <2>1, <2>2 DEF Alerted, Carrying, Asleep
<1>8. CASE Resolve \/ Approve
  <2>1. PICK b \in DOMAIN alerts : alerts' = [alerts EXCEPT ![b].open = FALSE]
    BY <1>8 DEF Resolve, Approve
  <2>2. UNCHANGED <<digest, shown, faults>>
    BY <1>8 DEF Resolve, Approve, Order
  <2>3. /\ DOMAIN alerts' = DOMAIN alerts
        /\ \A a \in DOMAIN alerts : /\ alerts'[a].kind = alerts[a].kind
                                    /\ alerts'[a].notified = alerts[a].notified
    BY <1>2, <2>1 DEF Rows
  <2> QED BY <2>2, <2>3 DEF Alerted, Carrying
<1>9. CASE Kill
  <2>1. DOMAIN alerts' \subseteq DOMAIN alerts /\ \A a \in DOMAIN alerts' : alerts'[a] = alerts[a]
    BY <1>9 DEF Kill
  <2>2. UNCHANGED <<digest, shown, faults>>
    BY <1>9 DEF Kill, Order
  <2> QED BY <2>1, <2>2 DEF Alerted, Carrying
<1>10. CASE DigestBounces \/ Fails \/ Crash
  <2>1. faults' = faults + 1 /\ UNCHANGED <<alerts, shown>> /\ (digest' = Asleep \/ UNCHANGED digest)
    BY <1>10 DEF DigestBounces, Fails, Crash, Fault, store, record
  <2> QED BY <1>1, <2>1 DEF Alerted, Carrying, Asleep
<1>11. CASE UNCHANGED <<digest, alerts, shown, faults>>
  BY <1>11 DEF Alerted, Carrying
<1>12. \/ UNCHANGED <<digest, alerts, shown, faults>>
       \/ Refuse \/ DrainTake \/ DigestReads \/ DigestMail \/ DigestBounces \/ MarkEscalations \/ MarkFees
       \/ Escalates \/ Books \/ Resolve \/ Approve \/ Kill \/ Fails \/ Crash
  BY DEF Receive, Gate, Deliver, Record, Delete, DeadLetter, DrainDelete, Writes, Refers, SetActive,
         NextDay, Happens, Order, Send, DrainStep, Tell, store, record, bounds, vars, Next
<1> QED BY <1>3, <1>4, <1>5, <1>6, <1>7, <1>8, <1>9, <1>10, <1>11, <1>12

\* The operator hears of an escalation or a fee once, and a second time only where a failure fell
\* between the digest and its marks.
THEOREM AlertsOnce == Spec => []AlertedOnce
<1>1. Init => Alerted
  BY DEF Init, Alerted, Carrying, Asleep
<1>2. Typed /\ Alerted /\ [Next]_vars => Alerted'
  BY AlertedStep
<1>3. Alerted => AlertedOnce
  BY DEF Alerted, AlertedOnce
<1> QED BY TypedAlways, <1>1, <1>2, <1>3, PTL DEF Spec

-----------------------------------------------------------------------------
(* Clocks.                                                                 *)

LEMMA ClocksChange ==
    ASSUME [Next]_vars
    PROVE  \/ UNCHANGED <<day, last, requests, sender>>
           \/ Receive \/ Gate \/ Refuse \/ Deliver \/ Record \/ Delete \/ NextDay \/ Fails \/ Crash
BY DEF DeadLetter, DrainTake, DrainDelete, DigestReads, DigestMail, MarkEscalations, MarkFees,
       DigestBounces, Writes, Escalates, Books, Refers, SetActive, Resolve, Approve, Kill, Happens,
       Order, Send, DrainStep, Tell, store, record, bounds, vars, Next

\* What a gate that says send, and a request that is written, leave for the steps after them.
LEMMA ClockedStep ==
    ASSUME Typed, Clocked, [Next]_vars
    PROVE  Clocked'
<1> USE OutreachAssumption
<1>1. /\ day \in Nat /\ requests \in Seq(Requests) /\ sender \in Senders /\ sender.now \in Nat
      /\ \A o \in Offices : last[o] \in Nat
      /\ (sender.pc # "idle" => \E m \in Messages : sender.msg = {m})
  BY DEF Typed, CampaignsTyped, LogTyped, SenderTyped, Senders, Days
<1>2. \A i \in DOMAIN requests : requests[i].office \in Offices /\ requests[i].day \in Nat
  <2>1. \A i \in DOMAIN requests : requests[i] \in Requests
    BY <1>1
  <2> QED BY <2>1 DEF Requests
<1>3. CASE sender' = Idle /\ UNCHANGED <<day, last, requests>>
  BY <1>3 DEF Clocked, Idle
<1>4. CASE Gate /\ sender' # Idle
  <2>1. /\ sender' = [sender EXCEPT !.pc = Ruling(Held), !.now = day] /\ UNCHANGED <<day, last, requests>>
        /\ Ruling(Held) \in {"delete", "refuse", "send"} /\ sender.pc = "gate"
    BY <1>4 DEF Gate, Ruling, store, record
  <2>2. PICK m \in Messages : sender.msg = {m} /\ Held = m
    BY <1>1, <2>1, HeldIs
  <2>3. sender'.pc = Ruling(m) /\ sender'.msg = {m} /\ sender'.now = day
    BY <1>1, <2>1, <2>2 DEF Senders
  <2>4. m.office \in Offices
    BY DEF Messages
  <2>5. Ruling(m) = "send" => m.bypass \/ last[m.office] = 0 \/ last[m.office] + Cooldown <= day + 1
    BY <1>1, <2>4 DEF Ruling, Cooling
  <2> QED BY <1>1, <2>1, <2>2, <2>3, <2>4, <2>5 DEF Clocked
<1>5. CASE Refuse /\ sender' # Idle
  <2>1. sender' = [sender EXCEPT !.pc = "delete"] /\ UNCHANGED <<day, last, requests>>
    BY <1>5 DEF Refuse
  <2> QED BY <1>1, <2>1 DEF Clocked, Senders
<1>6. CASE Deliver
  <2>1. PICK m \in Messages : sender.msg = {m} /\ Held = m
    BY <1>1, <1>6, HeldIs DEF Deliver
  <2> DEFINE r == [camp |-> m.camp, office |-> m.office, bypass |-> m.bypass,
                   day |-> sender.now, logged |-> FALSE]
  <2>2. requests' = Append(requests, r) /\ sender' = [sender EXCEPT !.pc = "record"] /\ sender.pc = "send"
        /\ UNCHANGED <<day, last>>
    BY <1>6, <2>1 DEF Deliver, store
  <2>3. r.camp = m.camp /\ r.office = m.office /\ r.day = sender.now /\ ~r.logged
    OBVIOUS
  <2> HIDE DEF r
  <2>4. /\ requests' # <<>> /\ Len(requests') = Len(requests) + 1 /\ requests'[Len(requests) + 1] = r
        /\ \A i \in DOMAIN requests' :
              (i \in DOMAIN requests /\ requests'[i] = requests[i]) \/ requests'[i] = r
    BY <1>1, <2>2
  <2>5. sender'.pc = "record" /\ sender'.msg = {m} /\ sender'.now = sender.now
    BY <1>1, <2>1, <2>2 DEF Senders
  <2>6. \A i \in DOMAIN requests' :
          requests'[i].logged => i \in DOMAIN requests /\ requests'[i] = requests[i]
    BY <2>3, <2>4
  <2>7. sender.now <= day /\ last[m.office] <= sender.now + 1
    BY <2>1, <2>2 DEF Clocked
  <2> QED BY <2>2, <2>3, <2>4, <2>5, <2>6, <2>7 DEF Clocked
<1>7. CASE Record /\ sender' # Idle
  <2>1. PICK m \in Messages : sender.msg = {m} /\ Held = m
    BY <1>1, <1>7, HeldIs DEF Record
  <2>2. /\ sender.pc = "record" /\ sender' = [sender EXCEPT !.pc = "delete"] /\ UNCHANGED day
        /\ last' = IF m.camp \in Tests THEN last ELSE [last EXCEPT ![m.office] = sender.now + 1]
        /\ requests' = [requests EXCEPT ![Len(requests)].logged = TRUE]
    BY <1>7, <2>1 DEF Record
  <2>3. /\ sender.now <= day /\ last[m.office] <= sender.now + 1
        /\ requests[Len(requests)].camp = m.camp /\ requests[Len(requests)].office = m.office
        /\ requests[Len(requests)].day = sender.now
    BY <2>1, <2>2 DEF Clocked
  <2>4. /\ DOMAIN requests' = DOMAIN requests
        /\ \A i \in DOMAIN requests : /\ requests'[i].camp = requests[i].camp
                                      /\ requests'[i].office = requests[i].office
                                      /\ requests'[i].day = requests[i].day
                                      /\ requests'[i].logged => requests[i].logged \/ i = Len(requests)
    BY <1>1, <2>2 DEF Requests
  <2>5. \A o \in Offices : last[o] <= last'[o] /\ last'[o] <= day + 1
    <3>1. last \in [Offices -> Nat]
      BY DEF Typed, CampaignsTyped
    <3> QED BY <1>1, <2>2, <2>3, <3>1 DEF Clocked
  <2>6. m.camp \notin Tests => sender.now < last'[m.office]
    <3>1. last \in [Offices -> Nat] /\ m.office \in Offices
      BY DEF Typed, CampaignsTyped, Messages
    <3> QED BY <1>1, <2>2, <3>1
  <2>7. sender'.pc = "delete"
    BY <1>1, <2>2 DEF Senders
  <2>8. ASSUME NEW i \in DOMAIN requests, requests'[i].logged, requests'[i].camp \notin Tests
        PROVE  requests'[i].day < last'[requests'[i].office]
    <3>1. CASE i = Len(requests)
      BY <2>3, <2>4, <2>6, <2>8, <3>1
    <3>2. CASE requests[i].logged
      <4>1. requests[i].day < last[requests[i].office]
        BY <2>4, <2>8, <3>2 DEF Clocked
      <4>2. last'[requests[i].office] \in Nat
        BY <1>1, <1>2, <2>2, <2>5 DEF Typed, CampaignsTyped
      <4> QED BY <1>1, <1>2, <2>4, <2>5, <4>1, <4>2
    <3> QED BY <2>4, <2>8, <3>1, <3>2
  <2> QED BY <2>2, <2>4, <2>5, <2>7, <2>8 DEF Clocked
<1>8. CASE Receive
  <2>1. PICK m : sender' = [pc |-> "gate", msg |-> {m}, now |-> 0]
    BY <1>8 DEF Receive
  <2>2. sender'.pc = "gate" /\ UNCHANGED <<day, last, requests>>
    BY <1>8, <2>1 DEF Receive, store, record
  <2> QED BY <2>2 DEF Clocked
<1>9. CASE NextDay
  <2>1. day' = day + 1 /\ UNCHANGED <<last, requests, sender>>
    BY <1>9 DEF NextDay, store, record
  <2> QED BY <1>1, <2>1 DEF Clocked
<1>10. CASE UNCHANGED <<day, last, requests, sender>>
  BY <1>10 DEF Clocked
<1>11. CASE Delete \/ Fails \/ Crash \/ ((Gate \/ Refuse \/ Record) /\ sender' = Idle)
  <2>1. UNCHANGED <<day, last, requests>>
    <3>1. Record => sender.pc = "record"
      BY DEF Record
    <3>2. sender.pc = "record" => [sender EXCEPT !.pc = "delete"] # Idle
      BY <1>1 DEF Senders, Idle
    <3> QED BY <1>11, <3>1, <3>2 DEF Delete, Fails, Crash, Fault, Gate, Refuse, Record, store, record
  <2>2. sender' = Idle \/ UNCHANGED sender
    BY <1>11 DEF Delete, Fails, Crash
  <2> QED BY <1>3, <1>10, <2>1, <2>2
<1> QED BY <1>4, <1>5, <1>6, <1>7, <1>8, <1>9, <1>10, <1>11, ClocksChange

\* A request waits for the clock, and the clock for every request with a record.
LEMMA CooldownStep ==
    ASSUME Typed, Clocked, CooldownHolds, [Next]_vars
    PROVE  CooldownHolds'
<1> USE OutreachAssumption
<1>1. /\ requests \in Seq(Requests) /\ sender \in Senders /\ sender.now \in Nat
      /\ \A o \in Offices : last[o] \in Nat
      /\ (sender.pc # "idle" => \E m \in Messages : sender.msg = {m})
  BY DEF Typed, CampaignsTyped, LogTyped, SenderTyped, Senders, Days
<1>2. \A i \in DOMAIN requests : requests[i].office \in Offices /\ requests[i].day \in Nat
  <2>1. \A i \in DOMAIN requests : requests[i] \in Requests
    BY <1>1
  <2> QED BY <2>1 DEF Requests
<1>3. CASE Deliver
  <2>1. PICK m \in Messages : sender.msg = {m} /\ Held = m
    BY <1>1, <1>3, HeldIs DEF Deliver
  <2> DEFINE r == [camp |-> m.camp, office |-> m.office, bypass |-> m.bypass,
                   day |-> sender.now, logged |-> FALSE]
  <2>2. requests' = Append(requests, r) /\ sender.pc = "send"
    BY <1>3, <2>1 DEF Deliver
  <2>3. r.office = m.office /\ r.day = sender.now /\ r.bypass = m.bypass /\ m.office \in Offices
    BY DEF Messages
  <2> HIDE DEF r
  <2>4. /\ \A i \in DOMAIN requests : requests'[i] = requests[i]
        /\ \A i \in DOMAIN requests' : i \in DOMAIN requests \/ (i = Len(requests) + 1 /\ requests'[i] = r)
        /\ DOMAIN requests = 1 .. Len(requests) /\ Len(requests) \in Nat
    BY <1>1, <2>2
  <2>5. ~m.bypass => last[m.office] = 0 \/ last[m.office] + Cooldown <= sender.now + 1
    BY <2>1, <2>2 DEF Clocked
  <2>6. ASSUME NEW i \in DOMAIN requests, requests[i].office = r.office,
               requests[i].logged, requests[i].camp \notin Tests, ~r.bypass
        PROVE  requests[i].day + Cooldown <= r.day
    <3>1. /\ requests[i].day < last[m.office] /\ requests[i].day \in Nat
          /\ last[m.office] \in Nat /\ Cooldown \in Nat
      BY <1>1, <1>2, <2>3, <2>6 DEF Clocked
    <3>2. last[m.office] = 0 \/ last[m.office] + Cooldown <= sender.now + 1
      BY <2>3, <2>5, <2>6
    <3>3. r.day = sender.now /\ sender.now \in Nat
      BY <1>1, <2>3
    <3> QED BY <3>1, <3>2, <3>3
  <2>7. ASSUME NEW i \in DOMAIN requests', NEW j \in DOMAIN requests', i < j,
               requests'[i].office = requests'[j].office,
               requests'[i].logged, requests'[i].camp \notin Tests, ~requests'[j].bypass
        PROVE  requests'[i].day + Cooldown <= requests'[j].day
    <3>1. i \in DOMAIN requests
      BY <2>4, <2>7
    <3>2. CASE j \in DOMAIN requests
      BY <2>4, <2>7, <3>1, <3>2 DEF CooldownHolds
    <3>3. CASE requests'[j] = r
      BY <2>4, <2>6, <2>7, <3>1, <3>3
    <3> QED BY <2>4, <3>2, <3>3
  <2> QED BY <2>7 DEF CooldownHolds
<1>4. CASE Record /\ ~UNCHANGED requests
  <2>1. requests' = [requests EXCEPT ![Len(requests)].logged = TRUE]
    BY <1>4 DEF Record
  <2>2. /\ DOMAIN requests' = DOMAIN requests /\ DOMAIN requests = 1 .. Len(requests)
        /\ Len(requests) \in Nat
        /\ \A i \in DOMAIN requests : /\ requests'[i].camp = requests[i].camp
                                      /\ requests'[i].office = requests[i].office
                                      /\ requests'[i].bypass = requests[i].bypass
                                      /\ requests'[i].day = requests[i].day
                                      /\ requests'[i].logged => requests[i].logged \/ i = Len(requests)
    BY <1>1, <2>1 DEF Requests
  <2> QED BY <2>2 DEF CooldownHolds
<1>5. CASE UNCHANGED requests
  BY <1>5 DEF CooldownHolds
<1> QED BY <1>3, <1>4, <1>5, LogChange

\* No campaign asks an office within the cooldown of a request that is on record.
THEOREM CooldownKept == Spec => []CooldownHolds
<1>1. Init => Clocked /\ CooldownHolds
  <2> SUFFICES ASSUME Init PROVE Clocked /\ CooldownHolds
    OBVIOUS
  <2> QED BY DEF Init, Clocked, CooldownHolds, Idle
<1>2. Typed /\ Clocked /\ CooldownHolds /\ [Next]_vars => Clocked' /\ CooldownHolds'
  BY ClockedStep, CooldownStep
<1> QED BY TypedAlways, <1>1, <1>2, PTL DEF Spec

-----------------------------------------------------------------------------
(* Contacts.                                                               *)

LEMMA CampsChange ==
    ASSUME [Next]_vars
    PROVE  UNCHANGED <<camps, active, stopped>> \/ SetActive \/ Kill
BY DEF Receive, Gate, Refuse, Deliver, Record, Delete, DeadLetter, DrainTake, DrainDelete, DigestReads,
       DigestMail, MarkEscalations, MarkFees, DigestBounces, Writes, Escalates, Books, Refers, Resolve,
       Approve, NextDay, Fails, Crash, Happens, Order, Fault, Send, DrainStep, Tell, store, record,
       bounds, vars, Next

\* No step makes a campaign run that did not, but its first.
LEMMA RunningBefore ==
    ASSUME [Next]_vars
    PROVE  camps' \ stopped' \subseteq camps \ stopped
BY CampsChange DEF SetActive, Kill, Order

LEMMA TakenStays ==
    ASSUME Typed, [Next]_vars, NEW k \in DOMAIN threads, k.camp \in camps'
    PROVE  k \in DOMAIN threads'
<1>1. CASE Refuse
  BY <1>1 DEF Refuse
<1>2. CASE Record
  BY <1>2 DEF Record, With
<1>3. CASE Escalates \/ Refers \/ Approve
  BY <1>3 DEF Escalates, Refers, Approve
<1>4. CASE Kill
  BY <1>4 DEF Kill
<1> QED BY <1>1, <1>2, <1>3, <1>4, ThreadsChange

\* A row stays, with what it is about, as long as its campaign; a new row is about its campaign.
LEMMA RowStays ==
    ASSUME Typed, [Next]_vars, NEW a \in DOMAIN alerts, alerts[a].camp \in camps'
    PROVE  a \in DOMAIN alerts' /\ alerts'[a].about = alerts[a].about
<1>1. AlertsTyped /\ alerts[a] \in Rows /\ a # Len(shown) + 1
  BY DEF Typed, AlertsTyped
<1>2. ASSUME NEW c, NEW kind, NEW about, NEW thread, Told(c, kind, about, thread)
      PROVE  a \in DOMAIN alerts' /\ alerts'[a].about = alerts[a].about
  BY <1>1, <1>2 DEF Told, With
<1>3. CASE Refuse \/ DrainTake \/ Escalates \/ Books
  <2>1. UNCHANGED alerts \/ \E c, kind, about, thread : Told(c, kind, about, thread)
    BY <1>3 DEF Refuse, DrainTake, Escalates, Books
  <2> QED BY <1>2, <2>1
<1>4. CASE MarkEscalations \/ MarkFees
  <2>1. PICK ids : alerts' = Marked(ids)
    BY <1>4 DEF MarkEscalations, MarkFees
  <2> QED BY <1>1, <2>1 DEF Marked, Rows
<1>5. CASE Resolve \/ Approve
  <2>1. PICK b \in DOMAIN alerts : alerts' = [alerts EXCEPT ![b].open = FALSE]
    BY <1>5 DEF Resolve, Approve
  <2> QED BY <1>1, <2>1 DEF Rows
<1>6. CASE Kill
  BY <1>6 DEF Kill
<1>7. CASE DigestMail
  BY <1>7 DEF DigestMail, store
<1> QED BY <1>3, <1>4, <1>5, <1>6, <1>7, AlertsChange

LEMMA SettledStays ==
    ASSUME Typed, Disposed, [Next]_vars, NEW m \in Messages, m.camp \in camps', Settled(m)
    PROVE  Settled(m)'
<1>1. CASE ThreadOf(m) \in DOMAIN threads
  <2>1. ThreadOf(m).camp = m.camp
    BY DEF ThreadOf
  <2> QED BY <1>1, <2>1, TakenStays DEF Settled
<1>2. CASE \E a \in DOMAIN alerts : m \in alerts[a].about
  <2>1. PICK a \in DOMAIN alerts : m \in alerts[a].about
    BY <1>2
  <2>2. alerts[a].camp = m.camp
    BY <2>1 DEF Disposed
  <2> QED BY <2>1, <2>2, RowStays DEF Settled
<1> QED BY <1>1, <1>2 DEF Settled

\* The rows that name a contact are rows of its campaign.
LEMMA AboutOwn ==
    ASSUME Typed, Disposed, [Next]_vars, NEW a \in DOMAIN alerts', NEW m \in alerts'[a].about
    PROVE  m.camp = alerts'[a].camp
<1>1. /\ AlertsTyped /\ (sender.pc # "idle" => \E h \in Messages : sender.msg = {h})
      /\ \A b \in DOMAIN alerts : \A h \in alerts[b].about : h.camp = alerts[b].camp
      /\ \A b \in DOMAIN alerts : alerts[b] \in Rows
  BY DEF Typed, SenderTyped, Disposed, AlertsTyped
<1>2. CASE a \in DOMAIN alerts /\ alerts'[a].about = alerts[a].about /\ alerts'[a].camp = alerts[a].camp
  BY <1>1, <1>2
<1>3. ASSUME NEW c, NEW kind, NEW about, NEW thread,
             Told(c, kind, about, thread), \A h \in about : h.camp = c
      PROVE  m.camp = alerts'[a].camp
  <2> DEFINE r == [camp |-> c, kind |-> kind, about |-> about, thread |-> thread,
                   open |-> TRUE, notified |-> FALSE]
  <2>1. r.camp = c /\ r.about = about
    OBVIOUS
  <2>2. alerts' = With(alerts, Len(shown) + 1, r)
    BY <1>3 DEF Told
  <2> HIDE DEF r
  <2>3. alerts'[a] = r \/ (a \in DOMAIN alerts /\ alerts'[a] = alerts[a])
    BY <2>2 DEF With
  <2> QED BY <1>1, <1>3, <2>1, <2>3
<1>4. CASE Refuse
  BY <1>1, <1>2, <1>3, <1>4, HeldIs DEF Refuse
<1>5. CASE DrainTake
  BY <1>3, <1>5 DEF DrainTake
<1>6. CASE Escalates \/ Books
  <2>1. PICK k, kind : Told(k.camp, kind, {}, {k})
    BY <1>6 DEF Escalates, Books
  <2>2. \A h \in {} : h.camp = k.camp
    OBVIOUS
  <2> QED BY <1>3, <2>1, <2>2
<1>7. CASE MarkEscalations \/ MarkFees
  <2>1. PICK ids : alerts' = Marked(ids)
    BY <1>7 DEF MarkEscalations, MarkFees
  <2> QED BY <1>1, <1>2, <2>1 DEF Marked, Rows
<1>8. CASE Resolve \/ Approve
  <2>1. PICK b \in DOMAIN alerts : alerts' = [alerts EXCEPT ![b].open = FALSE]
    BY <1>8 DEF Resolve, Approve
  <2> QED BY <1>1, <1>2, <2>1 DEF Rows
<1>9. CASE Kill
  BY <1>2, <1>9 DEF Kill
<1>10. CASE DigestMail
  BY <1>2, <1>10 DEF DigestMail, store
<1> QED BY <1>2, <1>4, <1>5, <1>6, <1>7, <1>8, <1>9, <1>10, AlertsChange

LEMMA DisposedStep ==
    ASSUME Typed, Disposed, [Next]_vars
    PROVE  Disposed'
<1>1. /\ sender \in Senders /\ (sender.pc # "idle" => \E m \in Messages : sender.msg = {m})
      /\ sender.msg \subseteq Messages /\ drain \subseteq Messages
  BY DEF Typed, SenderTyped, QueueTyped, DrainTyped, Senders
<1>2. camps' \ stopped' \subseteq active'
  BY CampsChange DEF Disposed, SetActive, Kill, Order
<1>3. \A m : Running(m)' => Running(m) /\ m.camp \in camps'
  BY RunningBefore DEF Running
<1>4. ASSUME NEW m \in drain', Running(m)' PROVE Settled(m)'
  <2>1. CASE m \in drain
    BY <1>1, <1>3, <1>4, <2>1, SettledStays DEF Disposed
  <2>2. CASE DrainTake /\ m \notin drain
    <3>1. Told(m.camp, "escalation", {m}, {})
      BY <1>4, <2>2 DEF DrainTake
    <3> QED BY <3>1 DEF Told, With, Settled
  <2>3. CASE DeadLetter \/ DrainDelete \/ Fails \/ Crash
    BY <1>4, <2>1, <2>3 DEF DeadLetter, DrainDelete, Fails, Crash, Fault
  <2> QED BY <1>4, <2>1, <2>2, <2>3, DrainChange
<1>5. ASSUME NEW m \in sender'.msg, sender'.pc = "delete", Running(m)' PROVE Settled(m)'
  <2>1. CASE m \in sender.msg /\ sender.pc = "delete"
    BY <1>1, <1>3, <1>5, <2>1, SettledStays DEF Disposed
  <2>2. CASE sender' = Idle
    BY <1>5, <2>2 DEF Idle
  <2>3. CASE Gate /\ sender' # Idle
    <3>1. sender' = [sender EXCEPT !.pc = Ruling(Held), !.now = day] /\ sender.pc = "gate"
      BY <2>3 DEF Gate
    <3>2. m \in Messages /\ Held = m /\ Ruling(m) = "delete"
      BY <1>1, <1>5, <3>1, HeldIs DEF Senders
    <3>3. Running(m) /\ m.camp \in active
      BY <1>3, <1>5 DEF Running, Disposed
    <3>4. Taken(m)
      BY <3>2, <3>3 DEF Ruling, Running
    <3> QED BY <1>3, <1>5, <3>2, <3>4, SettledStays DEF Taken, Settled
  <2>4. CASE (Refuse \/ Record) /\ sender' # Idle
    <3>1. sender.pc # "idle" /\ sender' = [sender EXCEPT !.pc = "delete"]
      BY <2>4 DEF Refuse, Record
    <3>2. m \in Messages /\ Held = m
      BY <1>1, <1>5, <3>1, HeldIs DEF Senders
    <3>3. CASE Refuse
      <4>1. Told(m.camp, "escalation", {m}, {ThreadOf(m)} \cap DOMAIN threads)
        BY <2>4, <3>2, <3>3 DEF Refuse
      <4> QED BY <4>1 DEF Told, With, Settled
    <3>4. CASE Record
      <4>1. threads' = With(threads, ThreadOf(m), "sent")
        BY <2>4, <3>2, <3>4 DEF Record
      <4> QED BY <4>1 DEF With, Settled
    <3> QED BY <2>4, <3>3, <3>4
  <2>5. CASE Receive
    BY <1>5, <2>5 DEF Receive
  <2>6. CASE Deliver
    BY <1>1, <1>5, <2>6 DEF Deliver, Senders
  <2>7. CASE UNCHANGED sender
    BY <1>5, <2>1, <2>7
  <2>8. Delete \/ DeadLetter \/ Refers \/ Approve \/ Fails \/ Crash => sender' = Idle \/ UNCHANGED sender
    BY DEF Delete, DeadLetter, Refers, Approve, Happens, Order, Fails, Crash
  <2> QED BY <2>2, <2>3, <2>4, <2>5, <2>6, <2>7, <2>8, SenderChange
<1>6. \A a \in DOMAIN alerts' : \A m \in alerts'[a].about : m.camp = alerts'[a].camp
  BY AboutOwn
<1>7. \A m \in sender'.msg \cup drain' :
          (sender'.pc = "delete" \/ m \in drain') /\ Running(m)' => Settled(m)'
  BY <1>4, <1>5
<1> QED BY <1>2, <1>6, <1>7 DEF Disposed

\* What leaves the queue is a dead letter or is settled; what leaves the dead letters is settled.
LEMMA NothingVanishes ==
    ASSUME Typed, Disposed, NoContactVanishes, [Next]_vars
    PROVE  NoContactVanishes'
<1>1. /\ asked \subseteq Messages /\ drain \subseteq Messages
      /\ (sender.pc # "idle" => \E m \in Messages : sender.msg = {m})
  BY DEF Typed, SenderTyped, QueueTyped, DrainTyped
<1> SUFFICES ASSUME NEW m \in asked', Running(m)'
             PROVE  m \in DOMAIN queue' \cup dead' \/ Settled(m)'
  BY DEF NoContactVanishes, Running, Settled
<1>2. Running(m) /\ m.camp \in camps'
  BY RunningBefore DEF Running
<1>3. m \in asked => m \in DOMAIN queue \cup dead \/ Settled(m)
  BY <1>2 DEF NoContactVanishes, Running, Settled
<1>4. m \in asked /\ Settled(m) => Settled(m)'
  BY <1>1, <1>2, SettledStays
<1>5. CASE Receive
  BY <1>3, <1>4, <1>5 DEF Receive, record
<1>6. CASE Delete
  <2>1. sender.pc = "delete" /\ queue' = Without(queue, Held) /\ UNCHANGED <<dead, asked>>
    BY <1>6 DEF Delete, record
  <2>2. m = Held => m \in sender.msg
    BY <1>1, <2>1, HeldIs
  <2>3. m = Held => Settled(m)
    BY <1>2, <2>1, <2>2 DEF Disposed
  <2> QED BY <1>3, <1>4, <2>1, <2>3 DEF Without
<1>7. CASE DeadLetter
  BY <1>3, <1>4, <1>7 DEF DeadLetter, Without, record
<1>8. CASE DrainDelete
  <2>1. dead' = dead \ drain /\ UNCHANGED <<queue, asked>>
    BY <1>8 DEF DrainDelete, record
  <2>2. m \in drain => Settled(m)
    BY <1>2 DEF Disposed
  <2> QED BY <1>3, <1>4, <2>1, <2>2
<1>9. CASE Refers \/ Approve
  <2>1. PICK n : queue' = With(queue, n, 0) /\ asked' = asked \cup {n}
    BY <1>9 DEF Refers, Approve
  <2>2. UNCHANGED dead
    BY <1>9 DEF Refers, Approve, Happens, Order
  <2> QED BY <1>3, <1>4, <2>1, <2>2 DEF With
<1>10. CASE UNCHANGED <<queue, dead, asked>>
  BY <1>3, <1>4, <1>10
<1> QED BY <1>5, <1>6, <1>7, <1>8, <1>9, <1>10, QueueChange

\* A contact of a campaign that was left running is in its queue, is a dead letter, has its thread or
\* is named by an escalation, whatever fails and whatever the other campaigns do.
THEOREM ContactsAccounted == Spec => []NoContactVanishes
<1>1. Init => Disposed /\ NoContactVanishes
  BY DEF Init, Disposed, NoContactVanishes, Idle
<1>2. Typed /\ Disposed /\ NoContactVanishes /\ [Next]_vars => Disposed' /\ NoContactVanishes'
  BY DisposedStep, NothingVanishes
<1> QED BY TypedAlways, <1>1, <1>2, PTL DEF Spec

-----------------------------------------------------------------------------
(* The daily cap.                                                          *)

LEMMA Counts ==
    ASSUME LogTyped, NEW c, NEW d
    PROVE  /\ IsFiniteSet(Logged(c, d)) /\ IsFiniteSet(Loose(c, d))
           /\ Cardinality(Logged(c, d)) \in Nat /\ Cardinality(Loose(c, d)) \in Nat
           /\ Cardinality(Mails(c, d)) = Cardinality(Logged(c, d)) + Cardinality(Loose(c, d))
<1>1. DOMAIN requests = 1 .. Len(requests) /\ Len(requests) \in Nat
  BY DEF LogTyped
<1>2. IsFiniteSet(DOMAIN requests)
  BY <1>1, FS_Interval
<1>3. /\ Logged(c, d) \in SUBSET DOMAIN requests /\ Loose(c, d) \in SUBSET DOMAIN requests
      /\ Mails(c, d) = Logged(c, d) \cup Loose(c, d) /\ Logged(c, d) \cap Loose(c, d) = {}
  BY DEF Mails, Logged, Loose
<1>4. IsFiniteSet(Logged(c, d)) /\ IsFiniteSet(Loose(c, d))
  BY <1>2, <1>3, FS_Subset
<1>5. Cardinality(Logged(c, d)) \in Nat /\ Cardinality(Loose(c, d)) \in Nat
  BY <1>4, FS_CardinalityType
<1>6. Cardinality(Mails(c, d)) =
          Cardinality(Logged(c, d)) + Cardinality(Loose(c, d)) - Cardinality(Logged(c, d) \cap Loose(c, d))
  BY <1>3, <1>4, FS_Union
<1>7. Cardinality(Logged(c, d) \cap Loose(c, d)) = 0
  BY <1>3, FS_EmptySet
<1>8. Cardinality(Mails(c, d)) = Cardinality(Logged(c, d)) + Cardinality(Loose(c, d))
  BY <1>5, <1>6, <1>7
<1> QED BY <1>4, <1>5, <1>8

LEMMA CapsChange ==
    ASSUME [Next]_vars
    PROVE  \/ UNCHANGED <<requests, sender, camps, posted, faults>>
           \/ Receive \/ Gate \/ Refuse \/ Deliver \/ Record \/ Delete
           \/ DigestBounces \/ Writes \/ Kill \/ Fails \/ Crash
BY DEF DeadLetter, DrainTake, DrainDelete, DigestReads, DigestMail, MarkEscalations, MarkFees,
       Escalates, Books, Refers, SetActive, Resolve, Approve, NextDay, Happens, Order, Send,
       DrainStep, Tell, store, record, bounds, vars, Next

LEMMA OneMore ==
    ASSUME NEW S, NEW x, x \notin S, IsFiniteSet(S)
    PROVE  Cardinality(S \cup {x}) = Cardinality(S) + 1
BY FS_AddElement

LEMMA OneLess ==
    ASSUME NEW S, NEW x, x \in S, IsFiniteSet(S)
    PROVE  Cardinality(S \ {x}) = Cardinality(S) - 1
BY FS_RemoveElement

\* Where no request is written or recorded, the counts stay.
LEMMA CountsStay ==
    ASSUME UNCHANGED requests, NEW c, NEW d
    PROVE  Logged(c, d)' = Logged(c, d) /\ Loose(c, d)' = Loose(c, d)
BY DEF Logged, Loose, Mails

LEMMA CappedDeliver ==
    ASSUME Typed, Capped, Deliver
    PROVE  Capped'
<1>1. /\ requests \in Seq(Requests) /\ sender \in Senders /\ LogTyped /\ faults \in Nat
      /\ posted \in [Campaigns -> [Days -> Nat]]
      /\ (sender.pc # "idle" => \E h \in Messages : sender.msg = {h})
  BY DEF Typed, LogTyped, SenderTyped, CampaignsTyped
<1>2. PICK m \in Messages : sender.msg = {m} /\ Held = m
  BY <1>1, HeldIs DEF Deliver
<1> DEFINE n == Len(requests) + 1
           r == [camp |-> m.camp, office |-> m.office, bypass |-> m.bypass,
                 day |-> sender.now, logged |-> FALSE]
<1>3. r.camp = m.camp /\ r.day = sender.now /\ ~r.logged
  OBVIOUS
<1>4. requests' = Append(requests, r) /\ UNCHANGED <<camps, posted, faults>>
      /\ sender.pc = "send" /\ sender' = [sender EXCEPT !.pc = "record"]
  BY <1>2 DEF Deliver, store, bounds
<1> HIDE DEF r
<1>5. sender'.pc = "record" /\ sender'.msg = {m} /\ sender'.now = sender.now
  BY <1>1, <1>2, <1>4 DEF Senders
<1>6. /\ DOMAIN requests' = DOMAIN requests \cup {n} /\ n \notin DOMAIN requests /\ Len(requests') = n
      /\ requests'[n] = r /\ \A i \in DOMAIN requests : requests'[i] = requests[i]
  BY <1>1, <1>4
<1> HIDE DEF n
<1>7. Recording'
  BY <1>3, <1>5, <1>6 DEF Recording
<1>8. ASSUME NEW c \in Campaigns, NEW d \in Days PROVE CappedOn(c, d)'
  <2>1. Logged(c, d)' = Logged(c, d)
    BY <1>3, <1>6 DEF Logged, Mails
  <2>2. Loose(c, d)' = IF c = m.camp /\ d = sender.now THEN Loose(c, d) \cup {n} ELSE Loose(c, d)
    BY <1>3, <1>6 DEF Loose, Mails
  <2>3. n \notin Loose(c, d)
    BY <1>6 DEF Loose, Mails
  <2>4. Cardinality(Loose(c, d))' = IF c = m.camp /\ d = sender.now THEN Cardinality(Loose(c, d)) + 1
                                                                  ELSE Cardinality(Loose(c, d))
    <3>1. IsFiniteSet(Loose(c, d))
      BY <1>1, Counts
    <3>2. Cardinality(Loose(c, d) \cup {n}) = Cardinality(Loose(c, d)) + 1
      BY <2>3, <3>1, OneMore
    <3> QED BY <2>2, <3>2
  <2>5. /\ At("send", c, d) <=> c = m.camp /\ d = sender.now
        /\ At("record", c, d)' <=> c = m.camp /\ d = sender.now
        /\ ~At("record", c, d) /\ ~At("send", c, d)'
    BY <1>2, <1>4, <1>5 DEF At
  <2>6. CappedOn(c, d) /\ Cardinality(Loose(c, d)) \in Nat
    BY <1>1, Counts DEF Capped
  <2>7. Cardinality(Loose(c, d))' <= faults + Owed(c, d)'
    BY <1>1, <1>4, <2>4, <2>5, <2>6 DEF CappedOn, Owed
  <2> QED BY <1>4, <2>1, <2>5, <2>6, <2>7 DEF CappedOn
<1> QED BY <1>7, <1>8 DEF Capped

LEMMA CappedRecord ==
    ASSUME Typed, Capped, Record
    PROVE  Capped'
<1>1. /\ requests \in Seq(Requests) /\ sender \in Senders /\ LogTyped /\ faults \in Nat
      /\ posted \in [Campaigns -> [Days -> Nat]]
      /\ (sender.pc # "idle" => \E h \in Messages : sender.msg = {h})
  BY DEF Typed, LogTyped, SenderTyped, CampaignsTyped
<1>2. PICK m \in Messages : sender.msg = {m} /\ Held = m
  BY <1>1, HeldIs DEF Record
<1>3. sender.pc = "record" /\ UNCHANGED <<camps, faults>>
  BY DEF Record, bounds
<1>4. ASSUME NEW c \in Campaigns, NEW d \in Days
      PROVE  /\ At("record", c, d) <=> c = m.camp /\ d = sender.now
             /\ ~At("send", c, d)
             /\ CappedOn(c, d) /\ Cardinality(Logged(c, d)) \in Nat /\ Cardinality(Loose(c, d)) \in Nat
             /\ posted[c][d] \in Nat
  BY <1>1, <1>2, <1>3, Counts DEF At, Capped
<1>5. CASE m.camp \in camps
  <2> DEFINE n == Len(requests)
  <2>1. /\ requests # <<>> /\ ~requests[n].logged
        /\ requests[n].camp = m.camp /\ requests[n].day = sender.now
    BY <1>2, <1>3 DEF Capped, Recording
  <2>2. /\ requests' = [requests EXCEPT ![n].logged = TRUE]
        /\ posted' = [posted EXCEPT ![m.camp][sender.now] = @ + 1]
        /\ sender' = [sender EXCEPT !.pc = "delete"]
    BY <1>2, <1>5 DEF Record, Recordable
  <2>3. sender'.pc = "delete"
    BY <1>1, <2>2 DEF Senders
  <2>4. /\ n \in DOMAIN requests /\ DOMAIN requests' = DOMAIN requests
        /\ requests'[n].camp = m.camp /\ requests'[n].day = sender.now /\ requests'[n].logged
        /\ \A i \in DOMAIN requests \ {n} : requests'[i] = requests[i]
    <3>1. n \in DOMAIN requests /\ requests[n] \in Requests
      BY <1>1, <2>1
    <3> QED BY <1>1, <2>1, <2>2, <3>1 DEF Requests
  <2> HIDE DEF n
  <2>5. ASSUME NEW c \in Campaigns, NEW d \in Days PROVE CappedOn(c, d)'
    <3>1. CASE c = m.camp /\ d = sender.now
      <4>1. Logged(c, d)' = Logged(c, d) \cup {n} /\ Loose(c, d)' = Loose(c, d) \ {n} /\ n \in Loose(c, d)
        BY <2>1, <2>4, <3>1 DEF Logged, Loose, Mails
      <4>2. n \notin Logged(c, d)
        BY <2>1 DEF Logged
      <4>3. /\ Cardinality(Logged(c, d))' = Cardinality(Logged(c, d)) + 1
            /\ Cardinality(Loose(c, d))' = Cardinality(Loose(c, d)) - 1
        <5>1. IsFiniteSet(Logged(c, d)) /\ IsFiniteSet(Loose(c, d))
          BY <1>1, Counts
        <5>2. Cardinality(Logged(c, d) \cup {n}) = Cardinality(Logged(c, d)) + 1
          BY <4>2, <5>1, OneMore
        <5>3. Cardinality(Loose(c, d) \ {n}) = Cardinality(Loose(c, d)) - 1
          BY <4>1, <5>1, OneLess
        <5> QED BY <4>1, <5>2, <5>3
      <4>4. posted'[c][d] = posted[c][d] + 1
        BY <1>1, <2>2, <3>1
      <4>5. At("record", c, d) /\ ~At("record", c, d)' /\ ~At("send", c, d)'
        BY <1>4, <2>3, <3>1 DEF At
      <4>6. c \in camps /\ c \in camps'
        BY <1>3, <1>5, <3>1
      <4>7. /\ Cardinality(Logged(c, d)) < Cap /\ Cardinality(Logged(c, d)) <= posted[c][d]
            /\ Cardinality(Loose(c, d)) <= faults + 1
        BY <1>4, <4>5, <4>6 DEF CappedOn, Owed
      <4>8. Cap \in Nat
        BY OutreachAssumption
      <4>9. Owed(c, d)' = 0
        BY <4>5, <4>6 DEF Owed
      <4> QED BY <1>1, <1>3, <1>4, <4>3, <4>4, <4>5, <4>7, <4>8, <4>9 DEF CappedOn
    <3>2. CASE ~(c = m.camp /\ d = sender.now)
      <4>1. Logged(c, d)' = Logged(c, d) /\ Loose(c, d)' = Loose(c, d)
        BY <2>1, <2>4, <3>2 DEF Logged, Loose, Mails
      <4>2. posted'[c][d] = posted[c][d]
        BY <1>1, <2>2, <3>2
      <4>3. ~At("record", c, d) /\ ~At("record", c, d)' /\ ~At("send", c, d)'
        BY <1>4, <2>3, <3>2 DEF At
      <4> QED BY <1>3, <1>4, <4>1, <4>2, <4>3 DEF CappedOn, Owed
    <3> QED BY <3>1, <3>2
  <2> QED BY <2>3, <2>5 DEF Capped, Recording
<1>6. CASE m.camp \notin camps
  <2>1. sender' = Idle /\ UNCHANGED <<requests, posted>>
    BY <1>2, <1>6 DEF Record, Recordable
  <2>2. sender'.pc = "idle"
    BY <2>1 DEF Idle
  <2>3. ASSUME NEW c \in Campaigns, NEW d \in Days PROVE CappedOn(c, d)'
    <3>1. ~At("record", c, d)' /\ ~At("send", c, d)'
      BY <2>2 DEF At
    <3>2. Owed(c, d)' = Owed(c, d)
      BY <1>3, <1>4, <1>6, <3>1 DEF Owed
    <3> QED BY <1>3, <1>4, <2>1, <3>1, <3>2, CountsStay DEF CappedOn
  <2> QED BY <2>2, <2>3 DEF Capped, Recording
<1> QED BY <1>5, <1>6

\* A request is written only where the records of the day left room for it.
LEMMA CappedStep ==
    ASSUME Typed, Capped, [Next]_vars
    PROVE  Capped'
<1>1. /\ requests \in Seq(Requests) /\ sender \in Senders /\ LogTyped /\ faults \in Nat /\ day \in Days
      /\ posted \in [Campaigns -> [Days -> Nat]] /\ Cap \in Nat
      /\ (sender.pc # "idle" => \E h \in Messages : sender.msg = {h})
  BY OutreachAssumption DEF Typed, LogTyped, SenderTyped, CampaignsTyped
<1>2. ASSUME NEW c \in Campaigns, NEW d \in Days
      PROVE  /\ CappedOn(c, d) /\ Cardinality(Logged(c, d)) \in Nat /\ Cardinality(Loose(c, d)) \in Nat
             /\ posted[c][d] \in Nat
  BY <1>1, Counts DEF Capped
<1>3. CASE Gate /\ sender' # Idle
  <2>1. sender.pc = "gate" /\ UNCHANGED <<requests, posted, camps, faults>>
        /\ Ruling(Held) \in {"delete", "refuse", "send"}
        /\ sender' = [sender EXCEPT !.pc = Ruling(Held), !.now = day]
    BY <1>3 DEF Gate, Ruling, store, record, bounds
  <2>2. PICK m \in Messages : sender.msg = {m} /\ Held = m
    BY <1>1, <2>1, HeldIs
  <2>3. sender'.pc = Ruling(m) /\ sender'.now = day /\ sender'.msg = {m}
    BY <1>1, <2>1, <2>2 DEF Senders
  <2>4. ASSUME NEW c \in Campaigns, NEW d \in Days PROVE CappedOn(c, d)'
    <3>1. ~At("record", c, d) /\ ~At("send", c, d) /\ ~At("record", c, d)'
      BY <2>1, <2>2, <2>3 DEF At
    <3>2. At("send", c, d)' => c \in camps /\ ~(posted[c][d] >= Cap)
      BY <2>2, <2>3 DEF At, Ruling, CapReached
    <3>3. Owed(c, d)' = Owed(c, d)
      BY <2>1, <3>1, <3>2 DEF Owed
    <3> QED BY <1>1, <1>2, <2>1, <3>1, <3>2, <3>3, CountsStay DEF CappedOn
  <2> QED BY <2>1, <2>3, <2>4 DEF Capped, Recording
<1>4. CASE UNCHANGED <<requests, posted, camps>> /\ sender.pc \notin {"send", "record"}
           /\ sender'.pc \notin {"send", "record"} /\ faults' \in {faults, faults + 1}
  <2>1. ASSUME NEW c \in Campaigns, NEW d \in Days PROVE CappedOn(c, d)'
    <3>1. ~At("record", c, d) /\ ~At("send", c, d) /\ ~At("record", c, d)' /\ ~At("send", c, d)'
      BY <1>4 DEF At
    <3>2. Owed(c, d)' = Owed(c, d) /\ Owed(c, d) \in Nat
      BY <1>4, <3>1 DEF Owed
    <3> QED BY <1>1, <1>2, <1>4, <3>1, <3>2, CountsStay DEF CappedOn
  <2> QED BY <1>4, <2>1 DEF Capped, Recording
<1>5. CASE UNCHANGED <<requests, posted, camps>> /\ sender' = Idle /\ faults' = faults + 1
  <2>1. ASSUME NEW c \in Campaigns, NEW d \in Days PROVE CappedOn(c, d)'
    <3>1. ~At("record", c, d)' /\ ~At("send", c, d)'
      BY <1>5 DEF At, Idle
    <3>2. Owed(c, d) <= 1 + Owed(c, d)' /\ Owed(c, d) \in Nat /\ Owed(c, d)' \in Nat
      BY <1>5, <3>1 DEF Owed
    <3> QED BY <1>1, <1>2, <1>5, <3>1, <3>2, CountsStay DEF CappedOn
  <2> QED BY <1>5, <2>1 DEF Capped, Recording, Idle
<1>6. CASE UNCHANGED <<requests, sender, camps>>
           /\ faults' \in {faults, faults + 1}
           /\ \A c \in Campaigns, d \in Days : posted'[c][d] \in Nat /\ posted[c][d] <= posted'[c][d]
  <2>1. ASSUME NEW c \in Campaigns, NEW d \in Days PROVE CappedOn(c, d)'
    <3>1. (At("record", c, d)' <=> At("record", c, d)) /\ (At("send", c, d)' <=> At("send", c, d))
      BY <1>6 DEF At
    <3>2. Owed(c, d)' = Owed(c, d) /\ Owed(c, d) \in Nat
      BY <1>6, <3>1 DEF Owed
    <3> QED BY <1>1, <1>2, <1>6, <3>1, <3>2, CountsStay DEF CappedOn
  <2> QED BY <1>6, <2>1 DEF Capped, Recording
<1>7. CASE Writes
  <2>1. PICK k \in SentThreads : posted' = [posted EXCEPT ![k.camp][day] = @ + 1]
    BY <1>7 DEF Writes
  <2>2. UNCHANGED <<requests, sender, camps, faults>>
    BY <1>7 DEF Writes, Happens
  <2>3. \A c \in Campaigns, d \in Days : posted'[c][d] \in Nat /\ posted[c][d] <= posted'[c][d]
    BY <1>1, <2>1
  <2> QED BY <1>6, <2>2, <2>3
<1>8. CASE Kill
  <2>1. PICK k \in camps : /\ camps' = camps \ {k}
                          /\ posted' = [posted EXCEPT ![k] = [d \in 0 .. MaxDay |-> 0]]
    BY <1>8 DEF Kill
  <2>2. UNCHANGED <<requests, sender, faults>>
    BY <1>8 DEF Kill, Order
  <2>3. ASSUME NEW c \in Campaigns, NEW d \in Days PROVE CappedOn(c, d)'
    <3>1. (At("record", c, d)' <=> At("record", c, d)) /\ (At("send", c, d)' <=> At("send", c, d))
          /\ ~(At("record", c, d) /\ At("send", c, d))
      BY <2>2 DEF At
    <3>2. Owed(c, d) <= Owed(c, d)' /\ Owed(c, d) \in Nat /\ Owed(c, d)' \in Nat
      BY <2>1, <3>1 DEF Owed
    <3>3. c \in camps' => c \in camps /\ posted'[c][d] = posted[c][d]
      BY <1>1, <2>1
    <3> QED BY <1>1, <1>2, <2>2, <3>1, <3>2, <3>3, CountsStay DEF CappedOn
  <2> QED BY <2>2, <2>3 DEF Capped, Recording
<1>9. CASE Receive \/ Refuse \/ Delete \/ (Gate /\ sender' = Idle)
  <2>1. UNCHANGED <<requests, posted, camps, faults>>
    BY <1>9 DEF Receive, Refuse, Delete, Gate, store, record, bounds
  <2>2. sender.pc \notin {"send", "record"}
    BY <1>9 DEF Receive, Refuse, Delete, Gate
  <2>3. sender'.pc \notin {"send", "record"}
    BY <1>1, <1>9 DEF Receive, Refuse, Delete, Gate, Idle, Senders
  <2> QED BY <1>4, <2>1, <2>2, <2>3
<1>10. CASE DigestBounces \/ Fails \/ Crash
  <2>1. /\ UNCHANGED <<requests, posted, camps>> /\ faults' = faults + 1
        /\ (sender' = Idle \/ UNCHANGED sender)
    BY <1>10 DEF DigestBounces, Fails, Crash, Fault, store, record
  <2> QED BY <1>1, <1>5, <1>6, <2>1
<1>11. CASE UNCHANGED <<requests, sender, camps, posted, faults>>
  BY <1>1, <1>6, <1>11
<1> QED BY <1>3, <1>7, <1>8, <1>9, <1>10, <1>11, CappedDeliver, CappedRecord, CapsChange

\* A campaign sends no more requests a day than its cap, but for one that a fault or its own kill
\* parted from its record.
THEOREM CapKept == Spec => []CapHolds
<1>1. Init => Capped
  <2> SUFFICES ASSUME Init PROVE Capped
    OBVIOUS
  <2>1. /\ requests = <<>> /\ faults = 0 /\ sender.pc = "idle"
        /\ posted = [c \in Campaigns |-> [d \in Days |-> 0]]
    BY DEF Init, Idle, Days
  <2>2. ASSUME NEW c \in Campaigns, NEW d \in Days PROVE CappedOn(c, d)
    <3>1. Logged(c, d) = {} /\ Loose(c, d) = {}
      BY <2>1 DEF Logged, Loose, Mails
    <3>2. Cardinality({}) = 0
      BY FS_EmptySet
    <3>3. ~At("record", c, d) /\ ~At("send", c, d) /\ Owed(c, d) \in Nat
      BY <2>1 DEF At, Owed
    <3> QED BY <2>1, <3>1, <3>2, <3>3, OutreachAssumption DEF CappedOn
  <2> QED BY <2>1, <2>2 DEF Capped, Recording
<1>2. Typed /\ Capped /\ [Next]_vars => Capped'
  BY CappedStep
<1>3. Typed /\ Capped => CapHolds
  <2> SUFFICES ASSUME Typed, Capped, NEW c \in Campaigns, NEW d \in Days
               PROVE  Cardinality(Mails(c, d)) <= Cap + faults + IF c \in camps THEN 0 ELSE 1
    BY DEF CapHolds, Mails, Days
  <2>1. LogTyped /\ faults \in Nat /\ Cap \in Nat /\ CappedOn(c, d)
    BY OutreachAssumption DEF Typed, CampaignsTyped, Capped
  <2>2. Cardinality(Mails(c, d)) = Cardinality(Logged(c, d)) + Cardinality(Loose(c, d))
        /\ Cardinality(Logged(c, d)) \in Nat /\ Cardinality(Loose(c, d)) \in Nat
    BY <2>1, Counts
  <2> QED BY <2>1, <2>2 DEF CappedOn, Owed
<1> QED BY TypedAlways, <1>1, <1>2, <1>3, PTL DEF Spec

===============================================================================
