------------------------------- MODULE Outreach -------------------------------
(***************************************************************************)
(* Several record campaigns that mail the same offices, and their operator.*)
(* One process runs the contacts thread (consent, daily cap, cooldown,     *)
(* anonymous-state guard, then draft, mail and record), the watcher of the *)
(* dead letters, and the digest that tells the operator of escalations and *)
(* fees.  The operator starts, stops and kills campaigns, resolves         *)
(* escalations and approves contacts.                                      *)
(*                                                                         *)
(* Time is a day counter: the cap counts from UTC midnight and the cooldown*)
(* in days, while a message comes back within the hour.  The life of a     *)
(* thread after its request is in Correspondence; here it is a source of   *)
(* mails, referrals, escalations and fees.                                 *)
(***************************************************************************)
EXTENDS Naturals, Sequences, FiniteSets

CONSTANTS
    Campaigns, Offices,
    SeedSets,     \* what the seed pass and the search may have put in pr-contacts
    Tests,        \* campaigns with test contacts: no cooldown holds them back, and they stamp none
    Anonymous,    \* campaigns of an anonymous requester
    Guarded,      \* offices in ANON_BLOCKED_STATES
    Notified,     \* campaigns with a notify_email
    Cap,          \* daily_send_cap
    Cooldown,     \* per_office_cooldown_days
    MaxReceive,   \* MAX_RECEIVE_SENDER
    MaxDay,       \* bound: days in a behaviour
    MaxFaults,    \* bound: crashes, handlers that raise, failing mails
    MaxReplies,   \* bound: what the threads bring about
    MaxOrders     \* bound: acts of the operator

Threads  == [camp : Campaigns, office : Offices, to : {"office", "referral"}]
Messages == [camp : Campaigns, office : Offices, to : {"office", "referral"}, bypass : BOOLEAN]
ThreadOf(m) == [camp |-> m.camp, office |-> m.office, to |-> m.to]
Contact(k, bypass) == [camp |-> k.camp, office |-> k.office, to |-> k.to, bypass |-> bypass]

ASSUME OutreachAssumption ==
    /\ SeedSets \subseteq SUBSET {m \in Messages : m.to = "office" /\ (m.bypass <=> m.camp \in Tests)}
    /\ Tests \subseteq Campaigns /\ Anonymous \subseteq Campaigns /\ Notified \subseteq Campaigns
    /\ Guarded \subseteq Offices
    /\ {Cap, Cooldown, MaxReceive, MaxDay, MaxFaults, MaxReplies, MaxOrders} \subseteq Nat

VARIABLES
    day,
    camps,      \* rows of campaigns
    active,     \* those that run
    last,       \* office -> day of last_contacted_at, from 1; 0 for never
    threads,    \* rows of email_threads: thread -> status
    posted,     \* campaign -> day -> outbound rows of emails
    queue,      \* pr-contacts: message -> receives so far
    dead,       \* its dead-letter queue
    sender,     \* the contacts thread
    drain,      \* the dead letter being escalated, at most one
    alerts,     \* rows of escalations and spend_entries: id -> row
    digest,     \* the digest concern
    requests,   \* every request that left, in order
    shown,      \* id -> digests that carried the row
    asked,      \* every message there was
    stopped,    \* campaigns that were stopped at some time
    faults, replies, orders

store   == <<camps, active, last, threads, posted, alerts>>
record  == <<requests, shown, asked, stopped>>
bounds  == <<faults, replies, orders>>
vars    == <<day, store, queue, dead, sender, drain, digest, record, bounds>>

Rows   == [camp : Campaigns, kind : {"escalation", "fee"}, about : SUBSET Messages, thread : SUBSET Threads,
           open : BOOLEAN, notified : BOOLEAN]
Idle   == [pc |-> "idle", msg |-> {}, now |-> 0]
Asleep == [pc |-> "idle", camp |-> {}, rows |-> {}]

Without(f, x) == [y \in DOMAIN f \ {x} |-> f[y]]
With(f, x, v) == [y \in DOMAIN f \cup {x} |-> IF y = x THEN v ELSE f[y]]
Held == CHOOSE m \in sender.msg : TRUE

\* Seeded campaigns that run, on offices nobody has asked yet.
Init ==
    /\ day = 0
    /\ asked \in SeedSets
    /\ camps = {m.camp : m \in asked} /\ active = camps
    /\ last = [o \in Offices |-> 0]
    /\ threads = [k \in {} |-> "sent"]
    /\ posted = [c \in Campaigns |-> [d \in 0 .. MaxDay |-> 0]]
    /\ queue = [m \in asked |-> 0] /\ dead = {}
    /\ sender = Idle /\ drain = {} /\ digest = Asleep
    /\ alerts = [a \in {} |-> {}] /\ shown = <<>>
    /\ requests = <<>> /\ stopped = {}
    /\ faults = 0 /\ replies = 0 /\ orders = 0

\* insert_escalation, book_fee: a row with the next id, unnotified.
Told(c, kind, about, thread) ==
    /\ alerts' = With(alerts, Len(shown) + 1,
                      [camp |-> c, kind |-> kind, about |-> about, thread |-> thread,
                       open |-> TRUE, notified |-> FALSE])
    /\ shown' = Append(shown, 0)

-----------------------------------------------------------------------------
(* The contacts thread: one message at a time, all campaigns together.     *)

\* Faulty variant: one receive more.
DeliverableOnceMore(m) == queue[m] <= MaxReceive

Deliverable(m) == queue[m] < MaxReceive

Receive ==
    /\ sender.pc = "idle"
    /\ \E m \in DOMAIN queue :
          /\ Deliverable(m)
          /\ queue' = [queue EXCEPT ![m] = @ + 1]
          /\ sender' = [pc |-> "gate", msg |-> {m}, now |-> 0]
    /\ UNCHANGED <<day, store, dead, drain, digest, record, bounds>>

\* Another thread of the triple exists, and does not wait for an approved send.
Taken(m) == ThreadOf(m) \in DOMAIN threads /\ threads[ThreadOf(m)] # "pending"

\* Faulty variant: the cap is passed before it is noticed.
CapReachedAfter(c) == posted[c][day] > Cap

\* count_outbound_since(UTC midnight), all kinds.
CapReached(c) == posted[c][day] >= Cap

\* Faulty variant: the clock is looked for among the campaign's own mails.
CoolingOwn(m) ==
    ~m.bypass /\ \E i \in DOMAIN requests :
        requests[i].camp = m.camp /\ requests[i].office = m.office /\ day < requests[i].day + Cooldown

\* The clock is on the jurisdiction row the campaigns share.
Cooling(m) == ~m.bypass /\ last[m.office] # 0 /\ day + 1 < last[m.office] + Cooldown

\* Faulty variant: a throttled message is done with.
RulingDrops(m) ==
    CASE m.camp \notin camps \/ Taken(m) \/ m.camp \notin active -> "delete"
      [] CapReached(m.camp) \/ Cooling(m) -> "delete"
      [] m.camp \in Anonymous /\ m.office \in Guarded -> "refuse"
      [] OTHER -> "send"

\* The gates in their order.  A throttled message is left to come back.
Ruling(m) ==
    CASE m.camp \notin camps \/ Taken(m) \/ m.camp \notin active -> "delete"
      [] CapReached(m.camp) \/ Cooling(m) -> "idle"
      [] m.camp \in Anonymous /\ m.office \in Guarded -> "refuse"
      [] OTHER -> "send"

\* handle_contact up to its verdict.  Its reads are transactions of their own; nothing but this
\* thread stamps an office or opens a thread, so they agree with one moment.
Gate ==
    /\ sender.pc = "gate"
    /\ sender' = IF Ruling(Held) = "idle" THEN Idle ELSE [sender EXCEPT !.pc = Ruling(Held), !.now = day]
    /\ UNCHANGED <<day, store, queue, dead, drain, digest, record, bounds>>

\* The anonymous-state guard escalates and parks a thread waiting for its send.  In a campaign
\* killed meanwhile the foreign key refuses the row, and the handler raises.
Refuse ==
    LET k == ThreadOf(Held) IN
    /\ sender.pc = "refuse"
    /\ IF Held.camp \in camps
       THEN /\ Told(Held.camp, "escalation", {Held}, {k} \cap DOMAIN threads)
            /\ threads' = [j \in DOMAIN threads |-> IF j = k THEN "parked" ELSE threads[j]]
            /\ sender' = [sender EXCEPT !.pc = "delete"]
       ELSE sender' = Idle /\ UNCHANGED <<alerts, shown, threads>>
    /\ UNCHANGED <<day, camps, active, last, posted, queue, dead, drain, digest, requests, asked, stopped, bounds>>

\* Drafted and handed to the transport.  The request bears the time of its gate.
Deliver ==
    /\ sender.pc = "send"
    /\ requests' = Append(requests, [camp |-> Held.camp, office |-> Held.office, bypass |-> Held.bypass,
                                     day |-> sender.now, logged |-> FALSE])
    /\ sender' = [sender EXCEPT !.pc = "record"]
    /\ UNCHANGED <<day, store, queue, dead, drain, digest, shown, asked, stopped, bounds>>

\* The foreign key on campaigns.
Recordable(m) == m.camp \in camps

\* record_initial_send: thread, mail and clock in one transaction, or an exception.
Record ==
    /\ sender.pc = "record"
    /\ IF Recordable(Held)
       THEN /\ threads' = With(threads, ThreadOf(Held), "sent")
            /\ posted' = [posted EXCEPT ![Held.camp][sender.now] = @ + 1]
            /\ last' = IF Held.camp \in Tests THEN last ELSE [last EXCEPT ![Held.office] = sender.now + 1]
            /\ requests' = [requests EXCEPT ![Len(requests)].logged = TRUE]
            /\ sender' = [sender EXCEPT !.pc = "delete"]
       ELSE sender' = Idle /\ UNCHANGED <<threads, posted, last, requests>>
    /\ UNCHANGED <<day, camps, active, alerts, queue, dead, drain, digest, shown, asked, stopped, bounds>>

Delete ==
    /\ sender.pc = "delete"
    /\ queue' = Without(queue, Held) /\ sender' = Idle
    /\ UNCHANGED <<day, store, dead, drain, digest, record, bounds>>

-----------------------------------------------------------------------------
(* Dead letters.                                                           *)

DeadLetter ==
    /\ \E m \in DOMAIN queue :
          /\ ~Deliverable(m) /\ m \notin sender.msg
          /\ dead' = dead \cup {m} /\ queue' = Without(queue, m)
    /\ UNCHANGED <<day, store, sender, drain, digest, record, bounds>>

\* The escalation of a killed campaign's letter is refused by its foreign key, at every drain.
Drainable(m) == m.camp \in camps

\* drain_dlq: an escalation without a thread, for the payload names none.
DrainTake ==
    /\ drain = {}
    /\ \E m \in dead : Drainable(m) /\ drain' = {m} /\ Told(m.camp, "escalation", {m}, {})
    /\ UNCHANGED <<day, camps, active, last, threads, posted, queue, dead, sender, digest, requests, asked, stopped, bounds>>

DrainDelete ==
    /\ drain # {} /\ dead' = dead \ drain /\ drain' = {}
    /\ UNCHANGED <<day, store, queue, sender, digest, record, bounds>>

-----------------------------------------------------------------------------
(* The digest.                                                             *)

\* Faulty variant: stopped campaigns are passed over.
ListedActive == active

\* list_campaigns, stopped ones included.  The list may be older than the rows, but a campaign
\* killed since has no rows.
Listed == camps

\* unnotified_escalations and unnotified_spend: open escalations, and fees.
Unnotified(c) ==
    {a \in DOMAIN alerts : /\ alerts[a].camp = c /\ ~alerts[a].notified
                           /\ (alerts[a].kind = "escalation" => alerts[a].open)}

\* send_digests, at one campaign of its list: the rows are read before the mail is written.
DigestReads ==
    /\ digest.pc = "idle"
    /\ \E c \in Listed \cap Notified :
          Unnotified(c) # {} /\ digest' = [pc |-> "mail", camp |-> {c}, rows |-> Unnotified(c)]
    /\ UNCHANGED <<day, store, queue, dead, sender, drain, record, bounds>>

\* Every row is counted in the mail, though only 25 of a kind are spelled out.
DigestMail ==
    /\ digest.pc = "mail"
    /\ shown' = [a \in DOMAIN shown |-> shown[a] + IF a \in digest.rows THEN 1 ELSE 0]
    /\ digest' = [digest EXCEPT !.pc = "escalations"]
    /\ UNCHANGED <<day, store, queue, dead, sender, drain, requests, asked, stopped, bounds>>

\* A SendTransientError passes the campaign over until the next period.
DigestBounces ==
    /\ digest.pc = "mail" /\ faults < MaxFaults /\ faults' = faults + 1
    /\ digest' = Asleep
    /\ UNCHANGED <<day, store, queue, dead, sender, drain, record, replies, orders>>

\* Faulty variant: what the campaign has is marked, not what the digest carried.
CarriedAll(kind) == {a \in DOMAIN alerts : {alerts[a].camp} = digest.camp /\ alerts[a].kind = kind}

\* The rows read before the mail, one table at a time.
Carried(kind) == {a \in digest.rows \cap DOMAIN alerts : alerts[a].kind = kind}

Marked(ids) == [a \in DOMAIN alerts |-> IF a \in ids THEN [alerts[a] EXCEPT !.notified = TRUE] ELSE alerts[a]]

MarkEscalations ==
    /\ digest.pc = "escalations"
    /\ alerts' = Marked(Carried("escalation"))
    /\ digest' = [digest EXCEPT !.pc = "fees"]
    /\ UNCHANGED <<day, camps, active, last, threads, posted, queue, dead, sender, drain, record, bounds>>

MarkFees ==
    /\ digest.pc = "fees"
    /\ alerts' = Marked(Carried("fee"))
    /\ digest' = Asleep
    /\ UNCHANGED <<day, camps, active, last, threads, posted, queue, dead, sender, drain, record, bounds>>

-----------------------------------------------------------------------------
(* What the threads bring about; Correspondence takes these apart.  One    *)
(* referral and one approval per thread bound the messages.                *)

Happens == replies < MaxReplies /\ replies' = replies + 1
           /\ UNCHANGED <<day, camps, active, last, dead, sender, drain, digest, requests, stopped, faults, orders>>

SentThreads == {k \in DOMAIN threads : threads[k] = "sent"}

\* A follow-up, a reply or a fee agreement: counted by the cap, not gated by it.
Writes ==
    /\ Happens
    /\ \E k \in SentThreads : posted' = [posted EXCEPT ![k.camp][day] = @ + 1]
    /\ UNCHANGED <<threads, alerts, shown, queue, asked>>

Escalates ==
    /\ Happens
    /\ \E k \in SentThreads :
          /\ threads' = [threads EXCEPT ![k] = "parked"]
          /\ Told(k.camp, "escalation", {}, {k})
    /\ UNCHANGED <<posted, queue, asked>>

Books ==
    /\ Happens
    /\ \E k \in SentThreads : Told(k.camp, "fee", {}, {k})
    /\ UNCHANGED <<threads, posted, queue, asked>>

Refers ==
    /\ Happens
    /\ \E k \in SentThreads :
          LET m == Contact([k EXCEPT !.to = "referral"], TRUE) IN
          /\ k.to = "office" /\ m \notin asked
          /\ threads' = [threads EXCEPT ![k] = "referred"]
          /\ queue' = With(queue, m, 0) /\ asked' = asked \cup {m}
    /\ UNCHANGED <<posted, alerts, shown>>

-----------------------------------------------------------------------------
(* The operator.                                                           *)

Order == orders < MaxOrders /\ orders' = orders + 1
         /\ UNCHANGED <<day, last, dead, sender, drain, digest, requests, shown, faults, replies>>

SetActive ==
    /\ Order
    /\ \E c \in camps :
          /\ active' = IF c \in active THEN active \ {c} ELSE active \cup {c}
          /\ stopped' = stopped \cup {c}
    /\ UNCHANGED <<camps, threads, posted, alerts, queue, asked>>

\* Without a thread in the escalation the status asked for is ignored.
Resolve ==
    /\ Order
    /\ \E a \in DOMAIN alerts :
          /\ alerts[a].kind = "escalation"
          /\ alerts' = [alerts EXCEPT ![a].open = FALSE]
    /\ UNCHANGED <<camps, active, threads, posted, queue, asked, stopped>>

\* Resolved to pending_send: the thread waits for the approved contact.  Where that is the very
\* message the thread began with (a test contact), one copy of it is kept apart at a time.
Approve ==
    /\ Order
    /\ \E a \in DOMAIN alerts : \E k \in alerts[a].thread :
          LET m == Contact(k, TRUE) IN
          /\ alerts[a].kind = "escalation" /\ m \notin DOMAIN queue \cup dead
          /\ alerts' = [alerts EXCEPT ![a].open = FALSE]
          /\ threads' = [threads EXCEPT ![k] = "pending"]
          /\ queue' = With(queue, m, 0) /\ asked' = asked \cup {m}
    /\ UNCHANGED <<camps, active, posted, stopped>>

\* purge_campaign: every row of the campaign in one transaction.  Its queued messages and the
\* clocks of its offices stay; the Redis keys and documents that go too are no part of this.
Kill ==
    /\ Order
    /\ \E c \in camps :
          /\ camps' = camps \ {c} /\ active' = active \ {c}
          /\ threads' = [k \in {j \in DOMAIN threads : j.camp # c} |-> threads[k]]
          /\ alerts' = [a \in {b \in DOMAIN alerts : alerts[b].camp # c} |-> alerts[a]]
          /\ posted' = [posted EXCEPT ![c] = [d \in 0 .. MaxDay |-> 0]]
    /\ UNCHANGED <<queue, asked, stopped>>

-----------------------------------------------------------------------------
(* Time and faults.                                                        *)

NextDay ==
    /\ day < MaxDay /\ day' = day + 1
    /\ UNCHANGED <<store, queue, dead, sender, drain, digest, record, bounds>>

Fault == faults < MaxFaults /\ faults' = faults + 1
         /\ UNCHANGED <<day, store, queue, dead, record, replies, orders>>

\* A draft, a mail, a queue or the store fails and the handler raises or answers False; a
\* concern or the watcher raises.  Each is caught by its loop.
Fails ==
    /\ Fault
    /\ \/ sender.pc # "idle" /\ sender' = Idle /\ UNCHANGED <<drain, digest>>
       \/ drain # {} /\ drain' = {} /\ UNCHANGED <<sender, digest>>
       \/ digest.pc # "idle" /\ digest' = Asleep /\ UNCHANGED <<sender, drain>>

\* The process, with all its threads.
Crash == Fault /\ sender' = Idle /\ drain' = {} /\ digest' = Asleep

-----------------------------------------------------------------------------
Send      == Receive \/ Gate \/ Refuse \/ Deliver \/ Record \/ Delete
DrainStep == DrainTake \/ DrainDelete
Tell      == DigestReads \/ DigestMail \/ MarkEscalations \/ MarkFees

Next ==
    \/ Send \/ DeadLetter \/ DrainStep \/ Tell \/ DigestBounces
    \/ Writes \/ Escalates \/ Books \/ Refers
    \/ SetActive \/ Resolve \/ Approve \/ Kill
    \/ NextDay \/ Fails \/ Crash

Spec == Init /\ [][Next]_vars

\* The loops of the process turn and the queue hands out what is visible.
FairSpec == Spec /\ WF_vars(Send) /\ WF_vars(DeadLetter) /\ WF_vars(DrainStep) /\ WF_vars(Tell)

-----------------------------------------------------------------------------
\* Every variable has its type, and every row refers to a campaign there is.
TypeOK ==
    /\ day \in 0 .. MaxDay /\ active \subseteq camps /\ camps \subseteq Campaigns
    /\ \A o \in Offices : last[o] \in 0 .. MaxDay + 1
    /\ DOMAIN threads \subseteq {k \in Threads : k.camp \in camps}
    /\ \A k \in DOMAIN threads : threads[k] \in {"sent", "pending", "parked", "referred"}
    /\ DOMAIN queue \subseteq asked /\ dead \subseteq asked /\ asked \subseteq Messages
    /\ \A m \in DOMAIN queue : queue[m] \in 0 .. MaxReceive
    /\ sender.pc \in {"idle", "gate", "refuse", "send", "record", "delete"}
    /\ sender.msg \subseteq DOMAIN queue /\ drain \subseteq dead
    /\ DOMAIN alerts \subseteq DOMAIN shown
    /\ \A a \in DOMAIN alerts : alerts[a] \in Rows /\ alerts[a].camp \in camps

\* A campaign sends no more requests a day than its cap, whatever else it mails and however often
\* messages come back; one more only by a crash, an exception or a kill between mail and record.
CapHolds ==
    \A c \in Campaigns, d \in 0 .. MaxDay :
        Cardinality({i \in DOMAIN requests : requests[i].camp = c /\ requests[i].day = d})
            <= Cap + faults + IF c \in camps THEN 0 ELSE 1

\* An office that a campaign has a record of asking is not asked again within the cooldown, by no
\* campaign, also when the first one was killed since; only a human, a referral or a test campaign,
\* whose mail goes to an address of its configuration, passes it over.
CooldownHolds ==
    \A i, j \in DOMAIN requests :
        /\ i < j /\ requests[i].office = requests[j].office
        /\ requests[i].logged /\ requests[i].camp \notin Tests /\ ~requests[j].bypass
        => requests[i].day + Cooldown <= requests[j].day

\* No contact of a campaign that was left running is lost: it waits, is a dead letter, has its
\* thread, or is in an escalation, whatever fails.
NoContactVanishes ==
    \A m \in asked : m.camp \in camps \ stopped =>
        \/ m \in DOMAIN queue \cup dead
        \/ ThreadOf(m) \in DOMAIN threads
        \/ \E a \in DOMAIN alerts : m \in alerts[a].about

\* A row is only marked after a digest carried it, and is carried twice only if something failed
\* between a digest and its marks (digest.py: "each row alerted exactly once").
AlertedOnce ==
    /\ \A a \in DOMAIN alerts : alerts[a].notified => shown[a] > 0
    /\ \A a \in DOMAIN shown : shown[a] <= 1 + faults

\* Every contact of a campaign is in the end sent, dropped or escalated, and every fee and open
\* escalation of a campaign with an address for it is in the end in a digest.
NothingIsForgotten ==
    []<>(/\ DOMAIN queue = {}
         /\ \A m \in dead : m.camp \notin camps
         /\ \A c \in camps \cap Notified, a \in DOMAIN alerts :
               alerts[a].camp = c /\ (alerts[a].kind = "escalation" => alerts[a].open) => shown[a] > 0)
=============================================================================
