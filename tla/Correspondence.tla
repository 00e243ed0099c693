---------------------------- MODULE Correspondence ----------------------------
(***************************************************************************)
(* The life of a records request: the contact sender opens a thread, the   *)
(* orchestrator's scan follows silent threads up, the receiver logs what   *)
(* the office answers and reacts, the dead-letter watcher and the operator *)
(* step in.  All of them move the status of one email_threads row: each    *)
(* reads it, checks the transition and writes it in separate statements of *)
(* a READ COMMITTED transaction that takes no lock on the row.             *)
(*                                                                         *)
(* One process runs one thread per queue, so no message is held twice, and *)
(* an actor is named by the queue it consumes.  A follow-up interval that  *)
(* ends while a job for the thread is still under way is a fault.          *)
(***************************************************************************)
EXTENDS Naturals, FiniteSets, Functions

CONSTANTS
    Threads,        \* (campaign, jurisdiction, contact_email) triples of one campaign
    Mails,          \* inbound mails, by message id
    MaxFollowups,   \* limits.max_followups
    Budget,         \* limits.fee_budget_cents
    Amounts,        \* fees an office asks for
    MaxReceive,     \* MAX_RECEIVE_INBOUND, MAX_RECEIVE_SENDER
    MaxHuman,       \* bound: escalations of a thread the operator resolves
    MaxFaults       \* bound: faults in a behaviour

ASSUME ParamAssumption ==
    /\ MaxFollowups \in Nat /\ Budget \in Nat /\ Amounts \subseteq Nat \ {0}
    /\ MaxReceive \in Nat \ {0} /\ MaxHuman \in Nat /\ MaxFaults \in Nat
    /\ IsFiniteSet(Threads) /\ IsFiniteSet(Mails)

VARIABLES
    active,     \* campaigns.active and consent_confirmed
    thread,     \* email_threads: triple -> row, NoRow when there is none
    msgs,       \* messages of the queues and their dead-letter queues, not deleted
    at,         \* actor -> what it is doing
    arrived,    \* mails in the mail bucket
    logged,     \* inbound emails rows: mail, and whether a thread was matched
    reacted,    \* mails whose reaction ran to its end
    mailed,     \* threads whose office was sent a request
    requests,   \* thread -> INITIAL_REQUEST rows
    replies,    \* mail -> outbound rows in reply to it
    booked,     \* mail -> cents booked to the ledger for it
    open,       \* thread -> open escalations
    approved,   \* thread -> times the operator sent it back to pending_send
    resolved,   \* thread -> escalations the operator resolved
    faults

rows    == <<requests, replies, booked, open>>
human   == <<approved, resolved>>
mailbox == <<arrived, logged, reacted>>
vars    == <<active, thread, msgs, at, mailbox, mailed, rows, human, faults>>

OpenStatuses == {"request_sent", "awaiting_reply"}
Statuses == OpenStatuses \cup {"pending_send", "fulfilled", "referred", "needs_human", "failed"}

\* _AUTO_TRANSITIONS and check_transition: staying put is always allowed.
AutoTransitions(s) ==
    CASE s = "pending_send" -> {"request_sent", "needs_human"}
      [] s = "request_sent" -> {"awaiting_reply", "fulfilled", "referred", "needs_human"}
      [] s = "awaiting_reply" -> {"fulfilled", "referred", "needs_human"}
      [] OTHER -> {}
Allowed(old, new) == new = old \/ new \in AutoTransitions(old)

Senders   == {"contacts", "followups"}
Consumers == Senders \cup {"inbound", "dead"}
Actors    == Consumers \cup {"scan", "operator"}
JobKinds  == {"followup", "clarification_reply", "fee_agreement"}
Kinds     == JobKinds \cup {"seeded", "referral", "human_approved", "reply", "stray"}
NoRef     == 0

NoRow  == [status |-> "none", next |-> "null", followups |-> 0]
Rows   == [status : Statuses, next : {"null", "later", "due"}, followups : Nat]
ArrivedMails == [m : Mails, t : Threads, kind : {"reply", "stray"}]
Messages == [q : Consumers, t : Threads, kind : Kinds, ref : Mails \cup Nat,
             copy : Nat \ {0}, receives : 0 .. MaxReceive]
NoMsg == [q |-> "none"]
NoThread == "none"
Idle == [pc |-> "idle", msg |-> NoMsg, t |-> NoThread, seen |-> NoRow, to |-> "none",
         next |-> "null", todo |-> {}]
Controls == [pc : {"idle", "start", "read", "deliver", "record", "log", "react", "agree", "next",
                   "check", "write", "approve", "delete"},
             msg : Messages \cup {NoMsg}, t : Threads \cup {NoThread}, seen : Rows \cup {NoRow},
             to : Statuses \cup {"none"}, next : {"null", "later", "due"},
             todo : SUBSET (Threads \X Rows)]

TypeOK == /\ active \in BOOLEAN
          /\ thread \in [Threads -> Rows \cup {NoRow}]
          /\ msgs \subseteq Messages
          /\ \A a \in Actors : at[a] \in Controls
          /\ arrived \subseteq ArrivedMails
          /\ logged \subseteq Mails \X BOOLEAN
          /\ reacted \subseteq Mails
          /\ mailed \subseteq Threads
          /\ requests \in [Threads -> Nat] /\ replies \in [Mails -> Nat]
          /\ booked \in [Mails -> Nat] /\ open \in [Threads -> Nat]
          /\ approved \in [Threads -> Nat] /\ resolved \in [Threads -> 0 .. MaxHuman]
          /\ faults \in 0 .. MaxFaults

Unused(S) == CHOOSE c \in 1 .. Cardinality(S) + 1 : c \notin S

\* A message to a queue, told apart from an equal one that is still there.
Post(S, q, t, kind, ref) ==
    LET equal == {m \in S : m.q = q /\ m.t = t /\ m.kind = kind /\ m.ref = ref}
    IN S \cup {[q |-> q, t |-> t, kind |-> kind, ref |-> ref, receives |-> 0,
                copy |-> Unused({m.copy : m \in equal})]}

Zero(S) == [x \in S |-> 0]

\* The scraper and the seed pass have enqueued their contacts.
Init == /\ active = TRUE
        /\ thread = [t \in Threads |-> NoRow]
        /\ msgs = {[q |-> "contacts", t |-> t, kind |-> "seeded", ref |-> NoRef, copy |-> 1,
                    receives |-> 0] : t \in Threads}
        /\ at = [a \in Actors |-> Idle]
        /\ arrived = {} /\ logged = {} /\ reacted = {} /\ mailed = {}
        /\ requests = Zero(Threads) /\ replies = Zero(Mails) /\ booked = Zero(Mails)
        /\ open = Zero(Threads)
        /\ approved = Zero(Threads) /\ resolved = Zero(Threads)
        /\ faults = 0

Fault == faults < MaxFaults /\ faults' = faults + 1
NoFault == UNCHANGED faults

IsOpen(t) == thread[t].status \in OpenStatuses
At(a, pc) == at[a].pc = pc
Become(a, c) == at' = [at EXCEPT ![a] = c]
Goto(a, pc) == Become(a, [at[a] EXCEPT !.pc = pc])

\* The actor about to call set_thread_status (or the status part of a send's record).
Setting(a, t, to, next) == [at[a] EXCEPT !.pc = "check", !.t = t, !.to = to, !.next = next]

\* Faulty variant: the thread is parked and nobody is told.
Untold(t) == open

\* escalate: the escalation first, then the attempt to park the thread.
Told(t) == [open EXCEPT ![t] = @ + 1]
Escalate(a, t) == open' = Told(t) /\ Become(a, Setting(a, t, "needs_human", "null"))

-----------------------------------------------------------------------------
(* process_queue, drain_dlq.                                               *)

\* Faulty variant: one delivery more than the redrive policy allows.
DeliverableOnceMore(m) == m.q = "dead" \/ m.receives <= MaxReceive

\* The dead-letter queues have no redrive policy of their own.
Deliverable(m) == m.q = "dead" \/ m.receives < MaxReceive

Receive(q) ==
    /\ At(q, "idle")
    /\ \E m \in msgs :
         LET r == IF q = "dead" THEN m ELSE [m EXCEPT !.receives = @ + 1]
         IN /\ m.q = q /\ Deliverable(m)
            /\ msgs' = (msgs \ {m}) \cup {r}
            /\ Become(q, [Idle EXCEPT !.pc = "start", !.msg = r, !.t = r.t])
    /\ UNCHANGED <<active, thread, mailbox, mailed, rows, human>> /\ NoFault

Delete(q) ==
    /\ At(q, "delete")
    /\ msgs' = msgs \ {at[q].msg}
    /\ Become(q, Idle)
    /\ UNCHANGED <<active, thread, mailbox, mailed, rows, human>> /\ NoFault

Held(m) == \E q \in Consumers : at[q].msg = m

\* The redrive policy, once the last receive has run out.
DeadLetter ==
    /\ \E m \in msgs : /\ ~Deliverable(m) /\ ~Held(m)
                       /\ msgs' = Post(msgs \ {m}, "dead", m.t, m.kind, m.ref)
    /\ UNCHANGED <<active, thread, at, mailbox, mailed, rows, human>> /\ NoFault

\* The handler returns False or raises, or the scan's concern does: the message stays.
Fails(a) ==
    /\ ~At(a, "idle")
    /\ Become(a, Idle)
    /\ Fault
    /\ UNCHANGED <<active, thread, msgs, mailbox, mailed, rows, human>>

\* The process dies with everything its threads hold.
Crash ==
    /\ \E a \in Actors \ {"operator"} : ~At(a, "idle")
    /\ at' = [a \in Actors |-> IF a = "operator" THEN at[a] ELSE Idle]
    /\ Fault
    /\ UNCHANGED <<active, thread, msgs, mailbox, mailed, rows, human>>

\* A dead-lettered job names its thread; the other messages only leave an escalation without one.
Drain ==
    /\ At("dead", "start")
    /\ IF at["dead"].msg.kind \in JobKinds
       THEN Escalate("dead", at["dead"].t)
       ELSE Goto("dead", "delete") /\ UNCHANGED open
    /\ UNCHANGED <<active, thread, msgs, mailbox, mailed, requests, replies, booked, human>>
    /\ NoFault

-----------------------------------------------------------------------------
(* set_thread_status: the check and the write are two statements.          *)

\* What the actor does when its status is set, or the refusal to park was swallowed.
AfterStatus(a) ==
    CASE a = "scan" -> IF at[a].todo = {} THEN Idle ELSE [Idle EXCEPT !.pc = "next", !.todo = at[a].todo]
      [] a = "operator" -> IF at[a].to = "pending_send" THEN [at[a] EXCEPT !.pc = "approve"] ELSE Idle
      [] OTHER -> [at[a] EXCEPT !.pc = "delete"]
Reacted(a) == IF a = "inbound" THEN reacted \cup {at[a].msg.ref} ELSE reacted

\* IllegalTransition is swallowed by escalate only; elsewhere it leaves the handler.
Check(a) ==
    LET s == at[a]
    IN /\ At(a, "check")
       /\ IF a = "operator" \/ Allowed(thread[s.t].status, s.to)
          THEN Goto(a, "write") /\ UNCHANGED reacted
          ELSE IF s.to = "needs_human"
          THEN Become(a, AfterStatus(a)) /\ reacted' = Reacted(a)
          ELSE Become(a, Idle) /\ UNCHANGED reacted
       /\ UNCHANGED <<active, thread, msgs, arrived, logged, mailed, rows, human>>
       /\ NoFault

Recording(a) == a \in Senders /\ at[a].to # "needs_human"

Write(a) ==
    LET s == at[a]
    IN /\ At(a, "write") /\ ~Recording(a)
       /\ thread' = [thread EXCEPT ![s.t].status = s.to, ![s.t].next = s.next]
       /\ Become(a, AfterStatus(a))
       /\ reacted' = Reacted(a)
       /\ approved' = IF a = "operator" /\ s.to = "pending_send"
                      THEN [approved EXCEPT ![s.t] = @ + 1] ELSE approved
       /\ UNCHANGED <<active, msgs, arrived, logged, mailed, rows, resolved>> /\ NoFault

-----------------------------------------------------------------------------
(* The sender: handle_contact, handle_followup_job.                        *)

\* Faulty variant: an existing thread is not looked for.
NeverTaken(t) == FALSE

\* A thread that is not waiting for its (approved) request.
Taken(t) == thread[t] # NoRow /\ thread[t].status # "pending_send"

\* Idempotency, consent and run switch, daily cap and cooldown, anonymous states.
ContactGate ==
    LET s == at["contacts"]
        dropped == Taken(s.t) \/ ~active
    IN /\ At("contacts", "start")
       /\ \/ dropped /\ Goto("contacts", "delete") /\ UNCHANGED open
          \/ ~dropped /\ Become("contacts", Idle) /\ UNCHANGED open
          \/ /\ ~dropped
             /\ IF thread[s.t] = NoRow THEN Goto("contacts", "delete") /\ UNCHANGED open
                                       ELSE Escalate("contacts", s.t)
          \/ /\ ~dropped
             /\ Become("contacts", [s EXCEPT !.pc = "deliver", !.seen = thread[s.t]])
             /\ UNCHANGED open
       /\ UNCHANGED <<active, thread, msgs, mailbox, mailed, requests, replies, booked,
                      human>> /\ NoFault

\* A thread that is still open when the job is looked at.
JobStart ==
    /\ At("followups", "start")
    /\ Goto("followups", IF IsOpen(at["followups"].t) THEN "read" ELSE "delete")
    /\ UNCHANGED <<active, thread, msgs, mailbox, mailed, rows, human>> /\ NoFault

\* Faulty variants: a follow-up is never a duplicate, a reply is never looked up.
NoIndexGuard(j, row)  == j.kind # "followup" /\ replies[j.ref] > 0
NoReplyLookup(j, row) == j.kind = "followup" /\ j.ref < row.followups

\* The follow-up index is behind the counter; the inbound mail has its reply.
Duplicate(j, row) == IF j.kind = "followup" THEN j.ref < row.followups ELSE replies[j.ref] > 0

\* The row is read again; a follow-up will write back the date it finds here.
JobRead ==
    LET s == at["followups"]
        row == thread[s.t]
    IN /\ At("followups", "read")
       /\ IF Duplicate(s.msg, row) THEN Goto("followups", "delete")
          ELSE Become("followups", [s EXCEPT !.pc = "deliver", !.seen = row])
       /\ UNCHANGED <<active, thread, msgs, mailbox, mailed, rows, human>> /\ NoFault

\* Faulty variant: a follow-up clears the date.
DateCleared(s) == IF s.msg.kind = "followup" THEN "null" ELSE "later"

\* A reply sets a new date, a follow-up leaves the rescheduling to the scan.
DateAfter(s) == IF s.msg.kind = "followup" THEN s.seen.next ELSE "later"

\* The draft and the transport's send.
Deliver(q) ==
    LET s == at[q]
    IN /\ At(q, "deliver")
       /\ mailed' = IF q = "contacts" THEN mailed \cup {s.t} ELSE mailed
       /\ Become(q, IF q = "followups"
                    THEN Setting(q, s.t, "awaiting_reply", DateAfter(s))
                    ELSE IF s.seen = NoRow THEN [s EXCEPT !.pc = "record"]
                    ELSE Setting(q, s.t, "request_sent", "later"))
       /\ UNCHANGED <<active, thread, msgs, mailbox, rows, human>> /\ NoFault

\* record_initial_send of a new thread.
RecordNew ==
    LET t == at["contacts"].t
    IN /\ At("contacts", "record")
       /\ thread' = [thread EXCEPT ![t] = [status |-> "request_sent", next |-> "later", followups |-> 0]]
       /\ requests' = [requests EXCEPT ![t] = @ + 1]
       /\ Goto("contacts", "delete")
       /\ UNCHANGED <<active, msgs, mailbox, mailed, replies, booked, open, human>>
       /\ NoFault

\* record_initial_send of an approved thread and record_thread_send, after their check.
RecordSend(q) ==
    LET s == at[q]
        followup == s.msg.kind = "followup"
    IN /\ At(q, "write") /\ Recording(q)
       /\ thread' = [thread EXCEPT ![s.t] =
                       [status |-> s.to, next |-> s.next,
                        followups |-> IF followup THEN @.followups + 1 ELSE @.followups]]
       /\ requests' = IF q = "contacts" THEN [requests EXCEPT ![s.t] = @ + 1] ELSE requests
       /\ replies' = IF q = "followups" /\ ~followup THEN [replies EXCEPT ![s.msg.ref] = @ + 1]
                     ELSE replies
       /\ Goto(q, "delete")
       /\ UNCHANGED <<active, msgs, mailbox, mailed, booked, open, human>> /\ NoFault

-----------------------------------------------------------------------------
(* The mail bucket, poll_mail and the receiver: handle_inbound, _react.    *)

\* The office answers; a stray mail carries no token, or one that was never recorded.
Arrive(m) ==
    /\ \A a \in arrived : a.m # m
    /\ \E t \in mailed, kind \in {"reply", "stray"} :
         arrived' = arrived \cup {[m |-> m, t |-> t, kind |-> kind]}
    /\ UNCHANGED <<active, thread, msgs, at, logged, reacted, mailed, rows, human>>
    /\ NoFault

HasSourceKey(m) == \E b \in BOOLEAN : <<m, b>> \in logged

\* Between two scans, when the queue is empty: everything the bucket holds and no row names.
Poll ==
    LET new == {a \in arrived : ~HasSourceKey(a.m)}
    IN /\ At("scan", "idle")
       /\ \A m \in msgs : m.q # "inbound"
       /\ new # {}
       /\ msgs' = msgs \cup {[q |-> "inbound", t |-> a.t, kind |-> a.kind, ref |-> a.m, copy |-> 1,
                              receives |-> 0] : a \in new}
       /\ UNCHANGED <<active, thread, at, mailbox, mailed, rows, human>> /\ NoFault

\* _match_thread: by the token, else an open thread with the sender's address.
Matches(j) == (j.kind = "reply" /\ thread[j.t] # NoRow) \/ IsOpen(j.t)

\* has_message_id, unique per campaign; unmatched mail has none.
HasMessageId(m, matched) == <<m, matched>> \in logged

Match ==
    LET s == at["inbound"]
        matched == Matches(s.msg)
    IN /\ At("inbound", "start")
       /\ Become("inbound",
                 IF HasMessageId(s.msg.ref, matched) THEN [s EXCEPT !.pc = "delete"]
                 ELSE [s EXCEPT !.pc = "log", !.seen = IF matched THEN thread[s.t] ELSE NoRow])
       /\ UNCHANGED <<active, thread, msgs, mailbox, mailed, rows, human>> /\ NoFault

\* insert_email, committed on its own; unmatched mail asks for no reaction.
LogMail ==
    LET s == at["inbound"]
        matched == s.seen # NoRow
    IN /\ At("inbound", "log")
       /\ logged' = logged \cup {<<s.msg.ref, matched>>}
       /\ reacted' = IF matched THEN reacted ELSE reacted \cup {s.msg.ref}
       /\ Goto("inbound", IF matched THEN "react" ELSE "delete")
       /\ UNCHANGED <<active, thread, msgs, arrived, mailed, rows, human>> /\ NoFault

Committed == FoldFunction(LAMBDA x, y : x + y, 0, booked)

\* Faulty variant: the new fee is not added before the comparison.
FitsSoFar(n) == Committed <= Budget

\* book_fee, serialised on the campaign row
Fits(n) == Committed + n <= Budget

\* The reactions: what each category does before it sets the thread's status.
ReactFulfil  == Become("inbound", Setting("inbound", at["inbound"].t, "fulfilled", "null"))
                /\ UNCHANGED <<msgs, open, booked>>
ReactAck     == Become("inbound", Setting("inbound", at["inbound"].t, "awaiting_reply", "later"))
                /\ UNCHANGED <<msgs, open, booked>>
ReactGiveUp  == Escalate("inbound", at["inbound"].t) /\ UNCHANGED <<msgs, booked>>
ReactRefer   == /\ \E u \in Threads :
                     msgs' = Post(msgs, "contacts", u, "referral", at["inbound"].msg.ref)
                /\ Become("inbound", Setting("inbound", at["inbound"].t, "referred", "null"))
                /\ UNCHANGED <<open, booked>>
ReactClarify == LET s == at["inbound"]
                IN /\ msgs' = Post(msgs, "followups", s.t, "clarification_reply", s.msg.ref)
                   /\ Become("inbound", Setting("inbound", s.t, "awaiting_reply", "later"))
                   /\ UNCHANGED <<open, booked>>
ReactPay     == \E n \in Amounts :
                   IF Fits(n)
                   THEN /\ booked' = [booked EXCEPT ![at["inbound"].msg.ref] = @ + n]
                        /\ Goto("inbound", "agree")
                        /\ UNCHANGED <<msgs, open>>
                   ELSE ReactGiveUp

React ==
    /\ At("inbound", "react")
    /\ ReactFulfil \/ ReactAck \/ ReactGiveUp \/ ReactRefer \/ ReactClarify \/ ReactPay
    /\ UNCHANGED <<active, thread, mailbox, mailed, requests, replies, human>> /\ NoFault

\* The fee is booked: the agreement, then the status.
Agree ==
    LET s == at["inbound"]
    IN /\ At("inbound", "agree")
       /\ msgs' = Post(msgs, "followups", s.t, "fee_agreement", s.msg.ref)
       /\ Become("inbound", Setting("inbound", s.t, "awaiting_reply", "later"))
       /\ UNCHANGED <<active, thread, mailbox, mailed, rows, human>> /\ NoFault

-----------------------------------------------------------------------------
(* followup_scan.                                                          *)

\* select_due_followups: a snapshot of the due rows.
ScanSelect ==
    LET due == {t \in Threads : IsOpen(t) /\ thread[t].next = "due"}
    IN /\ At("scan", "idle")
       /\ due # {}
       /\ Become("scan", [Idle EXCEPT !.pc = "next", !.todo = {<<t, thread[t]>> : t \in due}])
       /\ UNCHANGED <<active, thread, msgs, mailbox, mailed, rows, human>> /\ NoFault

Exhausted(row) == row.followups >= MaxFollowups

\* Escalate, or send the job and then set the status read before with a new date.
ScanThread ==
    /\ At("scan", "next")
    /\ \E e \in at["scan"].todo :
         LET t == e[1]
             row == e[2]
             rest == [at EXCEPT !["scan"].todo = @ \ {e}]
             set(to, next) == at' = [rest EXCEPT !["scan"].pc = "check", !["scan"].t = t,
                                                 !["scan"].to = to, !["scan"].next = next]
         IN IF Exhausted(row)
            THEN /\ open' = Told(t)
                 /\ set("needs_human", "null")
                 /\ UNCHANGED msgs
            ELSE /\ msgs' = Post(msgs, "followups", t, "followup", row.followups)
                 /\ set(row.status, "later")
                 /\ UNCHANGED open
    /\ UNCHANGED <<active, thread, mailbox, mailed, requests, replies, booked, human>>
    /\ NoFault

-----------------------------------------------------------------------------
(* The operator and the clock.                                             *)

\* resolve_escalation: the resolution, then perhaps a status of the operator's choice.
Resolve ==
    /\ At("operator", "idle")
    /\ \E t \in Threads :
         /\ open[t] > 0 /\ resolved[t] < MaxHuman
         /\ open' = [open EXCEPT ![t] = @ - 1]
         /\ resolved' = [resolved EXCEPT ![t] = @ + 1]
         /\ \/ UNCHANGED at
            \/ \E to \in Statuses : Become("operator", Setting("operator", t, to, "null"))
    /\ UNCHANGED <<active, thread, msgs, mailbox, mailed, requests, replies, booked,
                   approved>> /\ NoFault

Approve ==
    LET t == at["operator"].t
    IN /\ At("operator", "approve")
       /\ msgs' = Post(msgs, "contacts", t, "human_approved", NoRef)
       /\ Become("operator", Idle)
       /\ UNCHANGED <<active, thread, mailbox, mailed, rows, human>> /\ NoFault

SetActive ==
    /\ active' = ~active
    /\ IF active THEN Fault ELSE NoFault
    /\ UNCHANGED <<thread, msgs, at, mailbox, mailed, rows, human>>

\* Something is still under way for the thread.
Busy(t) == \/ \E m \in msgs : m.t = t /\ m.q \in {"followups", "inbound"}
           \/ \E a \in Actors : ~At(a, "idle") /\ at[a].t = t

\* next_action_at passes: with nothing under way, and over a job still on its way.
Falls(t) == /\ IsOpen(t) /\ thread[t].next = "later"
            /\ thread' = [thread EXCEPT ![t].next = "due"]
            /\ UNCHANGED <<active, msgs, at, mailbox, mailed, rows, human>>
FallsQuiet(t) == ~Busy(t) /\ Falls(t) /\ NoFault
FallsEarly(t) == Busy(t) /\ Falls(t) /\ Fault

-----------------------------------------------------------------------------
ContactStep  == ContactGate \/ RecordNew
FollowupStep == JobStart \/ JobRead
InboundStep  == Match \/ LogMail \/ React \/ Agree
ScanStep     == ScanSelect \/ ScanThread
StatusStep(a) == Check(a) \/ Write(a)

Next == \/ \E q \in Consumers : Receive(q) \/ Delete(q)
        \/ \E a \in Actors : Check(a) \/ Write(a) \/ Fails(a)
        \/ \E q \in Senders : Deliver(q) \/ RecordSend(q)
        \/ ContactGate \/ RecordNew \/ JobStart \/ JobRead
        \/ \E m \in Mails : Arrive(m)
        \/ Poll \/ Match \/ LogMail \/ React \/ Agree
        \/ ScanSelect \/ ScanThread
        \/ DeadLetter \/ Drain \/ Crash
        \/ Resolve \/ Approve \/ SetActive
        \/ \E t \in Threads : FallsQuiet(t) \/ FallsEarly(t)

Spec == Init /\ [][Next]_vars

\* The service's threads keep running and its clock keeps ticking.  Offices, faults and the
\* operator are under no obligation.
Fairness == /\ WF_vars(Receive("followups") \/ FollowupStep \/ Deliver("followups")
                       \/ RecordSend("followups") \/ StatusStep("followups") \/ Delete("followups"))
            /\ WF_vars(Receive("inbound") \/ InboundStep \/ StatusStep("inbound") \/ Delete("inbound"))
            /\ WF_vars(Receive("dead") \/ Drain \/ StatusStep("dead") \/ Delete("dead"))
            /\ WF_vars(ContactStep \/ Deliver("contacts") \/ RecordSend("contacts")
                       \/ StatusStep("contacts") \/ Delete("contacts"))
            /\ WF_vars(ScanStep \/ StatusStep("scan"))
            /\ WF_vars(DeadLetter)
            /\ \A t \in Threads : WF_vars(FallsQuiet(t))

FairSpec == Spec /\ Fairness

-----------------------------------------------------------------------------
(* Properties.                                                             *)

\* No thread has more than max_followups nudges on record, however jobs are duplicated or
\* redelivered.  A kill between a mail and its record nudges once more unseen (cli.py:189-191).
FollowupsBounded == \A t \in Threads : thread[t].followups <= MaxFollowups

\* An office gets one recorded request, and one more for each time the operator approved it.
RequestsBounded == \A t \in Threads : requests[t] <= 1 + approved[t]

\* No inbound mail has two answers on record, whatever job or redelivery they come from.  A kill
\* between a mail and its record answers once more unseen (cli.py:189-191).
RepliesOnce == \A m \in Mails : replies[m] <= 1

\* Fees stay within the budget, and no agreement is on its way that the ledger does not carry.
FeesCovered == /\ Committed <= Budget
               /\ \A j \in msgs : j.kind = "fee_agreement" => booked[j.ref] > 0

\* Every give-up is an escalation: a parked thread has one, open or resolved by the operator.
ParkedIsEscalated ==
    \A t \in Threads : thread[t].status = "needs_human" => open[t] + resolved[t] > 0

\* A silent thread outlives one fault: once open it is closed or parked in the end, unless the
\* operator steps in, the office writes, or something fails a second time; a job must be
\* received more than once before it is dead-lettered.
EveryThreadSettles ==
    MaxReceive > 1 =>
        \A t \in Threads :
            IsOpen(t) ~> \/ ~IsOpen(t) \/ resolved[t] > 0 \/ faults > 1
                        \/ \E a \in arrived : a.t = t

\* What NEW_PUBLIC_RECORDS.md says of a failing handler (redelivery, then the dead-letter queue): a logged mail
\* is reacted to, or its message is still there to try again.
InboundReacted ==
    \A m \in Mails : <<m, TRUE>> \in logged =>
        m \in reacted \/ \E j \in msgs : j.q \in {"inbound", "dead"} /\ j.ref = m
===============================================================================
