--------------------------- MODULE CodeCrawlProofs ---------------------------
(***************************************************************************)
(* Theorems about CodeCrawl, for every set of portals and pages, every     *)
(* number of workers, dispatches, receives, faults and acts of the         *)
(* operator, and every duration that CrawlAssumption allows.               *)
(***************************************************************************)
EXTENDS CodeCrawl, FiniteSetTheorems, TLAPS

-----------------------------------------------------------------------------
(* The inductive invariants.                                               *)

\* What an orchestrator and a worker remember between two steps.
Plans == [pc : {"idle", "select", "sources", "park", "park_seeding", "stamp", "send"},
          seen : {0} \cup Dispatches, urls : SUBSET Urls, d : {0} \cup Dispatches]
Crawls == [pc : WorkerPcs, d : {0} \cup Dispatches, urls : SUBSET Urls, elapsed : 0 .. Deadline,
           beatAt : Nat, todo : SUBSET Publishers, publisher : Publishers \cup {"none"},
           seen : SUBSET Looks, blocked : SUBSET Looks, staged : BOOLEAN, errors : BOOLEAN,
           complete : BOOLEAN, verdict : Results \cup {"none"},
           child : {"none", "runs", "exited", "stuck", "died"}, frontier : SUBSET DOMAIN Pages,
           visited : SUBSET DOMAIN Pages, items : Nat, piped : SUBSET Documents, pipe : Nat]

\* A worker that starts anew, or is done with its crawl, remembers at most its message.
Bare(s) == /\ s.todo = {} /\ s.seen = {} /\ s.blocked = {} /\ s.frontier = {} /\ s.visited = {}
           /\ s.items = 0 /\ s.piped = {} /\ s.elapsed = 0

\* The dispatch of a busy process is an issued one, and the pipe holds no more than it can.
SoundPlan(c)  == c \in Plans /\ (c.pc = "send" => c.d \in 1 .. issued)
SoundCrawl(s) == /\ s \in Crawls
                 /\ s.items <= s.pipe /\ IsFiniteSet(s.visited)
                 /\ s.pc # "crawl" => s.visited = {} /\ s.frontier = {}
                 /\ s.visited = {} => s.items = 0
                 /\ IF s.pc = "idle" THEN s.d = 0 ELSE s.d \in 1 .. issued
                 /\ s.pc = "crawl" => s.publisher \in Publishers /\ s.pipe > 0
                 /\ s.pc = "gate" => Bare(s)
                 /\ s.pc = "finalize" => s.verdict \in Results

TablesTyped ==
    /\ running \in BOOLEAN /\ enabled \subseteq Urls
    /\ row \in Rows /\ issued \in 0 .. MaxDispatch /\ row.d <= issued
    /\ history \subseteq HistoryRows /\ (\A h \in history : h.d <= issued)
    /\ artifacts \subseteq Documents
QueueTyped  == msgs \subseteq Messages /\ \A m \in msgs : m.d <= issued
PlansTyped  == orch = [o \in Orchestrators |-> orch[o]] /\ \A o \in Orchestrators : SoundPlan(orch[o])
CrawlsTyped == worker = [w \in Workers |-> worker[w]] /\ \A w \in Workers : SoundCrawl(worker[w])
BoundsTyped == faults \in Nat /\ backlog \in Nat /\ recrawls \in Nat

Typed == TablesTyped /\ QueueTyped /\ PlansTyped /\ CrawlsTyped /\ BoundsTyped

\* The worker that finalizes has its row in the history.
Recorded == \A w \in Workers : worker[w].pc = "finalize" =>
                \E h \in history : h.d = worker[w].d /\ h.result = worker[w].verdict

\* From the gate to the record a worker is past nothing it has not looked at.
Past == {"group", "crawl", "stage", "record"}

\* A portal was looked at, or its publisher's budget was spent on others.
Exhausted(s, u) == LET pages == Looked(s, PublisherOf[u])
                   IN u \in pages \/ Cardinality(pages) >= MaxPages

\* Publishers that are still to be crawled have not been looked at; what the child has visited is
\* what was looked at of the one that is being crawled.
Orderly(s) ==
    /\ s.pc # "stage" => (s.visited = {} => s.piped = {})
    /\ s.pc \in Past => \A p \in s.todo : Looked(s, p) = {}
    /\ s.pc = "crawl" => s.publisher \notin s.todo /\ Looked(s, s.publisher) = s.visited

\* While the crawl is complete, each portal is still to be crawled, under way, or done with.
Accounted(s) ==
    s.pc \in Past /\ s.complete =>
        /\ s.pc = "record" => s.todo = {}
        /\ \A u \in s.urls : \/ PublisherOf[u] \in s.todo
                             \/ s.pc = "crawl" /\ s.publisher = PublisherOf[u] /\ u \in s.frontier \cup s.visited
                             \/ Exhausted(s, u)

\* And each document of a rendered page is staged or about to be, unless the pipe had no room.
Gathered(s) ==
    s.pc \in Past /\ s.complete /\ (s.pc = "crawl" => Room(s) > 0) =>
        \A x \in s.seen : Candidates(x[1], x[2]) \subseteq artifacts \cup s.piped

\* A child that has exited by itself had followed every link or spent its budget, and had room.
Exited(s) ==
    s.pc = "crawl" /\ s.child = "exited" =>
        Room(s) > 0 /\ (s.frontier = {} \/ Cardinality(s.visited) = MaxPages)

Diligent(s) == Orderly(s) /\ Accounted(s) /\ Gathered(s) /\ Exited(s)
Thorough == \A w \in Workers : Diligent(worker[w])

\* The worker that has been at the row's dispatch since it was stamped, but for the time its
\* message waited, or that is about to finalize it.
Leads(s) == /\ s.d = row.d /\ row.age <= Deadline + backlog
            /\ s.pc = "finalize" \/ (s.pc \in Past /\ row.age <= s.elapsed + backlog)
Led == \E w \in Workers : Leads(worker[w])

OnRow == {w \in Workers : worker[w].d = row.d}

\* Without faults, a dispatch that a worker is past the gate of is led, and is the row's.
Leading == row.d # 0 =>
    /\ \A w \in Workers : worker[w].pc \in Past => w \in OnRow
    /\ (\E w \in OnRow : worker[w].pc \in Past \cup {"finalize"}) => Led
    /\ (\E h \in history : h.d = row.d) => \E w \in OnRow : worker[w].pc = "finalize"

\* Before it is led, a dispatch waits for its only receive, no longer than the queue is behind.
Waits == row.d # 0 /\ ~Led /\ Workers # {} =>
    /\ \A w \in OnRow : worker[w].pc = "gate" => row.age <= backlog
    /\ \A m \in msgs : m.d = row.d =>
         /\ row.age <= backlog
         /\ (m.receives = 0 /\ m.hidden = 0) \/ \E w \in OnRow : worker[w].pc \in {"gate", "delete"}

\* No child has died.
Alive == \A w \in Workers : worker[w].pc = "crawl" => worker[w].child # "died"

\* A row that was free when it was read had never been dispatched; one that is still as it was
\* read has timed out; and nobody knows of a dispatch before it is sent.
Reads(c) ==
    /\ c.pc \in {"sources", "stamp"} =>
         /\ c.seen = 0 => issued = 0
         /\ row.d # 0 /\ c.seen = row.d => row.age = Timeout
    /\ c.pc = "send" => /\ row.d = c.d /\ row.age = 0
                        /\ \A m \in msgs : m.d # c.d
                        /\ \A w \in Workers : worker[w].d # c.d

Undisturbed(o) == faults = 0 /\ recrawls = 0 /\ backlog + Deadline < Timeout =>
                    /\ row.d = 0 /\ row.due => issued = 0
                    /\ Alive /\ Leading /\ Waits /\ Reads(orch[o])

-----------------------------------------------------------------------------
(* What each step makes of its worker.                                     *)

\* One worker moves, the others stay.
Turn(w) == WorkerStep(w) \/ ChildStep(w) \/ PortalFails(w) \/ WorkerFails(w)

LEMMA Turns ==
    ASSUME NEW w \in Workers, Turn(w), worker = [v \in Workers |-> worker[v]]
    PROVE  /\ worker' = [v \in Workers |-> IF v = w THEN worker'[w] ELSE worker[v]]
           /\ UNCHANGED orch
<1>1. \E e : worker' = [worker EXCEPT ![w] = e]
  <2>1. CASE Receive(w) \/ Gate(w) \/ NextGroup(w) \/ NoGroupLeft(w)
    BY <2>1 DEF Receive, Gate, NextGroup, NoGroupLeft
  <2>2. CASE Discovered(w) \/ StageOne(w) \/ GroupEnds(w) \/ Record(w) \/ Finalize(w) \/ Delete(w)
    BY <2>2 DEF Discovered, StageOne, GroupEnds, Record, Finalize, Delete
  <2>3. CASE ChildStep(w) \/ PortalFails(w) \/ WorkerFails(w)
    BY <2>3 DEF ChildStep, Render, Unreachable, CrawlEnds, ChildDies, PortalFails, WorkerFails
  <2> QED BY <2>1, <2>2, <2>3 DEF Turn, WorkerStep
<1>2. UNCHANGED orch
  BY DEF Turn, WorkerStep, ChildStep, Receive, Gate, NextGroup, NoGroupLeft, Discovered, StageOne, GroupEnds,
         Record, Finalize, Delete, Render, Unreachable, CrawlEnds, ChildDies, PortalFails, WorkerFails
<1> QED BY <1>1, <1>2

LEMMA IdleIs ==
    /\ IdleWorker \in Crawls /\ Bare(IdleWorker) /\ IdleWorker.pc = "idle"
    /\ IdleWorker.pipe = 0 /\ IdleWorker.urls = {} /\ IdleWorker.verdict = "none" /\ IdleWorker.d = 0
<1>1. 0 \in 0 .. Deadline
  BY CrawlAssumption
<1> QED BY <1>1 DEF IdleWorker, Crawls, Bare, WorkerPcs

\* A bare worker is a sound one.
Blank(e) == e \in Crawls /\ Bare(e) /\ IsFiniteSet(e.visited) /\ e.items <= e.pipe

LEMMA DoneIs ==
    ASSUME NEW d \in Dispatches, NEW e, e = [IdleWorker EXCEPT !.pc = "delete", !.d = d]
    PROVE  Blank(e) /\ e.pc = "delete" /\ e.d = d
<1>1. e \in Crawls
  BY IdleIs DEF Crawls, WorkerPcs
<1>2. Bare(e) /\ e.pc = "delete" /\ e.d = d /\ e.pipe = 0
  BY IdleIs DEF Crawls, Bare
<1> QED BY <1>1, <1>2, FS_EmptySet DEF Bare, Blank

\* The parts of a worker that only a crawl under way changes.
Keeps(s, e)   == e.d = s.d /\ e.urls = s.urls /\ e.elapsed = s.elapsed
SameLooks(s, e) == e.seen = s.seen /\ e.blocked = s.blocked
SameChild(s, e) == /\ e.frontier = s.frontier /\ e.visited = s.visited
                   /\ e.items = s.items /\ e.piped = s.piped /\ e.pipe = s.pipe
SameTask(s, e)  == e.todo = s.todo /\ e.publisher = s.publisher /\ e.complete = s.complete

\* A message that has been received.
Taken(m) == [m EXCEPT !.receives = @ + 1, !.hidden = Visibility]

LEMMA ReceiveIs ==
    ASSUME NEW w \in Workers, Typed, Receive(w), NEW s, s = worker[w], NEW e, e = worker'[w]
    PROVE  \E m \in msgs :
             /\ s.pc = "idle" /\ m.hidden = 0 /\ m.receives < MaxReceive
             /\ msgs' = (msgs \ {m}) \cup {Taken(m)}
             /\ Blank(e) /\ e.pc = "gate" /\ e.d = m.d /\ e.urls = m.urls
<1>1. worker = [v \in Workers |-> worker[v]]
  BY DEF Typed, CrawlsTyped
<1>2. PICK m \in msgs :
        /\ s.pc = "idle" /\ m.hidden = 0 /\ m.receives < MaxReceive
        /\ msgs' = (msgs \ {m}) \cup {Taken(m)}
        /\ e = [IdleWorker EXCEPT !.pc = "gate", !.d = m.d, !.urls = m.urls]
  BY <1>1 DEF Receive, Deliverable, Taken
<1>3. m.d \in Dispatches /\ m.urls \in SUBSET Urls
  BY DEF Typed, QueueTyped, Messages
<1>4. e = [IdleWorker EXCEPT !.pc = "gate", !.d = m.d, !.urls = m.urls]
  BY <1>2
<1>5. Blank(e) /\ e.pc = "gate" /\ e.d = m.d /\ e.urls = m.urls
  <2>1. e \in Crawls
    BY <1>3, <1>4, IdleIs DEF Crawls, WorkerPcs
  <2>2. Bare(e) /\ e.pc = "gate" /\ e.d = m.d /\ e.urls = m.urls /\ e.pipe = 0
    BY <1>4, IdleIs DEF Crawls, Bare
  <2> QED BY <2>1, <2>2, FS_EmptySet DEF Bare, Blank
<1> QED BY <1>2, <1>5

LEMMA GateIs ==
    ASSUME NEW w \in Workers, Typed, Gate(w), NEW s, s = worker[w], NEW e, e = worker'[w]
    PROVE  /\ s.pc = "gate" /\ UNCHANGED <<tables, msgs>> /\ e \in Crawls /\ e.d = s.d
           /\ GatePasses(s.d) =>
                /\ e.pc = "group" /\ Keeps(s, e) /\ SameLooks(s, e) /\ SameChild(s, e)
                /\ e.todo = Groups(s.urls) /\ e.complete = s.complete
           /\ ~GatePasses(s.d) =>
                e.pc = "delete" /\ Blank(e)
<1>0. worker = [v \in Workers |-> worker[v]] /\ SoundCrawl(s)
  BY DEF Typed, CrawlsTyped
<1>1. s.pc = "gate" /\ UNCHANGED <<tables, msgs>>
      /\ e = IF GatePasses(s.d) THEN [s EXCEPT !.pc = "group", !.todo = Groups(s.urls), !.beatAt = Beat]
                                ELSE [IdleWorker EXCEPT !.pc = "delete", !.d = s.d]
  BY <1>0 DEF Gate
<1>2. s \in Crawls /\ s.d \in Dispatches
  BY <1>0, <1>1, CrawlAssumption DEF SoundCrawl, Typed, TablesTyped, Dispatches
<1>3. CASE GatePasses(s.d)
  <2>1. Groups(s.urls) \in SUBSET Publishers
    BY <1>2 DEF Groups, Publishers, Crawls
  <2>2. e = [s EXCEPT !.pc = "group", !.todo = Groups(s.urls), !.beatAt = Beat] /\ Beat \in Nat
    BY <1>1, <1>3, CrawlAssumption
  <2> HIDE DEF Groups
  <2>3. e \in Crawls
    BY <1>2, <2>1, <2>2 DEF Crawls, WorkerPcs
  <2>4. e.pc = "group" /\ e.todo = Groups(s.urls) /\ e.complete = s.complete /\ e.d = s.d
        /\ Keeps(s, e) /\ SameLooks(s, e) /\ SameChild(s, e)
    BY <1>2, <2>2 DEF Crawls, Keeps, SameLooks, SameChild
  <2> QED BY <1>1, <1>3, <2>3, <2>4
<1>4. CASE ~GatePasses(s.d)
  BY <1>1, <1>2, <1>4, DoneIs DEF Blank
<1> QED BY <1>3, <1>4

LEMMA StartIs ==
    ASSUME NEW s \in Crawls, NEW p \in Publishers \cup {"none"}, NEW n \in Nat, NEW f \in SUBSET DOMAIN Pages,
           NEW b \in Nat, NEW t \in SUBSET Publishers
    PROVE  [s EXCEPT !.pc = "crawl", !.publisher = p, !.todo = t, !.beatAt = b,
                                !.child = "runs", !.pipe = n, !.frontier = f] \in Crawls
BY DEF Crawls, WorkerPcs

\* The loop over the publishers gives up, starts a child or ends.
LEMMA NextGroupIs ==
    ASSUME NEW w \in Workers, Typed, NextGroup(w), NEW s, s = worker[w], NEW e, e = worker'[w]
    PROVE  /\ s.pc = "group" /\ s.todo # {} /\ UNCHANGED tables /\ msgs' = Extended(s)
           /\ e \in Crawls /\ Keeps(s, e) /\ SameLooks(s, e)
           /\ s.elapsed >= Deadline => e.pc = "record" /\ ~e.complete /\ e.todo = s.todo /\ SameChild(s, e)
           /\ s.elapsed < Deadline =>
                /\ e.pc = "crawl" /\ e.publisher \in s.todo /\ e.todo = s.todo \ {e.publisher}
                /\ e.child = "runs" /\ e.frontier = {u \in s.urls : PublisherOf[u] = e.publisher}
                /\ e.complete = s.complete /\ e.visited = s.visited /\ e.items = s.items /\ e.piped = s.piped
                /\ e.pipe \in Nat \ {0}
<1>0. worker = [v \in Workers |-> worker[v]] /\ SoundCrawl(s)
  BY DEF Typed, CrawlsTyped
<1>1. s \in Crawls /\ s.elapsed \in Nat /\ Deadline \in Nat
  BY <1>0, CrawlAssumption DEF SoundCrawl, Crawls
<1>2. s.pc = "group" /\ s.todo # {} /\ UNCHANGED tables /\ msgs' = Extended(s)
  BY DEF NextGroup
<1>3. CASE s.elapsed >= Deadline
  <2>1. e = [s EXCEPT !.pc = "record", !.complete = FALSE]
    BY <1>0, <1>3 DEF NextGroup
  <2>2. e \in Crawls
    BY <1>1, <2>1 DEF Crawls, WorkerPcs
  <2>3. Keeps(s, e) /\ SameLooks(s, e) /\ e.pc = "record" /\ ~e.complete /\ e.todo = s.todo /\ SameChild(s, e)
    BY <1>1, <2>1 DEF Crawls, Keeps, SameLooks, SameChild
  <2> QED BY <1>1, <1>2, <1>3, <2>2, <2>3
<1>4. CASE s.elapsed < Deadline
  <2>0. ~(s.elapsed >= Deadline)
    BY <1>1, <1>4
  <2>1. PICK p \in s.todo, n \in PipeSizes :
          e = [s EXCEPT !.pc = "crawl", !.publisher = p, !.todo = @ \ {p}, !.beatAt = BeatNext(s),
                        !.child = "runs", !.pipe = n, !.frontier = {u \in s.urls : PublisherOf[u] = p}]
    BY <1>0, <2>0 DEF NextGroup
  <2> DEFINE f == {u \in s.urls : PublisherOf[u] = p}
             t == s.todo \ {p}
             b == BeatNext(s)
  <2>2. p \in Publishers /\ t \in SUBSET Publishers /\ n \in Nat \ {0} /\ b \in Nat
    BY <1>1, CrawlAssumption DEF Crawls, BeatNext
  <2>3. f \in SUBSET DOMAIN Pages
    BY <1>1, CrawlAssumption DEF Crawls
  <2>4. e = [s EXCEPT !.pc = "crawl", !.publisher = p, !.todo = t, !.beatAt = b,
                      !.child = "runs", !.pipe = n, !.frontier = f]
    BY <2>1
  <2> HIDE DEF f, t, b
  <2>5. e \in Crawls
    <3>1. s \in Crawls
      BY <1>1
    <3>2. p \in Publishers \cup {"none"} /\ t \in SUBSET Publishers /\ b \in Nat /\ n \in Nat
      BY <2>2
    <3>3. [s EXCEPT !.pc = "crawl", !.publisher = p, !.todo = t, !.beatAt = b,
                    !.child = "runs", !.pipe = n, !.frontier = f] \in Crawls
      BY <3>1, <3>2, <2>3, StartIs
    <3> QED BY <2>4, <3>3
  <2>6. /\ Keeps(s, e) /\ SameLooks(s, e)
        /\ e.pc = "crawl" /\ e.publisher = p /\ e.todo = t /\ e.child = "runs" /\ e.frontier = f
        /\ e.complete = s.complete /\ e.visited = s.visited /\ e.items = s.items /\ e.piped = s.piped /\ e.pipe = n
    BY <1>1, <2>4 DEF Crawls, Keeps, SameLooks
  <2>7. e.frontier = {u \in s.urls : PublisherOf[u] = e.publisher} /\ e.todo = s.todo \ {p}
    BY <2>6 DEF f, t
  <2> QED BY <1>1, <1>2, <2>0, <2>2, <2>5, <2>6, <2>7
<1> QED BY <1>1, <1>3, <1>4

LEMMA NoGroupLeftIs ==
    ASSUME NEW w \in Workers, Typed, NoGroupLeft(w), NEW s, s = worker[w], NEW e, e = worker'[w]
    PROVE  /\ s.pc = "group" /\ s.todo = {} /\ UNCHANGED <<tables, msgs>>
           /\ e \in Crawls /\ e.pc = "record" /\ Keeps(s, e) /\ SameLooks(s, e) /\ SameChild(s, e) /\ SameTask(s, e)
<1>0. worker = [v \in Workers |-> worker[v]] /\ s \in Crawls
  BY DEF Typed, CrawlsTyped, SoundCrawl
<1>1. e = [s EXCEPT !.pc = "record"] /\ s.pc = "group" /\ s.todo = {} /\ UNCHANGED <<tables, msgs>>
  BY <1>0 DEF NoGroupLeft
<1>2. e \in Crawls
  BY <1>0, <1>1 DEF Crawls, WorkerPcs
<1> QED BY <1>0, <1>1, <1>2 DEF Crawls, Keeps, SameLooks, SameChild, SameTask

\* A page shows finitely many documents.
LEMMA FoundFinite ==
    ASSUME NEW p, NEW page \in DOMAIN Pages
    PROVE  IsFiniteSet(Candidates(p, page)) /\ Candidates(p, page) \in SUBSET Documents
<1> DEFINE S == {j \in Pages[page] : j.kind \in CandidateKinds(p)}
           T == {i.to : i \in S}
           f == [i \in S |-> i.to]
<1>1. IsFiniteSet(S)
  BY CrawlAssumption, FS_Subset
<1>2. f \in Surjection(S, T)
  BY DEF Surjection
<1>3. IsFiniteSet(T)
  BY <1>1, <1>2, FS_Surjection
<1> QED BY <1>3 DEF Candidates, Documents

\* What fits is within the room there is, and is everything when room is left.
LEMMA FitsIs ==
    ASSUME NEW s \in Crawls, s.items <= s.pipe, NEW k \in Nat
    PROVE  /\ Fits(s, k) \in Nat /\ s.items + Fits(s, k) \in Nat /\ s.items + Fits(s, k) <= s.pipe
           /\ s.pipe - (s.items + Fits(s, k)) > 0 => Room(s) > 0 /\ Fits(s, k) = k
<1>1. s.items \in Nat /\ s.pipe \in Nat
  BY DEF Crawls
<1> QED BY <1>1 DEF Fits, Room

\* The child renders a page: what the pipe keeps of it is all of it if there is room left.
LEMMA RenderIs ==
    ASSUME NEW w \in Workers, Typed, Render(w), NEW s, s = worker[w], NEW e, e = worker'[w]
    PROVE  \E page \in s.frontier :
             \E kept \in SUBSET Candidates(s.publisher, page) :
             /\ s.pc = "crawl" /\ s.child = "runs" /\ UNCHANGED <<tables, msgs>>
             /\ e \in Crawls /\ e.pc = s.pc /\ e.child = s.child /\ Keeps(s, e) /\ SameTask(s, e)
             /\ e.pipe = s.pipe /\ e.blocked = s.blocked /\ e.seen = s.seen \cup {<<s.publisher, page>>}
             /\ e.visited = s.visited \cup {page}
             /\ s.frontier \cup s.visited \subseteq e.frontier \cup e.visited
             /\ e.piped = s.piped \cup kept /\ e.items <= e.pipe
             /\ Room(e) > 0 => Room(s) > 0 /\ kept = Candidates(s.publisher, page)
<1>0. worker = [v \in Workers |-> worker[v]] /\ SoundCrawl(s)
  BY DEF Typed, CrawlsTyped
<1>1. s.pc = "crawl" /\ s.child = "runs" /\ UNCHANGED <<tables, msgs>>
  BY DEF Render
<1>2. s \in Crawls /\ s.items <= s.pipe /\ s.publisher \in Publishers
  BY <1>0, <1>1 DEF SoundCrawl
<1>3. PICK page \in s.frontier : \E kept \in SUBSET Candidates(s.publisher, page) :
        /\ Cardinality(kept) = Fits(s, Cardinality(Candidates(s.publisher, page)))
        /\ worker' = [worker EXCEPT ![w] =
             [s EXCEPT !.visited = s.visited \cup {page}, !.seen = @ \cup {<<s.publisher, page>>},
                       !.piped = @ \cup kept, !.items = @ + Cardinality(kept),
                       !.frontier = (@ \cup (TocLinks(s.publisher, page) \cap DOMAIN Pages))
                                      \ (s.visited \cup {page})]]
  BY DEF Render
<1>k. PICK kept \in SUBSET Candidates(s.publisher, page) :
        /\ Cardinality(kept) = Fits(s, Cardinality(Candidates(s.publisher, page)))
        /\ worker' = [worker EXCEPT ![w] =
             [s EXCEPT !.visited = s.visited \cup {page}, !.seen = @ \cup {<<s.publisher, page>>},
                       !.piped = @ \cup kept, !.items = @ + Cardinality(kept),
                       !.frontier = (@ \cup (TocLinks(s.publisher, page) \cap DOMAIN Pages))
                                      \ (s.visited \cup {page})]]
  BY <1>3
<1> DEFINE found == Candidates(s.publisher, page)
           visited == s.visited \cup {page}
           seen == s.seen \cup {<<s.publisher, page>>}
           piped == s.piped \cup kept
           items == s.items + Cardinality(kept)
           f == (s.frontier \cup (TocLinks(s.publisher, page) \cap DOMAIN Pages)) \ (s.visited \cup {page})
<1>4. page \in DOMAIN Pages
  BY <1>2 DEF Crawls
<1>5. IsFiniteSet(found) /\ found \in SUBSET Documents
  BY <1>4, FoundFinite
<1>6. Cardinality(found) \in Nat /\ kept \in SUBSET found /\ Cardinality(kept) = Fits(s, Cardinality(found))
  BY <1>k, <1>5, FS_CardinalityType
<1>7. /\ visited \in SUBSET DOMAIN Pages /\ seen \in SUBSET Looks
      /\ piped \in SUBSET Documents /\ f \in SUBSET DOMAIN Pages
  BY <1>2, <1>4, <1>5 DEF Crawls, Looks
<1>8. /\ items \in Nat
      /\ items <= s.pipe /\ (s.pipe - items > 0 => Room(s) > 0 /\ Cardinality(kept) = Cardinality(found))
  BY <1>2, <1>6, FitsIs
<1>9. Cardinality(kept) = Cardinality(found) => kept = found
  BY <1>5, <1>6, FS_Subset
<1>10. s.frontier \cup s.visited \subseteq f \cup visited
  OBVIOUS
<1>11. e = [s EXCEPT !.visited = visited, !.seen = seen, !.piped = piped, !.items = items, !.frontier = f]
  BY <1>0, <1>k
<1> HIDE DEF found, visited, seen, piped, items, f
<1>12. [s EXCEPT !.visited = visited, !.seen = seen, !.piped = piped, !.items = items, !.frontier = f] \in Crawls
  BY <1>2, <1>7, <1>8 DEF Crawls
<1>13. /\ e.pc = s.pc /\ e.child = s.child /\ Keeps(s, e) /\ SameTask(s, e)
       /\ e.pipe = s.pipe /\ e.blocked = s.blocked /\ e.seen = seen
       /\ e.visited = visited /\ e.frontier = f /\ e.piped = piped /\ e.items = items
  BY <1>2, <1>11 DEF Crawls, Keeps, SameTask
<1>14. e \in Crawls
  BY <1>11, <1>12
<1>15. Room(e) = s.pipe - items
  BY <1>13 DEF Room
<1>16. Room(e) > 0 => Room(s) > 0 /\ kept = found
  BY <1>8, <1>9, <1>15
<1>17. e.items <= e.pipe
  BY <1>8, <1>13
<1> QED BY <1>1, <1>3, <1>10, <1>13, <1>14, <1>16, <1>17 DEF found, visited, seen, piped, f

\* A page that could not be rendered, and a child that ends or dies.
LEMMA UnreachableIs ==
    ASSUME NEW w \in Workers, Typed, Unreachable(w), NEW s, s = worker[w], NEW e, e = worker'[w]
    PROVE  \E page \in s.frontier :
             /\ s.pc = "crawl" /\ s.child = "runs" /\ UNCHANGED <<tables, msgs>> /\ Fault
             /\ e \in Crawls /\ e.pc = s.pc /\ e.child = s.child /\ Keeps(s, e) /\ SameTask(s, e)
             /\ e.pipe = s.pipe /\ e.seen = s.seen /\ e.blocked = s.blocked \cup {<<s.publisher, page>>}
             /\ e.visited = s.visited \cup {page}
             /\ s.frontier \cup s.visited \subseteq e.frontier \cup e.visited
             /\ e.piped = s.piped /\ e.items <= e.pipe
             /\ Room(e) > 0 => Room(s) > 0
<1>0. worker = [v \in Workers |-> worker[v]] /\ SoundCrawl(s)
  BY DEF Typed, CrawlsTyped
<1>1. s.pc = "crawl" /\ s.child = "runs" /\ UNCHANGED <<tables, msgs>> /\ Fault
  BY DEF Unreachable
<1>2. s \in Crawls /\ s.items <= s.pipe /\ s.publisher \in Publishers
  BY <1>0, <1>1 DEF SoundCrawl
<1>3. PICK page \in s.frontier :
        worker' = [worker EXCEPT ![w] =
          [s EXCEPT !.visited = @ \cup {page}, !.blocked = @ \cup {<<s.publisher, page>>},
                    !.items = @ + Fits(s, 1), !.frontier = @ \ {page}]]
  BY DEF Unreachable
<1> DEFINE visited == s.visited \cup {page}
           blocked == s.blocked \cup {<<s.publisher, page>>}
           items == s.items + Fits(s, 1)
           f == s.frontier \ {page}
<1>4. page \in DOMAIN Pages
  BY <1>2 DEF Crawls
<1>5. visited \in SUBSET DOMAIN Pages /\ blocked \in SUBSET Looks /\ f \in SUBSET DOMAIN Pages
  BY <1>2, <1>4 DEF Crawls, Looks
<1>6. items \in Nat /\ items <= s.pipe /\ (s.pipe - items > 0 => Room(s) > 0)
  BY <1>2, FitsIs
<1>7. s.frontier \cup s.visited \subseteq f \cup visited
  OBVIOUS
<1>8. e = [s EXCEPT !.visited = visited, !.blocked = blocked, !.items = items, !.frontier = f]
  BY <1>0, <1>3
<1> HIDE DEF visited, blocked, items, f
<1>9. [s EXCEPT !.visited = visited, !.blocked = blocked, !.items = items, !.frontier = f] \in Crawls
  BY <1>2, <1>5, <1>6 DEF Crawls
<1>10. /\ e.pc = s.pc /\ e.child = s.child /\ Keeps(s, e) /\ SameTask(s, e)
       /\ e.pipe = s.pipe /\ e.blocked = blocked /\ e.seen = s.seen
       /\ e.visited = visited /\ e.frontier = f /\ e.piped = s.piped /\ e.items = items
  BY <1>2, <1>8 DEF Crawls, Keeps, SameTask
<1>11. e \in Crawls
  BY <1>8, <1>9
<1>12. Room(e) = s.pipe - items
  BY <1>10 DEF Room
<1> QED BY <1>1, <1>6, <1>7, <1>10, <1>11, <1>12 DEF visited, blocked, f

LEMMA ChildIs ==
    ASSUME NEW w \in Workers, Typed, CrawlEnds(w) \/ ChildDies(w), NEW s, s = worker[w], NEW e, e = worker'[w]
    PROVE  /\ s.pc = "crawl" /\ s.child \in {"runs", "stuck"} /\ UNCHANGED <<tables, msgs>>
           /\ e \in Crawls /\ e.pc = s.pc /\ Keeps(s, e) /\ SameTask(s, e) /\ SameLooks(s, e) /\ SameChild(s, e)
           /\ e.child \in {"exited", "stuck", "died"}
           /\ e.child = "exited" => Room(s) > 0 /\ (s.frontier = {} \/ Cardinality(s.visited) = MaxPages)
           /\ e.child = "died" => Fault
<1>0. worker = [v \in Workers |-> worker[v]] /\ s \in Crawls
  BY DEF Typed, CrawlsTyped, SoundCrawl
<1>1. s.pc = "crawl" /\ s.child \in {"runs", "stuck"} /\ UNCHANGED <<tables, msgs>>
  BY DEF CrawlEnds, ChildDies
<1>2. PICK c \in {"exited", "stuck", "died"} :
        /\ worker' = [worker EXCEPT ![w].child = c]
        /\ c = "exited" => Room(s) > 0 /\ (s.frontier = {} \/ Cardinality(s.visited) = MaxPages)
        /\ c = "died" => Fault
  <2>1. CASE CrawlEnds(w)
    <3>1. CASE Room(s) > 0
      BY <2>1, <3>1 DEF CrawlEnds
    <3>2. CASE ~(Room(s) > 0)
      BY <2>1, <3>2 DEF CrawlEnds
    <3> QED BY <3>1, <3>2
  <2>2. CASE ChildDies(w)
    BY <2>2 DEF ChildDies
  <2> QED BY <2>1, <2>2
<1>3. e = [s EXCEPT !.child = c]
  BY <1>0, <1>2
<1>4. [s EXCEPT !.child = c] \in Crawls
  BY <1>0 DEF Crawls
<1>5. e \in Crawls
  BY <1>3, <1>4
<1>6. /\ e.pc = s.pc /\ Keeps(s, e) /\ SameTask(s, e) /\ SameLooks(s, e) /\ SameChild(s, e) /\ e.child = c
  BY <1>0, <1>3 DEF Crawls, Keeps, SameTask, SameLooks, SameChild
<1> QED BY <1>1, <1>2, <1>5, <1>6

\* discover returns, with what the child has reported or with nothing.
LEMMA DiscoveredIs ==
    ASSUME NEW w \in Workers, Typed, Discovered(w), NEW s, s = worker[w], NEW e, e = worker'[w]
    PROVE  /\ s.pc = "crawl" /\ UNCHANGED <<tables, msgs>>
           /\ \/ e = IdleWorker /\ s.child = "died"
              \/ /\ e \in Crawls /\ e.pc = "stage" /\ Keeps(s, e) /\ SameLooks(s, e)
                 /\ e.todo = s.todo /\ e.publisher = s.publisher /\ e.piped = s.piped
                 /\ e.complete => s.complete /\ s.child = "exited"
                 /\ e.visited = {} /\ e.frontier = {} /\ e.items = 0 /\ e.pipe = 0
<1>0. worker = [v \in Workers |-> worker[v]] /\ s \in Crawls
  BY DEF Typed, CrawlsTyped, SoundCrawl
<1>1. s.pc = "crawl" /\ UNCHANGED <<tables, msgs>>
  BY DEF Discovered
<1>2. CASE s.child = "died" /\ s.piped = {}
  BY <1>0, <1>1, <1>2 DEF Discovered
<1>3. CASE ~(s.child = "died" /\ s.piped = {})
  <2>2. PICK c \in BOOLEAN : c = (s.complete /\ Complete(s))
    OBVIOUS
  <2>1. e = [s EXCEPT !.pc = "stage", !.complete = c, !.child = "none", !.items = 0, !.visited = {},
                      !.frontier = {}, !.pipe = 0]
    BY <1>0, <1>3, <2>2 DEF Discovered
  <2>3. c => s.complete /\ s.child = "exited"
    BY <2>2 DEF Complete
  <2>4. PICK r : r = [s EXCEPT !.complete = c]
    OBVIOUS
  <2>5. r \in Crawls
    BY <1>0, <2>2, <2>4 DEF Crawls
  <2>7. [r EXCEPT !.pc = "stage", !.child = "none", !.items = 0,
                 !.visited = {}, !.frontier = {}, !.pipe = 0] \in Crawls
    BY <2>5 DEF Crawls, WorkerPcs
  <2>8. e = [r EXCEPT !.pc = "stage", !.child = "none", !.items = 0,
                 !.visited = {}, !.frontier = {}, !.pipe = 0]
    BY <2>1, <2>4
  <2>9. e \in Crawls
    BY <2>7, <2>8
  <2>6. /\ e.pc = "stage" /\ Keeps(s, e) /\ SameLooks(s, e) /\ e.todo = s.todo /\ e.publisher = s.publisher
        /\ e.piped = s.piped /\ e.complete = c
        /\ e.visited = {} /\ e.frontier = {} /\ e.items = 0 /\ e.pipe = 0
    BY <1>0, <2>1 DEF Crawls, Keeps, SameLooks
  <2> QED BY <1>1, <2>3, <2>9, <2>6
<1> QED BY <1>2, <1>3

LEMMA PortalFailsIs ==
    ASSUME NEW w \in Workers, Typed, PortalFails(w), NEW s, s = worker[w], NEW e, e = worker'[w]
    PROVE  /\ s.pc = "crawl" /\ s.visited = {} /\ UNCHANGED <<tables, msgs>> /\ Fault
           /\ e \in Crawls /\ e.pc = "group" /\ Keeps(s, e) /\ SameTask(s, e)
           /\ e.seen = s.seen /\ e.blocked = s.blocked \cup ({s.publisher} \X s.frontier)
           /\ e.frontier = {} /\ e.visited = {} /\ e.items = s.items /\ e.piped = s.piped /\ e.pipe = s.pipe
<1>0. worker = [v \in Workers |-> worker[v]] /\ SoundCrawl(s)
  BY DEF Typed, CrawlsTyped
<1>1. s.pc = "crawl" /\ s.visited = {} /\ UNCHANGED <<tables, msgs>> /\ Fault
  BY DEF PortalFails
<1>2. s \in Crawls /\ s.publisher \in Publishers
  BY <1>0, <1>1 DEF SoundCrawl
<1> DEFINE blocked == s.blocked \cup ({s.publisher} \X s.frontier)
<1>3. e = [s EXCEPT !.pc = "group", !.errors = TRUE, !.blocked = blocked, !.frontier = {}]
  BY <1>0 DEF PortalFails
<1>4. blocked \in SUBSET Looks
  BY <1>2 DEF Crawls, Looks
<1> HIDE DEF blocked
<1>5. [s EXCEPT !.pc = "group", !.errors = TRUE, !.blocked = blocked, !.frontier = {}] \in Crawls
  BY <1>2, <1>4 DEF Crawls, WorkerPcs
<1>6. e \in Crawls
  BY <1>3, <1>5
<1>7. /\ e.pc = "group" /\ Keeps(s, e) /\ SameTask(s, e) /\ e.seen = s.seen /\ e.blocked = blocked
      /\ e.frontier = {} /\ e.visited = s.visited /\ e.items = s.items /\ e.piped = s.piped /\ e.pipe = s.pipe
  BY <1>2, <1>3 DEF Crawls, Keeps, SameTask
<1> QED BY <1>1, <1>6, <1>7 DEF blocked

\* One candidate after another is staged, and the publisher is done.
LEMMA StageOneIs ==
    ASSUME NEW w \in Workers, Typed, StageOne(w), NEW s, s = worker[w], NEW e, e = worker'[w]
    PROVE  \E c \in s.piped :
             /\ s.pc = "stage" /\ artifacts' = artifacts \cup {c}
             /\ UNCHANGED <<running, enabled, row, issued, history, msgs>>
             /\ e \in Crawls /\ e.pc = s.pc /\ Keeps(s, e) /\ SameLooks(s, e) /\ SameTask(s, e)
             /\ e.piped = s.piped \ {c}
             /\ e.visited = s.visited /\ e.frontier = s.frontier /\ e.items = s.items /\ e.pipe = s.pipe
<1>0. worker = [v \in Workers |-> worker[v]] /\ s \in Crawls
  BY DEF Typed, CrawlsTyped, SoundCrawl
<1> DEFINE c == CHOOSE c \in s.piped : TRUE
<1>1. /\ s.pc = "stage" /\ s.piped # {} /\ artifacts' = artifacts \cup {c}
      /\ UNCHANGED <<running, enabled, row, issued, history, msgs>>
  BY DEF StageOne
<1>2. c \in s.piped
  BY <1>1
<1>3. PICK b \in BOOLEAN : b = (s.staged \/ c \notin artifacts)
  OBVIOUS
<1> DEFINE piped == s.piped \ {c}
<1>4. e = [s EXCEPT !.piped = piped, !.staged = b]
  BY <1>0, <1>3 DEF StageOne
<1>5. piped \in SUBSET Documents
  BY <1>0 DEF Crawls
<1> HIDE DEF c, piped
<1>6. [s EXCEPT !.piped = piped, !.staged = b] \in Crawls
  BY <1>0, <1>3, <1>5 DEF Crawls
<1>7. e \in Crawls
  BY <1>4, <1>6
<1>8. /\ e.pc = s.pc /\ Keeps(s, e) /\ SameLooks(s, e) /\ SameTask(s, e) /\ e.piped = piped
      /\ e.visited = s.visited /\ e.frontier = s.frontier /\ e.items = s.items /\ e.pipe = s.pipe
  BY <1>0, <1>4 DEF Crawls, Keeps, SameLooks, SameTask
<1>9. e.piped = s.piped \ {c}
  BY <1>8 DEF piped
<1> QED BY <1>1, <1>2, <1>7, <1>8, <1>9

LEMMA GroupEndsIs ==
    ASSUME NEW w \in Workers, Typed, GroupEnds(w), NEW s, s = worker[w], NEW e, e = worker'[w]
    PROVE  /\ s.pc = "stage" /\ s.piped = {} /\ UNCHANGED tables /\ msgs' = Extended(s)
           /\ e \in Crawls /\ e.pc = "group" /\ Keeps(s, e) /\ SameLooks(s, e) /\ SameChild(s, e)
           /\ e.todo = s.todo /\ e.complete = s.complete
<1>0. worker = [v \in Workers |-> worker[v]] /\ s \in Crawls
  BY DEF Typed, CrawlsTyped, SoundCrawl
<1>1. s.pc = "stage" /\ s.piped = {} /\ UNCHANGED tables /\ msgs' = Extended(s)
  BY DEF GroupEnds
<1> DEFINE b == BeatNext(s)
<1>2. b \in Nat
  BY <1>0, CrawlAssumption DEF Crawls, BeatNext
<1>3. e = [s EXCEPT !.pc = "group", !.publisher = "none", !.beatAt = b]
  BY <1>0 DEF GroupEnds
<1> HIDE DEF b
<1>4. [s EXCEPT !.pc = "group", !.publisher = "none", !.beatAt = b] \in Crawls
  BY <1>0, <1>2 DEF Crawls, WorkerPcs
<1>5. e \in Crawls
  BY <1>3, <1>4
<1>6. /\ e.pc = "group" /\ Keeps(s, e) /\ SameLooks(s, e) /\ SameChild(s, e)
      /\ e.todo = s.todo /\ e.complete = s.complete
  BY <1>0, <1>3 DEF Crawls, Keeps, SameLooks, SameChild
<1> QED BY <1>1, <1>5, <1>6

\* The history row, if it is the first of its dispatch.
Row(s) == [d |-> s.d, result |-> Verdict(s), long |-> RestsLong(s),
           portals |-> s.urls, blocked |-> s.blocked, seen |-> s.seen]

LEMMA VerdictIs == \A s : Verdict(s) \in Results
BY DEF Verdict, Results

LEMMA RowIs ==
    ASSUME NEW s \in Crawls, s.d \in Dispatches
    PROVE  Row(s) \in HistoryRows /\ Row(s).d = s.d /\ Row(s).result = Verdict(s)
           /\ (Row(s).long => s.complete) /\ Row(s).portals = s.urls /\ Row(s).blocked = s.blocked
           /\ Row(s).seen = s.seen
<1>1. s.urls \in SUBSET Urls /\ s.blocked \in SUBSET Looks /\ s.seen \in SUBSET Looks
  BY DEF Crawls
<1>2. PICK b \in BOOLEAN : b = RestsLong(s)
  BY DEF RestsLong
<1>3. b => s.complete
  BY <1>2 DEF RestsLong
<1>4. Row(s) = [d |-> s.d, result |-> Verdict(s), long |-> b,
                portals |-> s.urls, blocked |-> s.blocked, seen |-> s.seen]
  BY <1>2 DEF Row
<1>5. Row(s) \in HistoryRows
  BY <1>1, <1>2, <1>4, VerdictIs DEF HistoryRows
<1> QED BY <1>3, <1>4, <1>5

LEMMA RecordIs ==
    ASSUME NEW w \in Workers, Typed, Record(w), NEW s, s = worker[w], NEW e, e = worker'[w]
    PROVE  /\ s.pc = "record" /\ UNCHANGED <<running, enabled, row, issued, artifacts, msgs>>
           /\ Blank(e) /\ e.d = s.d /\ e.verdict \in Results /\ e.verdict = Verdict(s)
           /\ (\E h \in history : h.d = s.d) => e.pc = "delete" /\ history' = history
           /\ ~(\E h \in history : h.d = s.d) => e.pc = "finalize" /\ history' = history \cup {Row(s)}
<1>0. worker = [v \in Workers |-> worker[v]] /\ SoundCrawl(s)
  BY DEF Typed, CrawlsTyped
<1>1. s.pc = "record" /\ UNCHANGED <<running, enabled, row, issued, artifacts, msgs>>
  BY DEF Record
<1>2. s.d \in Dispatches
  BY <1>0, <1>1, CrawlAssumption DEF SoundCrawl, Typed, TablesTyped, Dispatches
<1>3. PICK pc \in {"finalize", "delete"} :
        /\ pc = IF FirstInsert(s.d) THEN "finalize" ELSE "delete"
        /\ e = [IdleWorker EXCEPT !.pc = pc, !.d = s.d, !.verdict = Verdict(s)]
  <2>1. CASE FirstInsert(s.d)
    BY <1>0, <2>1 DEF Record
  <2>2. CASE ~FirstInsert(s.d)
    BY <1>0, <2>2 DEF Record
  <2> QED BY <2>1, <2>2
<1>4. Blank(e) /\ e.pc = pc /\ e.d = s.d /\ e.verdict = Verdict(s)
  <2>1. PICK v \in Results : v = Verdict(s)
    BY VerdictIs
  <2>2. e = [IdleWorker EXCEPT !.pc = pc, !.d = s.d, !.verdict = v]
    BY <1>3, <2>1
  <2>3. [IdleWorker EXCEPT !.pc = pc, !.d = s.d, !.verdict = v] \in Crawls
    BY <1>2, IdleIs DEF Crawls, WorkerPcs
  <2>4. e \in Crawls
    BY <2>2, <2>3
  <2>5. Bare(e) /\ e.pc = pc /\ e.d = s.d /\ e.verdict = v /\ e.pipe = 0
    BY <2>2, IdleIs DEF Crawls, Bare
  <2> QED BY <2>1, <2>4, <2>5, FS_EmptySet DEF Bare, Blank
<1>5. FirstInsert(s.d) <=> ~(\E h \in history : h.d = s.d)
  BY DEF FirstInsert
<1>6. history' = IF \E h \in history : h.d = s.d THEN history ELSE history \cup {Row(s)}
  BY DEF Record, Row
<1> QED BY <1>1, <1>3, <1>4, <1>5, <1>6, VerdictIs

LEMMA FinalizeIs ==
    ASSUME NEW w \in Workers, Typed, Finalize(w), NEW s, s = worker[w], NEW e, e = worker'[w]
    PROVE  /\ s.pc = "finalize" /\ UNCHANGED <<running, enabled, issued, history, artifacts, msgs>>
           /\ row' = IF row.d = s.d THEN [d |-> 0, due |-> FALSE, age |-> 0, result |-> s.verdict] ELSE row
           /\ Blank(e) /\ e.pc = "delete" /\ e.d = s.d
<1>0. worker = [v \in Workers |-> worker[v]] /\ SoundCrawl(s)
  BY DEF Typed, CrawlsTyped
<1>1. /\ s.pc = "finalize" /\ UNCHANGED <<running, enabled, issued, history, artifacts, msgs>>
      /\ row' = IF row.d = s.d THEN [d |-> 0, due |-> FALSE, age |-> 0, result |-> s.verdict] ELSE row
  BY DEF Finalize, StillCurrent
<1>2. s.d \in Dispatches
  BY <1>0, <1>1, CrawlAssumption DEF SoundCrawl, Typed, TablesTyped, Dispatches
<1>3. e = [IdleWorker EXCEPT !.pc = "delete", !.d = s.d]
  BY <1>0 DEF Finalize
<1>4. Blank(e) /\ e.pc = "delete" /\ e.d = s.d
  BY <1>2, <1>3, DoneIs DEF Blank
<1> QED BY <1>1, <1>4

LEMMA DropIs ==
    ASSUME NEW w \in Workers, Typed, Delete(w) \/ WorkerFails(w), NEW s, s = worker[w], NEW e, e = worker'[w]
    PROVE  /\ UNCHANGED tables /\ e = IdleWorker
           /\ \/ s.pc = "delete" /\ msgs' = {m \in msgs : m.d # s.d}
              \/ UNCHANGED msgs /\ Fault
<1>0. worker = [v \in Workers |-> worker[v]]
  BY DEF Typed, CrawlsTyped
<1> QED BY <1>0 DEF Delete, WorkerFails

-----------------------------------------------------------------------------
(* Types.                                                                  *)

OrchTurn(o) == OrchStep(o) \/ OrchestratorFails(o)
Passes      == Tick \/ TickLate \/ TickBacklog
Outside     == DeadLetter \/ FallDue \/ (\E u \in Urls : SetEnabled(u)) \/ Stop \/ Start \/ UNCHANGED vars

\* Whose step it is, and who stays.
LEMMA Steps ==
    ASSUME [Next]_vars
    PROVE  \/ (\E o \in Orchestrators : OrchTurn(o)) /\ UNCHANGED <<worker, backlog>>
           \/ (\E w \in Workers : Turn(w)) /\ UNCHANGED <<orch, backlog>>
           \/ Passes /\ UNCHANGED orch
           \/ Outside /\ UNCHANGED <<orch, worker, backlog>>
<1>1. ASSUME NEW o \in Orchestrators, OrchTurn(o) PROVE UNCHANGED <<worker, backlog>>
  BY <1>1 DEF OrchTurn, OrchStep, Cycle, Select, ReadSources, Park, Stamp, Send, OrchestratorFails,
              NoFault, counts
<1>2. ASSUME NEW w \in Workers, Turn(w) PROVE UNCHANGED <<orch, backlog>>
  BY <1>2 DEF NoFault, counts, Turn, WorkerStep, ChildStep, Receive, Gate, NextGroup, NoGroupLeft, Discovered, StageOne,
              GroupEnds, Record, Finalize, Delete, Render, Unreachable, CrawlEnds, ChildDies, PortalFails,
              WorkerFails
<1>3. Passes => UNCHANGED orch
  BY DEF Passes, Tick, TickLate, TickBacklog, Later
<1>4. Outside => UNCHANGED <<orch, worker, backlog>>
  BY DEF Outside, DeadLetter, FallDue, SetEnabled, Stop, Start, vars, NoFault, counts
<1>5. \/ \E o \in Orchestrators : OrchTurn(o)
      \/ \E w \in Workers : Turn(w)
      \/ Passes \/ Outside
  BY DEF Next, OrchTurn, Turn, Passes, Outside
<1> QED BY <1>1, <1>2, <1>3, <1>4, <1>5

LEMMA BlankSound ==
    ASSUME NEW e, Blank(e), e.pc \in {"gate", "finalize", "delete"}, e.d \in 1 .. issued,
           e.pc = "finalize" => e.verdict \in Results
    PROVE  SoundCrawl(e)
BY DEF SoundCrawl, Blank, Bare

\* A worker's turn leaves a sound worker.
LEMMA TurnSound ==
    ASSUME NEW w \in Workers, Typed, Turn(w), NEW s, s = worker[w], NEW e, e = worker'[w]
    PROVE  SoundCrawl(e)
<1>0. SoundCrawl(s)
  BY DEF Typed, CrawlsTyped
<1>i. SoundCrawl(IdleWorker)
  BY IdleIs, FS_EmptySet DEF SoundCrawl, Bare
<1>1. CASE Receive(w)
  <2>1. PICK m \in msgs : Blank(e) /\ e.pc = "gate" /\ e.d = m.d
    <3>1. \E m \in msgs : Blank(e) /\ e.pc = "gate" /\ e.d = m.d /\ e.urls = m.urls
      BY <1>1, ReceiveIs
    <3> QED BY <3>1
  <2>2. m.d \in 1 .. issued
    BY CrawlAssumption DEF Typed, QueueTyped, Messages, TablesTyped, Dispatches
  <2> QED BY <2>1, <2>2, BlankSound
<1>2. CASE Gate(w)
  <2>1. s.pc = "gate" /\ s.d \in 1 .. issued /\ e.d = s.d /\ e \in Crawls
    BY <1>0, <1>2, GateIs DEF SoundCrawl
  <2>2. CASE GatePasses(s.d)
    <3>1. e.pc = "group" /\ SameChild(s, e)
      BY <1>2, <2>2, GateIs
    <3> QED BY <1>0, <2>1, <3>1 DEF SoundCrawl, SameChild
  <2>3. CASE ~GatePasses(s.d)
    <3>1. e.pc = "delete" /\ Blank(e)
      BY <1>2, <2>3, GateIs
    <3> QED BY <2>1, <3>1, BlankSound
  <2> QED BY <2>2, <2>3
<1>3. CASE NextGroup(w)
  <2>1. s.elapsed \in Nat /\ Deadline \in Nat
    BY <1>0, CrawlAssumption DEF SoundCrawl, Crawls
  <2>2. s.elapsed >= Deadline \/ s.elapsed < Deadline
    BY <2>1
  <2>3. s.todo \subseteq Publishers
    BY <1>0 DEF SoundCrawl, Crawls
  <2>4. e \in Crawls /\ e.d = s.d /\ s.pc = "group"
    BY <1>3, NextGroupIs DEF Keeps
  <2>5. s.elapsed >= Deadline => e.pc = "record" /\ SameChild(s, e)
    BY <1>3, NextGroupIs
  <2>6. s.elapsed < Deadline => /\ e.pc = "crawl" /\ e.publisher \in Publishers /\ e.pipe > 0
                                /\ e.visited = s.visited /\ e.items = s.items /\ e.pipe \in Nat
    BY <1>3, <2>3, NextGroupIs
  <2>7. CASE s.elapsed >= Deadline
    BY <1>0, <2>4, <2>5, <2>7 DEF SoundCrawl, SameChild
  <2>8. CASE s.elapsed < Deadline
    <3>1. e.items = 0 /\ e.items <= e.pipe /\ e.visited = {}
      BY <1>0, <2>4, <2>6, <2>8 DEF SoundCrawl
    <3> QED BY <1>0, <2>4, <2>6, <2>8, <3>1 DEF SoundCrawl
  <2> QED BY <2>2, <2>7, <2>8
<1>4. CASE NoGroupLeft(w)
  BY <1>0, <1>4, NoGroupLeftIs DEF SoundCrawl, Keeps, SameChild
<1>5. CASE Discovered(w)
  <2>1. CASE e = IdleWorker
    BY <1>i, <2>1
  <2>2. CASE e # IdleWorker
    <3>1. s.pc = "crawl" /\ e \in Crawls /\ e.pc = "stage" /\ e.d = s.d
          /\ e.visited = {} /\ e.frontier = {} /\ e.items = 0 /\ e.pipe = 0
      BY <1>5, <2>2, DiscoveredIs DEF Keeps
    <3> QED BY <1>0, <3>1, FS_EmptySet DEF SoundCrawl
  <2> QED BY <2>1, <2>2
<1>6. CASE StageOne(w)
  BY <1>0, <1>6, StageOneIs DEF SoundCrawl, Keeps
<1>7. CASE GroupEnds(w)
  BY <1>0, <1>7, GroupEndsIs DEF SoundCrawl, Keeps, SameChild
<1>8. CASE Record(w)
  <2>1. Blank(e) /\ e.pc \in {"finalize", "delete"} /\ e.d \in 1 .. issued /\ e.verdict \in Results
    BY <1>0, <1>8, RecordIs DEF SoundCrawl
  <2> QED BY <2>1, BlankSound
<1>9. CASE Finalize(w)
  <2>1. Blank(e) /\ e.pc = "delete" /\ e.d \in 1 .. issued
    BY <1>0, <1>9, FinalizeIs DEF SoundCrawl
  <2> QED BY <2>1, BlankSound
<1>10. CASE Delete(w) \/ WorkerFails(w)
  BY <1>i, <1>10, DropIs
<1>11. CASE Render(w)
  <2>1. PICK page \in s.frontier :
          /\ s.pc = "crawl" /\ e \in Crawls /\ e.pc = "crawl" /\ e.d = s.d /\ e.publisher = s.publisher
          /\ e.pipe = s.pipe /\ e.visited = s.visited \cup {page} /\ e.items <= e.pipe
    BY <1>11, RenderIs DEF Keeps, SameTask
  <2>2. IsFiniteSet(e.visited) /\ e.visited # {}
    BY <1>0, <2>1, FS_AddElement DEF SoundCrawl
  <2> QED BY <1>0, <2>1, <2>2 DEF SoundCrawl
<1>12. CASE Unreachable(w)
  <2>1. PICK page \in s.frontier :
          /\ s.pc = "crawl" /\ e \in Crawls /\ e.pc = "crawl" /\ e.d = s.d /\ e.publisher = s.publisher
          /\ e.pipe = s.pipe /\ e.visited = s.visited \cup {page} /\ e.items <= e.pipe
    BY <1>12, UnreachableIs DEF Keeps, SameTask
  <2>2. IsFiniteSet(e.visited) /\ e.visited # {}
    BY <1>0, <2>1, FS_AddElement DEF SoundCrawl
  <2> QED BY <1>0, <2>1, <2>2 DEF SoundCrawl
<1>13. CASE CrawlEnds(w) \/ ChildDies(w)
  BY <1>0, <1>13, ChildIs DEF SoundCrawl, Keeps, SameTask, SameChild
<1>14. CASE PortalFails(w)
  <2>1. s.pc = "crawl" /\ s.visited = {} /\ e \in Crawls /\ e.pc = "group" /\ e.d = s.d
        /\ e.frontier = {} /\ e.visited = {} /\ e.items = s.items /\ e.pipe = s.pipe
    BY <1>14, PortalFailsIs DEF Keeps
  <2> QED BY <1>0, <2>1, FS_EmptySet DEF SoundCrawl
<1> QED BY <1>1, <1>2, <1>3, <1>4, <1>5, <1>6, <1>7, <1>8, <1>9, <1>10, <1>11, <1>12, <1>13, <1>14
        DEF Turn, WorkerStep, ChildStep

\* A tick adds one to the clock of each worker whose task runs.
LEMMA TickIs ==
    ASSUME Typed, Later, NEW w \in Workers, NEW s, s = worker[w], NEW e, e = worker'[w]
    PROVE  /\ SoundCrawl(e)
           /\ e.elapsed = IF Timed(s) THEN s.elapsed + 1 ELSE s.elapsed
           /\ e.pc = s.pc /\ e.d = s.d /\ e.urls = s.urls /\ e.child = s.child /\ e.verdict = s.verdict
           /\ SameLooks(s, e) /\ SameChild(s, e) /\ SameTask(s, e)
<1>0. SoundCrawl(s) /\ s \in Crawls
  BY DEF Typed, CrawlsTyped, SoundCrawl
<1>1. e = IF Timed(s) THEN [s EXCEPT !.elapsed = @ + 1] ELSE s
  BY DEF Later
<1>2. CASE Timed(s)
  <2> DEFINE n == s.elapsed + 1
  <2>1. n \in 0 .. Deadline
    BY <1>0, <1>2, CrawlAssumption DEF Crawls, Timed
  <2>2. e = [s EXCEPT !.elapsed = n] /\ s.pc # "gate"
    BY <1>1, <1>2 DEF Timed
  <2> HIDE DEF n
  <2>3. [s EXCEPT !.elapsed = n] \in Crawls
    BY <1>0, <2>1 DEF Crawls
  <2>4. e \in Crawls
    BY <2>2, <2>3
  <2>5. /\ e.pc = s.pc /\ e.d = s.d /\ e.urls = s.urls /\ e.child = s.child /\ e.verdict = s.verdict
        /\ SameLooks(s, e) /\ SameChild(s, e) /\ SameTask(s, e) /\ e.elapsed = n
    BY <1>0, <2>2 DEF Crawls, SameLooks, SameChild, SameTask
  <2>6. SoundCrawl(e)
    BY <1>0, <2>2, <2>4, <2>5 DEF SoundCrawl, SameChild, SameTask
  <2> QED BY <1>2, <2>5, <2>6 DEF n
<1>3. CASE ~Timed(s)
  BY <1>0, <1>1, <1>3 DEF SameLooks, SameChild, SameTask
<1> QED BY <1>2, <1>3

\* A message as it is sent, and the row as it is stamped.
Sent(c)  == [d |-> c.d, urls |-> c.urls, receives |-> 0, hidden |-> 0]
Stamped  == [row EXCEPT !.d = issued + 1, !.age = 0]

LEMMA IdleOrchIs == IdleOrch \in Plans /\ IdleOrch.pc = "idle"
BY DEF IdleOrch, Plans

\* What each step makes of its orchestrator.
LEMMA OrchIs ==
    ASSUME NEW o \in Orchestrators, Typed, OrchTurn(o), NEW c, c = orch[o], NEW b, b = orch'[o]
    PROVE  /\ orch' = [p \in Orchestrators |-> IF p = o THEN b ELSE orch[p]]
           /\ b \in Plans /\ UNCHANGED <<running, enabled, history, artifacts, worker>>
           /\ \/ UNCHANGED <<tables, msgs>> /\ b.pc \in {"idle", "select", "park", "park_seeding"}
              \/ /\ UNCHANGED <<tables, msgs>> /\ c.pc = "select" /\ Eligible
                 /\ b.pc = "sources" /\ b.seen = row.d
              \/ UNCHANGED <<tables, msgs>> /\ c.pc = "sources" /\ b.pc = "stamp" /\ b.seen = c.seen
              \/ /\ c.pc \in {"park", "park_seeding"} /\ row' = Parked /\ UNCHANGED <<issued, msgs>>
                 /\ b.pc \in {"idle", "select"}
              \/ /\ c.pc = "stamp" /\ row.d = c.seen /\ issued < MaxDispatch /\ issued' = issued + 1
                 /\ row' = Stamped /\ UNCHANGED msgs /\ b.pc = "send" /\ b.d = issued + 1
              \/ c.pc = "send" /\ UNCHANGED tables /\ msgs' = msgs \cup {Sent(c)} /\ b.pc = "idle"
<1>0. orch = [p \in Orchestrators |-> orch[p]] /\ c \in Plans
  BY DEF Typed, PlansTyped, SoundPlan
<1>t. row.d \in {0} \cup Dispatches /\ enabled \in SUBSET Urls
  BY DEF Typed, TablesTyped, Rows
<1>u. UNCHANGED <<running, enabled, history, artifacts, worker>>
  BY DEF OrchTurn, OrchStep, Cycle, Select, ReadSources, Park, Stamp, Send, OrchestratorFails, tables
<1>1. CASE Cycle(o)
  <2>1. PICK pc \in {"select", "park_seeding"} : orch' = [orch EXCEPT ![o].pc = pc]
    BY <1>1 DEF Cycle
  <2>2. b = [c EXCEPT !.pc = pc] /\ orch' = [p \in Orchestrators |-> IF p = o THEN b ELSE orch[p]]
    BY <1>0, <2>1
  <2>3. [c EXCEPT !.pc = pc] \in Plans /\ b.pc = pc
    BY <1>0, <2>2 DEF Plans
  <2> QED BY <1>1, <1>u, <2>2, <2>3 DEF Cycle
<1>2. CASE Select(o)
  <2>1. CASE Eligible
    <3>1. b = [c EXCEPT !.pc = "sources", !.seen = row.d]
          /\ orch' = [p \in Orchestrators |-> IF p = o THEN b ELSE orch[p]]
      BY <1>0, <1>2, <2>1 DEF Select
    <3>2. [c EXCEPT !.pc = "sources", !.seen = row.d] \in Plans /\ b.pc = "sources" /\ b.seen = row.d
      BY <1>0, <1>t, <3>1 DEF Plans
    <3> QED BY <1>2, <1>u, <2>1, <3>1, <3>2 DEF Select
  <2>2. CASE ~Eligible
    <3>1. b = IdleOrch /\ orch' = [p \in Orchestrators |-> IF p = o THEN b ELSE orch[p]]
      BY <1>0, <1>2, <2>2 DEF Select
    <3> QED BY <1>2, <1>u, <3>1, IdleOrchIs DEF Select
  <2> QED BY <2>1, <2>2
<1>3. CASE ReadSources(o)
  <2>1. PICK pc \in {"park", "stamp"} :
          orch' = [orch EXCEPT ![o] = [c EXCEPT !.pc = pc, !.urls = enabled]]
    BY <1>3 DEF ReadSources
  <2>2. b = [c EXCEPT !.pc = pc, !.urls = enabled]
        /\ orch' = [p \in Orchestrators |-> IF p = o THEN b ELSE orch[p]]
    BY <1>0, <2>1
  <2>3. [c EXCEPT !.pc = pc, !.urls = enabled] \in Plans /\ b.pc = pc /\ b.seen = c.seen
    BY <1>0, <1>t, <2>2 DEF Plans
  <2> QED BY <1>3, <1>u, <2>2, <2>3 DEF ReadSources
<1>4. CASE Park(o)
  <2>1. PICK pc \in {"idle", "select"} : orch' = [orch EXCEPT ![o] = [IdleOrch EXCEPT !.pc = pc]]
    BY <1>4 DEF Park
  <2>2. b = [IdleOrch EXCEPT !.pc = pc] /\ orch' = [p \in Orchestrators |-> IF p = o THEN b ELSE orch[p]]
    BY <1>0, <2>1
  <2>3. [IdleOrch EXCEPT !.pc = pc] \in Plans /\ b.pc = pc
    BY <2>2, IdleOrchIs DEF Plans
  <2> QED BY <1>4, <1>u, <2>2, <2>3 DEF Park
<1>5. CASE Stamp(o)
  <2>1. CASE row.d = c.seen
    <3>1. issued < MaxDispatch /\ issued' = issued + 1 /\ row' = Stamped /\ UNCHANGED msgs /\ c.pc = "stamp"
      BY <1>5, <2>1 DEF Stamp, Stamped
    <3>2. b = [c EXCEPT !.pc = "send", !.d = issued + 1]
          /\ orch' = [p \in Orchestrators |-> IF p = o THEN b ELSE orch[p]]
      BY <1>0, <1>5, <2>1 DEF Stamp
    <3>3. issued + 1 \in {0} \cup Dispatches
      BY <3>1, CrawlAssumption DEF Typed, TablesTyped, Dispatches
    <3>4. [c EXCEPT !.pc = "send", !.d = issued + 1] \in Plans /\ b.pc = "send" /\ b.d = issued + 1
      BY <1>0, <3>2, <3>3 DEF Plans
    <3> QED BY <1>u, <2>1, <3>1, <3>2, <3>4
  <2>2. CASE row.d # c.seen
    <3>1. b = IdleOrch /\ orch' = [p \in Orchestrators |-> IF p = o THEN b ELSE orch[p]]
          /\ UNCHANGED <<row, issued, msgs>>
      BY <1>0, <1>5, <2>2 DEF Stamp
    <3> QED BY <1>u, <3>1, IdleOrchIs DEF tables
  <2> QED BY <2>1, <2>2
<1>6. CASE Send(o)
  <2>1. b = IdleOrch /\ orch' = [p \in Orchestrators |-> IF p = o THEN b ELSE orch[p]]
        /\ c.pc = "send" /\ UNCHANGED tables /\ msgs' = msgs \cup {Sent(c)}
    BY <1>0, <1>6 DEF Send, Sent
  <2> QED BY <1>u, <2>1, IdleOrchIs
<1>7. CASE OrchestratorFails(o)
  <2>1. b = IdleOrch /\ orch' = [p \in Orchestrators |-> IF p = o THEN b ELSE orch[p]]
        /\ UNCHANGED <<tables, msgs>>
    BY <1>0, <1>7 DEF OrchestratorFails
  <2> QED BY <1>u, <2>1, IdleOrchIs
<1> QED BY <1>1, <1>2, <1>3, <1>4, <1>5, <1>6, <1>7 DEF OrchTurn, OrchStep

\* Only a stamp issues a dispatch.
LEMMA IssuedGrows ==
    ASSUME Typed, [Next]_vars
    PROVE  issued' \in 0 .. MaxDispatch /\ issued <= issued' /\ 1 .. issued \subseteq 1 .. issued'
<1>1. issued \in 0 .. MaxDispatch
  BY DEF Typed, TablesTyped
<1>2. issued' = issued \/ (issued < MaxDispatch /\ issued' = issued + 1)
  BY DEF Next, OrchStep, Cycle, Select, ReadSources, Park, Stamp, Send, OrchestratorFails,
     WorkerStep, ChildStep, Receive, Gate, NextGroup, NoGroupLeft, Discovered, StageOne, GroupEnds,
     Record, Finalize, Delete, Render, Unreachable, CrawlEnds, ChildDies, PortalFails, WorkerFails,
     DeadLetter, Tick, TickLate, TickBacklog, Later, FallDue, SetEnabled, Stop, Start, tables, vars
<1> QED BY <1>1, <1>2, CrawlAssumption

\* What the queue makes of a message.
Shown(m) == [m EXCEPT !.hidden = IF @ > 0 THEN @ - 1 ELSE 0]

LEMMA MessageIs ==
    ASSUME NEW m \in Messages
    PROVE  /\ m.receives < MaxReceive => Taken(m) \in Messages /\ Taken(m).d = m.d
           /\ [m EXCEPT !.hidden = Visibility] \in Messages /\ [m EXCEPT !.hidden = Visibility].d = m.d
           /\ Shown(m) \in Messages /\ Shown(m).d = m.d /\ Shown(m).receives = m.receives
           /\ m.hidden = 0 => Shown(m).hidden = 0
<1>0. Visibility \in 0 .. Visibility /\ m.hidden \in 0 .. Visibility /\ m.receives \in 0 .. MaxReceive
      /\ MaxReceive \in Nat /\ Visibility \in Nat
  BY CrawlAssumption DEF Messages
<1>1. [m EXCEPT !.hidden = Visibility] \in Messages /\ [m EXCEPT !.hidden = Visibility].d = m.d
  BY <1>0 DEF Messages
<1>2. ASSUME m.receives < MaxReceive
      PROVE  Taken(m) \in Messages /\ Taken(m).d = m.d
  <2> DEFINE n == m.receives + 1
  <2>1. n \in 0 .. MaxReceive
    BY <1>0, <1>2
  <2>2. Taken(m) = [m EXCEPT !.receives = n, !.hidden = Visibility]
    BY DEF Taken
  <2> HIDE DEF n
  <2> QED BY <1>0, <2>1, <2>2 DEF Messages
<1>3. Shown(m) \in Messages /\ Shown(m).d = m.d /\ Shown(m).receives = m.receives
      /\ (m.hidden = 0 => Shown(m).hidden = 0)
  <2> DEFINE n == IF m.hidden > 0 THEN m.hidden - 1 ELSE 0
  <2>1. n \in 0 .. Visibility /\ (m.hidden = 0 => n = 0)
    BY <1>0
  <2>2. Shown(m) = [m EXCEPT !.hidden = n]
    BY DEF Shown
  <2> HIDE DEF n
  <2> QED BY <1>0, <2>1, <2>2 DEF Messages
<1> QED BY <1>1, <1>2, <1>3

\* Whose turn touches the queue.
LEMMA TurnQueue ==
    ASSUME NEW w \in Workers, Turn(w)
    PROVE  UNCHANGED msgs \/ Receive(w) \/ NextGroup(w) \/ GroupEnds(w) \/ Delete(w)
BY DEF Turn, WorkerStep, ChildStep, Gate, NoGroupLeft, Discovered, StageOne, Record, Finalize, Render,
       Unreachable, CrawlEnds, ChildDies, PortalFails, WorkerFails

LEMMA QueueStep ==
    ASSUME Typed, [Next]_vars
    PROVE  QueueTyped'
<1>0. msgs \subseteq Messages /\ \A m \in msgs : m.d <= issued
  BY DEF Typed, QueueTyped
<1>i. issued \in Nat /\ issued' \in Nat /\ issued <= issued'
  BY IssuedGrows DEF Typed, TablesTyped
<1>j. \A m \in Messages : m.d \in Nat
  BY DEF Messages, Dispatches
<1>1. ASSUME msgs' \subseteq Messages, \A m \in msgs' : m.d <= issued
      PROVE  QueueTyped'
  <2>1. \A m \in msgs' : m.d <= issued'
    BY <1>1, <1>i, <1>j
  <2> QED BY <1>1, <2>1 DEF QueueTyped
<1>2. CASE msgs' \subseteq msgs
  BY <1>0, <1>1, <1>2
<1>3. ASSUME NEW w \in Workers, Turn(w) PROVE QueueTyped'
  <2>1. CASE Receive(w)
    <3>1. PICK m \in msgs : m.receives < MaxReceive /\ msgs' = (msgs \ {m}) \cup {Taken(m)}
      BY <2>1, ReceiveIs
    <3>2. Taken(m) \in Messages /\ Taken(m).d = m.d
      BY <1>0, <3>1, MessageIs
    <3> QED BY <1>0, <1>1, <3>1, <3>2
  <2>2. CASE msgs' = Extended(worker[w])
    <3>1. ASSUME NEW k \in msgs' PROVE k \in Messages /\ k.d <= issued
      <4>1. PICK m \in msgs : k = m \/ k = [m EXCEPT !.hidden = Visibility]
        BY <2>2, <3>1 DEF Extended
      <4> QED BY <1>0, <4>1, MessageIs
    <3> QED BY <1>1, <3>1
  <2>3. CASE Delete(w)
    BY <1>2, <2>3 DEF Delete
  <2> QED BY <1>2, <1>3, <2>1, <2>2, <2>3, TurnQueue DEF NextGroup, GroupEnds
<1>4. ASSUME NEW o \in Orchestrators, OrchTurn(o) PROVE QueueTyped'
  <2>1. msgs' = msgs \/ (orch[o].pc = "send" /\ msgs' = msgs \cup {Sent(orch[o])})
    BY <1>4, OrchIs
  <2>2. ASSUME orch[o].pc = "send"
        PROVE  Sent(orch[o]) \in Messages /\ Sent(orch[o]).d <= issued
    <3>1. orch[o] \in Plans /\ orch[o].d \in 1 .. issued
      BY <2>2 DEF Typed, PlansTyped, SoundPlan
    <3>2. orch[o].d \in Dispatches /\ orch[o].urls \in SUBSET Urls /\ 0 \in 0 .. MaxReceive /\ 0 \in 0 .. Visibility
      BY <3>1, CrawlAssumption DEF Typed, TablesTyped, Dispatches, Plans
    <3> QED BY <3>1, <3>2, <1>i DEF Sent, Messages
  <2> QED BY <1>0, <1>1, <2>1, <2>2
<1>5. CASE Passes
  <2>1. msgs' = {Shown(m) : m \in msgs}
    BY <1>5 DEF Passes, Tick, TickLate, TickBacklog, Later, Shown
  <2>2. ASSUME NEW k \in msgs' PROVE k \in Messages /\ k.d <= issued
    <3>1. PICK m \in msgs : k = Shown(m)
      BY <2>1, <2>2
    <3>2. Shown(m) \in Messages /\ Shown(m).d = m.d
      BY <1>0, MessageIs
    <3> QED BY <1>0, <3>1, <3>2
  <2> QED BY <1>1, <2>2
<1>6. CASE Outside
  BY <1>2, <1>6 DEF Outside, DeadLetter, FallDue, SetEnabled, Stop, Start, vars
<1> QED BY <1>3, <1>4, <1>5, <1>6, Steps

LEMMA PlansStep ==
    ASSUME Typed, [Next]_vars
    PROVE  PlansTyped'
<1>0. PlansTyped
  BY DEF Typed
<1>1. \A c : SoundPlan(c) => SoundPlan(c)'
  BY IssuedGrows DEF SoundPlan
<1>2. CASE UNCHANGED orch
  BY <1>0, <1>1, <1>2 DEF PlansTyped
<1>3. ASSUME NEW o \in Orchestrators, OrchTurn(o) PROVE PlansTyped'
  <2>1. PICK b : b = orch'[o]
    OBVIOUS
  <2>2. orch' = [p \in Orchestrators |-> IF p = o THEN b ELSE orch[p]] /\ b \in Plans
    BY <1>3, <2>1, OrchIs
  <2>3. b.pc # "send" \/ (issued' = issued + 1 /\ b.d = issued + 1)
    BY <1>3, <2>1, OrchIs
  <2>4. b.pc = "send" => b.d \in 1 .. issued'
    BY <2>3 DEF Typed, TablesTyped
  <2>5. SoundPlan(b)'
    BY <2>2, <2>4 DEF SoundPlan
  <2>6. \A p \in Orchestrators : orch'[p] = IF p = o THEN b ELSE orch[p]
    BY <2>2
  <2>7. ASSUME NEW p \in Orchestrators PROVE SoundPlan(orch[p])'
    <3>1. PICK x : x = orch'[p]
      OBVIOUS
    <3>2. SoundPlan(x)'
      BY <1>0, <1>1, <2>5, <2>6, <3>1 DEF PlansTyped
    <3> QED BY <3>1, <3>2 DEF SoundPlan
  <2>8. orch' = [p \in Orchestrators |-> orch'[p]]
    BY <2>2
  <2> QED BY <2>7, <2>8 DEF PlansTyped
<1> QED BY <1>2, <1>3, Steps

LEMMA CrawlsStep ==
    ASSUME Typed, [Next]_vars
    PROVE  CrawlsTyped'
<1>0. CrawlsTyped
  BY DEF Typed
<1>1. \A s : SoundCrawl(s) => SoundCrawl(s)'
  BY IssuedGrows DEF SoundCrawl
<1>2. CASE UNCHANGED worker
  BY <1>0, <1>1, <1>2 DEF CrawlsTyped
<1>3. ASSUME NEW w \in Workers, Turn(w) PROVE CrawlsTyped'
  <2>1. PICK e : e = worker'[w]
    OBVIOUS
  <2>2. worker' = [v \in Workers |-> IF v = w THEN e ELSE worker[v]]
    BY <1>0, <1>3, <2>1, Turns DEF CrawlsTyped
  <2>3. SoundCrawl(e)
    BY <1>3, <2>1, TurnSound
  <2>4. \A v \in Workers : worker'[v] = IF v = w THEN e ELSE worker[v]
    BY <2>2
  <2>5. ASSUME NEW v \in Workers PROVE SoundCrawl(worker[v])'
    <3>1. PICK x : x = worker'[v]
      OBVIOUS
    <3>2. SoundCrawl(x)'
      BY <1>0, <1>1, <2>3, <2>4, <3>1 DEF CrawlsTyped
    <3> QED BY <3>1, <3>2 DEF SoundCrawl
  <2>6. worker' = [v \in Workers |-> worker'[v]]
    BY <2>2
  <2> QED BY <2>5, <2>6 DEF CrawlsTyped
<1>4. CASE Passes
  <2>1. Later
    BY <1>4 DEF Passes, Tick, TickLate, TickBacklog
  <2>3. worker' = [v \in Workers |-> worker'[v]]
    BY <2>1 DEF Later
  <2>4. ASSUME NEW v \in Workers PROVE SoundCrawl(worker[v])'
    <3>1. PICK x : x = worker'[v]
      OBVIOUS
    <3>2. SoundCrawl(x)
      BY <2>1, <3>1, TickIs
    <3>3. SoundCrawl(x)'
      BY <1>1, <3>2
    <3> QED BY <3>1, <3>3 DEF SoundCrawl
  <2> QED BY <2>3, <2>4 DEF CrawlsTyped
<1> QED BY <1>2, <1>3, <1>4, Steps

\* What the row can become.
LEMMA RowBecomes ==
    ASSUME Typed
    PROVE  /\ row.d \in Nat /\ row.age \in 0 .. Timeout /\ Deadline \in Nat /\ Timeout \in Nat /\ Deadline < Timeout
           /\ Parked \in Rows /\ Parked.d = 0 /\ ~Parked.due
           /\ issued < MaxDispatch => Stamped \in Rows /\ Stamped.d = issued + 1 /\ Stamped.age = 0
                                      /\ Stamped.due = row.due
           /\ [row EXCEPT !.due = TRUE] \in Rows /\ [row EXCEPT !.due = TRUE].d = row.d
           /\ \A v \in Results : LET r == [d |-> 0, due |-> FALSE, age |-> 0, result |-> v]
                                 IN r \in Rows
<1>0. row \in Rows /\ 0 \in 0 .. Timeout /\ Timeout \in Nat /\ Deadline \in Nat /\ Deadline < Timeout
  BY CrawlAssumption DEF Typed, TablesTyped
<1>1. Parked \in Rows /\ Parked.d = 0 /\ ~Parked.due
  BY <1>0 DEF Parked, Rows, Results
<1>2. ASSUME issued < MaxDispatch
      PROVE  Stamped \in Rows /\ Stamped.d = issued + 1 /\ Stamped.age = 0 /\ Stamped.due = row.due
  <2> DEFINE n == issued + 1
  <2>1. n \in {0} \cup Dispatches
    BY <1>2, CrawlAssumption DEF Typed, TablesTyped, Dispatches
  <2>2. Stamped = [row EXCEPT !.d = n, !.age = 0]
    BY DEF Stamped
  <2> HIDE DEF n
  <2>3. Stamped \in Rows /\ Stamped.d = n /\ Stamped.age = 0 /\ Stamped.due = row.due
    BY <1>0, <2>1, <2>2 DEF Rows
  <2> QED BY <2>3 DEF n
<1>3. [row EXCEPT !.due = TRUE] \in Rows /\ [row EXCEPT !.due = TRUE].d = row.d
  BY <1>0 DEF Rows
<1>4. \A v \in Results : [d |-> 0, due |-> FALSE, age |-> 0, result |-> v] \in Rows
  BY <1>0 DEF Rows
<1>5. row.d \in Nat /\ row.age \in 0 .. Timeout
  BY <1>0 DEF Rows, Dispatches
<1> QED BY <1>0, <1>1, <1>2, <1>3, <1>4, <1>5

\* And what a tick makes of it.
LEMMA RowAges ==
    ASSUME Typed, Later
    PROVE  /\ row' \in Rows /\ row'.d = row.d /\ row'.due = row.due
           /\ row'.age = IF row.d # 0 /\ row.age < Timeout THEN row.age + 1 ELSE row.age
<1>0. row \in Rows /\ Timeout \in Nat
  BY CrawlAssumption DEF Typed, TablesTyped
<1> DEFINE n == IF row.d # 0 /\ row.age < Timeout THEN row.age + 1 ELSE row.age
<1>1. n \in 0 .. Timeout
  BY <1>0 DEF Rows
<1>2. row' = [row EXCEPT !.age = n]
  BY DEF Later
<1> HIDE DEF n
<1>3. row' \in Rows /\ row'.d = row.d /\ row'.due = row.due /\ row'.age = n
  BY <1>0, <1>1, <1>2 DEF Rows
<1> QED BY <1>3 DEF n

\* Whose turn touches the row, the history and the artifacts.
LEMMA TurnTables ==
    ASSUME NEW w \in Workers, Turn(w)
    PROVE  /\ UNCHANGED <<running, enabled, issued>>
           /\ UNCHANGED row \/ Finalize(w)
           /\ UNCHANGED history \/ Record(w)
           /\ UNCHANGED artifacts \/ StageOne(w)
<1>1. UNCHANGED tables \/ StageOne(w) \/ Record(w) \/ Finalize(w)
  BY DEF Turn, WorkerStep, ChildStep, Receive, Gate, NextGroup, NoGroupLeft, Discovered, GroupEnds, Delete,
         Render, Unreachable, CrawlEnds, ChildDies, PortalFails, WorkerFails
<1> QED BY <1>1 DEF StageOne, Record, Finalize, tables

LEMMA TablesStep ==
    ASSUME Typed, [Next]_vars
    PROVE  TablesTyped'
<1>0. TablesTyped /\ issued \in Nat /\ issued' \in 0 .. MaxDispatch /\ issued' \in Nat /\ issued <= issued'
  BY IssuedGrows DEF Typed, TablesTyped
<1>h. history \subseteq HistoryRows /\ (\A h \in history : h.d <= issued') /\ artifacts \subseteq Documents
      /\ row \in Rows /\ row.d <= issued' /\ row.d \in Nat
  <2>1. \A h \in HistoryRows : h.d \in Nat
    BY DEF HistoryRows, Dispatches
  <2>2. row.d \in Nat
    BY RowBecomes
  <2> QED BY <1>0, <2>1, <2>2 DEF TablesTyped
<1>1. CASE UNCHANGED tables
  BY <1>0, <1>1 DEF TablesTyped, tables
<1>2. ASSUME NEW w \in Workers, Turn(w) PROVE TablesTyped'
  <2>1. running' \in BOOLEAN /\ enabled' \subseteq Urls
    BY <1>0, <1>2, TurnTables DEF TablesTyped
  <2>2. row' \in Rows /\ row'.d <= issued'
    <3>1. CASE UNCHANGED row
      BY <1>h, <3>1
    <3>2. CASE Finalize(w)
      <4>1. worker[w].verdict \in Results
        BY <3>2, FinalizeIs DEF Typed, CrawlsTyped, SoundCrawl
      <4>2. row' = row \/ row' = [d |-> 0, due |-> FALSE, age |-> 0, result |-> worker[w].verdict]
        BY <3>2, FinalizeIs
      <4> QED BY <1>0, <1>h, <4>1, <4>2, RowBecomes
    <3> QED BY <1>2, <3>1, <3>2, TurnTables
  <2>3. history' \subseteq HistoryRows /\ \A h \in history' : h.d <= issued'
    <3>1. CASE UNCHANGED history
      BY <1>h, <3>1
    <3>2. CASE Record(w)
      <4>1. worker[w].pc = "record" /\ (history' = history \/ history' = history \cup {Row(worker[w])})
        BY <3>2, RecordIs
      <4>2. worker[w] \in Crawls /\ worker[w].d \in 1 .. issued
        BY <4>1 DEF Typed, CrawlsTyped, SoundCrawl
      <4>3. worker[w].d \in Dispatches /\ worker[w].d <= issued'
        BY <1>0, <4>2, CrawlAssumption DEF TablesTyped, Dispatches
      <4>4. Row(worker[w]) \in HistoryRows /\ Row(worker[w]).d = worker[w].d
        BY <4>2, <4>3, RowIs
      <4> QED BY <1>h, <4>1, <4>3, <4>4
    <3> QED BY <1>2, <3>1, <3>2, TurnTables
  <2>4. artifacts' \subseteq Documents
    <3>1. CASE UNCHANGED artifacts
      BY <1>h, <3>1
    <3>2. CASE StageOne(w)
      <4>1. PICK c \in worker[w].piped : artifacts' = artifacts \cup {c}
        BY <3>2, StageOneIs
      <4>2. worker[w].piped \subseteq Documents
        BY DEF Typed, CrawlsTyped, SoundCrawl, Crawls
      <4> QED BY <1>h, <4>1, <4>2
    <3> QED BY <1>2, <3>1, <3>2, TurnTables
  <2> QED BY <1>0, <2>1, <2>2, <2>3, <2>4 DEF TablesTyped
<1>3. ASSUME NEW o \in Orchestrators, OrchTurn(o) PROVE TablesTyped'
  <2>1. UNCHANGED <<running, enabled, history, artifacts>>
    BY <1>3, OrchIs
  <2>2. \/ UNCHANGED row \/ row' = Parked
        \/ issued < MaxDispatch /\ issued' = issued + 1 /\ row' = Stamped
    BY <1>3, OrchIs DEF tables
  <2>3. row' \in Rows /\ row'.d <= issued'
    <3>1. Parked \in Rows /\ Parked.d = 0
      BY RowBecomes
    <3>2. issued < MaxDispatch => Stamped \in Rows /\ Stamped.d = issued + 1
      BY RowBecomes
    <3> QED BY <1>0, <1>h, <2>2, <3>1, <3>2
  <2> QED BY <1>0, <1>h, <2>1, <2>3 DEF TablesTyped
<1>4. CASE Passes
  <2>1. Later /\ UNCHANGED <<running, enabled, issued, history, artifacts>>
    BY <1>4 DEF Passes, Tick, TickLate, TickBacklog, Later
  <2>2. row' \in Rows /\ row'.d = row.d
    BY <2>1, RowAges
  <2> QED BY <1>0, <1>h, <2>1, <2>2 DEF TablesTyped
<1>5. CASE Outside
  <2>1. CASE FallDue
    <3>1. row' = [row EXCEPT !.due = TRUE] /\ UNCHANGED <<running, enabled, history, artifacts>>
      BY <2>1 DEF FallDue
    <3>2. row' \in Rows /\ row'.d = row.d
      BY <3>1, RowBecomes
    <3> QED BY <1>0, <1>h, <3>1, <3>2 DEF TablesTyped
  <2>2. ASSUME NEW u \in Urls, SetEnabled(u) PROVE TablesTyped'
    <3>1. enabled' \subseteq Urls /\ UNCHANGED <<running, row, history, artifacts>>
      BY <1>0, <2>2 DEF SetEnabled, TablesTyped
    <3> QED BY <1>0, <1>h, <3>1 DEF TablesTyped
  <2>3. CASE Stop \/ Start
    <3>1. running' \in BOOLEAN /\ UNCHANGED <<enabled, row, history, artifacts>>
      BY <2>3 DEF Stop, Start
    <3> QED BY <1>0, <1>h, <3>1 DEF TablesTyped
  <2>4. CASE DeadLetter \/ UNCHANGED vars
    BY <1>1, <2>4 DEF DeadLetter, vars
  <2> QED BY <1>5, <2>1, <2>2, <2>3, <2>4 DEF Outside
<1> QED BY <1>2, <1>3, <1>4, <1>5, Steps

\* Faults, renewed crawls and ticks of a backlog are only counted up.
LEMMA BoundsStep ==
    ASSUME Typed, [Next]_vars
    PROVE  /\ BoundsTyped' /\ faults <= faults' /\ recrawls <= recrawls' /\ backlog <= backlog'
           /\ Fault => faults' = faults + 1
           /\ faults' # faults => Fault
<1>0. faults \in Nat /\ backlog \in Nat /\ recrawls \in Nat
  BY DEF Typed, BoundsTyped
<1>1. faults' = faults \/ Fault
  BY DEF Next, OrchStep, Cycle, Select, ReadSources, Park, Stamp, Send, OrchestratorFails,
     WorkerStep, ChildStep, Receive, Gate, NextGroup, NoGroupLeft, Discovered, StageOne, GroupEnds,
     Record, Finalize, Delete, Render, Unreachable, CrawlEnds, ChildDies, PortalFails, WorkerFails,
     DeadLetter, Tick, TickLate, TickBacklog, FallDue, SetEnabled, Stop, Start, vars, NoFault
<1>2. recrawls' = recrawls \/ recrawls' = recrawls + 1
  BY DEF Next, OrchStep, Cycle, Select, ReadSources, Park, Stamp, Send, OrchestratorFails,
     WorkerStep, ChildStep, Receive, Gate, NextGroup, NoGroupLeft, Discovered, StageOne, GroupEnds,
     Record, Finalize, Delete, Render, Unreachable, CrawlEnds, ChildDies, PortalFails, WorkerFails,
     DeadLetter, Tick, TickLate, TickBacklog, FallDue, SetEnabled, Stop, Start, vars, NoFault, counts
<1>3. backlog' = backlog \/ backlog' = backlog + 1
  <2>1. TickLate => UNCHANGED backlog
    BY DEF TickLate, counts
  <2>2. Tick => UNCHANGED backlog
    BY DEF Tick, NoFault, counts
  <2> QED BY <2>1, <2>2, Steps DEF Passes, TickBacklog
<1> QED BY <1>0, <1>1, <1>2, <1>3 DEF BoundsTyped, Fault

LEMMA InitTyped == Init => Typed
<1> SUFFICES ASSUME Init PROVE Typed
  OBVIOUS
<1>1. TablesTyped
  <2>1. Fresh \in Rows /\ Fresh.d = 0
    BY CrawlAssumption DEF Fresh, Rows
  <2> QED BY <2>1, CrawlAssumption DEF Init, TablesTyped
<1>2. QueueTyped /\ BoundsTyped
  BY DEF Init, QueueTyped, BoundsTyped
<1>3. PlansTyped
  BY IdleOrchIs DEF Init, PlansTyped, SoundPlan
<1>4. SoundCrawl(IdleWorker)
  BY IdleIs, FS_EmptySet DEF SoundCrawl, Bare
<1>5. CrawlsTyped
  BY <1>4 DEF Init, CrawlsTyped
<1> QED BY <1>1, <1>2, <1>3, <1>5 DEF Typed

LEMMA TypedStep == Typed /\ [Next]_vars => Typed'
BY TablesStep, QueueStep, PlansStep, CrawlsStep, BoundsStep DEF Typed

\* Every variable keeps its type, for any number of orchestrators and workers, any portals and
\* any durations: a child never has more items in its pipe than fit, and a worker's clock stops at
\* the deadline.
THEOREM TypeCorrect == Spec => []TypeOK
<1>1. Typed => TypeOK
  <2> SUFFICES ASSUME Typed PROVE TypeOK
    OBVIOUS
  <2>1. MaxDispatch \in Nat /\ Dispatches = 1 .. MaxDispatch
    BY CrawlAssumption DEF Dispatches
  <2>2. ASSUME NEW o \in Orchestrators
        PROVE  /\ orch[o].pc \in {"idle", "select", "sources", "park", "park_seeding", "stamp", "send"}
               /\ orch[o].seen \in 0 .. MaxDispatch /\ orch[o].urls \subseteq Urls
    <3>1. orch[o] \in Plans
      BY DEF Typed, PlansTyped, SoundPlan
    <3> QED BY <2>1, <3>1 DEF Plans
  <2>3. ASSUME NEW w \in Workers, NEW s, s = worker[w]
        PROVE  /\ s.pc \in WorkerPcs /\ s.d \in 0 .. MaxDispatch /\ s.elapsed \in 0 .. Deadline
               /\ s.items \in 0 .. s.pipe /\ s.piped \subseteq Documents
               /\ s.child \in {"none", "runs", "exited", "stuck", "died"}
    <3>1. s \in Crawls /\ s.items <= s.pipe
      BY <2>3 DEF Typed, CrawlsTyped, SoundCrawl
    <3> QED BY <2>1, <3>1 DEF Crawls
  <2> QED BY <2>2, <2>3 DEF Typed, TablesTyped, QueueTyped, TypeOK
<1> QED BY <1>1, InitTyped, TypedStep, PTL DEF Spec


-----------------------------------------------------------------------------
(* A dispatch is let go by its verdict.                                    *)

\* History rows and artifacts are never removed.
LEMMA Grows ==
    ASSUME Typed, [Next]_vars
    PROVE  history \subseteq history' /\ artifacts \subseteq artifacts'
<1>1. ASSUME NEW o \in Orchestrators, OrchTurn(o) PROVE UNCHANGED <<history, artifacts>>
  BY <1>1, OrchIs
<1>2. ASSUME NEW w \in Workers, Turn(w) PROVE history \subseteq history' /\ artifacts \subseteq artifacts'
  BY <1>2, TurnTables DEF Record, StageOne
<1>3. CASE Passes
  BY <1>3 DEF Passes, Tick, TickLate, TickBacklog, Later
<1>4. CASE Outside
  BY <1>4 DEF Outside, DeadLetter, FallDue, SetEnabled, Stop, Start, vars, tables
<1> QED BY <1>1, <1>2, <1>3, <1>4, Steps

\* Which action takes a worker where.
LEMMA WhereTo ==
    ASSUME NEW w \in Workers, Typed, Turn(w), NEW s, s = worker[w], NEW e, e = worker'[w]
    PROVE  /\ e.pc = "gate" => Receive(w)
           /\ e.pc = "finalize" => Record(w)
           /\ e.pc \in Past => e.d = s.d /\ e.elapsed = s.elapsed /\ (s.pc \in Past \/ Gate(w))
           /\ e.pc = "crawl" /\ e.child = "died" => (s.child = "died" /\ s.pc = "crawl") \/ Fault
<1>1. CASE Receive(w)
  BY <1>1, ReceiveIs DEF Past
<1>2. CASE Gate(w)
  BY <1>2, GateIs DEF Past, Keeps
<1>3. CASE NextGroup(w)
  <2>1. s.elapsed \in Nat /\ Deadline \in Nat
    BY CrawlAssumption DEF Typed, CrawlsTyped, SoundCrawl, Crawls
  <2>2. e.pc \in {"record", "crawl"} /\ Keeps(s, e) /\ s.pc = "group" /\ (e.pc = "crawl" => e.child = "runs")
    BY <1>3, <2>1, NextGroupIs
  <2> QED BY <2>2 DEF Past, Keeps
<1>4. CASE NoGroupLeft(w)
  BY <1>4, NoGroupLeftIs DEF Past, Keeps
<1>5. CASE Discovered(w)
  BY <1>5, DiscoveredIs, IdleIs DEF Past, Keeps
<1>6. CASE StageOne(w)
  BY <1>6, StageOneIs DEF Past, Keeps
<1>7. CASE GroupEnds(w)
  BY <1>7, GroupEndsIs DEF Past, Keeps
<1>8. CASE Record(w)
  BY <1>8, RecordIs DEF Past
<1>9. CASE Finalize(w)
  BY <1>9, FinalizeIs DEF Past
<1>10. CASE Delete(w) \/ WorkerFails(w)
  BY <1>10, DropIs, IdleIs DEF Past
<1>11. CASE Render(w)
  BY <1>11, RenderIs DEF Past, Keeps
<1>12. CASE Unreachable(w)
  BY <1>12, UnreachableIs DEF Past, Keeps
<1>13. CASE CrawlEnds(w) \/ ChildDies(w)
  BY <1>13, ChildIs DEF Past, Keeps
<1>14. CASE PortalFails(w)
  BY <1>14, PortalFailsIs DEF Past, Keeps
<1> QED BY <1>1, <1>2, <1>3, <1>4, <1>5, <1>6, <1>7, <1>8, <1>9, <1>10, <1>11, <1>12, <1>13, <1>14
        DEF Turn, WorkerStep, ChildStep

\* The worker whose row goes in finalizes, with the verdict of that row.
LEMMA RecordedStep == Typed /\ Recorded /\ [Next]_vars => Recorded'
<1> SUFFICES ASSUME Typed, Recorded, [Next]_vars, NEW v \in Workers, (worker[v].pc = "finalize")'
             PROVE  (\E h \in history : h.d = worker[v].d /\ h.result = worker[v].verdict)'
  BY DEF Recorded
<1>0. PICK x : x = worker'[v]
  OBVIOUS
<1>1. SUFFICES \E h \in history' : h.d = x.d /\ h.result = x.verdict
  BY <1>0
<1>2. x.pc = "finalize"
  BY <1>0
<1>3. ASSUME x.pc = worker[v].pc, x.d = worker[v].d, x.verdict = worker[v].verdict
      PROVE  \E h \in history' : h.d = x.d /\ h.result = x.verdict
  BY <1>2, <1>3, Grows DEF Recorded
<1>4. CASE UNCHANGED worker
  BY <1>0, <1>3, <1>4
<1>5. ASSUME NEW w \in Workers, Turn(w)
      PROVE  \E h \in history' : h.d = x.d /\ h.result = x.verdict
  <2>1. CASE v = w
    <3>1. Record(w)
      BY <1>0, <1>2, <1>5, <2>1, WhereTo
    <3>2. history' = history \cup {Row(worker[w])} /\ x.d = worker[w].d /\ x.verdict = Verdict(worker[w])
      BY <1>0, <1>2, <2>1, <3>1, RecordIs
    <3>3. Row(worker[w]).d = worker[w].d /\ Row(worker[w]).result = Verdict(worker[w])
      BY DEF Row
    <3> QED BY <3>2, <3>3
  <2>2. CASE v # w
    BY <1>0, <1>3, <1>5, <2>2, Turns DEF Typed, CrawlsTyped
  <2> QED BY <2>1, <2>2
<1>6. CASE Passes
  BY <1>0, <1>3, <1>6, TickIs DEF Passes, Tick, TickLate, TickBacklog
<1> QED BY <1>4, <1>5, <1>6, Steps

\* A row leaves a dispatch only with the verdict that the history keeps for it, or because it is
\* parked: workers that lose their message, record twice or finalize late never write another's.
THEOREM VerdictsLetGo == Spec => LetGoByItsVerdict
<1> DEFINE LetsGo == (row.d # 0 /\ row'.d = 0) =>
             \/ \E h \in history : h.d = row.d /\ h.result = row'.result
             \/ \E o \in Orchestrators : orch[o].pc \in {"park", "park_seeding"} /\ orch'[o].pc # orch[o].pc
<1>1. Init => Typed /\ Recorded
  <2>1. Init => Recorded
    BY IdleIs DEF Init, Recorded
  <2> QED BY <2>1, InitTyped
<1>2. Typed /\ Recorded /\ [Next]_vars => (Typed /\ Recorded)'
  BY TypedStep, RecordedStep
<1>3. Typed /\ Recorded /\ [Next]_vars => LetsGo
  <2> SUFFICES ASSUME Typed, Recorded, [Next]_vars, row.d # 0, row'.d = 0
               PROVE  \/ \E h \in history : h.d = row.d /\ h.result = row'.result
                      \/ \E o \in Orchestrators : orch[o].pc \in {"park", "park_seeding"} /\ orch'[o].pc # orch[o].pc
    OBVIOUS
  <2>1. ASSUME NEW o \in Orchestrators, OrchTurn(o)
        PROVE  orch[o].pc \in {"park", "park_seeding"} /\ orch'[o].pc # orch[o].pc
    <3>1. row' # row
      OBVIOUS
    <3>2. ~(row' = Stamped /\ issued < MaxDispatch)
      BY RowBecomes DEF Typed, TablesTyped
    <3>3. orch[o].pc \in {"park", "park_seeding"} /\ orch'[o].pc \in {"idle", "select"}
      BY <2>1, <3>1, <3>2, OrchIs DEF tables
    <3> QED BY <3>3
  <2>2. ASSUME NEW w \in Workers, Turn(w)
        PROVE  \E h \in history : h.d = row.d /\ h.result = row'.result
    <3>1. Finalize(w)
      BY <2>2, TurnTables
    <3>2. worker[w].pc = "finalize" /\ row.d = worker[w].d
          /\ row' = [d |-> 0, due |-> FALSE, age |-> 0, result |-> worker[w].verdict]
      BY <3>1, FinalizeIs
    <3> QED BY <3>2 DEF Recorded
  <2>3. Passes => FALSE
    BY RowAges DEF Passes, Tick, TickLate, TickBacklog
  <2>4. Outside => FALSE
    <3>1. FallDue => row'.d = row.d
      BY RowBecomes DEF FallDue
    <3> QED BY <3>1 DEF Outside, DeadLetter, SetEnabled, Stop, Start, vars, tables
  <2> QED BY <2>1, <2>2, <2>3, <2>4, Steps
<1> QED BY <1>1, <1>2, <1>3, PTL DEF Spec, LetGoByItsVerdict

-----------------------------------------------------------------------------
(* A crawl at rest has exhausted its portals.                              *)

\* What was looked at depends on the looks alone, and is never unseen.
LEMMA LookedIs ==
    ASSUME NEW s, NEW e, SameLooks(s, e)
    PROVE  /\ \A p : Looked(e, p) = Looked(s, p)
           /\ \A u : Exhausted(e, u) = Exhausted(s, u)
BY DEF SameLooks, Looked, Exhausted

LEMMA MoreLooked ==
    ASSUME NEW s, NEW e, NEW u, Exhausted(s, u), Looked(s, PublisherOf[u]) \subseteq Looked(e, PublisherOf[u]),
           IsFiniteSet(Looked(e, PublisherOf[u]))
    PROVE  Exhausted(e, u)
<1> DEFINE A == Looked(s, PublisherOf[u])
           B == Looked(e, PublisherOf[u])
<1>1. IsFiniteSet(A) /\ Cardinality(A) <= Cardinality(B)
  BY FS_Subset
<1>2. Cardinality(A) \in Nat /\ Cardinality(B) \in Nat /\ MaxPages \in Nat
  BY <1>1, FS_CardinalityType, CrawlAssumption
<1> HIDE DEF A, B
<1>3. u \in A => u \in B
  BY DEF A, B
<1>4. u \in A \/ Cardinality(A) >= MaxPages
  BY DEF Exhausted, A
<1>5. u \in B \/ Cardinality(B) >= MaxPages
  BY <1>1, <1>2, <1>3, <1>4
<1> QED BY <1>5 DEF Exhausted, B

\* A worker off the crawl owes nothing.
LEMMA OffIsDiligent ==
    ASSUME NEW e, e.pc \notin Past, e.piped = {}
    PROVE  Diligent(e)'
BY DEF Diligent, Orderly, Accounted, Gathered, Exited, Past

\* Nor does one that has moved on with nothing but its place changed, however many artifacts
\* others have staged.
LEMMA StillDiligent ==
    ASSUME NEW s, NEW e, Diligent(s), artifacts \subseteq artifacts', e.pc = s.pc, e.urls = s.urls,
           e.child = s.child, SameLooks(s, e), SameChild(s, e), SameTask(s, e)
    PROVE  Diligent(e)'
<1>1. Looked(e, e.publisher) = Looked(s, s.publisher) /\ (\A p : Looked(e, p) = Looked(s, p))
      /\ (\A u : Exhausted(e, u) = Exhausted(s, u)) /\ Room(e) = Room(s)
  BY LookedIs DEF SameTask, SameChild, Room
<1>2. Orderly(e)
  BY <1>1 DEF Diligent, Orderly, SameChild, SameTask
<1>3. Accounted(e)
  BY <1>1 DEF Diligent, Accounted, SameChild, SameTask
<1>4. Gathered(e)'
  BY <1>1 DEF Diligent, Gathered, SameLooks, SameChild, SameTask
<1>5. Exited(e)
  BY <1>1 DEF Diligent, Exited, SameChild
<1> QED BY <1>2, <1>3, <1>4, <1>5 DEF Diligent, Orderly, Accounted, Exited, Looked, Exhausted, Room

LEMMA GateDiligent ==
    ASSUME NEW w \in Workers, Typed, Gate(w), NEW s, s = worker[w], NEW e, e = worker'[w]
    PROVE  Diligent(e)'
<1>1. CASE ~GatePasses(s.d)
  <2>1. e.pc = "delete" /\ e.piped = {}
    BY <1>1, GateIs DEF Blank, Bare
  <2> QED BY <2>1, OffIsDiligent DEF Past
<1>2. CASE GatePasses(s.d)
  <2>1. /\ s.pc = "gate" /\ e.pc = "group" /\ Keeps(s, e)
        /\ SameLooks(s, e) /\ SameChild(s, e) /\ e.todo = Groups(s.urls)
    BY <1>2, GateIs
  <2>2. Bare(s)
    BY <2>1 DEF Typed, CrawlsTyped, SoundCrawl
  <2>3. e.urls = s.urls /\ e.seen = {} /\ e.blocked = {} /\ e.piped = {}
    BY <2>1, <2>2 DEF Bare, Keeps, SameLooks, SameChild
  <2>4. \A p : Looked(e, p) = {}
    BY <2>3 DEF Looked
  <2>5. \A u \in e.urls : PublisherOf[u] \in e.todo
    BY <2>1, <2>3 DEF Groups
  <2> QED BY <2>1, <2>3, <2>4, <2>5 DEF Diligent, Orderly, Accounted, Gathered, Exited
<1> QED BY <1>1, <1>2

LEMMA NextGroupDiligent ==
    ASSUME NEW w \in Workers, Typed, Thorough, NextGroup(w), NEW s, s = worker[w], NEW e, e = worker'[w]
    PROVE  Diligent(e)'
<1>0. SoundCrawl(s) /\ Diligent(s)
  BY DEF Typed, CrawlsTyped, Thorough
<1>1. s.elapsed \in Nat /\ Deadline \in Nat
  BY <1>0, CrawlAssumption DEF SoundCrawl, Crawls
<1>2. s.pc = "group" /\ Keeps(s, e) /\ SameLooks(s, e)
  BY NextGroupIs
<1>3. s.visited = {} /\ s.piped = {} /\ UNCHANGED artifacts
  BY <1>0, <1>2, NextGroupIs DEF SoundCrawl, Diligent, Orderly, tables
<1>4. (\A p : Looked(e, p) = Looked(s, p)) /\ (\A u : Exhausted(e, u) = Exhausted(s, u))
  BY <1>2, LookedIs
<1>5. CASE s.elapsed >= Deadline
  <2>1. e.pc = "record" /\ ~e.complete /\ e.todo = s.todo /\ e.piped = {}
    BY <1>3, <1>5, NextGroupIs DEF SameChild
  <2> QED BY <1>0, <1>2, <1>4, <2>1 DEF Diligent, Orderly, Accounted, Gathered, Exited, Past
<1>6. CASE s.elapsed < Deadline
  <2>1. /\ e.pc = "crawl" /\ e.publisher \in s.todo /\ e.todo = s.todo \ {e.publisher}
        /\ e.child = "runs" /\ e.frontier = {u \in s.urls : PublisherOf[u] = e.publisher}
        /\ e.complete = s.complete /\ e.visited = {} /\ e.piped = {}
    BY <1>3, <1>6, NextGroupIs
  <2>2. Orderly(e)
    BY <1>0, <1>2, <1>4, <2>1 DEF Diligent, Orderly, Past
  <2>3. Accounted(e)
    <3> SUFFICES ASSUME e.complete, NEW u \in e.urls
                 PROVE  \/ PublisherOf[u] \in e.todo
                        \/ e.publisher = PublisherOf[u] /\ u \in e.frontier \cup e.visited
                        \/ Exhausted(e, u)
      BY <2>1 DEF Accounted
    <3>1. u \in s.urls
      BY <1>2 DEF Keeps
    <3>2. PublisherOf[u] \in s.todo \/ Exhausted(s, u)
      BY <1>0, <1>2, <2>1, <3>1 DEF Diligent, Accounted, Past
    <3> QED BY <1>4, <2>1, <3>1, <3>2
  <2>4. Gathered(e)'
    BY <1>0, <1>2, <1>3, <2>1 DEF Diligent, Gathered, Past, SameLooks
  <2> QED BY <2>1, <2>2, <2>3, <2>4 DEF Diligent, Orderly, Accounted, Exited, Looked, Exhausted
<1> QED BY <1>1, <1>5, <1>6

LEMMA NoGroupLeftDiligent ==
    ASSUME NEW w \in Workers, Typed, Thorough, NoGroupLeft(w), NEW s, s = worker[w], NEW e, e = worker'[w]
    PROVE  Diligent(e)'
<1>0. SoundCrawl(s) /\ Diligent(s)
  BY DEF Typed, CrawlsTyped, Thorough
<1>1. /\ s.pc = "group" /\ s.todo = {} /\ UNCHANGED artifacts
      /\ e.pc = "record" /\ Keeps(s, e) /\ SameLooks(s, e) /\ SameChild(s, e) /\ SameTask(s, e)
  BY NoGroupLeftIs DEF tables
<1>2. (\A p : Looked(e, p) = Looked(s, p)) /\ (\A u : Exhausted(e, u) = Exhausted(s, u))
  BY <1>1, LookedIs
<1>3. Orderly(e)
  BY <1>0, <1>1, <1>2 DEF Diligent, Orderly, Past, SameChild, SameTask
<1>4. Accounted(e)
  BY <1>0, <1>1, <1>2 DEF Diligent, Accounted, Past, SameTask, Keeps
<1>5. Gathered(e)'
  BY <1>0, <1>1 DEF Diligent, Gathered, Past, SameTask, SameLooks, SameChild
<1> QED BY <1>1, <1>3, <1>4, <1>5 DEF Diligent, Orderly, Accounted, Exited, Looked, Exhausted

\* The crawl is over: what it looked at is all there was, or it is not complete.
LEMMA DiscoveredDiligent ==
    ASSUME NEW w \in Workers, Typed, Thorough, Discovered(w), NEW s, s = worker[w], NEW e, e = worker'[w]
    PROVE  Diligent(e)'
<1>0. SoundCrawl(s) /\ Diligent(s)
  BY DEF Typed, CrawlsTyped, Thorough
<1>1. CASE e = IdleWorker
  BY <1>1, IdleIs, OffIsDiligent DEF Past, Bare
<1>2. CASE e # IdleWorker
  <2>1. /\ s.pc = "crawl" /\ UNCHANGED artifacts /\ e.pc = "stage" /\ Keeps(s, e) /\ SameLooks(s, e)
        /\ e.todo = s.todo /\ e.piped = s.piped /\ (e.complete => s.complete /\ s.child = "exited")
    BY <1>2, DiscoveredIs DEF tables
  <2>2. (\A p : Looked(e, p) = Looked(s, p)) /\ (\A u : Exhausted(e, u) = Exhausted(s, u))
    BY <2>1, LookedIs
  <2>3. Orderly(e)
    BY <1>0, <2>1, <2>2 DEF Diligent, Orderly, Past
  <2>4. e.complete => Room(s) > 0 /\ (s.frontier = {} \/ Cardinality(s.visited) = MaxPages)
    BY <1>0, <2>1 DEF Diligent, Exited
  <2>5. Accounted(e)
    <3> SUFFICES ASSUME e.complete, NEW u \in e.urls
                 PROVE  PublisherOf[u] \in e.todo \/ Exhausted(e, u)
      BY <2>1 DEF Accounted
    <3>1. \/ PublisherOf[u] \in s.todo
          \/ s.publisher = PublisherOf[u] /\ u \in s.frontier \cup s.visited
          \/ Exhausted(s, u)
      BY <1>0, <2>1 DEF Diligent, Accounted, Past, Keeps
    <3>2. ASSUME s.publisher = PublisherOf[u], u \in s.frontier \cup s.visited
          PROVE  Exhausted(s, u)
      <4>1. Looked(s, PublisherOf[u]) = s.visited
        BY <1>0, <2>1, <3>2 DEF Diligent, Orderly
      <4>2. MaxPages >= MaxPages
        BY CrawlAssumption
      <4> QED BY <2>4, <3>2, <4>1, <4>2 DEF Exhausted
    <3> QED BY <2>1, <2>2, <3>1, <3>2
  <2>6. Gathered(e)'
    BY <1>0, <2>1, <2>4 DEF Diligent, Gathered, Past, SameLooks
  <2> QED BY <2>1, <2>3, <2>5, <2>6 DEF Diligent, Orderly, Accounted, Exited, Looked, Exhausted
<1> QED BY <1>1, <1>2

LEMMA StageDiligent ==
    ASSUME NEW w \in Workers, Typed, Thorough, StageOne(w) \/ GroupEnds(w), NEW s, s = worker[w], NEW e, e = worker'[w]
    PROVE  Diligent(e)'
<1>0. SoundCrawl(s) /\ Diligent(s)
  BY DEF Typed, CrawlsTyped, Thorough
<1>1. /\ s.pc = "stage" /\ e.pc \in {"stage", "group"} /\ Keeps(s, e) /\ SameLooks(s, e)
      /\ e.todo = s.todo /\ e.complete = s.complete /\ artifacts \cup s.piped = artifacts' \cup e.piped
      /\ (e.pc = "group" => e.piped = {})
  <2>1. CASE StageOne(w)
    BY <2>1, StageOneIs DEF SameTask
  <2>2. CASE GroupEnds(w)
    BY <2>2, GroupEndsIs DEF SameChild, tables
  <2> QED BY <2>1, <2>2
<1>2. (\A p : Looked(e, p) = Looked(s, p)) /\ (\A u : Exhausted(e, u) = Exhausted(s, u))
  BY <1>1, LookedIs
<1>3. Orderly(e)
  BY <1>0, <1>1, <1>2 DEF Diligent, Orderly, Past
<1>4. Accounted(e)
  BY <1>0, <1>1, <1>2 DEF Diligent, Accounted, Past, Keeps
<1>5. Gathered(e)'
  BY <1>0, <1>1 DEF Diligent, Gathered, Past, SameLooks
<1> QED BY <1>1, <1>3, <1>4, <1>5 DEF Diligent, Orderly, Accounted, Exited, Looked, Exhausted

\* The child has looked at a page and follows its links: nothing is lost on the way.
LEMMA LookDiligent ==
    ASSUME NEW w \in Workers, Typed, Thorough, Render(w) \/ Unreachable(w),
           NEW s, s = worker[w], NEW e, e = worker'[w]
    PROVE  Diligent(e)'
<1>0. SoundCrawl(s) /\ Diligent(s) /\ s \in Crawls
  BY DEF Typed, CrawlsTyped, Thorough, SoundCrawl
<1>1. PICK page \in s.frontier :
        /\ s.pc = "crawl" /\ s.child = "runs" /\ UNCHANGED artifacts
        /\ e.pc = "crawl" /\ e.child = "runs" /\ Keeps(s, e) /\ SameTask(s, e)
        /\ e.seen \cup e.blocked = s.seen \cup s.blocked \cup {<<s.publisher, page>>}
        /\ e.visited = s.visited \cup {page}
        /\ s.frontier \cup s.visited \subseteq e.frontier \cup e.visited
        /\ s.piped \subseteq e.piped
        /\ Room(e) > 0 => Room(s) > 0 /\ \A x \in e.seen : x \in s.seen \/ Candidates(x[1], x[2]) \subseteq e.piped
  <2>1. CASE Render(w)
    <3>0. PICK page \in s.frontier : \E kept \in SUBSET Candidates(s.publisher, page) :
            /\ s.pc = "crawl" /\ s.child = "runs" /\ UNCHANGED <<tables, msgs>>
            /\ e \in Crawls /\ e.pc = s.pc /\ e.child = s.child /\ Keeps(s, e) /\ SameTask(s, e)
            /\ e.pipe = s.pipe /\ e.blocked = s.blocked /\ e.seen = s.seen \cup {<<s.publisher, page>>}
            /\ e.visited = s.visited \cup {page}
            /\ s.frontier \cup s.visited \subseteq e.frontier \cup e.visited
            /\ e.piped = s.piped \cup kept /\ e.items <= e.pipe
            /\ Room(e) > 0 => Room(s) > 0 /\ kept = Candidates(s.publisher, page)
      BY <2>1, RenderIs
    <3>1. PICK kept \in SUBSET Candidates(s.publisher, page) :
            /\ s.pc = "crawl" /\ s.child = "runs" /\ UNCHANGED <<tables, msgs>>
            /\ e.pc = s.pc /\ e.child = s.child /\ Keeps(s, e) /\ SameTask(s, e)
            /\ e.blocked = s.blocked /\ e.seen = s.seen \cup {<<s.publisher, page>>}
            /\ e.visited = s.visited \cup {page}
            /\ s.frontier \cup s.visited \subseteq e.frontier \cup e.visited
            /\ e.piped = s.piped \cup kept
            /\ Room(e) > 0 => Room(s) > 0 /\ kept = Candidates(s.publisher, page)
      BY <3>0
    <3>2. Room(e) > 0 => \A x \in e.seen : x \in s.seen \/ Candidates(x[1], x[2]) \subseteq e.piped
      BY <3>1
    <3>3. e.seen \cup e.blocked = s.seen \cup s.blocked \cup {<<s.publisher, page>>}
      BY <3>1
    <3> QED BY <3>1, <3>2, <3>3 DEF tables
  <2>2. CASE Unreachable(w)
    <3>1. PICK page \in s.frontier :
            /\ s.pc = "crawl" /\ s.child = "runs" /\ UNCHANGED <<tables, msgs>>
            /\ e.pc = s.pc /\ e.child = s.child /\ Keeps(s, e) /\ SameTask(s, e)
            /\ e.seen = s.seen /\ e.blocked = s.blocked \cup {<<s.publisher, page>>}
            /\ e.visited = s.visited \cup {page}
            /\ s.frontier \cup s.visited \subseteq e.frontier \cup e.visited
            /\ e.piped = s.piped
            /\ Room(e) > 0 => Room(s) > 0
      BY <2>2, UnreachableIs
    <3>3. e.seen \cup e.blocked = s.seen \cup s.blocked \cup {<<s.publisher, page>>}
      BY <3>1
    <3> QED BY <3>1, <3>3 DEF tables
  <2> QED BY <2>1, <2>2
<1>2. page \in DOMAIN Pages /\ IsFiniteSet(e.visited) /\ e.publisher = s.publisher /\ e.todo = s.todo
      /\ e.complete = s.complete /\ e.urls = s.urls
  <2>1. IsFiniteSet(s.visited) /\ e.visited = s.visited \cup {page}
    BY <1>0, <1>1 DEF SoundCrawl
  <2>2. IsFiniteSet(e.visited)
    BY <2>1, FS_AddElement
  <2>3. e.publisher = s.publisher /\ e.todo = s.todo /\ e.complete = s.complete /\ e.urls = s.urls
    BY <1>1 DEF SameTask, Keeps
  <2> QED BY <1>0, <2>2, <2>3 DEF Crawls
<1>3. /\ Looked(e, s.publisher) = Looked(s, s.publisher) \cup {page}
      /\ \A p : p # s.publisher => Looked(e, p) = Looked(s, p)
  <2>1. e.seen \cup e.blocked = s.seen \cup s.blocked \cup {<<s.publisher, page>>}
    BY <1>1
  <2>2. page \in DOMAIN Pages /\ s \in Crawls
    BY <1>0, <1>2
  <2>3. Looked(e, s.publisher) = Looked(s, s.publisher) \cup {page}
    BY <2>1, <2>2 DEF Looked
  <2>4. \A p : p # s.publisher => Looked(e, p) = Looked(s, p)
    BY <2>1, <2>2 DEF Looked
  <2> QED BY <2>3, <2>4
<1>4. s.publisher \notin s.todo /\ Looked(s, s.publisher) = s.visited
      /\ Looked(e, s.publisher) = e.visited
  BY <1>0, <1>1, <1>3 DEF Diligent, Orderly
<1>5. Orderly(e)
  BY <1>0, <1>1, <1>2, <1>3, <1>4 DEF Diligent, Orderly, Past
<1>6. ASSUME NEW u, Exhausted(s, u) PROVE Exhausted(e, u)
  <2>1. CASE PublisherOf[u] = s.publisher
    BY <1>2, <1>3, <1>4, <1>6, <2>1, MoreLooked
  <2>2. CASE PublisherOf[u] # s.publisher
    BY <1>3, <1>6, <2>2 DEF Exhausted
  <2> QED BY <2>1, <2>2
<1>7. Accounted(e)
  <2> SUFFICES ASSUME e.complete, NEW u \in e.urls
               PROVE  \/ PublisherOf[u] \in e.todo
                      \/ e.publisher = PublisherOf[u] /\ u \in e.frontier \cup e.visited
                      \/ Exhausted(e, u)
    BY <1>1 DEF Accounted
  <2>1. \/ PublisherOf[u] \in s.todo
        \/ s.publisher = PublisherOf[u] /\ u \in s.frontier \cup s.visited
        \/ Exhausted(s, u)
    BY <1>0, <1>1, <1>2 DEF Diligent, Accounted, Past
  <2> QED BY <1>1, <1>2, <1>6, <2>1
<1>8. Gathered(e)'
  <2>1. e.complete /\ Room(e) > 0 => \A x \in s.seen : Candidates(x[1], x[2]) \subseteq artifacts \cup s.piped
    BY <1>0, <1>1, <1>2 DEF Diligent, Gathered, Past
  <2>2. e.complete /\ Room(e) > 0 => \A x \in e.seen : Candidates(x[1], x[2]) \subseteq artifacts' \cup e.piped
    BY <1>1, <2>1
  <2> QED BY <1>1, <2>2 DEF Gathered, Room
<1> QED BY <1>1, <1>5, <1>7, <1>8 DEF Diligent, Orderly, Accounted, Exited, Looked, Exhausted

\* The child is gone or stuck: if it has exited, it was done.
LEMMA ChildDiligent ==
    ASSUME NEW w \in Workers, Typed, Thorough, CrawlEnds(w) \/ ChildDies(w),
           NEW s, s = worker[w], NEW e, e = worker'[w]
    PROVE  Diligent(e)'
<1>0. Diligent(s)
  BY DEF Thorough
<1>1. /\ s.pc = "crawl" /\ UNCHANGED artifacts
      /\ e.pc = s.pc /\ Keeps(s, e) /\ SameTask(s, e) /\ SameLooks(s, e) /\ SameChild(s, e)
      /\ e.child = "exited" => Room(s) > 0 /\ (s.frontier = {} \/ Cardinality(s.visited) = MaxPages)
  BY ChildIs DEF tables
<1>2. (\A p : Looked(e, p) = Looked(s, p)) /\ (\A u : Exhausted(e, u) = Exhausted(s, u)) /\ Room(e) = Room(s)
  BY <1>1, LookedIs DEF SameChild, Room
<1>3. Orderly(e)
  BY <1>0, <1>1, <1>2 DEF Diligent, Orderly, SameChild, SameTask
<1>4. Accounted(e)
  BY <1>0, <1>1, <1>2 DEF Diligent, Accounted, SameChild, SameTask, Keeps
<1>5. Gathered(e)'
  BY <1>0, <1>1, <1>2 DEF Diligent, Gathered, SameLooks, SameChild, SameTask
<1>6. Exited(e)
  BY <1>1, <1>2 DEF Exited, SameChild
<1> QED BY <1>3, <1>4, <1>5, <1>6 DEF Diligent, Orderly, Accounted, Exited, Looked, Exhausted, Room

\* A discoverer that gives up has been refused each portal it was to crawl.
LEMMA PortalFailsDiligent ==
    ASSUME NEW w \in Workers, Typed, Thorough, PortalFails(w), NEW s, s = worker[w], NEW e, e = worker'[w]
    PROVE  Diligent(e)'
<1>0. SoundCrawl(s) /\ Diligent(s) /\ s \in Crawls
  BY DEF Typed, CrawlsTyped, Thorough, SoundCrawl
<1>1. /\ s.pc = "crawl" /\ s.visited = {} /\ UNCHANGED artifacts
      /\ e.pc = "group" /\ Keeps(s, e) /\ SameTask(s, e)
      /\ e.seen = s.seen /\ e.blocked = s.blocked \cup ({s.publisher} \X s.frontier) /\ e.piped = s.piped
  BY PortalFailsIs DEF tables
<1>2. s.publisher \notin s.todo /\ Looked(s, s.publisher) = {} /\ s.piped = {} /\ Room(s) > 0
  BY <1>0, <1>1 DEF Diligent, Orderly, SoundCrawl, Room, Crawls
<1>3. \A p : p # s.publisher => Looked(e, p) = Looked(s, p)
  BY <1>1 DEF Looked
<1>4. s.frontier \subseteq Looked(e, s.publisher)
  BY <1>0, <1>1 DEF Looked, Crawls
<1>5. Orderly(e)
  BY <1>0, <1>1, <1>2, <1>3 DEF Diligent, Orderly, Past, SameTask
<1>6. Accounted(e)
  <2> SUFFICES ASSUME e.complete, NEW u \in e.urls
               PROVE  PublisherOf[u] \in e.todo \/ Exhausted(e, u)
    BY <1>1 DEF Accounted
  <2>1. \/ PublisherOf[u] \in s.todo
        \/ s.publisher = PublisherOf[u] /\ u \in s.frontier
        \/ Exhausted(s, u)
    BY <1>0, <1>1 DEF Diligent, Accounted, Past, SameTask, Keeps
  <2>2. CASE PublisherOf[u] # s.publisher
    BY <1>1, <1>3, <2>1, <2>2 DEF Exhausted, SameTask
  <2>3. CASE PublisherOf[u] = s.publisher
    <3>1. ~Exhausted(s, u)
      <4>1. Looked(s, PublisherOf[u]) = {} /\ Cardinality({}) = 0 /\ ~(0 >= MaxPages)
        BY <1>2, <2>3, FS_EmptySet, CrawlAssumption
      <4> QED BY <4>1 DEF Exhausted
    <3>2. u \in s.frontier
      BY <1>2, <2>1, <2>3, <3>1
    <3> QED BY <1>4, <2>3, <3>2 DEF Exhausted
  <2> QED BY <2>2, <2>3
<1>7. Gathered(e)'
  BY <1>0, <1>1, <1>2 DEF Diligent, Gathered, Past, SameTask
<1> QED BY <1>1, <1>5, <1>6, <1>7 DEF Diligent, Orderly, Accounted, Exited, Looked, Exhausted

\* Whatever a worker does, it stays diligent.
LEMMA TurnDiligent ==
    ASSUME NEW w \in Workers, Typed, Thorough, Turn(w), NEW e, e = worker'[w]
    PROVE  Diligent(e)'
<1>0. PICK s : s = worker[w]
  OBVIOUS
<1>1. CASE Receive(w)
  <2>1. e.pc = "gate" /\ e.piped = {}
    BY <1>0, <1>1, ReceiveIs DEF Blank, Bare
  <2> QED BY <2>1, OffIsDiligent DEF Past
<1>2. CASE Gate(w)
  BY <1>2, GateDiligent
<1>3. CASE NextGroup(w)
  BY <1>3, NextGroupDiligent
<1>4. CASE NoGroupLeft(w)
  BY <1>4, NoGroupLeftDiligent
<1>5. CASE Discovered(w)
  BY <1>5, DiscoveredDiligent
<1>6. CASE StageOne(w) \/ GroupEnds(w)
  BY <1>6, StageDiligent
<1>7. CASE Record(w)
  <2>1. e.pc \in {"finalize", "delete"} /\ e.piped = {}
    BY <1>0, <1>7, RecordIs DEF Blank, Bare
  <2> QED BY <2>1, OffIsDiligent DEF Past
<1>8. CASE Finalize(w)
  <2>1. e.pc = "delete" /\ e.piped = {}
    BY <1>0, <1>8, FinalizeIs DEF Blank, Bare
  <2> QED BY <2>1, OffIsDiligent DEF Past
<1>9. CASE Delete(w) \/ WorkerFails(w)
  <2>1. e.pc = "idle" /\ e.piped = {}
    BY <1>0, <1>9, DropIs, IdleIs DEF Bare
  <2> QED BY <2>1, OffIsDiligent DEF Past
<1>10. CASE Render(w) \/ Unreachable(w)
  BY <1>10, LookDiligent
<1>11. CASE CrawlEnds(w) \/ ChildDies(w)
  BY <1>11, ChildDiligent
<1>12. CASE PortalFails(w)
  BY <1>12, PortalFailsDiligent
<1> QED BY <1>1, <1>2, <1>3, <1>4, <1>5, <1>6, <1>7, <1>8, <1>9, <1>10, <1>11, <1>12 DEF Turn, WorkerStep, ChildStep

LEMMA ThoroughStep == Typed /\ Thorough /\ [Next]_vars => Thorough'
<1> SUFFICES ASSUME Typed, Thorough, [Next]_vars, NEW v \in Workers
             PROVE  Diligent(worker[v])'
  BY DEF Thorough
<1>0. PICK x : x = worker'[v]
  OBVIOUS
<1>1. SUFFICES Diligent(x)'
  BY <1>0 DEF Diligent, Orderly, Accounted, Gathered, Exited, Looked, Exhausted, Room
<1>2. Diligent(worker[v]) /\ artifacts \subseteq artifacts'
  BY Grows DEF Thorough
<1>3. CASE x = worker[v]
  BY <1>2, <1>3, StillDiligent DEF SameLooks, SameChild, SameTask
<1>4. ASSUME NEW w \in Workers, Turn(w) PROVE Diligent(x)'
  <2>1. CASE v = w
    BY <1>0, <1>4, <2>1, TurnDiligent
  <2>2. CASE v # w
    BY <1>0, <1>3, <1>4, <2>2, Turns DEF Typed, CrawlsTyped
  <2> QED BY <2>1, <2>2
<1>5. CASE Passes
  <2>1. x.pc = worker[v].pc /\ x.urls = worker[v].urls /\ x.child = worker[v].child
        /\ SameLooks(worker[v], x) /\ SameChild(worker[v], x) /\ SameTask(worker[v], x)
    BY <1>0, <1>5, TickIs DEF Passes, Tick, TickLate, TickBacklog
  <2> QED BY <1>2, <2>1, StillDiligent
<1> QED BY <1>0, <1>3, <1>4, <1>5, Steps

\* Who writes the history.
LEMMA HistoryIs ==
    ASSUME Typed, [Next]_vars, NEW h \in history', h \notin history
    PROVE  \E w \in Workers : worker[w].pc = "record" /\ h = Row(worker[w])
<1>1. ASSUME NEW o \in Orchestrators, OrchTurn(o) PROVE UNCHANGED history
  BY <1>1, OrchIs
<1>2. ASSUME NEW w \in Workers, Turn(w) PROVE worker[w].pc = "record" /\ h = Row(worker[w])
  <2>1. Record(w)
    BY <1>2, TurnTables
  <2> QED BY <2>1, RecordIs
<1>3. CASE Passes
  BY <1>3 DEF Passes, Tick, TickLate, TickBacklog, Later
<1>4. CASE Outside
  BY <1>4 DEF Outside, DeadLetter, FallDue, SetEnabled, Stop, Start, vars, tables
<1> QED BY <1>1, <1>2, <1>3, <1>4, Steps

LEMMA RestStep == Typed /\ Thorough /\ RestMeansExhausted /\ [Next]_vars => RestMeansExhausted'
<1> DEFINE Rests(h, A) == h.long =>
             /\ \A u \in h.portals : Exhausted(h, u)
             /\ \A x \in h.seen : Candidates(x[1], x[2]) \subseteq A
<1> SUFFICES ASSUME Typed, Thorough, RestMeansExhausted, [Next]_vars, NEW h \in history'
             PROVE  Rests(h, artifacts')
  BY DEF RestMeansExhausted, Exhausted, Looked
<1>1. CASE h \in history
  <2>1. Rests(h, artifacts)
    BY <1>1 DEF RestMeansExhausted, Exhausted
  <2> QED BY <2>1, Grows
<1>2. CASE h \notin history
  <2>1. PICK w \in Workers : worker[w].pc = "record" /\ h = Row(worker[w])
    BY <1>2, HistoryIs
  <2>2. PICK s : s = worker[w]
    OBVIOUS
  <2>3. SoundCrawl(s) /\ Diligent(s) /\ s \in Crawls /\ s.pc = "record" /\ h = Row(s)
    BY <2>1, <2>2 DEF Typed, CrawlsTyped, Thorough, SoundCrawl
  <2>4. s.d \in Dispatches
    BY <2>3, CrawlAssumption DEF SoundCrawl, Typed, TablesTyped, Dispatches
  <2>5. (h.long => s.complete) /\ h.portals = s.urls /\ SameLooks(s, h)
    BY <2>3, <2>4, RowIs DEF SameLooks
  <2>6. s.todo = {} \/ ~s.complete
    BY <2>3 DEF Diligent, Accounted, Past
  <2>7. s.piped = {}
    BY <2>3 DEF Diligent, Orderly, SoundCrawl
  <2>8. s.complete => \A u \in s.urls : Exhausted(s, u)
    BY <2>3, <2>6 DEF Diligent, Accounted, Past
  <2>9. s.complete => \A x \in s.seen : Candidates(x[1], x[2]) \subseteq artifacts
    BY <2>3, <2>7 DEF Diligent, Gathered, Past
  <2>10. \A u : Exhausted(h, u) = Exhausted(s, u)
    BY <2>5, LookedIs
  <2> QED BY <2>5, <2>8, <2>9, <2>10, Grows DEF SameLooks
<1> QED BY <1>1, <1>2

\* A crawl that rests for the whole interval has looked at every portal it was asked for, or spent
\* its publisher's budget, and what it saw is staged: however the children die, the pipes fill up,
\* the deadline cuts in and the message comes back.
THEOREM RestsAreEarned == Spec => []RestMeansExhausted
<1> DEFINE IInv == Typed /\ Thorough /\ RestMeansExhausted
<1>1. Init => IInv
  <2> SUFFICES ASSUME Init PROVE Thorough /\ RestMeansExhausted
    BY InitTyped
  <2>1. ASSUME NEW w \in Workers PROVE Diligent(worker[w])
    <3>1. worker[w] = IdleWorker
      BY DEF Init
    <3> QED BY <3>1, IdleIs DEF Diligent, Orderly, Accounted, Gathered, Exited, Past, Bare
  <2> QED BY <2>1 DEF Init, Thorough, RestMeansExhausted
<1>2. IInv /\ [Next]_vars => IInv'
  BY TypedStep, ThoroughStep, RestStep
<1>3. IInv => RestMeansExhausted
  OBVIOUS
<1> QED BY <1>1, <1>2, <1>3, PTL DEF Spec

-----------------------------------------------------------------------------
(* The timeout outlives the crawls of one orchestrator.                    *)

\* A child dies of a fault only.
LEMMA TurnAlive ==
    ASSUME NEW w \in Workers, Typed, Turn(w), ~Fault, Alive
    PROVE  Alive'
<1>0. \A v \in Workers : v # w => worker'[v] = worker[v]
  BY Turns DEF Typed, CrawlsTyped
<1>1. PICK s, e : s = worker[w] /\ e = worker'[w]
  OBVIOUS
<1>2. e.pc = "crawl" => e.child # "died"
  BY <1>1, WhereTo DEF Alive
<1> QED BY <1>0, <1>1, <1>2 DEF Alive

\* From the gate on, a worker that is not disturbed stays at its dispatch until it has recorded it.
LEMMA StaysPast ==
    ASSUME NEW w \in Workers, Typed, Turn(w), ~Fault, NEW s, s = worker[w], NEW e, e = worker'[w],
           s.pc \in Past, s.pc = "crawl" => s.child # "died"
    PROVE  Record(w) \/ (e.pc \in Past /\ e.d = s.d /\ e.elapsed = s.elapsed)
<1>1. CASE Receive(w)
  BY <1>1, ReceiveIs DEF Past
<1>2. CASE Gate(w)
  BY <1>2, GateIs DEF Past
<1>3. CASE NextGroup(w)
  <2>1. s.elapsed \in Nat /\ Deadline \in Nat
    BY CrawlAssumption DEF Typed, CrawlsTyped, SoundCrawl, Crawls
  <2>2. e.pc \in {"record", "crawl"} /\ Keeps(s, e)
    BY <1>3, <2>1, NextGroupIs
  <2> QED BY <2>2 DEF Past, Keeps
<1>4. CASE NoGroupLeft(w)
  BY <1>4, NoGroupLeftIs DEF Past, Keeps
<1>5. CASE Discovered(w)
  BY <1>5, DiscoveredIs DEF Past, Keeps
<1>6. CASE StageOne(w)
  BY <1>6, StageOneIs DEF Past, Keeps
<1>7. CASE GroupEnds(w)
  BY <1>7, GroupEndsIs DEF Past, Keeps
<1>8. CASE Record(w)
  BY <1>8
<1>9. CASE Finalize(w)
  BY <1>9, FinalizeIs DEF Past
<1>10. CASE Delete(w) \/ WorkerFails(w)
  BY <1>10, DropIs DEF Past
<1>11. CASE Render(w)
  BY <1>11, RenderIs DEF Past, Keeps
<1>12. CASE Unreachable(w) \/ ChildDies(w) \/ PortalFails(w)
  BY <1>12 DEF Unreachable, ChildDies, PortalFails
<1>13. CASE CrawlEnds(w)
  BY <1>13, ChildIs DEF Past, Keeps
<1> QED BY <1>1, <1>2, <1>3, <1>4, <1>5, <1>6, <1>7, <1>8, <1>9, <1>10, <1>11, <1>12, <1>13
        DEF Turn, WorkerStep, ChildStep

\* A worker that is to finalize does nothing else.
LEMMA Finalizes ==
    ASSUME NEW w \in Workers, Turn(w), ~Fault, worker[w].pc = "finalize"
    PROVE  Finalize(w)
<1>1. ~Receive(w) /\ ~Gate(w) /\ ~NextGroup(w) /\ ~NoGroupLeft(w) /\ ~Discovered(w) /\ ~StageOne(w)
      /\ ~GroupEnds(w) /\ ~Record(w) /\ ~Delete(w)
  BY DEF Receive, Gate, NextGroup, NoGroupLeft, Discovered, StageOne, GroupEnds, Record, Delete
<1>2. ~ChildStep(w) /\ ~PortalFails(w) /\ ~WorkerFails(w)
  BY DEF ChildStep, Render, Unreachable, CrawlEnds, ChildDies, PortalFails, WorkerFails
<1> QED BY <1>1, <1>2 DEF Turn, WorkerStep

\* A dispatch that is led stays led, by whoever leads it or by the worker that has recorded it.
LEMMA StaysLed ==
    ASSUME NEW w \in Workers, Typed, Turn(w), ~Fault, Alive, Leading, row' = row, backlog' = backlog, row.d # 0, Led
    PROVE  Led'
<1>0. \A v \in Workers : v # w => worker'[v] = worker[v]
  BY Turns DEF Typed, CrawlsTyped
<1>1. PICK v \in Workers : Leads(worker[v])
  BY DEF Led
<1>2. CASE v # w
  BY <1>0, <1>1, <1>2 DEF Led, Leads
<1>3. CASE v = w
  <2>0. PICK s, e : s = worker[w] /\ e = worker'[w]
    OBVIOUS
  <2>1. /\ s.d = row.d /\ row.age <= Deadline + backlog
        /\ s.pc = "finalize" \/ (s.pc \in Past /\ row.age <= s.elapsed + backlog)
    BY <1>1, <1>3, <2>0 DEF Leads
  <2>2. CASE s.pc = "finalize"
    <3>1. Finalize(w)
      BY <2>0, <2>2, Finalizes
    <3>2. row'.d = 0
      BY <2>0, <2>1, <3>1, FinalizeIs
    <3> QED BY <3>2
  <2>3. CASE s.pc \in Past
    <3>1. CASE e.pc \in Past /\ e.d = s.d /\ e.elapsed = s.elapsed
      <4>1. row.age <= s.elapsed + backlog
        BY <2>1, <2>3 DEF Past
      <4>2. Leads(worker[w])'
        BY <2>0, <2>1, <3>1, <4>1 DEF Leads
      <4> QED BY <4>2 DEF Led
    <3>2. CASE Record(w)
      <4>1. CASE \E h \in history : h.d = s.d
        <5>1. PICK x \in OnRow : worker[x].pc = "finalize"
          BY <2>1, <4>1 DEF Leading
        <5>2. x # w /\ x \in Workers /\ worker[x].d = row.d
          BY <2>0, <2>3, <5>1 DEF Past, OnRow
        <5>3. Leads(worker[x])'
          BY <1>0, <2>1, <5>1, <5>2 DEF Leads
        <5> QED BY <5>2, <5>3 DEF Led
      <4>2. CASE ~(\E h \in history : h.d = s.d)
        <5>1. e.pc = "finalize" /\ e.d = s.d
          BY <2>0, <3>2, <4>2, RecordIs
        <5>2. Leads(worker[w])'
          BY <2>0, <2>1, <5>1 DEF Leads
        <5> QED BY <5>2 DEF Led
      <4> QED BY <4>1, <4>2
    <3> QED BY <2>0, <2>3, <3>1, <3>2, StaysPast DEF Alive
  <2> QED BY <2>1, <2>2, <2>3
<1> QED BY <1>2, <1>3

\* A worker's turn leaves the leader in its place, or hands the dispatch to the first that passes
\* the gate, at the moment of the stamp.
LEMMA TurnLeading ==
    ASSUME NEW w \in Workers, Typed, Turn(w), ~Fault, Alive, Leading, Waits,
           row' = row, backlog' = backlog, row.d # 0
    PROVE  Leading'
<1>0. \A v \in Workers : v # w => worker'[v] = worker[v]
  BY Turns DEF Typed, CrawlsTyped
<1>1. PICK s, e : s = worker[w] /\ e = worker'[w]
  OBVIOUS
<1>2. e.pc \in Past => e.d = s.d /\ e.elapsed = s.elapsed /\ (s.pc \in Past \/ Gate(w))
  BY <1>1, WhereTo
<1>4. ASSUME Gate(w), e.pc \in Past
      PROVE  e.d = row.d /\ Led'
  <2>1. s.pc = "gate" /\ GatePasses(s.d)
    BY <1>1, <1>4, GateIs DEF Past
  <2>2. s.d = row.d /\ s.elapsed = 0
    BY <1>1, <2>1 DEF GatePasses, Typed, CrawlsTyped, SoundCrawl, Bare
  <2>3. CASE Led
    BY <1>2, <1>4, <2>2, <2>3, StaysLed
  <2>4. CASE ~Led
    <3>1. row.age <= backlog
      BY <1>1, <2>1, <2>2, <2>4 DEF Waits, OnRow
    <3>2. row.age <= Deadline + backlog /\ row.age <= s.elapsed + backlog
      BY <2>2, <3>1, RowBecomes DEF Typed, BoundsTyped
    <3>3. Leads(worker[w])'
      BY <1>1, <1>2, <1>4, <2>2, <3>2 DEF Leads
    <3> QED BY <1>2, <1>4, <2>2, <3>3 DEF Led
  <2> QED BY <2>3, <2>4
<1>5. \A v \in Workers : worker'[v].pc \in Past => worker'[v].d = row.d
  BY <1>0, <1>1, <1>2, <1>4 DEF Leading, OnRow
<1>6. ASSUME NEW v \in Workers, worker'[v].d = row.d, worker'[v].pc \in Past \cup {"finalize"}
      PROVE  Led'
  <2>1. CASE v # w
    <3>1. Led
      BY <1>0, <1>6, <2>1 DEF Leading, OnRow
    <3> QED BY <3>1, StaysLed
  <2>2. CASE v = w /\ e.pc = "finalize"
    <3>1. s.pc = "record" /\ e.d = s.d
      BY <1>1, <2>2, WhereTo, RecordIs
    <3>2. Led
      BY <1>1, <1>6, <2>2, <3>1 DEF Leading, OnRow, Past
    <3> QED BY <3>2, StaysLed
  <2>3. CASE v = w /\ e.pc \in Past
    <3>1. CASE Gate(w)
      BY <1>4, <2>3, <3>1
    <3>2. CASE s.pc \in Past
      <4>1. Led
        BY <1>1, <1>2, <1>6, <2>3, <3>2 DEF Leading, OnRow
      <4> QED BY <4>1, StaysLed
    <3> QED BY <1>2, <2>3, <3>1, <3>2
  <2> QED BY <1>1, <1>6, <2>1, <2>2, <2>3
<1>7. ASSUME NEW h \in history', h.d = row.d
      PROVE  \E v \in Workers : worker'[v].d = row.d /\ worker'[v].pc = "finalize"
  <2>1. CASE \E k \in history : k.d = row.d
    <3>1. PICK v \in OnRow : worker[v].pc = "finalize"
      BY <2>1 DEF Leading
    <3>2. v \in Workers /\ worker[v].d = row.d
      BY <3>1 DEF OnRow
    <3>3. CASE v # w
      BY <1>0, <3>1, <3>2, <3>3
    <3>4. CASE v = w
      <4>4. Finalize(w)
        BY <3>1, <3>4, Finalizes
      <4>5. row'.d = 0
        BY <3>2, <3>4, <4>4, <1>1, FinalizeIs
      <4> QED BY <4>5
    <3> QED BY <3>3, <3>4
  <2>2. CASE ~(\E k \in history : k.d = row.d)
    <3>1. history' # history
      BY <1>7, <2>2
    <3>2. Record(w)
      BY <3>1, TurnTables
    <3>3. e.pc = "finalize" /\ e.d = s.d /\ history' = history \cup {Row(s)} /\ Row(s).d = s.d
      BY <1>1, <3>1, <3>2, RecordIs DEF Row
    <3>4. s.d = row.d
      BY <1>7, <2>2, <3>3
    <3> QED BY <1>1, <3>3, <3>4
  <2> QED BY <2>1, <2>2
<1>8. OnRow' = {v \in Workers : worker'[v].d = row.d}
  BY DEF OnRow
<1> QED BY <1>5, <1>6, <1>7, <1>8 DEF Leading

\* Until it is led, a dispatch waits in one message, or with the worker that has just received it.
LEMMA TurnWaits ==
    ASSUME NEW w \in Workers, Typed, Turn(w), ~Fault, Alive, Leading, Waits,
           row' = row, backlog' = backlog, row.d # 0
    PROVE  Waits'
<1>0. \A v \in Workers : v # w => worker'[v] = worker[v]
  BY Turns DEF Typed, CrawlsTyped
<1>1. PICK s, e : s = worker[w] /\ e = worker'[w]
  OBVIOUS
<1> DEFINE Held(f) == \E v \in Workers : f[v].d = row.d /\ f[v].pc \in {"gate", "delete"}
<1>2. SUFFICES ASSUME ~Led'
               PROVE  /\ \A v \in Workers : worker'[v].d = row.d /\ worker'[v].pc = "gate" => row.age <= backlog
                      /\ \A m \in msgs' : m.d = row.d =>
                           row.age <= backlog /\ ((m.receives = 0 /\ m.hidden = 0) \/ Held(worker'))
  <2>1. OnRow' = {v \in Workers : worker'[v].d = row.d}
    BY DEF OnRow
  <2> QED BY <1>2, <2>1 DEF Waits
<1>3. ~Led
  BY <1>2, StaysLed
<1>4. /\ \A v \in Workers : worker[v].d = row.d /\ worker[v].pc = "gate" => row.age <= backlog
      /\ \A m \in msgs : m.d = row.d => row.age <= backlog /\ ((m.receives = 0 /\ m.hidden = 0) \/ Held(worker))
  BY <1>3 DEF Waits, OnRow
<1>5. s.pc \notin Past
  BY <1>1, <1>3 DEF Leading, OnRow
<1>6. CASE Receive(w)
  <2>1. PICK m0 \in msgs : /\ s.pc = "idle" /\ msgs' = (msgs \ {m0}) \cup {Taken(m0)}
                           /\ e.pc = "gate" /\ e.d = m0.d
                           /\ m0.receives < MaxReceive
    BY <1>1, <1>6, ReceiveIs
  <2>2. Taken(m0).d = m0.d
    BY <2>1, MessageIs DEF Typed, QueueTyped
  <2>3. \A v \in Workers : worker'[v].d = row.d /\ worker'[v].pc = "gate" => row.age <= backlog
    BY <1>0, <1>1, <1>4, <2>1
  <2>4. Held(worker) => Held(worker')
    BY <1>0, <1>1, <2>1
  <2>5. m0.d = row.d => row.age <= backlog /\ Held(worker')
    BY <1>1, <1>4, <2>1
  <2> HIDE DEF Held
  <2>6. ASSUME NEW m \in msgs', m.d = row.d
        PROVE  row.age <= backlog /\ ((m.receives = 0 /\ m.hidden = 0) \/ Held(worker'))
    <3>1. CASE m \in msgs
      BY <1>4, <2>4, <2>6, <3>1
    <3>2. CASE m = Taken(m0)
      BY <2>2, <2>5, <2>6, <3>2
    <3> QED BY <2>1, <3>1, <3>2
  <2> QED BY <2>3, <2>6
<1>7. ASSUME msgs' \subseteq msgs, e.pc # "gate", Held(worker) => Held(worker') \/ \A m \in msgs' : m.d # row.d
      PROVE  /\ \A v \in Workers : worker'[v].d = row.d /\ worker'[v].pc = "gate" => row.age <= backlog
             /\ \A m \in msgs' : m.d = row.d =>
                  row.age <= backlog /\ ((m.receives = 0 /\ m.hidden = 0) \/ Held(worker'))
  <2> HIDE DEF Held
  <2>1. \A v \in Workers : worker'[v].d = row.d /\ worker'[v].pc = "gate" => row.age <= backlog
    BY <1>0, <1>1, <1>4, <1>7
  <2> QED BY <1>4, <1>7, <2>1
<1>8. CASE Gate(w)
  <2>1. s.pc = "gate" /\ UNCHANGED msgs /\ e.d = s.d /\ e.pc \in {"group", "delete"}
    BY <1>1, <1>8, GateIs
  <2>2. s.d = row.d => e.pc = "delete"
    <3>1. CASE ~GatePasses(s.d)
      BY <1>1, <1>8, <3>1, GateIs
    <3>2. CASE GatePasses(s.d) /\ s.d = row.d
      <4>1. e.pc = "group" /\ e.elapsed = s.elapsed /\ e.d = row.d
        BY <1>1, <1>8, <2>1, <3>2, GateIs DEF Keeps
      <4>2. s.elapsed = 0 /\ row.age <= backlog
        BY <1>1, <1>4, <2>1, <3>2 DEF Typed, CrawlsTyped, SoundCrawl, Bare
      <4>3. row.age <= Deadline + backlog /\ row.age <= s.elapsed + backlog
        BY <4>2, RowBecomes DEF Typed, BoundsTyped
      <4>4. Leads(worker[w])'
        BY <1>1, <4>1, <4>3 DEF Leads, Past
      <4> QED BY <1>2, <4>4 DEF Led
    <3> QED BY <3>1, <3>2
  <2>3. Held(worker) => Held(worker')
    BY <1>0, <1>1, <2>1, <2>2
  <2> HIDE DEF Held
  <2> QED BY <1>7, <2>1, <2>3
<1>9. CASE Delete(w)
  <2>1. s.pc = "delete" /\ msgs' = {m \in msgs : m.d # s.d} /\ e = IdleWorker
    BY <1>1, <1>9 DEF Delete, Typed, CrawlsTyped
  <2>2. CASE s.d = row.d
    <3>1. \A m \in msgs' : m.d # row.d
      BY <2>1, <2>2
    <3> HIDE DEF Held
    <3> QED BY <1>7, <2>1, <3>1, IdleIs
  <2>3. CASE s.d # row.d
    <3>1. Held(worker) => Held(worker')
      BY <1>0, <1>1, <2>3
    <3> HIDE DEF Held
    <3> QED BY <1>7, <2>1, <3>1, IdleIs
  <2> QED BY <2>2, <2>3
<1>10. CASE Finalize(w)
  <2>1. s.pc = "finalize" /\ UNCHANGED msgs /\ e.pc = "delete"
    BY <1>1, <1>10, FinalizeIs
  <2>2. Held(worker) => Held(worker')
    BY <1>0, <1>1, <2>1
  <2> HIDE DEF Held
  <2> QED BY <1>7, <2>1, <2>2
<1>11. CASE NextGroup(w) \/ NoGroupLeft(w) \/ Discovered(w) \/ StageOne(w) \/ GroupEnds(w) \/ Record(w)
            \/ Render(w) \/ CrawlEnds(w)
  BY <1>1, <1>5, <1>11 DEF NextGroup, NoGroupLeft, Discovered, StageOne, GroupEnds, Record, Render, CrawlEnds, Past
<1>12. CASE Unreachable(w) \/ ChildDies(w) \/ PortalFails(w) \/ WorkerFails(w)
  BY <1>12 DEF Unreachable, ChildDies, PortalFails, WorkerFails
<1> QED BY <1>6, <1>8, <1>9, <1>10, <1>11, <1>12 DEF Turn, WorkerStep, ChildStep

\* Where a worker has its dispatch from, and what its turn makes of the queue.
LEMMA TurnKeeps ==
    ASSUME NEW w \in Workers, Typed, Turn(w), NEW s, s = worker[w], NEW e, e = worker'[w]
    PROVE  e.d \in {0, s.d} \/ \E m \in msgs : e.d = m.d
<1>1. CASE Receive(w)
  BY <1>1, ReceiveIs
<1>2. CASE Gate(w)
  BY <1>2, GateIs
<1>3. CASE NextGroup(w) \/ NoGroupLeft(w)
  BY <1>3, NextGroupIs, NoGroupLeftIs DEF Keeps
<1>4. CASE Discovered(w)
  BY <1>4, DiscoveredIs, IdleIs DEF Keeps
<1>5. CASE StageOne(w) \/ GroupEnds(w)
  BY <1>5, StageOneIs, GroupEndsIs DEF Keeps
<1>6. CASE Record(w) \/ Finalize(w)
  BY <1>6, RecordIs, FinalizeIs
<1>7. CASE Delete(w) \/ WorkerFails(w)
  BY <1>7, DropIs, IdleIs
<1>8. CASE Render(w)
  BY <1>8, RenderIs DEF Keeps
<1>9. CASE Unreachable(w)
  BY <1>9, UnreachableIs DEF Keeps
<1>10. CASE CrawlEnds(w) \/ ChildDies(w) \/ PortalFails(w)
  BY <1>10, ChildIs, PortalFailsIs DEF Keeps
<1> QED BY <1>1, <1>2, <1>3, <1>4, <1>5, <1>6, <1>7, <1>8, <1>9, <1>10 DEF Turn, WorkerStep, ChildStep

LEMMA TurnMessages ==
    ASSUME NEW w \in Workers, Typed, Turn(w)
    PROVE  \A m \in msgs' : \E k \in msgs : m.d = k.d
<1>0. msgs \subseteq Messages
  BY DEF Typed, QueueTyped
<1>1. CASE Receive(w)
  <2>1. PICK k \in msgs : k.receives < MaxReceive /\ msgs' = (msgs \ {k}) \cup {Taken(k)}
    BY <1>1, ReceiveIs
  <2>2. Taken(k).d = k.d
    BY <1>0, <2>1, MessageIs
  <2> QED BY <2>1, <2>2
<1>2. CASE msgs' = Extended(worker[w])
  <2>1. ASSUME NEW m \in msgs' PROVE \E k \in msgs : m.d = k.d
    <3>1. PICK k \in msgs : m = k \/ m = [k EXCEPT !.hidden = Visibility]
      BY <1>2, <2>1 DEF Extended
    <3> QED BY <1>0, <3>1, MessageIs
  <2> QED BY <2>1
<1>3. CASE UNCHANGED msgs \/ Delete(w)
  BY <1>3 DEF Delete
<1> QED BY <1>1, <1>2, <1>3, TurnQueue DEF NextGroup, GroupEnds

\* What the orchestrator knows stands while a worker moves.
LEMMA TurnReads ==
    ASSUME NEW w \in Workers, Typed, Turn(w), NEW c, SoundPlan(c), Reads(c)
    PROVE  Reads(c)'
<1>0. \A v \in Workers : v # w => worker'[v] = worker[v]
  BY Turns DEF Typed, CrawlsTyped
<1>1. PICK s, e : s = worker[w] /\ e = worker'[w]
  OBVIOUS
<1>2. UNCHANGED issued
  BY TurnTables
<1>3. ASSUME c.pc \in {"sources", "stamp"}
      PROVE  (c.seen = 0 => issued' = 0) /\ (row'.d # 0 /\ c.seen = row'.d => row'.age = Timeout)
  <2>1. CASE row' = row
    BY <1>2, <1>3, <2>1 DEF Reads
  <2>2. CASE Finalize(w)
    <3>1. row' = row \/ row'.d = 0
      BY <1>1, <2>2, FinalizeIs
    <3> QED BY <1>2, <1>3, <3>1 DEF Reads
  <2> QED BY <2>1, <2>2, TurnTables
<1>4. ASSUME c.pc = "send"
      PROVE  /\ row'.d = c.d /\ row'.age = 0
             /\ \A m \in msgs' : m.d # c.d
             /\ \A v \in Workers : worker'[v].d # c.d
  <2>1. /\ row.d = c.d /\ row.age = 0
        /\ \A m \in msgs : m.d # c.d
        /\ \A v \in Workers : worker[v].d # c.d
    BY <1>4 DEF Reads
  <2>2. row' = row
    <3>1. ~(row.d = s.d)
      BY <1>1, <2>1
    <3> QED BY <1>1, <3>1, TurnTables, FinalizeIs
  <2>3. c.d # 0
    BY <1>4 DEF SoundPlan
  <2>4. e.d \in {0, s.d} \/ \E m \in msgs : e.d = m.d
    BY <1>1, TurnKeeps
  <2>5. \A m \in msgs' : \E k \in msgs : m.d = k.d
    BY TurnMessages
  <2> QED BY <1>0, <1>1, <2>1, <2>2, <2>3, <2>4, <2>5
<1> QED BY <1>3, <1>4 DEF Reads

\* A tick finds nobody at a dispatch but workers that crawl; a dispatch that nobody leads is in a
\* message that an idle worker could receive, so that the queue is behind by one more.
LEMMA TickQuiet ==
    ASSUME Typed, Tick \/ TickBacklog, Leading, Waits, Alive, NEW c, SoundPlan(c), Reads(c), c.pc # "send"
    PROVE  Leading' /\ Waits' /\ Alive' /\ Reads(c)'
<1>1. OnlyCrawls /\ Later /\ UNCHANGED <<issued, history>>
  BY DEF Tick, TickBacklog, Later
<1>b. /\ backlog \in Nat /\ backlog' \in Nat /\ backlog <= backlog'
      /\ ~InQueue \/ backlog' = backlog + 1
  BY DEF Tick, TickBacklog, NoFault, counts, Typed, BoundsTyped
<1>2. /\ row'.d = row.d
      /\ row'.age = IF row.d # 0 /\ row.age < Timeout THEN row.age + 1 ELSE row.age
  BY <1>1, RowAges
<1>3. /\ row.age \in 0 .. Timeout /\ Deadline \in Nat /\ Timeout \in Nat /\ Deadline < Timeout
  BY RowBecomes
<1>4. ASSUME NEW w \in Workers
      PROVE  /\ worker'[w].pc = worker[w].pc /\ worker'[w].d = worker[w].d /\ worker'[w].child = worker[w].child
             /\ worker[w].pc = "idle" \/ (worker[w].pc = "crawl" /\ worker[w].elapsed < Deadline)
             /\ worker[w].pc = "crawl" => worker'[w].elapsed = worker[w].elapsed + 1
  <2>1. Waiting(worker[w])
    BY <1>1 DEF OnlyCrawls
  <2>2. worker[w].pc = "idle" \/ (worker[w].pc = "crawl" /\ worker[w].elapsed < Deadline)
    BY <2>1 DEF Waiting
  <2>3. worker[w].pc = "crawl" => Timed(worker[w])
    BY <2>2 DEF Timed
  <2> QED BY <1>1, <2>2, <2>3, TickIs
<1>5. OnRow' = OnRow
  BY <1>2, <1>4 DEF OnRow
<1>6. row.d # 0 /\ Led => Led'
  <2> SUFFICES ASSUME row.d # 0, NEW w \in Workers, Leads(worker[w]) PROVE Leads(worker[w])'
    BY DEF Led
  <2>1. worker[w].pc = "crawl" /\ worker[w].elapsed < Deadline /\ row.age <= worker[w].elapsed + backlog
    BY <1>4 DEF Leads, Past
  <2>2. worker[w].elapsed \in Nat
    BY <1>3 DEF Typed, CrawlsTyped, SoundCrawl, Crawls
  <2>3. row'.age <= row.age + 1
    BY <1>2, <1>3
  <2>4. worker'[w].elapsed = worker[w].elapsed + 1
    BY <1>4, <2>1
  <2>5. PICK n : n = worker'[w].elapsed
    OBVIOUS
  <2>6. row'.age <= Deadline + backlog' /\ row'.age <= n + backlog'
    BY <1>2, <1>3, <1>b, <2>1, <2>2, <2>3, <2>4, <2>5
  <2> QED BY <1>2, <1>4, <2>1, <2>5, <2>6 DEF Leads, Past
<1>7. Leading'
  <2>1. row'.d # 0 => row.d # 0 /\ \A w \in Workers : worker'[w].pc \in Past => w \in OnRow
    BY <1>2, <1>4 DEF Leading
  <2>2. row'.d # 0 /\ (\E w \in OnRow : worker'[w].pc \in Past \cup {"finalize"}) => Led'
    BY <1>2, <1>4, <1>6 DEF Leading, OnRow
  <2>3. row'.d # 0 /\ (\E h \in history' : h.d = row'.d) => \E w \in OnRow : worker'[w].pc = "finalize"
    BY <1>1, <1>2, <1>4 DEF Leading, OnRow
  <2> QED BY <1>5, <2>1, <2>2, <2>3 DEF Leading
<1>8. Waits'
  <2>1. SUFFICES ASSUME row'.d # 0, ~Led', Workers # {}
                 PROVE  /\ \A w \in OnRow : worker'[w].pc # "gate"
                        /\ \A m \in msgs' : m.d = row'.d =>
                             row'.age <= backlog' /\ m.receives = 0 /\ m.hidden = 0
    BY <1>5 DEF Waits
  <2>2. row.d # 0 /\ ~Led
    BY <1>2, <1>6, <2>1
  <2>3. \A w \in OnRow : worker'[w].pc # "gate" /\ worker[w].pc \notin {"gate", "delete"}
    BY <1>4 DEF OnRow
  <2>4. \A w \in Workers : worker[w].pc = "idle"
    BY <1>4, <2>2 DEF Leading, Past
  <2>5. ASSUME NEW m \in msgs, m.d = row.d
        PROVE  m.receives = 0 /\ m.hidden = 0 /\ row'.age <= backlog'
    <3>1. m.receives = 0 /\ m.hidden = 0 /\ row.age <= backlog
      BY <2>1, <2>2, <2>3, <2>5 DEF Waits
    <3>2. Deliverable(m)
      BY <3>1, CrawlAssumption DEF Deliverable
    <3>3. InQueue
      BY <2>1, <2>4, <3>2 DEF InQueue
    <3> QED BY <1>2, <1>3, <1>b, <3>1, <3>3
  <2>6. ASSUME NEW m \in msgs', m.d = row'.d
        PROVE  row'.age <= backlog' /\ m.receives = 0 /\ m.hidden = 0
    <3>1. PICK k \in msgs : m = Shown(k)
      BY <1>1 DEF Later, Shown
    <3>2. m.d = k.d /\ m.receives = k.receives /\ (k.hidden = 0 => m.hidden = 0)
      BY <3>1, MessageIs DEF Typed, QueueTyped, Shown, Messages
    <3> QED BY <1>2, <2>5, <2>6, <3>2
  <2> QED BY <2>3, <2>6
<1>9. Alive'
  BY <1>4 DEF Alive
<1>10. Reads(c)'
  BY <1>1, <1>2, <1>3 DEF Reads
<1> QED BY <1>7, <1>8, <1>9, <1>10

\* No worker, message or history row knows a dispatch that is only now issued.
LEMMA NewIsUnknown ==
    ASSUME Typed, NEW n, n = issued + 1
    PROVE  /\ n # 0 /\ (\A w \in Workers : worker[w].d # n)
           /\ (\A m \in msgs : m.d # n) /\ (\A h \in history : h.d # n)
<1>0. issued \in Nat
  BY DEF Typed, TablesTyped
<1>1. ASSUME NEW w \in Workers PROVE worker[w].d # n
  <2>1. worker[w].d = 0 \/ worker[w].d \in 1 .. issued
    BY DEF Typed, CrawlsTyped, SoundCrawl
  <2> QED BY <1>0, <2>1
<1>2. ASSUME NEW m \in msgs PROVE m.d # n
  <2>1. m.d \in Nat /\ m.d <= issued
    BY DEF Typed, QueueTyped, Messages, Dispatches
  <2> QED BY <1>0, <2>1
<1>3. ASSUME NEW h \in history PROVE h.d # n
  <2>1. h.d \in Nat /\ h.d <= issued
    BY DEF Typed, TablesTyped, HistoryRows, Dispatches
  <2> QED BY <1>0, <2>1
<1> QED BY <1>0, <1>1, <1>2, <1>3

\* The only orchestrator stamps a row that was never dispatched, or whose dispatch nobody is at
\* any more.
LEMMA OrchQuiet ==
    ASSUME NEW o \in Orchestrators, Typed, OrchTurn(o), Leading, Waits, Alive, Reads(orch[o]),
           row.d = 0 /\ row.due => issued = 0, backlog' = backlog, backlog + Deadline < Timeout
    PROVE  /\ row'.d = 0 /\ row'.due => issued' = 0
           /\ Leading' /\ Waits' /\ Alive' /\ Reads(orch[o])'
<1>0. PICK c, b : c = orch[o] /\ b = orch'[o]
  OBVIOUS
<1>1. UNCHANGED <<history, worker>> /\ SoundPlan(c) /\ Reads(c)
  BY <1>0, OrchIs DEF Typed, PlansTyped
<1>2. Alive'
  BY <1>1 DEF Alive
<1>3. SUFFICES /\ row'.d = 0 /\ row'.due => issued' = 0
               /\ Leading' /\ Waits' /\ Reads(b)'
  BY <1>0, <1>2 DEF Reads
<1>4. ASSUME UNCHANGED <<tables, msgs>>
      PROVE  (row'.d = 0 /\ row'.due => issued' = 0) /\ Leading' /\ Waits'
  BY <1>1, <1>4 DEF tables, Leading, Waits, Led, Leads, OnRow
<1>5. CASE UNCHANGED <<tables, msgs>> /\ b.pc \in {"idle", "select", "park", "park_seeding"}
  BY <1>4, <1>5 DEF Reads
<1>6. CASE UNCHANGED <<tables, msgs>> /\ c.pc = "select" /\ Eligible /\ b.pc = "sources" /\ b.seen = row.d
  <2>1. row.d = 0 => issued = 0
    BY <1>6 DEF Eligible
  <2>2. row.d # 0 => row.age = Timeout
    BY <1>6 DEF Eligible
  <2> QED BY <1>4, <1>6, <2>1, <2>2 DEF Reads, tables
<1>7. CASE UNCHANGED <<tables, msgs>> /\ c.pc = "sources" /\ b.pc = "stamp" /\ b.seen = c.seen
  BY <1>1, <1>4, <1>7 DEF Reads, tables
<1>8. CASE /\ c.pc \in {"park", "park_seeding"} /\ row' = Parked /\ UNCHANGED <<issued, msgs>>
           /\ b.pc \in {"idle", "select"}
  <2>1. row'.d = 0 /\ ~row'.due
    BY <1>8, RowBecomes
  <2> QED BY <1>8, <2>1 DEF Leading, Waits, Reads
<1>9. CASE /\ c.pc = "stamp" /\ row.d = c.seen /\ issued < MaxDispatch /\ issued' = issued + 1
           /\ row' = Stamped /\ UNCHANGED msgs /\ b.pc = "send" /\ b.d = issued + 1
  <2>1. row'.d = issued + 1 /\ row'.age = 0
    BY <1>9, RowBecomes
  <2>2. /\ row'.d # 0 /\ (\A w \in Workers : worker'[w].d # row'.d)
        /\ (\A m \in msgs' : m.d # row'.d) /\ (\A h \in history' : h.d # row'.d)
    BY <1>1, <1>9, <2>1, NewIsUnknown
  <2>3. \A w \in Workers : worker[w].pc \notin Past
    <3>1. CASE row.d = 0
      <4>1. issued = 0
        BY <1>1, <1>9, <3>1 DEF Reads
      <4> QED BY <4>1 DEF Typed, CrawlsTyped, SoundCrawl, Past
    <3>2. CASE row.d # 0
      <4>1. row.age = Timeout
        BY <1>1, <1>9, <3>2 DEF Reads
      <4>2. ~Led
        BY <4>1, RowBecomes DEF Led, Leads, Typed, BoundsTyped
      <4> QED BY <3>2, <4>2 DEF Leading, Past
    <3> QED BY <3>1, <3>2
  <2>4. OnRow' = {}
    BY <2>2 DEF OnRow
  <2>5. Leading'
    BY <1>1, <2>2, <2>3, <2>4 DEF Leading
  <2>6. Waits'
    BY <2>2, <2>4 DEF Waits
  <2>7. Reads(b)'
    BY <1>9, <2>1, <2>2 DEF Reads
  <2> QED BY <2>2, <2>5, <2>6, <2>7
<1>10. CASE c.pc = "send" /\ UNCHANGED tables /\ msgs' = msgs \cup {Sent(c)} /\ b.pc = "idle"
  <2>1. row.d = c.d /\ row.age = 0 /\ (\A m \in msgs : m.d # c.d) /\ (\A w \in Workers : worker[w].d # c.d)
    BY <1>1, <1>10 DEF Reads
  <2>2. OnRow = {}
    BY <2>1 DEF OnRow
  <2>3. (row'.d = 0 /\ row'.due => issued' = 0) /\ Leading' /\ OnRow' = OnRow
    BY <1>1, <1>10 DEF tables, Leading, Led, Leads, OnRow
  <2>4. Waits'
    <3>1. Sent(c).receives = 0 /\ Sent(c).hidden = 0
      BY DEF Sent
    <3>2. row'.age <= backlog' /\ row' = row
      BY <1>10, <2>1 DEF tables, Typed, BoundsTyped
    <3> QED BY <1>10, <2>1, <2>2, <2>3, <3>1, <3>2 DEF Waits, tables
  <2> QED BY <1>10, <2>3, <2>4 DEF Reads
<1> QED BY <1>0, <1>5, <1>6, <1>7, <1>8, <1>9, <1>10, OrchIs

\* Nothing from outside disturbs them: not a dead-letter move, an edit or the run switch.
LEMMA OutsideQuiet ==
    ASSUME Typed, Outside, Leading, Waits, Alive, NEW c, Reads(c),
           row.d = 0 /\ row.due => issued = 0, UNCHANGED <<recrawls, backlog, orch, worker>>
    PROVE  /\ row'.d = 0 /\ row'.due => issued' = 0
           /\ Leading' /\ Waits' /\ Alive' /\ Reads(c)'
<1>1. UNCHANGED <<row, issued, history>> /\ msgs' \subseteq msgs
  <2>1. ~FallDue
    BY DEF FallDue, Typed, BoundsTyped
  <2> QED BY <2>1 DEF Outside, DeadLetter, SetEnabled, Stop, Start, vars, tables
<1>2. Led' = Led /\ OnRow' = OnRow
  BY <1>1 DEF Led, Leads, OnRow
<1> QED BY <1>1, <1>2 DEF Leading, Waits, Alive, Reads

LEMMA UndisturbedStep ==
    ASSUME NEW o, Orchestrators = {o}, Typed, Undisturbed(o), [Next]_vars
    PROVE  Undisturbed(o)'
<1> SUFFICES ASSUME faults' = 0, recrawls' = 0, backlog' + Deadline < Timeout
             PROVE  /\ row'.d = 0 /\ row'.due => issued' = 0
                    /\ Alive' /\ Leading' /\ Waits' /\ Reads(orch[o])'
  BY DEF Undisturbed
<1>1. faults = 0 /\ recrawls = 0 /\ backlog + Deadline < Timeout /\ ~Fault
  <2>1. /\ faults \in Nat /\ recrawls \in Nat /\ backlog \in Nat /\ backlog' \in Nat
        /\ faults <= faults' /\ recrawls <= recrawls' /\ backlog <= backlog' /\ (Fault => faults' = faults + 1)
    BY BoundsStep DEF Typed, BoundsTyped
  <2> QED BY <2>1, RowBecomes
<1>2. (row.d = 0 /\ row.due => issued = 0) /\ Alive /\ Leading /\ Waits /\ Reads(orch[o])
  BY <1>1 DEF Undisturbed
<1>3. SoundPlan(orch[o])
  BY DEF Typed, PlansTyped
<1>4. ASSUME OrchTurn(o), UNCHANGED backlog
      PROVE  /\ row'.d = 0 /\ row'.due => issued' = 0
             /\ Alive' /\ Leading' /\ Waits' /\ Reads(orch[o])'
  BY <1>1, <1>2, <1>4, OrchQuiet
<1>5. ASSUME NEW w \in Workers, Turn(w), UNCHANGED <<orch, backlog>>
      PROVE  /\ row'.d = 0 /\ row'.due => issued' = 0
             /\ Alive' /\ Leading' /\ Waits' /\ Reads(orch[o])'
  <2>1. PICK c : c = orch[o]
    OBVIOUS
  <2>2. Reads(c)'
    BY <1>2, <1>3, <1>5, <2>1, TurnReads
  <2>3. Reads(orch[o])'
    BY <1>5, <2>1, <2>2 DEF Reads
  <2>4. UNCHANGED issued
    BY <1>5, TurnTables
  <2>5. CASE row' = row
    <3>1. row.d # 0 => Leading' /\ Waits'
      BY <1>1, <1>2, <1>5, <2>5, TurnLeading, TurnWaits
    <3>2. row.d = 0 => Leading' /\ Waits'
      BY <2>5 DEF Leading, Waits
    <3> QED BY <1>2, <2>3, <2>4, <2>5, <3>1, <3>2, <1>1, <1>5, TurnAlive
  <2>6. CASE row' # row
    <3>1. row'.d = 0 /\ row'.due = FALSE
      BY <1>5, <2>6, TurnTables, FinalizeIs
    <3>2. Leading' /\ Waits'
      BY <3>1 DEF Leading, Waits
    <3> QED BY <1>1, <1>2, <1>5, <2>3, <3>1, <3>2, TurnAlive
  <2> QED BY <2>5, <2>6
<1>6. ASSUME Tick \/ TickBacklog, UNCHANGED orch
      PROVE  /\ row'.d = 0 /\ row'.due => issued' = 0
             /\ Alive' /\ Leading' /\ Waits' /\ Reads(orch[o])'
  <2>1. PICK c : c = orch[o]
    OBVIOUS
  <2>2. c.pc # "send" /\ Later /\ UNCHANGED issued
    BY <1>6, <2>1 DEF Tick, TickBacklog, OnlyCrawls, Later
  <2>3. Leading' /\ Waits' /\ Alive' /\ Reads(c)'
    BY <1>2, <1>3, <1>6, <2>1, <2>2, TickQuiet
  <2>4. Reads(orch[o])'
    BY <1>6, <2>1, <2>3 DEF Reads
  <2> QED BY <1>2, <2>2, <2>3, <2>4, RowAges
<1>7. ASSUME Outside, UNCHANGED <<orch, worker, backlog>>
      PROVE  /\ row'.d = 0 /\ row'.due => issued' = 0
             /\ Alive' /\ Leading' /\ Waits' /\ Reads(orch[o])'
  <2>1. PICK c : c = orch[o]
    OBVIOUS
  <2>2. (row'.d = 0 /\ row'.due => issued' = 0) /\ Leading' /\ Waits' /\ Alive' /\ Reads(c)'
    BY <1>1, <1>2, <1>7, <2>1, OutsideQuiet
  <2>3. Reads(orch[o])'
    BY <1>7, <2>1, <2>2 DEF Reads
  <2> QED BY <2>2, <2>3
<1>8. ~TickLate
  BY <1>1 DEF TickLate
<1> QED BY <1>4, <1>5, <1>6, <1>7, <1>8, Steps DEF Passes

\* With one orchestrator and while nothing fails, no newer dispatch is stamped over a live crawl as
\* long as the wait in the queue and a deadline fit in the timeout, however many workers the queue
\* hands a message to: the first of them has been at it since it left the queue.
THEOREM CrawlsAreOutlived ==
    ASSUME NEW o, Orchestrators = {o}
    PROVE  Spec => []TimeoutOutlivesCrawl
<1>1. Init => Typed /\ Undisturbed(o)
  <2> SUFFICES ASSUME Init PROVE Undisturbed(o)
    BY InitTyped
  <2>1. orch[o] = IdleOrch /\ \A w \in Workers : worker[w] = IdleWorker
    BY DEF Init
  <2> QED BY <2>1, IdleIs, IdleOrchIs DEF Init, Fresh, Undisturbed, Alive, Leading, Waits, Reads
<1>2. Typed /\ Undisturbed(o) /\ [Next]_vars => (Typed /\ Undisturbed(o))'
  BY TypedStep, UndisturbedStep
<1>3. Undisturbed(o) => TimeoutOutlivesCrawl
  BY DEF Undisturbed, Leading, OnRow, Past, TimeoutOutlivesCrawl
<1> QED BY <1>1, <1>2, <1>3, PTL DEF Spec
==============================================================================
