-------------------------- MODULE ContactSearchProofs --------------------------
(***************************************************************************)
(* Theorems about ContactSearch, for every set of jurisdictions, seeders   *)
(* and scrapers, and every number of queries, receives and faults; one of  *)
(* them needs a single seeder.                                              *)
(***************************************************************************)
EXTENDS ContactSearch, FiniteSetTheorems, TLAPS

-----------------------------------------------------------------------------
(* The inductive invariant.                                                *)

Workers == Seeders \cup Scrapers

\* What an actor has in hand, by where it is.
SeederAt(c) ==
    /\ c.pc \in {"idle", "census", "state", "places", "scope", "next", "insert", "resolve",
                 "contact", "send", "count"}
    /\ c.pc \in {"insert", "resolve", "contact", "send", "count"} => c.j \in Jurisdictions
    /\ c.pc = "send" => c.next < c.queries
    /\ c.pc = "count" => c.next = c.queries /\ c.queries > 0
ScraperAt(c) ==
    /\ c.pc \in {"idle", "start", "hit", "write", "contact", "tell", "mark", "last", "delete"}
    /\ c.pc # "idle" => c.msg \in Messages /\ c.j = c.msg.j /\ c.j \in Jurisdictions

CampaignTyped == /\ test \in BOOLEAN /\ active \in BOOLEAN /\ seeded \in BOOLEAN
                 /\ marked \in BOOLEAN /\ loaded \subseteq Jurisdictions
                 /\ contact \subseteq Jurisdictions
                 /\ sent \in [Jurisdictions -> Nat] /\ told \in [Jurisdictions -> Nat]
                 /\ dead \subseteq Jurisdictions /\ early \subseteq Jurisdictions
                 /\ faults \in 0 .. MaxFaults
TargetTyped == target \in [Jurisdictions -> Rows]
QueueTyped  == msgs \subseteq Messages /\ IsFiniteSet(msgs)
AtTyped     == /\ at \in [Workers -> Controls]
               /\ \A o \in Seeders : SeederAt(at[o])
               /\ \A w \in Scrapers : ScraperAt(at[w])
Typed == CampaignTyped /\ TargetTyped /\ QueueTyped /\ AtTyped

\* A target is in the table before anything is asked about it; nothing is known of one that is not.
InTable ==
    /\ \A j \in Jurisdictions : ~target[j].exists => target[j] = NoRow
    /\ \A m \in msgs : target[m.j].exists
    /\ \A o \in Seeders : at[o].pc \in {"resolve", "contact", "send", "count"} => target[at[o].j].exists
    /\ \A w \in Scrapers : at[w].pc # "idle" => target[at[w].j].exists

\* Only the caller that resolved a target has its outcome in hand, and nothing has come of it yet.
Owns(a, j) == at[a].j = j /\ at[a].pc \in {"write", "contact", "tell"}
OneOwner ==
    /\ OutcomeOnce
    /\ \A a \in Workers, j \in Jurisdictions : Owns(a, j) =>
          /\ target[j].resolved /\ sent[j] + told[j] = 0
          /\ \A b \in Workers : Owns(b, j) => b = a

\* A query that was sent is in the queue or consumed, unless its target needs it no more.
Settled(j) == target[j].resolved \/ j \in dead \cup early
Accounted(j, k) == k \in target[j].consumed \/ Settled(j) \/ \E m \in msgs : m.j = j /\ m.index = k

\* A message of a target that nobody is about to delete.
Kept(j) == \E m \in msgs : m.j = j /\ \A w \in Scrapers : at[w].pc = "delete" => ~Same(m, at[w].msg)
UsedUp ==
    /\ \A j \in Jurisdictions : \A k \in Indexes : k < target[j].enqueued => Accounted(j, k)
    /\ \A o \in Seeders : at[o].pc \in {"send", "count"} =>
          \A k \in Indexes : k < at[o].next => Accounted(at[o].j, k)
    /\ \A w \in Scrapers : at[w].pc = "delete" =>
          target[at[w].j].resolved \/ at[w].msg.index \in target[at[w].j].consumed
    /\ \A j \in Jurisdictions : target[j].enqueued = 0 /\ target[j].consumed # {} => j \in early
    /\ \A j \in Jurisdictions : target[j].enqueued > 0 /\ ~Settled(j) => Kept(j)

\* With one orchestrator, a jurisdiction in the table is covered, or still to be looked at.
Covered(j) == target[j].resolved \/ target[j].enqueued > 0
Looking == {"next", "insert", "resolve", "contact", "send", "count"}
Covering(o) ==
    /\ SeededCovers
    /\ seeded => at[o].pc = "idle"
    /\ at[o].pc \in Looking => \A j \in loaded :
          \/ Covered(j)
          \/ \E e \in at[o].todo : e.j = j
          \/ at[o].pc # "next" /\ at[o].j = j

-----------------------------------------------------------------------------
(* Helpers.                                                                *)

\* Some number up to one more than a finite set has members is not in it.
LEMMA UnusedIsNew ==
    ASSUME NEW S, IsFiniteSet(S)
    PROVE  Unused(S) \in Nat \ {0} /\ Unused(S) \notin S
<1> DEFINE n == Cardinality(S) + 1
<1>1. n \in Nat \ {0}
  BY FS_CardinalityType
<1>2. ~(1 .. n \subseteq S)
  <2> SUFFICES ASSUME 1 .. n \in SUBSET S PROVE FALSE
    OBVIOUS
  <2>1. Cardinality(1 .. n) <= Cardinality(S)
    BY FS_Subset
  <2>2. Cardinality(1 .. n) = n
    BY <1>1, FS_Interval
  <2> QED BY <2>1, <2>2, FS_CardinalityType
<1>3. \E c \in 1 .. n : c \notin S
  BY <1>2
<1>4. Unused(S) \in 1 .. n /\ Unused(S) \notin S
  BY <1>3 DEF Unused
<1> QED BY <1>1, <1>4

\* The image of a finite set under a field is finite.
LEMMA CopiesFinite ==
    ASSUME NEW S, IsFiniteSet(S)
    PROVE  IsFiniteSet({m.copy : m \in S})
<1> DEFINE T == {m.copy : m \in S}
           f == [m \in S |-> m.copy]
<1>1. f \in Surjection(S, T)
  BY DEF Surjection
<1> QED BY <1>1, FS_Surjection

\* Fewer consumed indexes than were counted leave one that is not consumed.
LEMMA OneIsLeft ==
    ASSUME NEW S \in SUBSET Indexes, NEW n \in 0 .. MaxQueries, Cardinality(S) < n
    PROVE  \E k \in Indexes : k < n /\ k \notin S
<1> SUFFICES ASSUME \A k \in Indexes : k < n => k \in S PROVE FALSE
  OBVIOUS
<1>1. IsFiniteSet(Indexes)
  BY ParamAssumption, FS_Interval DEF Indexes
<1>2. IsFiniteSet(S)
  BY <1>1, FS_Subset
<1>3. 0 .. n - 1 \in SUBSET S
  BY ParamAssumption DEF Indexes
<1>4. n \in Nat
  BY ParamAssumption
<1>5. CASE n = 0
  BY <1>2, <1>5, FS_CardinalityType
<1>6. CASE n > 0
  <2>1. Cardinality(0 .. n - 1) = n
    BY <1>4, <1>6, FS_Interval
  <2>2. Cardinality(0 .. n - 1) <= Cardinality(S)
    BY <1>2, <1>3, FS_Subset
  <2> QED BY <1>2, <1>4, <2>1, <2>2, FS_CardinalityType
<1> QED BY <1>4, <1>5, <1>6

\* A counter per jurisdiction, raised by one.
LEMMA OneMoreTyped ==
    ASSUME NEW f \in [Jurisdictions -> Nat], NEW x \in Jurisdictions, NEW g, g = [f EXCEPT ![x] = @ + 1]
    PROVE  g \in [Jurisdictions -> Nat] /\ \A y \in Jurisdictions : g[y] = IF y = x THEN f[x] + 1 ELSE f[y]
<1>1. f[x] + 1 \in Nat
  OBVIOUS
<1> QED BY <1>1

-----------------------------------------------------------------------------
(* Types.                                                                  *)

LEMMA InitTyped == Init => Typed
<1> SUFFICES ASSUME Init PROVE Typed
  OBVIOUS
<1>1. CampaignTyped
  <2>1. 0 \in 0 .. MaxFaults
    BY ParamAssumption
  <2>2. [j \in Jurisdictions |-> 0] \in [Jurisdictions -> Nat]
    OBVIOUS
  <2>3. loaded \subseteq Jurisdictions /\ contact \subseteq Jurisdictions /\ marked \in BOOLEAN
    BY DEF Init
  <2> QED BY <2>1, <2>2, <2>3 DEF Init, CampaignTyped
<1>2. TargetTyped
  <2>1. NoRow \in Rows
    BY ParamAssumption DEF NoRow, Rows
  <2> QED BY <2>1 DEF Init, TargetTyped
<1>3. QueueTyped
  BY FS_EmptySet DEF Init, QueueTyped
<1>4. AtTyped
  <2>1. Idle \in Controls /\ Idle.pc = "idle"
    BY ParamAssumption DEF Idle, Controls
  <2>2. \A a \in Workers : at[a] = Idle
    BY DEF Init, Workers
  <2>3. at \in [Workers -> Controls]
    BY <2>1 DEF Init, Workers
  <2> QED BY <2>1, <2>2, <2>3 DEF AtTyped, SeederAt, ScraperAt, Workers
<1> QED BY <1>1, <1>2, <1>3, <1>4 DEF Typed

\* What an actor does, by what it has in hand.
Sound(a, c) == c \in Controls /\ (a \in Seeders => SeederAt(c)) /\ (a \in Scrapers => ScraperAt(c))

LEMMA Becoming ==
    ASSUME AtTyped, NEW a \in Workers, NEW c, Sound(a, c), Become(a, c)
    PROVE  AtTyped'
<1>1. at' \in [Workers -> Controls]
  BY DEF AtTyped, Sound, Become
<1>2. \A b \in Workers : at'[b] = IF b = a THEN c ELSE at[b]
  BY DEF AtTyped, Become
<1> QED BY <1>1, <1>2 DEF AtTyped, Sound, Workers

LEMMA SoundIs ==
    ASSUME AtTyped, NEW a \in Workers
    PROVE  Sound(a, at[a])
BY DEF AtTyped, Sound, Workers

LEMMA IdleSound == ASSUME NEW a \in Workers PROVE Sound(a, Idle)
<1>1. Idle \in Controls
  BY ParamAssumption DEF Idle, Controls
<1> QED BY <1>1 DEF Sound, SeederAt, ScraperAt, Idle

\* Who is who.
LEMMA Apart ==
    /\ \A o \in Seeders : o \in Workers /\ o \notin Scrapers
    /\ \A w \in Scrapers : w \in Workers /\ w \notin Seeders
BY ParamAssumption DEF Workers

\* An actor that moves on without anything else of its own changing.
LEMMA GotoSound ==
    ASSUME NEW a \in Workers, NEW c, Sound(a, c), NEW pc,
           \/ /\ a \in Seeders
              /\ pc \in {"idle", "census", "state", "places", "scope", "next"}
           \/ /\ a \in Seeders /\ c.pc \in {"insert", "resolve", "contact", "send", "count"}
              /\ pc \in {"resolve", "contact"}
           \/ /\ a \in Scrapers /\ c.pc # "idle"
              /\ pc \in {"idle", "start", "hit", "write", "contact", "tell", "mark", "last", "delete"}
    PROVE  Sound(a, [c EXCEPT !.pc = pc])
<1> DEFINE d == [c EXCEPT !.pc = pc]
<1>1. d \in Controls /\ d.pc = pc /\ d.j = c.j /\ d.msg = c.msg
  BY DEF Sound, Controls
<1> HIDE DEF d
<1>2. a \in Seeders => Sound(a, d)
  BY <1>1, Apart DEF Sound, SeederAt
<1>3. a \in Scrapers => Sound(a, d)
  BY <1>1, Apart DEF Sound, ScraperAt
<1>4. Sound(a, d)
  BY <1>2, <1>3 DEF Workers
<1> QED BY <1>4 DEF d

\* What a seeder becomes.
LEMMA PreparedSound ==
    ASSUME NEW o \in Seeders, NEW c \in Controls, c.j \in Jurisdictions
    PROVE  /\ Sound(o, [c EXCEPT !.pc = "resolve"])
           /\ Sound(o, [c EXCEPT !.pc = "insert"])
           /\ Sound(o, [c EXCEPT !.pc = "next"])
           /\ \A n \in 1 .. MaxQueries :
                Sound(o, [c EXCEPT !.pc = "send", !.queries = n, !.next = 0])
<1>1. ASSUME NEW pc \in {"resolve", "insert", "next"}
      PROVE  Sound(o, [c EXCEPT !.pc = pc])
  <2> DEFINE d == [c EXCEPT !.pc = pc]
  <2>1. d \in Controls /\ d.pc = pc /\ d.j = c.j
    BY DEF Controls
  <2> HIDE DEF d
  <2>2. Sound(o, d)
    BY <2>1, Apart DEF Sound, SeederAt
  <2> QED BY <2>2 DEF d
<1>2. ASSUME NEW n \in 1 .. MaxQueries
      PROVE  Sound(o, [c EXCEPT !.pc = "send", !.queries = n, !.next = 0])
  <2> DEFINE d == [c EXCEPT !.pc = "send", !.queries = n, !.next = 0]
  <2>1. n \in 0 .. MaxQueries /\ 0 \in 0 .. MaxQueries /\ 0 < n
    BY ParamAssumption
  <2>2. d \in Controls /\ d.pc = "send" /\ d.j = c.j /\ d.next = 0 /\ d.queries = n
    BY <2>1 DEF Controls
  <2> HIDE DEF d
  <2>3. Sound(o, d)
    BY <2>1, <2>2, Apart DEF Sound, SeederAt
  <2> QED BY <2>3 DEF d
<1> QED BY <1>1, <1>2

\* What each of a seeder's steps leaves it with.
LEMMA SeederMoves ==
    ASSUME Typed, NEW o \in Seeders, SeedStep(o)
    PROVE  AtTyped'
<1> DEFINE c == at[o]
<1>0. o \in Workers /\ Sound(o, c) /\ Sound(o, Idle) /\ c \in Controls /\ SeederAt(c)
  BY Apart, SoundIs, IdleSound DEF Typed, Sound
<1>1. ASSUME NEW pc \in {"idle", "census", "state", "places", "scope", "next"}, Goto(o, pc)
      PROVE  AtTyped'
  BY <1>0, <1>1, GotoSound, Becoming DEF Goto, Typed
<1>2. ASSUME NEW pc \in {"places", "next"}, NEW todo \in SUBSET Pass,
             Become(o, [Idle EXCEPT !.pc = pc, !.todo = todo])
      PROVE  AtTyped'
  <2> DEFINE d == [Idle EXCEPT !.pc = pc, !.todo = todo]
  <2>1. Idle \in Controls
    BY <1>0 DEF Sound
  <2>2. d \in Controls /\ d.pc = pc
    BY <2>1 DEF Controls
  <2>3. Become(o, d)
    BY <1>2
  <2> HIDE DEF d
  <2>4. Sound(o, d)
    BY <2>2, Apart DEF Sound, SeederAt
  <2> QED BY <1>0, <2>3, <2>4, Becoming DEF Typed
<1>3. ASSUME NEW d \in Controls, d.j \in Jurisdictions, Prepare(o, d)
      PROVE  AtTyped'
  <2>1. \E e : Sound(o, e) /\ Become(o, e)
    BY <1>3, PreparedSound DEF Prepare
  <2> QED BY <1>0, <2>1, Becoming DEF Typed
<1>4. CASE SeedStart(o)
  <2>1. {[j |-> j, known |-> TRUE] : j \in Jurisdictions} \in SUBSET Pass
    <3>1. \A j \in Jurisdictions : [j |-> j, known |-> TRUE] \in Pass
      BY DEF Pass
    <3> QED BY <3>1
  <2> QED BY <1>1, <1>2, <1>4, <2>1 DEF SeedStart
<1>5. CASE Census(o)
  BY <1>1, <1>5 DEF Census
<1>6. CASE InsertState(o)
  <2>1. {[j |-> j, known |-> FALSE] : j \in Jurisdictions} \in SUBSET Pass
    <3>1. \A j \in Jurisdictions : [j |-> j, known |-> FALSE] \in Pass
      BY DEF Pass
    <3> QED BY <3>1
  <2> QED BY <1>2, <1>6, <2>1 DEF InsertState
<1>7. CASE InsertPlace(o)
  <2>1. ASSUME NEW e \in c.todo, Become(o, [c EXCEPT !.todo = @ \ {e}])
        PROVE  AtTyped'
    <3> DEFINE d == [c EXCEPT !.todo = @ \ {e}]
    <3>1. c.pc = "places"
      BY <1>7 DEF InsertPlace, At
    <3>2. d \in Controls /\ d.pc = "places"
      BY <1>0, <3>1 DEF Controls
    <3>3. Become(o, d)
      BY <2>1
    <3> HIDE DEF d
    <3>4. Sound(o, d)
      BY <3>2, Apart DEF Sound, SeederAt
    <3> QED BY <1>0, <3>3, <3>4, Becoming DEF Typed
  <2> QED BY <1>1, <1>7, <2>1 DEF InsertPlace
<1>8. CASE Scope(o)
  <2>1. {[j |-> j, known |-> j \in contact] : j \in loaded} \in SUBSET Pass
    <3>1. \A j \in loaded : [j |-> j, known |-> j \in contact] \in Pass
      BY DEF Pass, Typed, CampaignTyped
    <3> QED BY <3>1
  <2> QED BY <1>2, <1>8, <2>1 DEF Scope
<1>9. CASE FindTarget(o)
  <2> PICK e \in c.todo :
        LET d == [c EXCEPT !.todo = @ \ {e}, !.j = e.j, !.known = e.known]
        IN IF ~target[e.j].exists THEN Become(o, [d EXCEPT !.pc = "insert"])
           ELSE IF Skipped(target[e.j]) THEN Become(o, d)
           ELSE Prepare(o, d)
    BY <1>9 DEF FindTarget
  <2> DEFINE d == [c EXCEPT !.todo = @ \ {e}, !.j = e.j, !.known = e.known]
  <2>1. e.j \in Jurisdictions /\ e.known \in BOOLEAN
    BY <1>0 DEF Controls, Pass
  <2>2. c.pc = "next"
    BY <1>9 DEF FindTarget, At
  <2>3. d \in Controls /\ d.j = e.j /\ d.pc = "next"
    BY <1>0, <2>1, <2>2 DEF Controls
  <2>4. \/ Become(o, [d EXCEPT !.pc = "insert"])
        \/ Become(o, d)
        \/ Prepare(o, d)
    OBVIOUS
  <2> HIDE DEF d
  <2>5. Sound(o, d)
    BY <2>3, Apart DEF Sound, SeederAt
  <2>6. Sound(o, [d EXCEPT !.pc = "insert"])
    BY <2>1, <2>3, PreparedSound
  <2> QED BY <1>0, <1>3, <2>1, <2>3, <2>4, <2>5, <2>6, Becoming DEF Typed
<1>10. CASE InsertTarget(o)
  <2>1. c.j \in Jurisdictions
    BY <1>0, <1>10 DEF InsertTarget, At, SeederAt
  <2> QED BY <1>0, <1>1, <1>3, <1>10, <2>1 DEF InsertTarget
<1>11. CASE ResolveKnown(o)
  <2>1. Sound(o, [c EXCEPT !.pc = "contact"])
    BY <1>0, <1>11, GotoSound DEF ResolveKnown, At
  <2>2. Goto(o, "contact") \/ Goto(o, "next")
    BY <1>11 DEF ResolveKnown, Decide
  <2> QED BY <1>0, <1>1, <2>1, <2>2, Becoming DEF Goto, Typed
<1>12. CASE SendQuery(o)
  <2> DEFINE d == [c EXCEPT !.next = @ + 1, !.pc = IF c.next + 1 = c.queries THEN "count" ELSE "send"]
  <2>1. c.pc = "send" /\ Become(o, d)
    BY <1>12 DEF SendQuery, At
  <2>2. c.j \in Jurisdictions /\ c.next < c.queries /\ c.next \in Nat /\ c.queries \in Nat
        /\ c.queries <= MaxQueries
    BY <1>0, <2>1, ParamAssumption DEF SeederAt, Controls
  <2>3. c.next + 1 \in 0 .. MaxQueries
    BY <2>2, ParamAssumption
  <2>4. /\ d \in Controls /\ d.next = c.next + 1 /\ d.queries = c.queries /\ d.j = c.j
        /\ d.pc = IF c.next + 1 = c.queries THEN "count" ELSE "send"
    BY <1>0, <2>3 DEF Controls
  <2> HIDE DEF d
  <2>5. Sound(o, d)
    BY <2>2, <2>4, Apart DEF Sound, SeederAt
  <2> QED BY <1>0, <2>1, <2>5, Becoming DEF Typed
<1>13. CASE SetCount(o)
  BY <1>1, <1>13 DEF SetCount
<1>14. CASE SetSeeded(o)
  BY <1>0, <1>14, Becoming DEF SetSeeded, Typed
<1> QED BY <1>4, <1>5, <1>6, <1>7, <1>8, <1>9, <1>10, <1>11, <1>12, <1>13, <1>14 DEF SeedStep

\* What each of a scraper's steps leaves it with.
LEMMA ScraperMoves ==
    ASSUME Typed, NEW w \in Scrapers, ScrapeStep(w)
    PROVE  AtTyped'
<1> DEFINE c == at[w]
<1>0. w \in Workers /\ Sound(w, c) /\ Sound(w, Idle) /\ c \in Controls /\ ScraperAt(c)
  BY Apart, SoundIs, IdleSound DEF Typed, Sound
<1>1. ASSUME NEW pc \in {"write", "contact", "tell", "mark", "last", "delete"}, Goto(w, pc), c.pc # "idle"
      PROVE  AtTyped'
  BY <1>0, <1>1, GotoSound, Becoming DEF Goto, Typed
<1>2. CASE Receive(w)
  <2> PICK m \in msgs : /\ Deliverable(m)
                        /\ LET r == [m EXCEPT !.receives = @ + 1]
                           IN Become(w, [Idle EXCEPT !.pc = "start", !.msg = r, !.j = r.j])
    BY <1>2 DEF Receive
  <2> DEFINE r == [m EXCEPT !.receives = @ + 1]
             d == [Idle EXCEPT !.pc = "start", !.msg = r, !.j = r.j]
  <2>1. m \in Messages /\ m.receives < MaxReceive
    BY DEF Typed, QueueTyped, Deliverable
  <2>2. r \in Messages
    BY <2>1, ParamAssumption DEF Messages
  <2>3. r.j \in Jurisdictions
    BY <2>2 DEF Messages
  <2>4. Become(w, d)
    OBVIOUS
  <2> HIDE DEF r
  <2>5. Idle \in Controls
    BY <1>0 DEF Sound
  <2>6. d \in Controls /\ d.pc = "start" /\ d.msg = r /\ d.j = r.j
    BY <2>2, <2>3, <2>5 DEF Controls
  <2> HIDE DEF d
  <2>7. Sound(w, d)
    BY <2>2, <2>3, <2>6, Apart DEF Sound, ScraperAt
  <2> QED BY <1>0, <2>4, <2>7, Becoming DEF Typed
<1>3. CASE Search(w)
  <2>0. c.pc = "start"
    BY <1>3 DEF Search, At
  <2>1. ASSUME NEW kind \in {"generic", "personal"}, Become(w, [c EXCEPT !.pc = "hit", !.hit = kind])
        PROVE  AtTyped'
    <3> DEFINE d == [c EXCEPT !.pc = "hit", !.hit = kind]
    <3>1. d \in Controls /\ d.pc = "hit" /\ d.msg = c.msg /\ d.j = c.j
      BY <1>0 DEF Controls
    <3>2. Become(w, d)
      BY <2>1
    <3> HIDE DEF d
    <3>3. Sound(w, d)
      BY <1>0, <2>0, <3>1, Apart DEF Sound, ScraperAt
    <3> QED BY <1>0, <3>2, <3>3, Becoming DEF Typed
  <2>2. \/ Become(w, Idle)
        \/ Goto(w, "delete") \/ Goto(w, "mark")
        \/ \E kind \in {"generic", "personal"} : Become(w, [c EXCEPT !.pc = "hit", !.hit = kind])
    BY <1>3 DEF Search
  <2> QED BY <1>0, <1>1, <2>0, <2>1, <2>2, Becoming DEF Typed
<1>4. CASE ResolveHit(w)
  BY <1>1, <1>4 DEF ResolveHit, Decide, At
<1>5. CASE WriteContact(w)
  BY <1>1, <1>5 DEF WriteContact, At
<1>6. CASE MarkConsumed(w)
  BY <1>1, <1>6 DEF MarkConsumed, At
<1>7. CASE ResolveNone(w)
  BY <1>1, <1>7 DEF ResolveNone, Decide, At
<1>8. CASE Tell(w)
  BY <1>1, <1>8 DEF Tell, At
<1>9. CASE Delete(w)
  BY <1>0, <1>9, Becoming DEF Delete, Typed
<1> QED BY <1>2, <1>3, <1>4, <1>5, <1>6, <1>7, <1>8, <1>9 DEF ScrapeStep

LEMMA AtStep == Typed /\ [Next]_vars => AtTyped'
<1> SUFFICES ASSUME Typed, [Next]_vars PROVE AtTyped'
  OBVIOUS
<1>1. ASSUME NEW a \in Workers, SendContact(a) PROVE AtTyped'
  <2>1. Sound(a, at[a]) /\ at[a].pc = "contact"
    BY <1>1, SoundIs DEF Typed, SendContact, At
  <2>2. Goto(a, IF a \in Seeders THEN "next" ELSE "delete")
    BY <1>1 DEF SendContact
  <2>3. Sound(a, [at[a] EXCEPT !.pc = IF a \in Seeders THEN "next" ELSE "delete"])
    BY <2>1, GotoSound DEF Workers
  <2> QED BY <2>2, <2>3, Becoming DEF Goto, Typed
<1>2. ASSUME NEW a \in Workers, Fails(a) PROVE AtTyped'
  BY <1>2, IdleSound, Becoming DEF Fails, Typed
<1>3. CASE UNCHANGED at
  BY <1>3 DEF Typed, AtTyped
<1>4. CASE DeadLetter \/ SetActive
  BY <1>3, <1>4 DEF DeadLetter, SetActive
<1> QED BY <1>1, <1>2, <1>3, <1>4, SeederMoves, ScraperMoves DEF Next, Workers, vars

\* Who writes what.
LEMMA QueueWriters ==
    ASSUME [Next]_vars
    PROVE  \/ UNCHANGED msgs
           \/ \E o \in Seeders : SendQuery(o)
           \/ \E w \in Scrapers : Receive(w) \/ Delete(w)
           \/ DeadLetter
<1>1. ASSUME NEW o \in Seeders, SeedStep(o) PROVE UNCHANGED msgs \/ SendQuery(o)
  BY <1>1 DEF SeedStep, SeedStart, Census, InsertState, InsertPlace, Scope, FindTarget, InsertTarget,
              ResolveKnown, SetCount, SetSeeded
<1>2. ASSUME NEW w \in Scrapers, ScrapeStep(w) PROVE UNCHANGED msgs \/ Receive(w) \/ Delete(w)
  BY <1>2 DEF ScrapeStep, Search, ResolveHit, WriteContact, MarkConsumed, ResolveNone, Tell
<1> QED BY <1>1, <1>2 DEF Next, SendContact, Fails, SetActive, vars

LEMMA TargetWriters ==
    ASSUME [Next]_vars
    PROVE  \/ UNCHANGED target
           \/ \E o \in Seeders : InsertTarget(o) \/ ResolveKnown(o) \/ SetCount(o)
           \/ \E w \in Scrapers : ResolveHit(w) \/ MarkConsumed(w) \/ ResolveNone(w)
<1>1. ASSUME NEW o \in Seeders, SeedStep(o)
      PROVE  UNCHANGED target \/ InsertTarget(o) \/ ResolveKnown(o) \/ SetCount(o)
  BY <1>1 DEF SeedStep, SeedStart, Census, InsertState, InsertPlace, Scope, FindTarget,
              SendQuery, SetSeeded
<1>2. ASSUME NEW w \in Scrapers, ScrapeStep(w)
      PROVE  UNCHANGED target \/ ResolveHit(w) \/ MarkConsumed(w) \/ ResolveNone(w)
  BY <1>2 DEF ScrapeStep, Receive, Search, WriteContact, Tell, Delete
<1> QED BY <1>1, <1>2 DEF Next, SendContact, Fails, SetActive, DeadLetter, vars

\* Where an actor is when it takes a step that writes a target.
LEMMA InHand ==
    ASSUME AtTyped
    PROVE  /\ \A o \in Seeders : at[o].pc \in {"insert", "resolve", "contact", "send", "count"} =>
                at[o].j \in Jurisdictions
           /\ \A w \in Scrapers : at[w].pc # "idle" => /\ at[w].msg \in Messages /\ at[w].j = at[w].msg.j
                                                      /\ at[w].j \in Jurisdictions
BY DEF AtTyped, SeederAt, ScraperAt

\* The update of one target row.
LEMMA RowTyped ==
    ASSUME TargetTyped, NEW j \in Jurisdictions, NEW row \in Rows, target' = [target EXCEPT ![j] = row]
    PROVE  TargetTyped'
BY DEF TargetTyped

LEMMA RowUpdates ==
    ASSUME NEW row \in Rows
    PROVE  /\ [row EXCEPT !.resolved = TRUE] \in Rows
           /\ \A n \in 0 .. MaxQueries : [row EXCEPT !.enqueued = n] \in Rows
           /\ \A k \in Indexes : [row EXCEPT !.consumed = @ \cup {k}] \in Rows
           /\ Fresh \in Rows
<1>1. \A k \in Indexes : [row EXCEPT !.consumed = @ \cup {k}] \in Rows
  BY DEF Rows
<1>2. NoRow \in Rows
  BY ParamAssumption DEF Rows, NoRow
<1>3. Fresh \in Rows
  BY <1>2 DEF Rows, Fresh
<1> QED BY <1>1, <1>3 DEF Rows

LEMMA TargetStep == Typed /\ [Next]_vars => TargetTyped'
<1> SUFFICES ASSUME Typed, [Next]_vars PROVE TargetTyped'
  OBVIOUS
<1>0. AtTyped /\ TargetTyped /\ \A j \in Jurisdictions : target[j] \in Rows
  BY DEF Typed, TargetTyped
<1>1. ASSUME NEW a, NEW won, NEW lost, at[a].j \in Jurisdictions, Decide(a, won, lost)
      PROVE  TargetTyped'
  BY <1>0, <1>1, RowTyped, RowUpdates DEF Decide, TargetTyped
<1>2. ASSUME NEW o \in Seeders, InsertTarget(o) PROVE TargetTyped'
  BY <1>0, <1>2, InHand, RowTyped, RowUpdates DEF InsertTarget, At
<1>3. ASSUME NEW o \in Seeders, ResolveKnown(o) PROVE TargetTyped'
  BY <1>0, <1>1, <1>3, InHand DEF ResolveKnown, At
<1>4. ASSUME NEW o \in Seeders, SetCount(o) PROVE TargetTyped'
  <2>1. at[o].j \in Jurisdictions /\ at[o].queries \in 0 .. MaxQueries
    BY <1>0, <1>4, InHand, Apart DEF SetCount, At, AtTyped, Controls
  <2> QED BY <1>0, <1>4, <2>1, RowTyped, RowUpdates DEF SetCount, TargetTyped
<1>5. ASSUME NEW w \in Scrapers, ResolveHit(w) \/ ResolveNone(w) PROVE TargetTyped'
  BY <1>0, <1>1, <1>5, InHand DEF ResolveHit, ResolveNone, At
<1>6. ASSUME NEW w \in Scrapers, MarkConsumed(w) PROVE TargetTyped'
  <2>1. at[w].j \in Jurisdictions /\ at[w].msg.index \in Indexes
    BY <1>0, <1>6, InHand DEF MarkConsumed, At, Messages
  <2> QED BY <1>0, <1>6, <2>1, RowTyped, RowUpdates DEF MarkConsumed
<1> QED BY <1>0, <1>2, <1>3, <1>4, <1>5, <1>6, TargetWriters DEF TargetTyped

\* A query's message, and the queue with it.
Query(c, copy) == [j |-> c.j, index |-> c.next, receives |-> 0, copy |-> copy]

LEMMA SendIs ==
    ASSUME Typed, NEW o \in Seeders, SendQuery(o)
    PROVE  \E copy \in Nat \ {0} :
             /\ msgs' = msgs \cup {Query(at[o], copy)}
             /\ Query(at[o], copy) \in Messages
             /\ Query(at[o], copy).j = at[o].j /\ Query(at[o], copy).index = at[o].next
<1> DEFINE c == at[o]
           equal == {m \in msgs : m.j = c.j /\ m.index = c.next}
           copy == Unused({m.copy : m \in equal})
<1>1. IsFiniteSet(equal)
  BY FS_Subset DEF Typed, QueueTyped
<1>2. copy \in Nat \ {0}
  BY <1>1, CopiesFinite, UnusedIsNew
<1>3. msgs' = msgs \cup {Query(c, copy)}
  BY DEF SendQuery, Query
<1> HIDE DEF copy
<1>4. c \in Controls /\ c.pc = "send" /\ c.j \in Jurisdictions /\ c.next < c.queries
  BY Apart DEF Typed, AtTyped, SeederAt, SendQuery, At
<1>5. c.next \in Indexes
  BY <1>4, ParamAssumption DEF Controls, Indexes
<1>6. Query(c, copy) \in Messages /\ Query(c, copy).j = c.j /\ Query(c, copy).index = c.next
  BY <1>2, <1>4, <1>5, ParamAssumption DEF Query, Messages
<1> QED BY <1>2, <1>3, <1>6

\* A message that was received once more.
LEMMA ReceivedIs ==
    ASSUME NEW m \in Messages, Deliverable(m), NEW r, r = [m EXCEPT !.receives = @ + 1]
    PROVE  r \in Messages /\ r.j = m.j /\ r.index = m.index /\ r.copy = m.copy
BY ParamAssumption DEF Deliverable, Messages

LEMMA QueueStep == Typed /\ [Next]_vars => QueueTyped'
<1> SUFFICES ASSUME Typed, [Next]_vars PROVE QueueTyped'
  OBVIOUS
<1>0. msgs \subseteq Messages /\ IsFiniteSet(msgs)
  BY DEF Typed, QueueTyped
<1>1. ASSUME NEW o \in Seeders, SendQuery(o) PROVE QueueTyped'
  BY <1>0, <1>1, SendIs, FS_AddElement DEF QueueTyped
<1>2. ASSUME NEW w \in Scrapers, Receive(w) PROVE QueueTyped'
  <2> PICK m \in msgs : /\ Deliverable(m)
                        /\ msgs' = (msgs \ {m}) \cup {[m EXCEPT !.receives = @ + 1]}
    BY <1>2 DEF Receive
  <2> DEFINE r == [m EXCEPT !.receives = @ + 1]
  <2>1. r \in Messages
    BY <1>0, ReceivedIs
  <2> HIDE DEF r
  <2>2. IsFiniteSet(msgs \ {m})
    BY <1>0, FS_Subset
  <2>3. IsFiniteSet((msgs \ {m}) \cup {r})
    BY <2>2, FS_AddElement
  <2>4. msgs' = (msgs \ {m}) \cup {r}
    BY DEF r
  <2> QED BY <1>0, <2>1, <2>3, <2>4 DEF QueueTyped
<1>3. ASSUME NEW w \in Scrapers, Delete(w) PROVE QueueTyped'
  <2>1. msgs' \in SUBSET msgs
    BY <1>3 DEF Delete
  <2> QED BY <1>0, <2>1, FS_Subset DEF QueueTyped
<1>4. CASE DeadLetter
  <2>1. msgs' \in SUBSET msgs
    BY <1>4 DEF DeadLetter
  <2> QED BY <1>0, <2>1, FS_Subset DEF QueueTyped
<1> QED BY <1>0, <1>1, <1>2, <1>3, <1>4, QueueWriters DEF QueueTyped

\* Where the outcome, the flags and the table change.
LEMMA OutcomeWriters ==
    ASSUME [Next]_vars
    PROVE  /\ \/ UNCHANGED outcome
              \/ \E a \in Workers : SendContact(a)
              \/ \E w \in Scrapers : Tell(w)
           /\ \/ UNCHANGED faults
              \/ \E w \in Scrapers : Receive(w)
              \/ \E a \in Workers : Fails(a)
              \/ SetActive
           /\ UNCHANGED dead \/ DeadLetter
           /\ UNCHANGED early \/ \E w \in Scrapers : MarkConsumed(w)
           /\ UNCHANGED contact \/ \E w \in Scrapers : WriteContact(w)
           /\ UNCHANGED active \/ SetActive
           /\ UNCHANGED test
           /\ UNCHANGED seeded \/ \E o \in Seeders : SetSeeded(o)
           /\ UNCHANGED census \/ \E o \in Seeders : InsertState(o) \/ InsertPlace(o) \/ FindTarget(o)
<1>1. ASSUME NEW o \in Seeders, SeedStep(o)
      PROVE  /\ UNCHANGED <<outcome, faults, dead, early, contact, active, test>>
             /\ UNCHANGED seeded \/ SetSeeded(o)
             /\ UNCHANGED census \/ InsertState(o) \/ InsertPlace(o) \/ FindTarget(o)
  BY <1>1 DEF SeedStep, SeedStart, Census, InsertState, InsertPlace, Scope, FindTarget, InsertTarget,
              ResolveKnown, SendQuery, SetCount, SetSeeded, NoFault, campaign
<1>2. ASSUME NEW w \in Scrapers, ScrapeStep(w)
      PROVE  /\ UNCHANGED <<campaign, census, dead>>
             /\ UNCHANGED outcome \/ Tell(w)
             /\ UNCHANGED faults \/ Receive(w)
             /\ UNCHANGED early \/ MarkConsumed(w)
             /\ UNCHANGED contact \/ WriteContact(w)
  BY <1>2 DEF ScrapeStep, Receive, Search, ResolveHit, WriteContact, MarkConsumed, ResolveNone, Tell,
              Delete, NoFault
<1>3. ASSUME NEW a \in Workers, SendContact(a)
      PROVE  UNCHANGED <<campaign, census, contact, dead, early, faults>>
  BY <1>3 DEF SendContact, NoFault
<1>4. ASSUME NEW a \in Workers, Fails(a)
      PROVE  UNCHANGED <<campaign, census, contact, outcome, dead, early>>
  BY <1>4 DEF Fails
<1>5. CASE DeadLetter
  BY <1>5 DEF DeadLetter, NoFault, campaign
<1>6. CASE SetActive
  BY <1>6 DEF SetActive
<1>7. CASE UNCHANGED vars
  BY <1>7 DEF vars, campaign
<1>8. \/ \E o \in Seeders : SeedStep(o)
      \/ \E w \in Scrapers : ScrapeStep(w)
      \/ \E a \in Workers : SendContact(a) \/ Fails(a)
      \/ DeadLetter \/ SetActive \/ UNCHANGED vars
  BY DEF Next, Workers
<1> QED BY <1>1, <1>2, <1>3, <1>4, <1>5, <1>6, <1>7, <1>8 DEF campaign

LEMMA CampaignStep == Typed /\ [Next]_vars => CampaignTyped'
<1> SUFFICES ASSUME Typed, [Next]_vars PROVE CampaignTyped'
  OBVIOUS
<1>0. CampaignTyped /\ AtTyped /\ QueueTyped
  BY DEF Typed
<1>1. seeded' \in BOOLEAN /\ test' \in BOOLEAN /\ active' \in BOOLEAN
  BY <1>0, OutcomeWriters DEF CampaignTyped, SetSeeded, SetActive
<1>2. marked' \in BOOLEAN /\ loaded' \subseteq Jurisdictions
  <2>1. ASSUME NEW o \in Seeders, NEW e \in at[o].todo PROVE e.j \in Jurisdictions
    BY <1>0, <2>1, Apart DEF AtTyped, Controls, Pass
  <2> QED BY <1>0, <2>1, OutcomeWriters DEF CampaignTyped, InsertState, InsertPlace, FindTarget, census
<1>3. contact' \subseteq Jurisdictions
  BY <1>0, OutcomeWriters, InHand DEF CampaignTyped, WriteContact, At
<1>4. sent' \in [Jurisdictions -> Nat] /\ told' \in [Jurisdictions -> Nat]
  <2>1. ASSUME NEW a \in Workers, SendContact(a) PROVE sent' \in [Jurisdictions -> Nat] /\ told' = told
    <3>1. at[a].pc = "contact" /\ sent' = [sent EXCEPT ![at[a].j] = @ + 1] /\ told' = told
      BY <2>1 DEF SendContact, At
    <3>2. at[a].j \in Jurisdictions
      BY <1>0, <3>1, InHand DEF Workers
    <3> QED BY <1>0, <3>1, <3>2, OneMoreTyped DEF CampaignTyped
  <2>2. ASSUME NEW w \in Scrapers, Tell(w) PROVE told' \in [Jurisdictions -> Nat] /\ sent' = sent
    <3>1. at[w].pc = "tell" /\ told' = [told EXCEPT ![at[w].j] = @ + 1] /\ sent' = sent
      BY <2>2 DEF Tell, At
    <3>2. at[w].j \in Jurisdictions
      BY <1>0, <3>1, InHand
    <3> QED BY <1>0, <3>1, <3>2, OneMoreTyped DEF CampaignTyped
  <2> QED BY <1>0, <2>1, <2>2, OutcomeWriters DEF CampaignTyped, outcome
<1>5. dead' \subseteq Jurisdictions
  BY <1>0, OutcomeWriters DEF CampaignTyped, QueueTyped, DeadLetter, Messages
<1>6. early' \subseteq Jurisdictions
  <2>1. ASSUME NEW w \in Scrapers, MarkConsumed(w) PROVE early' \subseteq Jurisdictions
    <3>1. at[w].pc = "mark" /\ early' \subseteq early \cup {at[w].j}
      BY <2>1 DEF MarkConsumed, At
    <3> QED BY <1>0, <3>1, InHand DEF CampaignTyped
  <2> QED BY <1>0, <2>1, OutcomeWriters DEF CampaignTyped
<1>7. faults' \in 0 .. MaxFaults
  <2>1. UNCHANGED faults \/ Fault
    BY OutcomeWriters DEF Receive, Fails, SetActive, NoFault
  <2> QED BY <1>0, <2>1, ParamAssumption DEF CampaignTyped, Fault
<1> QED BY <1>1, <1>2, <1>3, <1>4, <1>5, <1>6, <1>7 DEF CampaignTyped

LEMMA TypedStep == Typed /\ [Next]_vars => Typed'
BY AtStep, TargetStep, QueueStep, CampaignStep DEF Typed

\* Every variable keeps its type, whatever the number of orchestrators, scrapers and offices
\* (the tables, the queue and the handlers' local state).
THEOREM TypeCorrect == Spec => []TypeOK
<1>1. Typed => TypeOK
  BY DEF Typed, CampaignTyped, TargetTyped, QueueTyped, AtTyped, Workers, TypeOK
<1> QED BY <1>1, InitTyped, TypedStep, PTL DEF Spec

-----------------------------------------------------------------------------
(* Whose turn it is, and what it leaves the actor with.                    *)

LEMMA OthersStay ==
    ASSUME AtTyped, NEW a \in Workers, NEW c, Become(a, c)
    PROVE  at'[a] = c /\ \A b \in Workers : b # a => at'[b] = at[b]
BY DEF AtTyped, Become

\* A step is one actor's, or nobody's.
LEMMA Turns ==
    ASSUME Typed, [Next]_vars
    PROVE  \/ UNCHANGED at
           \/ \E a \in Workers :
                /\ \A b \in Workers : b # a => at'[b] = at[b]
                /\ \/ a \in Seeders /\ SeedStep(a)
                   \/ a \in Scrapers /\ ScrapeStep(a)
                   \/ SendContact(a)
                   \/ Fails(a)
<1>1. ASSUME NEW o \in Seeders, SeedStep(o)
      PROVE  \E c : Become(o, c)
  BY <1>1 DEF SeedStep, SeedStart, Census, InsertState, InsertPlace, Scope, FindTarget, InsertTarget,
              ResolveKnown, SendQuery, SetCount, SetSeeded, Prepare, Goto, Decide
<1>2. ASSUME NEW w \in Scrapers, ScrapeStep(w)
      PROVE  \E c : Become(w, c)
  BY <1>2 DEF ScrapeStep, Receive, Search, ResolveHit, WriteContact, MarkConsumed, ResolveNone, Tell,
              Delete, Goto, Decide
<1>3. ASSUME NEW a \in Workers, SendContact(a) \/ Fails(a)
      PROVE  \E c : Become(a, c)
  BY <1>3 DEF SendContact, Fails, Goto
<1>4. CASE DeadLetter \/ SetActive \/ UNCHANGED vars
  BY <1>4 DEF DeadLetter, SetActive, vars
<1>5. AtTyped
  BY DEF Typed
<1>6. \/ \E o \in Seeders : SeedStep(o)
      \/ \E w \in Scrapers : ScrapeStep(w)
      \/ \E a \in Workers : SendContact(a) \/ Fails(a)
      \/ DeadLetter \/ SetActive \/ UNCHANGED vars
  BY DEF Next, Workers
<1> QED BY <1>1, <1>2, <1>3, <1>4, <1>5, <1>6, Apart, OthersStay

Resting == {"idle", "census", "state", "places", "scope", "next"}

\* A seeder goes somewhere it has nothing in hand, takes a target up, prepares it, wins it, or sends.
LEMMA SeederTurn ==
    ASSUME Typed, NEW o \in Seeders, SeedStep(o)
    PROVE  LET c == at[o]
               d == at'[o]
           IN \/ d.pc \in Resting
              \/ FindTarget(o) /\ d.pc = "insert"
              \/ /\ FindTarget(o) \/ InsertTarget(o)
                 /\ target'[d.j].exists
                 /\ d.pc = "resolve" \/ (d.pc = "send" /\ d.next = 0)
              \/ ResolveKnown(o) /\ Wins(c.j) /\ d.pc = "contact" /\ d.j = c.j
              \/ /\ SendQuery(o) /\ d.pc \in {"send", "count"} /\ d.j = c.j /\ d.next = c.next + 1
                 /\ d.todo = c.todo
<1> DEFINE c == at[o]
           d == at'[o]
<1>0. o \in Workers /\ AtTyped /\ c \in Controls /\ SeederAt(c) /\ Idle \in Controls
  BY Apart, IdleSound DEF Typed, AtTyped, Sound
<1>a. ASSUME NEW x, Become(o, x) PROVE d = x
  BY <1>0, <1>a, OthersStay
<1>1. ASSUME NEW pc, Goto(o, pc) PROVE d.pc = pc /\ d.j = c.j
  BY <1>0, <1>1, <1>a DEF Goto, Controls
<1>2. ASSUME NEW x \in Controls, Prepare(o, x)
      PROVE  d.j = x.j /\ (d.pc = "resolve" \/ (d.pc = "send" /\ d.next = 0))
  <2>1. ASSUME Become(o, [x EXCEPT !.pc = "resolve"])
        PROVE  d.j = x.j /\ d.pc = "resolve"
    <3>1. d = [x EXCEPT !.pc = "resolve"]
      BY <2>1, <1>a
    <3> QED BY <1>2, <3>1 DEF Controls
  <2>2. ASSUME NEW n \in 1 .. MaxQueries, Become(o, [x EXCEPT !.pc = "send", !.queries = n, !.next = 0])
        PROVE  d.j = x.j /\ d.pc = "send" /\ d.next = 0
    BY <2>2, <1>a DEF Controls
  <2>3. \/ Become(o, [x EXCEPT !.pc = "resolve"])
        \/ \E n \in 1 .. MaxQueries : Become(o, [x EXCEPT !.pc = "send", !.queries = n, !.next = 0])
    BY <1>2 DEF Prepare
  <2> QED BY <2>1, <2>2, <2>3
<1>3. CASE SeedStart(o) \/ Census(o) \/ InsertState(o) \/ Scope(o) \/ SetSeeded(o) \/ SetCount(o)
  BY <1>0, <1>1, <1>3, <1>a DEF SeedStart, Census, InsertState, Scope, SetSeeded, SetCount, Resting, Controls,
                                Idle
<1>4. CASE InsertPlace(o)
  BY <1>0, <1>1, <1>4, <1>a DEF InsertPlace, At, Resting, Controls
<1>5. CASE FindTarget(o)
  <2> PICK e \in c.todo :
        LET x == [c EXCEPT !.todo = @ \ {e}, !.j = e.j, !.known = e.known]
        IN IF ~target[e.j].exists THEN Become(o, [x EXCEPT !.pc = "insert"])
           ELSE IF Skipped(target[e.j]) THEN Become(o, x)
           ELSE Prepare(o, x)
    BY <1>5 DEF FindTarget
  <2> DEFINE x == [c EXCEPT !.todo = @ \ {e}, !.j = e.j, !.known = e.known]
  <2>1. e.j \in Jurisdictions /\ e.known \in BOOLEAN
    BY <1>0 DEF Controls, Pass
  <2>2. c.pc = "next" /\ target' = target
    BY <1>5 DEF FindTarget, At
  <2>3. x \in Controls /\ x.j = e.j /\ x.pc = "next"
    BY <1>0, <2>1, <2>2 DEF Controls
  <2>4. \/ Become(o, [x EXCEPT !.pc = "insert"])
        \/ Become(o, x)
        \/ Prepare(o, x) /\ target[e.j].exists
    OBVIOUS
  <2> HIDE DEF x
  <2>5. CASE Become(o, [x EXCEPT !.pc = "insert"])
    BY <1>5, <2>3, <2>5, <1>a DEF Controls
  <2>6. CASE Become(o, x)
    BY <2>3, <2>6, <1>a DEF Resting
  <2>7. CASE Prepare(o, x) /\ target[e.j].exists
    BY <1>2, <1>5, <2>2, <2>3, <2>7
  <2> QED BY <2>4, <2>5, <2>6, <2>7
<1>6. CASE InsertTarget(o)
  <2> DEFINE row == IF target[c.j].exists THEN target[c.j] ELSE Fresh
  <2>1. c.j \in Jurisdictions
    BY <1>0, <1>6 DEF InsertTarget, At, SeederAt
  <2>2. target'[c.j] = row /\ row.exists
    BY <1>6, <2>1 DEF InsertTarget, Typed, TargetTyped, Fresh, NoRow
  <2>3. Goto(o, "next") \/ Prepare(o, c)
    BY <1>6 DEF InsertTarget
  <2> HIDE DEF row
  <2>4. CASE Goto(o, "next")
    BY <1>1, <2>4 DEF Resting
  <2>5. CASE Prepare(o, c)
    BY <1>0, <1>2, <1>6, <2>2, <2>5
  <2> QED BY <2>3, <2>4, <2>5
<1>7. CASE ResolveKnown(o)
  <2>1. (Wins(c.j) /\ Goto(o, "contact")) \/ Goto(o, "next")
    BY <1>7 DEF ResolveKnown, Decide
  <2> QED BY <1>1, <1>7, <2>1 DEF Resting
<1>8. CASE SendQuery(o)
  <2>1. Become(o, [c EXCEPT !.next = @ + 1, !.pc = IF c.next + 1 = c.queries THEN "count" ELSE "send"])
    BY <1>8 DEF SendQuery
  <2>2. d = [c EXCEPT !.next = @ + 1, !.pc = IF c.next + 1 = c.queries THEN "count" ELSE "send"]
    BY <2>1, <1>a
  <2> QED BY <1>0, <1>8, <2>2 DEF Controls
<1> QED BY <1>3, <1>4, <1>5, <1>6, <1>7, <1>8 DEF SeedStep

\* A scraper lets go, receives a message, or goes on with the one it has: to what it won, or to
\* the deletion when the target is decided or the index marked.
LEMMA ScraperTurn ==
    ASSUME Typed, NEW w \in Scrapers, ScrapeStep(w)
    PROVE  LET c == at[w]
               d == at'[w]
           IN \/ d.pc = "idle"
              \/ /\ Receive(w) /\ d.pc = "start"
                 /\ \E m \in msgs : d.j = m.j
              \/ /\ c.pc # "idle" /\ d.j = c.j /\ d.msg = c.msg
                 /\ \/ d.pc \in {"hit", "mark"}
                    \/ /\ d.pc \in {"write", "tell"} /\ Wins(c.j)
                       /\ ResolveHit(w) \/ ResolveNone(w)
                    \/ d.pc = "contact" /\ WriteContact(w)
                    \/ d.pc = "delete" /\ Tell(w)
                    \/ d.pc \in {"last", "delete"} /\ MarkConsumed(w)
                    \/ d.pc = "delete" /\ target' = target /\ (target[c.j].resolved \/ ~target[c.j].exists)
<1> DEFINE c == at[w]
           d == at'[w]
<1>0. w \in Workers /\ AtTyped /\ c \in Controls /\ ScraperAt(c) /\ Idle \in Controls /\ msgs \subseteq Messages
  BY Apart, IdleSound DEF Typed, AtTyped, Sound, QueueTyped
<1>a. ASSUME NEW x, Become(w, x) PROVE d = x
  BY <1>0, <1>a, OthersStay
<1>1. ASSUME NEW pc, Goto(w, pc) PROVE d.pc = pc /\ d.j = c.j /\ d.msg = c.msg
  BY <1>0, <1>1, <1>a DEF Goto, Controls
<1>2. CASE Receive(w)
  <2> PICK m \in msgs : /\ Deliverable(m)
                        /\ LET r == [m EXCEPT !.receives = @ + 1]
                           IN Become(w, [Idle EXCEPT !.pc = "start", !.msg = r, !.j = r.j])
    BY <1>2 DEF Receive
  <2> DEFINE r == [m EXCEPT !.receives = @ + 1]
  <2>1. r.j = m.j
    BY <1>0 DEF Messages
  <2>2. d = [Idle EXCEPT !.pc = "start", !.msg = r, !.j = r.j]
    BY <1>a
  <2> HIDE DEF r
  <2>3. d.pc = "start" /\ d.j = m.j
    BY <1>0, <2>1, <2>2 DEF Controls
  <2> QED BY <1>2, <2>3
<1>3. CASE Search(w)
  <2>1. c.pc = "start" /\ target' = target
    BY <1>3 DEF Search, At
  <2>2. \/ target[c.j].resolved /\ Goto(w, "delete")
        \/ Become(w, Idle)
        \/ \E kind \in {"generic", "personal"} : Become(w, [c EXCEPT !.pc = "hit", !.hit = kind])
        \/ Goto(w, "mark")
    BY <1>3 DEF Search
  <2>3. ASSUME NEW kind \in {"generic", "personal"}, Become(w, [c EXCEPT !.pc = "hit", !.hit = kind])
        PROVE  d.pc = "hit" /\ d.j = c.j /\ d.msg = c.msg
    BY <1>0, <1>a, <2>3 DEF Controls
  <2>4. CASE Become(w, Idle)
    BY <1>a, <2>4 DEF Idle
  <2> QED BY <1>1, <2>1, <2>2, <2>3, <2>4
<1>4. ASSUME NEW won \in {"write", "tell"}, Decide(w, won, "delete"), c.pc # "idle",
             ResolveHit(w) \/ ResolveNone(w)
      PROVE  /\ c.pc # "idle" /\ d.j = c.j /\ d.msg = c.msg
             /\ \/ /\ d.pc \in {"write", "tell"} /\ Wins(c.j)
                   /\ ResolveHit(w) \/ ResolveNone(w)
                \/ d.pc = "delete" /\ target' = target /\ (target[c.j].resolved \/ ~target[c.j].exists)
  BY <1>1, <1>4 DEF Decide, Wins
<1>5. CASE ResolveHit(w)
  BY <1>4, <1>5 DEF ResolveHit, At
<1>6. CASE WriteContact(w)
  BY <1>1, <1>6 DEF WriteContact, At
<1>7. CASE MarkConsumed(w)
  <2>1. c.pc = "mark" /\ (Goto(w, "last") \/ Goto(w, "delete"))
    BY <1>7 DEF MarkConsumed, At
  <2> QED BY <1>1, <1>7, <2>1
<1>8. CASE ResolveNone(w)
  BY <1>4, <1>8 DEF ResolveNone, At
<1>9. CASE Tell(w)
  BY <1>1, <1>9 DEF Tell, At
<1>10. CASE Delete(w)
  BY <1>10, <1>a DEF Delete, Idle
<1> QED BY <1>2, <1>3, <1>5, <1>6, <1>7, <1>8, <1>9, <1>10 DEF ScrapeStep

LEMMA OtherTurns ==
    ASSUME Typed, NEW a \in Workers
    PROVE  /\ Fails(a) => at'[a] = Idle
           /\ SendContact(a) => /\ at[a].pc = "contact" /\ at'[a].j = at[a].j /\ at'[a].msg = at[a].msg
                                /\ at'[a].pc = IF a \in Seeders THEN "next" ELSE "delete"
<1> DEFINE c == at[a]
<1>0. AtTyped /\ c \in Controls
  BY DEF Typed, AtTyped
<1>1. ASSUME Fails(a) PROVE at'[a] = Idle
  BY <1>0, <1>1, OthersStay DEF Fails
<1>2. ASSUME SendContact(a)
      PROVE  /\ c.pc = "contact" /\ at'[a].j = c.j /\ at'[a].msg = c.msg
             /\ at'[a].pc = IF a \in Seeders THEN "next" ELSE "delete"
  <2>1. at'[a] = [c EXCEPT !.pc = IF a \in Seeders THEN "next" ELSE "delete"]
    BY <1>0, <1>2, OthersStay DEF SendContact, Goto
  <2> QED BY <1>0, <1>2, <2>1 DEF SendContact, At, Controls
<1> QED BY <1>1, <1>2

-----------------------------------------------------------------------------
(* The table of targets only grows.                                        *)

\* What is written into a row, with what the writer knew.
LEMMA RowsChange ==
    ASSUME Typed, InTable, [Next]_vars, NEW j \in Jurisdictions
    PROVE  \/ target'[j] = target[j]
           \/ /\ ~target[j].exists /\ target[j] = NoRow /\ target'[j] = Fresh
              /\ \E o \in Seeders : InsertTarget(o) /\ at[o].j = j
           \/ /\ \/ \E o \in Seeders : ResolveKnown(o) /\ at[o].j = j
                 \/ \E w \in Scrapers : (ResolveHit(w) \/ ResolveNone(w)) /\ at[w].j = j
              /\ Wins(j) /\ target'[j] = [target[j] EXCEPT !.resolved = TRUE]
           \/ \E o \in Seeders :
                /\ SetCount(o) /\ at[o].j = j /\ target[j].exists
                /\ target'[j] = [target[j] EXCEPT !.enqueued = at[o].queries]
           \/ \E w \in Scrapers :
                /\ MarkConsumed(w) /\ at[w].j = j /\ target[j].exists
                /\ target'[j] = [target[j] EXCEPT !.consumed = @ \cup {at[w].msg.index}]
<1>0. AtTyped /\ TargetTyped
  BY DEF Typed
<1>1. ASSUME NEW a, NEW won, NEW lost, Decide(a, won, lost)
      PROVE  \/ target'[j] = target[j]
             \/ at[a].j = j /\ Wins(j) /\ target'[j] = [target[j] EXCEPT !.resolved = TRUE]
  BY <1>0, <1>1 DEF Decide, TargetTyped
<1>2. ASSUME NEW o \in Seeders, InsertTarget(o)
      PROVE  \/ target'[j] = target[j]
             \/ /\ ~target[j].exists /\ target[j] = NoRow /\ target'[j] = Fresh
                /\ at[o].j = j
  BY <1>0, <1>2 DEF InsertTarget, TargetTyped, InTable
<1>3. ASSUME NEW o \in Seeders, SetCount(o)
      PROVE  \/ target'[j] = target[j]
             \/ /\ at[o].j = j /\ target[j].exists
                /\ target'[j] = [target[j] EXCEPT !.enqueued = at[o].queries]
  BY <1>0, <1>3 DEF SetCount, At, TargetTyped, InTable
<1>4. ASSUME NEW w \in Scrapers, MarkConsumed(w)
      PROVE  \/ target'[j] = target[j]
             \/ /\ at[w].j = j /\ target[j].exists
                /\ target'[j] = [target[j] EXCEPT !.consumed = @ \cup {at[w].msg.index}]
  BY <1>0, <1>4 DEF MarkConsumed, At, TargetTyped, InTable
<1>5. ASSUME NEW o \in Seeders, ResolveKnown(o)
      PROVE  \/ target'[j] = target[j]
             \/ at[o].j = j /\ Wins(j) /\ target'[j] = [target[j] EXCEPT !.resolved = TRUE]
  BY <1>1, <1>5 DEF ResolveKnown
<1>6. ASSUME NEW w \in Scrapers, ResolveHit(w) \/ ResolveNone(w)
      PROVE  \/ target'[j] = target[j]
             \/ at[w].j = j /\ Wins(j) /\ target'[j] = [target[j] EXCEPT !.resolved = TRUE]
  BY <1>1, <1>6 DEF ResolveHit, ResolveNone
<1> QED BY <1>2, <1>3, <1>4, <1>5, <1>6, TargetWriters

LEMMA RowsGrow ==
    ASSUME Typed, InTable, [Next]_vars, NEW j \in Jurisdictions
    PROVE  /\ target[j].exists => target'[j].exists
           /\ target[j].resolved => target'[j].resolved
           /\ target[j].consumed \subseteq target'[j].consumed
           /\ target[j].enqueued > 0 => target'[j].enqueued > 0
<1>1. target[j] \in Rows /\ AtTyped
  BY DEF Typed, TargetTyped
<1>2. ASSUME NEW o \in Seeders, SetCount(o), at[o].j = j,
             target'[j] = [target[j] EXCEPT !.enqueued = at[o].queries]
      PROVE  /\ target'[j].exists = target[j].exists /\ target'[j].resolved = target[j].resolved
             /\ target'[j].consumed = target[j].consumed /\ target'[j].enqueued > 0
  <2>1. at[o].queries > 0
    BY <1>1, <1>2 DEF SetCount, At, AtTyped, SeederAt
  <2> QED BY <1>1, <1>2, <2>1 DEF Rows
<1>3. ASSUME NEW w \in Scrapers, target'[j] = [target[j] EXCEPT !.consumed = @ \cup {at[w].msg.index}]
      PROVE  /\ target'[j].exists = target[j].exists /\ target'[j].resolved = target[j].resolved
             /\ target[j].consumed \subseteq target'[j].consumed /\ target'[j].enqueued = target[j].enqueued
  BY <1>1, <1>3 DEF Rows
<1>4. ASSUME target'[j] = [target[j] EXCEPT !.resolved = TRUE]
      PROVE  /\ target'[j].exists = target[j].exists /\ target'[j].resolved
             /\ target[j].consumed = target'[j].consumed /\ target'[j].enqueued = target[j].enqueued
  BY <1>1, <1>4 DEF Rows
<1>5. ASSUME target[j] = NoRow
      PROVE  /\ ~target[j].exists /\ ~target[j].resolved /\ target[j].consumed = {} /\ ~(target[j].enqueued > 0)
  BY <1>5 DEF NoRow
<1> QED BY <1>2, <1>3, <1>4, <1>5, RowsChange

LEMMA InTableStep == Typed /\ InTable /\ [Next]_vars => InTable'
<1> SUFFICES ASSUME Typed, InTable, [Next]_vars PROVE InTable'
  OBVIOUS
<1>0. AtTyped /\ TargetTyped /\ msgs \subseteq Messages
  BY DEF Typed, QueueTyped
<1>1. \A j \in Jurisdictions : ~target'[j].exists => target'[j] = NoRow
  <2> SUFFICES ASSUME NEW j \in Jurisdictions, ~target'[j].exists PROVE target'[j] = NoRow
    OBVIOUS
  <2>1. ~target[j].exists /\ target[j] = NoRow
    BY RowsGrow DEF InTable
  <2> QED BY <2>1, RowsChange DEF Fresh, NoRow, Wins
<1>2. \A m \in msgs' : target'[m.j].exists
  <2>1. \A m \in msgs : m.j \in Jurisdictions /\ target'[m.j].exists
    BY <1>0, RowsGrow DEF InTable, Messages
  <2>2. ASSUME NEW o \in Seeders, SendQuery(o) PROVE \A m \in msgs' : target'[m.j].exists
    <3>1. at[o].j \in Jurisdictions /\ target'[at[o].j].exists
      BY <1>0, <2>2, InHand, RowsGrow DEF SendQuery, At, InTable
    <3> QED BY <2>1, <2>2, <3>1, SendIs
  <2>3. ASSUME NEW w \in Scrapers, Receive(w) PROVE \A m \in msgs' : target'[m.j].exists
    <3> PICK m \in msgs : Deliverable(m) /\ msgs' = (msgs \ {m}) \cup {[m EXCEPT !.receives = @ + 1]}
      BY <2>3 DEF Receive
    <3>1. [m EXCEPT !.receives = @ + 1].j = m.j
      BY <1>0, ReceivedIs
    <3> QED BY <2>1, <3>1
  <2>4. ASSUME NEW w \in Scrapers, Delete(w) PROVE \A m \in msgs' : target'[m.j].exists
    BY <2>1, <2>4 DEF Delete
  <2> QED BY <2>1, <2>2, <2>3, <2>4, QueueWriters DEF DeadLetter
<1>3. ASSUME NEW o \in Seeders, at'[o].pc \in {"resolve", "contact", "send", "count"}
      PROVE  target'[at'[o].j].exists
  <2>0. o \in Workers
    BY Apart
  <2>1. CASE at'[o] = at[o]
    <3>1. at[o].j \in Jurisdictions /\ target[at[o].j].exists
      BY <1>0, <1>3, <2>1, InHand DEF InTable
    <3> QED BY <2>1, <3>1, RowsGrow
  <2>2. CASE SeedStep(o)
    <3>1. CASE target'[at'[o].j].exists
      BY <3>1
    <3>2. CASE /\ at'[o].j = at[o].j /\ at[o].pc \in {"resolve", "send"}
      <4>1. at[o].j \in Jurisdictions /\ target[at[o].j].exists
        BY <1>0, <3>2, InHand DEF InTable
      <4> QED BY <3>2, <4>1, RowsGrow
    <3> QED BY <1>3, <2>2, <3>1, <3>2, SeederTurn DEF Resting, ResolveKnown, SendQuery, At
  <2>3. CASE SendContact(o) \/ Fails(o)
    BY <1>3, <2>0, <2>3, OtherTurns DEF Idle
  <2> QED BY <2>0, <2>1, <2>2, <2>3, Turns, Apart
<1>4. ASSUME NEW w \in Scrapers, at'[w].pc # "idle" PROVE target'[at'[w].j].exists
  <2>0. w \in Workers /\ w \notin Seeders
    BY Apart
  <2>1. CASE at'[w].j = at[w].j /\ at[w].pc # "idle"
    <3>1. at[w].j \in Jurisdictions /\ target[at[w].j].exists
      BY <1>0, <2>1, InHand DEF InTable
    <3> QED BY <2>1, <3>1, RowsGrow
  <2>2. CASE ScrapeStep(w)
    <3>1. ASSUME NEW m \in msgs, at'[w].j = m.j PROVE target'[at'[w].j].exists
      BY <1>0, <3>1, RowsGrow DEF InTable, Messages
    <3> QED BY <1>4, <2>1, <2>2, <3>1, ScraperTurn
  <2>3. CASE SendContact(w) \/ Fails(w)
    BY <1>4, <2>0, <2>1, <2>3, OtherTurns DEF Idle
  <2>4. CASE at'[w] = at[w]
    BY <1>4, <2>1, <2>4
  <2> QED BY <2>0, <2>2, <2>3, <2>4, Turns
<1> QED BY <1>1, <1>2, <1>3, <1>4 DEF InTable

-----------------------------------------------------------------------------
(* One outcome per target.                                                 *)

\* The step in which an actor decides a target.
Decides(a) == \/ a \in Seeders /\ ResolveKnown(a)
              \/ a \in Scrapers /\ (ResolveHit(a) \/ ResolveNone(a))

\* The step in which an actor hands the outcome on.
Delivers(a) == SendContact(a) \/ (a \in Scrapers /\ Tell(a))

LEMMA DecidesOnly ==
    ASSUME Typed, NEW a \in Workers, Decides(a)
    PROVE  /\ UNCHANGED <<outcome, faults>>
           /\ \A b \in Workers : b # a => at'[b] = at[b]
           /\ Wins(at[a].j) => /\ target' = [target EXCEPT ![at[a].j].resolved = TRUE]
                               /\ at'[a].j = at[a].j /\ at'[a].pc \in {"write", "contact", "tell"}
           /\ ~Wins(at[a].j) => UNCHANGED target /\ at'[a].pc \notin {"write", "contact", "tell"}
<1>0. AtTyped /\ at[a] \in Controls
  BY DEF Typed, AtTyped
<1>1. ASSUME NEW won \in {"write", "contact", "tell"}, NEW lost \in {"next", "delete"}, Decide(a, won, lost)
      PROVE  /\ \A b \in Workers : b # a => at'[b] = at[b]
             /\ Wins(at[a].j) => /\ target' = [target EXCEPT ![at[a].j].resolved = TRUE]
                                 /\ at'[a].j = at[a].j /\ at'[a].pc \in {"write", "contact", "tell"}
             /\ ~Wins(at[a].j) => UNCHANGED target /\ at'[a].pc \notin {"write", "contact", "tell"}
  <2>1. ASSUME NEW pc, Goto(a, pc)
        PROVE  /\ \A b \in Workers : b # a => at'[b] = at[b]
               /\ at'[a].j = at[a].j /\ at'[a].pc = pc
    <3>1. at'[a] = [at[a] EXCEPT !.pc = pc] /\ \A b \in Workers : b # a => at'[b] = at[b]
      BY <1>0, <2>1, OthersStay DEF Goto
    <3> QED BY <1>0, <3>1 DEF Controls
  <2> QED BY <1>1, <2>1 DEF Decide
<1>2. CASE a \in Seeders /\ ResolveKnown(a)
  BY <1>1, <1>2 DEF ResolveKnown, NoFault
<1>3. CASE a \in Scrapers /\ ResolveHit(a)
  BY <1>1, <1>3 DEF ResolveHit, NoFault
<1>4. CASE a \in Scrapers /\ ResolveNone(a)
  BY <1>1, <1>4 DEF ResolveNone, NoFault
<1> QED BY <1>2, <1>3, <1>4 DEF Decides

LEMMA DeliversOnly ==
    ASSUME Typed, NEW a \in Workers, Delivers(a)
    PROVE  /\ Owns(a, at[a].j) /\ at[a].j \in Jurisdictions
           /\ UNCHANGED <<target, faults>>
           /\ \A b \in Workers : b # a => at'[b] = at[b]
           /\ at'[a].pc \notin {"write", "contact", "tell"}
           /\ \A j \in Jurisdictions :
                sent'[j] + told'[j] = IF j = at[a].j THEN sent[j] + told[j] + 1 ELSE sent[j] + told[j]
<1>0. AtTyped /\ at[a] \in Controls /\ CampaignTyped
  BY DEF Typed, AtTyped
<1>1. at[a].pc \in {"contact", "tell"} /\ at[a].j \in Jurisdictions
  BY <1>0, InHand DEF Delivers, SendContact, Tell, At, Workers
<1>2. ASSUME NEW pc \in {"next", "delete"}, Goto(a, pc)
      PROVE  /\ \A b \in Workers : b # a => at'[b] = at[b]
             /\ at'[a].pc \notin {"write", "contact", "tell"}
  <2>1. at'[a] = [at[a] EXCEPT !.pc = pc] /\ \A b \in Workers : b # a => at'[b] = at[b]
    BY <1>0, <1>2, OthersStay DEF Goto
  <2> QED BY <1>0, <2>1 DEF Controls
<1>3. sent \in [Jurisdictions -> Nat] /\ told \in [Jurisdictions -> Nat]
  BY <1>0 DEF CampaignTyped
<1>4. ASSUME SendContact(a)
      PROVE  \A j \in Jurisdictions :
               sent'[j] + told'[j] = IF j = at[a].j THEN sent[j] + told[j] + 1 ELSE sent[j] + told[j]
  <2>1. \A j \in Jurisdictions : sent'[j] = IF j = at[a].j THEN sent[j] + 1 ELSE sent[j]
    BY <1>1, <1>3, <1>4, OneMoreTyped DEF SendContact
  <2>2. told' = told
    BY <1>4 DEF SendContact
  <2> QED BY <1>3, <2>1, <2>2
<1>5. ASSUME Tell(a)
      PROVE  \A j \in Jurisdictions :
               sent'[j] + told'[j] = IF j = at[a].j THEN sent[j] + told[j] + 1 ELSE sent[j] + told[j]
  <2>1. \A j \in Jurisdictions : told'[j] = IF j = at[a].j THEN told[j] + 1 ELSE told[j]
    BY <1>1, <1>3, <1>5, OneMoreTyped DEF Tell
  <2>2. sent' = sent
    BY <1>5 DEF Tell
  <2> QED BY <1>3, <2>1, <2>2
<1>6. UNCHANGED <<target, faults>> /\ \E pc \in {"next", "delete"} : Goto(a, pc)
  BY DEF Delivers, SendContact, Tell, NoFault
<1> QED BY <1>1, <1>2, <1>4, <1>5, <1>6 DEF Delivers, Owns

\* Who takes over an outcome has just decided the target; who lets one go hands it on, or fails.
LEMMA OwnersChange ==
    ASSUME Typed, [Next]_vars, NEW a \in Workers, NEW j \in Jurisdictions
    PROVE  /\ Owns(a, j)' => Owns(a, j) \/ (Decides(a) /\ at[a].j = j /\ Wins(j))
           /\ Owns(a, j) /\ ~Owns(a, j)' => (Delivers(a) \/ Fails(a))
<1>0. AtTyped
  BY DEF Typed
<1>1. CASE at'[a] = at[a]
  BY <1>1 DEF Owns
<1>2. CASE a \in Seeders /\ SeedStep(a)
  <2>1. at[a].pc \notin {"write", "contact", "tell"}
    <3>1. at[a].pc # "contact"
      BY <1>2 DEF SeedStep, SeedStart, Census, InsertState, InsertPlace, Scope, FindTarget, InsertTarget,
                  ResolveKnown, SendQuery, SetCount, SetSeeded, At
    <3> QED BY <1>0, <1>2, <3>1 DEF AtTyped, SeederAt
  <2>2. at'[a].pc \in {"write", "contact", "tell"} =>
          ResolveKnown(a) /\ Wins(at[a].j) /\ at'[a].j = at[a].j
    BY <1>2, SeederTurn DEF Resting
  <2> QED BY <1>2, <2>1, <2>2 DEF Owns, Decides
<1>3. CASE a \in Scrapers /\ ScrapeStep(a)
  <2>1. ASSUME at'[a].pc \in {"write", "contact", "tell"}
        PROVE  at'[a].j = at[a].j /\ ((Decides(a) /\ Wins(at[a].j)) \/ at[a].pc = "write")
    BY <1>3, <2>1, ScraperTurn DEF Decides, WriteContact, At
  <2>2. ASSUME at[a].pc \in {"write", "contact", "tell"}
        PROVE  Tell(a) \/ (at'[a].pc = "contact" /\ at'[a].j = at[a].j)
    <3>1. Tell(a) \/ WriteContact(a)
      BY <1>3, <2>2 DEF ScrapeStep, Receive, Search, ResolveHit, WriteContact, MarkConsumed, ResolveNone,
                        Delete, At
    <3>2. ASSUME WriteContact(a) PROVE at'[a].pc = "contact" /\ at'[a].j = at[a].j
      <4>1. at'[a] = [at[a] EXCEPT !.pc = "contact"]
        BY <1>0, <3>2, OthersStay DEF WriteContact, Goto
      <4> QED BY <1>0, <4>1 DEF AtTyped, Controls
    <3> QED BY <3>1, <3>2
  <2> QED BY <1>3, <2>1, <2>2 DEF Owns, Delivers
<1>4. CASE SendContact(a) \/ Fails(a)
  BY <1>4, OtherTurns DEF Owns, Delivers, Idle
<1> QED BY <1>1, <1>2, <1>3, <1>4, Turns

LEMMA OneOwnerInit == Init => OneOwner
BY DEF Init, OneOwner, OutcomeOnce, Owns, Workers, Idle, NoRow

\* The invariant of one target.
OwnedOnce(j) ==
    /\ sent[j] + told[j] <= 1
    /\ sent[j] + told[j] = 1 => target[j].resolved
    /\ target[j].resolved => sent[j] + told[j] = 1 \/ (\E a \in Workers : Owns(a, j)) \/ faults > 0
    /\ \A a \in Workers : Owns(a, j) =>
          /\ target[j].resolved /\ sent[j] + told[j] = 0
          /\ \A b \in Workers : Owns(b, j) => b = a
LEMMA OwnedOnceIs == OneOwner <=> \A j \in Jurisdictions : OwnedOnce(j)
BY DEF OneOwner, OutcomeOnce, OwnedOnce, Owns, Workers

LEMMA OwnedOnceIsThen == OneOwner' <=> \A j \in Jurisdictions : OwnedOnce(j)'
BY DEF OneOwner, OutcomeOnce, OwnedOnce, Owns, Workers

LEMMA OneOwnerStep == Typed /\ InTable /\ OneOwner /\ [Next]_vars => OneOwner'
<1> SUFFICES ASSUME Typed, InTable, OneOwner, [Next]_vars, NEW j \in Jurisdictions PROVE OwnedOnce(j)'
  BY OwnedOnceIsThen
<1>0. OwnedOnce(j)
  BY OwnedOnceIs
<1>1. sent[j] \in Nat /\ told[j] \in Nat /\ faults \in Nat /\ target[j].resolved \in BOOLEAN
  BY ParamAssumption DEF Typed, CampaignTyped, TargetTyped, Rows
<1>2. ASSUME NEW a \in Workers, Decides(a), at[a].j = j, Wins(j)
      PROVE  OwnedOnce(j)'
  <2>1. sent' = sent /\ told' = told /\ faults' = faults /\ target'[j].resolved
    <3>1. UNCHANGED <<outcome, faults>> /\ target' = [target EXCEPT ![j].resolved = TRUE]
      BY <1>2, DecidesOnly
    <3> QED BY <3>1 DEF outcome, Typed, TargetTyped, Rows
  <2>2. ~target[j].resolved /\ \A b \in Workers : ~Owns(b, j)
    BY <1>0, <1>2 DEF Wins, OwnedOnce
  <2>3. sent[j] + told[j] = 0
    BY <1>0, <1>1, <2>2 DEF OwnedOnce
  <2>4. \A b \in Workers : Owns(b, j)' <=> b = a
    BY <1>2, <2>2, DecidesOnly DEF Owns
  <2> QED BY <2>1, <2>3, <2>4 DEF OwnedOnce
<1>3. ASSUME NEW a \in Workers, Delivers(a), at[a].j = j
      PROVE  OwnedOnce(j)'
  <2>1. Owns(a, j) /\ target' = target /\ faults' = faults
    BY <1>3, DeliversOnly
  <2>2. target[j].resolved /\ sent[j] + told[j] = 0 /\ \A b \in Workers : Owns(b, j) => b = a
    BY <1>0, <2>1 DEF OwnedOnce
  <2>3. sent'[j] + told'[j] = 1
    BY <1>1, <1>3, <2>2, DeliversOnly
  <2>4. \A b \in Workers : ~Owns(b, j)'
    BY <1>3, <2>2, DeliversOnly DEF Owns
  <2> QED BY <2>1, <2>2, <2>3, <2>4 DEF OwnedOnce
<1>4. ASSUME \A a \in Workers : at[a].j = j => ~(Decides(a) /\ Wins(j)) /\ ~Delivers(a)
      PROVE  OwnedOnce(j)'
  <2>1. sent'[j] + told'[j] = sent[j] + told[j]
    <3>1. CASE UNCHANGED outcome
      BY <3>1 DEF outcome
    <3>2. ASSUME NEW a \in Workers, Delivers(a) PROVE sent'[j] + told'[j] = sent[j] + told[j]
      BY <1>4, <3>2, DeliversOnly
    <3> QED BY <3>1, <3>2, OutcomeWriters DEF Delivers, Workers
  <2>2. target'[j].resolved = target[j].resolved
    <3>1. target[j] \in Rows
      BY DEF Typed, TargetTyped
    <3>2. \/ target'[j] = target[j]
          \/ target[j] = NoRow /\ target'[j] = Fresh
          \/ \E n : target'[j] = [target[j] EXCEPT !.enqueued = n]
          \/ \E S : target'[j] = [target[j] EXCEPT !.consumed = S]
      BY <1>4, RowsChange DEF Decides, Workers
    <3> QED BY <3>1, <3>2 DEF Rows, Fresh, NoRow
  <2>3. \A a \in Workers : Owns(a, j)' => Owns(a, j)
    BY <1>4, OwnersChange
  <2>4. \A a \in Workers : Owns(a, j) /\ ~Owns(a, j)' => Fails(a)
    BY <1>4, OwnersChange DEF Owns
  <2>5. faults' >= faults /\ \A a \in Workers : Fails(a) => faults' > 0
    <3>1. UNCHANGED faults \/ Fault
      BY OutcomeWriters DEF Receive, Fails, SetActive, NoFault
    <3> QED BY <1>1, <3>1 DEF Fault, Fails
  <2>6. (\E a \in Workers : Owns(a, j)) => (\E a \in Workers : Owns(a, j)') \/ faults' > 0
    BY <2>4, <2>5
  <2>7. faults > 0 => faults' > 0
    <3>1. UNCHANGED faults \/ Fault
      BY OutcomeWriters DEF Receive, Fails, SetActive, NoFault
    <3> QED BY <1>1, <3>1 DEF Fault
  <2> QED BY <1>0, <2>1, <2>2, <2>3, <2>6, <2>7 DEF OwnedOnce
<1> QED BY <1>2, <1>3, <1>4

\* An office gets at most one outcome: at most one address to the sender or one escalation, and
\* only once it is resolved; a resolved one lacks it only in someone's hands or after a fault.
\* Any number of seed passes and scrapers may work on it, and its queries may come again.
THEOREM OutcomesAreSingle == Spec => []OutcomeOnce
<1>1. Init => Typed /\ InTable /\ OneOwner
  <2>1. Init => InTable
    BY DEF Init, InTable, NoRow, Idle
  <2> QED BY <2>1, InitTyped, OneOwnerInit
<1>2. Typed /\ InTable /\ OneOwner /\ [Next]_vars => (Typed /\ InTable /\ OneOwner)'
  BY TypedStep, InTableStep, OneOwnerStep
<1>3. OneOwner => OutcomeOnce
  BY DEF OneOwner
<1> QED BY <1>1, <1>2, <1>3, PTL DEF Spec

-----------------------------------------------------------------------------
(* Queries that are used up.                                               *)

\* What is known of a message in hand, and of a deleter's.
LEMMA HandsTyped ==
    ASSUME Typed, NEW w \in Scrapers, at[w].pc # "idle"
    PROVE  /\ at[w].msg \in Messages /\ at[w].j = at[w].msg.j /\ at[w].j \in Jurisdictions
           /\ at[w].msg.index \in Indexes /\ at[w] \in Controls
BY InHand, Apart DEF Typed, AtTyped, Messages

LEMMA MarkedIs ==
    ASSUME Typed, NEW w \in Scrapers, MarkConsumed(w)
    PROVE  /\ at[w].pc = "mark" /\ at'[w].j = at[w].j /\ at'[w].msg = at[w].msg
           /\ \A b \in Scrapers : b # w => at'[b] = at[b]
           /\ at'[w].pc = IF Last(target'[at[w].j]) THEN "last" ELSE "delete"
           /\ target'[at[w].j] = [target[at[w].j] EXCEPT !.consumed = @ \cup {at[w].msg.index}]
           /\ at[w].msg.index \in target'[at[w].j].consumed
           /\ target[at[w].j].enqueued = 0 => at[w].j \in early'
           /\ UNCHANGED <<msgs, dead>>
<1> DEFINE c == at[w]
           row == [target[c.j] EXCEPT !.consumed = @ \cup {c.msg.index}]
<1>1. c.pc = "mark"
  BY DEF MarkConsumed, At
<1>2. c.j \in Jurisdictions /\ c \in Controls /\ target[c.j] \in Rows /\ w \in Workers /\ AtTyped
  BY <1>1, HandsTyped, Apart DEF Typed, TargetTyped
<1>3. target' = [target EXCEPT ![c.j] = row] /\ UNCHANGED <<msgs, dead>>
  BY DEF MarkConsumed
<1>4. target'[c.j] = row
  BY <1>2, <1>3 DEF Typed, TargetTyped
<1>5. row.enqueued = target[c.j].enqueued /\ c.msg.index \in row.consumed
  BY <1>2 DEF Rows
<1>6. Become(w, [c EXCEPT !.pc = IF Last(row) THEN "last" ELSE "delete"])
  BY DEF MarkConsumed, Goto
<1>7. early' = IF row.enqueued = 0 THEN early \cup {c.j} ELSE early
  BY DEF MarkConsumed
<1> HIDE DEF row
<1>8. at'[w] = [c EXCEPT !.pc = IF Last(row) THEN "last" ELSE "delete"]
      /\ \A b \in Scrapers : b # w => at'[b] = at[b]
  BY <1>2, <1>6, OthersStay, Apart
<1>9. at'[w].j = c.j /\ at'[w].msg = c.msg /\ at'[w].pc = IF Last(row) THEN "last" ELSE "delete"
  BY <1>2, <1>8 DEF Controls
<1>10. target'[c.j] = [target[c.j] EXCEPT !.consumed = @ \cup {c.msg.index}]
  BY <1>4 DEF row
<1> QED BY <1>1, <1>3, <1>4, <1>5, <1>7, <1>8, <1>9, <1>10

\* A message of the queue, before and after a step: what goes is a deleter's or a dead letter.
LEMMA MessagesStay ==
    ASSUME Typed, [Next]_vars, NEW m \in msgs
    PROVE  \/ \E n \in msgs' : Same(m, n)
           \/ \E w \in Scrapers : at[w].pc = "delete" /\ Same(m, at[w].msg)
           \/ m.j \in dead'
<1>0. msgs \subseteq Messages
  BY DEF Typed, QueueTyped
<1>1. CASE UNCHANGED msgs
  BY <1>1 DEF Same
<1>2. ASSUME NEW o \in Seeders, SendQuery(o) PROVE m \in msgs'
  BY <1>2 DEF SendQuery
<1>3. ASSUME NEW w \in Scrapers, Receive(w) PROVE \E n \in msgs' : Same(m, n)
  <2> PICK r \in msgs : Deliverable(r) /\ msgs' = (msgs \ {r}) \cup {[r EXCEPT !.receives = @ + 1]}
    BY <1>3 DEF Receive
  <2>1. Same(r, [r EXCEPT !.receives = @ + 1])
    BY <1>0, ReceivedIs DEF Same
  <2>2. CASE m = r
    BY <2>1, <2>2
  <2>3. CASE m # r
    <3>1. m \in msgs'
      BY <2>3
    <3> QED BY <3>1 DEF Same
  <2> QED BY <2>2, <2>3
<1>4. ASSUME NEW w \in Scrapers, Delete(w)
      PROVE  m \in msgs' \/ (at[w].pc = "delete" /\ Same(m, at[w].msg))
  BY <1>4 DEF Delete, At
<1>5. CASE DeadLetter
  <2>1. m \in msgs' \/ m.j \in dead'
    BY <1>5 DEF DeadLetter
  <2> QED BY <2>1 DEF Same
<1>6. Same(m, m)
  BY DEF Same
<1> QED BY <1>1, <1>2, <1>3, <1>4, <1>5, <1>6, QueueWriters

\* Who is about to delete a message found the target decided, marked its index, or was there before.
LEMMA DeletersChange ==
    ASSUME Typed, InTable, OneOwner, [Next]_vars, NEW w \in Scrapers, at'[w].pc = "delete"
    PROVE  \/ at'[w].j \in Jurisdictions /\ target'[at'[w].j].resolved
           \/ at[w].pc = "delete" /\ at'[w] = at[w]
           \/ MarkConsumed(w) /\ at'[w].j = at[w].j /\ at'[w].msg = at[w].msg
<1>0. w \in Workers /\ w \notin Seeders /\ AtTyped
  BY Apart DEF Typed
<1>1. CASE at'[w] = at[w]
  BY <1>1
<1>2. ASSUME at[w].pc # "idle", at'[w].j = at[w].j, target[at[w].j].resolved
      PROVE  at'[w].j \in Jurisdictions /\ target'[at'[w].j].resolved
  BY <1>2, HandsTyped, RowsGrow
<1>3. ASSUME at[w].pc \in {"contact", "tell"}
      PROVE  target[at[w].j].resolved
  <2>1. Owns(w, at[w].j) /\ at[w].j \in Jurisdictions
    BY <1>3, HandsTyped DEF Owns
  <2> QED BY <1>0, <2>1 DEF OneOwner
<1>4. CASE ScrapeStep(w)
  <2>1. ASSUME Tell(w) PROVE at[w].pc = "tell"
    BY <2>1 DEF Tell, At
  <2>2. at[w].pc # "idle" => target[at[w].j].exists
    BY DEF InTable
  <2>3. /\ at[w].pc # "idle" /\ at'[w].j = at[w].j /\ at'[w].msg = at[w].msg
        /\ Tell(w) \/ MarkConsumed(w) \/ target[at[w].j].resolved
    BY <1>4, <2>2, ScraperTurn
  <2> QED BY <1>2, <1>3, <2>1, <2>3
<1>5. CASE SendContact(w)
  <2>1. at[w].pc = "contact" /\ at'[w].j = at[w].j
    BY <1>0, <1>5, OtherTurns
  <2> QED BY <1>2, <1>3, <2>1
<1>6. CASE Fails(w)
  BY <1>0, <1>6, OtherTurns DEF Idle
<1> QED BY <1>0, <1>1, <1>4, <1>5, <1>6, Turns

\* The parts of UsedUp.
Counted == \A j \in Jurisdictions : \A k \in Indexes : k < target[j].enqueued => Accounted(j, k)
Sending == \A o \in Seeders : at[o].pc \in {"send", "count"} =>
              \A k \in Indexes : k < at[o].next => Accounted(at[o].j, k)
Deleting == \A w \in Scrapers : at[w].pc = "delete" =>
               target[at[w].j].resolved \/ at[w].msg.index \in target[at[w].j].consumed
Uncounted == \A j \in Jurisdictions : target[j].enqueued = 0 /\ target[j].consumed # {} => j \in early
Keeping == \A j \in Jurisdictions : target[j].enqueued > 0 /\ ~Settled(j) => Kept(j)
LEMMA UsedUpIs == UsedUp <=> Counted /\ Sending /\ Deleting /\ Uncounted /\ Keeping
BY DEF UsedUp, Counted, Sending, Deleting, Uncounted, Keeping

LEMMA SettledStays ==
    ASSUME Typed, InTable, [Next]_vars, NEW j \in Jurisdictions, Settled(j)
    PROVE  Settled(j)'
<1>1. target[j].resolved => target'[j].resolved
  BY RowsGrow
<1>2. dead \subseteq dead' /\ early \subseteq early'
  BY OutcomeWriters DEF DeadLetter, MarkConsumed
<1> QED BY <1>1, <1>2 DEF Settled

LEMMA AccountedStays ==
    ASSUME Typed, InTable, Deleting, [Next]_vars, NEW j \in Jurisdictions, NEW k \in Indexes, Accounted(j, k)
    PROVE  Accounted(j, k)'
<1>1. CASE k \in target[j].consumed
  BY <1>1, RowsGrow DEF Accounted
<1>2. CASE Settled(j)
  BY <1>2, SettledStays DEF Accounted
<1>3. ASSUME NEW m \in msgs, m.j = j, m.index = k PROVE Accounted(j, k)'
  <2>1. CASE \E n \in msgs' : Same(m, n)
    BY <1>3, <2>1 DEF Same, Accounted
  <2>2. ASSUME NEW w \in Scrapers, at[w].pc = "delete", Same(m, at[w].msg) PROVE Accounted(j, k)'
    <3>1. at[w].j = j /\ at[w].msg.index = k
      BY <1>3, <2>2, HandsTyped DEF Same
    <3>2. target[j].resolved \/ k \in target[j].consumed
      BY <2>2, <3>1 DEF Deleting
    <3> QED BY <1>1, <1>2, <3>2 DEF Settled
  <2>3. CASE m.j \in dead'
    BY <1>3, <2>3 DEF Accounted, Settled
  <2> QED BY <2>1, <2>2, <2>3, MessagesStay
<1> QED BY <1>1, <1>2, <1>3 DEF Accounted

LEMMA DeletingStep == Typed /\ InTable /\ OneOwner /\ Deleting /\ [Next]_vars => Deleting'
<1> SUFFICES ASSUME Typed, InTable, OneOwner, Deleting, [Next]_vars, NEW w \in Scrapers, at'[w].pc = "delete"
             PROVE  target'[at'[w].j].resolved \/ at'[w].msg.index \in target'[at'[w].j].consumed
  BY DEF Deleting
<1>1. CASE at[w].pc = "delete" /\ at'[w] = at[w]
  <2>1. at[w].j \in Jurisdictions
    BY <1>1, HandsTyped
  <2> QED BY <1>1, <2>1, RowsGrow DEF Deleting
<1>2. CASE MarkConsumed(w) /\ at'[w].j = at[w].j /\ at'[w].msg = at[w].msg
  BY <1>2, MarkedIs
<1> QED BY <1>1, <1>2, DeletersChange

LEMMA CountedStep == Typed /\ InTable /\ Counted /\ Sending /\ Deleting /\ [Next]_vars => Counted'
<1> SUFFICES ASSUME Typed, InTable, Counted, Sending, Deleting, [Next]_vars,
                    NEW j \in Jurisdictions, NEW k \in Indexes, k < target'[j].enqueued
             PROVE  Accounted(j, k)'
  BY DEF Counted
<1>1. target[j] \in Rows /\ k \in Nat
  BY DEF Typed, TargetTyped, Indexes
<1>2. CASE target'[j].enqueued = target[j].enqueued
  BY <1>2, AccountedStays DEF Counted
<1>3. CASE target'[j] = Fresh
  BY <1>1, <1>3 DEF Fresh, NoRow
<1>4. ASSUME NEW o \in Seeders, SetCount(o), at[o].j = j,
             target'[j] = [target[j] EXCEPT !.enqueued = at[o].queries]
      PROVE  Accounted(j, k)'
  <2>1. target'[j].enqueued = at[o].queries /\ at[o].pc = "count" /\ at[o].next = at[o].queries
    BY <1>1, <1>4, Apart DEF SetCount, At, Rows, Typed, AtTyped, SeederAt
  <2>2. Accounted(j, k)
    BY <1>4, <2>1 DEF Sending
  <2> QED BY <2>2, AccountedStays
<1> QED BY <1>1, <1>2, <1>3, <1>4, RowsChange DEF Rows

LEMMA SendingStep == Typed /\ InTable /\ Sending /\ Deleting /\ [Next]_vars => Sending'
<1> SUFFICES ASSUME Typed, InTable, Sending, Deleting, [Next]_vars,
                    NEW o \in Seeders, at'[o].pc \in {"send", "count"},
                    NEW k \in Indexes, k < at'[o].next, NEW j, j = at'[o].j
             PROVE  Accounted(j, k)'
  BY DEF Sending
<1>0. o \in Workers /\ AtTyped /\ k \in Nat
  BY Apart DEF Typed, Indexes
<1>1. ASSUME at[o].pc \in {"send", "count"}, at'[o].j = at[o].j, k < at[o].next
      PROVE  Accounted(j, k)'
  <2>1. j \in Jurisdictions /\ Accounted(j, k)
    BY <1>0, <1>1, InHand DEF Sending
  <2> QED BY <2>1, AccountedStays
<1>2. CASE SeedStep(o)
  <2>1. CASE at'[o].pc = "send" /\ at'[o].next = 0
    BY <1>0, <2>1
  <2>2. CASE SendQuery(o) /\ at'[o].j = at[o].j /\ at'[o].next = at[o].next + 1
    <3>1. at[o].pc = "send" /\ at[o].next \in Nat /\ at[o].j \in Jurisdictions
      BY <1>0, <2>2, InHand, ParamAssumption DEF SendQuery, At, AtTyped, Controls
    <3>2. CASE k < at[o].next
      BY <1>1, <2>2, <3>1, <3>2
    <3>3. CASE k = at[o].next
      <4>1. \E m \in msgs' : m.j = j /\ m.index = k
        BY <2>2, <3>3, SendIs
      <4> QED BY <2>2, <4>1 DEF Accounted
    <3> QED BY <1>0, <2>2, <3>1, <3>2, <3>3
  <2> QED BY <1>2, <2>1, <2>2, SeederTurn DEF Resting
<1>3. CASE SendContact(o) \/ Fails(o)
  BY <1>0, <1>3, OtherTurns DEF Idle
<1>4. CASE at'[o] = at[o]
  BY <1>1, <1>4
<1> QED BY <1>0, <1>2, <1>3, <1>4, Turns, Apart

LEMMA UncountedStep == Typed /\ InTable /\ Uncounted /\ [Next]_vars => Uncounted'
<1> SUFFICES ASSUME Typed, InTable, Uncounted, [Next]_vars,
                    NEW j \in Jurisdictions, target'[j].enqueued = 0, target'[j].consumed # {}
             PROVE  j \in early'
  BY DEF Uncounted
<1>1. target[j] \in Rows /\ target[j].enqueued = 0
  <2>1. target[j] \in Rows
    BY DEF Typed, TargetTyped
  <2> QED BY <2>1, RowsGrow, ParamAssumption DEF Rows
<1>2. early \subseteq early'
  BY OutcomeWriters DEF MarkConsumed
<1>3. ASSUME target'[j].consumed = target[j].consumed PROVE j \in early'
  BY <1>1, <1>2, <1>3 DEF Uncounted
<1>4. ASSUME NEW w \in Scrapers, MarkConsumed(w), at[w].j = j PROVE j \in early'
  BY <1>1, <1>4, MarkedIs
<1>5. target'[j] # Fresh
  BY DEF Fresh, NoRow
<1> QED BY <1>1, <1>3, <1>4, <1>5, RowsChange DEF Rows

\* An index that is counted but not consumed has a message nobody is about to delete.
LEMMA KeptIfLeft ==
    ASSUME Typed, Counted, Deleting, NEW j \in Jurisdictions, ~Settled(j),
           NEW k \in Indexes, k < target[j].enqueued, k \notin target[j].consumed
    PROVE  Kept(j)
<1>1. PICK m \in msgs : m.j = j /\ m.index = k
  BY DEF Counted, Accounted
<1>2. ASSUME NEW w \in Scrapers, at[w].pc = "delete", Same(m, at[w].msg) PROVE FALSE
  <2>1. at[w].j = j /\ at[w].msg.index = k
    BY <1>1, <1>2, HandsTyped DEF Same
  <2> QED BY <1>2, <2>1 DEF Deleting, Settled
<1> QED BY <1>1, <1>2 DEF Kept

LEMMA KeptIfLeftThen ==
    ASSUME Typed', Counted', Deleting', NEW j \in Jurisdictions, ~Settled(j)',
           NEW k \in Indexes, k < target'[j].enqueued, k \notin target'[j].consumed
    PROVE  Kept(j)'
<1>1. PICK m \in msgs' : m.j = j /\ m.index = k
  BY DEF Counted, Accounted
<1>2. ASSUME NEW w \in Scrapers, at'[w].pc = "delete", Same(m, at'[w].msg) PROVE FALSE
  <2>1. at'[w].j = at'[w].msg.j
    BY <1>2 DEF Typed, AtTyped, ScraperAt
  <2>2. at'[w].j = j /\ at'[w].msg.index = k
    BY <1>1, <1>2, <2>1 DEF Same
  <2> QED BY <1>2, <2>2 DEF Deleting, Settled
<1> QED BY <1>1, <1>2 DEF Kept

LEMMA KeepingStep ==
    Typed /\ InTable /\ OneOwner /\ UsedUp /\ [Next]_vars /\ Typed' /\ Counted' /\ Deleting' => Keeping'
<1> SUFFICES ASSUME Typed, InTable, OneOwner, UsedUp, [Next]_vars, Typed', Counted', Deleting',
                    NEW j \in Jurisdictions, target'[j].enqueued > 0, ~Settled(j)'
             PROVE  Kept(j)'
  BY DEF Keeping
<1>0. ~Settled(j) /\ ~target'[j].resolved
  BY SettledStays DEF Settled
<1>1. target[j] \in Rows /\ target'[j] \in Rows
  BY DEF Typed, TargetTyped
<1>2. CASE target[j].enqueued = 0
  <2>1. target[j].consumed = {}
    <3>1. early \subseteq early'
      BY OutcomeWriters DEF MarkConsumed
    <3> QED BY <1>0, <1>2, <3>1, UsedUpIs DEF Uncounted, Settled
  <2>2. target'[j].consumed = {}
    <3>1. ASSUME NEW w \in Scrapers, MarkConsumed(w), at[w].j = j PROVE FALSE
      BY <1>2, <3>1, MarkedIs DEF Settled
    <3> QED BY <1>1, <2>1, <3>1, RowsChange DEF Fresh, NoRow, Rows
  <2>3. 0 \in Indexes
    BY ParamAssumption DEF Indexes
  <2> QED BY <2>2, <2>3, KeptIfLeftThen
<1>3. ASSUME NEW w \in Scrapers, MarkConsumed(w), at[w].j = j, ~Last(target'[j]) PROVE Kept(j)'
  <2>1. target'[j].consumed \in SUBSET Indexes /\ target'[j].enqueued \in 0 .. MaxQueries
    BY <1>1 DEF Rows
  <2>2. IsFiniteSet(target'[j].consumed)
    <3>1. IsFiniteSet(Indexes)
      BY ParamAssumption, FS_Interval DEF Indexes
    <3> QED BY <2>1, <3>1, FS_Subset
  <2>3. Cardinality(target'[j].consumed) \in Nat
    BY <2>2, FS_CardinalityType
  <2>4. Cardinality(target'[j].consumed) < target'[j].enqueued
    BY <1>3, <2>1, <2>3, ParamAssumption DEF Last
  <2>5. \E k \in Indexes : k < target'[j].enqueued /\ k \notin target'[j].consumed
    BY <2>1, <2>4, OneIsLeft
  <2> QED BY <2>5, KeptIfLeftThen
<1>4. ASSUME target[j].enqueued > 0,
             \A w \in Scrapers : MarkConsumed(w) /\ at[w].j = j => Last(target'[j])
      PROVE  Kept(j)'
  <2>1. PICK m \in msgs : m.j = j /\ \A w \in Scrapers : at[w].pc = "delete" => ~Same(m, at[w].msg)
    BY <1>0, <1>4, UsedUpIs DEF Keeping, Kept
  <2>2. PICK n \in msgs' : Same(m, n)
    BY <1>0, <2>1, MessagesStay DEF Settled
  <2>3. n.j = j
    BY <2>1, <2>2 DEF Same
  <2>4. ASSUME NEW w \in Scrapers, at'[w].pc = "delete", Same(n, at'[w].msg) PROVE FALSE
    <3>1. at'[w].j = at'[w].msg.j
      BY <2>4 DEF Typed, AtTyped, ScraperAt
    <3>2. at'[w].j = j
      BY <2>3, <2>4, <3>1 DEF Same
    <3>3. CASE at[w].pc = "delete" /\ at'[w] = at[w]
      BY <2>1, <2>2, <2>4, <3>3 DEF Same
    <3>4. CASE MarkConsumed(w) /\ at'[w].j = at[w].j /\ at'[w].msg = at[w].msg
      BY <1>4, <2>4, <3>2, <3>4, MarkedIs
    <3> QED BY <1>0, <2>4, <3>2, <3>3, <3>4, DeletersChange
  <2> QED BY <2>2, <2>3, <2>4 DEF Kept
<1>5. target[j].enqueued = 0 \/ target[j].enqueued > 0
  BY <1>1, ParamAssumption DEF Rows
<1> QED BY <1>2, <1>3, <1>4, <1>5

LEMMA UsedUpInit == Init => UsedUp
<1> SUFFICES ASSUME Init PROVE UsedUp
  OBVIOUS
<1>1. \A j \in Jurisdictions : target[j].enqueued = 0 /\ target[j].consumed = {}
  BY DEF Init, NoRow
<1>2. \A a \in Workers : at[a].pc = "idle"
  BY DEF Init, Workers, Idle
<1>3. \A k \in Indexes : ~(k < 0)
  BY ParamAssumption DEF Indexes
<1> QED BY <1>1, <1>2, <1>3 DEF UsedUp, Workers

LEMMA UsedUpStep == Typed /\ InTable /\ OneOwner /\ UsedUp /\ [Next]_vars => UsedUp'
<1> SUFFICES ASSUME Typed, InTable, OneOwner, UsedUp, [Next]_vars PROVE UsedUp'
  OBVIOUS
<1>1. Counted /\ Sending /\ Deleting /\ Uncounted /\ Keeping
  BY UsedUpIs
<1>2. Typed' /\ Counted' /\ Sending' /\ Deleting' /\ Uncounted'
  BY <1>1, TypedStep, CountedStep, SendingStep, DeletingStep, UncountedStep
<1>3. Keeping'
  BY <1>2, KeepingStep
<1> QED BY <1>2, <1>3 DEF UsedUp, Counted, Sending, Deleting, Uncounted, Keeping

LEMMA InitInTable == Init => InTable
BY DEF Init, InTable, NoRow, Idle

\* A target whose queries were all sent has been decided, or a query of it is still to be handled:
\* the last one to be marked decides it, whatever comes twice, fails half-way or is sent again.
\* The exceptions are a dead-lettered query, and one that was marked before the count was set.
THEOREM TargetsAreDecided == Spec => []UsedUpIsDecided
<1> DEFINE Inv == Typed /\ InTable /\ OneOwner /\ UsedUp
<1>1. Init => Inv
  BY InitTyped, InitInTable, OneOwnerInit, UsedUpInit
<1>2. Inv /\ [Next]_vars => Inv'
  BY TypedStep, InTableStep, OneOwnerStep, UsedUpStep
<1>3. Inv => UsedUpIsDecided
  BY DEF UsedUp, Kept, Settled, UsedUpIsDecided
<1> QED BY <1>1, <1>2, <1>3, PTL DEF Spec

-----------------------------------------------------------------------------
(* A seeded campaign, with one orchestrator.                               *)

LEMMA CoveredStays ==
    ASSUME Typed, InTable, [Next]_vars, NEW j \in Jurisdictions, Covered(j)
    PROVE  Covered(j)'
BY RowsGrow DEF Covered

\* What the pass has to do with a jurisdiction of the table: nothing, or it is still to come.
Awaited(c, j) == (\E e \in c.todo : e.j = j) \/ (c.pc # "next" /\ c.j = j)

LEMMA CoveringStep ==
    ASSUME NEW o, Seeders = {o}, Typed, InTable, OneOwner, Covering(o), [Next]_vars
    PROVE  Covering(o)'
<1> DEFINE c == at[o]
           d == at'[o]
<1>0. /\ o \in Workers /\ o \in Seeders /\ AtTyped /\ c \in Controls /\ SeederAt(c) /\ Idle \in Controls
      /\ loaded \subseteq Jurisdictions /\ loaded' \subseteq Jurisdictions
  BY Apart, IdleSound, TypedStep DEF Typed, AtTyped, Sound, CampaignTyped
<1>a. ASSUME NEW x, Become(o, x) PROVE d = x
  BY <1>0, <1>a, OthersStay
<1>b. ASSUME NEW pc, Goto(o, pc) PROVE d.pc = pc /\ d.j = c.j /\ d.todo = c.todo
  <2>1. d = [c EXCEPT !.pc = pc]
    BY <1>a, <1>b DEF Goto
  <2> QED BY <1>0, <2>1 DEF Controls
<1>c. ASSUME NEW x \in Controls, Prepare(o, x)
      PROVE  d.j = x.j /\ d.todo = x.todo /\ d.pc \in {"resolve", "send"}
  <2>1. \/ d = [x EXCEPT !.pc = "resolve"]
        \/ \E n \in 1 .. MaxQueries : d = [x EXCEPT !.pc = "send", !.queries = n, !.next = 0]
    BY <1>a, <1>c DEF Prepare
  <2>2. ASSUME d = [x EXCEPT !.pc = "resolve"]
        PROVE  d.j = x.j /\ d.todo = x.todo /\ d.pc \in {"resolve", "send"}
    BY <1>c, <2>2 DEF Controls
  <2>3. ASSUME NEW n \in 1 .. MaxQueries, d = [x EXCEPT !.pc = "send", !.queries = n, !.next = 0]
        PROVE  d.j = x.j /\ d.todo = x.todo /\ d.pc \in {"resolve", "send"}
    BY <1>c, <2>3 DEF Controls
  <2> QED BY <2>1, <2>2, <2>3
<1> PICK i : i = c.j
  OBVIOUS
\* It is enough that the pass is over or not begun, or that what is left is awaited.
<1>d. ASSUME ~seeded', d.pc \notin Looking PROVE Covering(o)'
  BY <1>d DEF Covering, SeededCovers
<1>e. ASSUME ~seeded', \A j \in loaded' : Covered(j)' \/ Awaited(d, j) PROVE Covering(o)'
  BY <1>e DEF Covering, SeededCovers, Awaited
<1>f. ASSUME c.pc \in Looking, NEW j \in loaded PROVE Covered(j)' \/ Awaited(c, j)
  <2>1. Covered(j) \/ Awaited(c, j)
    BY <1>f DEF Covering, Awaited
  <2> QED BY <1>0, <2>1, CoveredStays
\* The pass goes on with the same target.
<1>g. ASSUME c.pc \in Looking, d.pc # "next", c.pc # "next", d.j = c.j, d.todo = c.todo,
             ~seeded', loaded' = loaded
      PROVE  Covering(o)'
  <2>1. \A j : Awaited(c, j) => Awaited(d, j)
    BY <1>g DEF Awaited
  <2> QED BY <1>e, <1>f, <1>g, <2>1
\* The pass is done with its target.
<1>h. ASSUME c.pc \in Looking, d.pc = "next", d.todo = c.todo, ~seeded', loaded' = loaded, Covered(i)'
      PROVE  Covering(o)'
  <2>1. ASSUME NEW j \in loaded PROVE Covered(j)' \/ Awaited(d, j)
    <3>1. CASE j = c.j
      BY <1>h, <3>1
    <3>2. CASE j # c.j
      BY <1>f, <1>h, <3>2 DEF Awaited
    <3> QED BY <3>1, <3>2
  <2> QED BY <1>e, <1>h, <2>1
<1>1. CASE d = c /\ UNCHANGED <<seeded, loaded>>
  <2>1. \A j \in loaded : Covered(j) => Covered(j)'
    BY <1>0, CoveredStays
  <2>2. seeded => \A j \in loaded : Covered(j)'
    BY <2>1 DEF Covering, SeededCovers, Covered
  <2>3. c.pc \in Looking => \A j \in loaded : Covered(j)' \/ Awaited(c, j)
    BY <1>f
  <2> QED BY <1>1, <2>2, <2>3 DEF Covering, SeededCovers, Covered, Awaited
<1>2. ASSUME c.pc # "idle" PROVE ~seeded
  BY <1>2 DEF Covering
<1>3. CASE SeedStart(o)
  <2>1. ~seeded' /\ loaded' = loaded
    BY <1>3 DEF SeedStart, campaign, census
  <2>2. CASE ~test
    <3>1. d.pc = "census"
      BY <1>3, <1>b, <2>2 DEF SeedStart
    <3> QED BY <1>d, <2>1, <3>1 DEF Looking
  <2>3. CASE test
    <3>1. d = [Idle EXCEPT !.pc = "next", !.todo = {[j |-> j, known |-> TRUE] : j \in Jurisdictions}]
      BY <1>3, <1>a, <2>3 DEF SeedStart
    <3>2. d.todo = {[j |-> j, known |-> TRUE] : j \in Jurisdictions}
      BY <1>0, <3>1 DEF Controls
    <3>3. \A j \in Jurisdictions : [j |-> j, known |-> TRUE] \in d.todo
      BY <3>2
    <3>4. \A j \in Jurisdictions : Awaited(d, j)
      BY <3>3 DEF Awaited
    <3> QED BY <1>0, <1>e, <2>1, <3>4
  <2> QED BY <2>2, <2>3
<1>4. CASE Census(o)
  <2>1. ~seeded' /\ d.pc \in {"scope", "state"}
    BY <1>4, <1>2, <1>b DEF Census, At, campaign
  <2> QED BY <1>d, <2>1 DEF Looking
<1>5. CASE InsertState(o)
  <2>1. ~seeded'
    BY <1>5, <1>2 DEF InsertState, At, campaign
  <2>2. d = [Idle EXCEPT !.pc = "places", !.todo = {[j |-> j, known |-> FALSE] : j \in Jurisdictions}]
    BY <1>5, <1>a DEF InsertState
  <2>3. d.pc = "places"
    BY <1>0, <2>2 DEF Controls
  <2> QED BY <1>d, <2>1, <2>3 DEF Looking
<1>6. CASE InsertPlace(o)
  <2>1. ~seeded' /\ c.pc = "places"
    BY <1>6, <1>2 DEF InsertPlace, At, campaign
  <2>2. ASSUME NEW e \in c.todo, Become(o, [c EXCEPT !.todo = @ \ {e}]) PROVE d.pc = "places"
    <3>1. d = [c EXCEPT !.todo = @ \ {e}]
      BY <1>a, <2>2
    <3> QED BY <1>0, <2>1, <3>1 DEF Controls
  <2>3. d.pc \in {"places", "scope"}
    BY <1>6, <1>b, <2>2 DEF InsertPlace
  <2> QED BY <1>d, <2>1, <2>3 DEF Looking
<1>7. CASE Scope(o)
  <2>1. ~seeded' /\ loaded' = loaded
    BY <1>7, <1>2 DEF Scope, At, campaign, census
  <2>2. d = [Idle EXCEPT !.pc = "next", !.todo = {[j |-> j, known |-> j \in contact] : j \in loaded}]
    BY <1>7, <1>a DEF Scope
  <2>3. d.todo = {[j |-> j, known |-> j \in contact] : j \in loaded}
    BY <1>0, <2>2 DEF Controls
  <2>4. \A j \in loaded : [j |-> j, known |-> j \in contact] \in d.todo
    BY <2>3
  <2>5. \A j \in loaded : Awaited(d, j)
    BY <2>4 DEF Awaited
  <2> QED BY <1>e, <2>1, <2>5
<1>8. CASE FindTarget(o)
  <2> PICK e \in c.todo :
        LET x == [c EXCEPT !.todo = @ \ {e}, !.j = e.j, !.known = e.known]
        IN /\ loaded' = IF test THEN loaded \cup {e.j} ELSE loaded
           /\ IF ~target[e.j].exists THEN Become(o, [x EXCEPT !.pc = "insert"])
              ELSE IF Skipped(target[e.j]) THEN Become(o, x)
              ELSE Prepare(o, x)
    BY <1>8 DEF FindTarget
  <2> DEFINE x == [c EXCEPT !.todo = @ \ {e}, !.j = e.j, !.known = e.known]
  <2>1. e.j \in Jurisdictions /\ e.known \in BOOLEAN
    BY <1>0 DEF Controls, Pass
  <2>2. c.pc = "next" /\ ~seeded' /\ target' = target /\ loaded' \subseteq loaded \cup {e.j}
    BY <1>2, <1>8 DEF FindTarget, At, campaign
  <2>3. x \in Controls /\ x.j = e.j /\ x.pc = "next" /\ x.todo = c.todo \ {e}
    BY <1>0, <2>1, <2>2 DEF Controls
  <2>4. \/ Become(o, [x EXCEPT !.pc = "insert"])
        \/ Become(o, x) /\ Skipped(target[e.j])
        \/ Prepare(o, x)
    OBVIOUS
  <2> HIDE DEF x
  <2>5. d.todo = c.todo \ {e} /\ d.j = e.j /\ (d.pc # "next" \/ Covered(e.j)')
    <3>1. ASSUME Become(o, [x EXCEPT !.pc = "insert"])
          PROVE  d.todo = x.todo /\ d.j = e.j /\ d.pc # "next"
      <4>1. d = [x EXCEPT !.pc = "insert"]
        BY <1>a, <3>1
      <4> QED BY <2>3, <4>1 DEF Controls
    <3>2. ASSUME Become(o, x), Skipped(target[e.j])
          PROVE  d.todo = x.todo /\ d.j = e.j /\ Covered(e.j)'
      <4>1. d = x
        BY <1>a, <3>2
      <4> QED BY <2>2, <2>3, <3>2, <4>1 DEF Skipped, Covered
    <3>3. ASSUME Prepare(o, x) PROVE d.todo = x.todo /\ d.j = e.j /\ d.pc # "next"
      BY <1>c, <2>3, <3>3
    <3> QED BY <2>3, <2>4, <3>1, <3>2, <3>3
  <2>6. ASSUME NEW j \in loaded' PROVE Covered(j)' \/ Awaited(d, j)
    <3>1. CASE j = e.j
      BY <2>5, <3>1 DEF Awaited
    <3>2. CASE j # e.j
      <4>1. j \in loaded
        BY <2>2, <2>6, <3>2
      <4>2. Covered(j)' \/ Awaited(c, j)
        BY <1>f, <2>2, <4>1 DEF Looking
      <4> QED BY <2>2, <2>5, <3>2, <4>2 DEF Awaited
    <3> QED BY <3>1, <3>2
  <2> QED BY <1>e, <2>2, <2>6
<1>9. CASE InsertTarget(o)
  <2> DEFINE row == IF target[c.j].exists THEN target[c.j] ELSE Fresh
  <2>1. c.pc = "insert" /\ c.j \in Jurisdictions /\ ~seeded' /\ loaded' = loaded
    BY <1>0, <1>2, <1>9 DEF InsertTarget, At, SeederAt, campaign, census
  <2>2. target'[c.j] = row
    BY <1>9, <2>1 DEF InsertTarget, Typed, TargetTyped
  <2>3. (Skipped(row) /\ Goto(o, "next")) \/ Prepare(o, c)
    BY <1>9 DEF InsertTarget
  <2> HIDE DEF row
  <2>4. CASE Skipped(row) /\ Goto(o, "next")
    <3>1. Covered(i)'
      BY <2>2, <2>4 DEF Skipped, Covered
    <3> QED BY <1>b, <1>h, <2>1, <2>4, <3>1 DEF Looking
  <2>5. CASE Prepare(o, c)
    BY <1>0, <1>c, <1>g, <2>1, <2>5 DEF Looking
  <2> QED BY <2>3, <2>4, <2>5
<1>10. CASE ResolveKnown(o)
  <2>1. c.pc = "resolve" /\ c.j \in Jurisdictions /\ ~seeded' /\ loaded' = loaded /\ target[c.j].exists
    BY <1>0, <1>2, <1>10 DEF ResolveKnown, At, SeederAt, campaign, census, InTable
  <2>2. \/ Goto(o, "contact")
        \/ Goto(o, "next") /\ ~Wins(c.j) /\ target' = target
    BY <1>10 DEF ResolveKnown, Decide
  <2>3. CASE Goto(o, "contact")
    BY <1>b, <1>g, <2>1, <2>3 DEF Looking
  <2>4. CASE Goto(o, "next") /\ ~Wins(c.j) /\ target' = target
    <3>1. Covered(i)'
      BY <2>1, <2>4 DEF Wins, Covered
    <3> QED BY <1>b, <1>h, <2>1, <2>4, <3>1 DEF Looking
  <2> QED BY <2>2, <2>3, <2>4
<1>11. CASE SendQuery(o)
  <2>1. c.pc = "send" /\ ~seeded' /\ loaded' = loaded
    BY <1>2, <1>11 DEF SendQuery, At, campaign, census
  <2>2. d.pc # "next" /\ d.j = c.j /\ d.todo = c.todo
    <3>1. d = [c EXCEPT !.next = @ + 1, !.pc = IF c.next + 1 = c.queries THEN "count" ELSE "send"]
      BY <1>11, <1>a DEF SendQuery
    <3> QED BY <1>0, <3>1 DEF Controls
  <2> QED BY <1>g, <2>1, <2>2 DEF Looking
<1>12. CASE SetCount(o)
  <2>1. c.pc = "count" /\ c.j \in Jurisdictions /\ c.queries > 0 /\ ~seeded' /\ loaded' = loaded
    BY <1>0, <1>2, <1>12 DEF SetCount, At, SeederAt, campaign, census
  <2>2. target'[c.j] = [target[c.j] EXCEPT !.enqueued = c.queries]
    BY <1>12, <2>1 DEF SetCount, Typed, TargetTyped
  <2>3. target'[c.j].enqueued > 0
    BY <2>1, <2>2 DEF Typed, TargetTyped, Rows
  <2>4. d.pc = "next" /\ d.todo = c.todo
    BY <1>12, <1>b DEF SetCount
  <2> QED BY <1>h, <2>1, <2>3, <2>4 DEF Looking, Covered
<1>13. CASE SetSeeded(o)
  <2>1. c.pc = "next" /\ c.todo = {} /\ loaded' = loaded /\ d = Idle /\ seeded'
    BY <1>13, <1>a DEF SetSeeded, At, census
  <2>2. \A j \in loaded : Covered(j)'
    BY <1>f, <2>1 DEF Looking, Awaited
  <2>3. Idle.pc = "idle"
    BY DEF Idle
  <2> QED BY <2>1, <2>2, <2>3 DEF Covering, SeededCovers, Covered, Looking
<1>14. CASE SendContact(o)
  <2>1. c.pc = "contact" /\ d.pc = "next" /\ loaded' = loaded /\ ~seeded'
    BY <1>0, <1>2, <1>14, OtherTurns DEF SendContact, campaign, census
  <2>2. d.todo = c.todo
    BY <1>14, <1>b DEF SendContact
  <2>3. c.j \in Jurisdictions /\ Owns(o, c.j)
    BY <1>0, <2>1 DEF Owns, SeederAt
  <2>4. target[c.j].resolved
    BY <1>0, <2>3 DEF OneOwner
  <2>5. Covered(i)'
    BY <2>3, <2>4, RowsGrow DEF Covered
  <2> QED BY <1>h, <2>1, <2>2, <2>5 DEF Looking
<1>15. CASE Fails(o)
  <2>1. ~seeded' /\ d = Idle
    BY <1>0, <1>2, <1>15, OtherTurns DEF Fails, At, campaign
  <2> QED BY <1>d, <2>1 DEF Looking, Idle
<1>16. ASSUME d = c, ~SeedStep(o) PROVE UNCHANGED <<seeded, loaded>>
  <2>1. \A b \in Seeders : b = o
    OBVIOUS
  <2> QED BY <1>16, <2>1, OutcomeWriters DEF SeedStep, census
<1>17. SeedStep(o) \/ SendContact(o) \/ Fails(o) \/ (d = c /\ ~SeedStep(o))
  BY <1>0, Apart, Turns
<1> QED BY <1>1, <1>3, <1>4, <1>5, <1>6, <1>7, <1>8, <1>9, <1>10, <1>11, <1>12, <1>13, <1>14, <1>15,
           <1>16, <1>17 DEF SeedStep

\* With one orchestrator, as deployed, a campaign is marked seeded only when every office of the
\* table is resolved or has its queries counted, through any number of passes that died.
THEOREM SeededIsCovered ==
    ASSUME NEW o, Seeders = {o}
    PROVE  Spec => []SeededCovers
<1> DEFINE Inv == Typed /\ InTable /\ OneOwner /\ Covering(o)
<1>1. Init => Inv
  <2>1. Init => Covering(o)
    <3>1. o \in Seeders
      OBVIOUS
    <3> QED BY <3>1 DEF Init, Covering, SeededCovers, Looking, Idle
  <2> QED BY <2>1, InitTyped, InitInTable, OneOwnerInit
<1>2. Inv /\ [Next]_vars => Inv'
  BY TypedStep, InTableStep, OneOwnerStep, CoveringStep
<1>3. Inv => SeededCovers
  BY DEF Covering
<1> QED BY <1>1, <1>2, <1>3, PTL DEF Spec
===============================================================================
