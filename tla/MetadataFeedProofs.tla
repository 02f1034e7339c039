-------------------------- MODULE MetadataFeedProofs --------------------------
(***************************************************************************)
(* What holds of the change feed for any entities, pages, streams, tries,  *)
(* changes, faults and crashes: the cursor never passes a change of an     *)
(* item that nothing will fetch, top tracks never go back, and cursors,    *)
(* pages and attempts stay in their bounds.                                *)
(***************************************************************************)
EXTENDS MetadataFeed, FiniteSetTheorems, SequenceTheorems, TLAPS

Records == [entity : Entities, type : ChangeTypes, version : Nat]
Ups == [stream : Nat, log : Seq(Records), doc : [Entities -> Nat], top : [Artists -> Nat]]
Plans ==
  {j \in [kind : JobKinds, entity : Entities, version : Nat] : j.kind = "scope" => j.entity \in Artists}
TickStates ==
  [pc : {"idle", "read", "reset", "page", "commit"}, cursor : Nat, stream : Nat,
   page : Seq(Records), plan : SUBSET Plans, first : BOOLEAN]
Refreshes ==
  [pc : {"idle", "fetch", "base", "rich", "lost"}, item : Items \cup {"none"}, tried : Nat,
   doc : Nat, top : Nat]
Persons == [pc : Running \cup {"none", "queued", "lost"}, tried : Nat, doc : Nat]
Scopes ==
  [item : Artists, version : Nat, pc : Running \cup {"queued", "lost"}, tried : Nat, top : Nat]
Locals ==
  [bound : [Entities -> Nat], stored : [Entities -> Nat], mark : [Artists -> Nat],
   rows : [Artists -> Nat]]

UpType == up \in Ups /\ row \in [cursor : Nat, stream : Nat]
QueueType ==
  /\ queued \in [Items -> Seq(Nat)]
  /\ refresh \in Refreshes /\ (refresh.pc = "idle" => refresh.item = "none")
JobType == person \in [People -> Persons] /\ scopes \subseteq Scopes
LocalType ==
  /\ local \in Locals
  /\ dead \in [docs : SUBSET Entities, tops : SUBSET Artists]
  /\ owed \in [docs : [Entities -> Nat], tops : [Artists -> Nat]]
Shapes == UpType /\ QueueType /\ JobType /\ LocalType

\* What a page says of an entity, HeyaMetadata serves.
Honest(page) == \A c \in ToSet(page) : c.version <= up.doc[c.entity]
Truth ==
  /\ Honest(up.log)
  /\ \A i \in Items : /\ local.bound[i] <= up.doc[i] /\ owed.docs[i] <= up.doc[i]
                      /\ Refreshing(i) => refresh.doc <= up.doc[i]

\* A refresh that is queued or running, or one that is done or given up, has
\* taken or will take item i to version v.
Kept(i, v) ==
  \/ local.stored[i] >= v
  \/ queued[i] # << >> \/ WillStore(i, v)
  \/ i \in dead.docs
\* What the running refresh holds is what the cursor knows, or another follows.
Fetched(i) ==
  Refreshing(i) /\ refresh.pc \in {"base", "rich"} =>
    /\ refresh.doc >= local.bound[i]
    /\ queued[i] # << >> \/ refresh.doc >= owed.docs[i]
Documents ==
  \A i \in Items : Kept(i, owed.docs[i]) /\ Kept(i, local.bound[i]) /\ Fetched(i)

\* A tick's page is honest; its plan and the versions bound cover the page.
MediaPlanned(r, i) ==
  i \in PlannedOf(r.plan, "media") \/ local.bound[i] >= Newest(Entries(r.page, i))
TopPlanned(r, a) ==
  LET v == Newest(Scoped(Entries(r.page, a))) IN
  \/ \E j \in r.plan : j.kind = "scope" /\ j.entity = a /\ j.version = v
  \/ local.mark[a] >= v
TickFits(r) ==
  /\ r \in TickStates /\ Honest(r.page)
  /\ r.pc = "commit" =>
       (\A i \in Items : MediaPlanned(r, i)) /\ (\A a \in Artists : TopPlanned(r, a))
TicksFit ==
  tick \in [Tickers -> TickStates] /\ \A r \in {tick[t] : t \in Tickers} : TickFits(r)

\* A reconciliation that is about to store has the version it was asked for.
TopTracks ==
  /\ TopTracksNotLost
  /\ \A s \in scopes : s.pc = "store" => s.top >= s.version
  /\ RowsMatchCheckpoint

FeedInv == Shapes /\ Truth /\ Documents /\ TicksFit /\ TopTracks

-----------------------------------------------------------------------------
(***************************************************************************)
(* Pages and the versions they name.                                       *)
(***************************************************************************)
\* A set of naturals with an upper bound has a largest element.
LEMMA LargestOfBounded ==
  ASSUME NEW V \in SUBSET Nat, V # {}, NEW b \in Nat, \A v \in V : v <= b
  PROVE  Max(V) \in V
<1> DEFINE U == {n \in Nat : \A v \in V : v <= n}
<1>1. U \in SUBSET Nat /\ U # {}
  OBVIOUS
<1> HIDE DEF U
<1>2. \E m \in U : \A n \in U : m <= n
  <2> DEFINE R == OpToRel(<, Nat)
  <2>1. \A x, y \in Nat : <<y, x>> \in R <=> y < x
    BY DEF OpToRel
  <2>2. IsWellFoundedOn(R, Nat)
    BY NatLessThanWellFounded
  <2> HIDE DEF R
  <2>3. \E x \in U : \A y \in U : ~(<<y, x>> \in R)
    BY <1>1, <2>2, WFMin
  <2>4. PICK x \in U : \A y \in U : ~(<<y, x>> \in R)
    BY <2>3
  <2>5. ASSUME NEW y \in U PROVE x <= y
    <3>1. x \in Nat /\ y \in Nat
      BY <1>1
    <3>2. ~(y < x)
      BY <2>1, <2>4, <3>1
    <3> QED BY <3>1, <3>2
  <2> QED BY <2>5
<1>3. PICK m \in U : \A n \in U : m <= n
  BY <1>2
<1>4. m \in Nat /\ \A v \in V : v <= m
  BY <1>3 DEF U
<1>5. m \in V
  <2> SUFFICES ASSUME m \notin V PROVE FALSE
    OBVIOUS
  <2>1. ASSUME NEW v \in V PROVE v < m
    BY <1>4
  <2>2. m > 0 /\ m - 1 \in Nat
    <3>1. PICK v : v \in V
      OBVIOUS
    <3> QED BY <1>4, <2>1, <3>1
  <2>3. m - 1 \in U
    BY <1>4, <2>1, <2>2 DEF U
  <2> QED BY <1>3, <1>4, <2>3
<1>6. \E x \in V : \A y \in V : x >= y
  BY <1>4, <1>5
<1> QED BY <1>6 DEF Max

\* The newest of some changes is a version, and no newer than they are.
LEMMA NewestFits ==
  ASSUME NEW cs \in SUBSET Records, NEW b \in Nat, \A c \in cs : c.version <= b
  PROVE  Newest(cs) \in Nat /\ Newest(cs) <= b
<1> DEFINE V == {c.version : c \in cs} \cup {0}
<1>1. V \in SUBSET Nat /\ V # {} /\ \A v \in V : v <= b
  BY DEF Records
<1>2. Newest(cs) = Max(V)
  BY DEF Newest
<1> HIDE DEF V
<1> QED BY <1>1, <1>2, LargestOfBounded

\* What an honest page says of an entity.
LEMMA PageFits ==
  ASSUME Shapes, NEW page \in Seq(Records), Honest(page), NEW e \in Entities
  PROVE  /\ Newest(Entries(page, e)) \in Nat /\ Newest(Entries(page, e)) <= up.doc[e]
         /\ Newest(Scoped(Entries(page, e))) \in Nat
<1>1. ToSet(page) \subseteq Records
  BY DEF ToSet
<1>2. up.doc[e] \in Nat
  BY DEF Shapes, UpType, Ups
<1>3. Entries(page, e) \in SUBSET Records /\ \A c \in Entries(page, e) : c.version <= up.doc[e]
  BY <1>1 DEF Entries, Honest
<1>4. Scoped(Entries(page, e)) \in SUBSET Records
      /\ \A c \in Scoped(Entries(page, e)) : c.version <= up.doc[e]
  BY <1>3 DEF Scoped
<1> QED BY <1>2, <1>3, <1>4, NewestFits

\* Versions served, bound and checkpointed only grow, and what fits a tick goes
\* on fitting.
Forward ==
  /\ up' \in Ups /\ local' \in Locals
  /\ \A e \in Entities : up'.doc[e] >= up.doc[e]
  /\ \A i \in Items : local'.bound[i] >= local.bound[i]
  /\ \A a \in Artists : local'.mark[a] >= local.mark[a]
\* Versions go forward when the read model stays and HeyaMetadata's only grow.
LEMMA ForwardStill ==
  ASSUME Shapes, UNCHANGED local, up' \in Ups, \A e \in Entities : up'.doc[e] >= up.doc[e]
  PROVE  Forward
<1>1. local \in Locals /\ Items \subseteq Entities
  BY DEF Shapes, LocalType, Entities
<1>2. \A i \in Items : local.bound[i] >= local.bound[i]
  BY <1>1 DEF Locals
<1>3. \A a \in Artists : local.mark[a] >= local.mark[a]
  BY <1>1 DEF Locals
<1> QED BY <1>1, <1>2, <1>3 DEF Forward

\* A tick whose page and plan fit.
LEMMA TickFitsKept ==
  ASSUME Shapes, Forward, NEW r, TickFits(r)
  PROVE  TickFits(r)'
<1>1. up \in Ups /\ local \in Locals /\ r \in TickStates /\ r.page \in Seq(Records)
  BY DEF Shapes, UpType, LocalType, TickFits, TickStates
<1>2. Honest(r.page)'
  <2>1. ASSUME NEW c \in ToSet(r.page) PROVE c.version <= up'.doc[c.entity]
    <3>1. c \in Records /\ c.version <= up.doc[c.entity]
      BY <1>1, <2>1 DEF ToSet, TickFits, Honest
    <3> QED BY <1>1, <3>1 DEF Forward, Records, Ups
  <2> QED BY <2>1 DEF Honest
<1>3. ASSUME NEW i \in Items, MediaPlanned(r, i) PROVE MediaPlanned(r, i)'
  <2>1. i \in Entities
    BY DEF Entities
  <2>2. Newest(Entries(r.page, i)) \in Nat
    BY <1>1, <2>1, PageFits DEF TickFits
  <2>3. local'.bound[i] \in Nat /\ local.bound[i] \in Nat /\ local'.bound[i] >= local.bound[i]
    BY <1>1, <2>1 DEF Forward, Locals
  <2> QED BY <1>3, <2>2, <2>3 DEF MediaPlanned
<1>4. ASSUME NEW a \in Artists, TopPlanned(r, a) PROVE TopPlanned(r, a)'
  <2>1. a \in Entities
    BY DEF Entities, Items
  <2>2. Newest(Scoped(Entries(r.page, a))) \in Nat
    BY <1>1, <2>1, PageFits DEF TickFits
  <2>3. local'.mark[a] \in Nat /\ local.mark[a] \in Nat /\ local'.mark[a] >= local.mark[a]
    BY <1>1 DEF Forward, Locals
  <2> QED BY <1>4, <2>2, <2>3 DEF TopPlanned
<1> QED BY <1>1, <1>2, <1>3, <1>4 DEF TickFits

-----------------------------------------------------------------------------
(***************************************************************************)
(* HeyaMetadata.                                                           *)
(***************************************************************************)
Behind == <<row, tick, queued, refresh, person, scopes, local, dead, owed>>

\* Its versions only grow.
LEMMA UpstreamKeeps ==
  ASSUME FeedInv, UNCHANGED Behind, up' \in Ups,
         \A e \in Entities : up'.doc[e] >= up.doc[e],
         Honest(up.log)'
  PROVE  FeedInv'
<1>1. Shapes'
  BY DEF FeedInv, Behind, Shapes, UpType, QueueType, JobType, LocalType
<1>2. Truth'
  <2>1. ASSUME NEW i \in Items
        PROVE  /\ local.bound[i] <= up'.doc[i] /\ owed.docs[i] <= up'.doc[i]
               /\ Refreshing(i) => refresh.doc <= up'.doc[i]
    <3>1. i \in Entities
      BY DEF Entities
    <3>2. local.bound[i] \in Nat /\ owed.docs[i] \in Nat /\ refresh.doc \in Nat
      BY <3>1 DEF FeedInv, Shapes, LocalType, QueueType, Locals, Refreshes
    <3>3. up.doc[i] \in Nat /\ up'.doc[i] \in Nat /\ up'.doc[i] >= up.doc[i]
      BY <3>1 DEF FeedInv, Shapes, UpType, Ups
    <3> QED BY <3>2, <3>3 DEF FeedInv, Truth
  <2> QED BY <2>1 DEF Truth, Behind, Refreshing
<1>3. Documents'
  BY DEF FeedInv, Documents, Kept, Fetched, Behind, WillStore, Refreshing
<1>4. TicksFit'
  <2>1. Forward
    BY ForwardStill DEF FeedInv, Behind
  <2> QED BY <2>1, TickFitsKept DEF FeedInv, TicksFit, Behind
<1>5. TopTracks'
  BY DEF FeedInv, TopTracks, TopTracksNotLost, RowsMatchCheckpoint, Behind
<1> QED BY <1>1, <1>2, <1>3, <1>4, <1>5 DEF FeedInv

\* One change more.
LEMMA PublishKeeps ==
  ASSUME FeedInv, NEW e \in Entities, NEW type \in ChangeTypes, Publishes(e, type)
  PROVE  FeedInv'
<1> DEFINE new == Entry(e, type)
<1>1. up \in Ups /\ Honest(up.log)
  BY DEF FeedInv, Shapes, UpType, Truth
<1>2. up.log \in Seq(Records) /\ up.doc \in [Entities -> Nat]
  BY <1>1 DEF Ups
<1>3. new \in Records /\ new.entity = e /\ new.version >= up.doc[e]
  BY <1>2 DEF Entry, Records
<1> HIDE DEF new
<1>4. up' = [up EXCEPT !.log = Append(@, new), !.doc[e] = new.version]
  BY DEF Publishes, new
<1>5. up' = [stream |-> up.stream, log |-> Append(up.log, new),
             doc |-> [up.doc EXCEPT ![e] = new.version], top |-> up.top]
  BY <1>1, <1>4 DEF Ups
<1>6. Append(up.log, new) \in Seq(Records)
  BY <1>2, <1>3
<1>7. [up.doc EXCEPT ![e] = new.version] \in [Entities -> Nat]
  BY <1>2, <1>3 DEF Records
<1>8. up' \in Ups
  BY <1>1, <1>5, <1>6, <1>7 DEF Ups
<1>9. \A x \in Entities : up'.doc[x] >= up.doc[x]
  BY <1>2, <1>3, <1>5
<1>10. ASSUME NEW c \in ToSet(up'.log) PROVE c.version <= up'.doc[c.entity]
  <2>1. ToSet(up'.log) = {up'.log[n] : n \in DOMAIN up'.log}
    BY DEF ToSet
  <2>2. PICK n \in DOMAIN up'.log : c = up'.log[n]
    BY <1>10, <2>1
  <2>3. up'.log = Append(up.log, new)
    BY <1>5
  <2>4. DOMAIN up'.log = 1..(Len(up.log) + 1)
    BY <1>2, <1>3, <2>3
  <2>5. CASE n = Len(up.log) + 1
    <3>1. c = new
      BY <1>2, <1>3, <2>2, <2>3, <2>5
    <3> QED BY <1>2, <1>3, <1>5, <3>1 DEF Records
  <2>6. CASE n # Len(up.log) + 1
    <3>1. n \in DOMAIN up.log /\ c = up.log[n]
      BY <1>2, <1>3, <2>2, <2>3, <2>4, <2>6
    <3>2. c \in ToSet(up.log)
      BY <3>1 DEF ToSet
    <3>3. c \in Records /\ c.version <= up.doc[c.entity]
      BY <1>1, <1>2, <3>1, <3>2 DEF Honest
    <3>4. PICK x \in Entities : x = c.entity
      BY <3>3 DEF Records
    <3>5. c.version \in Nat /\ up.doc[x] \in Nat /\ up'.doc[x] \in Nat
      BY <1>2, <1>8, <3>3 DEF Records, Ups
    <3>6. c.version <= up.doc[x] /\ up'.doc[x] >= up.doc[x]
      BY <1>9, <3>3, <3>4
    <3>7. c.version <= up'.doc[x]
      BY <3>5, <3>6
    <3> QED BY <3>4, <3>7
  <2> QED BY <2>5, <2>6
<1>11. Honest(up.log)'
  BY <1>10 DEF Honest
<1>12. UNCHANGED Behind
  BY DEF Publishes, Behind
<1> QED BY <1>8, <1>9, <1>11, <1>12, UpstreamKeeps

\* A rebuilt stream names what is served.
LEMMA RebuildKeeps ==
  ASSUME FeedInv, Rebuilds
  PROVE  FeedInv'
<1> DEFINE Named(order) ==
      [n \in DOMAIN order |->
         [entity |-> order[n], version |-> up.doc[order[n]],
          type |-> IF order[n] \in Artists THEN "top_tracks" ELSE "updated"]]
<1>1. up \in Ups
  BY DEF FeedInv, Shapes, UpType
<1>2. PICK order \in SetToSeqs(Entities) :
        up' = [up EXCEPT !.stream = @ + 1, !.log = Named(order)]
  BY DEF Rebuilds
<1>3. Cardinality(Entities) \in Nat
  BY EntitiesAssumption, FS_CardinalityType
<1>4. order \in [1..Cardinality(Entities) -> Entities]
  BY <1>2 DEF SetToSeqs
<1>5. ASSUME NEW n \in DOMAIN order
      PROVE  Named(order)[n] \in Records /\ Named(order)[n].version = up.doc[Named(order)[n].entity]
  BY <1>1, <1>4, <1>5 DEF Records, ChangeTypes, Ups
<1>6. DOMAIN Named(order) = DOMAIN order
  OBVIOUS
<1>7. Named(order) \in [1..Cardinality(Entities) -> Records]
  BY <1>4, <1>5
<1>8. Named(order) \in Seq(Records)
  <2> HIDE DEF Named
  <2>1. Seq(Records) = UNION {[1..n -> Records] : n \in Nat}
    BY SeqDef
  <2> QED BY <1>3, <1>7, <2>1
<1> HIDE DEF Named
<1>9. up' = [stream |-> up.stream + 1, log |-> Named(order), doc |-> up.doc, top |-> up.top]
  BY <1>1, <1>2 DEF Ups
<1>10. up' \in Ups
  BY <1>1, <1>8, <1>9 DEF Ups
<1>11. ASSUME NEW c \in ToSet(up'.log) PROVE c.version <= up'.doc[c.entity]
  <2>1. PICK n \in DOMAIN order : c = Named(order)[n]
    BY <1>6, <1>9, <1>11 DEF ToSet
  <2>2. c \in Records /\ c.version = up.doc[c.entity]
    BY <1>5, <2>1
  <2> QED BY <1>9, <2>2 DEF Records
<1>12. Honest(up.log)'
  BY <1>11 DEF Honest
<1>13. \A e \in Entities : up'.doc[e] >= up.doc[e]
  BY <1>1, <1>9 DEF Ups
<1>14. UNCHANGED Behind
  BY DEF Rebuilds, Behind
<1> QED BY <1>10, <1>12, <1>13, <1>14, UpstreamKeeps

\* Top tracks are served later than announced.
LEMMA ServeKeeps ==
  ASSUME FeedInv, NEW a \in Artists, Serves(a)
  PROVE  FeedInv'
<1>1. up \in Ups /\ Honest(up.log) /\ a \in Entities
  BY DEF FeedInv, Shapes, UpType, Truth, Entities, Items
<1>2. up' = [stream |-> up.stream, log |-> up.log, doc |-> up.doc, top |-> [up.top EXCEPT ![a] = up.doc[a]]]
  BY <1>1 DEF Serves, Ups
<1>3. [up.top EXCEPT ![a] = up.doc[a]] \in [Artists -> Nat]
  BY <1>1 DEF Ups
<1>4. up' \in Ups
  BY <1>1, <1>2, <1>3 DEF Ups
<1>5. \A e \in Entities : up'.doc[e] >= up.doc[e]
  BY <1>1, <1>2 DEF Ups
<1>6. up'.log = up.log /\ up'.doc = up.doc
  BY <1>2
<1>7. Honest(up.log)'
  BY <1>1, <1>6 DEF Honest
<1>8. UNCHANGED Behind
  BY DEF Serves, Behind
<1> QED BY <1>4, <1>5, <1>7, <1>8, UpstreamKeeps

-----------------------------------------------------------------------------
(***************************************************************************)
(* The tick.                                                               *)
(***************************************************************************)
Read == <<up, refresh, person, scopes, local, dead, owed>>

\* A step that only reads, and drops no queued refresh for good.
LEMMA ReaderKeeps ==
  ASSUME FeedInv, UNCHANGED Read, row' \in [cursor : Nat, stream : Nat],
         tick' \in [Tickers -> TickStates], \A t \in Tickers : tick'[t] = tick[t] \/ TickFits(tick'[t]),
         queued' \in [Items -> Seq(Nat)], \A i \in Items : queued[i] # << >> => queued'[i] # << >>
  PROVE  FeedInv'
<1>1. Shapes'
  BY DEF FeedInv, Read, Shapes, UpType, QueueType, JobType, LocalType
<1>2. Truth'
  BY DEF FeedInv, Truth, Honest, Read, Refreshing
<1>3. Documents'
  BY DEF FeedInv, Documents, Kept, Fetched, Read, WillStore, Refreshing
<1>4. TicksFit'
  <2>1. Forward
    <3>1. up \in Ups /\ \A e \in Entities : up.doc[e] >= up.doc[e]
      BY DEF FeedInv, Shapes, UpType, Ups
    <3> QED BY <3>1, ForwardStill DEF FeedInv, Read
  <2>2. ASSUME NEW r \in {tick'[t] : t \in Tickers} PROVE TickFits(r)'
    <3>1. TickFits(r)
      BY <2>2 DEF FeedInv, TicksFit
    <3> QED BY <2>1, <3>1, TickFitsKept DEF FeedInv
  <2> QED BY <2>2 DEF TicksFit
<1>5. TopTracks'
  BY DEF FeedInv, TopTracks, TopTracksNotLost, RowsMatchCheckpoint, Read
<1> QED BY <1>1, <1>2, <1>3, <1>4, <1>5 DEF FeedInv

\* A tick begins, and coalesces what is queued.
LEMMA TickBegins ==
  ASSUME FeedInv, Ticks
  PROVE  FeedInv'
<1> DEFINE cursor == IF row.stream = 0 THEN 0 ELSE row.cursor
           new == [NoTick EXCEPT !.pc = "read", !.stream = row.stream, !.cursor = cursor]
<1>1. tick \in [Tickers -> TickStates] /\ queued \in [Items -> Seq(Nat)]
      /\ row \in [cursor : Nat, stream : Nat]
  BY DEF FeedInv, TicksFit, Shapes, QueueType, UpType
<1>2. TickFits(new)
  <2>1. cursor \in Nat /\ row.stream \in Nat
    BY <1>1
  <2>2. NoTick \in TickStates /\ NoTick.page = << >>
    BY DEF NoTick, TickStates
  <2> HIDE DEF cursor
  <2>3. new \in TickStates
    BY <2>1, <2>2 DEF TickStates
  <2>4. new.page = << >> /\ new.pc = "read"
    BY <2>2 DEF TickStates
  <2> HIDE DEF new
  <2>5. Honest(<< >>)
    BY DEF Honest, ToSet
  <2> QED BY <2>3, <2>4, <2>5 DEF TickFits
<1>3. tick' = [tick EXCEPT !["now"] = new]
  BY DEF Ticks
<1> HIDE DEF new
<1>4. tick' \in [Tickers -> TickStates] /\ \A t \in Tickers : tick'[t] = tick[t] \/ TickFits(tick'[t])
  BY <1>1, <1>2, <1>3 DEF TickFits
<1>5. ASSUME NEW s \in Seq(Nat)
      PROVE  Coalesced(s) \in Seq(Nat) /\ (s # << >> => Coalesced(s) # << >>)
  <2>1. CASE s # << >>
    <3>1. Len(s) \in DOMAIN s /\ s[Len(s)] \in Nat
      BY <2>1
    <3> QED BY <2>1, <3>1 DEF Coalesced, Last
  <2> QED BY <2>1 DEF Coalesced
<1>6. queued' = [i \in Items |-> Coalesced(queued[i])]
  BY DEF Ticks
<1>7. queued' \in [Items -> Seq(Nat)] /\ \A i \in Items : queued[i] # << >> => queued'[i] # << >>
  BY <1>1, <1>5, <1>6
<1>8. UNCHANGED Read /\ UNCHANGED row
  BY DEF Ticks, Read
<1> QED BY <1>1, <1>4, <1>7, <1>8, ReaderKeeps

\* A tick that only changes itself.
LEMMA TickMoves ==
  ASSUME FeedInv, UNCHANGED Read, UNCHANGED queued, row' \in [cursor : Nat, stream : Nat],
         NEW t \in Tickers, NEW STATE r, TickFits(r), tick' = [tick EXCEPT ![t] = r]
  PROVE  FeedInv'
<1>1. tick \in [Tickers -> TickStates] /\ queued \in [Items -> Seq(Nat)]
  BY DEF FeedInv, TicksFit, Shapes, QueueType
<1>2. tick' \in [Tickers -> TickStates] /\ \A x \in Tickers : tick'[x] = tick[x] \/ TickFits(tick'[x])
  BY <1>1 DEF TickFits
<1> QED BY <1>1, <1>2, ReaderKeeps

\* What SubSeq takes from a log comes from it.
LEMMA PageOfLog ==
  ASSUME NEW s \in Seq(Records), NEW m \in Nat, NEW n \in Nat, n <= Len(s)
  PROVE  SubSeq(s, m + 1, n) \in Seq(Records) /\ ToSet(SubSeq(s, m + 1, n)) \subseteq ToSet(s)
<1> DEFINE p == SubSeq(s, m + 1, n)
<1>1. m + 1 \in Int /\ n \in Int /\ \A k \in m + 1 .. n : k \in DOMAIN s /\ s[k] \in Records
  OBVIOUS
<1>2. /\ p \in Seq(Records) /\ Len(p) = IF m + 1 <= n THEN n - (m + 1) + 1 ELSE 0
      /\ \A k \in 1 .. n - (m + 1) + 1 : p[k] = s[(m + 1) + k - 1]
  BY <1>1, SubSeqProperties
<1> HIDE DEF p
<1>3. ASSUME NEW c \in ToSet(p) PROVE c \in ToSet(s)
  <2>1. PICK k \in DOMAIN p : c = p[k]
    BY <1>3 DEF ToSet
  <2>2. k \in Nat /\ k >= 1 /\ k <= Len(p)
    BY <1>2, <2>1
  <2>3. k \in 1 .. n - (m + 1) + 1
    BY <1>2, <2>2
  <2>4. c = s[m + k] /\ m + k \in m + 1 .. n
    BY <1>2, <2>1, <2>3
  <2> QED BY <1>1, <2>4 DEF ToSet
<1> QED BY <1>2, <1>3 DEF p

\* It reads a page of the log: honest, since the log is.
LEMMA PageRead ==
  ASSUME FeedInv, NEW t \in Tickers, Changes(t) \/ Resets(t)
  PROVE  FeedInv'
<1>1. TickFits(tick[t]) /\ tick[t] \in TickStates
  BY DEF FeedInv, TicksFit, TickFits
<1>2. up \in Ups /\ up.log \in Seq(Records) /\ row \in [cursor : Nat, stream : Nat]
  BY DEF FeedInv, Shapes, UpType, Ups
<1>3. CASE Changes(t)
  <2> DEFINE r == tick[t]
             next == IF r.cursor + PageSize < Len(up.log) THEN r.cursor + PageSize ELSE Len(up.log)
             page == SubSeq(up.log, r.cursor + 1, next)
             reset == [r EXCEPT !.pc = "reset", !.stream = up.stream]
             full == [r EXCEPT !.pc = "page", !.stream = up.stream, !.page = page]
  <2>1. TickFits(reset)
    <3>1. reset \in TickStates /\ reset.page = r.page /\ reset.pc = "reset"
      BY <1>1, <1>2 DEF TickStates, Ups
    <3> HIDE DEF reset
    <3> QED BY <1>1, <3>1 DEF TickFits
  <2>2. page \in Seq(Records) /\ ToSet(page) \subseteq ToSet(up.log)
    <3>1. r.cursor \in Nat /\ next \in Nat /\ next <= Len(up.log)
      BY <1>1, <1>2, BoundsAssumption DEF TickStates
    <3> HIDE DEF next
    <3> QED BY <1>2, <3>1, PageOfLog
  <2>3. TickFits(full)
    <3>1. full \in TickStates /\ full.page = page /\ full.pc = "page"
      <4> HIDE DEF page
      <4> QED BY <1>1, <1>2, <2>2 DEF TickStates, Ups
    <3>2. Honest(page)
      BY <2>2 DEF FeedInv, Truth, Honest
    <3> HIDE DEF full, page
    <3> QED BY <3>1, <3>2 DEF TickFits
  <2>4. tick' = [tick EXCEPT ![t] = reset] \/ tick' = [tick EXCEPT ![t] = full]
    BY <1>3 DEF Changes
  <2>5. UNCHANGED Read /\ UNCHANGED queued /\ UNCHANGED row
    BY <1>3 DEF Changes, Read
  <2> HIDE DEF reset, full
  <2> QED BY <1>2, <2>1, <2>3, <2>4, <2>5, TickMoves
<1>4. CASE Resets(t)
  <2> DEFINE r == [tick[t] EXCEPT !.pc = "read", !.cursor = 0]
  <2>1. TickFits(r)
    <3>1. r \in TickStates /\ r.page = tick[t].page /\ r.pc = "read"
      BY <1>1 DEF TickStates
    <3> HIDE DEF r
    <3> QED BY <1>1, <3>1 DEF TickFits
  <2>2. tick' = [tick EXCEPT ![t] = r]
    BY <1>4 DEF Resets, ResetCursor, FeedInv, TicksFit
  <2>3. row' \in [cursor : Nat, stream : Nat]
    BY <1>1, <1>4 DEF Resets, ResetCursor, TickStates
  <2>4. UNCHANGED Read /\ UNCHANGED queued
    BY <1>4 DEF Resets, Read
  <2> HIDE DEF r
  <2> QED BY <2>1, <2>2, <2>3, <2>4, TickMoves
<1> QED BY <1>3, <1>4

\* What it resolves covers the page.
LEMMA PageResolved ==
  ASSUME FeedInv, NEW t \in Tickers, Resolves(t)
  PROVE  FeedInv'
<1> DEFINE page == tick[t].page
           r == [tick[t] EXCEPT !.pc = "commit", !.plan = Plan(page)]
<1>1. TickFits(tick[t]) /\ tick[t] \in TickStates /\ page \in Seq(Records) /\ Honest(page) /\ Shapes
  BY DEF FeedInv, TicksFit, TickFits, TickStates
<1>2. Plan(page) \subseteq Plans
  <2>1. \A i \in Artists : Newest(Scoped(Entries(page, i))) \in Nat
    BY <1>1, PageFits DEF Entities, Items
  <2> QED BY <2>1 DEF Plan, Plans, JobKinds, Entities, Items
<1>3. ASSUME NEW i \in Items
      PROVE  i \in PlannedOf(Plan(page), "media") \/ local.bound[i] >= Newest(Entries(page, i))
  <2>1. i \in Entities
    BY DEF Entities
  <2>2. CASE Stale(i, Entries(page, i))
    <3>1. [kind |-> "media", entity |-> i, version |-> 0] \in Plan(page)
      BY <2>2 DEF Plan
    <3> QED BY <3>1 DEF PlannedOf
  <2>3. CASE Entries(page, i) # {} /\ ~Stale(i, Entries(page, i))
    <3>1. Newest(Entries(page, i)) \in Nat /\ local.bound[i] \in Nat
      BY <1>1, <2>1, PageFits DEF Shapes, LocalType, Locals
    <3> QED BY <2>3, <3>1 DEF Stale
  <2>4. CASE Entries(page, i) = {}
    <3>1. Newest({}) <= 0 /\ Newest({}) \in Nat /\ local.bound[i] \in Nat
      BY <1>1, <2>1, NewestFits DEF Shapes, LocalType, Locals
    <3> QED BY <2>4, <3>1
  <2> QED BY <2>2, <2>3, <2>4
<1>4. ASSUME NEW a \in Artists
      PROVE  \/ \E j \in Plan(page) : /\ j.kind = "scope" /\ j.entity = a
                                      /\ j.version = Newest(Scoped(Entries(page, a)))
             \/ local.mark[a] >= Newest(Scoped(Entries(page, a)))
  <2>1. a \in Entities
    BY DEF Entities, Items
  <2>2. CASE TopStale(a, Entries(page, a))
    <3>1. [kind |-> "scope", entity |-> a, version |-> Newest(Scoped(Entries(page, a)))] \in Plan(page)
      BY <2>2 DEF Plan
    <3> QED BY <3>1
  <2>3. CASE Scoped(Entries(page, a)) # {} /\ ~TopStale(a, Entries(page, a))
    <3>1. Newest(Scoped(Entries(page, a))) \in Nat /\ local.mark[a] \in Nat
      BY <1>1, <2>1, PageFits DEF Shapes, LocalType, Locals
    <3> QED BY <2>3, <3>1 DEF TopStale
  <2>4. CASE Scoped(Entries(page, a)) = {}
    <3>1. Newest({}) <= 0 /\ Newest({}) \in Nat /\ local.mark[a] \in Nat
      BY <1>1, <2>1, NewestFits DEF Shapes, LocalType, Locals
    <3> QED BY <2>4, <3>1
  <2> QED BY <2>2, <2>3, <2>4
<1>5. TickFits(r)
  <2>1. r \in TickStates /\ r.page = page /\ r.plan = Plan(page) /\ r.pc = "commit"
    BY <1>1, <1>2 DEF TickStates
  <2> HIDE DEF r, page
  <2> QED BY <1>1, <1>3, <1>4, <2>1 DEF TickFits, MediaPlanned, TopPlanned
<1>6. tick' = [tick EXCEPT ![t] = r]
  BY DEF Resolves, FeedInv, TicksFit
<1>7. UNCHANGED Read /\ UNCHANGED queued /\ UNCHANGED row
  BY DEF Resolves, Read
<1> HIDE DEF r
<1> QED BY <1>1, <1>5, <1>6, <1>7, TickMoves DEF Shapes, UpType

\* A tick that fails is forgotten: its cursor has not moved.
LEMMA TickFailed ==
  ASSUME FeedInv, NEW t \in Tickers, TickFails(t)
  PROVE  FeedInv'
<1>1. TickFits(NoTick)
  BY DEF TickFits, NoTick, TickStates, Honest, ToSet
<1>2. tick' = [tick EXCEPT ![t] = NoTick] /\ UNCHANGED Read /\ UNCHANGED queued /\ UNCHANGED row
  BY DEF TickFails, Read
<1> QED BY <1>1, <1>2, TickMoves DEF FeedInv, Shapes, UpType
-----------------------------------------------------------------------------
(***************************************************************************)
(* A page's transaction.                                                   *)
(***************************************************************************)
\* It inserts well-formed jobs and acknowledges what the page says.
LEMMA CommitShapes ==
  ASSUME FeedInv, NEW t \in Tickers, Commits(t)
  PROVE  Shapes'
<1> DEFINE r == tick[t]
           page == tick[t].page
<1>1. TickFits(r) /\ r \in TickStates /\ page \in Seq(Records) /\ Honest(page) /\ Shapes
  BY DEF FeedInv, TicksFit, TickFits, TickStates
<1>2. UpType'
  <2>1. row' \in [cursor : Nat, stream : Nat]
    <3>1. r.cursor + Len(page) \in Nat /\ r.stream \in Nat /\ row.cursor \in Nat
      BY <1>1 DEF TickStates, Shapes, UpType
    <3>2. row' = Committed(r, r.cursor + Len(page))
      BY DEF Commits
    <3> QED BY <3>1, <3>2 DEF Committed, Larger
  <2> QED BY <1>1, <2>1 DEF Shapes, UpType, Commits
<1>3. QueueType'
  <2>1. queued' = Inserted(PlannedOf(r.plan, "media"))
    BY DEF Commits
  <2>2. queued \in [Items -> Seq(Nat)] /\ <<0>> \in Seq(Nat)
    BY <1>1 DEF Shapes, QueueType
  <2>3. queued' \in [Items -> Seq(Nat)]
    BY <2>1, <2>2 DEF Inserted
  <2> QED BY <1>1, <2>3 DEF Shapes, QueueType, Commits
<1>4. JobType'
  <2>1. person' \in [People -> Persons]
    <3>1. [NoPerson EXCEPT !.pc = "queued"] \in Persons
      BY DEF NoPerson, Persons
    <3>2. person' = [p \in People |-> IF p \in PlannedOf(r.plan, "person") /\ person[p].pc = "none"
                                      THEN [NoPerson EXCEPT !.pc = "queued"] ELSE person[p]]
      BY DEF Commits
    <3>3. person \in [People -> Persons]
      BY <1>1 DEF Shapes, JobType
    <3> QED BY <3>1, <3>2, <3>3
  <2>2. ASSUME NEW i \in Artists, NEW v \in Nat PROVE NewScope(i, v) \in Scopes
    BY DEF NewScope, Scopes
  <2>3. PlannedScopes(r.plan) \subseteq Scopes
    <3> SUFFICES ASSUME NEW j \in r.plan, j.kind = "scope" PROVE NewScope(j.entity, j.version) \in Scopes
      BY DEF PlannedScopes
    <3> QED BY <1>1, <2>2 DEF TickFits, TickStates, Plans
  <2>4. \A after : Backfilled(after) \subseteq Scopes
    BY <2>2 DEF Backfilled
  <2>5. scopes' \subseteq Scopes
    <3>1. scopes \subseteq Scopes
      BY <1>1 DEF Shapes, JobType
    <3>2. scopes' \subseteq (scopes \cup PlannedScopes(r.plan))
                            \cup Backfilled(scopes \cup PlannedScopes(r.plan))
      BY DEF Commits
    <3> QED BY <2>3, <2>4, <3>1, <3>2
  <2> QED BY <2>1, <2>5 DEF JobType
<1>5. LocalType'
  <2>1. \A e \in Entities : Newest(Entries(page, e)) \in Nat
    BY <1>1, PageFits
  <2>2. \A i \in Artists : Newest(Scoped(Entries(page, i))) \in Nat
    BY <1>1, PageFits DEF Entities, Items
  <2>3. owed \in [docs : [Entities -> Nat], tops : [Artists -> Nat]]
    BY <1>1 DEF Shapes, LocalType
  <2>4. [e \in Entities |-> Larger(owed.docs[e], Newest(Entries(page, e)))] \in [Entities -> Nat]
    BY <2>1, <2>3 DEF Larger
  <2>5. [i \in Artists |-> Larger(owed.tops[i], Newest(Scoped(Entries(page, i))))] \in [Artists -> Nat]
    BY <2>2, <2>3 DEF Larger
  <2>6. owed' = [docs |-> [e \in Entities |-> Larger(owed.docs[e], Newest(Entries(page, e)))],
                 tops |-> [i \in Artists |-> Larger(owed.tops[i], Newest(Scoped(Entries(page, i))))]]
    BY DEF Commits, Acknowledge
  <2>7. owed' \in [docs : [Entities -> Nat], tops : [Artists -> Nat]]
    BY <2>4, <2>5, <2>6
  <2> QED BY <1>1, <2>7 DEF Shapes, LocalType, Commits
<1> QED BY <1>2, <1>3, <1>4, <1>5 DEF Shapes

\* Every item the page names is bound to that version, or has a new refresh.
LEMMA CommitDocuments ==
  ASSUME FeedInv, NEW t \in Tickers, Commits(t)
  PROVE  Truth' /\ Documents'
<1> DEFINE page == tick[t].page
<1>1. TickFits(tick[t]) /\ tick[t].pc = "commit" /\ page \in Seq(Records) /\ Honest(page) /\ Shapes
  BY DEF FeedInv, TicksFit, TickFits, TickStates, Commits
<1>2. UNCHANGED <<up, refresh, local, dead>>
  BY DEF Commits
<1>3. ASSUME NEW i \in Items
      PROVE  /\ owed'.docs[i] = Larger(owed.docs[i], Newest(Entries(page, i)))
             /\ queued'[i] = IF i \in PlannedOf(tick[t].plan, "media") THEN <<0>> ELSE queued[i]
             /\ owed.docs[i] \in Nat /\ local.bound[i] \in Nat /\ local.stored[i] \in Nat
             /\ up.doc[i] \in Nat
             /\ Newest(Entries(page, i)) \in Nat /\ Newest(Entries(page, i)) <= up.doc[i]
  <2>1. i \in Entities
    BY DEF Entities
  <2>2. Newest(Entries(page, i)) \in Nat /\ Newest(Entries(page, i)) <= up.doc[i]
    BY <1>1, <2>1, PageFits
  <2>3. owed'.docs[i] = Larger(owed.docs[i], Newest(Entries(page, i)))
    BY <2>1 DEF Commits, Acknowledge
  <2>4. queued'[i] = IF i \in PlannedOf(tick[t].plan, "media") THEN <<0>> ELSE queued[i]
    BY DEF Commits, Inserted
  <2>5. owed.docs[i] \in Nat /\ local.bound[i] \in Nat /\ local.stored[i] \in Nat /\ up.doc[i] \in Nat
    BY <1>1, <2>1 DEF Shapes, LocalType, UpType, Locals, Ups
  <2> QED BY <2>2, <2>3, <2>4, <2>5
<1>4. Truth'
  <2>1. Honest(up.log)'
    BY <1>2 DEF FeedInv, Truth, Honest
  <2>2. ASSUME NEW i \in Items PROVE local.bound[i] <= up.doc[i] /\ owed'.docs[i] <= up.doc[i]
    BY <1>3 DEF FeedInv, Truth, Larger
  <2> QED BY <1>2, <2>1, <2>2 DEF FeedInv, Truth, Refreshing
<1>5. ASSUME NEW i \in Items
      PROVE  Kept(i, owed.docs[i])' /\ Kept(i, local.bound[i])' /\ Fetched(i)'
  <2>1. Kept(i, owed.docs[i]) /\ Kept(i, local.bound[i]) /\ Fetched(i)
    BY DEF FeedInv, Documents
  <2>2. refresh.doc \in Nat
    BY <1>1 DEF Shapes, QueueType, Refreshes
  <2>3. CASE i \in PlannedOf(tick[t].plan, "media")
    <3>1. queued'[i] # << >>
      BY <1>3, <2>3
    <3> QED BY <1>2, <2>1, <3>1 DEF Kept, Fetched, Refreshing
  <2>4. CASE i \notin PlannedOf(tick[t].plan, "media")
    <3>1. local.bound[i] >= Newest(Entries(page, i)) /\ queued'[i] = queued[i]
      BY <1>1, <1>3, <2>4 DEF TickFits, MediaPlanned
    <3>2. owed'.docs[i] = owed.docs[i] \/ owed'.docs[i] <= local.bound[i]
      BY <1>3, <3>1 DEF Larger
    <3>3. owed'.docs[i] \in Nat
      BY <1>3 DEF Larger
    <3>4. Kept(i, local.bound[i])'
      BY <1>2, <2>1, <3>1 DEF Kept, WillStore, Refreshing
    <3>5. Kept(i, owed.docs[i])'
      BY <1>2, <1>3, <2>1, <2>2, <3>1, <3>2, <3>3 DEF Kept, WillStore, Refreshing
    <3>6. Fetched(i)'
      BY <1>2, <1>3, <2>1, <2>2, <3>1, <3>2, <3>3 DEF Fetched, Refreshing
    <3> QED BY <3>4, <3>5, <3>6
  <2> QED BY <2>3, <2>4
<1> QED BY <1>4, <1>5 DEF Documents

\* Every top-tracks version it names is checkpointed, or has a reconciliation.
LEMMA CommitTopTracks ==
  ASSUME FeedInv, NEW t \in Tickers, Commits(t)
  PROVE  TopTracks'
<1> DEFINE page == tick[t].page
           r == tick[t]
<1>1. TickFits(r) /\ r.pc = "commit" /\ page \in Seq(Records) /\ Honest(page) /\ Shapes
  BY DEF FeedInv, TicksFit, TickFits, TickStates, Commits
<1>2. UNCHANGED <<local, dead>>
  BY DEF Commits
<1>3. scopes \cup PlannedScopes(r.plan) \subseteq scopes'
  BY DEF Commits
<1>4. ASSUME NEW s \in scopes', s \notin scopes PROVE s.pc = "queued"
  <2>1. s \in PlannedScopes(r.plan) \/ \E after : s \in Backfilled(after)
    BY <1>4 DEF Commits
  <2>2. \E i, v : s = NewScope(i, v)
    BY <2>1 DEF PlannedScopes, Backfilled
  <2> QED BY <2>2 DEF NewScope
<1>5. ASSUME NEW a \in Artists
      PROVE  \/ local.mark[a] >= owed'.tops[a]
             \/ \E s \in scopes' : s.item = a /\ s.version >= owed'.tops[a]
             \/ a \in dead.tops
  <2> DEFINE v == Newest(Scoped(Entries(page, a)))
  <2>1. v \in Nat /\ owed.tops[a] \in Nat
    BY <1>1, PageFits DEF Shapes, LocalType, Entities, Items
  <2>2. owed'.tops[a] = Larger(owed.tops[a], v)
    BY DEF Commits, Acknowledge
  <2>3. TopPlanned(r, a)
    BY <1>1 DEF TickFits
  <2> HIDE DEF v
  <2>4. CASE owed'.tops[a] = owed.tops[a]
    BY <1>3, <2>4 DEF FeedInv, TopTracks, TopTracksNotLost
  <2>5. CASE owed'.tops[a] = v
    <3>1. CASE local.mark[a] >= v
      BY <2>5, <3>1
    <3>2. CASE \E j \in r.plan : j.kind = "scope" /\ j.entity = a /\ j.version = v
      <4>1. PICK j \in r.plan : j.kind = "scope" /\ j.entity = a /\ j.version = v
        BY <3>2
      <4>2. CASE \E s \in scopes : s.item = j.entity /\ s.version = j.version
        BY <1>3, <2>1, <2>5, <4>1, <4>2
      <4>3. CASE ~\E s \in scopes : s.item = j.entity /\ s.version = j.version
        <5>1. NewScope(j.entity, j.version) \in PlannedScopes(r.plan)
          BY <4>1, <4>3 DEF PlannedScopes
        <5>2. NewScope(j.entity, j.version).item = a /\ NewScope(j.entity, j.version).version = v
          BY <4>1 DEF NewScope
        <5> QED BY <1>3, <2>1, <2>5, <5>1, <5>2
      <4> QED BY <4>2, <4>3
    <3> QED BY <2>3, <3>1, <3>2 DEF TopPlanned, v
  <2> QED BY <2>1, <2>2, <2>4, <2>5 DEF Larger
<1>6. \A s \in scopes' : s.pc = "store" => s.top >= s.version
  BY <1>4 DEF FeedInv, TopTracks
<1> QED BY <1>2, <1>5, <1>6 DEF FeedInv, TopTracks, TopTracksNotLost, RowsMatchCheckpoint

\* The whole transaction, and the tick that goes on or ends.
LEMMA PageCommitted ==
  ASSUME FeedInv, NEW t \in Tickers, Commits(t)
  PROVE  FeedInv'
<1> DEFINE r == tick[t]
           more == [r EXCEPT !.pc = "read", !.cursor = r.cursor + Len(r.page), !.page = << >>,
                             !.plan = {}, !.first = FALSE]
<1>1. tick \in [Tickers -> TickStates] /\ r \in TickStates
  BY DEF FeedInv, TicksFit, TickFits
<1>2. TickFits(NoTick)
  BY DEF TickFits, NoTick, TickStates, Honest, ToSet
<1>3. TickFits(more)
  <2>1. r.cursor + Len(r.page) \in Nat
    BY <1>1 DEF TickStates
  <2>2. << >> \in Seq(Records) /\ {} \in SUBSET Plans /\ FALSE \in BOOLEAN
    OBVIOUS
  <2>3. more \in TickStates /\ more.page = << >> /\ more.pc = "read"
    <3> DEFINE cursor == r.cursor + Len(r.page)
    <3>1. cursor \in Nat
      BY <2>1
    <3> HIDE DEF cursor
    <3>2. more = [r EXCEPT !.pc = "read", !.cursor = cursor, !.page = << >>, !.plan = {}, !.first = FALSE]
      BY DEF cursor
    <3> HIDE DEF r, more
    <3> QED BY <1>1, <2>2, <3>1, <3>2 DEF TickStates
  <2>4. Honest(<< >>)
    BY DEF Honest, ToSet
  <2> HIDE DEF more
  <2> QED BY <2>3, <2>4 DEF TickFits
<1>4. tick' = [tick EXCEPT ![t] = NoTick] \/ tick' = [tick EXCEPT ![t] = more]
  BY DEF Commits
<1> HIDE DEF more
<1>5. TicksFit'
  <2>1. tick' \in [Tickers -> TickStates]
    BY <1>1, <1>2, <1>3, <1>4 DEF TickFits
  <2>2. Forward
    <3>1. up \in Ups /\ \A e \in Entities : up.doc[e] >= up.doc[e]
      BY DEF FeedInv, Shapes, UpType, Ups
    <3> QED BY <3>1, ForwardStill DEF FeedInv, Commits
  <2>3. ASSUME NEW x \in {tick'[y] : y \in Tickers} PROVE TickFits(x)'
    <3>1. TickFits(x)
      BY <1>1, <1>2, <1>3, <1>4, <2>3 DEF FeedInv, TicksFit
    <3> QED BY <2>2, <3>1, TickFitsKept DEF FeedInv
  <2> QED BY <2>1, <2>3 DEF TicksFit
<1> QED BY <1>5, CommitShapes, CommitDocuments, CommitTopTracks DEF FeedInv
-----------------------------------------------------------------------------
(***************************************************************************)
(* The jobs.                                                               *)
(***************************************************************************)
\* A step of a job: what it leaves of the invariant is to be shown of the
\* documents and the top tracks alone.
LEMMA JobKeeps ==
  ASSUME FeedInv, UNCHANGED <<up, row, tick, owed>>, Shapes', Documents', TopTracks',
         \A i \in Items : /\ local'.bound[i] >= local.bound[i] /\ local'.bound[i] <= up.doc[i]
                          /\ Refreshing(i)' => refresh'.doc <= up.doc[i],
         \A a \in Artists : local'.mark[a] >= local.mark[a]
  PROVE  FeedInv'
<1>1. Truth'
  BY DEF FeedInv, Truth, Honest
<1>2. TicksFit'
  <2>1. Forward
    <3>1. up \in Ups /\ up' = up
      BY DEF FeedInv, Shapes, UpType
    <3>2. \A e \in Entities : up'.doc[e] >= up.doc[e]
      BY <3>1 DEF Ups
    <3> QED BY <3>1, <3>2 DEF Forward, Shapes, LocalType
  <2> QED BY <2>1, TickFitsKept DEF FeedInv, TicksFit
<1> QED BY <1>1, <1>2 DEF FeedInv

\* A step of item i's refresh leaves every other item alone.
OfItem(i) ==
  /\ UNCHANGED <<up, row, tick, person, scopes, owed>>
  /\ refresh.item \in {i, "none"} /\ refresh'.item \in {i, "none"}
  /\ QueueType'
  /\ local' \in Locals /\ local'.rows = local'.mark
  /\ \A a \in Artists : local'.mark[a] >= local.mark[a]
  /\ dead' \in [docs : SUBSET Entities, tops : SUBSET Artists] /\ dead'.tops = dead.tops
  /\ \A j \in Items \ {i} :
       /\ local'.bound[j] = local.bound[j] /\ local'.stored[j] = local.stored[j]
       /\ queued'[j] = queued[j]
       /\ j \in dead.docs => j \in dead'.docs
\* So a step of item i's refresh is a step of the invariant once it is one of i.
LEMMA RefreshKeeps ==
  ASSUME FeedInv, NEW i \in Items, OfItem(i),
         local'.bound[i] >= local.bound[i] /\ local'.bound[i] <= up.doc[i],
         Refreshing(i)' => refresh'.doc <= up.doc[i],
         Kept(i, owed.docs[i])', Kept(i, local.bound[i])', Fetched(i)'
  PROVE  FeedInv'
<1>1. Shapes'
  BY DEF OfItem, FeedInv, Shapes, UpType, JobType, LocalType
<1>2. ASSUME NEW j \in Items, j # i
      PROVE  /\ Kept(j, owed.docs[j])' /\ Kept(j, local.bound[j])' /\ Fetched(j)'
             /\ ~Refreshing(j) /\ ~Refreshing(j)'
  <2>1. ~Refreshing(j) /\ ~Refreshing(j)'
    BY <1>2, EntitiesAssumption DEF OfItem, Refreshing
  <2>2. owed' = owed /\ local'.bound[j] = local.bound[j]
    BY <1>2 DEF OfItem
  <2>3. Kept(j, owed.docs[j]) /\ Kept(j, local.bound[j])
    BY DEF FeedInv, Documents
  <2>4. Kept(j, owed.docs[j])' /\ Kept(j, local.bound[j])'
    BY <1>2, <2>1, <2>2, <2>3 DEF OfItem, Kept, WillStore, Refreshing
  <2> QED BY <2>1, <2>4 DEF Fetched
<1>3. Documents'
  BY <1>2 DEF Documents
<1>4. TopTracks'
  <2>1. ASSUME NEW a \in Artists, local.mark[a] >= owed.tops[a] PROVE local'.mark[a] >= owed.tops[a]
    <3>1. local.mark[a] \in Nat /\ local'.mark[a] \in Nat /\ owed.tops[a] \in Nat
          /\ local'.mark[a] >= local.mark[a]
      BY DEF OfItem, FeedInv, Shapes, LocalType, Locals
    <3> QED BY <2>1, <3>1
  <2> QED BY <2>1 DEF OfItem, FeedInv, TopTracks, TopTracksNotLost, RowsMatchCheckpoint
<1>5. \A j \in Items : /\ local'.bound[j] >= local.bound[j] /\ local'.bound[j] <= up.doc[j]
                       /\ Refreshing(j)' => refresh'.doc <= up.doc[j]
  <2>1. ASSUME NEW j \in Items, j # i PROVE local'.bound[j] >= local.bound[j] /\ local'.bound[j] <= up.doc[j]
    <3>1. j \in Entities /\ local \in Locals /\ up \in Ups
      BY DEF Entities, FeedInv, Shapes, LocalType, UpType
    <3> QED BY <2>1, <3>1 DEF OfItem, Locals, Ups, FeedInv, Truth
  <2> QED BY <1>2, <2>1
<1> QED BY <1>1, <1>3, <1>4, <1>5, JobKeeps DEF OfItem

\* What is known where item i's refresh begins, ends or goes on.
LEMMA ItemFacts ==
  ASSUME FeedInv, NEW i \in Items
  PROVE  /\ i \in Entities /\ i # "none"
         /\ local.bound[i] \in Nat /\ local.stored[i] \in Nat /\ owed.docs[i] \in Nat /\ up.doc[i] \in Nat
         /\ local.bound[i] <= up.doc[i] /\ owed.docs[i] <= up.doc[i]
         /\ Refreshing(i) => refresh.doc <= up.doc[i]
         /\ local \in Locals /\ refresh \in Refreshes /\ queued \in [Items -> Seq(Nat)]
         /\ dead \in [docs : SUBSET Entities, tops : SUBSET Artists]
         /\ local.rows = local.mark
         /\ \A a \in Artists : local.mark[a] \in Nat /\ local.mark[a] >= local.mark[a]
         /\ Kept(i, owed.docs[i]) /\ Kept(i, local.bound[i]) /\ Fetched(i)
         /\ NoRefresh \in Refreshes /\ NoRefresh.pc = "idle" /\ NoRefresh.item = "none"
<1>1. i \in Entities /\ i # "none"
  BY EntitiesAssumption DEF Entities
<1>2. local \in Locals /\ refresh \in Refreshes /\ queued \in [Items -> Seq(Nat)]
      /\ dead \in [docs : SUBSET Entities, tops : SUBSET Artists]
  BY DEF FeedInv, Shapes, LocalType, QueueType
<1>3. local.bound[i] \in Nat /\ local.stored[i] \in Nat /\ owed.docs[i] \in Nat /\ up.doc[i] \in Nat
  BY <1>1 DEF FeedInv, Shapes, LocalType, UpType, Locals, Ups
<1>4. \A a \in Artists : local.mark[a] \in Nat /\ local.mark[a] >= local.mark[a]
  BY <1>2 DEF Locals
<1>5. NoRefresh \in Refreshes /\ NoRefresh.pc = "idle" /\ NoRefresh.item = "none"
  BY DEF NoRefresh, Refreshes
<1> QED BY <1>1, <1>2, <1>3, <1>4, <1>5 DEF FeedInv, Truth, Documents, TopTracks, RowsMatchCheckpoint

\* A refresh takes the place of its row.
LEMMA RefreshStarts ==
  ASSUME FeedInv, NEW i \in Items, StartRefresh(i)
  PROVE  FeedInv'
<1>1. PICK n \in DOMAIN queued[i] :
        /\ refresh' = [NoRefresh EXCEPT !.pc = "fetch", !.item = i, !.tried = queued[i][n] + 1]
        /\ queued' = [queued EXCEPT ![i] = RemoveAt(@, n)]
  BY DEF StartRefresh
<1>2. queued[i] \in Seq(Nat) /\ queued[i][n] \in Nat
  BY <1>1, ItemFacts
<1>3. refresh' = [pc |-> "fetch", item |-> i, tried |-> queued[i][n] + 1, doc |-> 0, top |-> 0]
  BY <1>1 DEF NoRefresh
<1>4. refresh' \in Refreshes
  BY <1>2, <1>3 DEF Refreshes
<1>5. RemoveAt(queued[i], n) \in Seq(Nat)
  <2> DEFINE s == queued[i]
  <2>1. s \in Seq(Nat) /\ n \in 1..Len(s) /\ Len(s) \in Nat /\ \A k \in 1..Len(s) : s[k] \in Nat
    BY <1>1, <1>2
  <2> HIDE DEF s
  <2>2. SubSeq(s, 1, n - 1) \in Seq(Nat)
    <3>1. 1 \in Int /\ n - 1 \in Int /\ \A k \in 1 .. n - 1 : s[k] \in Nat
      BY <2>1
    <3> QED BY <3>1, SubSeqProperties
  <2>3. SubSeq(s, n + 1, Len(s)) \in Seq(Nat)
    <3>1. n + 1 \in Int /\ Len(s) \in Int /\ \A k \in n + 1 .. Len(s) : s[k] \in Nat
      BY <2>1
    <3> QED BY <3>1, SubSeqProperties
  <2>4. RemoveAt(s, n) \in Seq(Nat)
    BY <2>2, <2>3 DEF RemoveAt
  <2> QED BY <2>4 DEF s
<1>6. queued' \in [Items -> Seq(Nat)] /\ \A j \in Items \ {i} : queued'[j] = queued[j]
  BY <1>1, <1>5, ItemFacts
<1>7. refresh.item = "none" /\ UNCHANGED <<up, row, tick, person, scopes, local, dead, owed>>
  BY DEF StartRefresh, FeedInv, Shapes, QueueType
<1>8. OfItem(i)
  BY <1>3, <1>4, <1>6, <1>7, ItemFacts DEF OfItem, QueueType
<1>9. Kept(i, owed.docs[i])' /\ Kept(i, local.bound[i])' /\ Fetched(i)'
  BY <1>3 DEF Kept, WillStore, Refreshing, Fetched
<1>10. local'.bound[i] >= local.bound[i] /\ local'.bound[i] <= up.doc[i] /\ refresh'.doc <= up.doc[i]
  BY <1>3, <1>7, ItemFacts
<1> QED BY <1>8, <1>9, <1>10, RefreshKeeps

\* It fetches what is served, which the cursor has not passed.
LEMMA DetailFetched ==
  ASSUME FeedInv, NEW i \in Items, FetchDetail(i)
  PROVE  FeedInv'
<1>1. refresh' = [refresh EXCEPT !.pc = "base", !.doc = up.doc[i],
                                 !.top = IF i \in Artists THEN up.top[i] ELSE 0]
      /\ refresh.item = i /\ UNCHANGED <<up, row, tick, queued, person, scopes, local, dead, owed>>
  BY DEF FetchDetail, Refreshing
<1>2. (IF i \in Artists THEN up.top[i] ELSE 0) \in Nat
  BY DEF FeedInv, Shapes, UpType, Ups
<1>3. refresh' \in Refreshes /\ refresh'.pc = "base" /\ refresh'.doc = up.doc[i] /\ refresh'.item = i
  <2> DEFINE top == IF i \in Artists THEN up.top[i] ELSE 0
  <2>1. top \in Nat
    BY <1>2
  <2>2. refresh' = [refresh EXCEPT !.pc = "base", !.doc = up.doc[i], !.top = top]
    BY <1>1
  <2> HIDE DEF top
  <2> QED BY <1>1, <2>1, <2>2, ItemFacts DEF Refreshes
<1>4. OfItem(i)
  BY <1>1, <1>3, ItemFacts DEF OfItem, QueueType
<1>5. Kept(i, owed.docs[i])' /\ Kept(i, local.bound[i])' /\ Fetched(i)'
  BY <1>1, <1>3, ItemFacts DEF Kept, WillStore, Refreshing, Fetched
<1>6. local'.bound[i] >= local.bound[i] /\ local'.bound[i] <= up.doc[i] /\ refresh'.doc <= up.doc[i]
  BY <1>1, <1>3, ItemFacts
<1> QED BY <1>4, <1>5, <1>6, RefreshKeeps

\* It binds what it has fetched: no older than what was bound.
LEMMA CanonicalBound ==
  ASSUME FeedInv, NEW i \in Items, BindCanonical(i)
  PROVE  FeedInv'
<1>1. local' = [local EXCEPT !.bound[i] = Larger(@, refresh.doc)]
      /\ refresh' = [refresh EXCEPT !.pc = "rich"] /\ refresh.item = i /\ refresh.pc = "base"
      /\ UNCHANGED <<up, row, tick, queued, person, scopes, dead, owed>>
  BY DEF BindCanonical, Refreshing
<1>2. refresh.doc >= local.bound[i] /\ refresh.doc \in Nat /\ refresh.doc <= up.doc[i]
  BY <1>1, ItemFacts DEF Fetched, Refreshing, Refreshes
<1>3. refresh' \in Refreshes /\ refresh'.pc = "rich" /\ refresh'.doc = refresh.doc /\ refresh'.item = i
  BY <1>1, ItemFacts DEF Refreshes
<1>4. local' = [bound |-> [local.bound EXCEPT ![i] = refresh.doc], stored |-> local.stored,
                mark |-> local.mark, rows |-> local.rows]
  <2>1. Larger(local.bound[i], refresh.doc) = refresh.doc
    BY <1>2, ItemFacts DEF Larger
  <2> QED BY <1>1, <2>1, ItemFacts DEF Locals
<1>5. [local.bound EXCEPT ![i] = refresh.doc] \in [Entities -> Nat]
  BY <1>2, ItemFacts DEF Locals
<1>6. local' \in Locals
  BY <1>4, <1>5, ItemFacts DEF Locals
<1>7. local'.bound[i] = refresh.doc /\ local'.stored = local.stored /\ local'.mark = local.mark
      /\ local'.rows = local.rows /\ \A j \in Items \ {i} : local'.bound[j] = local.bound[j]
  BY <1>4, ItemFacts DEF Locals
<1>8. OfItem(i)
  BY <1>1, <1>3, <1>6, <1>7, ItemFacts DEF OfItem, QueueType
<1>9. Kept(i, owed.docs[i])' /\ Kept(i, local.bound[i])' /\ Fetched(i)'
  BY <1>1, <1>2, <1>3, <1>7, ItemFacts DEF Kept, WillStore, Refreshing, Fetched
<1>10. local'.bound[i] >= local.bound[i] /\ local'.bound[i] <= up.doc[i] /\ refresh'.doc <= up.doc[i]
  BY <1>2, <1>3, <1>7
<1> QED BY <1>8, <1>9, <1>10, RefreshKeeps
\* Storing an artist's top tracks keeps them at their checkpoint, which only
\* grows, and touches nothing else.
LEMMA ReplacedFits ==
  ASSUME NEW l \in Locals, l.rows = l.mark, NEW a \in Artists, NEW v \in Nat
  PROVE  /\ Replaced(l, a, v) \in Locals
         /\ Replaced(l, a, v).bound = l.bound /\ Replaced(l, a, v).stored = l.stored
         /\ Replaced(l, a, v).rows = Replaced(l, a, v).mark
         /\ \A b \in Artists : Replaced(l, a, v).mark[b] >= l.mark[b]
         /\ Replaced(l, a, v).mark[a] >= v
<1>1. l.mark \in [Artists -> Nat] /\ l.rows \in [Artists -> Nat]
  BY DEF Locals
<1>2. CASE l.mark[a] >= v
  <2>1. Replaced(l, a, v) = l
    BY <1>2 DEF Replaced
  <2>2. \A b \in Artists : l.mark[b] >= l.mark[b]
    BY <1>1
  <2> QED BY <1>2, <2>1, <2>2
<1>3. CASE ~(l.mark[a] >= v)
  <2>1. Replaced(l, a, v) = [bound |-> l.bound, stored |-> l.stored,
                             mark |-> [l.mark EXCEPT ![a] = v], rows |-> [l.rows EXCEPT ![a] = v]]
    BY <1>3 DEF Replaced, Locals
  <2>2. [l.mark EXCEPT ![a] = v] \in [Artists -> Nat]
        /\ [l.mark EXCEPT ![a] = v] = [l.rows EXCEPT ![a] = v]
    BY <1>1
  <2>3. \A b \in Artists : [l.mark EXCEPT ![a] = v][b] >= l.mark[b]
    BY <1>1, <1>3
  <2>4. Replaced(l, a, v) \in Locals
    BY <2>1, <2>2 DEF Locals
  <2> QED BY <1>1, <2>1, <2>2, <2>3, <2>4
<1> QED BY <1>2, <1>3

\* It stores what it has fetched.
LEMMA DocumentStored ==
  ASSUME FeedInv, NEW i \in Items, StoreDocument(i)
  PROVE  FeedInv'
<1> DEFINE new == [local EXCEPT !.stored[i] = refresh.doc]
<1>1. local' = new \/ (i \in Artists /\ local' = Replaced(new, i, refresh.top))
  BY DEF StoreDocument
<1>2. /\ refresh' = NoRefresh /\ refresh.item = i /\ refresh.pc = "rich"
      /\ UNCHANGED <<up, row, tick, queued, person, scopes, owed>>
  BY DEF StoreDocument, Refreshing
<1>3. refresh.doc \in Nat /\ refresh.top \in Nat
  BY ItemFacts DEF Refreshes
<1>4. refresh.doc >= local.bound[i] /\ (queued[i] # << >> \/ refresh.doc >= owed.docs[i])
  BY <1>2, ItemFacts DEF Fetched, Refreshing
<1>5. /\ new \in Locals /\ new.bound = local.bound /\ new.mark = local.mark /\ new.rows = local.rows
      /\ new.stored = [local.stored EXCEPT ![i] = refresh.doc]
  <2>1. new = [bound |-> local.bound, stored |-> [local.stored EXCEPT ![i] = refresh.doc],
               mark |-> local.mark, rows |-> local.rows]
    <3>1. local \in Locals
      BY ItemFacts
    <3> QED BY <3>1 DEF Locals
  <2>2. [local.stored EXCEPT ![i] = refresh.doc] \in [Entities -> Nat]
    BY <1>3, ItemFacts DEF Locals
  <2> QED BY <2>1, <2>2, ItemFacts DEF Locals
<1> HIDE DEF new
<1>6. new.rows = new.mark
  BY <1>5, ItemFacts
<1>7. /\ local' \in Locals /\ local'.bound = local.bound /\ local'.rows = local'.mark
      /\ local'.stored = [local.stored EXCEPT ![i] = refresh.doc]
      /\ \A a \in Artists : local'.mark[a] >= local.mark[a]
  <2>1. CASE i \in Artists /\ local' = Replaced(new, i, refresh.top)
    BY <1>3, <1>5, <1>6, <2>1, ReplacedFits
  <2>2. CASE local' = new
    BY <1>5, <1>6, <2>2, ItemFacts
  <2> QED BY <1>1, <2>1, <2>2
<1>8. local'.stored[i] = refresh.doc /\ \A j \in Items \ {i} : local'.stored[j] = local.stored[j]
  BY <1>7, ItemFacts DEF Locals
<1>9. dead' = [docs |-> dead.docs \ {i}, tops |-> dead.tops]
  BY ItemFacts DEF StoreDocument, DocAlive
<1>10. dead' \in [docs : SUBSET Entities, tops : SUBSET Artists]
  BY <1>9, ItemFacts
<1>11. OfItem(i)
  BY <1>2, <1>7, <1>8, <1>9, <1>10, ItemFacts DEF OfItem, QueueType
<1>12. Kept(i, owed.docs[i])' /\ Kept(i, local.bound[i])' /\ Fetched(i)'
  BY <1>2, <1>4, <1>7, <1>8, ItemFacts DEF Kept, Fetched, Refreshing
<1>13. local'.bound[i] >= local.bound[i] /\ local'.bound[i] <= up.doc[i] /\ ~Refreshing(i)'
  BY <1>2, <1>7, ItemFacts DEF Refreshing
<1> QED BY <1>11, <1>12, <1>13, RefreshKeeps

\* A refresh that ends otherwise is queued again, or its item is given up.
LEMMA RefreshEnds ==
  ASSUME FeedInv, NEW i \in Items, Refreshing(i), refresh' = NoRefresh,
         UNCHANGED <<up, row, tick, person, scopes, local, owed>>,
         Requeue(i) \/ SkipArtist(i)
  PROVE  FeedInv'
<1>1. /\ queued' \in [Items -> Seq(Nat)] /\ \A j \in Items \ {i} : queued'[j] = queued[j]
      /\ dead' \in [docs : SUBSET Entities, tops : SUBSET Artists] /\ dead'.tops = dead.tops
      /\ \A j \in Items : j \in dead.docs => j \in dead'.docs
      /\ queued'[i] # << >> \/ i \in dead'.docs
  <2>1. CASE UNCHANGED queued /\ DocDead(i)
    <3>1. dead' = [docs |-> dead.docs \cup {i}, tops |-> dead.tops]
      BY <2>1, ItemFacts DEF DocDead
    <3> QED BY <2>1, <3>1, ItemFacts
  <2>2. CASE queued' = [queued EXCEPT ![i] = <<refresh.tried>> \o @] /\ UNCHANGED dead
    <3>1. queued[i] \in Seq(Nat) /\ refresh.tried \in Nat
      BY ItemFacts DEF Refreshes
    <3>2. <<refresh.tried>> \o queued[i] \in Seq(Nat) /\ <<refresh.tried>> \o queued[i] # << >>
      BY <3>1
    <3> QED BY <2>2, <3>2, ItemFacts
  <2> QED BY <2>1, <2>2 DEF Requeue, SkipArtist
<1>2. OfItem(i)
  BY <1>1, ItemFacts DEF OfItem, QueueType, Refreshing
<1>3. Kept(i, owed.docs[i])' /\ Kept(i, local.bound[i])' /\ Fetched(i)' /\ ~Refreshing(i)'
  BY <1>1, ItemFacts DEF Kept, Fetched, Refreshing
<1>4. local'.bound[i] >= local.bound[i] /\ local'.bound[i] <= up.doc[i]
  BY ItemFacts
<1> QED BY <1>2, <1>3, <1>4, RefreshKeeps

\* Every step of an item's refresh, and its failures.
LEMMA ItemKeeps ==
  ASSUME FeedInv, NEW i \in Items, RefreshStep(i) \/ FetchFails(i) \/ MarkFailed(i)
  PROVE  FeedInv'
<1>1. CASE RescueRefresh(i)
  BY <1>1, RefreshEnds DEF RescueRefresh
<1>2. CASE FetchFails(i)
  BY <1>2, RefreshEnds DEF FetchFails
<1>3. CASE MarkFailed(i)
  BY <1>3, RefreshEnds DEF MarkFailed, SkipArtist
<1> QED BY <1>1, <1>2, <1>3, RefreshStarts, DetailFetched, CanonicalBound, DocumentStored DEF RefreshStep

\* The ways in which a person's job fails.
PersonFails(p) == PersonFetchFails(p) \/ UpdatePersonFails(p) \/ PersonWritesFail(p)

\* A person's job touches no item.
LEMMA PersonKeeps ==
  ASSUME FeedInv, NEW p \in People, FetchStep(p) \/ PersonFails(p)
  PROVE  FeedInv'
<1>1. /\ person \in [People -> Persons] /\ local \in Locals /\ up \in Ups /\ p \in Entities
      /\ dead \in [docs : SUBSET Entities, tops : SUBSET Artists]
      /\ \A i \in Items : i # p /\ i \in Entities
  BY EntitiesAssumption DEF FeedInv, Shapes, JobType, LocalType, UpType, Entities
<1>2. person[p] \in Persons
  BY <1>1
<1>3. UNCHANGED <<up, row, tick, queued, refresh, scopes, owed>>
  BY DEF FetchStep, StartPerson, FetchPerson, StorePerson, RescuePerson, PersonFails, PersonFetchFails,
         UpdatePersonFails, PersonWritesFail, RetriesPerson, GivesUpPerson, PersonStep
<1>4. \E to \in Persons : person' = [person EXCEPT ![p] = to]
  <2>1. NoPerson \in Persons
    BY DEF NoPerson, Persons
  <2>2. [person[p] EXCEPT !.pc = "fetch", !.tried = @ + 1] \in Persons
    <3>1. \A n \in Nat : [person[p] EXCEPT !.pc = "fetch", !.tried = n] \in Persons
      BY <1>2 DEF Persons, Running
    <3>2. person[p].tried + 1 \in Nat
      BY <1>2 DEF Persons
    <3> QED BY <3>1, <3>2
  <2>3. [person[p] EXCEPT !.pc = "store", !.doc = up.doc[p]] \in Persons
    BY <1>1, <1>2 DEF Persons, Running, Ups
  <2>4. [person[p] EXCEPT !.pc = "queued"] \in Persons
    BY <1>2 DEF Persons
  <2> QED BY <2>1, <2>2, <2>3, <2>4
          DEF FetchStep, StartPerson, FetchPerson, StorePerson, RescuePerson, PersonFails, PersonFetchFails,
              UpdatePersonFails, PersonWritesFail, RetriesPerson, GivesUpPerson, PersonStep
<1>5. person' \in [People -> Persons]
  BY <1>1, <1>4
<1>6. /\ dead' \in [docs : SUBSET Entities, tops : SUBSET Artists] /\ dead'.tops = dead.tops
      /\ \A i \in Items : i \in dead'.docs <=> i \in dead.docs
  <2>1. UNCHANGED dead \/ DocDead(p) \/ DocAlive(p)
    BY DEF FetchStep, StartPerson, FetchPerson, StorePerson, RescuePerson, PersonFails, PersonFetchFails,
           UpdatePersonFails, PersonWritesFail, RetriesPerson, GivesUpPerson
  <2>2. CASE DocDead(p)
    <3>1. dead' = [docs |-> dead.docs \cup {p}, tops |-> dead.tops]
      BY <1>1, <2>2 DEF DocDead
    <3> QED BY <1>1, <3>1
  <2>3. CASE DocAlive(p)
    <3>1. dead' = [docs |-> dead.docs \ {p}, tops |-> dead.tops]
      BY <1>1, <2>3 DEF DocAlive
    <3> QED BY <1>1, <3>1
  <2> QED BY <1>1, <2>1, <2>2, <2>3
<1>7. /\ local' \in Locals /\ local'.mark = local.mark /\ local'.rows = local.rows
      /\ \A i \in Items : local'.bound[i] = local.bound[i] /\ local'.stored[i] = local.stored[i]
  <2>1. UNCHANGED local
        \/ local' = [local EXCEPT !.stored[p] = person[p].doc, !.bound[p] = Larger(@, person[p].doc)]
    BY DEF StoredPerson, FetchStep, StartPerson, FetchPerson, StorePerson, RescuePerson, PersonFails, PersonFetchFails,
           UpdatePersonFails, PersonWritesFail, RetriesPerson, GivesUpPerson
  <2>2. CASE local' = [local EXCEPT !.stored[p] = person[p].doc, !.bound[p] = Larger(@, person[p].doc)]
    <3> DEFINE v == Larger(local.bound[p], person[p].doc)
    <3>1. v \in Nat /\ person[p].doc \in Nat
      BY <1>1, <1>2 DEF Larger, Locals, Persons
    <3>2. local' = [bound |-> [local.bound EXCEPT ![p] = v],
                    stored |-> [local.stored EXCEPT ![p] = person[p].doc],
                    mark |-> local.mark, rows |-> local.rows]
      BY <1>1, <2>2 DEF Locals
    <3> HIDE DEF v
    <3>3. [local.bound EXCEPT ![p] = v] \in [Entities -> Nat]
          /\ [local.stored EXCEPT ![p] = person[p].doc] \in [Entities -> Nat]
      BY <1>1, <3>1 DEF Locals
    <3>4. local' \in Locals
      BY <1>1, <3>2, <3>3 DEF Locals
    <3> QED BY <1>1, <3>2, <3>4 DEF Locals
  <2> QED BY <1>1, <2>1, <2>2
<1>8. Shapes'
  BY <1>3, <1>5, <1>6, <1>7 DEF FeedInv, Shapes, UpType, QueueType, JobType, LocalType
<1>9. Documents'
  <2>1. \A i \in Items : Kept(i, owed.docs[i]) /\ Kept(i, local.bound[i]) /\ Fetched(i)
    BY DEF FeedInv, Documents
  <2>2. ASSUME NEW i \in Items PROVE Kept(i, owed.docs[i])' /\ Kept(i, local.bound[i])' /\ Fetched(i)'
    BY <1>3, <1>6, <1>7, <2>1 DEF Kept, Fetched, WillStore, Refreshing
  <2> QED BY <2>2 DEF Documents
<1>10. TopTracks'
  BY <1>3, <1>6, <1>7 DEF FeedInv, TopTracks, TopTracksNotLost, RowsMatchCheckpoint
<1>11. \A i \in Items : /\ local'.bound[i] >= local.bound[i] /\ local'.bound[i] <= up.doc[i]
                        /\ Refreshing(i)' => refresh'.doc <= up.doc[i]
  BY <1>1, <1>3, <1>7 DEF FeedInv, Truth, Locals, Refreshing
<1>12. \A a \in Artists : local'.mark[a] >= local.mark[a]
  BY <1>1, <1>7 DEF Locals
<1> QED BY <1>3, <1>8, <1>9, <1>10, <1>11, <1>12, JobKeeps
\* A reconciliation goes on, or ends with its version checkpointed or its
\* artist given up.
LEMMA ScopeMoves ==
  ASSUME FeedInv, NEW STATE s, NEW STATE after, ScopeStep(s, after), after \subseteq Scopes,
         \A x \in after : x.pc = "store" => x.top >= x.version,
         local' \in Locals, local'.rows = local'.mark, \A a \in Artists : local'.mark[a] >= local.mark[a],
         local'.bound = local.bound, local'.stored = local.stored,
         dead' \in [docs : SUBSET Entities, tops : SUBSET Artists],
         dead'.docs = dead.docs, dead.tops \subseteq dead'.tops,
         \/ \E x \in after : x.item = s.item /\ x.version = s.version
         \/ local'.mark[s.item] >= s.version
         \/ s.item \in dead'.tops
  PROVE  FeedInv'
<1>1. /\ scopes \subseteq Scopes /\ local \in Locals /\ up \in Ups /\ s \in Scopes
      /\ owed \in [docs : [Entities -> Nat], tops : [Artists -> Nat]]
  BY DEF FeedInv, Shapes, JobType, LocalType, UpType, ScopeStep
<1>2. /\ scopes' = (scopes \ {s}) \cup after
      /\ UNCHANGED <<up, row, tick, queued, refresh, person, owed>>
  BY DEF ScopeStep
<1>3. Shapes'
  BY <1>1, <1>2 DEF FeedInv, Shapes, UpType, QueueType, JobType, LocalType
<1>4. Documents'
  <2>1. \A i \in Items : Kept(i, owed.docs[i]) /\ Kept(i, local.bound[i]) /\ Fetched(i)
    BY DEF FeedInv, Documents
  <2>2. ASSUME NEW i \in Items PROVE Kept(i, owed.docs[i])' /\ Kept(i, local.bound[i])' /\ Fetched(i)'
    BY <1>2, <2>1 DEF Kept, Fetched, WillStore, Refreshing
  <2> QED BY <2>2 DEF Documents
<1>5. ASSUME NEW a \in Artists
      PROVE  \/ local'.mark[a] >= owed.tops[a]
             \/ \E x \in scopes' : x.item = a /\ x.version >= owed.tops[a]
             \/ a \in dead'.tops
  <2>1. /\ local.mark[a] \in Nat /\ local'.mark[a] \in Nat /\ owed.tops[a] \in Nat
        /\ local'.mark[a] >= local.mark[a]
    BY <1>1 DEF Locals
  <2>2. \/ local.mark[a] >= owed.tops[a]
        \/ \E x \in scopes : x.item = a /\ x.version >= owed.tops[a]
        \/ a \in dead.tops
    BY DEF FeedInv, TopTracks, TopTracksNotLost
  <2>3. CASE local.mark[a] >= owed.tops[a]
    BY <2>1, <2>3
  <2>4. CASE \E x \in scopes : x.item = a /\ x.version >= owed.tops[a]
    <3>1. PICK x \in scopes : x.item = a /\ x.version >= owed.tops[a]
      BY <2>4
    <3>2. CASE x # s
      BY <1>2, <3>1, <3>2
    <3>3. CASE x = s
      <4>1. s.item = a /\ s.version >= owed.tops[a] /\ s.version \in Nat
        BY <1>1, <3>1, <3>3 DEF Scopes
      <4>2. CASE \E y \in after : y.item = s.item /\ y.version = s.version
        BY <1>2, <4>1, <4>2
      <4>3. CASE local'.mark[s.item] >= s.version
        BY <2>1, <4>1, <4>3
      <4> QED BY <4>1, <4>2, <4>3
    <3> QED BY <3>2, <3>3
  <2> QED BY <2>2, <2>3, <2>4
<1>6. TopTracks'
  <2>1. \A x \in scopes' : x.pc = "store" => x.top >= x.version
    BY <1>2 DEF FeedInv, TopTracks
  <2> QED BY <1>2, <1>5, <2>1 DEF TopTracks, TopTracksNotLost, RowsMatchCheckpoint
<1>7. \A i \in Items : /\ local'.bound[i] >= local.bound[i] /\ local'.bound[i] <= up.doc[i]
                       /\ Refreshing(i)' => refresh'.doc <= up.doc[i]
  <2>1. ASSUME NEW i \in Items PROVE local.bound[i] \in Nat
    BY <1>1 DEF Locals, Entities
  <2> QED BY <1>2, <2>1 DEF FeedInv, Truth, Refreshing
<1> QED BY <1>2, <1>3, <1>4, <1>6, <1>7, JobKeeps

\* Every step of a reconciliation, and its failure.
LEMMA ScopeKeeps ==
  ASSUME FeedInv, NEW s \in scopes, ScopeWork(s) \/ FetchScopeFails(s)
  PROVE  FeedInv'
<1>1. /\ s \in Scopes /\ local \in Locals /\ local.rows = local.mark /\ up \in Ups
      /\ dead \in [docs : SUBSET Entities, tops : SUBSET Artists]
      /\ s.pc = "store" => s.top >= s.version
  BY DEF FeedInv, Shapes, JobType, LocalType, UpType, TopTracks, RowsMatchCheckpoint
<1>2. /\ s.item \in Artists /\ s.version \in Nat /\ s.tried + 1 \in Nat /\ s.top \in Nat
      /\ up.top[s.item] \in Nat /\ s.item \in Entities
  BY <1>1 DEF Scopes, Ups, Entities, Items
<1>3. \A a \in Artists : local.mark[a] \in Nat /\ local.mark[a] >= local.mark[a]
  BY <1>1 DEF Locals
<1>4. CASE StartScope(s)
  <2>1. UNCHANGED <<local, dead>>
    BY <1>4 DEF StartScope
  <2>2. CASE Redundant(s)
    <3>1. local.mark[s.item] >= s.version
      <4>1. local.mark[s.item] >= Larger(s.version, local.bound[s.item]) /\ local.bound[s.item] \in Nat
        BY <1>1, <1>2, <2>2 DEF Redundant, Locals
      <4> QED BY <1>2, <1>3, <4>1 DEF Larger
    <3>2. ScopeStep(s, {})
      BY <1>4, <2>2 DEF StartScope
    <3> QED BY <1>1, <1>3, <2>1, <3>1, <3>2, ScopeMoves
  <2>3. CASE ~Redundant(s)
    <3> DEFINE x == [s EXCEPT !.pc = "fetch", !.tried = @ + 1]
    <3>1. x \in Scopes /\ x.item = s.item /\ x.version = s.version /\ x.pc # "store"
      <4>1. \A n \in Nat : /\ [s EXCEPT !.pc = "fetch", !.tried = n] \in Scopes
                           /\ [s EXCEPT !.pc = "fetch", !.tried = n].item = s.item
                           /\ [s EXCEPT !.pc = "fetch", !.tried = n].version = s.version
                           /\ [s EXCEPT !.pc = "fetch", !.tried = n].pc = "fetch"
        BY <1>1 DEF Scopes, Running
      <4>2. /\ x \in Scopes /\ x.item = s.item /\ x.version = s.version /\ x.pc = "fetch"
        BY <1>2, <4>1
      <4> QED BY <4>2
    <3>2. ScopeStep(s, {x})
      BY <1>4, <2>3 DEF StartScope
    <3> HIDE DEF x
    <3> QED BY <1>1, <1>3, <2>1, <3>1, <3>2, ScopeMoves
  <2> QED BY <2>2, <2>3
<1>5. CASE FetchScope(s)
  <2> DEFINE x == [s EXCEPT !.pc = "store", !.top = up.top[s.item]]
  <2>1. x \in Scopes /\ x.item = s.item /\ x.version = s.version /\ x.top = up.top[s.item]
    BY <1>1, <1>2 DEF Scopes, Running
  <2>2. up.top[s.item] >= s.version
    BY <1>2, <1>5 DEF FetchScope, Served
  <2>3. ScopeStep(s, {x}) /\ UNCHANGED <<local, dead>>
    BY <1>5 DEF FetchScope
  <2> HIDE DEF x
  <2> QED BY <1>1, <1>3, <2>1, <2>2, <2>3, ScopeMoves
<1>6. CASE StoreScope(s)
  <2>1. local' = Replaced(local, s.item, s.top) /\ ScopeStep(s, {}) /\ dead' = dead /\ s.pc = "store"
    BY <1>6 DEF StoreScope
  <2>2. /\ local' \in Locals /\ local'.bound = local.bound /\ local'.stored = local.stored
        /\ local'.rows = local'.mark /\ \A a \in Artists : local'.mark[a] >= local.mark[a]
        /\ local'.mark[s.item] >= s.top
    BY <1>1, <1>2, <2>1, ReplacedFits
  <2>3. local'.mark[s.item] >= s.version
    <3>1. local'.mark[s.item] \in Nat
      BY <1>2, <2>2 DEF Locals
    <3> QED BY <1>1, <1>2, <2>1, <2>2, <3>1
  <2> QED BY <1>1, <2>1, <2>2, <2>3, ScopeMoves
<1>7. CASE ScopeFails(s)
  <2> DEFINE x == [s EXCEPT !.pc = "queued"]
  <2>1. x \in Scopes /\ x.item = s.item /\ x.version = s.version /\ x.pc # "store"
    BY <1>1 DEF Scopes
  <2> HIDE DEF x
  <2>2. local' = local
    BY <1>7 DEF ScopeFails
  <2>3. CASE ScopeStep(s, {x}) /\ dead' = dead
    BY <1>1, <1>3, <2>1, <2>2, <2>3, ScopeMoves
  <2>4. CASE ScopeStep(s, {}) /\ TopDead(s.item)
    <3>1. dead' = [docs |-> dead.docs, tops |-> dead.tops \cup {s.item}]
      BY <1>1, <2>4 DEF TopDead
    <3> QED BY <1>1, <1>2, <1>3, <2>2, <2>4, <3>1, ScopeMoves
  <2> QED BY <1>7, <2>3, <2>4 DEF ScopeFails, x
<1> QED BY <1>4, <1>5, <1>6, <1>7 DEF ScopeWork, RescueScope, FetchScopeFails
-----------------------------------------------------------------------------
(***************************************************************************)
(* The process, and the whole.                                             *)
(***************************************************************************)
\* A crash or a takeover loses no row: what ran waits to be rescued.
LEMMA HaltKeeps ==
  ASSUME FeedInv, Crash \/ Displaced
  PROVE  FeedInv'
<1>1. /\ Halted
      /\ refresh \in Refreshes /\ person \in [People -> Persons] /\ scopes \subseteq Scopes
      /\ tick \in [Tickers -> TickStates] /\ local \in Locals /\ up \in Ups
  BY DEF Crash, Displaced, FeedInv, Shapes, QueueType, JobType, TicksFit, LocalType, UpType
<1>2. UNCHANGED <<up, row, queued, local, dead, owed>>
  BY <1>1 DEF Halted
<1>3. /\ refresh' \in Refreshes /\ refresh'.item = refresh.item /\ refresh'.doc = refresh.doc
      /\ refresh'.pc = IF refresh.pc = "idle" THEN "idle" ELSE "lost"
  <2>1. CASE refresh.pc = "idle"
    BY <1>1, <2>1 DEF Halted
  <2>2. CASE refresh.pc # "idle"
    <3>1. refresh' = [refresh EXCEPT !.pc = "lost"]
      BY <1>1, <2>2 DEF Halted
    <3> QED BY <1>1, <2>2, <3>1 DEF Refreshes
  <2> QED BY <2>1, <2>2
<1>4. person' \in [People -> Persons]
  <2>1. \A x \in Persons : [x EXCEPT !.pc = "lost"] \in Persons
    BY DEF Persons
  <2>2. person' = [p \in People |-> IF person[p].pc \in Running THEN [person[p] EXCEPT !.pc = "lost"]
                                    ELSE person[p]]
    BY <1>1 DEF Halted
  <2> QED BY <1>1, <2>1, <2>2
<1> DEFINE Stopped(s) == IF s.pc \in Running THEN [s EXCEPT !.pc = "lost"] ELSE s
<1>5. ASSUME NEW s \in Scopes
      PROVE  /\ Stopped(s) \in Scopes /\ Stopped(s).item = s.item /\ Stopped(s).version = s.version
             /\ Stopped(s).pc # "store"
  BY DEF Scopes, Running
<1>6. scopes' = {Stopped(s) : s \in scopes}
  BY <1>1 DEF Halted
<1> HIDE DEF Stopped
<1>7. Shapes'
  <2>1. QueueType'
    BY <1>2, <1>3 DEF FeedInv, Shapes, QueueType
  <2>2. scopes' \subseteq Scopes
    BY <1>1, <1>5, <1>6
  <2> QED BY <1>2, <1>4, <2>1, <2>2 DEF FeedInv, Shapes, UpType, JobType, LocalType
<1>8. Truth'
  BY <1>2, <1>3 DEF FeedInv, Truth, Honest, Refreshing
<1>9. Documents'
  <2>1. \A i \in Items : Kept(i, owed.docs[i]) /\ Kept(i, local.bound[i])
    BY DEF FeedInv, Documents
  <2>2. \A i \in Items : Refreshing(i) => refresh.pc # "idle"
    BY EntitiesAssumption DEF FeedInv, Shapes, QueueType, Refreshing
  <2>3. ASSUME NEW i \in Items PROVE Kept(i, owed.docs[i])' /\ Kept(i, local.bound[i])'
    BY <1>2, <1>3, <2>1, <2>2 DEF Kept, WillStore, Refreshing
  <2>4. ASSUME NEW i \in Items PROVE Fetched(i)'
    BY <1>3 DEF Fetched
  <2> QED BY <2>3, <2>4 DEF Documents
<1>10. TicksFit'
  <2>1. TickFits(NoTick) /\ NoTick \in TickStates
    BY DEF TickFits, NoTick, TickStates, Honest, ToSet
  <2>2. tick' \in [Tickers -> TickStates]
    BY <1>1, <2>1 DEF Crash, Displaced, Tickers
  <2>3. ASSUME NEW r \in {tick'[t] : t \in Tickers} PROVE r = NoTick \/ r \in {tick[t] : t \in Tickers}
    BY <1>1, <2>3 DEF Crash, Displaced, Tickers
  <2>4. Forward
    <3>1. \A e \in Entities : up.doc[e] >= up.doc[e]
      BY <1>1 DEF Ups
    <3> QED BY <1>1, <1>2, <3>1, ForwardStill DEF FeedInv
  <2>5. ASSUME NEW r \in {tick'[t] : t \in Tickers} PROVE TickFits(r)'
    <3>1. TickFits(r)
      BY <2>1, <2>3, <2>5 DEF FeedInv, TicksFit
    <3> QED BY <2>4, <3>1, TickFitsKept DEF FeedInv
  <2> QED BY <2>2, <2>5 DEF TicksFit
<1>11. TopTracks'
  <2>1. \A s \in scopes' : s.pc # "store"
    BY <1>1, <1>5, <1>6
  <2>2. ASSUME NEW s \in scopes PROVE \E x \in scopes' : x.item = s.item /\ x.version = s.version
    BY <1>1, <1>5, <1>6, <2>2
  <2>3. ASSUME NEW a \in Artists
        PROVE  \/ local.mark[a] >= owed.tops[a]
               \/ \E x \in scopes' : x.item = a /\ x.version >= owed.tops[a]
               \/ a \in dead.tops
    BY <2>2 DEF FeedInv, TopTracks, TopTracksNotLost
  <2> QED BY <1>2, <2>1, <2>3 DEF FeedInv, TopTracks, TopTracksNotLost, RowsMatchCheckpoint
<1> QED BY <1>7, <1>8, <1>9, <1>10, <1>11 DEF FeedInv

\* A library at version 1, of which nothing has been acknowledged.
LEMMA InitFeed ==
  ASSUME Init
  PROVE  FeedInv
<1>1. PICK mark \in [Artists -> {0, 1}] :
        local = [bound |-> [e \in Entities |-> 1], stored |-> [e \in Entities |-> 1],
                 mark |-> mark, rows |-> mark]
  BY DEF Init
<1>2. mark \in [Artists -> Nat] /\ [e \in Entities |-> 1] \in [Entities -> Nat]
      /\ [e \in Entities |-> 0] \in [Entities -> Nat] /\ [a \in Artists |-> 0] \in [Artists -> Nat]
      /\ [a \in Artists |-> 1] \in [Artists -> Nat]
  OBVIOUS
<1>3. \A i \in Items : i \in Entities
  BY DEF Entities
<1>4. local \in Locals /\ local.rows = local.mark
      /\ \A i \in Items : local.bound[i] = 1 /\ local.stored[i] = 1
  BY <1>1, <1>2, <1>3 DEF Locals
<1>5. /\ up = [stream |-> 1, log |-> << >>, doc |-> [e \in Entities |-> 1], top |-> [a \in Artists |-> 1]]
      /\ owed = [docs |-> [e \in Entities |-> 0], tops |-> [a \in Artists |-> 0]]
      /\ dead = [docs |-> {}, tops |-> {}]
  BY DEF Init
<1>6. UpType
  <2>1. << >> \in Seq(Records)
    OBVIOUS
  <2>2. up \in Ups
    BY <1>2, <1>5, <2>1 DEF Ups
  <2>3. row \in [cursor : Nat, stream : Nat]
    BY DEF Init
  <2> QED BY <2>2, <2>3 DEF UpType
<1>7. QueueType /\ refresh.item = "none"
  BY DEF Init, QueueType, NoRefresh, Refreshes
<1>8. JobType
  BY DEF Init, JobType, NoPerson, Persons
<1>9. LocalType
  BY <1>2, <1>4, <1>5 DEF LocalType
<1>10. Truth
  <2>1. Honest(up.log)
    BY <1>5 DEF Honest, ToSet
  <2> QED BY <1>3, <1>4, <1>5, <1>7, <2>1, EntitiesAssumption DEF Truth, Refreshing
<1>11. Documents
  <2>1. ASSUME NEW i \in Items PROVE ~Refreshing(i) /\ local.stored[i] >= owed.docs[i]
    BY <1>3, <1>4, <1>5, <1>7, EntitiesAssumption DEF Refreshing
  <2> QED BY <1>4, <2>1 DEF Documents, Kept, Fetched
<1>12. TicksFit
  <2>1. TickFits(NoTick) /\ NoTick \in TickStates
    BY DEF TickFits, NoTick, TickStates, Honest, ToSet
  <2>2. tick = [t \in Tickers |-> NoTick]
    BY DEF Init
  <2> QED BY <2>1, <2>2 DEF TicksFit
<1>13. TopTracks
  <2>1. ASSUME NEW a \in Artists PROVE local.mark[a] >= owed.tops[a]
    BY <1>4, <1>5 DEF Locals
  <2>2. scopes = {}
    BY DEF Init
  <2> QED BY <1>4, <2>1, <2>2 DEF TopTracks, TopTracksNotLost, RowsMatchCheckpoint
<1> QED BY <1>6, <1>7, <1>8, <1>9, <1>10, <1>11, <1>12, <1>13 DEF FeedInv, Shapes

\* A stuttering step.
LEMMA FeedStutters ==
  ASSUME FeedInv, UNCHANGED vars
  PROVE  FeedInv'
<1>1. UNCHANGED Behind /\ up' = up
  BY DEF vars, Behind
<1>2. up \in Ups /\ \A e \in Entities : up.doc[e] >= up.doc[e]
  BY DEF FeedInv, Shapes, UpType, Ups
<1>3. Honest(up.log)'
  BY <1>1 DEF FeedInv, Truth, Honest
<1> QED BY <1>1, <1>2, <1>3, UpstreamKeeps

\* The invariant of the change feed: what is bound and acknowledged is served;
\* every item is at the versions acknowledged and bound, has a refresh that
\* will take it there, or was given up; a tick's plan covers its page
\* (SyncMetadataChangesWorker.Work and the jobs it inserts).
THEOREM FeedInvariant == Spec => []FeedInv
<1>1. Init => FeedInv
  BY InitFeed
<1>2. FeedInv /\ [Next]_vars => FeedInv'
  <2> SUFFICES ASSUME FeedInv, [Next]_vars PROVE FeedInv'
    OBVIOUS
  <2>1. CASE Upstream
    BY <2>1, PublishKeeps, ServeKeeps, RebuildKeeps DEF Upstream
  <2>2. CASE Ticks
    BY <2>2, TickBegins
  <2>3. ASSUME NEW t \in Tickers, TickStep(t) PROVE FeedInv'
    BY <2>3, PageRead, PageResolved, PageCommitted DEF TickStep
  <2>4. CASE JobStep
    BY <2>4, ItemKeeps, PersonKeeps, ScopeKeeps DEF JobStep
  <2>5. CASE Failures
    BY <2>5, TickFailed, ItemKeeps, PersonKeeps, ScopeKeeps, HaltKeeps DEF Failures, PersonFails
  <2>6. CASE UNCHANGED vars
    BY <2>6, FeedStutters
  <2> QED BY <2>1, <2>2, <2>3, <2>4, <2>5, <2>6 DEF Next
<1> QED BY <1>1, <1>2, PTL DEF Spec

\* No change of an item the cursor has passed is lost: not to a failing page,
\* a crash, a takeover, a rebuilt stream or a refresh already under way
\* (metadata_changes_worker.go:37).
THEOREM ChangeKept == Spec => []ChangeNotLost
<1>1. FeedInv => ChangeNotLost
  BY DEF FeedInv, Documents, Kept, ChangeNotLost
<1> QED BY <1>1, FeedInvariant, PTL

\* No top-tracks version the cursor has passed is lost behind an older
\* reconciliation (jobs.go:37).
THEOREM TopTracksKept == Spec => []TopTracksNotLost
<1>1. FeedInv => TopTracksNotLost
  BY DEF FeedInv, TopTracks
<1> QED BY <1>1, FeedInvariant, PTL

\* The top tracks shown are those of the checkpoint, whichever job wrote last
\* (metadatasync, ReplaceArtistTopTracks).
THEOREM RowsKept == Spec => []RowsMatchCheckpoint
<1>1. FeedInv => RowsMatchCheckpoint
  BY DEF FeedInv, TopTracks
<1> QED BY <1>1, FeedInvariant, PTL

-----------------------------------------------------------------------------
(***************************************************************************)
(* Cursors, pages and attempts stay inside their bounds.  A page moves the *)
(* cursor no further than the log it is read from: HeyaMetadata refuses a  *)
(* cursor ahead of it, and a tick that belongs to no stream yet reads from *)
(* the start.                                                              *)
(***************************************************************************)
Reach == Larger(1, MaxLog)
StreamFits == up.stream \in 1..MaxStream /\ Len(up.log) <= MaxLog
RowInReach == row.cursor <= Reach /\ row.stream <= MaxStream
TickInReach(r) ==
  /\ r.cursor + Len(r.page) <= Reach /\ r.stream <= MaxStream /\ Len(r.page) <= PageSize
  /\ r.pc \in {"reset", "page", "commit"} => r.stream >= 1
  /\ r.pc \in {"idle", "read", "reset"} => r.page = << >>
  /\ r.pc = "read" /\ r.stream = 0 => r.cursor = 0
CursorsFit == StreamFits /\ RowInReach /\ \A t \in Tickers : TickInReach(tick[t])

\* Only a refresh that may be tried again is queued; so with a reconciliation.
Tries == {n \in Nat : n < Attempts["media"]}
RefreshFits == queued \in [Items -> Seq(Tries)] /\ (refresh.item = "none" <=> refresh.pc = "idle")
ScopesFit ==
  \A s \in scopes : /\ s.tried <= Attempts["scope"]
                    /\ s.pc = "queued" => s.tried < Attempts["scope"]

\* The bounds are numbers; what is in bounds has a length and a place.
LEMMA ReachFits ==
  /\ Reach \in Nat /\ Reach >= 1 /\ Reach >= MaxLog
  /\ MaxLog \in Nat /\ MaxStream \in Nat /\ MaxStream >= 1 /\ PageSize \in Nat /\ PageSize >= 1
  /\ Attempts["media"] \in Nat /\ Attempts["media"] > 0
  /\ Attempts["scope"] \in Nat /\ Attempts["scope"] > 0
BY BoundsAssumption, AttemptsAssumption DEF Reach, Larger, JobKinds

\* What is known of a tick, its page and the log it reads.
LEMMA TickShape ==
  ASSUME FeedInv, NEW t \in Tickers
  PROVE  /\ tick \in [Tickers -> TickStates] /\ tick[t] \in TickStates
         /\ tick[t].cursor \in Nat /\ tick[t].stream \in Nat
         /\ tick[t].page \in Seq(Records) /\ Len(tick[t].page) \in Nat
         /\ up \in Ups /\ up.log \in Seq(Records) /\ Len(up.log) \in Nat /\ up.stream \in Nat
         /\ row.cursor \in Nat /\ row.stream \in Nat
<1>1. tick \in [Tickers -> TickStates] /\ up \in Ups /\ row \in [cursor : Nat, stream : Nat]
  BY DEF FeedInv, TicksFit, Shapes, UpType
<1>2. tick[t] \in TickStates
  BY <1>1
<1> QED BY <1>1, <1>2 DEF TickStates, Ups

\* A tick that becomes another one in reach.
LEMMA TickReaches ==
  ASSUME FeedInv, CursorsFit, NEW t \in Tickers, NEW STATE r, TickInReach(r),
         tick' = [tick EXCEPT ![t] = r], UNCHANGED up, RowInReach'
  PROVE  CursorsFit'
<1>1. tick \in [Tickers -> TickStates]
  BY TickShape
<1>2. \A x \in Tickers : tick'[x] = r \/ tick'[x] = tick[x]
  BY <1>1
<1>3. ASSUME NEW x \in Tickers PROVE TickInReach(tick[x])'
  <2>1. TickInReach(tick'[x])
    BY <1>2 DEF CursorsFit
  <2> QED BY <2>1 DEF TickInReach, Reach, Larger
<1> QED BY <1>3 DEF CursorsFit, StreamFits

\* No tick is in reach of any bounds.
LEMMA IdleReaches == TickInReach(NoTick)
<1>1. NoTick.cursor = 0 /\ NoTick.stream = 0 /\ NoTick.page = << >> /\ NoTick.pc = "idle"
  BY DEF NoTick
<1>2. Len(<< >>) = 0
  OBVIOUS
<1> QED BY <1>1, <1>2, ReachFits DEF TickInReach

\* A page begins where the cursor is and ends in the log.
LEMMA PageLength ==
  ASSUME NEW s \in Seq(Records), NEW m \in Nat, NEW n \in Nat, m <= n, n <= Len(s)
  PROVE  Len(SubSeq(s, m + 1, n)) = n - m
<1>1. m + 1 \in Int /\ n \in Int /\ \A k \in m + 1 .. n : s[k] \in Records
  OBVIOUS
<1>2. Len(SubSeq(s, m + 1, n)) = IF m + 1 <= n THEN n - (m + 1) + 1 ELSE 0
  BY <1>1, SubSeqProperties
<1> QED BY <1>2

\* A tick reads: the cursor is refused, or the page it names is in the log.
LEMMA ChangesInReach ==
  ASSUME FeedInv, CursorsFit, NEW t \in Tickers, Changes(t)
  PROVE  CursorsFit'
<1> DEFINE r == tick[t]
<1>1. TickInReach(r) /\ r.pc = "read" /\ UNCHANGED <<up, row>>
  BY DEF CursorsFit, Changes
<1>2. r \in TickStates /\ r.cursor \in Nat /\ r.stream \in Nat /\ up.log \in Seq(Records)
      /\ Len(up.log) \in Nat /\ up.stream \in 1..MaxStream /\ Len(up.log) <= MaxLog
  BY TickShape DEF CursorsFit, StreamFits
<1>3. RowInReach'
  BY <1>1 DEF CursorsFit, RowInReach, Reach, Larger
<1>4. r.page = << >> /\ Len(r.page) = 0
  BY <1>1 DEF TickInReach
<1>5. CASE Conflicts(r)
  <2> DEFINE reset == [r EXCEPT !.pc = "reset", !.stream = up.stream]
  <2>1. tick' = [tick EXCEPT ![t] = reset]
    BY <1>5 DEF Changes
  <2>2. reset.pc = "reset" /\ reset.stream = up.stream /\ reset.cursor = r.cursor /\ reset.page = r.page
    BY <1>2 DEF TickStates
  <2> HIDE DEF reset
  <2>3. TickInReach(reset)
    BY <1>1, <1>2, <1>4, <2>2, ReachFits DEF TickInReach
  <2> QED BY <1>1, <1>3, <2>1, <2>3, TickReaches
<1>6. CASE ~Conflicts(r)
  <2>1. PICK next \in Nat : next = IF r.cursor + PageSize < Len(up.log) THEN r.cursor + PageSize ELSE Len(up.log)
    BY <1>2, ReachFits
  <2>2. r.cursor <= Len(up.log)
    BY <1>1, <1>2, <1>6 DEF Conflicts, TickInReach
  <2>3. r.cursor <= next /\ next <= Len(up.log) /\ next - r.cursor <= PageSize
    BY <1>2, <2>1, <2>2, ReachFits
  <2> DEFINE page == SubSeq(up.log, r.cursor + 1, next)
             full == [r EXCEPT !.pc = "page", !.stream = up.stream, !.page = page]
  <2>4. Len(page) = next - r.cursor
    BY <1>2, <2>3, PageLength
  <2>5. tick' = [tick EXCEPT ![t] = full]
    BY <1>6, <2>1 DEF Changes
  <2> HIDE DEF page
  <2>6. full.pc = "page" /\ full.stream = up.stream /\ full.cursor = r.cursor /\ full.page = page
    BY <1>2 DEF TickStates
  <2> HIDE DEF full
  <2>7. TickInReach(full)
    <3>1. PICK m \in Nat : m = r.cursor
      BY <1>2
    <3>2. full.cursor = m /\ Len(full.page) = next - m /\ m <= next /\ next - m <= PageSize
      BY <2>3, <2>4, <2>6, <3>1
    <3>3. full.cursor + Len(full.page) <= Reach /\ Len(full.page) <= PageSize
      <4>1. m + (next - m) = next /\ next <= MaxLog
        BY <1>2, <2>1, <2>3, <3>1, BoundsAssumption
      <4> QED BY <2>1, <3>1, <3>2, <4>1, ReachFits
    <3> QED BY <1>2, <2>6, <3>3, ReachFits DEF TickInReach
  <2> QED BY <1>1, <1>3, <2>5, <2>7, TickReaches
<1> QED BY <1>5, <1>6

\* A tick adopts a stream, resolves its page, or fails.
LEMMA TickStaysInReach ==
  ASSUME FeedInv, CursorsFit, NEW t \in Tickers, Resets(t) \/ Resolves(t) \/ TickFails(t)
  PROVE  CursorsFit'
<1> DEFINE r == tick[t]
<1>1. TickInReach(r) /\ UNCHANGED up /\ tick \in [Tickers -> TickStates]
  BY TickShape DEF CursorsFit, Resets, Resolves, TickFails
<1>2. r \in TickStates /\ r.cursor \in Nat /\ r.stream \in Nat /\ Len(r.page) \in Nat
  BY TickShape
<1>3. UNCHANGED row => RowInReach'
  BY DEF CursorsFit, RowInReach, Reach, Larger
<1>4. CASE Resets(t)
  <2> DEFINE new == [r EXCEPT !.pc = "read", !.cursor = 0]
  <2>1. tick' = [tick EXCEPT ![t] = new]
    BY <1>1, <1>4 DEF Resets, ResetCursor
  <2>2. new.pc = "read" /\ new.cursor = 0 /\ new.stream = r.stream /\ new.page = r.page
    BY <1>2 DEF TickStates
  <2> HIDE DEF new
  <2>3. r.pc = "reset" /\ row' = [cursor |-> 0, stream |-> r.stream]
    BY <1>4 DEF Resets, ResetCursor
  <2>4. row'.cursor = 0 /\ row'.stream = r.stream
    BY <2>3
  <2>5. TickInReach(new)
    <3>1. r.page = << >> /\ r.stream >= 1 /\ Len(<< >>) = 0
      BY <1>1, <2>3 DEF TickInReach
    <3>2. new.cursor + Len(new.page) = 0 /\ Len(new.page) = 0
      BY <2>2, <3>1
    <3> QED BY <1>1, <1>2, <2>2, <3>1, <3>2, ReachFits DEF TickInReach
  <2>6. RowInReach'
    BY <1>1, <2>4, ReachFits DEF RowInReach, TickInReach, Reach, Larger
  <2> QED BY <1>1, <2>1, <2>5, <2>6, TickReaches
<1>5. CASE Resolves(t)
  <2> DEFINE new == [r EXCEPT !.pc = "commit", !.plan = Plan(r.page)]
  <2>1. tick' = [tick EXCEPT ![t] = new] /\ r.pc = "page" /\ UNCHANGED row
    BY <1>1, <1>5 DEF Resolves
  <2>2. new.pc = "commit" /\ new.cursor = r.cursor /\ new.stream = r.stream /\ new.page = r.page
    BY <1>2 DEF TickStates
  <2> HIDE DEF new
  <2>3. TickInReach(new)
    BY <1>1, <2>1, <2>2 DEF TickInReach
  <2> QED BY <1>1, <1>3, <2>1, <2>3, TickReaches
<1>6. CASE TickFails(t)
  <2>1. tick' = [tick EXCEPT ![t] = NoTick] /\ UNCHANGED row
    BY <1>6 DEF TickFails
  <2> QED BY <1>1, <1>3, <2>1, IdleReaches, TickReaches
<1> QED BY <1>4, <1>5, <1>6

\* A page's transaction moves the durable cursor to the end of the page.
LEMMA CommitInReach ==
  ASSUME FeedInv, CursorsFit, NEW t \in Tickers, Commits(t)
  PROVE  CursorsFit'
<1> DEFINE r == tick[t]
<1>1. TickInReach(r) /\ RowInReach /\ UNCHANGED up /\ r.pc = "commit"
  BY DEF CursorsFit, Commits
<1>2. r \in TickStates /\ r.cursor \in Nat /\ r.stream \in Nat /\ Len(r.page) \in Nat
      /\ row.cursor \in Nat /\ row.stream \in Nat
  BY TickShape
<1>3. PICK next \in Nat : next = r.cursor + Len(r.page)
  BY <1>2
<1>4. row' = Committed(r, next)
  BY <1>3 DEF Commits
<1>5. row'.cursor \in {row.cursor, next} /\ row'.stream = r.stream
  BY <1>4 DEF Committed, Larger
<1>6. RowInReach'
  BY <1>1, <1>2, <1>3, <1>5 DEF RowInReach, TickInReach, Reach, Larger
<1> DEFINE more == [r EXCEPT !.pc = "read", !.cursor = next, !.page = << >>, !.plan = {}, !.first = FALSE]
<1>7. tick' = [tick EXCEPT ![t] = NoTick] \/ tick' = [tick EXCEPT ![t] = more]
  BY <1>3 DEF Commits
<1>8. more.pc = "read" /\ more.cursor = next /\ more.stream = r.stream /\ more.page = << >>
  BY <1>2 DEF TickStates
<1> HIDE DEF more
<1>9. TickInReach(more)
  <2>1. Len(<< >>) = 0
    OBVIOUS
  <2> QED BY <1>1, <1>2, <1>3, <1>8, <2>1, ReachFits DEF TickInReach
<1> QED BY <1>1, <1>6, <1>7, <1>9, IdleReaches, TickReaches

\* A tick begins where the row is, or at the start of no stream.
LEMMA TickBeginsInReach ==
  ASSUME FeedInv, CursorsFit, Ticks
  PROVE  CursorsFit'
<1>1. row.cursor \in Nat /\ row.stream \in Nat /\ RowInReach /\ "now" \in Tickers
      /\ tick \in [Tickers -> TickStates]
  BY TickShape DEF CursorsFit, Tickers
<1>2. PICK cursor \in Nat : cursor = IF row.stream = 0 THEN 0 ELSE row.cursor
  BY <1>1
<1> DEFINE new == [NoTick EXCEPT !.pc = "read", !.stream = row.stream, !.cursor = cursor]
<1>3. tick' = [tick EXCEPT !["now"] = new] /\ UNCHANGED <<up, row>>
  BY <1>2 DEF Ticks
<1>4. new.pc = "read" /\ new.cursor = cursor /\ new.stream = row.stream /\ new.page = << >>
  BY DEF NoTick
<1> HIDE DEF new
<1>5. TickInReach(new)
  <2>1. Len(<< >>) = 0
    OBVIOUS
  <2> QED BY <1>1, <1>2, <1>4, <2>1, ReachFits DEF TickInReach, RowInReach
<1>6. RowInReach'
  BY <1>1, <1>3 DEF RowInReach, Reach, Larger
<1> QED BY <1>1, <1>3, <1>5, <1>6, TickReaches

\* The log grows to its bound, or a rebuilt one starts with every entity.
LEMMA UpstreamInReach ==
  ASSUME FeedInv, CursorsFit, Upstream
  PROVE  CursorsFit'
<1>1. up \in Ups /\ up.log \in Seq(Records) /\ Len(up.log) \in Nat /\ up.stream \in Nat
  BY TickShape DEF Tickers
<1>2. UNCHANGED <<row, tick>>
  BY DEF Upstream, Publishes, Serves, Rebuilds
<1>3. RowInReach' /\ \A t \in Tickers : TickInReach(tick[t])'
  BY <1>2 DEF CursorsFit, RowInReach, TickInReach, Reach, Larger
<1>4. CASE \E e \in Entities, type \in ChangeTypes : Publishes(e, type)
  <2>1. PICK e \in Entities, type \in ChangeTypes : Publishes(e, type)
    BY <1>4
  <2>2. PICK entry, doc : up' = [up EXCEPT !.log = Append(@, entry), !.doc = doc]
    <3>1. up' = [up EXCEPT !.log = Append(@, Entry(e, type)),
                           !.doc = [up.doc EXCEPT ![e] = Entry(e, type).version]]
      BY <1>1, <2>1 DEF Publishes, Ups
    <3> QED BY <3>1
  <2>3. up'.stream = up.stream /\ up'.log = Append(up.log, entry)
    BY <1>1, <2>2 DEF Ups
  <2>4. Len(Append(up.log, entry)) = Len(up.log) + 1
    BY <1>1
  <2>5. Len(up.log) < MaxLog
    BY <2>1 DEF Publishes
  <2>6. StreamFits'
    BY <1>1, <2>3, <2>4, <2>5, ReachFits DEF CursorsFit, StreamFits
  <2> QED BY <1>3, <2>6 DEF CursorsFit
<1>5. CASE \E a \in Artists : Serves(a)
  <2>1. up'.stream = up.stream /\ up'.log = up.log
    BY <1>1, <1>5 DEF Serves, Ups
  <2> QED BY <1>3, <2>1 DEF CursorsFit, StreamFits
<1>6. CASE Rebuilds
  <2>1. PICK order \in SetToSeqs(Entities) :
          up' = [up EXCEPT
                   !.stream = @ + 1,
                   !.log = [n \in DOMAIN order |->
                             [entity |-> order[n], version |-> up.doc[order[n]],
                              type |-> IF order[n] \in Artists THEN "top_tracks" ELSE "updated"]]]
    BY <1>6 DEF Rebuilds
  <2>2. DOMAIN order = 1..Cardinality(Entities) /\ Cardinality(Entities) \in Nat
    BY <2>1, EntitiesAssumption, FS_CardinalityType DEF SetToSeqs
  <2>3. PICK log : /\ log = [n \in DOMAIN order |->
                             [entity |-> order[n], version |-> up.doc[order[n]],
                              type |-> IF order[n] \in Artists THEN "top_tracks" ELSE "updated"]]
                   /\ up' = [up EXCEPT !.stream = @ + 1, !.log = log]
    BY <2>1
  <2>4. DOMAIN log = 1..Cardinality(Entities)
    BY <2>2, <2>3
  <2>5. Len(log) = Cardinality(Entities)
    <3>1. \E n \in Nat : DOMAIN log = 1..n
      BY <2>2, <2>4
    <3> QED BY <2>2, <2>3, <2>4, <3>1, LenProperties
  <2>6. up'.stream = up.stream + 1 /\ up'.log = log
    BY <1>1, <2>3 DEF Ups
  <2>7. up.stream < MaxStream
    BY <1>6 DEF Rebuilds
  <2>8. StreamFits'
    BY <1>1, <2>2, <2>5, <2>6, <2>7, BoundsAssumption DEF CursorsFit, StreamFits
  <2> QED BY <1>3, <2>8 DEF CursorsFit
<1> QED BY <1>4, <1>5, <1>6 DEF Upstream

\* A crash forgets both ticks; a takeover leaves the old one at work.
LEMMA HaltInReach ==
  ASSUME FeedInv, CursorsFit, Crash \/ Displaced
  PROVE  CursorsFit'
<1>1. UNCHANGED <<up, row>> /\ tick \in [Tickers -> TickStates]
  BY TickShape DEF Crash, Displaced, Halted, Tickers
<1>2. \A t \in Tickers : tick'[t] = NoTick \/ tick'[t] \in {tick[x] : x \in Tickers}
  BY <1>1 DEF Crash, Displaced, Tickers
<1>3. ASSUME NEW t \in Tickers PROVE TickInReach(tick[t])'
  <2>1. TickInReach(tick'[t])
    BY <1>2, IdleReaches DEF CursorsFit
  <2> QED BY <2>1 DEF TickInReach, Reach, Larger
<1> QED BY <1>1, <1>3 DEF CursorsFit, StreamFits, RowInReach, Reach, Larger

\* The jobs leave the cursors, and their own failures too.
LEMMA JobsLeaveTicks ==
  ASSUME NEW i, RefreshStep(i) \/ FetchFails(i) \/ MarkFailed(i)
                  \/ FetchStep(i) \/ PersonFails(i)
                  \/ ScopeWork(i) \/ FetchScopeFails(i)
  PROVE  UNCHANGED <<up, row, tick>>
<1>1. RefreshStep(i) \/ FetchFails(i) \/ MarkFailed(i) => UNCHANGED <<up, row, tick>>
  BY DEF RefreshStep, StartRefresh, FetchDetail, BindCanonical, StoreDocument, RescueRefresh,
         FetchFails, MarkFailed
<1>2. FetchStep(i) \/ PersonFails(i) => UNCHANGED <<up, row, tick>>
  BY DEF FetchStep, StartPerson, FetchPerson, StorePerson, RescuePerson, PersonFails, PersonFetchFails,
         UpdatePersonFails, PersonWritesFail, RetriesPerson, GivesUpPerson, PersonStep
<1>3. ScopeWork(i) \/ FetchScopeFails(i) => UNCHANGED <<up, row, tick>>
  BY DEF ScopeWork, StartScope, FetchScope, StoreScope, RescueScope, FetchScopeFails, ScopeFails,
         ScopeStep
<1> QED BY <1>1, <1>2, <1>3

\* Every step keeps the cursors in reach.
LEMMA CursorsKept ==
  ASSUME FeedInv, CursorsFit, [Next]_vars
  PROVE  CursorsFit'
<1>1. ASSUME UNCHANGED <<up, row, tick>> PROVE CursorsFit'
  <2>1. ASSUME NEW t \in Tickers PROVE TickInReach(tick[t])'
    <3>1. TickInReach(tick'[t])
      BY <1>1 DEF CursorsFit
    <3> QED BY <3>1 DEF TickInReach, Reach, Larger
  <2> QED BY <1>1, <2>1 DEF CursorsFit, StreamFits, RowInReach, Reach, Larger
<1>2. ASSUME NEW t \in Tickers, TickStep(t) \/ TickFails(t) PROVE CursorsFit'
  BY <1>2, ChangesInReach, TickStaysInReach, CommitInReach DEF TickStep
<1>3. CASE JobStep
  BY <1>1, <1>3, JobsLeaveTicks DEF JobStep
<1>4. CASE Failures
  BY <1>1, <1>2, <1>4, JobsLeaveTicks, HaltInReach DEF Failures, PersonFails
<1>5. CASE UNCHANGED vars
  BY <1>1, <1>5 DEF vars
<1> QED BY <1>2, <1>3, <1>4, <1>5, UpstreamInReach, TickBeginsInReach DEF Next

\* What the operations on a queue of refreshes return, of attempts left over.
LEMMA QueueTries ==
  ASSUME NEW s \in Seq(Tries)
  PROVE  /\ Coalesced(s) \in Seq(Tries) /\ <<0>> \in Seq(Tries)
         /\ \A n \in DOMAIN s : RemoveAt(s, n) \in Seq(Tries)
         /\ \A tried \in Tries : <<tried>> \o s \in Seq(Tries)
<1>1. 0 \in Tries /\ Tries \subseteq Nat
  BY ReachFits DEF Tries
<1>2. Coalesced(s) \in Seq(Tries)
  <2>1. CASE s # << >>
    <3>1. s[Len(s)] \in Tries
      BY <2>1
    <3>2. Coalesced(s) = <<s[Len(s)]>>
      BY <2>1 DEF Coalesced, Last
    <3> QED BY <3>1, <3>2
  <2> QED BY <2>1 DEF Coalesced
<1>3. ASSUME NEW n \in DOMAIN s PROVE RemoveAt(s, n) \in Seq(Tries)
  <2>1. n \in 1..Len(s) /\ Len(s) \in Nat /\ \A k \in 1..Len(s) : s[k] \in Tries
    OBVIOUS
  <2>2. SubSeq(s, 1, n - 1) \in Seq(Tries)
    <3>1. 1 \in Int /\ n - 1 \in Int /\ \A k \in 1 .. n - 1 : s[k] \in Tries
      BY <2>1
    <3> QED BY <3>1, SubSeqProperties
  <2>3. SubSeq(s, n + 1, Len(s)) \in Seq(Tries)
    <3>1. n + 1 \in Int /\ Len(s) \in Int /\ \A k \in n + 1 .. Len(s) : s[k] \in Tries
      BY <2>1
    <3> QED BY <3>1, SubSeqProperties
  <2> QED BY <2>2, <2>3 DEF RemoveAt
<1>4. ASSUME NEW tried \in Tries PROVE <<tried>> \o s \in Seq(Tries)
  OBVIOUS
<1>5. <<0>> \in Seq(Tries)
  BY <1>1
<1> QED BY <1>2, <1>3, <1>4, <1>5

\* A refresh that is tried again has tries left.
LEMMA RequeueFits ==
  ASSUME FeedInv, RefreshFits, NEW i \in Items, Requeue(i)
  PROVE  queued' \in [Items -> Seq(Tries)]
<1>1. refresh.tried \in Nat /\ queued \in [Items -> Seq(Tries)]
  BY DEF FeedInv, Shapes, QueueType, Refreshes, RefreshFits
<1>2. CASE Retried("media", refresh.tried)
  <2>1. refresh.tried \in Tries
    BY <1>1, <1>2 DEF Retried, Tries
  <2>2. <<refresh.tried>> \o queued[i] \in Seq(Tries)
    BY <1>1, <2>1, QueueTries
  <2>3. queued' = [queued EXCEPT ![i] = <<refresh.tried>> \o @]
    BY <1>2 DEF Requeue
  <2> QED BY <1>1, <2>2, <2>3
<1>3. CASE ~Retried("media", refresh.tried)
  BY <1>1, <1>3 DEF Requeue
<1> QED BY <1>2, <1>3

\* A step of the running refresh.
LEMMA RefreshStays ==
  ASSUME FeedInv, RefreshFits, NEW i \in Items, RefreshStep(i) \/ FetchFails(i) \/ MarkFailed(i)
  PROVE  RefreshFits'
<1>1. refresh \in Refreshes /\ queued \in [Items -> Seq(Tries)] /\ i # "none"
      /\ NoRefresh.pc = "idle" /\ NoRefresh.item = "none"
  BY EntitiesAssumption DEF FeedInv, Shapes, QueueType, RefreshFits, NoRefresh
<1>2. CASE StartRefresh(i)
  <2>1. PICK n \in DOMAIN queued[i] :
          /\ refresh' = [NoRefresh EXCEPT !.pc = "fetch", !.item = i, !.tried = queued[i][n] + 1]
          /\ queued' = [queued EXCEPT ![i] = RemoveAt(@, n)]
    BY <1>2 DEF StartRefresh
  <2>2. RemoveAt(queued[i], n) \in Seq(Tries)
    BY <1>1, <2>1, QueueTries
  <2>3. queued' \in [Items -> Seq(Tries)]
    BY <1>1, <2>1, <2>2
  <2>4. refresh'.pc = "fetch" /\ refresh'.item = i
    BY <2>1 DEF NoRefresh
  <2> QED BY <1>1, <2>3, <2>4 DEF RefreshFits
<1>3. CASE FetchDetail(i) \/ BindCanonical(i)
  <2>1. refresh'.pc \in {"base", "rich"} /\ refresh'.item = i /\ queued' = queued
    BY <1>1, <1>3 DEF FetchDetail, BindCanonical, Refreshing, Refreshes
  <2> QED BY <1>1, <2>1 DEF RefreshFits
<1>4. CASE StoreDocument(i) \/ MarkFailed(i) \/ (FetchFails(i) /\ i \notin Titles)
  <2>1. refresh' = NoRefresh /\ queued' = queued
    BY <1>4 DEF StoreDocument, MarkFailed, FetchFails, SkipArtist
  <2> QED BY <1>1, <2>1 DEF RefreshFits
<1>5. CASE RescueRefresh(i) \/ (FetchFails(i) /\ i \in Titles)
  <2>1. refresh' = NoRefresh /\ Requeue(i)
    BY <1>5 DEF RescueRefresh, FetchFails
  <2> QED BY <1>1, <2>1, RequeueFits DEF RefreshFits
<1> QED BY <1>2, <1>3, <1>4, <1>5 DEF RefreshStep

\* Every step keeps the queue of refreshes and the running one.
LEMMA RefreshesKept ==
  ASSUME FeedInv, RefreshFits, [Next]_vars
  PROVE  RefreshFits'
<1>1. queued \in [Items -> Seq(Tries)] /\ (refresh.item = "none" <=> refresh.pc = "idle")
      /\ refresh \in Refreshes
  BY DEF RefreshFits, FeedInv, Shapes, QueueType
<1>2. ASSUME UNCHANGED <<queued, refresh>> PROVE RefreshFits'
  BY <1>2 DEF RefreshFits
<1>3. CASE Upstream
  BY <1>2, <1>3 DEF Upstream, Publishes, Serves, Rebuilds
<1>4. CASE Ticks
  <2>1. queued' = [i \in Items |-> Coalesced(queued[i])] /\ refresh' = refresh
    BY <1>4 DEF Ticks
  <2>2. queued' \in [Items -> Seq(Tries)]
    BY <1>1, <2>1, QueueTries
  <2> QED BY <1>1, <2>1, <2>2 DEF RefreshFits
<1>5. ASSUME NEW t \in Tickers, TickStep(t) PROVE RefreshFits'
  <2>1. CASE Commits(t)
    <3>1. queued' = Inserted(PlannedOf(tick[t].plan, "media")) /\ refresh' = refresh
      BY <2>1 DEF Commits
    <3>2. queued' \in [Items -> Seq(Tries)]
      BY <1>1, <3>1, QueueTries DEF Inserted
    <3> QED BY <1>1, <3>1, <3>2 DEF RefreshFits
  <2> QED BY <1>2, <1>5, <2>1 DEF TickStep, Changes, Resets, Resolves
<1>6. ASSUME NEW p, FetchStep(p) \/ PersonFails(p) PROVE RefreshFits'
  BY <1>2, <1>6
  DEF FetchStep, StartPerson, FetchPerson, StorePerson, RescuePerson, PersonFails, PersonFetchFails,
      UpdatePersonFails, PersonWritesFail, RetriesPerson, GivesUpPerson, PersonStep
<1>7. ASSUME NEW s, ScopeWork(s) \/ FetchScopeFails(s) PROVE RefreshFits'
  BY <1>2, <1>7
  DEF ScopeWork, StartScope, FetchScope, StoreScope, RescueScope, FetchScopeFails, ScopeFails, ScopeStep
<1>8. CASE Crash \/ Displaced
  <2>1. queued' = queued /\ refresh' = IF refresh.pc = "idle" THEN refresh ELSE [refresh EXCEPT !.pc = "lost"]
    BY <1>8 DEF Crash, Displaced, Halted
  <2>2. refresh'.item = refresh.item /\ (refresh'.pc = "idle" <=> refresh.pc = "idle")
    BY <1>1, <2>1 DEF Refreshes
  <2> QED BY <1>1, <2>1, <2>2 DEF RefreshFits
<1>9. ASSUME NEW t \in Tickers, TickFails(t) PROVE RefreshFits'
  BY <1>2, <1>9 DEF TickFails
<1>10. CASE UNCHANGED vars
  BY <1>2, <1>10 DEF vars
<1> QED BY <1>3, <1>4, <1>5, <1>6, <1>7, <1>8, <1>9, <1>10, RefreshStays DEF Next, JobStep, Failures, PersonFails

\* Every step keeps the attempts of the reconciliations.
LEMMA ScopesKept ==
  ASSUME FeedInv, ScopesFit, [Next]_vars
  PROVE  ScopesFit'
<1>1. /\ scopes \subseteq Scopes
      /\ \A s \in scopes : /\ s.tried <= Attempts["scope"]
                           /\ s.pc = "queued" => s.tried < Attempts["scope"]
  BY DEF FeedInv, Shapes, JobType, ScopesFit
<1>2. ASSUME UNCHANGED scopes PROVE ScopesFit'
  BY <1>2 DEF ScopesFit
<1>3. CASE Upstream \/ Ticks
  BY <1>2, <1>3 DEF Upstream, Publishes, Serves, Rebuilds, Ticks
<1>4. ASSUME NEW t \in Tickers, TickStep(t) PROVE ScopesFit'
  <2>1. CASE Commits(t)
    <3>1. \A s \in scopes' : s \in scopes \/ s.tried = 0
      BY <2>1 DEF Commits, PlannedScopes, Backfilled, NewScope
    <3> QED BY <1>1, <3>1, ReachFits DEF ScopesFit
  <2> QED BY <1>2, <1>4, <2>1 DEF TickStep, Changes, Resets, Resolves
<1>5. ASSUME NEW i \in Items, RefreshStep(i) \/ FetchFails(i) \/ MarkFailed(i) PROVE ScopesFit'
  BY <1>2, <1>5 DEF RefreshStep, StartRefresh, FetchDetail, BindCanonical, StoreDocument, RescueRefresh,
                    FetchFails, MarkFailed
<1>6. ASSUME NEW p, FetchStep(p) \/ PersonFails(p) PROVE ScopesFit'
  BY <1>2, <1>6
  DEF FetchStep, StartPerson, FetchPerson, StorePerson, RescuePerson, PersonFails, PersonFetchFails,
      UpdatePersonFails, PersonWritesFail, RetriesPerson, GivesUpPerson, PersonStep
<1>7. ASSUME NEW s \in scopes, ScopeWork(s) \/ FetchScopeFails(s) PROVE ScopesFit'
  <2>1. s \in Scopes /\ s.tried \in Nat /\ s.tried <= Attempts["scope"]
        /\ (s.pc = "queued" => s.tried < Attempts["scope"])
    BY <1>1, <1>7 DEF Scopes
  <2>2. ASSUME NEW after, ScopeStep(s, after),
               \A x \in after : /\ x.tried <= Attempts["scope"]
                                /\ x.pc = "queued" => x.tried < Attempts["scope"]
        PROVE  ScopesFit'
    BY <1>1, <2>2 DEF ScopeStep, ScopesFit
  <2>3. CASE StartScope(s)
    <3>1. PICK tried \in Nat : tried = s.tried + 1
      BY <2>1
    <3> DEFINE x == [s EXCEPT !.pc = "fetch", !.tried = tried]
    <3>2. x.pc = "fetch" /\ x.tried = tried
      BY <2>1 DEF Scopes
    <3>3. ScopeStep(s, {}) \/ ScopeStep(s, {x})
      BY <2>3, <3>1 DEF StartScope
    <3> HIDE DEF x
    <3>4. tried <= Attempts["scope"]
      BY <2>1, <2>3, <3>1, ReachFits DEF StartScope
    <3> QED BY <2>2, <3>2, <3>3, <3>4
  <2>4. CASE FetchScope(s)
    <3> DEFINE x == [s EXCEPT !.pc = "store", !.top = up.top[s.item]]
    <3>1. x.pc = "store" /\ x.tried = s.tried
      BY <2>1 DEF Scopes
    <3>2. ScopeStep(s, {x})
      BY <2>4 DEF FetchScope
    <3> HIDE DEF x
    <3> QED BY <2>1, <2>2, <3>1, <3>2
  <2>5. CASE StoreScope(s)
    BY <2>2, <2>5 DEF StoreScope
  <2>6. CASE ScopeFails(s)
    <3> DEFINE x == [s EXCEPT !.pc = "queued"]
    <3>1. x.pc = "queued" /\ x.tried = s.tried
      BY <2>1 DEF Scopes
    <3>2. ScopeStep(s, {}) \/ (ScopeStep(s, {x}) /\ s.tried < Attempts["scope"])
      BY <2>6 DEF ScopeFails, Retried
    <3> HIDE DEF x
    <3> QED BY <2>1, <2>2, <3>1, <3>2
  <2> QED BY <1>7, <2>3, <2>4, <2>5, <2>6 DEF ScopeWork, RescueScope, FetchScopeFails
<1>8. CASE Crash \/ Displaced
  <2>1. scopes' = {IF s.pc \in Running THEN [s EXCEPT !.pc = "lost"] ELSE s : s \in scopes}
    BY <1>8 DEF Crash, Displaced, Halted
  <2>2. ASSUME NEW s \in scopes
        PROVE  [s EXCEPT !.pc = "lost"].pc = "lost" /\ [s EXCEPT !.pc = "lost"].tried = s.tried
    BY <1>1 DEF Scopes
  <2>3. ASSUME NEW x \in scopes'
        PROVE  x.tried <= Attempts["scope"] /\ (x.pc = "queued" => x.tried < Attempts["scope"])
    <3>1. PICK s \in scopes : x = IF s.pc \in Running THEN [s EXCEPT !.pc = "lost"] ELSE s
      BY <2>1
    <3>2. CASE x = s
      BY <1>1, <3>2
    <3>3. CASE x = [s EXCEPT !.pc = "lost"]
      BY <1>1, <2>2, <3>3
    <3> QED BY <3>1, <3>2, <3>3
  <2> QED BY <2>3 DEF ScopesFit
<1>9. ASSUME NEW t \in Tickers, TickFails(t) PROVE ScopesFit'
  BY <1>2, <1>9 DEF TickFails
<1>10. CASE UNCHANGED vars
  BY <1>2, <1>10 DEF vars
<1> QED BY <1>3, <1>4, <1>5, <1>6, <1>7, <1>8, <1>9, <1>10 DEF Next, JobStep, Failures, PersonFails

\* It holds of a library nobody has read a change of.
LEMMA InitInReach ==
  ASSUME Init
  PROVE  CursorsFit /\ RefreshFits /\ ScopesFit
<1>1. up.stream = 1 /\ up.log = << >> /\ tick = [t \in Tickers |-> NoTick] /\ scopes = {}
      /\ queued = [i \in Items |-> << >>] /\ refresh = NoRefresh
      /\ (row = [cursor |-> 0, stream |-> 1] \/ row = [cursor |-> 1, stream |-> 0])
  BY DEF Init
<1>2. row.cursor <= 1 /\ row.stream <= 1 /\ row.cursor \in Nat /\ row.stream \in Nat
  BY <1>1
<1>3. StreamFits /\ RowInReach
  <2>1. Len(<< >>) = 0
    OBVIOUS
  <2> QED BY <1>1, <1>2, <2>1, ReachFits DEF StreamFits, RowInReach
<1>4. \A t \in Tickers : TickInReach(tick[t])
  BY <1>1, IdleReaches
<1>5. refresh.item = "none" /\ refresh.pc = "idle"
  BY <1>1 DEF NoRefresh
<1>6. queued \in [Items -> Seq(Tries)]
  BY <1>1
<1> QED BY <1>1, <1>3, <1>4, <1>5, <1>6 DEF CursorsFit, RefreshFits, ScopesFit

\* A cursor stays within the longest log there may be, a page never outgrows
\* its size, and no job uses more attempts than it has
\* (SyncMetadataChangesWorker, CommitMetadataChangeCursor, ResetMetadataChangeCursor).
THEOREM TypeCorrect == Spec => []TypeOK
<1>1. Init => CursorsFit /\ RefreshFits /\ ScopesFit
  BY InitInReach
<1>2. FeedInv /\ (CursorsFit /\ RefreshFits /\ ScopesFit) /\ [Next]_vars
        => (CursorsFit /\ RefreshFits /\ ScopesFit)'
  BY CursorsKept, RefreshesKept, ScopesKept
<1>3. FeedInv /\ CursorsFit /\ RefreshFits /\ ScopesFit => TypeOK
  <2> SUFFICES ASSUME FeedInv, CursorsFit, RefreshFits, ScopesFit PROVE TypeOK
    OBVIOUS
  <2>1. row \in [cursor : 0..Larger(1, MaxLog), stream : 0..MaxStream]
    <3>1. row \in [cursor : Nat, stream : Nat] /\ row.cursor <= Reach /\ row.stream <= MaxStream
      BY DEF FeedInv, Shapes, UpType, CursorsFit, RowInReach
    <3>2. row.cursor \in 0..Reach /\ row.stream \in 0..MaxStream
      BY <3>1, ReachFits
    <3> QED BY <3>1, <3>2 DEF Reach
  <2>2. ASSUME NEW t \in Tickers
        PROVE  /\ tick[t].pc \in {"idle", "read", "reset", "page", "commit"}
               /\ tick[t].pc \in {"page", "commit"} => tick[t].stream \in 1..MaxStream
               /\ Len(tick[t].page) <= PageSize
    <3>1. TickInReach(tick[t]) /\ tick[t] \in TickStates /\ tick[t].stream \in Nat
      BY TickShape DEF CursorsFit
    <3> QED BY <3>1, ReachFits DEF TickInReach, TickStates
  <2>3. /\ refresh.item \in Items \cup {"none"} /\ (refresh.item = "none" <=> refresh.pc = "idle")
        /\ \A i \in Items : \A n \in DOMAIN queued[i] : queued[i][n] < Attempts["media"]
    <3>1. ASSUME NEW i \in Items, NEW n \in DOMAIN queued[i] PROVE queued[i][n] < Attempts["media"]
      <4>1. queued[i] \in Seq(Tries)
        BY DEF RefreshFits
      <4>2. queued[i][n] \in Tries
        BY <3>1, <4>1
      <4> QED BY <4>2 DEF Tries
    <3> QED BY <3>1 DEF RefreshFits, FeedInv, Shapes, QueueType, Refreshes
  <2>4. \A p \in People : person[p].pc \in Running \cup {"none", "queued", "lost"}
    BY DEF FeedInv, Shapes, JobType, Persons
  <2>5. \A s \in scopes : s.tried <= Attempts["scope"] /\ s.item \in Artists
    BY DEF FeedInv, Shapes, JobType, Scopes, ScopesFit
  <2> QED BY <2>1, <2>2, <2>3, <2>4, <2>5 DEF TypeOK
<1> QED BY <1>1, <1>2, <1>3, FeedInvariant, PTL DEF Spec
=============================================================================
