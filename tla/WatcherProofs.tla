---------------------------- MODULE WatcherProofs ----------------------------
(***************************************************************************)
(* What holds of a library's watcher for any number of files, scans,       *)
(* generations, queued events, kept paths and disturbances.                *)
(***************************************************************************)
EXTENDS Watcher, TLAPS

Ops == {"create", "write", "remove"}
Timing == {"none", "armed", "admitted", "refused"}
Batches == [gen : 0..MaxGen, paths : SUBSET Paths, timer : Timing]
Asked == [path : Paths, ops : SUBSET Ops]

\* An event is in hand exactly while it is handled.
LoopsFit == \A g \in Gens : lw[g].loop = "handle" <=> lw[g].event # NoEvent
\* A loop has one insert of its own at most, and waits for it; everything but
\* directories is inserted by a timer.
InsertsFit ==
  /\ \A f \in flights : f.by = "loop" => lw[f.gen].loop = "insert"
  /\ \A e, f \in flights : e.by = "loop" /\ f.by = "loop" /\ e.gen = f.gen => e = f
  /\ \A f \in flights : f.kind # "dir" => f.by = "timer"
\* A replay belongs to a generation, and only a replay has something to replay.
ScansFit ==
  /\ \A s \in Scans : scan[s].pc \in {"take", "replay"} => scan[s].gen \in Gens
  /\ \A s \in Scans : scan[s].pc # "replay" => scan[s].todo = NothingToReplay
\* So does a batch.
BatchesFit == \A k \in Kinds : batch[k].timer # "none" => batch[k].gen \in Gens
Shape == TypeOK /\ LoopsFit /\ InsertsFit /\ ScansFit /\ BatchesFit

-----------------------------------------------------------------------------
(***************************************************************************)
(* The records and what their updates look like.                           *)
(***************************************************************************)
\* The fields of a watcher, one by one.
LEMMA WatcherFields ==
  ASSUME NEW l \in Watchers
  PROVE  /\ l.arm \in {"none", "new", "walking", "walked", "stalled", "live", "closed"}
         /\ l.cancelled \in BOOLEAN /\ l.depth \in Nat /\ l.dirty \in BOOLEAN
         /\ l.paused \in [Paths -> SUBSET Ops] /\ l.edits \in SUBSET Paths
         /\ l.timer \in Timing /\ l.queue \in Seq(Events) /\ l.overflow \in BOOLEAN
         /\ l.loop \in {"off", "wait", "handle", "insert"} /\ l.event \in Events \cup {NoEvent}
  BY DEF Watchers, Ops, Timing

\* What a step leaves of the watchers: their place in the life cycle.
Lives == \A g \in Gens : lw'[g].arm = lw[g].arm /\ lw'[g].cancelled = lw[g].cancelled
Others(g) == \A h \in Gens \ {g} : lw'[h] = lw[h]

\* An event is received while the watcher is paused, and merged or given up on.
LEMMA Holding ==
  ASSUME NEW l \in Watchers, NEW e \in Events
  PROVE  /\ Held(l, e) \in Watchers
         /\ Held(l, e).arm = l.arm /\ Held(l, e).cancelled = l.cancelled
         /\ Held(l, e).loop = l.loop /\ Held(l, e).event = l.event
         /\ Held(l, e).timer = l.timer /\ Held(l, e).edits = l.edits
         /\ Held(l, e).queue = l.queue /\ Held(l, e).overflow = l.overflow
         /\ \/ Held(l, e).dirty
            \/ /\ ~Held(l, e).dirty /\ ~l.dirty
               /\ Held(l, e).paused[e.path] = l.paused[e.path] \cup e.ops
               /\ \A p \in Paths \ {e.path} : Held(l, e).paused[p] = l.paused[p]
         /\ Held(l, e).dirty => Held(l, e).paused \in {l.paused, NothingToReplay}
  <1>1. NothingToReplay \in [Paths -> SUBSET Ops]
    BY DEF NothingToReplay, Ops
  <1>2. e.path \in Paths /\ e.ops \in SUBSET Ops
    BY DEF Events, Ops
  <1>3. l.paused \in [Paths -> SUBSET Ops] /\ l.dirty \in BOOLEAN
    BY DEF Watchers, Ops
  <1> DEFINE n == NothingToReplay
             m == [l.paused EXCEPT ![e.path] = @ \cup e.ops]
  <1>4. m \in [Paths -> SUBSET Ops]
    BY <1>2, <1>3
  <1>5. \/ Held(l, e) = [l EXCEPT !.paused = n, !.dirty = TRUE]
        \/ l.dirty /\ Held(l, e) = l
        \/ ~l.dirty /\ Held(l, e) = [l EXCEPT !.paused = m]
    BY DEF Held
  <1>6. CASE Held(l, e) = [l EXCEPT !.paused = n, !.dirty = TRUE]
    <2> HIDE DEF n
    <2> QED BY <1>1, <1>6 DEF Watchers, Ops, n
  <1>7. CASE l.dirty /\ Held(l, e) = l
    BY <1>7
  <1>8. CASE ~l.dirty /\ Held(l, e) = [l EXCEPT !.paused = m]
    <2>1. m[e.path] = l.paused[e.path] \cup e.ops /\ \A p \in Paths \ {e.path} : m[p] = l.paused[p]
      BY <1>2, <1>3
    <2> HIDE DEF m
    <2> QED BY <1>4, <1>8, <2>1 DEF Watchers, Ops
  <1> QED BY <1>5, <1>6, <1>7, <1>8

\* A change on disk is queued, or overflows, at each watcher that sees it.
SameButQueue(g) ==
  /\ lw'[g].arm = lw[g].arm /\ lw'[g].cancelled = lw[g].cancelled /\ lw'[g].dirty = lw[g].dirty
  /\ lw'[g].paused = lw[g].paused /\ lw'[g].edits = lw[g].edits /\ lw'[g].timer = lw[g].timer
  /\ lw'[g].loop = lw[g].loop /\ lw'[g].event = lw[g].event

\* Whoever watches gets the event or an overflow, and nobody anything else.
LEMMA Delivering ==
  ASSUME TypeOK, NEW p \in Paths, NEW op \in Ops, Deliver(p, op)
  PROVE  /\ lw' \in [Gens -> Watchers]
         /\ \A g \in Gens :
              /\ SameButQueue(g)
              /\ \/ ~Watches(g) /\ lw'[g] = lw[g]
                 \/ /\ lw'[g].queue = Append(lw[g].queue, [path |-> p, ops |-> {op}])
                    /\ lw'[g].overflow = lw[g].overflow
                 \/ lw'[g].queue = lw[g].queue /\ lw'[g].overflow
  <1> DEFINE e == [path |-> p, ops |-> {op}]
             full(g) == [lw[g] EXCEPT !.overflow = TRUE]
             more(g) == [lw[g] EXCEPT !.queue = Append(lw[g].queue, e)]
  <1>1. lw \in [Gens -> Watchers]
    BY DEF TypeOK
  <1>2. e \in Events
    BY DEF Events, Ops
  <1>3. lw' = [g \in Gens |-> IF ~Watches(g) THEN lw[g]
                              ELSE IF Len(lw[g].queue) < MaxQueue THEN more(g) ELSE full(g)]
    BY DEF Deliver
  <1>4. ASSUME NEW g \in Gens
        PROVE  /\ lw'[g] \in Watchers /\ SameButQueue(g)
               /\ \/ ~Watches(g) /\ lw'[g] = lw[g]
                  \/ /\ lw'[g].queue = Append(lw[g].queue, e)
                     /\ lw'[g].overflow = lw[g].overflow
                  \/ lw'[g].queue = lw[g].queue /\ lw'[g].overflow
    <2>0. lw[g] \in Watchers /\ Append(lw[g].queue, e) \in Seq(Events)
      <3>1. lw[g] \in Watchers /\ lw[g].queue \in Seq(Events)
        BY <1>1 DEF Watchers
      <3> QED BY <1>2, <3>1
    <2> HIDE DEF e
    <2>1. \/ ~Watches(g) /\ lw'[g] = lw[g]
          \/ lw'[g] = more(g) \/ lw'[g] = full(g)
      <3> HIDE DEF more, full
      <3> QED BY <1>3
    <2>2. CASE ~Watches(g) /\ lw'[g] = lw[g]
      BY <2>0, <2>2 DEF SameButQueue
    <2>3. CASE lw'[g] = more(g)
      <3> DEFINE q == Append(lw[g].queue, e)
      <3>1. q \in Seq(Events) /\ lw'[g] = [lw[g] EXCEPT !.queue = q]
        BY <2>0, <2>3
      <3> HIDE DEF q
      <3>2. lw'[g] \in Watchers /\ SameButQueue(g) /\ lw'[g].queue = q /\ lw'[g].overflow = lw[g].overflow
        BY <2>0, <3>1 DEF Watchers, SameButQueue
      <3> QED BY <3>2 DEF q
    <2>4. CASE lw'[g] = full(g)
      BY <2>0, <2>4 DEF Watchers, SameButQueue
    <2> QED BY <2>1, <2>2, <2>3, <2>4
  <1>5. lw' \in [Gens -> Watchers]
    <2> HIDE DEF e, full, more
    <2> QED BY <1>3, <1>4
  <1> QED BY <1>4, <1>5

\* Spending keeps the shape of the limits.
LEMMA Spending ==
  ASSUME TypeOK, NEW n \in LimitNames, Spend(n) \/ UNCHANGED left
  PROVE  left' \in [LimitNames -> Nat]
  BY DEF TypeOK, Spend, LimitNames

\* A batch is admitted for the current generation alone; it takes up what the
\* batch of that generation held.
LEMMA Batching ==
  ASSUME TypeOK, NEW k \in Kinds, NEW g \in Gens, NEW ps \in SUBSET Paths
  PROVE  /\ Batched(batch, k, g, ps) \in [Kinds -> Batches]
         /\ \A j \in Kinds \ {k} : Batched(batch, k, g, ps)[j] = batch[j]
         /\ ~generationCurrent(g) => Batched(batch, k, g, ps) = batch
         /\ generationCurrent(g) =>
              /\ Batched(batch, k, g, ps)[k].gen = g
              /\ Batched(batch, k, g, ps)[k].timer = "armed"
              /\ ps \subseteq Batched(batch, k, g, ps)[k].paths
              /\ batch[k].gen = g => batch[k].paths \subseteq Batched(batch, k, g, ps)[k].paths
  <1>1. batch \in [Kinds -> Batches] /\ batch[k].paths \in SUBSET Paths
    BY DEF TypeOK, Batches, Timing
  <1> DEFINE all == ps \cup (IF batch[k].gen = g THEN batch[k].paths ELSE {})
  <1>2. all \in SUBSET Paths /\ ps \subseteq all /\ (batch[k].gen = g => batch[k].paths \subseteq all)
    BY <1>1
  <1>3. g \in 0..MaxGen
    BY BoundsAssumption DEF Gens
  <1>4. CASE ~generationCurrent(g)
    BY <1>1, <1>4 DEF Batched
  <1>5. CASE generationCurrent(g)
    <2>1. Batched(batch, k, g, ps) = [batch EXCEPT ![k] = [gen |-> g, timer |-> "armed", paths |-> all]]
      BY <1>5 DEF Batched
    <2> HIDE DEF all
    <2> QED BY <1>1, <1>2, <1>3, <1>5, <2>1 DEF Batches, Timing
  <1> QED BY <1>4, <1>5

\* A handled event joins a batch of its generation or starts a directory scan.
Grown(g) ==
  \A k \in Kinds :
    \/ batch'[k] = batch[k]
    \/ /\ generationCurrent(g) /\ batch'[k].gen = g /\ batch'[k].timer = "armed"
       /\ batch[k].gen = g => batch[k].paths \subseteq batch'[k].paths
DirScan(g, e, by) == [kind |-> "dir", gen |-> g, paths |-> {e.path}, by |-> by]
\* What a handled event adds to the batches and to what is on its way.
LEMMA Handling ==
  ASSUME TypeOK, NEW g \in Gens, NEW e \in Asked, NEW by \in {"loop", "resume"}, handleEvent(g, e, by)
  PROVE  /\ batch' \in [Kinds -> Batches] /\ Grown(g)
         /\ generationCurrent(g) /\ Gone(e) =>
              /\ e.path \in Media => batch'["soft"].gen = g /\ e.path \in batch'["soft"].paths
              /\ e.path \in Sidecars => batch'["side"].gen = g /\ e.path \in batch'["side"].paths
              /\ e.path \in Dirs => batch'["rescan"].gen = g /\ batch'["rescan"].timer = "armed"
         /\ flights' \in SUBSET Flights
         /\ flights' = IF NewDir(e) /\ generationCurrent(g)
                       THEN flights \cup {DirScan(g, e, by)} ELSE flights
  <1>1. e.path \in Paths
    BY DEF Asked
  <1>2. /\ flights' = IF NewDir(e) /\ generationCurrent(g)
                      THEN flights \cup {DirScan(g, e, by)} ELSE flights
        /\ flights' \in SUBSET Flights
    <2>1. DirScan(g, e, by) \in Flights
      BY <1>1 DEF DirScan, Flights
    <2> QED BY <2>1 DEF handleEvent, DirScan, TypeOK
  <1>3. "soft" \in Kinds /\ "side" \in Kinds /\ "rescan" \in Kinds /\ {e.path} \in SUBSET Paths /\ {} \in SUBSET Paths
    BY <1>1 DEF Kinds
  <1>4. batch \in [Kinds -> Batches]
    BY DEF TypeOK, Batches, Timing
  <1>5. CASE ~Gone(e)
    BY <1>2, <1>4, <1>5 DEF handleEvent, Grown
  <1>6. CASE Gone(e) /\ e.path \in Media
    <2>1. batch' = Batched(batch, "soft", g, {e.path})
      BY <1>6 DEF handleEvent
    <2> QED BY <1>2, <1>3, <1>6, <2>1, Batching, PathsAssumption DEF Grown
  <1>7. CASE Gone(e) /\ e.path \in Sidecars
    <2>1. batch' = Batched(batch, "side", g, {e.path})
      BY <1>7, PathsAssumption DEF handleEvent
    <2> QED BY <1>2, <1>3, <1>7, <2>1, Batching, PathsAssumption DEF Grown
  <1>8. CASE Gone(e) /\ e.path \in Dirs
    <2>1. batch' = Batched(batch, "rescan", g, {})
      BY <1>8, PathsAssumption DEF handleEvent
    <2> QED BY <1>2, <1>3, <1>8, <2>1, Batching, PathsAssumption DEF Grown
  <1> QED BY <1>1, <1>5, <1>6, <1>7, <1>8 DEF Paths

-----------------------------------------------------------------------------
(***************************************************************************)
(* What each step of the loop, the timers, the inserts and the scans does. *)
(***************************************************************************)
StillWorld == world' = world /\ mgr' = mgr /\ keeper' = keeper /\ left' = left

\* What the watcher of an event keeps when it is received or merged.
LEMMA Receiving ==
  ASSUME Shape, NEW g \in Gens, Receive(g)
  PROVE  /\ StillWorld /\ scan' = scan /\ batch' = batch /\ flights' = flights
         /\ lw' \in [Gens -> Watchers] /\ Others(g)
         /\ lw'[g].arm = lw[g].arm /\ lw'[g].cancelled = lw[g].cancelled
         /\ lw'[g].timer = lw[g].timer /\ lw'[g].edits = lw[g].edits /\ lw'[g].overflow = lw[g].overflow
         /\ lw[g].loop = "wait" /\ lw[g].queue # << >> /\ Head(lw[g].queue) \in Events
         /\ lw'[g].queue = Tail(lw[g].queue)
         /\ \/ /\ lw'[g].loop = "handle" /\ lw'[g].event = Head(lw[g].queue)
               /\ lw'[g].paused = lw[g].paused /\ lw'[g].dirty = lw[g].dirty /\ ghost' = ghost
            \/ /\ lw'[g].loop = "wait" /\ lw'[g].event = NoEvent
               /\ ghost' = [ghost EXCEPT !.merged = @ \cup Mixed(lw'[g], Head(lw[g].queue))]
               /\ \/ lw'[g].dirty
                  \/ /\ ~lw'[g].dirty /\ ~lw[g].dirty
                     /\ lw'[g].paused[Head(lw[g].queue).path]
                          = lw[g].paused[Head(lw[g].queue).path] \cup Head(lw[g].queue).ops
                     /\ \A p \in Paths \ {Head(lw[g].queue).path} : lw'[g].paused[p] = lw[g].paused[p]
               /\ lw'[g].dirty => lw'[g].paused \in {lw[g].paused, NothingToReplay}
  <1> DEFINE e == Head(lw[g].queue)
             q == Tail(lw[g].queue)
             rest == [lw[g] EXCEPT !.queue = q]
  <1>0. lw \in [Gens -> Watchers] /\ lw[g] \in Watchers
    BY DEF Shape, TypeOK
  <1>1. lw[g].loop = "wait" /\ lw[g].queue # << >> /\ lw[g].event = NoEvent
    BY DEF Receive, Shape, LoopsFit
  <1>2. e \in Events /\ q \in Seq(Events)
    <2>1. lw[g].queue \in Seq(Events)
      BY <1>0 DEF Watchers
    <2> QED BY <1>1, <2>1
  <1>3. /\ StillWorld /\ scan' = scan /\ batch' = batch /\ flights' = flights
    BY DEF Receive, LoopFrame, StillWorld
  <1>4. \/ /\ lw' = [lw EXCEPT ![g] = Held(rest, e)]
           /\ ghost' = [ghost EXCEPT !.merged = @ \cup Mixed(lw'[g], e)]
        \/ /\ lw' = [lw EXCEPT ![g] = [rest EXCEPT !.loop = "handle", !.event = e]]
           /\ ghost' = ghost
    BY DEF Receive
  <1>5. /\ rest \in Watchers /\ rest.queue = q /\ rest.arm = lw[g].arm /\ rest.cancelled = lw[g].cancelled
        /\ rest.timer = lw[g].timer /\ rest.edits = lw[g].edits /\ rest.overflow = lw[g].overflow
        /\ rest.loop = lw[g].loop /\ rest.event = lw[g].event
        /\ rest.paused = lw[g].paused /\ rest.dirty = lw[g].dirty
    <2> HIDE DEF q
    <2> QED BY <1>0, <1>2 DEF Watchers
  <1> HIDE DEF rest, q, e
  <1>6. CASE /\ lw' = [lw EXCEPT ![g] = Held(rest, e)]
             /\ ghost' = [ghost EXCEPT !.merged = @ \cup Mixed(lw'[g], e)]
    <2>1. lw'[g] = Held(rest, e) /\ lw' \in [Gens -> Watchers] /\ Others(g)
      BY <1>0, <1>2, <1>5, <1>6, Holding DEF Others
    <2>2. /\ lw'[g].arm = lw[g].arm /\ lw'[g].cancelled = lw[g].cancelled
          /\ lw'[g].timer = lw[g].timer /\ lw'[g].edits = lw[g].edits
          /\ lw'[g].overflow = lw[g].overflow /\ lw'[g].queue = q
          /\ lw'[g].loop = "wait" /\ lw'[g].event = NoEvent
      BY <1>1, <1>2, <1>5, <2>1, Holding
    <2>3. /\ \/ lw'[g].dirty
             \/ /\ ~lw'[g].dirty /\ ~lw[g].dirty
                /\ lw'[g].paused[e.path] = lw[g].paused[e.path] \cup e.ops
                /\ \A p \in Paths \ {e.path} : lw'[g].paused[p] = lw[g].paused[p]
          /\ lw'[g].dirty => lw'[g].paused \in {lw[g].paused, NothingToReplay}
      <3>1. /\ \/ Held(rest, e).dirty
               \/ /\ ~Held(rest, e).dirty /\ ~rest.dirty
                  /\ Held(rest, e).paused[e.path] = rest.paused[e.path] \cup e.ops
                  /\ \A p \in Paths \ {e.path} : Held(rest, e).paused[p] = rest.paused[p]
            /\ Held(rest, e).dirty => Held(rest, e).paused \in {rest.paused, NothingToReplay}
        BY <1>2, <1>5, Holding
      <3> QED BY <1>5, <2>1, <3>1
    <2>4. ghost' = [ghost EXCEPT !.merged = @ \cup Mixed(lw'[g], e)]
      BY <1>6
    <2> QED BY <1>1, <1>2, <1>3, <2>1, <2>2, <2>3, <2>4 DEF e, q
  <1>7. CASE /\ lw' = [lw EXCEPT ![g] = [rest EXCEPT !.loop = "handle", !.event = e]]
             /\ ghost' = ghost
    <2> DEFINE r == [rest EXCEPT !.loop = "handle", !.event = e]
    <2>1. /\ r \in Watchers /\ r.queue = rest.queue /\ r.arm = rest.arm /\ r.cancelled = rest.cancelled
          /\ r.timer = rest.timer /\ r.edits = rest.edits /\ r.overflow = rest.overflow
          /\ r.loop = "handle" /\ r.event = e
          /\ r.paused = rest.paused /\ r.dirty = rest.dirty
      BY <1>2, <1>5 DEF Watchers
    <2> HIDE DEF r
    <2>2. lw'[g] = r /\ lw' \in [Gens -> Watchers] /\ Others(g)
      <3>1. lw' = [lw EXCEPT ![g] = r]
        BY <1>7 DEF r
      <3> QED BY <1>0, <2>1, <3>1 DEF Others
    <2> QED BY <1>1, <1>2, <1>3, <1>5, <1>7, <2>1, <2>2 DEF e, q
  <1> QED BY <1>4, <1>6, <1>7

\* An edit is added to the debounced ones of its watcher.
LEMMA Editing ==
  ASSUME NEW l \in Watchers, NEW e \in Asked
  PROVE  /\ WithEdit(l, e) \in Watchers
         /\ WithEdit(l, e).arm = l.arm /\ WithEdit(l, e).cancelled = l.cancelled
         /\ WithEdit(l, e).dirty = l.dirty /\ WithEdit(l, e).paused = l.paused
         /\ WithEdit(l, e).queue = l.queue /\ WithEdit(l, e).overflow = l.overflow
         /\ WithEdit(l, e).loop = l.loop /\ WithEdit(l, e).event = l.event
         /\ ~Edited(e) => WithEdit(l, e) = l
         /\ Edited(e) => WithEdit(l, e).edits = l.edits \cup {e.path}
  <1>1. l.edits \cup {e.path} \in SUBSET Paths
    BY DEF Asked, Watchers
  <1>2. CASE Edited(e)
    <2> DEFINE all == l.edits \cup {e.path}
    <2>1. WithEdit(l, e) = [l EXCEPT !.edits = all, !.timer = "armed"] /\ all \in SUBSET Paths
      BY <1>1, <1>2 DEF WithEdit
    <2> HIDE DEF all
    <2>2. /\ WithEdit(l, e) \in Watchers /\ WithEdit(l, e).edits = all
          /\ WithEdit(l, e).arm = l.arm /\ WithEdit(l, e).cancelled = l.cancelled
          /\ WithEdit(l, e).dirty = l.dirty /\ WithEdit(l, e).paused = l.paused
          /\ WithEdit(l, e).queue = l.queue /\ WithEdit(l, e).overflow = l.overflow
          /\ WithEdit(l, e).loop = l.loop /\ WithEdit(l, e).event = l.event
      BY <2>1 DEF Watchers
    <2> QED BY <1>2, <2>2 DEF all
  <1>3. CASE ~Edited(e)
    BY <1>3 DEF WithEdit
  <1> QED BY <1>2, <1>3

\* What an event does when the loop handles it.
LEMMA HandlingOne ==
  ASSUME Shape, NEW g \in Gens, Handle(g)
  PROVE  /\ StillWorld /\ scan' = scan /\ ghost' = ghost
         /\ lw[g].event \in Events /\ lw[g].event \in Asked /\ lw[g].loop = "handle"
         /\ handleEvent(g, lw[g].event, "loop")
         /\ lw' \in [Gens -> Watchers] /\ Others(g)
         /\ lw'[g].arm = lw[g].arm /\ lw'[g].cancelled = lw[g].cancelled
         /\ lw'[g].dirty = lw[g].dirty /\ lw'[g].paused = lw[g].paused
         /\ lw'[g].queue = lw[g].queue /\ lw'[g].overflow = lw[g].overflow
         /\ lw'[g].loop = IF NewDir(lw[g].event) /\ generationCurrent(g) THEN "insert" ELSE "wait"
         /\ lw'[g].event = NoEvent
         /\ lw[g].edits \subseteq lw'[g].edits
         /\ Edited(lw[g].event) => lw[g].event.path \in lw'[g].edits
  <1> DEFINE e == lw[g].event
             next == IF NewDir(e) /\ generationCurrent(g) THEN "insert" ELSE "wait"
             l == WithEdit(lw[g], e)
             r == [l EXCEPT !.loop = next, !.event = NoEvent]
  <1>0. lw \in [Gens -> Watchers] /\ lw[g] \in Watchers /\ lw[g].loop = "handle"
    BY DEF Shape, TypeOK, Handle
  <1>1. e \in Events /\ e \in Asked
    <2>1. e \in Events \cup {NoEvent} /\ e # NoEvent
      BY <1>0, WatcherFields DEF Shape, LoopsFit
    <2> QED BY <2>1 DEF Events, Asked, Ops
  <1>2. next \in {"off", "wait", "handle", "insert"}
    OBVIOUS
  <1>3. /\ l \in Watchers /\ l.arm = lw[g].arm /\ l.cancelled = lw[g].cancelled /\ l.dirty = lw[g].dirty
        /\ l.paused = lw[g].paused /\ l.queue = lw[g].queue /\ l.overflow = lw[g].overflow
        /\ lw[g].edits \subseteq l.edits /\ (Edited(e) => e.path \in l.edits)
    <2>1. /\ l \in Watchers /\ l.arm = lw[g].arm /\ l.cancelled = lw[g].cancelled /\ l.dirty = lw[g].dirty
          /\ l.paused = lw[g].paused /\ l.queue = lw[g].queue /\ l.overflow = lw[g].overflow
      BY <1>0, <1>1, Editing
    <2>2. CASE Edited(e)
      BY <1>0, <1>1, <2>1, <2>2, Editing
    <2>3. CASE ~Edited(e)
      BY <1>0, <1>1, <2>1, <2>3, Editing
    <2> QED BY <2>1, <2>2, <2>3
  <1>4. lw' = [lw EXCEPT ![g] = r] /\ handleEvent(g, e, "loop")
    BY DEF Handle
  <1> HIDE DEF l, next
  <1>5. /\ r \in Watchers /\ r.arm = l.arm /\ r.cancelled = l.cancelled /\ r.dirty = l.dirty
        /\ r.paused = l.paused /\ r.queue = l.queue /\ r.overflow = l.overflow
        /\ r.edits = l.edits /\ r.loop = next /\ r.event = NoEvent
    BY <1>2, <1>3 DEF Watchers
  <1> HIDE DEF r
  <1>6. lw'[g] = r /\ lw' \in [Gens -> Watchers] /\ Others(g)
    BY <1>0, <1>4, <1>5 DEF Others
  <1>7. StillWorld /\ scan' = scan /\ ghost' = ghost
    BY DEF Handle, LoopFrame, StillWorld
  <1>8. /\ lw'[g].arm = lw[g].arm /\ lw'[g].cancelled = lw[g].cancelled
        /\ lw'[g].dirty = lw[g].dirty /\ lw'[g].paused = lw[g].paused
        /\ lw'[g].queue = lw[g].queue /\ lw'[g].overflow = lw[g].overflow
        /\ lw'[g].loop = next /\ lw'[g].event = NoEvent
    BY <1>3, <1>5, <1>6
  <1>9. lw[g].edits \subseteq lw'[g].edits /\ (Edited(e) => e.path \in lw'[g].edits)
    <2>1. lw'[g].edits = l.edits
      BY <1>5, <1>6
    <2> QED BY <1>3, <2>1
  <1> QED BY <1>0, <1>1, <1>4, <1>6, <1>7, <1>8, <1>9 DEF next

\* An overflow becomes a whole scan, or is noted for the next one.
LEMMA Marking ==
  ASSUME Shape, NEW g \in Gens, MarkDirty(g)
  PROVE  /\ StillWorld /\ scan' = scan /\ ghost' = ghost /\ flights' = flights
         /\ batch' \in [Kinds -> Batches] /\ Grown(g)
         /\ lw' \in [Gens -> Watchers] /\ Others(g)
         /\ lw'[g].arm = lw[g].arm /\ lw'[g].cancelled = lw[g].cancelled
         /\ lw'[g].paused = lw[g].paused /\ lw'[g].edits = lw[g].edits /\ lw'[g].timer = lw[g].timer
         /\ lw'[g].loop = lw[g].loop /\ lw'[g].event = lw[g].event /\ lw'[g].queue = lw[g].queue
         /\ \/ lw'[g].dirty
            \/ generationCurrent(g) /\ batch'["rescan"].gen = g /\ batch'["rescan"].timer = "armed"
  <1> DEFINE ready == generationCurrent(g) /\ mgr.depth = 0
             r == [lw[g] EXCEPT !.overflow = FALSE, !.dirty = ~ready]
  <1>0. lw \in [Gens -> Watchers] /\ lw[g] \in Watchers /\ TypeOK
    BY DEF Shape, TypeOK
  <1>1. lw' = [lw EXCEPT ![g] = r] /\ batch' = IF ready THEN Batched(batch, "rescan", g, {}) ELSE batch
    BY DEF MarkDirty
  <1>2. ready \in BOOLEAN /\ (ready => generationCurrent(g)) /\ "rescan" \in Kinds /\ {} \in SUBSET Paths
    BY DEF Kinds
  <1> HIDE DEF ready
  <1>3. /\ r \in Watchers /\ r.arm = lw[g].arm /\ r.cancelled = lw[g].cancelled
        /\ r.paused = lw[g].paused /\ r.edits = lw[g].edits /\ r.timer = lw[g].timer
        /\ r.loop = lw[g].loop /\ r.event = lw[g].event /\ r.queue = lw[g].queue /\ r.dirty = ~ready
    BY <1>0, <1>2 DEF Watchers
  <1> HIDE DEF r
  <1>4. lw'[g] = r /\ lw' \in [Gens -> Watchers] /\ Others(g)
    BY <1>0, <1>1, <1>3 DEF Others
  <1>5. StillWorld /\ scan' = scan /\ ghost' = ghost /\ flights' = flights
    BY DEF MarkDirty, LoopFrame, StillWorld
  <1>6. batch \in [Kinds -> Batches]
    BY <1>0 DEF TypeOK, Batches, Timing
  <1>7. batch' \in [Kinds -> Batches] /\ Grown(g)
    BY <1>0, <1>1, <1>2, <1>6, Batching DEF Grown
  <1>8. \/ lw'[g].dirty
        \/ generationCurrent(g) /\ batch'["rescan"].gen = g /\ batch'["rescan"].timer = "armed"
    <2>1. CASE ready
      BY <1>0, <1>1, <1>2, <2>1, Batching
    <2>2. CASE ~ready
      BY <1>3, <1>4, <2>2
    <2> QED BY <2>1, <2>2
  <1> QED BY <1>3, <1>4, <1>5, <1>7, <1>8

\* Draining a watcher empties what it keeps.
LEMMA Draining ==
  ASSUME NEW l \in Watchers
  PROVE  /\ Drained(l) \in Watchers
         /\ Drained(l).arm = l.arm /\ Drained(l).cancelled = l.cancelled /\ Drained(l).loop = l.loop
         /\ Drained(l).event = l.event /\ Drained(l).queue = l.queue /\ Drained(l).dirty = l.dirty
         /\ Drained(l).paused = NothingToReplay /\ Drained(l).edits = {} /\ Drained(l).timer = "none"
         /\ Drained(l).overflow = l.overflow
  <1>1. NothingToReplay \in [Paths -> SUBSET Ops]
    BY DEF NothingToReplay, Ops
  <1> HIDE DEF NothingToReplay
  <1> QED BY <1>1 DEF Drained, Watchers, Ops

\* The loop of a cancelled watcher ends.
LEMMA Exiting ==
  ASSUME Shape, NEW g \in Gens, Exit(g)
  PROVE  /\ StillWorld /\ scan' = scan /\ ghost' = ghost /\ flights' = flights /\ batch' = batch
         /\ lw' \in [Gens -> Watchers] /\ Others(g)
         /\ lw[g].loop = "wait" /\ lw[g].cancelled
         /\ lw'[g].arm = lw[g].arm /\ lw'[g].cancelled = lw[g].cancelled
         /\ lw'[g].paused = NothingToReplay /\ lw'[g].edits = {} /\ lw'[g].timer = "none"
         /\ lw'[g].loop = "off" /\ lw'[g].event = lw[g].event /\ lw'[g].queue = << >>
  <1> DEFINE d == Drained(lw[g])
             r == [d EXCEPT !.loop = "off", !.queue = << >>]
  <1>0. lw \in [Gens -> Watchers] /\ lw[g] \in Watchers
    BY DEF Shape, TypeOK
  <1>1. lw' = [lw EXCEPT ![g] = r] /\ lw[g].loop = "wait" /\ lw[g].cancelled
    BY DEF Exit
  <1>2. d \in Watchers /\ << >> \in Seq(Events)
    BY <1>0, Draining
  <1> HIDE DEF d
  <1>3. /\ r \in Watchers /\ r.arm = d.arm /\ r.cancelled = d.cancelled /\ r.event = d.event
        /\ r.paused = d.paused /\ r.edits = d.edits /\ r.timer = d.timer /\ r.loop = "off" /\ r.queue = << >>
    BY <1>2 DEF Watchers
  <1> HIDE DEF r
  <1>4. lw'[g] = r /\ lw' \in [Gens -> Watchers] /\ Others(g)
    BY <1>0, <1>1, <1>3 DEF Others
  <1>5. StillWorld /\ scan' = scan /\ ghost' = ghost /\ flights' = flights /\ batch' = batch
    BY DEF Exit, LoopFrame, StillWorld
  <1> QED BY <1>0, <1>1, <1>3, <1>4, <1>5, Draining DEF d

\* A timer's callback is admitted into its generation or refused.
LEMMA Admitting ==
  ASSUME Shape, NEW k \in Kinds, Admit(k)
  PROVE  /\ StillWorld /\ scan' = scan /\ ghost' = ghost /\ flights' = flights /\ lw' = lw
         /\ batch' \in [Kinds -> Batches]
         /\ \A j \in Kinds : /\ batch'[j].gen = batch[j].gen /\ batch'[j].paths = batch[j].paths
                             /\ batch[j].timer # "none" <=> batch'[j].timer # "none"
  <1> DEFINE t == IF generationCurrent(batch[k].gen) THEN "admitted" ELSE "refused"
             r == [batch[k] EXCEPT !.timer = t]
  <1>0. batch \in [Kinds -> Batches] /\ batch[k] \in Batches
    BY DEF Shape, TypeOK, Batches, Timing
  <1>1. batch' = [batch EXCEPT ![k] = r] /\ batch[k].timer # "none"
    BY DEF Admit
  <1>2. t \in Timing \ {"none"}
    BY DEF Timing
  <1> HIDE DEF t
  <1>3. r \in Batches /\ r.gen = batch[k].gen /\ r.paths = batch[k].paths /\ r.timer # "none"
    BY <1>0, <1>2 DEF Batches
  <1> HIDE DEF r
  <1>4. StillWorld /\ scan' = scan /\ ghost' = ghost /\ flights' = flights /\ lw' = lw
    BY DEF Admit, TimerFrame, StillWorld
  <1> QED BY <1>0, <1>1, <1>3, <1>4

\* A batch is taken, and what is left of it set out for its insert.
TimerFlight(k, g, ps) == [kind |-> k, gen |-> g, paths |-> ps, by |-> "timer"]
\* The batch is gone, and what is not suppressed of it is on its way.
LEMMA Taking ==
  ASSUME Shape, NEW k \in Kinds, Take(k)
  PROVE  /\ StillWorld /\ scan' = scan /\ ghost' = ghost /\ lw' = lw
         /\ batch' \in [Kinds -> Batches]
         /\ batch'[k] = NoBatch /\ \A j \in Kinds \ {k} : batch'[j] = batch[j]
         /\ batch[k].gen \in Gens
         /\ \E ps \in SUBSET Paths :
              /\ TimerFlight(k, batch[k].gen, ps) \in Flights
              /\ flights' = flights \/ (flights' = flights \cup {TimerFlight(k, batch[k].gen, ps)}
                                        /\ generationCurrent(batch[k].gen))
              /\ generationCurrent(batch[k].gen) =>
                   /\ k = "rescan" => TimerFlight(k, batch[k].gen, ps) \in flights'
                   /\ \A p \in batch[k].paths :
                        k # "side" \/ ~Suppressed(p) =>
                          p \in ps /\ TimerFlight(k, batch[k].gen, ps) \in flights'
  <1> DEFINE g == batch[k].gen
             ps == IF k = "side" THEN {p \in batch[k].paths : ~Suppressed(p)} ELSE batch[k].paths
             f == TimerFlight(k, g, ps)
  <1>0. batch \in [Kinds -> Batches] /\ batch[k] \in Batches /\ flights \in SUBSET Flights
    BY DEF Shape, TypeOK, Batches, Timing
  <1>1. batch' = [batch EXCEPT ![k] = NoBatch] /\ g \in Gens
    BY DEF Take, Shape, BatchesFit
  <1>2. flights' = IF generationCurrent(g) /\ (ps # {} \/ k = "rescan") THEN flights \cup {f} ELSE flights
    BY DEF Take, TimerFlight
  <1>3. ps \in SUBSET Paths
    BY <1>0 DEF Batches
  <1>4. f \in Flights
    BY <1>1, <1>3 DEF Flights, TimerFlight
  <1>5. NoBatch \in Batches
    BY BoundsAssumption DEF NoBatch, Batches, Timing
  <1>6. /\ StillWorld /\ scan' = scan /\ ghost' = ghost /\ lw' = lw
    BY DEF Take, TimerFrame, StillWorld
  <1>7. /\ batch' \in [Kinds -> Batches]
        /\ batch'[k] = NoBatch /\ \A j \in Kinds \ {k} : batch'[j] = batch[j]
    BY <1>0, <1>1, <1>5
  <1>8. \A p \in batch[k].paths : k # "side" \/ ~Suppressed(p) => p \in ps
    OBVIOUS
  <1> HIDE DEF f, ps
  <1>9. generationCurrent(g) =>
          /\ k = "rescan" => f \in flights'
          /\ \A p \in batch[k].paths : k # "side" \/ ~Suppressed(p) => p \in ps /\ f \in flights'
    BY <1>2, <1>8
  <1>10. flights' = flights \/ (flights' = flights \cup {f} /\ generationCurrent(g))
    BY <1>2
  <1> QED BY <1>1, <1>3, <1>4, <1>6, <1>7, <1>9, <1>10 DEF f

\* So are the edits of a watcher.
LEMMA AdmittingEdits ==
  ASSUME Shape, NEW g \in Gens, AdmitEdits(g)
  PROVE  /\ StillWorld /\ scan' = scan /\ ghost' = ghost /\ flights' = flights /\ batch' = batch
         /\ lw' \in [Gens -> Watchers] /\ Others(g)
         /\ lw[g].timer # "none"
         /\ lw'[g].arm = lw[g].arm /\ lw'[g].cancelled = lw[g].cancelled /\ lw'[g].dirty = lw[g].dirty
         /\ lw'[g].paused = lw[g].paused /\ lw'[g].edits = lw[g].edits /\ lw'[g].queue = lw[g].queue
         /\ lw'[g].overflow = lw[g].overflow /\ lw'[g].loop = lw[g].loop /\ lw'[g].event = lw[g].event
  <1> DEFINE t == IF generationCurrent(g) THEN "admitted" ELSE "refused"
             r == [lw[g] EXCEPT !.timer = t]
  <1>0. lw \in [Gens -> Watchers] /\ lw[g] \in Watchers
    BY DEF Shape, TypeOK
  <1>1. lw' = [lw EXCEPT ![g] = r] /\ lw[g].timer = "armed"
    BY DEF AdmitEdits
  <1>2. t \in Timing
    BY DEF Timing
  <1> HIDE DEF t
  <1>3. /\ r \in Watchers
        /\ r.arm = lw[g].arm /\ r.cancelled = lw[g].cancelled /\ r.dirty = lw[g].dirty
        /\ r.paused = lw[g].paused /\ r.edits = lw[g].edits /\ r.queue = lw[g].queue
        /\ r.overflow = lw[g].overflow /\ r.loop = lw[g].loop /\ r.event = lw[g].event
    BY <1>0, <1>2 DEF Watchers, Timing
  <1> HIDE DEF r
  <1>4. lw'[g] = r /\ lw' \in [Gens -> Watchers] /\ Others(g)
    BY <1>0, <1>1, <1>3 DEF Others
  <1>5. StillWorld /\ scan' = scan /\ ghost' = ghost /\ flights' = flights /\ batch' = batch
    BY DEF AdmitEdits, TimerFrame, StillWorld
  <1> QED BY <1>1, <1>3, <1>4, <1>5

\* The edits are gone, and what is not suppressed of them is on its way.
LEMMA TakingEdits ==
  ASSUME Shape, NEW g \in Gens, TakeEdits(g)
  PROVE  /\ StillWorld /\ scan' = scan /\ ghost' = ghost /\ batch' = batch
         /\ lw' \in [Gens -> Watchers] /\ Others(g)
         /\ lw'[g].arm = lw[g].arm /\ lw'[g].cancelled = lw[g].cancelled /\ lw'[g].dirty = lw[g].dirty
         /\ lw'[g].paused = lw[g].paused /\ lw'[g].edits = {} /\ lw'[g].queue = lw[g].queue
         /\ lw'[g].overflow = lw[g].overflow /\ lw'[g].loop = lw[g].loop /\ lw'[g].event = lw[g].event
         /\ lw'[g].timer = "none"
         /\ \E ps \in SUBSET Paths :
              /\ TimerFlight("edit", g, ps) \in Flights
              /\ flights' = flights \/ (flights' = flights \cup {TimerFlight("edit", g, ps)}
                                        /\ generationCurrent(g))
              /\ generationCurrent(g) =>
                   \A p \in lw[g].edits :
                     ~Suppressed(p) => p \in ps /\ TimerFlight("edit", g, ps) \in flights'
  <1> DEFINE r == [lw[g] EXCEPT !.edits = {}, !.timer = "none"]
             ps == {p \in lw[g].edits : ~Suppressed(p)}
             f == TimerFlight("edit", g, ps)
  <1>0. lw \in [Gens -> Watchers] /\ lw[g] \in Watchers /\ flights \in SUBSET Flights
    BY DEF Shape, TypeOK
  <1>1. lw' = [lw EXCEPT ![g] = r]
    BY DEF TakeEdits
  <1>2. flights' = IF generationCurrent(g) /\ ps # {} THEN flights \cup {f} ELSE flights
    BY DEF TakeEdits, TimerFlight
  <1>3. /\ r \in Watchers
        /\ r.arm = lw[g].arm /\ r.cancelled = lw[g].cancelled /\ r.dirty = lw[g].dirty
        /\ r.paused = lw[g].paused /\ r.edits = {} /\ r.queue = lw[g].queue /\ r.timer = "none"
        /\ r.overflow = lw[g].overflow /\ r.loop = lw[g].loop /\ r.event = lw[g].event
    BY <1>0 DEF Watchers
  <1> HIDE DEF r
  <1>4. lw'[g] = r /\ lw' \in [Gens -> Watchers] /\ Others(g)
    BY <1>0, <1>1, <1>3 DEF Others
  <1>5. ps \in SUBSET Paths
    BY <1>0 DEF Watchers
  <1>6. f \in Flights
    BY <1>5 DEF Flights, TimerFlight
  <1>7. StillWorld /\ scan' = scan /\ ghost' = ghost /\ batch' = batch
    BY DEF TakeEdits, TimerFrame, StillWorld
  <1>8. \A p \in lw[g].edits : ~Suppressed(p) => p \in ps
    OBVIOUS
  <1> HIDE DEF f, ps
  <1>9. generationCurrent(g) => \A p \in lw[g].edits : ~Suppressed(p) => p \in ps /\ f \in flights'
    BY <1>2, <1>8
  <1>10. flights' = flights \/ (flights' = flights \cup {f} /\ generationCurrent(g))
    BY <1>2
  <1>11. \E x \in SUBSET Paths :
           /\ TimerFlight("edit", g, x) \in Flights
           /\ flights' = flights \/ (flights' = flights \cup {TimerFlight("edit", g, x)}
                                     /\ generationCurrent(g))
           /\ generationCurrent(g) =>
                \A p \in lw[g].edits :
                  ~Suppressed(p) => p \in x /\ TimerFlight("edit", g, x) \in flights'
    BY <1>5, <1>6, <1>9, <1>10 DEF f
  <1> QED BY <1>3, <1>4, <1>7, <1>11

\* A batch is inserted, or its insert fails.
LEMMA Inserting ==
  ASSUME Shape, NEW f \in flights, Insert(f)
  PROVE  /\ world' = world /\ mgr' = mgr /\ keeper' = keeper /\ scan' = scan /\ batch' = batch
         /\ left' \in [LimitNames -> Nat]
         /\ flights' = flights \ {f} /\ f \in Flights /\ f.gen \in Gens
         /\ lw' \in [Gens -> Watchers]
         /\ \A g \in Gens :
              /\ lw'[g].arm = lw[g].arm /\ lw'[g].cancelled = lw[g].cancelled /\ lw'[g].dirty = lw[g].dirty
              /\ lw'[g].paused = lw[g].paused /\ lw'[g].edits = lw[g].edits /\ lw'[g].timer = lw[g].timer
              /\ lw'[g].queue = lw[g].queue /\ lw'[g].overflow = lw[g].overflow
              /\ lw'[g].event = lw[g].event
              /\ lw'[g].loop = IF f.by = "loop" /\ f.gen = g THEN "wait" ELSE lw[g].loop
         /\ ghost' \in [owed : SUBSET Paths, merged : SUBSET Paths, late : BOOLEAN]
         /\ ghost'.merged = ghost.merged /\ ghost'.owed \subseteq ghost.owed \ Covers(f)
         /\ \/ ghost'.late = ghost.late
            \/ /\ ghost'.late = (ghost.late \/ Joined(f.gen))
               /\ f.kind = "rescan" \/ ~lw[f.gen].cancelled
  <1>0. lw \in [Gens -> Watchers] /\ f \in Flights /\ f.gen \in Gens /\ TypeOK
    BY DEF Shape, TypeOK, Flights
  <1>1. /\ world' = world /\ mgr' = mgr /\ keeper' = keeper /\ scan' = scan /\ batch' = batch
        /\ flights' = flights \ {f}
        /\ lw' = IF f.by = "loop" THEN [lw EXCEPT ![f.gen].loop = "wait"] ELSE lw
    BY DEF Insert, Landed
  <1>2. left' \in [LimitNames -> Nat]
    <2>1. "fault" \in LimitNames /\ (Spend("fault") \/ UNCHANGED left)
      BY DEF Insert, LimitNames
    <2> QED BY <1>0, <2>1, Spending
  <1>3. /\ lw' \in [Gens -> Watchers]
        /\ \A g \in Gens :
             /\ lw'[g].arm = lw[g].arm /\ lw'[g].cancelled = lw[g].cancelled /\ lw'[g].dirty = lw[g].dirty
             /\ lw'[g].paused = lw[g].paused /\ lw'[g].edits = lw[g].edits /\ lw'[g].timer = lw[g].timer
             /\ lw'[g].queue = lw[g].queue /\ lw'[g].overflow = lw[g].overflow
             /\ lw'[g].event = lw[g].event
             /\ lw'[g].loop = IF f.by = "loop" /\ f.gen = g THEN "wait" ELSE lw[g].loop
    <2>1. CASE f.by = "loop"
      <3> DEFINE l == lw[f.gen]
                 r == [l EXCEPT !.loop = "wait"]
      <3>1. l \in Watchers
        BY <1>0
      <3>2. /\ r \in Watchers /\ r.arm = l.arm /\ r.cancelled = l.cancelled /\ r.dirty = l.dirty
            /\ r.paused = l.paused /\ r.edits = l.edits /\ r.timer = l.timer
            /\ r.queue = l.queue /\ r.overflow = l.overflow /\ r.event = l.event /\ r.loop = "wait"
        <4> HIDE DEF l
        <4> QED BY <3>1 DEF Watchers
      <3>3. lw' = [lw EXCEPT ![f.gen] = r]
        BY <1>1, <2>1
      <3> HIDE DEF r
      <3> QED BY <1>0, <2>1, <3>2, <3>3
    <2>2. CASE f.by # "loop"
      BY <1>0, <1>1, <2>2
    <2> QED BY <2>1, <2>2
  <1>4. ghost \in [owed : SUBSET Paths, merged : SUBSET Paths, late : BOOLEAN] /\ Joined(f.gen) \in BOOLEAN
    BY <1>0 DEF TypeOK, Joined
  <1>5. CASE /\ f.kind = "rescan" \/ ~lw[f.gen].cancelled
             /\ ghost' = [ghost EXCEPT !.owed = @ \ Covers(f), !.late = @ \/ Joined(f.gen)]
    <2> HIDE DEF Covers, Joined
    <2>1. /\ ghost' \in [owed : SUBSET Paths, merged : SUBSET Paths, late : BOOLEAN]
          /\ ghost'.merged = ghost.merged /\ ghost'.owed = ghost.owed \ Covers(f)
          /\ ghost'.late = (ghost.late \/ Joined(f.gen))
      BY <1>4, <1>5
    <2> QED BY <1>0, <1>1, <1>2, <1>3, <1>5, <2>1
  <1>6. CASE ghost' = [ghost EXCEPT !.owed = @ \ (f.paths \cup Covers(f))]
    <2> HIDE DEF Covers
    <2>1. /\ ghost' \in [owed : SUBSET Paths, merged : SUBSET Paths, late : BOOLEAN]
          /\ ghost'.merged = ghost.merged /\ ghost'.owed \subseteq ghost.owed \ Covers(f)
          /\ ghost'.late = ghost.late
      BY <1>4, <1>6
    <2> QED BY <1>0, <1>1, <1>2, <1>3, <2>1
  <1> QED BY <1>5, <1>6 DEF Insert

\* A scan raises or lowers the pause depth and nothing else of the manager.
ScanRecords ==
  [pc : {"idle", "scanning", "take", "replay"}, gen : 0..MaxGen, todo : [Paths -> SUBSET Ops]]
MgrRecords ==
  [gen : 0..MaxGen, depth : Nat, watcher : 0..MaxGen, walk : 0..MaxGen,
   desired : {"unknown", "on", "off"}, stopped : BOOLEAN]
SameMgr ==
  /\ mgr' \in MgrRecords /\ mgr'.gen = mgr.gen /\ mgr'.watcher = mgr.watcher /\ mgr'.walk = mgr.walk
  /\ mgr'.desired = mgr.desired /\ mgr'.stopped = mgr.stopped
SameButDepth(g) ==
  /\ lw'[g].arm = lw[g].arm /\ lw'[g].cancelled = lw[g].cancelled /\ lw'[g].dirty = lw[g].dirty
  /\ lw'[g].paused = lw[g].paused /\ lw'[g].edits = lw[g].edits /\ lw'[g].timer = lw[g].timer
  /\ lw'[g].queue = lw[g].queue /\ lw'[g].overflow = lw[g].overflow
  /\ lw'[g].event = lw[g].event /\ lw'[g].loop = lw[g].loop

\* Only the depths change.
LEMMA Deepening ==
  ASSUME TypeOK, NEW d \in Nat, SetDepth(d) \/ UNCHANGED <<mgr, lw>>
  PROVE  SameMgr /\ lw' \in [Gens -> Watchers] /\ \A g \in Gens : SameButDepth(g)
  <1>0. lw \in [Gens -> Watchers] /\ mgr \in MgrRecords
    BY DEF TypeOK, MgrRecords
  <1>1. CASE UNCHANGED <<mgr, lw>>
    BY <1>0, <1>1 DEF SameMgr, SameButDepth
  <1>2. CASE SetDepth(d)
    <2>1. SameMgr
      BY <1>0, <1>2 DEF SetDepth, SameMgr, MgrRecords
    <2> DEFINE r(g) == [lw[g] EXCEPT !.depth = d]
    <2>2. lw' = [g \in Gens |-> IF mgr.watcher = g THEN r(g) ELSE lw[g]]
      BY <1>2 DEF SetDepth
    <2>3. ASSUME NEW g \in Gens
          PROVE  lw'[g] \in Watchers /\ SameButDepth(g)
      <3>1. lw'[g] = lw[g] \/ lw'[g] = [lw[g] EXCEPT !.depth = d]
        BY <2>2
      <3> QED BY <1>0, <3>1 DEF Watchers, SameButDepth
    <2>4. lw' \in [Gens -> Watchers]
      <3> HIDE DEF r
      <3> QED BY <2>2, <2>3
    <2> QED BY <2>1, <2>3, <2>4
  <1> QED BY <1>1, <1>2

StillScan == world' = world /\ keeper' = keeper /\ left' = left
OtherScans(s) == scan' \in [Scans -> ScanRecords] /\ \A t \in Scans \ {s} : scan'[t] = scan[t]
\* A scan that begins pauses the watcher.
LEMMA Pausing ==
  ASSUME Shape, NEW s \in Scans, Pause(s)
  PROVE  /\ StillScan /\ batch' = batch /\ flights' = flights /\ ghost' = ghost
         /\ SameMgr /\ lw' \in [Gens -> Watchers] /\ \A g \in Gens : SameButDepth(g)
         /\ OtherScans(s) /\ scan[s].pc = "idle" /\ scan'[s].pc = "scanning"
         /\ scan'[s].gen = scan[s].gen /\ scan'[s].todo = scan[s].todo
  <1>0. TypeOK /\ scan \in [Scans -> ScanRecords] /\ mgr.depth \in Nat
    BY DEF Shape, TypeOK, ScanRecords, Ops
  <1>1. SetDepth(mgr.depth + 1) \/ UNCHANGED <<mgr, lw>>
    BY DEF Pause
  <1>2. SameMgr /\ lw' \in [Gens -> Watchers] /\ \A g \in Gens : SameButDepth(g)
    BY <1>0, <1>1, Deepening
  <1>3. scan' = [scan EXCEPT ![s].pc = "scanning"] /\ scan[s].pc = "idle"
    BY DEF Pause
  <1>4. OtherScans(s) /\ scan'[s].pc = "scanning" /\ scan'[s].gen = scan[s].gen /\ scan'[s].todo = scan[s].todo
    BY <1>0, <1>3 DEF OtherScans, ScanRecords
  <1>5. StillScan /\ batch' = batch /\ flights' = flights /\ ghost' = ghost
    BY DEF Pause, ScanFrame, StillScan
  <1> QED BY <1>2, <1>3, <1>4, <1>5

\* The last scan to resume goes on to what the watcher has kept.
LEMMA Resuming ==
  ASSUME Shape, NEW s \in Scans, Resume(s)
  PROVE  /\ StillScan /\ batch' = batch /\ flights' = flights /\ ghost' = ghost
         /\ SameMgr /\ lw' \in [Gens -> Watchers] /\ \A g \in Gens : SameButDepth(g)
         /\ OtherScans(s) /\ scan[s].pc = "scanning" /\ scan'[s].todo = scan[s].todo
         /\ \/ scan'[s].pc = "idle" /\ scan'[s].gen = scan[s].gen
            \/ scan'[s].pc = "take" /\ scan'[s].gen = mgr.watcher /\ mgr.watcher # 0
  <1>0. TypeOK /\ scan \in [Scans -> ScanRecords] /\ scan[s] \in ScanRecords /\ mgr.depth \in Nat /\ mgr.watcher \in 0..MaxGen
    BY DEF Shape, TypeOK, ScanRecords, Ops
  <1>1. Lowered \in Nat /\ (SetDepth(Lowered) \/ UNCHANGED <<mgr, lw>>)
    BY <1>0 DEF Resume, Lowered
  <1>2. SameMgr /\ lw' \in [Gens -> Watchers] /\ \A g \in Gens : SameButDepth(g)
    BY <1>0, <1>1, Deepening
  <1>3. /\ scan[s].pc = "scanning"
        /\ \/ scan' = [scan EXCEPT ![s].pc = "idle"]
           \/ scan' = [scan EXCEPT ![s] = [@ EXCEPT !.pc = "take", !.gen = mgr.watcher]] /\ mgr.watcher # 0
    <2>1. CASE mgr.stopped
      BY <2>1 DEF Resume
    <2>2. CASE ~mgr.stopped /\ mgr'.depth = 0 /\ mgr.watcher # 0
      BY <2>2 DEF Resume
    <2>3. CASE ~mgr.stopped /\ ~(mgr'.depth = 0 /\ mgr.watcher # 0)
      <3>1. scan[s].pc = "scanning" /\ scan' = [scan EXCEPT ![s] = [@ EXCEPT !.pc = "idle"]]
        BY <2>3 DEF Resume
      <3> QED BY <3>1
    <2> QED BY <2>1, <2>2, <2>3
  <1>4. /\ OtherScans(s) /\ scan'[s].todo = scan[s].todo
        /\ \/ scan'[s].pc = "idle" /\ scan'[s].gen = scan[s].gen
           \/ scan'[s].pc = "take" /\ scan'[s].gen = mgr.watcher /\ mgr.watcher # 0
    <2>1. CASE scan' = [scan EXCEPT ![s].pc = "idle"]
      BY <1>0, <2>1 DEF OtherScans, ScanRecords
    <2>2. CASE scan' = [scan EXCEPT ![s] = [@ EXCEPT !.pc = "take", !.gen = mgr.watcher]] /\ mgr.watcher # 0
      BY <1>0, <2>2 DEF OtherScans, ScanRecords
    <2> QED BY <1>3, <2>1, <2>2
  <1>5. StillScan /\ batch' = batch /\ flights' = flights /\ ghost' = ghost
    BY DEF Resume, ScanFrame, StillScan
  <1> QED BY <1>2, <1>3, <1>4, <1>5

\* What a watcher has kept is handed to the scan.
LEMMA TakingPaused ==
  ASSUME Shape, NEW s \in Scans, TakePaused(s)
  PROVE  /\ StillScan /\ mgr' = mgr /\ batch' = batch /\ flights' = flights /\ ghost' = ghost
         /\ scan[s].gen \in Gens /\ scan[s].todo = NothingToReplay
         /\ lw' \in [Gens -> Watchers] /\ Others(scan[s].gen)
         /\ lw'[scan[s].gen].arm = lw[scan[s].gen].arm
         /\ lw'[scan[s].gen].cancelled = lw[scan[s].gen].cancelled
         /\ lw'[scan[s].gen].dirty = lw[scan[s].gen].dirty
         /\ lw'[scan[s].gen].edits = lw[scan[s].gen].edits
         /\ lw'[scan[s].gen].timer = lw[scan[s].gen].timer
         /\ lw'[scan[s].gen].queue = lw[scan[s].gen].queue
         /\ lw'[scan[s].gen].overflow = lw[scan[s].gen].overflow
         /\ lw'[scan[s].gen].event = lw[scan[s].gen].event
         /\ lw'[scan[s].gen].loop = lw[scan[s].gen].loop
         /\ lw'[scan[s].gen].paused = NothingToReplay
         /\ OtherScans(s) /\ scan'[s].pc = "replay" /\ scan'[s].gen = scan[s].gen
         /\ scan'[s].todo = lw[scan[s].gen].paused
  <1> DEFINE g == scan[s].gen
             l == lw[g]
             r == [l EXCEPT !.paused = NothingToReplay]
             x == [scan[s] EXCEPT !.pc = "replay", !.todo = l.paused]
  <1>0. /\ scan \in [Scans -> ScanRecords] /\ scan[s] \in ScanRecords /\ lw \in [Gens -> Watchers]
    BY DEF Shape, TypeOK, ScanRecords, Ops
  <1>1. /\ g \in Gens /\ scan[s].todo = NothingToReplay
        /\ scan' = [scan EXCEPT ![s] = x] /\ lw' = [lw EXCEPT ![g] = r]
    BY DEF TakePaused, Shape, ScansFit
  <1>2. l \in Watchers
    BY <1>0, <1>1
  <1>3. l.paused \in [Paths -> SUBSET Ops] /\ NothingToReplay \in [Paths -> SUBSET Ops]
    BY <1>2, WatcherFields DEF NothingToReplay
  <1> HIDE DEF l, g
  <1>4. /\ r \in Watchers /\ r.arm = l.arm /\ r.cancelled = l.cancelled /\ r.dirty = l.dirty /\ r.edits = l.edits
        /\ r.timer = l.timer /\ r.queue = l.queue /\ r.overflow = l.overflow /\ r.event = l.event
        /\ r.loop = l.loop /\ r.paused = NothingToReplay
    <2> HIDE DEF NothingToReplay
    <2> QED BY <1>2, <1>3 DEF Watchers, Ops
  <1>5. x \in ScanRecords /\ x.pc = "replay" /\ x.gen = scan[s].gen /\ x.todo = l.paused
    BY <1>0, <1>3 DEF ScanRecords
  <1> HIDE DEF r, x
  <1>6. lw'[g] = r /\ lw' \in [Gens -> Watchers] /\ Others(g)
    BY <1>0, <1>1, <1>4 DEF Others
  <1>7. OtherScans(s) /\ scan'[s] = x
    BY <1>0, <1>1, <1>5 DEF OtherScans
  <1>8. StillScan /\ mgr' = mgr /\ batch' = batch /\ flights' = flights /\ ghost' = ghost
    BY DEF TakePaused, ScanFrame, StillScan
  <1> QED BY <1>1, <1>4, <1>5, <1>6, <1>7, <1>8 DEF l, g

\* One of the kept paths is handled.
Replayed(s, p) == [path |-> p, ops |-> scan[s].todo[p]]
\* The path is handled as an event of the loop would be, and done with.
LEMMA Replaying ==
  ASSUME Shape, NEW s \in Scans, NEW p \in Paths, Replay(s, p)
  PROVE  /\ StillScan /\ mgr' = mgr /\ ghost' = ghost
         /\ scan[s].gen \in Gens /\ Replayed(s, p) \in Asked
         /\ handleEvent(scan[s].gen, Replayed(s, p), "resume")
         /\ lw' \in [Gens -> Watchers] /\ Others(scan[s].gen)
         /\ lw'[scan[s].gen].arm = lw[scan[s].gen].arm
         /\ lw'[scan[s].gen].cancelled = lw[scan[s].gen].cancelled
         /\ lw'[scan[s].gen].dirty = lw[scan[s].gen].dirty
         /\ lw'[scan[s].gen].paused = lw[scan[s].gen].paused
         /\ lw'[scan[s].gen].queue = lw[scan[s].gen].queue
         /\ lw'[scan[s].gen].overflow = lw[scan[s].gen].overflow
         /\ lw'[scan[s].gen].event = lw[scan[s].gen].event
         /\ lw'[scan[s].gen].loop = lw[scan[s].gen].loop
         /\ lw[scan[s].gen].edits \subseteq lw'[scan[s].gen].edits
         /\ Edited(Replayed(s, p)) => p \in lw'[scan[s].gen].edits
         /\ ~Edited(Replayed(s, p)) => lw' = lw
         /\ OtherScans(s) /\ scan[s].pc = "replay" /\ scan'[s].pc = "replay" /\ scan'[s].gen = scan[s].gen
         /\ \A q \in Paths \ {p} : scan'[s].todo[q] = scan[s].todo[q]
         /\ scan[s].todo[p] # {} /\ scan'[s].todo[p] = {}
  <1> DEFINE g == scan[s].gen
             e == Replayed(s, p)
             l == lw[g]
             r == WithEdit(l, e)
             n == [scan[s].todo EXCEPT ![p] = {}]
             x == [scan[s] EXCEPT !.todo = n]
  <1>0. /\ scan \in [Scans -> ScanRecords] /\ scan[s] \in ScanRecords /\ lw \in [Gens -> Watchers]
    BY DEF Shape, TypeOK, ScanRecords, Ops
  <1>1. g \in Gens /\ scan[s].pc = "replay" /\ scan[s].todo[p] # {}
    BY DEF Replay, Shape, ScansFit
  <1>2. scan' = [scan EXCEPT ![s] = x]
    BY <1>0 DEF Replay, ScanRecords
  <1>3. handleEvent(g, e, "resume") /\ lw' = [lw EXCEPT ![g] = r]
    BY DEF Replay, Replayed
  <1>4. scan[s].todo \in [Paths -> SUBSET Ops]
    BY <1>0 DEF ScanRecords
  <1>5. e \in Asked /\ e.path = p
    BY <1>4 DEF Asked, Replayed
  <1>6. n \in [Paths -> SUBSET Ops] /\ n[p] = {} /\ \A q \in Paths \ {p} : n[q] = scan[s].todo[q]
    BY <1>4
  <1> HIDE DEF n
  <1>7. x \in ScanRecords /\ x.pc = "replay" /\ x.gen = scan[s].gen /\ x.todo = n
    BY <1>0, <1>1, <1>6 DEF ScanRecords
  <1> HIDE DEF x
  <1>8. OtherScans(s) /\ scan'[s] = x
    BY <1>0, <1>2, <1>7 DEF OtherScans
  <1>9. l \in Watchers
    BY <1>0, <1>1
  <1> HIDE DEF e, l, g
  <1>10. /\ r \in Watchers /\ r.arm = l.arm /\ r.cancelled = l.cancelled /\ r.dirty = l.dirty
         /\ r.paused = l.paused /\ r.queue = l.queue /\ r.overflow = l.overflow /\ r.event = l.event
         /\ r.loop = l.loop /\ l.edits \subseteq r.edits /\ (Edited(e) => p \in r.edits)
         /\ (~Edited(e) => r = l)
    <2>1. /\ r \in Watchers /\ r.arm = l.arm /\ r.cancelled = l.cancelled /\ r.dirty = l.dirty
          /\ r.paused = l.paused /\ r.queue = l.queue /\ r.overflow = l.overflow /\ r.event = l.event
          /\ r.loop = l.loop
      BY <1>5, <1>9, Editing
    <2>2. CASE Edited(e)
      <3>1. r.edits = l.edits \cup {p}
        BY <1>5, <1>9, <2>2, Editing
      <3> QED BY <2>1, <2>2, <3>1
    <2>3. CASE ~Edited(e)
      <3>1. r = l
        BY <1>5, <1>9, <2>3, Editing
      <3> QED BY <2>1, <2>3, <3>1
    <2> QED BY <2>2, <2>3
  <1> HIDE DEF r
  <1>11. lw'[g] = r /\ lw' \in [Gens -> Watchers] /\ Others(g)
    BY <1>0, <1>1, <1>3, <1>10 DEF Others, g
  <1>12. ~Edited(e) => lw' = lw
    <2>1. lw' = [lw EXCEPT ![g] = r] /\ lw[g] = l
      BY <1>3 DEF l, g
    <2> QED BY <1>0, <1>10, <2>1
  <1>13. StillScan /\ mgr' = mgr /\ ghost' = ghost
    BY DEF Replay, ScanFrame, StillScan
  <1>14. /\ lw'[g].arm = lw[g].arm /\ lw'[g].cancelled = lw[g].cancelled /\ lw'[g].dirty = lw[g].dirty
         /\ lw'[g].paused = lw[g].paused /\ lw'[g].queue = lw[g].queue /\ lw'[g].overflow = lw[g].overflow
         /\ lw'[g].event = lw[g].event /\ lw'[g].loop = lw[g].loop
         /\ lw[g].edits \subseteq lw'[g].edits /\ (Edited(e) => p \in lw'[g].edits)
    <2>1. lw'[g] = r /\ lw[g] = l
      BY <1>11 DEF l, g
    <2> QED BY <1>10, <2>1
  <1>15. /\ scan'[s].pc = "replay" /\ scan'[s].gen = scan[s].gen
         /\ (\A q \in Paths \ {p} : scan'[s].todo[q] = scan[s].todo[q]) /\ scan'[s].todo[p] = {}
    BY <1>6, <1>7, <1>8
  <1> QED BY <1>1, <1>3, <1>5, <1>8, <1>11, <1>12, <1>13, <1>14, <1>15 DEF e, l, g

\* At the end of a replay, what the watcher could not keep becomes a whole scan.
LEMMA Swapping ==
  ASSUME Shape, NEW s \in Scans, SwapDirty(s)
  PROVE  /\ StillScan /\ mgr' = mgr /\ flights' = flights /\ ghost' = ghost
         /\ scan[s].gen \in Gens /\ scan[s].todo = NothingToReplay
         /\ lw' \in [Gens -> Watchers] /\ Others(scan[s].gen)
         /\ lw'[scan[s].gen].arm = lw[scan[s].gen].arm
         /\ lw'[scan[s].gen].cancelled = lw[scan[s].gen].cancelled
         /\ lw'[scan[s].gen].paused = lw[scan[s].gen].paused
         /\ lw'[scan[s].gen].edits = lw[scan[s].gen].edits
         /\ lw'[scan[s].gen].timer = lw[scan[s].gen].timer
         /\ lw'[scan[s].gen].queue = lw[scan[s].gen].queue
         /\ lw'[scan[s].gen].overflow = lw[scan[s].gen].overflow
         /\ lw'[scan[s].gen].event = lw[scan[s].gen].event
         /\ lw'[scan[s].gen].loop = lw[scan[s].gen].loop
         /\ batch' \in [Kinds -> Batches] /\ Grown(scan[s].gen)
         /\ lw[scan[s].gen].dirty /\ generationCurrent(scan[s].gen) =>
              batch'["rescan"].gen = scan[s].gen /\ batch'["rescan"].timer = "armed"
         /\ OtherScans(s) /\ scan'[s].pc = "idle" /\ scan'[s].gen = 0 /\ scan'[s].todo = NothingToReplay
  <1> DEFINE g == scan[s].gen
             l == lw[g]
             r == [l EXCEPT !.dirty = FALSE]
             x == [scan[s] EXCEPT !.pc = "idle", !.gen = 0]
  <1>0. /\ scan \in [Scans -> ScanRecords] /\ scan[s] \in ScanRecords /\ lw \in [Gens -> Watchers] /\ TypeOK
        /\ batch \in [Kinds -> Batches]
    BY DEF Shape, TypeOK, ScanRecords, Ops, Batches, Timing
  <1>1. g \in Gens /\ scan[s].todo = NothingToReplay
    BY DEF SwapDirty, Shape, ScansFit
  <1>2. /\ scan' = [scan EXCEPT ![s] = x] /\ lw' = [lw EXCEPT ![g] = r]
        /\ batch' = IF l.dirty THEN Batched(batch, "rescan", g, {}) ELSE batch
    BY DEF SwapDirty
  <1>3. l \in Watchers /\ "rescan" \in Kinds /\ {} \in SUBSET Paths
    BY <1>0, <1>1 DEF Kinds
  <1>4. batch' \in [Kinds -> Batches] /\ Grown(g)
    BY <1>0, <1>1, <1>2, <1>3, Batching DEF Grown
  <1>5. l.dirty /\ generationCurrent(g) => batch'["rescan"].gen = g /\ batch'["rescan"].timer = "armed"
    BY <1>0, <1>1, <1>2, <1>3, Batching
  <1>6. x \in ScanRecords /\ x.pc = "idle" /\ x.gen = 0 /\ x.todo = scan[s].todo
    <2>1. 0 \in 0..MaxGen
      BY BoundsAssumption
    <2> QED BY <1>0, <2>1 DEF ScanRecords
  <1> HIDE DEF l, g
  <1>7. /\ r \in Watchers /\ r.arm = l.arm /\ r.cancelled = l.cancelled /\ r.paused = l.paused /\ r.edits = l.edits
        /\ r.timer = l.timer /\ r.queue = l.queue /\ r.overflow = l.overflow /\ r.event = l.event
        /\ r.loop = l.loop
    BY <1>3 DEF Watchers
  <1> HIDE DEF r, x
  <1>8. lw'[g] = r /\ lw' \in [Gens -> Watchers] /\ Others(g)
    BY <1>0, <1>1, <1>2, <1>7 DEF Others
  <1>9. OtherScans(s) /\ scan'[s] = x
    BY <1>0, <1>2, <1>6 DEF OtherScans
  <1>10. StillScan /\ mgr' = mgr /\ flights' = flights /\ ghost' = ghost
    BY DEF SwapDirty, ScanFrame, StillScan
  <1> QED BY <1>1, <1>4, <1>5, <1>6, <1>7, <1>8, <1>9, <1>10 DEF l, g

-----------------------------------------------------------------------------
(***************************************************************************)
(* What each step of the reconciler and of a walk does.                    *)
(***************************************************************************)
KeeperRecords ==
  [pc : {"idle", "drain", "cancel", "wait", "drain2", "arm"},
   why : {"none", "sync", "unwatch", "stop"}, gen : 0..MaxGen]
StillKeeping == world' = world /\ scan' = scan /\ flights' = flights
KeeperGoes(to) ==
  /\ keeper' \in KeeperRecords /\ keeper'.pc = to /\ keeper'.why = keeper.why /\ keeper'.gen = keeper.gen

\* A generation is given up: the manager forgets its watcher.
LEMMA Invalidating ==
  ASSUME Shape, NEW why \in {"sync", "unwatch", "stop"}, Invalidate(why)
  PROVE  /\ StillKeeping /\ lw' = lw /\ batch' = batch /\ left' \in [LimitNames -> Nat]
         /\ keeper.pc = "idle" /\ ~mgr.stopped
         /\ keeper' \in KeeperRecords
         /\ keeper'.pc = "drain" /\ keeper'.why = why /\ keeper'.gen = mgr.watcher
         /\ mgr' \in MgrRecords /\ mgr'.watcher = 0
         /\ \/ /\ why = "stop" /\ mgr'.stopped /\ mgr'.gen = mgr.gen /\ mgr'.desired = "unknown"
            \/ /\ (why = "sync" /\ lib.exists) \/ (why = "unwatch" /\ ~lib.exists /\ mgr.desired # "unknown")
               /\ ~mgr'.stopped /\ mgr'.gen = mgr.gen + 1 /\ mgr'.gen \in Gens /\ mgr'.desired = mgr.desired
         /\ ghost' \in [owed : SUBSET Paths, merged : SUBSET Paths, late : BOOLEAN]
         /\ ghost'.owed = {} /\ ghost'.late = ghost.late
  <1>0. TypeOK /\ mgr \in MgrRecords
    BY DEF Shape, TypeOK, MgrRecords
  <1>1. StillKeeping /\ lw' = lw /\ batch' = batch /\ keeper.pc = "idle" /\ ~mgr.stopped
    BY DEF Invalidate, KeepFrame, StillKeeping
  <1>2. left' \in [LimitNames -> Nat]
    <2>1. (Spend("early") \/ UNCHANGED left) /\ "early" \in LimitNames
      BY DEF Invalidate, LimitNames
    <2> QED BY <1>0, <2>1, Spending
  <1>3. keeper' \in KeeperRecords /\ keeper'.pc = "drain" /\ keeper'.why = why /\ keeper'.gen = mgr.watcher
    <2>1. keeper' = [pc |-> "drain", why |-> why, gen |-> mgr.watcher]
      BY DEF Invalidate
    <2> QED BY <1>0, <2>1 DEF KeeperRecords, MgrRecords
  <1>4. /\ ghost' \in [owed : SUBSET Paths, merged : SUBSET Paths, late : BOOLEAN]
        /\ ghost'.owed = {} /\ ghost'.late = ghost.late
    <2>1. ghost' = [ghost EXCEPT !.owed = {}, !.merged = {}]
      BY DEF Invalidate
    <2> QED BY <1>0, <2>1 DEF TypeOK
  <1>5. CASE why = "stop"
    <2>1. mgr' = [mgr EXCEPT !.stopped = TRUE, !.watcher = 0, !.walk = 0, !.depth = 0,
                             !.desired = "unknown"]
      BY <1>5 DEF Invalidate
    <2>2. 0 \in 0..MaxGen
      BY BoundsAssumption
    <2>3. /\ mgr' \in MgrRecords /\ mgr'.watcher = 0 /\ mgr'.stopped /\ mgr'.gen = mgr.gen
          /\ mgr'.desired = "unknown"
      BY <1>0, <2>1, <2>2 DEF MgrRecords
    <2> QED BY <1>1, <1>2, <1>3, <1>4, <1>5, <2>3
  <1>6. CASE why # "stop"
    <2>1. mgr' = [mgr EXCEPT !.gen = @ + 1, !.watcher = 0]
      BY <1>6 DEF Invalidate
    <2>2. /\ mgr.gen < MaxGen
          /\ (why = "sync" /\ lib.exists) \/ (why = "unwatch" /\ ~lib.exists /\ mgr.desired # "unknown")
      <3>1. CASE why = "sync"
        BY <3>1 DEF Invalidate
      <3>2. CASE why = "unwatch"
        BY <3>2 DEF Invalidate
      <3> QED BY <1>6, <3>1, <3>2
    <2>3. 0 \in 0..MaxGen /\ mgr.gen + 1 \in 0..MaxGen /\ mgr.gen + 1 \in Gens
      <3>1. mgr.gen \in 0..MaxGen
        BY <1>0 DEF MgrRecords
      <3> QED BY <2>2, <3>1, BoundsAssumption DEF Gens
    <2>4. /\ mgr' \in MgrRecords /\ mgr'.watcher = 0 /\ mgr'.stopped = mgr.stopped /\ mgr'.gen = mgr.gen + 1
          /\ mgr'.desired = mgr.desired
      BY <1>0, <2>1, <2>3 DEF MgrRecords
    <2> QED BY <1>1, <1>2, <1>3, <1>4, <2>2, <2>3, <2>4
  <1> QED BY <1>5, <1>6

\* The keeper goes on.
LEMMA KeeperGoing ==
  ASSUME Shape, NEW to \in {"cancel", "wait", "drain2", "arm"}, keeper' = [keeper EXCEPT !.pc = to]
  PROVE  KeeperGoes(to)
  BY DEF Shape, TypeOK, KeeperGoes, KeeperRecords

\* The watcher that was given up is drained and cancelled.
LEMMA DrainingOld ==
  ASSUME Shape, Drain
  PROVE  /\ StillKeeping /\ mgr' = mgr /\ batch' = batch /\ ghost' = ghost /\ left' = left
         /\ keeper.pc = "drain" /\ KeeperGoes("cancel")
         /\ lw' \in [Gens -> Watchers] /\ Others(keeper.gen)
         /\ keeper.gen \in Gens =>
              /\ lw'[keeper.gen].arm = lw[keeper.gen].arm /\ lw'[keeper.gen].cancelled
              /\ lw'[keeper.gen].paused = NothingToReplay /\ lw'[keeper.gen].edits = {}
              /\ lw'[keeper.gen].timer = "none" /\ lw'[keeper.gen].loop = lw[keeper.gen].loop
              /\ lw'[keeper.gen].event = lw[keeper.gen].event /\ lw'[keeper.gen].queue = lw[keeper.gen].queue
              /\ lw'[keeper.gen].dirty = lw[keeper.gen].dirty
  <1> DEFINE g == keeper.gen
             r(h) == [Drained(lw[h]) EXCEPT !.cancelled = TRUE]
  <1>0. lw \in [Gens -> Watchers]
    BY DEF Shape, TypeOK
  <1>1. lw' = [h \in Gens |-> IF h = g THEN r(h) ELSE lw[h]]
    BY DEF Drain
  <1>2. ASSUME NEW h \in Gens
        PROVE  /\ r(h) \in Watchers /\ r(h).arm = lw[h].arm /\ r(h).cancelled
               /\ r(h).paused = NothingToReplay /\ r(h).edits = {}
               /\ r(h).timer = "none" /\ r(h).loop = lw[h].loop /\ r(h).event = lw[h].event
               /\ r(h).queue = lw[h].queue
               /\ r(h).dirty = lw[h].dirty
    <2> DEFINE d == Drained(lw[h])
    <2>1. /\ d \in Watchers /\ d.arm = lw[h].arm /\ d.paused = NothingToReplay /\ d.edits = {}
          /\ d.timer = "none" /\ d.loop = lw[h].loop /\ d.event = lw[h].event /\ d.queue = lw[h].queue
          /\ d.dirty = lw[h].dirty
      BY <1>0, Draining
    <2>2. r(h) = [d EXCEPT !.cancelled = TRUE]
      OBVIOUS
    <2> HIDE DEF d, r
    <2>3. /\ r(h) \in Watchers /\ r(h).arm = d.arm /\ r(h).cancelled
          /\ r(h).paused = d.paused /\ r(h).edits = d.edits
          /\ r(h).timer = d.timer /\ r(h).loop = d.loop /\ r(h).event = d.event
          /\ r(h).queue = d.queue /\ r(h).dirty = d.dirty
      BY <2>1, <2>2 DEF Watchers
    <2> QED BY <2>1, <2>3
  <1>3. /\ StillKeeping /\ mgr' = mgr /\ batch' = batch /\ ghost' = ghost /\ left' = left
        /\ keeper.pc = "drain" /\ KeeperGoes("cancel")
    BY KeeperGoing DEF Drain, KeepFrame, StillKeeping
  <1> HIDE DEF r
  <1>4. lw' \in [Gens -> Watchers] /\ Others(g) /\ (g \in Gens => lw'[g] = r(g))
    BY <1>0, <1>1, <1>2 DEF Others
  <1> QED BY <1>2, <1>3, <1>4

\* Its batches are dropped.
LEMMA Cancelling ==
  ASSUME Shape, cancelPendingEnqueues
  PROVE  /\ StillKeeping /\ mgr' = mgr /\ lw' = lw /\ ghost' = ghost /\ left' = left
         /\ keeper.pc = "cancel" /\ KeeperGoes("wait")
         /\ batch' \in [Kinds -> Batches] /\ \A k \in Kinds : batch'[k] = NoBatch
  <1>1. NoBatch \in Batches
    BY BoundsAssumption DEF NoBatch, Batches, Timing
  <1> QED BY <1>1, KeeperGoing DEF cancelPendingEnqueues, KeepFrame, StillKeeping

\* Its loop and its callbacks are joined.
LEMMA Waiting ==
  ASSUME Shape, Wait
  PROVE  /\ StillKeeping /\ mgr' = mgr /\ lw' = lw /\ batch' = batch /\ ghost' = ghost /\ left' = left
         /\ keeper.pc = "wait" /\ KeeperGoes("drain2")
         /\ \A f \in flights : f.gen = keeper.gen => f.by = "resume"
  <1>1. \A f \in flights : f.gen \in Gens
    BY DEF Shape, TypeOK, Flights
  <1>2. \A f \in flights : f.gen = keeper.gen => f.by = "resume"
    BY <1>1 DEF Wait, ActivitiesEnded, ActivityOf
  <1> QED BY <1>2, KeeperGoing DEF Wait, KeepFrame, StillKeeping

\* It is drained once more.
LEMMA DrainingTwice ==
  ASSUME Shape, DrainAgain
  PROVE  /\ StillKeeping /\ mgr' = mgr /\ batch' = batch /\ ghost' = ghost /\ left' = left
         /\ keeper.pc = "drain2" /\ KeeperGoes("arm")
         /\ lw' \in [Gens -> Watchers] /\ Others(keeper.gen)
         /\ keeper.gen \in Gens =>
              /\ lw'[keeper.gen].arm = lw[keeper.gen].arm
              /\ lw'[keeper.gen].cancelled = lw[keeper.gen].cancelled
              /\ lw'[keeper.gen].paused = NothingToReplay /\ lw'[keeper.gen].edits = {}
              /\ lw'[keeper.gen].timer = "none" /\ lw'[keeper.gen].loop = lw[keeper.gen].loop
              /\ lw'[keeper.gen].event = lw[keeper.gen].event /\ lw'[keeper.gen].queue = lw[keeper.gen].queue
              /\ lw'[keeper.gen].dirty = lw[keeper.gen].dirty
  <1> DEFINE g == keeper.gen
  <1>0. lw \in [Gens -> Watchers]
    BY DEF Shape, TypeOK
  <1>1. lw' = [h \in Gens |-> IF h = g THEN Drained(lw[h]) ELSE lw[h]]
    BY DEF DrainAgain
  <1>3. /\ StillKeeping /\ mgr' = mgr /\ batch' = batch /\ ghost' = ghost /\ left' = left
        /\ keeper.pc = "drain2" /\ KeeperGoes("arm")
    BY KeeperGoing DEF DrainAgain, KeepFrame, StillKeeping
  <1>4. lw' \in [Gens -> Watchers] /\ Others(g) /\ (g \in Gens => lw'[g] = Drained(lw[g]))
    BY <1>0, <1>1, Draining DEF Others
  <1> QED BY <1>0, <1>3, <1>4, Draining

\* The reconciler's caller starts a walk, forgets the library, or is done.
LEMMA Finishing ==
  ASSUME Shape, Finish, ~mgr.stopped => mgr.gen \in Gens,
         keeper.why = "sync" => ~mgr.stopped
  PROVE  /\ StillKeeping /\ batch' = batch /\ ghost' = ghost /\ left' = left
         /\ keeper.pc = "arm"
         /\ keeper' \in KeeperRecords /\ keeper'.pc = "idle" /\ keeper'.why = "none" /\ keeper'.gen = 0
         /\ mgr' \in MgrRecords /\ mgr'.watcher = mgr.watcher /\ mgr'.stopped = mgr.stopped
         /\ lw' \in [Gens -> Watchers]
         /\ \A g \in Gens :
              /\ lw'[g].arm # lw[g].arm =>
                   keeper.why = "sync" /\ g = mgr.gen /\ lw'[g].arm = "new"
              /\ lw'[g].cancelled = lw[g].cancelled /\ lw'[g].dirty = lw[g].dirty
              /\ lw'[g].paused = lw[g].paused /\ lw'[g].edits = lw[g].edits
              /\ lw'[g].timer = lw[g].timer /\ lw'[g].queue = lw[g].queue
              /\ lw'[g].overflow = lw[g].overflow /\ lw'[g].event = lw[g].event
              /\ lw'[g].loop = lw[g].loop
         /\ \/ keeper.why = "sync" /\ mgr'.gen = mgr.gen
            \/ /\ keeper.why = "unwatch" /\ mgr'.desired = "unknown" /\ mgr'.gen = 0 /\ lw' = lw
            \/ keeper.why = "stop" /\ mgr' = mgr /\ lw' = lw
  <1>0. TypeOK /\ mgr \in MgrRecords /\ lw \in [Gens -> Watchers]
    BY DEF Shape, TypeOK, MgrRecords
  <1>1. StillKeeping /\ batch' = batch /\ ghost' = ghost /\ left' = left /\ keeper.pc = "arm"
    BY DEF Finish, KeepFrame, StillKeeping
  <1>2. keeper' \in KeeperRecords /\ keeper'.pc = "idle" /\ keeper'.why = "none" /\ keeper'.gen = 0
    <2>1. keeper' = [pc |-> "idle", why |-> "none", gen |-> 0] /\ 0 \in 0..MaxGen
      BY BoundsAssumption DEF Finish
    <2> QED BY <2>1 DEF KeeperRecords
  <1> DEFINE Same(g) ==
        /\ lw'[g].cancelled = lw[g].cancelled /\ lw'[g].dirty = lw[g].dirty
        /\ lw'[g].paused = lw[g].paused /\ lw'[g].edits = lw[g].edits
        /\ lw'[g].timer = lw[g].timer /\ lw'[g].queue = lw[g].queue
        /\ lw'[g].overflow = lw[g].overflow /\ lw'[g].event = lw[g].event
        /\ lw'[g].loop = lw[g].loop
  <1>3. CASE /\ keeper.why = "sync" /\ mgr' = [mgr EXCEPT !.desired = Desired]
             /\ lw' = IF lib.watch THEN [lw EXCEPT ![mgr.gen].arm = "new"] ELSE lw
    <2>1. /\ mgr' \in MgrRecords /\ mgr'.watcher = mgr.watcher /\ mgr'.stopped = mgr.stopped
          /\ mgr'.gen = mgr.gen
      <3>1. Desired \in {"on", "off"}
        BY DEF Desired
      <3> QED BY <1>0, <1>3, <3>1 DEF MgrRecords
    <2>2. CASE lib.watch
      <3> DEFINE l == lw[mgr.gen]
                 r == [l EXCEPT !.arm = "new"]
      <3>0. l \in Watchers /\ mgr.gen \in Gens
        BY <1>0, <1>3
      <3>1. lw' = [lw EXCEPT ![mgr.gen] = r]
        BY <1>3, <2>2
      <3> HIDE DEF l
      <3>2. /\ r \in Watchers /\ r.arm = "new" /\ r.cancelled = l.cancelled /\ r.dirty = l.dirty
            /\ r.paused = l.paused /\ r.edits = l.edits /\ r.timer = l.timer /\ r.queue = l.queue
            /\ r.overflow = l.overflow /\ r.event = l.event /\ r.loop = l.loop
        BY <3>0 DEF Watchers
      <3> HIDE DEF r
      <3>3. lw' \in [Gens -> Watchers] /\ lw'[mgr.gen] = r /\ \A g \in Gens \ {mgr.gen} : lw'[g] = lw[g]
        BY <1>0, <3>0, <3>1, <3>2
      <3>4. \A g \in Gens : Same(g) /\ (lw'[g].arm # lw[g].arm => g = mgr.gen /\ lw'[g].arm = "new")
        BY <3>2, <3>3 DEF l
      <3> QED BY <1>1, <1>2, <1>3, <2>1, <3>3, <3>4
    <2>3. CASE ~lib.watch
      <3>1. lw' = lw
        BY <1>3, <2>3
      <3> QED BY <1>0, <1>1, <1>2, <1>3, <2>1, <3>1
    <2> QED BY <2>2, <2>3
  <1>4. CASE /\ keeper.why = "unwatch" /\ mgr' = [mgr EXCEPT !.desired = "unknown", !.depth = 0, !.gen = 0]
             /\ lw' = lw
    <2>1. /\ mgr' \in MgrRecords /\ mgr'.watcher = mgr.watcher /\ mgr'.stopped = mgr.stopped
          /\ mgr'.gen = 0 /\ mgr'.desired = "unknown"
      <3>1. 0 \in 0..MaxGen
        BY BoundsAssumption
      <3> QED BY <1>0, <1>4, <3>1 DEF MgrRecords
    <2> QED BY <1>0, <1>1, <1>2, <1>4, <2>1
  <1>5. CASE keeper.why = "stop" /\ mgr' = mgr /\ lw' = lw
    BY <1>0, <1>1, <1>2, <1>5
  <1> QED BY <1>3, <1>4, <1>5 DEF Finish

\* A walk changes nothing but how far its watcher is armed.
StillWalking == world' = world /\ batch' = batch /\ flights' = flights /\ keeper' = keeper /\ scan' = scan /\ ghost' = ghost
SameButArm(g) ==
  /\ lw'[g].dirty = lw[g].dirty /\ lw'[g].paused = lw[g].paused /\ lw'[g].edits = lw[g].edits
  /\ lw'[g].timer = lw[g].timer /\ lw'[g].queue = lw[g].queue /\ lw'[g].overflow = lw[g].overflow
  /\ lw'[g].event = lw[g].event
\* How far a step of a walk may arm its watcher, and what it makes of the slot.
Walks(g) ==
  \/ /\ lw[g].arm = "new" /\ lw'[g].arm = "walking" /\ lw'[g].cancelled = lw[g].cancelled
     /\ lw'[g].loop = lw[g].loop
     /\ generationCurrent(g) /\ mgr.watcher = 0 /\ mgr'.watcher = g
  \/ /\ lw[g].arm = "new" /\ lw'[g].arm = "closed" /\ lw'[g].cancelled = lw[g].cancelled
     /\ lw'[g].loop = lw[g].loop /\ mgr'.watcher = mgr.watcher
  \/ /\ lw[g].arm = "walking" /\ lw'[g].arm \in {"walked", "stalled"} /\ lw'[g].cancelled = lw[g].cancelled
     /\ lw'[g].loop = lw[g].loop /\ mgr'.watcher = mgr.watcher
  \/ /\ lw' = lw /\ mgr'.watcher = mgr.watcher
  \/ /\ lw[g].arm = "walked" /\ lw'[g].arm = "live" /\ lw'[g].cancelled = lw[g].cancelled
     /\ lw'[g].loop = "wait" /\ generationCurrent(g) /\ mgr.watcher = g /\ mgr'.watcher = g
  \/ /\ lw[g].arm \in {"walked", "stalled"} /\ lw'[g].arm = "closed" /\ lw'[g].cancelled
     /\ lw'[g].loop = lw[g].loop
     /\ \/ generationCurrent(g) /\ mgr.watcher = g /\ lw[g].arm = "stalled" /\ mgr'.watcher = 0
        \/ ~(generationCurrent(g) /\ mgr.watcher = g) /\ mgr'.watcher = mgr.watcher

WalkActs(g) == Reserve(g) \/ WalkEnds(g) \/ WalkStalls(g) \/ AbandonedWalkEnds(g) \/ Commit(g)
\* A step of a walk arms its watcher and touches no other.
LEMMA Walking ==
  ASSUME Shape, NEW g \in Gens, WalkActs(g)
  PROVE  /\ StillWalking /\ left' \in [LimitNames -> Nat]
         /\ lw' \in [Gens -> Watchers] /\ Others(g) /\ SameButArm(g) /\ Walks(g)
         /\ mgr' \in MgrRecords /\ mgr'.gen = mgr.gen /\ mgr'.desired = mgr.desired /\ mgr'.stopped = mgr.stopped
  <1>0. /\ TypeOK /\ mgr \in MgrRecords /\ lw \in [Gens -> Watchers] /\ lw[g] \in Watchers
        /\ g \in 0..MaxGen /\ 0 \in 0..MaxGen
    BY BoundsAssumption DEF Shape, TypeOK, MgrRecords, Gens
  <1> DEFINE l == lw[g]
             Same(r) ==
               /\ r.dirty = l.dirty /\ r.paused = l.paused /\ r.edits = l.edits
               /\ r.timer = l.timer /\ r.queue = l.queue /\ r.overflow = l.overflow /\ r.event = l.event
             SameRest(m) == m \in MgrRecords /\ m.gen = mgr.gen /\ m.desired = mgr.desired /\ m.stopped = mgr.stopped
  <1>1. ASSUME NEW r \in Watchers, lw' = [lw EXCEPT ![g] = r]
        PROVE  lw'[g] = r /\ lw' \in [Gens -> Watchers] /\ Others(g)
    BY <1>0, <1>1 DEF Others
  <1>2. ASSUME NEW a \in {"walking", "walked", "stalled", "closed"}, Armed(g, a)
        PROVE  /\ lw' \in [Gens -> Watchers] /\ Others(g) /\ Same(lw'[g])
               /\ lw'[g].arm = a /\ lw'[g].cancelled = l.cancelled /\ lw'[g].loop = l.loop
    <2> DEFINE r == [l EXCEPT !.arm = a]
    <2>1. r \in Watchers /\ Same(r) /\ r.arm = a /\ r.cancelled = l.cancelled /\ r.loop = l.loop
      BY <1>0 DEF Watchers
    <2>2. lw' = [lw EXCEPT ![g] = r]
      BY <1>2 DEF Armed
    <2> HIDE DEF r, Same, l
    <2>3. lw'[g] = r /\ lw' \in [Gens -> Watchers] /\ Others(g)
      BY <1>1, <2>1, <2>2
    <2> QED BY <2>1, <2>3 DEF Same
  <1>3. ASSUME NEW w \in 0..MaxGen, NEW k \in 0..MaxGen, mgr' = [mgr EXCEPT !.watcher = w, !.walk = k]
        PROVE  SameRest(mgr') /\ mgr'.watcher = w
    BY <1>0, <1>3 DEF MgrRecords
  <1>4. ASSUME NEW k \in 0..MaxGen, mgr' = [mgr EXCEPT !.walk = k]
        PROVE  SameRest(mgr') /\ mgr'.watcher = mgr.watcher
    BY <1>0, <1>4 DEF MgrRecords
  <1>5. CASE Reserve(g)
    <2>1. StillWalking /\ left' \in [LimitNames -> Nat] /\ l.arm = "new"
      BY <1>0, <1>5 DEF Reserve, WatchFrame, StillWalking, world, TypeOK
    <2>2. CASE generationCurrent(g) /\ mgr.watcher = 0 /\ mgr.walk = 0
      <3> DEFINE r == [l EXCEPT !.arm = "walking", !.depth = mgr.depth]
      <3>1. mgr' = [mgr EXCEPT !.watcher = g, !.walk = g] /\ lw' = [lw EXCEPT ![g] = r]
        BY <1>5, <2>2 DEF Reserve
      <3>2. r \in Watchers /\ Same(r) /\ r.arm = "walking" /\ r.cancelled = l.cancelled /\ r.loop = l.loop
        <4>1. mgr.depth \in Nat
          BY <1>0 DEF MgrRecords
        <4> QED BY <1>0, <4>1 DEF Watchers
      <3> HIDE DEF r
      <3>3. lw'[g] = r /\ lw' \in [Gens -> Watchers] /\ Others(g)
        BY <1>1, <3>1, <3>2
      <3>4. SameRest(mgr') /\ mgr'.watcher = g
        BY <1>0, <1>3, <3>1
      <3> QED BY <2>1, <2>2, <3>2, <3>3, <3>4 DEF SameButArm, Walks
    <2>3. CASE ~(generationCurrent(g) /\ mgr.watcher = 0 /\ mgr.walk = 0)
      <3>1. Armed(g, "closed") /\ mgr' = mgr
        BY <1>5, <2>3 DEF Reserve
      <3>2. /\ lw' \in [Gens -> Watchers] /\ Others(g) /\ Same(lw'[g])
            /\ lw'[g].arm = "closed" /\ lw'[g].cancelled = l.cancelled /\ lw'[g].loop = l.loop
        BY <1>2, <3>1
      <3> QED BY <1>0, <2>1, <3>1, <3>2 DEF SameButArm, Walks
    <2> QED BY <2>2, <2>3
  <1>6. CASE WalkEnds(g)
    <2>1. StillWalking /\ left' \in [LimitNames -> Nat] /\ l.arm = "walking" /\ Armed(g, "walked")
      BY <1>0, <1>6 DEF WalkEnds, WatchFrame, StillWalking, world, TypeOK
    <2>2. SameRest(mgr') /\ mgr'.watcher = mgr.watcher
      <3>1. mgr.walk \in 0..MaxGen
        BY <1>0 DEF MgrRecords
      <3>2. \E k \in 0..MaxGen : mgr' = [mgr EXCEPT !.walk = k]
        BY <1>0, <1>6, <3>1 DEF WalkEnds
      <3> QED BY <1>4, <3>2
    <2>3. /\ lw' \in [Gens -> Watchers] /\ Others(g) /\ Same(lw'[g])
          /\ lw'[g].arm = "walked" /\ lw'[g].cancelled = l.cancelled /\ lw'[g].loop = l.loop
      BY <1>2, <2>1
    <2> QED BY <2>1, <2>2, <2>3 DEF SameButArm, Walks
  <1>7. CASE WalkStalls(g)
    <2>1. StillWalking /\ l.arm = "walking" /\ Armed(g, "stalled") /\ mgr' = mgr
      BY <1>7 DEF WalkStalls, WatchFrame, StillWalking
    <2>2. left' \in [LimitNames -> Nat]
      <3>1. (Spend("stall") \/ UNCHANGED left) /\ "stall" \in LimitNames
        BY <1>7 DEF WalkStalls, LimitNames
      <3> QED BY <1>0, <3>1, Spending
    <2>3. /\ lw' \in [Gens -> Watchers] /\ Others(g) /\ Same(lw'[g])
          /\ lw'[g].arm = "stalled" /\ lw'[g].cancelled = l.cancelled /\ lw'[g].loop = l.loop
      BY <1>2, <2>1
    <2> QED BY <1>0, <2>1, <2>2, <2>3 DEF SameButArm, Walks
  <1>8. CASE AbandonedWalkEnds(g)
    <2>1. StillWalking /\ left' \in [LimitNames -> Nat] /\ lw' = lw /\ mgr' = [mgr EXCEPT !.walk = 0]
      BY <1>0, <1>8 DEF AbandonedWalkEnds, WatchFrame, StillWalking, world, TypeOK
    <2>2. SameRest(mgr') /\ mgr'.watcher = mgr.watcher
      BY <1>0, <1>4, <2>1
    <2> QED BY <1>0, <2>1, <2>2 DEF SameButArm, Walks, Others
  <1>9. CASE Commit(g)
    <2> DEFINE mine == generationCurrent(g) /\ mgr.watcher = g
    <2>1. StillWalking /\ left' \in [LimitNames -> Nat] /\ l.arm \in {"walked", "stalled"}
      BY <1>0, <1>9 DEF Commit, WatchFrame, StillWalking, world, TypeOK
    <2>2. CASE mine /\ l.arm = "walked"
      <3> DEFINE r == [l EXCEPT !.arm = "live", !.loop = "wait"]
      <3>1. lw' = [lw EXCEPT ![g] = r] /\ mgr' = mgr
        BY <1>9, <2>2 DEF Commit
      <3>2. r \in Watchers /\ Same(r) /\ r.arm = "live" /\ r.cancelled = l.cancelled /\ r.loop = "wait"
        BY <1>0 DEF Watchers
      <3> HIDE DEF r
      <3>3. lw'[g] = r /\ lw' \in [Gens -> Watchers] /\ Others(g)
        BY <1>1, <3>1, <3>2
      <3> QED BY <1>0, <2>1, <2>2, <3>1, <3>2, <3>3 DEF SameButArm, Walks
    <2>3. CASE ~(mine /\ l.arm = "walked")
      <3> DEFINE r == [l EXCEPT !.arm = "closed", !.cancelled = TRUE]
      <3>1. lw' = [lw EXCEPT ![g] = r]
        BY <1>9, <2>3 DEF Commit
      <3>2. r \in Watchers /\ Same(r) /\ r.arm = "closed" /\ r.cancelled /\ r.loop = l.loop
        BY <1>0 DEF Watchers
      <3> HIDE DEF r
      <3>3. lw'[g] = r /\ lw' \in [Gens -> Watchers] /\ Others(g)
        BY <1>1, <3>1, <3>2
      <3>4. CASE mine
        <4>1. l.arm = "stalled" /\ mgr' = [mgr EXCEPT !.watcher = 0]
          BY <1>9, <2>1, <2>3, <3>4 DEF Commit
        <4>2. SameRest(mgr') /\ mgr'.watcher = 0
          BY <1>0, <4>1 DEF MgrRecords
        <4> QED BY <2>1, <3>2, <3>3, <3>4, <4>1, <4>2 DEF SameButArm, Walks
      <3>5. CASE ~mine
        <4>1. mgr' = mgr
          BY <1>9, <3>5 DEF Commit
        <4> QED BY <1>0, <2>1, <3>2, <3>3, <3>5, <4>1 DEF SameButArm, Walks
      <3> QED BY <3>4, <3>5
    <2> QED BY <2>2, <2>3
  <1> QED BY <1>5, <1>6, <1>7, <1>8, <1>9 DEF WalkActs

-----------------------------------------------------------------------------
(***************************************************************************)
(* What the world does.                                                    *)
(***************************************************************************)
StillManager == lib' = lib /\ mgr' = mgr /\ batch' = batch /\ flights' = flights /\ keeper' = keeper /\ scan' = scan
\* A path changes; the user's change is owed when it is watched.
Changed(p, op) ==
  /\ disk' \in [Paths -> {"none", "user", "heya"}]
  /\ \A q \in Paths \ {p} : disk'[q] = disk[q]
  /\ op = "remove" <=> disk'[p] = "none"
  /\ op = "write" => p \notin Dirs
  /\ record' \in [Sidecars -> {"none", "due", "kept"}]
  /\ ghost' \in [owed : SUBSET Paths, merged : SUBSET Paths, late : BOOLEAN]
  /\ ghost'.merged = ghost.merged /\ ghost'.late = ghost.late
  /\ ghost'.owed \subseteq ghost.owed \cup {p}
  /\ p \in ghost'.owed => disk'[p] # "heya"
  /\ ghost'.owed # {} => ghost.owed # {} \/ (mgr.watcher \in Gens /\ Watches(mgr.watcher))

\* Every change is delivered, and the note of what is owed follows it.
LEMMA Changing ==
  ASSUME Shape, NEW p \in Paths, Adds(p) \/ Edits(p) \/ Removes(p) \/ (p \in Sidecars /\ Publishes(p))
  PROVE  /\ StillManager /\ left' \in [LimitNames -> Nat]
         /\ \E op \in Ops : Deliver(p, op) /\ Changed(p, op)
  <1>0. TypeOK
    BY DEF Shape
  <1>1. StillManager
    BY DEF Adds, Edits, Removes, Publishes, ChangeFrame, StillManager
  <1>2. left' \in [LimitNames -> Nat]
    <2>1. (Spend("change") \/ Spend("publish")) /\ "change" \in LimitNames /\ "publish" \in LimitNames
      BY DEF Adds, Edits, Removes, Publishes, LimitNames
    <2> QED BY <1>0, <2>1, Spending
  <1>3. disk \in [Paths -> {"none", "user", "heya"}] /\ record \in [Sidecars -> {"none", "due", "kept"}]
    BY <1>0 DEF TypeOK
  <1>4. ghost \in [owed : SUBSET Paths, merged : SUBSET Paths, late : BOOLEAN]
    BY <1>0 DEF TypeOK
  <1>5. ASSUME Owe(p), disk'[p] # "heya"
        PROVE  /\ ghost' \in [owed : SUBSET Paths, merged : SUBSET Paths, late : BOOLEAN]
               /\ ghost'.merged = ghost.merged /\ ghost'.late = ghost.late
               /\ ghost'.owed \subseteq ghost.owed \cup {p}
               /\ p \in ghost'.owed => disk'[p] # "heya"
               /\ ghost'.owed # {} => ghost.owed # {} \/ (mgr.watcher \in Gens /\ Watches(mgr.watcher))
    <2>1. CASE \E g \in Gens : Watches(g) /\ mgr.watcher = g
      <3>1. ghost' = [ghost EXCEPT !.owed = @ \cup {p}]
        BY <1>5, <2>1 DEF Owe
      <3> HIDE DEF Watches
      <3> QED BY <1>4, <1>5, <2>1, <3>1
    <2>2. CASE ~\E g \in Gens : Watches(g) /\ mgr.watcher = g
      <3>1. ghost' = ghost
        BY <1>5, <2>2 DEF Owe
      <3> QED BY <1>4, <1>5, <3>1
    <2> QED BY <2>1, <2>2
  <1>6. CASE Adds(p)
    <2>1. disk' = [disk EXCEPT ![p] = "user"] /\ Deliver(p, "create") /\ Owe(p) /\ record' = record
      BY <1>6 DEF Adds, ChangeFrame
    <2>2. /\ disk'[p] = "user" /\ disk' \in [Paths -> {"none", "user", "heya"}]
          /\ \A q \in Paths \ {p} : disk'[q] = disk[q]
      BY <1>3, <2>1
    <2> QED BY <1>1, <1>2, <1>3, <1>5, <2>1, <2>2 DEF Changed, Ops
  <1>7. CASE Edits(p)
    <2>1. disk' = [disk EXCEPT ![p] = "user"] /\ Deliver(p, "write") /\ Owe(p) /\ record' = record /\ p \notin Dirs
      BY <1>7 DEF Edits, ChangeFrame
    <2>2. /\ disk'[p] = "user" /\ disk' \in [Paths -> {"none", "user", "heya"}]
          /\ \A q \in Paths \ {p} : disk'[q] = disk[q]
      BY <1>3, <2>1
    <2> QED BY <1>1, <1>2, <1>3, <1>5, <2>1, <2>2 DEF Changed, Ops
  <1>8. CASE Removes(p)
    <2>1. disk' = [disk EXCEPT ![p] = "none"] /\ Deliver(p, "remove") /\ Owe(p) /\ record' = record
      BY <1>8 DEF Removes, ChangeFrame
    <2>2. /\ disk'[p] = "none" /\ disk' \in [Paths -> {"none", "user", "heya"}]
          /\ \A q \in Paths \ {p} : disk'[q] = disk[q]
      BY <1>3, <2>1
    <2> QED BY <1>1, <1>2, <1>3, <1>5, <2>1, <2>2 DEF Changed, Ops
  <1>9. CASE p \in Sidecars /\ Publishes(p)
    <2>1. /\ disk' = [disk EXCEPT ![p] = "heya"] /\ Deliver(p, "create")
          /\ record' = [record EXCEPT ![p] = "due"] /\ ghost' = [ghost EXCEPT !.owed = @ \ {p}]
      BY <1>9 DEF Publishes
    <2>2. /\ disk'[p] = "heya" /\ disk' \in [Paths -> {"none", "user", "heya"}]
          /\ \A q \in Paths \ {p} : disk'[q] = disk[q]
          /\ record' \in [Sidecars -> {"none", "due", "kept"}]
      BY <1>3, <1>9, <2>1
    <2>3. /\ ghost' \in [owed : SUBSET Paths, merged : SUBSET Paths, late : BOOLEAN]
          /\ ghost'.merged = ghost.merged /\ ghost'.late = ghost.late
          /\ ghost'.owed = ghost.owed \ {p}
      BY <1>4, <2>1
    <2> QED BY <1>1, <1>2, <2>1, <2>2, <2>3 DEF Changed, Ops
  <1> QED BY <1>6, <1>7, <1>8, <1>9

\* A suppression record is registered or expires; the library's settings change.
Settles ==
  \/ \E s \in Sidecars : SuppressGeneratedWrite(s) \/ Expires(s)
  \/ \E b \in BOOLEAN, x \in BOOLEAN : Sets([watch |-> b, exists |-> x])

\* They leave the watchers alone.
LEMMA Settling ==
  ASSUME Shape, Settles
  PROVE  /\ left' \in [LimitNames -> Nat] /\ disk' = disk /\ mgr' = mgr /\ batch' = batch /\ lw' = lw
         /\ flights' = flights /\ keeper' = keeper /\ scan' = scan /\ ghost' = ghost
         /\ record' \in [Sidecars -> {"none", "due", "kept"}]
         /\ lib' \in [watch : BOOLEAN, exists : BOOLEAN] /\ (lib'.exists => lib.exists)
  <1>0. /\ TypeOK /\ record \in [Sidecars -> {"none", "due", "kept"}]
        /\ lib \in [watch : BOOLEAN, exists : BOOLEAN]
    BY DEF Shape, TypeOK
  <1>1. CASE \E s \in Sidecars : SuppressGeneratedWrite(s) \/ Expires(s)
    <2>1. PICK s \in Sidecars : SuppressGeneratedWrite(s) \/ Expires(s)
      BY <1>1
    <2>2. record' \in [Sidecars -> {"none", "due", "kept"}]
      BY <1>0, <2>1 DEF SuppressGeneratedWrite, Expires
    <2> QED BY <1>0, <2>1, <2>2 DEF SuppressGeneratedWrite, Expires, TypeOK
  <1>2. CASE \E b \in BOOLEAN, x \in BOOLEAN : Sets([watch |-> b, exists |-> x])
    <2>1. PICK b \in BOOLEAN, x \in BOOLEAN : Sets([watch |-> b, exists |-> x])
      BY <1>2
    <2>2. Spend("setting") /\ "setting" \in LimitNames
      BY <2>1 DEF Sets, LimitNames
    <2>3. left' \in [LimitNames -> Nat]
      BY <1>0, <2>2, Spending
    <2>4. lib' \in [watch : BOOLEAN, exists : BOOLEAN] /\ (lib'.exists => lib.exists)
      <3>1. lib.exists /\ lib' = [watch |-> b, exists |-> x]
        BY <2>1 DEF Sets
      <3> QED BY <3>1
    <2> QED BY <1>0, <2>1, <2>3, <2>4 DEF Sets
  <1> QED BY <1>1, <1>2 DEF Settles

-----------------------------------------------------------------------------
(***************************************************************************)
(* Every variable keeps its shape.                                         *)
(***************************************************************************)
LoopStep(g) == Receive(g) \/ Handle(g) \/ MarkDirty(g) \/ Exit(g)
TimerStep(g) == AdmitEdits(g) \/ TakeEdits(g)
BatchStep(k) == Admit(k) \/ Take(k)
ScanStep(s) == Pause(s) \/ Resume(s) \/ TakePaused(s) \/ SwapDirty(s) \/ \E p \in Paths : Replay(s, p)
KeeperStep ==
  \/ Invalidate("sync") \/ Invalidate("unwatch") \/ Invalidate("stop")
  \/ Drain \/ cancelPendingEnqueues \/ Wait \/ DrainAgain \/ Finish
ChangeStep(p) == Adds(p) \/ Edits(p) \/ Removes(p) \/ (p \in Sidecars /\ Publishes(p))

\* The steps of the whole.
LEMMA StepsOfNext ==
  ASSUME Next
  PROVE  \/ \E p \in Paths : ChangeStep(p)
         \/ Settles
         \/ \E g \in Gens : LoopStep(g) \/ WalkActs(g) \/ TimerStep(g)
         \/ \E k \in Kinds : BatchStep(k)
         \/ \E f \in flights : Insert(f)
         \/ \E s \in Scans : ScanStep(s)
         \/ KeeperStep
  <1>1. CASE \E p \in Paths : Adds(p) \/ Edits(p) \/ Removes(p)
    BY <1>1 DEF ChangeStep
  <1>2. CASE \E s \in Sidecars : Publishes(s) \/ SuppressGeneratedWrite(s) \/ Expires(s)
    BY <1>2 DEF ChangeStep, Settles, Paths
  <1>3. CASE \E b \in BOOLEAN, x \in BOOLEAN : Sets([watch |-> b, exists |-> x])
    BY <1>3 DEF Settles
  <1>4. CASE \E g \in Gens : Loop(g) \/ Arms(g) \/ WalkStalls(g)
    BY <1>4 DEF Loop, Arms, LoopStep, WalkActs
  <1>5. CASE Timers \/ Inserts
    BY <1>5 DEF Timers, Inserts, BatchStep, TimerStep
  <1>6. CASE \E s \in Scans : Pause(s) \/ Resumes(s)
    BY <1>6 DEF Resumes, ScanStep
  <1>7. CASE Keeps \/ Invalidate("stop")
    BY <1>7 DEF Keeps, KeeperStep
  <1> QED BY <1>1, <1>2, <1>3, <1>4, <1>5, <1>6, <1>7 DEF Next

\* What it takes.
Notes == [owed : SUBSET Paths, merged : SUBSET Paths, late : BOOLEAN]
\* The parts of the type invariant, put together.
LEMMA Typing ==
  ASSUME disk' \in [Paths -> {"none", "user", "heya"}],
         record' \in [Sidecars -> {"none", "due", "kept"}],
         lib' \in [watch : BOOLEAN, exists : BOOLEAN],
         mgr' \in MgrRecords, lw' \in [Gens -> Watchers], batch' \in [Kinds -> Batches],
         flights' \in SUBSET Flights, keeper' \in KeeperRecords, scan' \in [Scans -> ScanRecords],
         ghost' \in Notes, left' \in [LimitNames -> Nat]
  PROVE  TypeOK'
  BY DEF TypeOK, MgrRecords, Batches, Timing, KeeperRecords, ScanRecords, Ops, Notes

\* And taken apart.
LEMMA Types ==
  ASSUME Shape
  PROVE  /\ TypeOK
         /\ disk \in [Paths -> {"none", "user", "heya"}]
         /\ record \in [Sidecars -> {"none", "due", "kept"}]
         /\ lib \in [watch : BOOLEAN, exists : BOOLEAN]
         /\ mgr \in MgrRecords /\ lw \in [Gens -> Watchers] /\ batch \in [Kinds -> Batches]
         /\ flights \in SUBSET Flights /\ keeper \in KeeperRecords /\ scan \in [Scans -> ScanRecords]
         /\ ghost \in Notes /\ left \in [LimitNames -> Nat]
  BY DEF Shape, TypeOK, MgrRecords, Batches, Timing, KeeperRecords, ScanRecords, Ops, Notes

\* They stay where the loops do, and where no batch is inserted by one.
LEMMA LoopsStay ==
  ASSUME Shape, \A g \in Gens : lw'[g].loop = lw[g].loop /\ lw'[g].event = lw[g].event
  PROVE  LoopsFit' /\ (flights' = flights => InsertsFit')
  <1>1. \A f \in flights : f.gen \in Gens
    BY Types DEF Flights
  <1> QED BY <1>1 DEF Shape, LoopsFit, InsertsFit

\* Scans that do nothing keep their shape.
LEMMA ScansStay ==
  ASSUME Shape, scan' = scan
  PROVE  ScansFit'
  BY DEF Shape, ScansFit

\* So do batches that nobody touches,
LEMMA BatchesStay ==
  ASSUME Shape, batch' = batch
  PROVE  BatchesFit'
  BY DEF Shape, BatchesFit

\* and batches that take something up.
LEMMA BatchesGrow ==
  ASSUME Shape, NEW g \in Gens, Grown(g)
  PROVE  BatchesFit'
  BY DEF Shape, BatchesFit, Grown

\* What a timer sets out with is no insert of a loop.
LEMMA TimersFlights ==
  ASSUME Shape, NEW f, f.by = "timer", flights' = flights \/ flights' = flights \cup {f},
         \A g \in Gens : lw'[g].loop = lw[g].loop
  PROVE  InsertsFit'
  <1>1. \A e \in flights : e.gen \in Gens
    BY Types DEF Flights
  <1> QED BY <1>1 DEF Shape, InsertsFit

\* A change on disk keeps the shape.
LEMMA ChangeShape ==
  ASSUME Shape, NEW p \in Paths, ChangeStep(p)
  PROVE  Shape'
  <1>1. StillManager /\ left' \in [LimitNames -> Nat] /\ \E op \in Ops : Deliver(p, op) /\ Changed(p, op)
    BY Changing DEF ChangeStep
  <1>2. PICK op \in Ops : Deliver(p, op) /\ Changed(p, op)
    BY <1>1
  <1>3. lw' \in [Gens -> Watchers] /\ \A g \in Gens : SameButQueue(g)
    BY <1>2, Delivering, Types
  <1>4. TypeOK'
    BY <1>1, <1>2, <1>3, Types, Typing DEF StillManager, Changed, Notes
  <1>5. LoopsFit' /\ InsertsFit' /\ ScansFit' /\ BatchesFit'
    BY <1>1, <1>3, LoopsStay, ScansStay, BatchesStay DEF StillManager, SameButQueue
  <1> QED BY <1>4, <1>5 DEF Shape

\* So do the records and the settings,
LEMMA SettleShape ==
  ASSUME Shape, Settles
  PROVE  Shape'
  <1>1. TypeOK'
    BY Settling, Types, Typing
  <1>2. LoopsFit' /\ InsertsFit' /\ ScansFit' /\ BatchesFit'
    BY Settling, LoopsStay, ScansStay, BatchesStay
  <1> QED BY <1>1, <1>2 DEF Shape

\* a step of an event loop,
LEMMA LoopShape ==
  ASSUME Shape, NEW g \in Gens, LoopStep(g)
  PROVE  Shape'
  <1>0. \A f \in flights : f.gen \in Gens
    BY Types DEF Flights
  <1>1. CASE Receive(g)
    <2> DEFINE e == Head(lw[g].queue)
    <2>1. /\ StillWorld /\ scan' = scan /\ batch' = batch /\ flights' = flights
          /\ lw' \in [Gens -> Watchers] /\ Others(g) /\ lw[g].loop = "wait" /\ e \in Events
          /\ \/ lw'[g].loop = "handle" /\ lw'[g].event = e /\ ghost' = ghost
             \/ /\ lw'[g].loop = "wait" /\ lw'[g].event = NoEvent
                /\ ghost' = [ghost EXCEPT !.merged = @ \cup Mixed(lw'[g], e)]
      BY <1>1, Receiving
    <2> HIDE DEF e
    <2>2. e # NoEvent
      <3>1. e.path \in Paths
        BY <2>1 DEF Events
      <3> QED BY <3>1, PathsAssumption DEF NoEvent, Paths
    <2>3. ghost' \in Notes
      <3>1. Mixed(lw'[g], e) \in SUBSET Paths
        BY <2>1 DEF Mixed, Events
      <3> QED BY <2>1, <3>1, Types DEF Notes
    <2>4. TypeOK'
      BY <2>1, <2>3, Types, Typing DEF StillWorld, world
    <2>5. LoopsFit'
      BY <2>1, <2>2 DEF Shape, LoopsFit, Others
    <2>6. InsertsFit'
      BY <1>0, <2>1 DEF Shape, InsertsFit, Others
    <2> QED BY <2>1, <2>4, <2>5, <2>6, ScansStay, BatchesStay DEF Shape
  <1>2. CASE Handle(g)
    <2> DEFINE e == lw[g].event
    <2>1. /\ StillWorld /\ scan' = scan /\ ghost' = ghost
          /\ e \in Asked /\ lw[g].loop = "handle" /\ handleEvent(g, e, "loop")
          /\ lw' \in [Gens -> Watchers] /\ Others(g)
          /\ lw'[g].loop = IF NewDir(e) /\ generationCurrent(g) THEN "insert" ELSE "wait"
          /\ lw'[g].event = NoEvent
      BY <1>2, HandlingOne
    <2> HIDE DEF e
    <2>2. /\ batch' \in [Kinds -> Batches] /\ Grown(g) /\ flights' \in SUBSET Flights
          /\ flights' = IF NewDir(e) /\ generationCurrent(g)
                        THEN flights \cup {DirScan(g, e, "loop")} ELSE flights
      BY <2>1, Types, Handling
    <2>3. TypeOK'
      BY <2>1, <2>2, Types, Typing DEF StillWorld, world
    <2>4. LoopsFit'
      BY <2>1 DEF Shape, LoopsFit, Others
    <2>5. InsertsFit'
      <3>1. \A f \in flights : f.gen = g => f.by # "loop"
        BY <2>1 DEF Shape, InsertsFit
      <3>2. CASE NewDir(e) /\ generationCurrent(g)
        <4>1. /\ DirScan(g, e, "loop").kind = "dir" /\ DirScan(g, e, "loop").gen = g
              /\ DirScan(g, e, "loop").by = "loop"
          BY DEF DirScan
        <4>2. lw'[g].loop = "insert" /\ flights' = flights \cup {DirScan(g, e, "loop")}
          BY <2>1, <2>2, <3>2
        <4> QED BY <1>0, <2>1, <3>1, <4>1, <4>2 DEF Shape, InsertsFit, Others
      <3>3. CASE ~(NewDir(e) /\ generationCurrent(g))
        <4>1. flights' = flights
          BY <2>2, <3>3
        <4> QED BY <1>0, <2>1, <3>1, <4>1 DEF Shape, InsertsFit, Others
      <3> QED BY <3>2, <3>3
    <2> QED BY <2>1, <2>2, <2>3, <2>4, <2>5, ScansStay, BatchesGrow DEF Shape
  <1>3. CASE MarkDirty(g)
    <2>1. /\ StillWorld /\ scan' = scan /\ ghost' = ghost /\ flights' = flights
          /\ batch' \in [Kinds -> Batches] /\ Grown(g)
          /\ lw' \in [Gens -> Watchers] /\ Others(g)
          /\ lw'[g].loop = lw[g].loop /\ lw'[g].event = lw[g].event
      BY <1>3, Marking
    <2>2. TypeOK'
      BY <2>1, Types, Typing DEF StillWorld, world
    <2> QED BY <2>1, <2>2, LoopsStay, ScansStay, BatchesGrow DEF Shape, Others
  <1>4. CASE Exit(g)
    <2>1. /\ StillWorld /\ scan' = scan /\ ghost' = ghost /\ flights' = flights /\ batch' = batch
          /\ lw' \in [Gens -> Watchers] /\ Others(g)
          /\ lw[g].loop = "wait" /\ lw'[g].loop = "off" /\ lw'[g].event = lw[g].event
      BY <1>4, Exiting
    <2>2. TypeOK'
      BY <2>1, Types, Typing DEF StillWorld, world
    <2>3. LoopsFit'
      BY <2>1 DEF Shape, LoopsFit, Others
    <2>4. InsertsFit'
      BY <1>0, <2>1 DEF Shape, InsertsFit, Others
    <2> QED BY <2>1, <2>2, <2>3, <2>4, ScansStay, BatchesStay DEF Shape
  <1> QED BY <1>1, <1>2, <1>3, <1>4 DEF LoopStep

\* the timer of a watcher's edits,
LEMMA TimerShape ==
  ASSUME Shape, NEW g \in Gens, TimerStep(g)
  PROVE  Shape'
  <1>1. CASE AdmitEdits(g)
    <2>1. TypeOK'
      BY <1>1, AdmittingEdits, Types, Typing DEF StillWorld, world
    <2> QED BY <1>1, <2>1, AdmittingEdits, LoopsStay, ScansStay, BatchesStay DEF Shape, Others
  <1>2. CASE TakeEdits(g)
    <2>1. /\ StillWorld /\ scan' = scan /\ ghost' = ghost /\ batch' = batch
          /\ lw' \in [Gens -> Watchers] /\ \A h \in Gens : lw'[h].loop = lw[h].loop /\ lw'[h].event = lw[h].event
      BY <1>2, TakingEdits DEF Others
    <2>2. PICK ps \in SUBSET Paths :
            /\ TimerFlight("edit", g, ps) \in Flights
            /\ flights' = flights \/ flights' = flights \cup {TimerFlight("edit", g, ps)}
      BY <1>2, TakingEdits
    <2>3. TypeOK'
      BY <2>1, <2>2, Types, Typing DEF StillWorld, world
    <2>4. TimerFlight("edit", g, ps).by = "timer"
      BY DEF TimerFlight
    <2>5. InsertsFit'
      BY <2>1, <2>2, <2>4, TimersFlights
    <2> QED BY <2>1, <2>3, <2>5, LoopsStay, ScansStay, BatchesStay DEF Shape
  <1> QED BY <1>1, <1>2 DEF TimerStep

\* the timer of a batch,
LEMMA BatchShape ==
  ASSUME Shape, NEW k \in Kinds, BatchStep(k)
  PROVE  Shape'
  <1>1. CASE Admit(k)
    <2>1. TypeOK'
      BY <1>1, Admitting, Types, Typing DEF StillWorld, world
    <2>2. BatchesFit'
      BY <1>1, Admitting DEF Shape, BatchesFit
    <2> QED BY <1>1, <2>1, <2>2, Admitting, LoopsStay, ScansStay DEF Shape
  <1>2. CASE Take(k)
    <2>1. /\ StillWorld /\ scan' = scan /\ ghost' = ghost /\ lw' = lw
          /\ batch' \in [Kinds -> Batches]
          /\ batch'[k] = NoBatch /\ \A j \in Kinds \ {k} : batch'[j] = batch[j]
      BY <1>2, Taking
    <2>2. PICK ps \in SUBSET Paths :
            /\ TimerFlight(k, batch[k].gen, ps) \in Flights
            /\ flights' = flights \/ flights' = flights \cup {TimerFlight(k, batch[k].gen, ps)}
      BY <1>2, Taking
    <2>3. TypeOK'
      BY <2>1, <2>2, Types, Typing DEF StillWorld, world
    <2>4. TimerFlight(k, batch[k].gen, ps).by = "timer"
      BY DEF TimerFlight
    <2>5. InsertsFit'
      BY <2>1, <2>2, <2>4, TimersFlights
    <2>6. BatchesFit'
      BY <2>1 DEF Shape, BatchesFit, NoBatch
    <2> QED BY <2>1, <2>3, <2>5, <2>6, LoopsStay, ScansStay DEF Shape
  <1> QED BY <1>1, <1>2 DEF BatchStep

\* an insert,
LEMMA InsertShape ==
  ASSUME Shape, NEW f \in flights, Insert(f)
  PROVE  Shape'
  <1>0. \A e \in flights : e.gen \in Gens
    BY Types DEF Flights
  <1>1. /\ world' = world /\ mgr' = mgr /\ keeper' = keeper /\ scan' = scan /\ batch' = batch
        /\ left' \in [LimitNames -> Nat] /\ flights' = flights \ {f}
        /\ lw' \in [Gens -> Watchers] /\ ghost' \in Notes
        /\ \A g \in Gens : /\ lw'[g].event = lw[g].event
                           /\ lw'[g].loop = IF f.by = "loop" /\ f.gen = g THEN "wait" ELSE lw[g].loop
    BY Inserting DEF Notes
  <1>2. TypeOK'
    BY <1>1, Types, Typing DEF world
  <1>3. f.by = "loop" => lw[f.gen].loop = "insert"
    BY DEF Shape, InsertsFit
  <1>4. LoopsFit'
    BY <1>1, <1>3 DEF Shape, LoopsFit
  <1>5. InsertsFit'
    BY <1>0, <1>1 DEF Shape, InsertsFit
  <1> QED BY <1>1, <1>2, <1>4, <1>5, ScansStay, BatchesStay DEF Shape

\* and a step of a scan.
LEMMA ScanShape ==
  ASSUME Shape, NEW s \in Scans, ScanStep(s)
  PROVE  Shape'
  <1>0. mgr.watcher \in 0..MaxGen
    BY Types DEF MgrRecords
  <1>1. CASE Pause(s)
    <2>1. TypeOK'
      BY <1>1, Pausing, Types, Typing DEF StillScan, world, SameMgr, OtherScans
    <2>2. ScansFit'
      BY <1>1, Pausing DEF Shape, ScansFit, OtherScans
    <2> QED BY <1>1, <2>1, <2>2, Pausing, LoopsStay, BatchesStay DEF Shape, SameButDepth
  <1>2. CASE Resume(s)
    <2>1. TypeOK'
      BY <1>2, Resuming, Types, Typing DEF StillScan, world, SameMgr, OtherScans
    <2>2. ScansFit'
      <3>1. mgr.watcher # 0 => mgr.watcher \in Gens
        BY <1>0, BoundsAssumption DEF Gens
      <3>2. /\ OtherScans(s) /\ scan[s].pc = "scanning" /\ scan'[s].todo = scan[s].todo
            /\ \/ scan'[s].pc = "idle" /\ scan'[s].gen = scan[s].gen
               \/ scan'[s].pc = "take" /\ scan'[s].gen = mgr.watcher /\ mgr.watcher # 0
        BY <1>2, Resuming
      <3> QED BY <3>1, <3>2 DEF Shape, ScansFit, OtherScans
    <2> QED BY <1>2, <2>1, <2>2, Resuming, LoopsStay, BatchesStay DEF Shape, SameButDepth
  <1>3. CASE TakePaused(s)
    <2>1. TypeOK'
      BY <1>3, TakingPaused, Types, Typing DEF StillScan, world, OtherScans
    <2>2. ScansFit'
      BY <1>3, TakingPaused DEF Shape, ScansFit, OtherScans
    <2> QED BY <1>3, <2>1, <2>2, TakingPaused, LoopsStay, BatchesStay DEF Shape, Others
  <1>4. CASE SwapDirty(s)
    <2>1. TypeOK'
      BY <1>4, Swapping, Types, Typing DEF StillScan, world, OtherScans
    <2>2. ScansFit'
      BY <1>4, Swapping DEF Shape, ScansFit, OtherScans
    <2> QED BY <1>4, <2>1, <2>2, Swapping, LoopsStay, BatchesGrow DEF Shape, Others
  <1>5. CASE \E p \in Paths : Replay(s, p)
    <2>1. PICK p \in Paths : Replay(s, p)
      BY <1>5
    <2> DEFINE g == scan[s].gen
               e == Replayed(s, p)
    <2>2. /\ StillScan /\ mgr' = mgr /\ ghost' = ghost /\ g \in Gens /\ e \in Asked
          /\ handleEvent(g, e, "resume") /\ lw' \in [Gens -> Watchers]
          /\ \A h \in Gens : lw'[h].loop = lw[h].loop /\ lw'[h].event = lw[h].event
          /\ OtherScans(s) /\ scan[s].pc = "replay" /\ scan'[s].pc = "replay" /\ scan'[s].gen = g
      BY <2>1, Replaying DEF Others
    <2> HIDE DEF g, e
    <2>3. /\ batch' \in [Kinds -> Batches] /\ Grown(g) /\ flights' \in SUBSET Flights
          /\ flights' = IF NewDir(e) /\ generationCurrent(g)
                        THEN flights \cup {DirScan(g, e, "resume")} ELSE flights
      BY <2>2, Types, Handling
    <2>4. TypeOK'
      BY <2>2, <2>3, Types, Typing DEF StillScan, world, OtherScans
    <2>5. ScansFit'
      BY <2>2 DEF Shape, ScansFit, OtherScans, g
    <2>6. InsertsFit'
      <3>1. /\ DirScan(g, e, "resume").kind = "dir" /\ DirScan(g, e, "resume").by = "resume"
        BY DEF DirScan
      <3>2. \A f \in flights : f.gen \in Gens
        BY Types DEF Flights
      <3>3. flights' \subseteq flights \cup {DirScan(g, e, "resume")}
        BY <2>3
      <3> HIDE DEF DirScan
      <3> QED BY <2>2, <3>1, <3>2, <3>3 DEF Shape, InsertsFit
    <2> QED BY <2>2, <2>3, <2>4, <2>5, <2>6, LoopsStay, BatchesGrow DEF Shape
  <1> QED BY <1>1, <1>2, <1>3, <1>4, <1>5 DEF ScanStep

\* So does a walk.
LEMMA WalkShape ==
  ASSUME Shape, NEW g \in Gens, WalkActs(g),
         lw[g].arm = "walked" => lw[g].loop = "off"
  PROVE  Shape'
  <1>1. /\ StillWalking /\ left' \in [LimitNames -> Nat]
        /\ lw' \in [Gens -> Watchers] /\ Others(g) /\ SameButArm(g) /\ Walks(g) /\ mgr' \in MgrRecords
    BY Walking
  <1>2. TypeOK'
    BY <1>1, Types, Typing DEF StillWalking, world
  <1>3. lw'[g].loop = lw[g].loop \/ (lw[g].loop = "off" /\ lw'[g].loop = "wait")
    BY <1>1 DEF Walks
  <1>4. LoopsFit'
    BY <1>1, <1>3 DEF Shape, LoopsFit, Others, SameButArm
  <1>5. InsertsFit'
    <2>1. \A f \in flights : f.gen \in Gens
      BY Types DEF Flights
    <2> QED BY <1>1, <1>3, <2>1 DEF Shape, InsertsFit, Others, StillWalking
  <1> QED BY <1>1, <1>2, <1>4, <1>5, ScansStay, BatchesStay DEF Shape, StillWalking

-----------------------------------------------------------------------------
(***************************************************************************)
(* The generations: who may be armed, live, cancelled, given up.           *)
(***************************************************************************)
Busy == keeper.pc # "idle"
\* The registered watcher is that of the current generation, is not cancelled and
\* is armed no further back than its walk; the reconciler is at rest.
FreshWatcher ==
  mgr.watcher # 0 =>
    /\ mgr.watcher = mgr.gen /\ ~mgr.stopped /\ ~Busy
    /\ ~lw[mgr.watcher].cancelled
    /\ lw[mgr.watcher].arm \in {"walking", "walked", "stalled", "live"}
\* While the reconciler works the new generation has not begun.
NewGeneration == Busy /\ ~mgr.stopped => mgr.gen \in Gens /\ lw[mgr.gen].arm = "none"
\* What is given up had begun, and is cancelled once it has been drained.
GivenUp ==
  /\ keeper.pc \in {"cancel", "wait", "drain2", "arm"} /\ keeper.gen \in Gens
       => lw[keeper.gen].cancelled
  /\ keeper.gen \in Gens => lw[keeper.gen].arm \notin {"none", "new"}
  /\ \A g \in Gens : lw[g].cancelled => lw[g].arm \notin {"none", "new"}
\* No later generation has begun, as long as another may.
Unborn ==
  lib.exists \/ mgr.desired # "unknown" \/ keeper.why = "sync"
    => \A g \in Gens : g > mgr.gen => lw[g].arm = "none"
\* A library that is unwatched is gone; a stopped manager syncs nothing.
Purposes ==
  /\ keeper.why = "unwatch" => ~lib.exists
  /\ keeper.why = "sync" => ~mgr.stopped
  /\ keeper.pc = "idle" => keeper.why = "none"
\* A live watcher of the current generation is the registered one.
OneLive == \A g \in Gens : lw[g].arm = "live" /\ generationCurrent(g) => mgr.watcher = g
Control == FreshWatcher /\ NewGeneration /\ GivenUp /\ Unborn /\ Purposes /\ OneLive

\* What leaves the generations alone keeps all of it.
Quiet ==
  /\ mgr'.gen = mgr.gen /\ mgr'.watcher = mgr.watcher /\ mgr'.desired = mgr.desired
  /\ mgr'.stopped = mgr.stopped /\ keeper' = keeper /\ (lib'.exists => lib.exists) /\ Lives

\* Nothing of it is about anything else.
LEMMA QuietControl ==
  ASSUME Shape, Control, Quiet
  PROVE  Control'
  <1>0. mgr.gen \in 0..MaxGen /\ mgr.watcher \in 0..MaxGen
    BY Types DEF MgrRecords
  <1>1. FreshWatcher'
    <2>1. mgr.watcher # 0 => mgr.watcher \in Gens
      BY <1>0, BoundsAssumption DEF Gens
    <2> QED BY <2>1 DEF Control, FreshWatcher, Quiet, Lives, Busy
  <1>2. NewGeneration'
    BY DEF Control, NewGeneration, Quiet, Lives, Busy
  <1>3. GivenUp'
    BY DEF Control, GivenUp, Quiet, Lives
  <1>4. Unborn'
    BY DEF Control, Unborn, Quiet, Lives
  <1>5. Purposes'
    BY DEF Control, Purposes, Quiet
  <1>6. OneLive'
    BY DEF Control, OneLive, Quiet, Lives, generationCurrent
  <1> QED BY <1>1, <1>2, <1>3, <1>4, <1>5, <1>6 DEF Control

\* A walk arms the watcher of its generation, or closes it.
LEMMA WalkControl ==
  ASSUME Shape, Control, NEW g \in Gens, WalkActs(g)
  PROVE  Control'
  <1>0. mgr.gen \in 0..MaxGen /\ mgr.watcher \in 0..MaxGen /\ g # 0
    BY Types, BoundsAssumption DEF MgrRecords, Gens
  <1>1. /\ keeper' = keeper /\ lib' = lib /\ Others(g) /\ Walks(g)
        /\ mgr'.gen = mgr.gen /\ mgr'.desired = mgr.desired /\ mgr'.stopped = mgr.stopped
    BY Walking DEF StillWalking, world
  <1>2. CASE lw' = lw /\ mgr'.watcher = mgr.watcher
    BY <1>1, <1>2, QuietControl DEF Quiet, Lives
  <1>3. /\ lw[g].arm = "none" <=> lw'[g].arm = "none"
        /\ lw'[g].arm # "new" \/ lw' = lw
        /\ lw[g].cancelled => lw'[g].cancelled
    BY <1>1 DEF Walks
  <1>4. CASE lw' # lw
    <2>1. lw[g].arm # "none" /\ lw'[g].arm \notin {"none", "new"}
      BY <1>1, <1>3, <1>4 DEF Walks
    <2>2. NewGeneration'
      BY <1>1, <2>1 DEF Control, NewGeneration, Busy, Others
    <2>3. GivenUp'
      BY <1>1, <1>3, <2>1 DEF Control, GivenUp, Others
    <2>4. Unborn'
      BY <1>1, <2>1 DEF Control, Unborn, Others
    <2>5. Purposes'
      BY <1>1 DEF Control, Purposes
    <2>6. CASE /\ lw[g].arm = "new" /\ lw'[g].arm = "walking" /\ lw'[g].cancelled = lw[g].cancelled
               /\ generationCurrent(g) /\ mgr.watcher = 0 /\ mgr'.watcher = g
      <3>1. FreshWatcher'
        <4>1. ~Busy
          BY <2>6 DEF Control, NewGeneration, generationCurrent
        <4>2. ~lw[g].cancelled
          BY <2>6 DEF Control, GivenUp
        <4> QED BY <1>1, <2>6, <4>1, <4>2 DEF FreshWatcher, Busy, generationCurrent
      <3>2. OneLive'
        BY <1>0, <1>1, <2>6 DEF Control, OneLive, generationCurrent, Others
      <3> QED BY <2>2, <2>3, <2>4, <2>5, <3>1, <3>2 DEF Control
    <2>7. CASE /\ mgr'.watcher = mgr.watcher /\ mgr.watcher # g /\ lw'[g].arm # "live"
      <3>1. FreshWatcher'
        <4>1. mgr.watcher # 0 => mgr.watcher \in Gens
          BY <1>0, BoundsAssumption DEF Gens
        <4> QED BY <1>1, <2>7, <4>1 DEF Control, FreshWatcher, Busy, Others
      <3>2. OneLive'
        BY <1>1, <2>7 DEF Control, OneLive, generationCurrent, Others
      <3> QED BY <2>2, <2>3, <2>4, <2>5, <3>1, <3>2 DEF Control
    <2>8. CASE /\ lw[g].arm = "walking" /\ lw'[g].arm \in {"walked", "stalled"}
               /\ lw'[g].cancelled = lw[g].cancelled /\ mgr'.watcher = mgr.watcher
      <3>1. FreshWatcher'
        <4>1. mgr.watcher # 0 => mgr.watcher \in Gens
          BY <1>0, BoundsAssumption DEF Gens
        <4> QED BY <1>1, <2>8, <4>1 DEF Control, FreshWatcher, Busy, Others
      <3>2. OneLive'
        BY <1>1, <2>8 DEF Control, OneLive, generationCurrent, Others
      <3> QED BY <2>2, <2>3, <2>4, <2>5, <3>1, <3>2 DEF Control
    <2>9. CASE /\ lw[g].arm = "walked" /\ lw'[g].arm = "live" /\ lw'[g].cancelled = lw[g].cancelled
               /\ generationCurrent(g) /\ mgr.watcher = g /\ mgr'.watcher = g
      <3>1. FreshWatcher'
        BY <1>1, <2>9 DEF Control, FreshWatcher, Busy
      <3>2. OneLive'
        BY <1>1, <2>9 DEF Control, OneLive, generationCurrent, Others
      <3> QED BY <2>2, <2>3, <2>4, <2>5, <3>1, <3>2 DEF Control
    <2>10. CASE /\ generationCurrent(g) /\ mgr.watcher = g /\ lw[g].arm = "stalled" /\ mgr'.watcher = 0
                /\ lw'[g].arm = "closed"
      <3>1. FreshWatcher'
        BY <2>10 DEF FreshWatcher
      <3>2. OneLive'
        BY <1>1, <2>10 DEF Control, OneLive, generationCurrent, Others
      <3> QED BY <2>2, <2>3, <2>4, <2>5, <3>1, <3>2 DEF Control
    <2>11. lw[g].arm = "new" => mgr.watcher # g
      BY <1>0 DEF Control, FreshWatcher
    <2>12. ~(generationCurrent(g) /\ mgr.watcher = g) => mgr.watcher # g
      BY <1>0 DEF Control, FreshWatcher, generationCurrent
    <2> QED BY <1>1, <1>4, <2>6, <2>7, <2>8, <2>9, <2>10, <2>11, <2>12 DEF Walks
  <1>5. lw' # lw \/ mgr'.watcher = mgr.watcher
    BY <1>1 DEF Walks
  <1> QED BY <1>2, <1>4, <1>5

\* The reconciler gives up one generation and begins the next.
LEMMA KeeperControl ==
  ASSUME Shape, Control, KeeperStep
  PROVE  Control'
  <1>0. mgr.gen \in 0..MaxGen /\ mgr.watcher \in 0..MaxGen /\ (mgr.watcher # 0 => mgr.watcher \in Gens)
        /\ keeper.gen \in 0..MaxGen
    BY Types, BoundsAssumption DEF MgrRecords, Gens, KeeperRecords
  <1>1. ASSUME NEW why \in {"sync", "unwatch", "stop"}, Invalidate(why)
        PROVE  Control'
    <2>1. /\ lib' = lib /\ lw' = lw
          /\ keeper.pc = "idle" /\ ~mgr.stopped
          /\ keeper'.pc = "drain" /\ keeper'.why = why /\ keeper'.gen = mgr.watcher
          /\ mgr'.watcher = 0
          /\ \/ /\ why = "stop" /\ mgr'.stopped /\ mgr'.gen = mgr.gen /\ mgr'.desired = "unknown"
             \/ /\ (why = "sync" /\ lib.exists) \/ (why = "unwatch" /\ ~lib.exists /\ mgr.desired # "unknown")
                /\ ~mgr'.stopped /\ mgr'.gen = mgr.gen + 1 /\ mgr'.gen \in Gens /\ mgr'.desired = mgr.desired
      BY <1>1, Invalidating DEF StillKeeping, world
    <2>2. keeper.why = "none"
      BY <2>1 DEF Control, Purposes
    <2>3. FreshWatcher'
      BY <2>1 DEF FreshWatcher
    <2>4. NewGeneration'
      <3>1. mgr'.gen = mgr.gen + 1 => mgr'.gen > mgr.gen
        BY <1>0
      <3> QED BY <2>1, <3>1 DEF Control, Unborn, NewGeneration
    <2>5. GivenUp'
      <3>1. mgr.watcher \in Gens => lw[mgr.watcher].arm \notin {"none", "new"}
        BY <1>0, BoundsAssumption DEF Control, FreshWatcher, Gens
      <3> QED BY <2>1, <3>1 DEF Control, GivenUp
    <2>6. Unborn'
      <3>1. CASE why = "stop"
        BY <2>1, <3>1 DEF Control, Unborn
      <3>2. CASE why # "stop"
        <4>1. \A g \in Gens : g > mgr.gen => lw[g].arm = "none"
          BY <2>1, <3>2 DEF Control, Unborn
        <4>2. \A g \in Gens : g > mgr.gen + 1 => g > mgr.gen
          BY <1>0 DEF Gens
        <4> QED BY <2>1, <3>2, <4>1, <4>2 DEF Unborn
      <3> QED BY <3>1, <3>2
    <2>7. Purposes'
      BY <2>1 DEF Purposes
    <2>8. OneLive'
      <3>1. CASE why = "stop"
        BY <2>1, <3>1 DEF OneLive, generationCurrent
      <3>2. CASE why # "stop"
        <4>1. lw'[mgr'.gen].arm = "none"
          BY <2>1, <2>4, <3>2 DEF NewGeneration, Busy
        <4> QED BY <2>1, <3>2, <4>1 DEF OneLive, generationCurrent
      <3> QED BY <3>1, <3>2
    <2> QED BY <2>3, <2>4, <2>5, <2>6, <2>7, <2>8 DEF Control
  <1>2. ASSUME NEW to \in {"cancel", "wait", "drain2", "arm"}, KeeperGoes(to), keeper.pc # "idle",
               mgr' = mgr, lib' = lib, \A g \in Gens : lw'[g].arm = lw[g].arm,
               \A g \in Gens : lw[g].cancelled => lw'[g].cancelled,
               \A g \in Gens : lw'[g].cancelled => lw[g].cancelled \/ g = keeper.gen,
               keeper.gen \in Gens => lw'[keeper.gen].cancelled
        PROVE  Control'
    <2>1. mgr.watcher = 0
      BY <1>2 DEF Control, FreshWatcher, Busy
    <2>2. FreshWatcher' /\ NewGeneration' /\ Unborn'
      BY <1>2, <2>1 DEF Control, FreshWatcher, NewGeneration, Unborn, Busy, KeeperGoes
    <2>3. GivenUp'
      BY <1>2 DEF Control, GivenUp, KeeperGoes
    <2>4. Purposes' /\ OneLive'
      BY <1>2 DEF Control, Purposes, OneLive, KeeperGoes, generationCurrent
    <2> QED BY <2>2, <2>3, <2>4 DEF Control
  <1>3. CASE Drain
    <2>1. /\ mgr' = mgr /\ lib' = lib /\ keeper.pc = "drain" /\ KeeperGoes("cancel")
          /\ \A g \in Gens \ {keeper.gen} : lw'[g] = lw[g]
          /\ keeper.gen \in Gens =>
               lw'[keeper.gen].arm = lw[keeper.gen].arm /\ lw'[keeper.gen].cancelled
      BY <1>3, DrainingOld DEF StillKeeping, world, Others
    <2> QED BY <1>2, <2>1
  <1>4. CASE cancelPendingEnqueues \/ Wait
    <2>1. /\ mgr' = mgr /\ lib' = lib /\ lw' = lw /\ keeper.pc \in {"cancel", "wait"}
          /\ KeeperGoes("wait") \/ KeeperGoes("drain2")
      BY <1>4, Cancelling, Waiting DEF StillKeeping, world
    <2>2. keeper.gen \in Gens => lw[keeper.gen].cancelled
      BY <2>1 DEF Control, GivenUp
    <2> QED BY <1>2, <2>1, <2>2
  <1>5. CASE DrainAgain
    <2>1. /\ mgr' = mgr /\ lib' = lib /\ keeper.pc = "drain2" /\ KeeperGoes("arm")
          /\ \A g \in Gens \ {keeper.gen} : lw'[g] = lw[g]
          /\ keeper.gen \in Gens =>
               lw'[keeper.gen].arm = lw[keeper.gen].arm /\ lw'[keeper.gen].cancelled = lw[keeper.gen].cancelled
      BY <1>5, DrainingTwice DEF StillKeeping, world, Others
    <2>2. keeper.gen \in Gens => lw[keeper.gen].cancelled
      BY <2>1 DEF Control, GivenUp
    <2> QED BY <1>2, <2>1, <2>2
  <1>6. CASE Finish
    <2>1. /\ lib' = lib /\ keeper.pc = "arm"
          /\ keeper'.pc = "idle" /\ keeper'.why = "none" /\ keeper'.gen = 0
          /\ mgr'.watcher = mgr.watcher /\ mgr'.stopped = mgr.stopped
          /\ \A g \in Gens : /\ lw'[g].arm # lw[g].arm =>
                                  keeper.why = "sync" /\ g = mgr.gen /\ lw'[g].arm = "new"
                             /\ lw'[g].cancelled = lw[g].cancelled
          /\ \/ keeper.why = "sync" /\ mgr'.gen = mgr.gen
             \/ keeper.why = "unwatch" /\ mgr'.desired = "unknown" /\ mgr'.gen = 0 /\ lw' = lw
             \/ keeper.why = "stop" /\ mgr' = mgr /\ lw' = lw
      <3>1. (~mgr.stopped => mgr.gen \in Gens) /\ (keeper.why = "sync" => ~mgr.stopped)
        BY <1>6 DEF Finish, Control, NewGeneration, Busy, Purposes
      <3> QED BY <1>6, <3>1, Finishing DEF StillKeeping, world
    <2>2. mgr.watcher = 0
      BY <2>1 DEF Control, FreshWatcher, Busy
    <2>3. ~mgr.stopped => mgr.gen \in Gens /\ lw[mgr.gen].arm = "none"
      BY <2>1 DEF Control, NewGeneration, Busy
    <2>4. FreshWatcher' /\ NewGeneration' /\ Purposes'
      BY <2>1, <2>2 DEF FreshWatcher, NewGeneration, Purposes, Busy
    <2>5. GivenUp'
      <3>1. keeper.why = "sync" => lw[mgr.gen].arm = "none" /\ mgr.gen \in Gens
        BY <2>3 DEF Control, Purposes
      <3>2. \A g \in Gens : lw'[g].cancelled => lw'[g].arm \notin {"none", "new"}
        BY <2>1, <3>1 DEF Control, GivenUp
      <3>3. keeper'.gen \notin Gens
        BY <2>1, BoundsAssumption DEF Gens
      <3> QED BY <3>2, <3>3 DEF GivenUp
    <2>6. Unborn'
      <3>1. CASE keeper.why = "sync" /\ mgr'.gen = mgr.gen
        <4>1. \A g \in Gens : g > mgr.gen => lw[g].arm = "none" /\ g # mgr.gen
          BY <1>0, <3>1 DEF Control, Unborn, Gens
        <4> QED BY <2>1, <3>1, <4>1 DEF Unborn
      <3>2. CASE keeper.why = "unwatch" /\ mgr'.desired = "unknown"
        BY <2>1, <3>2 DEF Control, Purposes, Unborn
      <3>3. CASE keeper.why = "stop" /\ mgr' = mgr /\ lw' = lw
        BY <2>1, <3>3 DEF Control, Unborn
      <3> QED BY <2>1, <3>1, <3>2, <3>3
    <2>7. OneLive'
      <3>1. CASE keeper.why = "sync" /\ mgr'.gen = mgr.gen
        <4>1. lw'[mgr.gen].arm # "live"
          BY <2>1, <2>3, <3>1 DEF Control, Purposes
        <4> QED BY <2>1, <3>1, <4>1 DEF OneLive, generationCurrent
      <3>2. CASE mgr'.gen = 0
        BY <3>2, BoundsAssumption DEF OneLive, generationCurrent, Gens
      <3>3. CASE mgr' = mgr /\ lw' = lw
        BY <3>3 DEF Control, OneLive, generationCurrent
      <3> QED BY <2>1, <3>1, <3>2, <3>3
    <2> QED BY <2>4, <2>5, <2>6, <2>7 DEF Control
  <1> QED BY <1>1, <1>3, <1>4, <1>5, <1>6 DEF KeeperStep

\* The reconciler's steps keep the shape.
LEMMA KeeperShape ==
  ASSUME Shape, Control, KeeperStep
  PROVE  Shape'
  <1>1. ASSUME NEW why \in {"sync", "unwatch", "stop"}, Invalidate(why)
        PROVE  Shape'
    <2>1. TypeOK'
      BY <1>1, Invalidating, Types, Typing DEF StillKeeping, world, Notes
    <2> QED BY <1>1, <2>1, Invalidating, LoopsStay, ScansStay, BatchesStay DEF Shape, StillKeeping
  <1>2. CASE Drain
    <2>1. TypeOK'
      BY <1>2, DrainingOld, Types, Typing DEF StillKeeping, world, KeeperGoes
    <2>2. \A g \in Gens : lw'[g].loop = lw[g].loop /\ lw'[g].event = lw[g].event
      BY <1>2, DrainingOld DEF Others
    <2> QED BY <1>2, <2>1, <2>2, DrainingOld, LoopsStay, ScansStay, BatchesStay DEF Shape, StillKeeping
  <1>3. CASE cancelPendingEnqueues
    <2>1. TypeOK'
      BY <1>3, Cancelling, Types, Typing DEF StillKeeping, world, KeeperGoes
    <2>2. BatchesFit'
      BY <1>3, Cancelling DEF BatchesFit, NoBatch
    <2> QED BY <1>3, <2>1, <2>2, Cancelling, LoopsStay, ScansStay DEF Shape, StillKeeping
  <1>4. CASE Wait
    <2>1. TypeOK'
      BY <1>4, Waiting, Types, Typing DEF StillKeeping, world, KeeperGoes
    <2> QED BY <1>4, <2>1, Waiting, LoopsStay, ScansStay, BatchesStay DEF Shape, StillKeeping
  <1>5. CASE DrainAgain
    <2>1. TypeOK'
      BY <1>5, DrainingTwice, Types, Typing DEF StillKeeping, world, KeeperGoes
    <2>2. \A g \in Gens : lw'[g].loop = lw[g].loop /\ lw'[g].event = lw[g].event
      BY <1>5, DrainingTwice DEF Others
    <2> QED BY <1>5, <2>1, <2>2, DrainingTwice, LoopsStay, ScansStay, BatchesStay DEF Shape, StillKeeping
  <1>6. CASE Finish
    <2>1. (~mgr.stopped => mgr.gen \in Gens) /\ (keeper.why = "sync" => ~mgr.stopped)
      BY <1>6 DEF Finish, Control, NewGeneration, Busy, Purposes
    <2>2. /\ StillKeeping /\ batch' = batch /\ ghost' = ghost /\ left' = left
          /\ keeper' \in KeeperRecords /\ mgr' \in MgrRecords /\ lw' \in [Gens -> Watchers]
          /\ \A g \in Gens : lw'[g].loop = lw[g].loop /\ lw'[g].event = lw[g].event
      BY <1>6, <2>1, Finishing
    <2>3. TypeOK'
      BY <2>2, Types, Typing DEF StillKeeping, world
    <2> QED BY <2>2, <2>3, LoopsStay, ScansStay, BatchesStay DEF Shape, StillKeeping
  <1> QED BY <1>1, <1>2, <1>3, <1>4, <1>5, <1>6 DEF KeeperStep

-----------------------------------------------------------------------------
(***************************************************************************)
(* A watcher that is not live holds nothing, and nobody holds anything of  *)
(* its generation.                                                         *)
(***************************************************************************)
Asleep(g) ==
  /\ lw[g].loop = "off" /\ lw[g].timer = "none" /\ lw[g].edits = {}
  /\ lw[g].paused = NothingToReplay /\ ~lw[g].dirty
  /\ \A k \in Kinds : batch[k].gen # g
  /\ \A f \in flights : f.gen # g
  /\ \A s \in Scans : scan[s].gen = g => scan[s].todo = NothingToReplay
Dormant == \A g \in Gens : lw[g].arm # "live" => Asleep(g)

\* It stays so while only live watchers take on something new.
SleepsOn(g) ==
  /\ lw'[g].loop = lw[g].loop /\ lw'[g].timer = lw[g].timer /\ lw'[g].edits = lw[g].edits
  /\ lw'[g].paused = lw[g].paused /\ lw'[g].dirty = lw[g].dirty

\* Whoever sleeps is woken only by becoming live.
LEMMA Sleeping ==
  ASSUME Dormant,
         \A g \in Gens : lw[g].arm = "live" => lw'[g].arm = "live",
         \A g \in Gens : lw[g].arm # "live" => lw'[g].arm = "live" \/ SleepsOn(g),
         \A k \in Kinds : \/ batch'[k].gen = batch[k].gen \/ batch'[k].gen \notin Gens
                          \/ lw[batch'[k].gen].arm = "live",
         \A f \in flights' : f \in flights \/ lw[f.gen].arm = "live",
         \A s \in Scans : \/ scan'[s].todo = NothingToReplay
                          \/ scan'[s].gen = scan[s].gen /\ scan'[s].todo = scan[s].todo
                          \/ lw[scan'[s].gen].arm = "live"
  PROVE  Dormant'
  <1> SUFFICES ASSUME NEW g \in Gens, lw'[g].arm # "live"
               PROVE  Asleep(g)'
    BY DEF Dormant
  <1>1. lw[g].arm # "live" /\ Asleep(g) /\ SleepsOn(g)
    BY DEF Dormant
  <1>2. /\ lw'[g].loop = "off" /\ lw'[g].timer = "none" /\ lw'[g].edits = {}
        /\ lw'[g].paused = NothingToReplay /\ ~lw'[g].dirty
    BY <1>1 DEF Asleep, SleepsOn
  <1>3. \A k \in Kinds : batch'[k].gen # g
    BY <1>1 DEF Asleep
  <1>4. \A f \in flights' : f.gen # g
    BY <1>1 DEF Asleep
  <1>5. \A s \in Scans : scan'[s].gen = g => scan'[s].todo = NothingToReplay
    BY <1>1 DEF Asleep
  <1> QED BY <1>2, <1>3, <1>4, <1>5 DEF Asleep, NothingToReplay

\* Whoever does something is live.
LEMMA Awake ==
  ASSUME Dormant, NEW g \in Gens,
         \/ lw[g].loop # "off" \/ lw[g].timer # "none" \/ lw[g].dirty
         \/ \E k \in Kinds : batch[k].gen = g
         \/ \E f \in flights : f.gen = g
         \/ \E s \in Scans : scan[s].gen = g /\ scan[s].todo # NothingToReplay
  PROVE  lw[g].arm = "live"
  BY DEF Dormant, Asleep
\* Its batches then are the live one's.
LEMMA GrownAwake ==
  ASSUME NEW g \in Gens, lw[g].arm = "live", Grown(g)
  PROVE  \A k \in Kinds : \/ batch'[k].gen = batch[k].gen \/ batch'[k].gen \notin Gens
                          \/ lw[batch'[k].gen].arm = "live"
  BY DEF Grown

\* Only the loop of a live watcher runs.
LEMMA LoopDormant ==
  ASSUME Shape, Dormant, NEW g \in Gens, LoopStep(g)
  PROVE  Dormant'
  <1>1. CASE Receive(g)
    <2>1. /\ scan' = scan /\ batch' = batch /\ flights' = flights /\ Others(g) /\ lw[g].loop = "wait"
          /\ lw'[g].arm = lw[g].arm
      BY <1>1, Receiving
    <2>2. lw[g].arm = "live"
      BY <2>1, Awake
    <2> QED BY <2>1, <2>2, Sleeping DEF Others, SleepsOn
  <1>2. CASE Handle(g)
    <2>1. /\ scan' = scan /\ Others(g) /\ lw[g].loop = "handle" /\ lw'[g].arm = lw[g].arm
          /\ lw[g].event \in Asked /\ handleEvent(g, lw[g].event, "loop")
      BY <1>2, HandlingOne
    <2>2. lw[g].arm = "live"
      BY <2>1, Awake
    <2>3. Grown(g) /\ flights' \subseteq flights \cup {DirScan(g, lw[g].event, "loop")}
      BY <2>1, Types, Handling
    <2>4. DirScan(g, lw[g].event, "loop").gen = g
      BY DEF DirScan
    <2> QED BY <2>1, <2>2, <2>3, <2>4, GrownAwake, Sleeping DEF Others, SleepsOn
  <1>3. CASE MarkDirty(g)
    <2>1. /\ scan' = scan /\ Others(g) /\ lw'[g].arm = lw[g].arm /\ flights' = flights /\ Grown(g)
      BY <1>3, Marking
    <2>2. lw[g].arm = "live"
      BY <1>3, Awake DEF MarkDirty
    <2> QED BY <2>1, <2>2, GrownAwake, Sleeping DEF Others, SleepsOn
  <1>4. CASE Exit(g)
    <2>1. /\ scan' = scan /\ batch' = batch /\ flights' = flights /\ Others(g) /\ lw[g].loop = "wait"
          /\ lw'[g].arm = lw[g].arm
      BY <1>4, Exiting
    <2>2. lw[g].arm = "live"
      BY <2>1, Awake
    <2> QED BY <2>1, <2>2, Sleeping DEF Others, SleepsOn
  <1> QED BY <1>1, <1>2, <1>3, <1>4 DEF LoopStep

\* Only a live watcher has edits to take.
LEMMA TimerDormant ==
  ASSUME Shape, Dormant, NEW g \in Gens, TimerStep(g)
  PROVE  Dormant'
  <1>1. lw[g].timer # "none"
    BY DEF TimerStep, AdmitEdits, TakeEdits
  <1>2. lw[g].arm = "live"
    BY <1>1, Awake
  <1>3. CASE AdmitEdits(g)
    <2>1. /\ scan' = scan /\ batch' = batch /\ flights' = flights /\ Others(g) /\ lw'[g].arm = lw[g].arm
      BY <1>3, AdmittingEdits
    <2> QED BY <1>2, <2>1, Sleeping DEF Others, SleepsOn
  <1>4. CASE TakeEdits(g)
    <2>1. /\ scan' = scan /\ batch' = batch /\ Others(g) /\ lw'[g].arm = lw[g].arm
          /\ \E ps \in SUBSET Paths : flights' \subseteq flights \cup {TimerFlight("edit", g, ps)}
      BY <1>4, TakingEdits
    <2>2. \A ps : TimerFlight("edit", g, ps).gen = g
      BY DEF TimerFlight
    <2> QED BY <1>2, <2>1, <2>2, Sleeping DEF Others, SleepsOn
  <1> QED BY <1>3, <1>4 DEF TimerStep

\* Only a live watcher has batches to take.
LEMMA BatchDormant ==
  ASSUME Shape, Dormant, NEW k \in Kinds, BatchStep(k)
  PROVE  Dormant'
  <1>1. CASE Admit(k)
    BY <1>1, Admitting, Sleeping DEF SleepsOn
  <1>2. CASE Take(k)
    <2>1. /\ scan' = scan /\ lw' = lw /\ batch'[k] = NoBatch /\ \A j \in Kinds \ {k} : batch'[j] = batch[j]
          /\ batch[k].gen \in Gens
          /\ \E ps \in SUBSET Paths : flights' \subseteq flights \cup {TimerFlight(k, batch[k].gen, ps)}
      BY <1>2, Taking
    <2>2. \A ps : TimerFlight(k, batch[k].gen, ps).gen = batch[k].gen
      BY DEF TimerFlight
    <2>3. lw[batch[k].gen].arm = "live"
      BY <2>1, Awake
    <2>4. NoBatch.gen \notin Gens
      BY BoundsAssumption DEF NoBatch, Gens
    <2> QED BY <2>1, <2>2, <2>3, <2>4, Sleeping DEF SleepsOn
  <1> QED BY <1>1, <1>2 DEF BatchStep

\* An insert gives nobody anything.
LEMMA InsertDormant ==
  ASSUME Shape, Dormant, NEW f \in flights, Insert(f)
  PROVE  Dormant'
  <1>1. /\ scan' = scan /\ batch' = batch /\ flights' = flights \ {f} /\ f.gen \in Gens
        /\ \A g \in Gens :
              /\ lw'[g].arm = lw[g].arm /\ lw'[g].dirty = lw[g].dirty
              /\ lw'[g].paused = lw[g].paused /\ lw'[g].edits = lw[g].edits /\ lw'[g].timer = lw[g].timer
              /\ lw'[g].loop = IF f.by = "loop" /\ f.gen = g THEN "wait" ELSE lw[g].loop
    BY Inserting
  <1>2. lw[f.gen].arm = "live"
    BY <1>1, Awake
  <1> QED BY <1>1, <1>2, Sleeping DEF SleepsOn

\* A scan replays to the live watcher it took from.
LEMMA ScanDormant ==
  ASSUME Shape, Dormant, NEW s \in Scans, ScanStep(s)
  PROVE  Dormant'
  <1>1. CASE Pause(s)
    <2>1. /\ batch' = batch /\ flights' = flights /\ \A g \in Gens : SameButDepth(g)
          /\ OtherScans(s) /\ scan'[s].gen = scan[s].gen /\ scan'[s].todo = scan[s].todo
      BY <1>1, Pausing
    <2> QED BY <2>1, Sleeping DEF SleepsOn, SameButDepth, OtherScans
  <1>2. CASE Resume(s)
    <2>1. /\ batch' = batch /\ flights' = flights /\ \A g \in Gens : SameButDepth(g)
          /\ OtherScans(s) /\ scan[s].pc = "scanning" /\ scan'[s].todo = scan[s].todo
      BY <1>2, Resuming
    <2>2. scan[s].todo = NothingToReplay
      BY <2>1 DEF Shape, ScansFit
    <2> QED BY <2>1, <2>2, Sleeping DEF SleepsOn, SameButDepth, OtherScans
  <1>3. CASE TakePaused(s)
    <2>1. /\ batch' = batch /\ flights' = flights /\ Others(scan[s].gen) /\ scan[s].gen \in Gens
          /\ lw'[scan[s].gen].arm = lw[scan[s].gen].arm
          /\ lw'[scan[s].gen].dirty = lw[scan[s].gen].dirty
          /\ lw'[scan[s].gen].edits = lw[scan[s].gen].edits
          /\ lw'[scan[s].gen].timer = lw[scan[s].gen].timer
          /\ lw'[scan[s].gen].loop = lw[scan[s].gen].loop
          /\ lw'[scan[s].gen].paused = NothingToReplay
          /\ OtherScans(s) /\ scan'[s].gen = scan[s].gen /\ scan'[s].todo = lw[scan[s].gen].paused
      BY <1>3, TakingPaused
    <2>2. lw[scan[s].gen].arm # "live" => lw[scan[s].gen].paused = NothingToReplay
      BY <2>1 DEF Dormant, Asleep
    <2>3. \A g \in Gens : lw[g].arm # "live" => SleepsOn(g)
      BY <2>1, <2>2 DEF SleepsOn, Others
    <2>4. \A g \in Gens : lw'[g].arm = lw[g].arm
      BY <2>1 DEF Others
    <2>5. \A t \in Scans : \/ scan'[t].todo = NothingToReplay
                           \/ scan'[t].gen = scan[t].gen /\ scan'[t].todo = scan[t].todo
                           \/ lw[scan'[t].gen].arm = "live"
      BY <2>1, <2>2 DEF OtherScans
    <2> QED BY <2>1, <2>3, <2>4, <2>5, Sleeping
  <1>4. CASE SwapDirty(s)
    <2> DEFINE g == scan[s].gen
    <2>1. /\ flights' = flights /\ g \in Gens /\ Others(g) /\ Grown(g)
          /\ lw'[g].arm = lw[g].arm /\ lw'[g].paused = lw[g].paused
          /\ lw'[g].edits = lw[g].edits /\ lw'[g].timer = lw[g].timer /\ lw'[g].loop = lw[g].loop
          /\ OtherScans(s) /\ scan'[s].todo = NothingToReplay
      BY <1>4, Swapping
    <2>2. CASE lw[g].dirty
      <3>1. lw[g].arm = "live"
        BY <2>1, <2>2, Awake
      <3> QED BY <2>1, <3>1, GrownAwake, Sleeping DEF SleepsOn, Others, OtherScans
    <2>3. CASE ~lw[g].dirty
      <3>1. batch' = batch
        BY <1>4, <2>3 DEF SwapDirty
      <3>2. lw'[g].dirty = lw[g].dirty
        <4>1. lw[g] \in Watchers /\ lw \in [Gens -> Watchers]
          BY <2>1, Types
        <4>2. lw' = [lw EXCEPT ![g].dirty = FALSE]
          BY <1>4 DEF SwapDirty
        <4> QED BY <2>1, <2>3, <4>1, <4>2 DEF Watchers
      <3> QED BY <2>1, <3>1, <3>2, Sleeping DEF SleepsOn, Others, OtherScans
    <2> QED BY <2>2, <2>3
  <1>5. CASE \E p \in Paths : Replay(s, p)
    <2>1. PICK p \in Paths : Replay(s, p)
      BY <1>5
    <2> DEFINE g == scan[s].gen
               e == Replayed(s, p)
    <2>2. /\ g \in Gens /\ e \in Asked /\ handleEvent(g, e, "resume") /\ Others(g)
          /\ lw'[g].arm = lw[g].arm /\ OtherScans(s) /\ scan'[s].gen = g
          /\ scan[s].todo[p] # {}
      BY <2>1, Replaying
    <2>3. scan[s].todo # NothingToReplay
      BY <2>2 DEF NothingToReplay
    <2>4. lw[g].arm = "live"
      BY <2>2, <2>3, Awake
    <2>5. Grown(g) /\ flights' \subseteq flights \cup {DirScan(g, e, "resume")}
      BY <2>2, Types, Handling
    <2>6. DirScan(g, e, "resume").gen = g
      BY DEF DirScan
    <2> HIDE DEF e
    <2> QED BY <2>2, <2>4, <2>5, <2>6, GrownAwake, Sleeping DEF SleepsOn, Others, OtherScans
  <1> QED BY <1>1, <1>2, <1>3, <1>4, <1>5 DEF ScanStep

\* A walk takes nothing on before it is live.
LEMMA WalkDormant ==
  ASSUME Shape, Dormant, NEW g \in Gens, WalkActs(g)
  PROVE  Dormant'
  <1>1. StillWalking /\ Others(g) /\ SameButArm(g) /\ Walks(g)
    BY Walking
  <1>2. lw[g].arm = "live" => lw' = lw
    BY <1>1 DEF Walks
  <1>3. lw'[g].arm = "live" \/ lw'[g].loop = lw[g].loop
    BY <1>1 DEF Walks
  <1> QED BY <1>1, <1>2, <1>3, Sleeping DEF StillWalking, Others, SameButArm, SleepsOn

\* The reconciler begins a generation that nobody knows yet.
LEMMA KeeperDormant ==
  ASSUME Shape, Control, Dormant, KeeperStep
  PROVE  Dormant'
  <1>1. ASSUME NEW why \in {"sync", "unwatch", "stop"}, Invalidate(why)
        PROVE  Dormant'
    BY <1>1, Invalidating, Sleeping DEF StillKeeping, SleepsOn
  <1>2. ASSUME scan' = scan, flights' = flights, batch' = batch, Others(keeper.gen),
               keeper.gen \in Gens =>
                 /\ lw'[keeper.gen].arm = lw[keeper.gen].arm
                 /\ lw'[keeper.gen].paused = NothingToReplay /\ lw'[keeper.gen].edits = {}
                 /\ lw'[keeper.gen].timer = "none" /\ lw'[keeper.gen].loop = lw[keeper.gen].loop
                 /\ lw'[keeper.gen].dirty = lw[keeper.gen].dirty
        PROVE  Dormant'
    <2>1. \A g \in Gens : lw[g].arm # "live" => SleepsOn(g)
      BY <1>2 DEF SleepsOn, Others, Dormant, Asleep
    <2>2. \A g \in Gens : lw'[g].arm = lw[g].arm
      BY <1>2 DEF Others
    <2> QED BY <1>2, <2>1, <2>2, Sleeping
  <1>3. CASE Drain
    BY <1>2, <1>3, DrainingOld DEF StillKeeping
  <1>4. CASE cancelPendingEnqueues
    <2>1. NoBatch.gen \notin Gens
      BY BoundsAssumption DEF NoBatch, Gens
    <2> QED BY <1>4, <2>1, Cancelling, Sleeping DEF StillKeeping, SleepsOn
  <1>5. CASE Wait
    BY <1>5, Waiting, Sleeping DEF StillKeeping, SleepsOn
  <1>6. CASE DrainAgain
    BY <1>2, <1>6, DrainingTwice DEF StillKeeping
  <1>7. CASE Finish
    <2>1. (~mgr.stopped => mgr.gen \in Gens) /\ (keeper.why = "sync" => ~mgr.stopped)
      BY <1>7 DEF Finish, Control, NewGeneration, Busy, Purposes
    <2>2. ~mgr.stopped => lw[mgr.gen].arm = "none"
      BY <1>7 DEF Finish, Control, NewGeneration, Busy
    <2>3. /\ StillKeeping /\ batch' = batch
          /\ \A g \in Gens :
              /\ lw'[g].arm # lw[g].arm =>
                   keeper.why = "sync" /\ g = mgr.gen /\ lw'[g].arm = "new"
              /\ lw'[g].dirty = lw[g].dirty
              /\ lw'[g].paused = lw[g].paused /\ lw'[g].edits = lw[g].edits
              /\ lw'[g].timer = lw[g].timer /\ lw'[g].loop = lw[g].loop
      BY <1>7, <2>1, Finishing
    <2>4. \A g \in Gens : lw[g].arm = "live" => lw'[g].arm = "live"
      BY <2>1, <2>2, <2>3
    <2> QED BY <2>3, <2>4, Sleeping DEF StillKeeping, SleepsOn
  <1> QED BY <1>1, <1>3, <1>4, <1>5, <1>6, <1>7 DEF KeeperStep

-----------------------------------------------------------------------------
(***************************************************************************)
(* What is on its way belongs to the current generation, to the one that   *)
(* is being joined, or to a scan whose inserts fail.                       *)
(***************************************************************************)
FlightsFit ==
  \A f \in flights :
    \/ generationCurrent(f.gen)
    \/ keeper.gen = f.gen /\ keeper.pc \in {"drain", "cancel", "wait"}
    \/ f.by = "resume" /\ lw[f.gen].cancelled

\* It stays so while only the current generation sets anything out.
LEMMA QuietFlights ==
  ASSUME Shape, FlightsFit, Quiet,
         \A f \in flights' : f \in flights \/ (generationCurrent(f.gen) /\ f.gen \in Gens)
  PROVE  FlightsFit'
  <1>1. \A f \in flights : f.gen \in Gens
    BY Types DEF Flights
  <1> QED BY <1>1 DEF FlightsFit, Quiet, Lives, generationCurrent

\* Most steps leave the generations alone.
LEMMA QuietSteps ==
  ASSUME Shape,
         \/ \E p \in Paths : ChangeStep(p)
         \/ Settles
         \/ \E g \in Gens : LoopStep(g) \/ TimerStep(g)
         \/ \E k \in Kinds : BatchStep(k)
         \/ \E f \in flights : Insert(f)
         \/ \E s \in Scans : ScanStep(s)
  PROVE  Quiet /\ \A f \in flights' : f \in flights \/ (generationCurrent(f.gen) /\ f.gen \in Gens)
  <1>1. CASE \E p \in Paths : ChangeStep(p)
    <2>1. PICK p \in Paths : ChangeStep(p)
      BY <1>1
    <2>2. StillManager /\ \E op \in Ops : Deliver(p, op)
      BY <2>1, Changing DEF ChangeStep
    <2>3. \A g \in Gens : SameButQueue(g)
      BY <2>2, Delivering, Types
    <2> QED BY <2>2, <2>3 DEF StillManager, SameButQueue, Quiet, Lives
  <1>2. CASE Settles
    BY <1>2, Settling DEF Quiet, Lives
  <1>3. CASE \E g \in Gens : LoopStep(g)
    <2>1. PICK g \in Gens : LoopStep(g)
      BY <1>3
    <2>2. CASE Receive(g)
      BY <2>2, Receiving DEF StillWorld, world, Quiet, Lives, Others
    <2>3. CASE Handle(g)
      <3>1. /\ StillWorld /\ Others(g) /\ lw'[g].arm = lw[g].arm /\ lw'[g].cancelled = lw[g].cancelled
            /\ lw[g].event \in Asked /\ handleEvent(g, lw[g].event, "loop")
        BY <2>3, HandlingOne
      <3>2. flights' = IF NewDir(lw[g].event) /\ generationCurrent(g)
                       THEN flights \cup {DirScan(g, lw[g].event, "loop")} ELSE flights
        BY <3>1, Types, Handling
      <3>3. DirScan(g, lw[g].event, "loop").gen = g
        BY DEF DirScan
      <3> QED BY <3>1, <3>2, <3>3 DEF StillWorld, world, Quiet, Lives, Others
    <2>4. CASE MarkDirty(g)
      BY <2>4, Marking DEF StillWorld, world, Quiet, Lives, Others
    <2>5. CASE Exit(g)
      BY <2>5, Exiting DEF StillWorld, world, Quiet, Lives, Others
    <2> QED BY <2>1, <2>2, <2>3, <2>4, <2>5 DEF LoopStep
  <1>4. CASE \E g \in Gens : TimerStep(g)
    <2>1. PICK g \in Gens : TimerStep(g)
      BY <1>4
    <2>2. CASE AdmitEdits(g)
      BY <2>2, AdmittingEdits DEF StillWorld, world, Quiet, Lives, Others
    <2>3. CASE TakeEdits(g)
      <3>1. /\ StillWorld /\ Others(g) /\ lw'[g].arm = lw[g].arm /\ lw'[g].cancelled = lw[g].cancelled
            /\ \E ps \in SUBSET Paths :
                 flights' = flights \/ (flights' = flights \cup {TimerFlight("edit", g, ps)}
                                        /\ generationCurrent(g))
        BY <2>3, TakingEdits
      <3>2. \A ps : TimerFlight("edit", g, ps).gen = g
        BY DEF TimerFlight
      <3> QED BY <3>1, <3>2 DEF StillWorld, world, Quiet, Lives, Others
    <2> QED BY <2>1, <2>2, <2>3 DEF TimerStep
  <1>5. CASE \E k \in Kinds : BatchStep(k)
    <2>1. PICK k \in Kinds : BatchStep(k)
      BY <1>5
    <2>2. CASE Admit(k)
      BY <2>2, Admitting DEF StillWorld, world, Quiet, Lives
    <2>3. CASE Take(k)
      <3>1. /\ StillWorld /\ lw' = lw /\ batch[k].gen \in Gens
            /\ \E ps \in SUBSET Paths :
                 flights' = flights \/ (flights' = flights \cup {TimerFlight(k, batch[k].gen, ps)}
                                        /\ generationCurrent(batch[k].gen))
        BY <2>3, Taking
      <3>2. \A ps : TimerFlight(k, batch[k].gen, ps).gen = batch[k].gen
        BY DEF TimerFlight
      <3> QED BY <3>1, <3>2 DEF StillWorld, world, Quiet, Lives
    <2> QED BY <2>1, <2>2, <2>3 DEF BatchStep
  <1>6. CASE \E f \in flights : Insert(f)
    BY <1>6, Inserting DEF world, Quiet, Lives
  <1>7. CASE \E s \in Scans : ScanStep(s)
    <2>1. PICK s \in Scans : ScanStep(s)
      BY <1>7
    <2>2. CASE Pause(s)
      BY <2>2, Pausing DEF StillScan, world, SameMgr, SameButDepth, Quiet, Lives
    <2>3. CASE Resume(s)
      BY <2>3, Resuming DEF StillScan, world, SameMgr, SameButDepth, Quiet, Lives
    <2>4. CASE TakePaused(s)
      BY <2>4, TakingPaused DEF StillScan, world, Quiet, Lives, Others
    <2>5. CASE SwapDirty(s)
      BY <2>5, Swapping DEF StillScan, world, Quiet, Lives, Others
    <2>6. CASE \E p \in Paths : Replay(s, p)
      <3>1. PICK p \in Paths : Replay(s, p)
        BY <2>6
      <3> DEFINE g == scan[s].gen
                 e == Replayed(s, p)
      <3>2. /\ StillScan /\ mgr' = mgr /\ g \in Gens /\ e \in Asked /\ handleEvent(g, e, "resume") /\ Others(g)
            /\ lw'[g].arm = lw[g].arm /\ lw'[g].cancelled = lw[g].cancelled
        BY <3>1, Replaying
      <3>3. flights' = IF NewDir(e) /\ generationCurrent(g)
                       THEN flights \cup {DirScan(g, e, "resume")} ELSE flights
        BY <3>2, Types, Handling
      <3>4. DirScan(g, e, "resume").gen = g
        BY DEF DirScan
      <3> HIDE DEF e
      <3> QED BY <3>2, <3>3, <3>4 DEF StillScan, world, Quiet, Lives, Others
    <2> QED BY <2>1, <2>2, <2>3, <2>4, <2>5, <2>6 DEF ScanStep
  <1> QED BY <1>1, <1>2, <1>3, <1>4, <1>5, <1>6, <1>7

\* A walk leaves the generations as they are.
LEMMA WalkFlights ==
  ASSUME Shape, FlightsFit, NEW g \in Gens, WalkActs(g)
  PROVE  FlightsFit'
  <1>1. /\ StillWalking /\ Others(g) /\ Walks(g) /\ mgr'.gen = mgr.gen /\ mgr'.stopped = mgr.stopped
    BY Walking
  <1>2. lw[g].cancelled => lw'[g].cancelled
    BY <1>1 DEF Walks
  <1>3. \A f \in flights : f.gen \in Gens
    BY Types DEF Flights
  <1> QED BY <1>1, <1>2, <1>3 DEF FlightsFit, StillWalking, Others, generationCurrent

\* The reconciler ends a generation, and joins what it has on its way.
LEMMA KeeperFlights ==
  ASSUME Shape, Control, Dormant, FlightsFit, KeeperStep
  PROVE  FlightsFit'
  <1>0. \A f \in flights : f.gen \in Gens /\ lw[f.gen].arm = "live"
    <2>1. \A f \in flights : f.gen \in Gens
      BY Types DEF Flights
    <2> QED BY <2>1, Awake
  <1>1. ASSUME NEW why \in {"sync", "unwatch", "stop"}, Invalidate(why)
        PROVE  FlightsFit'
    <2>1. /\ flights' = flights /\ lw' = lw /\ keeper.pc = "idle"
          /\ keeper'.pc = "drain" /\ keeper'.gen = mgr.watcher
      BY <1>1, Invalidating DEF StillKeeping
    <2>2. \A f \in flights : generationCurrent(f.gen) => mgr.watcher = f.gen
      BY <1>0 DEF Control, OneLive
    <2> QED BY <2>1, <2>2 DEF FlightsFit
  <1>2. ASSUME NEW f \in flights, Busy
        PROVE  ~generationCurrent(f.gen)
    BY <1>0, <1>2 DEF Control, NewGeneration, generationCurrent
  <1>3. ASSUME NEW to \in {"cancel", "wait"}, KeeperGoes(to), Busy, flights' = flights,
               \A g \in Gens : lw[g].cancelled => lw'[g].cancelled
        PROVE  FlightsFit'
    BY <1>0, <1>2, <1>3 DEF FlightsFit, KeeperGoes
  <1>4. CASE Drain
    <2>1. /\ flights' = flights /\ keeper.pc = "drain" /\ KeeperGoes("cancel") /\ Others(keeper.gen)
          /\ keeper.gen \in Gens => lw'[keeper.gen].cancelled
      BY <1>4, DrainingOld DEF StillKeeping
    <2> QED BY <1>3, <2>1 DEF Others, Busy
  <1>5. CASE cancelPendingEnqueues
    <2>1. flights' = flights /\ keeper.pc = "cancel" /\ KeeperGoes("wait") /\ lw' = lw
      BY <1>5, Cancelling DEF StillKeeping
    <2> QED BY <1>3, <2>1 DEF Busy
  <1>6. CASE Wait
    <2>1. /\ flights' = flights /\ keeper.pc = "wait" /\ KeeperGoes("drain2") /\ lw' = lw
          /\ \A f \in flights : f.gen = keeper.gen => f.by = "resume"
      BY <1>6, Waiting DEF StillKeeping
    <2>2. keeper.gen \in Gens => lw[keeper.gen].cancelled
      BY <2>1 DEF Control, GivenUp
    <2> QED BY <1>0, <1>2, <2>1, <2>2 DEF FlightsFit, Busy
  <1>7. \/ ~(keeper.pc \in {"drain2", "arm"})
        \/ \A f \in flights : f.by = "resume" /\ lw[f.gen].cancelled
    BY <1>2 DEF FlightsFit, Busy
  <1>8. CASE DrainAgain
    <2>1. /\ flights' = flights /\ keeper.pc = "drain2" /\ Others(keeper.gen)
          /\ keeper.gen \in Gens => lw'[keeper.gen].cancelled = lw[keeper.gen].cancelled
      BY <1>8, DrainingTwice DEF StillKeeping
    <2> QED BY <1>0, <1>7, <2>1 DEF FlightsFit, Others
  <1>9. CASE Finish
    <2>1. (~mgr.stopped => mgr.gen \in Gens) /\ (keeper.why = "sync" => ~mgr.stopped)
      BY <1>9 DEF Finish, Control, NewGeneration, Busy, Purposes
    <2>2. /\ flights' = flights /\ keeper.pc = "arm" /\ \A g \in Gens : lw'[g].cancelled = lw[g].cancelled
      BY <1>9, <2>1, Finishing DEF StillKeeping
    <2> QED BY <1>0, <1>7, <2>2 DEF FlightsFit
  <1> QED BY <1>1, <1>4, <1>5, <1>6, <1>8, <1>9 DEF KeeperStep

-----------------------------------------------------------------------------
(***************************************************************************)
(* The two invariants.                                                     *)
(***************************************************************************)
IInv == Shape /\ Control /\ Dormant /\ FlightsFit /\ NothingLate

\* A watcher as it is before anything has happened.
LEMMA Blank ==
  /\ NoWatcher \in Watchers
  /\ NoWatcher.arm = "none" /\ ~NoWatcher.cancelled /\ NoWatcher.loop = "off" /\ NoWatcher.event = NoEvent
  /\ NoWatcher.timer = "none" /\ NoWatcher.edits = {} /\ NoWatcher.paused = NothingToReplay /\ ~NoWatcher.dirty
  <1>1. NothingToReplay \in [Paths -> SUBSET Ops] /\ << >> \in Seq(Events)
    BY DEF NothingToReplay
  <1>2. NoWatcher =
          [arm |-> "none", cancelled |-> FALSE, depth |-> 0, dirty |-> FALSE,
           paused |-> NothingToReplay, edits |-> {}, timer |-> "none",
           queue |-> << >>, overflow |-> FALSE, loop |-> "off", event |-> NoEvent]
    BY DEF NoWatcher, NothingToReplay
  <1> HIDE DEF NothingToReplay
  <1> QED BY <1>1, <1>2 DEF Watchers, Ops

\* The invariants hold to begin with.
LEMMA Initially == Init => IInv
  <1> SUFFICES ASSUME Init PROVE IInv
    OBVIOUS
  <1>0. 0 \in 0..MaxGen /\ 0 \notin Gens /\ NothingToReplay \in [Paths -> SUBSET Ops]
    BY BoundsAssumption DEF Gens, NothingToReplay
  <1>1. TypeOK
    <2>1. mgr \in MgrRecords /\ keeper \in KeeperRecords
      BY <1>0 DEF Init, MgrRecords, KeeperRecords
    <2>2. batch \in [Kinds -> Batches]
      BY <1>0 DEF Init, NoBatch, Batches, Timing
    <2>3. scan \in [Scans -> ScanRecords]
      <3> HIDE DEF NothingToReplay
      <3> QED BY <1>0 DEF Init, ScanRecords
    <2>4. lw \in [Gens -> Watchers]
      BY Blank DEF Init
    <2>5. /\ disk \in [Paths -> {"none", "user", "heya"}] /\ record \in [Sidecars -> {"none", "due", "kept"}]
          /\ lib \in [watch : BOOLEAN, exists : BOOLEAN] /\ flights \in SUBSET Flights
          /\ left \in [LimitNames -> Nat]
      BY LimitsAssumption DEF Init
    <2>6. ghost \in [owed : SUBSET Paths, merged : SUBSET Paths, late : BOOLEAN]
      BY DEF Init
    <2> QED BY <2>1, <2>2, <2>3, <2>4, <2>5, <2>6
      DEF TypeOK, MgrRecords, Batches, Timing, KeeperRecords, ScanRecords, Ops
  <1>2. LoopsFit /\ InsertsFit /\ ScansFit /\ BatchesFit
    BY Blank DEF Init, LoopsFit, InsertsFit, ScansFit, BatchesFit, NoBatch
  <1>3. Control
    BY <1>0, Blank DEF Init, Control, FreshWatcher, NewGeneration, GivenUp, Unborn, Purposes, OneLive, Busy
  <1>4. Dormant
    BY <1>0, Blank DEF Init, Dormant, Asleep, NoBatch
  <1>5. FlightsFit /\ NothingLate
    BY DEF Init, FlightsFit, NothingLate
  <1> QED BY <1>1, <1>2, <1>3, <1>4, <1>5 DEF IInv, Shape

\* Nothing is asked for after its generation has been joined: what still is on
\* its way then is a scan's, and its insert fails.
LEMMA LateStep ==
  ASSUME IInv, Next
  PROVE  NothingLate'
  <1>0. Shape /\ FlightsFit /\ ~ghost.late
    BY DEF IInv, NothingLate
  <1>1. CASE \E f \in flights : Insert(f)
    <2>1. PICK f \in flights : Insert(f)
      BY <1>1
    <2>2. \/ ghost'.late = ghost.late
          \/ /\ ghost'.late = (ghost.late \/ Joined(f.gen))
             /\ f.kind = "rescan" \/ ~lw[f.gen].cancelled
      BY <1>0, <2>1, Inserting
    <2>3. Joined(f.gen) => f.by = "resume" /\ lw[f.gen].cancelled
      BY <1>0 DEF FlightsFit, Joined
    <2>4. f.by = "resume" => f.kind # "rescan"
      BY <1>0 DEF Shape, InsertsFit
    <2> QED BY <1>0, <2>2, <2>3, <2>4 DEF NothingLate
  <1>2. ASSUME ghost' = ghost
        PROVE  NothingLate'
    BY <1>0, <1>2 DEF NothingLate
  <1>3. ASSUME ghost'.late = ghost.late
        PROVE  NothingLate'
    BY <1>0, <1>3 DEF NothingLate
  <1>4. CASE \E p \in Paths : ChangeStep(p)
    BY <1>0, <1>3, <1>4, Changing DEF ChangeStep, Changed
  <1>5. CASE Settles
    BY <1>0, <1>2, <1>5, Settling
  <1>6. CASE \E g \in Gens : LoopStep(g)
    <2>1. PICK g \in Gens : LoopStep(g)
      BY <1>6
    <2>2. CASE Receive(g)
      <3>1. ghost' = ghost \/ ghost' = [ghost EXCEPT !.merged = @ \cup Mixed(lw'[g], Head(lw[g].queue))]
        BY <1>0, <2>2, Receiving
      <3>2. ghost'.late = ghost.late
        BY <1>0, <3>1, Types DEF Notes
      <3> QED BY <1>3, <3>2
    <2> QED BY <1>0, <1>2, <2>1, <2>2, HandlingOne, Marking, Exiting DEF LoopStep
  <1>7. CASE \E g \in Gens : TimerStep(g)
    BY <1>0, <1>2, <1>7, AdmittingEdits, TakingEdits DEF TimerStep
  <1>8. CASE \E g \in Gens : WalkActs(g)
    BY <1>0, <1>2, <1>8, Walking DEF StillWalking
  <1>9. CASE \E k \in Kinds : BatchStep(k)
    BY <1>0, <1>2, <1>9, Admitting, Taking DEF BatchStep
  <1>10. CASE \E s \in Scans : ScanStep(s)
    BY <1>0, <1>2, <1>10, Pausing, Resuming, TakingPaused, Swapping, Replaying DEF ScanStep
  <1>11. CASE KeeperStep
    <2>1. ghost'.late = ghost.late
      <3>1. ASSUME NEW why \in {"sync", "unwatch", "stop"}, Invalidate(why)
            PROVE  ghost'.late = ghost.late
        BY <1>0, <3>1, Invalidating
      <3>2. CASE Drain \/ cancelPendingEnqueues \/ Wait \/ DrainAgain \/ Finish
        BY <3>2 DEF Drain, cancelPendingEnqueues, Wait, DrainAgain, Finish
      <3> QED BY <1>11, <3>1, <3>2 DEF KeeperStep
    <2> QED BY <1>3, <2>1
  <1> QED BY <1>1, <1>4, <1>5, <1>6, <1>7, <1>8, <1>9, <1>10, <1>11, StepsOfNext

\* They are about the variables alone.
LEMMA Stutter == IInv /\ UNCHANGED vars => IInv'
  BY DEF vars, IInv, Shape, TypeOK, LoopsFit, InsertsFit, ScansFit, BatchesFit, Control, FreshWatcher,
    NewGeneration, GivenUp, Unborn, Purposes, OneLive, Dormant, Asleep, FlightsFit, NothingLate,
    generationCurrent, Busy

\* Every step keeps them.
LEMMA Inductive == IInv /\ [Next]_vars => IInv'
  <1> SUFFICES ASSUME IInv, Next PROVE IInv'
    BY Stutter
  <1>0. Shape /\ Control /\ Dormant /\ FlightsFit
    BY DEF IInv
  <1>1. NothingLate'
    BY LateStep
  <1>2. CASE \/ \E p \in Paths : ChangeStep(p)
             \/ Settles
             \/ \E g \in Gens : LoopStep(g) \/ TimerStep(g)
             \/ \E k \in Kinds : BatchStep(k)
             \/ \E f \in flights : Insert(f)
             \/ \E s \in Scans : ScanStep(s)
    <2>1. Control' /\ FlightsFit'
      BY <1>0, <1>2, QuietSteps, QuietControl, QuietFlights
    <2>2. Shape'
      BY <1>0, <1>2, ChangeShape, SettleShape, LoopShape, TimerShape, BatchShape, InsertShape, ScanShape
    <2>3. Dormant'
      <3>1. CASE \E p \in Paths : ChangeStep(p)
        <4>1. PICK p \in Paths : ChangeStep(p)
          BY <3>1
        <4>2. StillManager /\ \E op \in Ops : Deliver(p, op)
          BY <1>0, <4>1, Changing DEF ChangeStep
        <4>3. \A g \in Gens : SameButQueue(g)
          BY <1>0, <4>2, Delivering, Types
        <4> QED BY <1>0, <4>2, <4>3, Sleeping DEF StillManager, SameButQueue, SleepsOn
      <3>2. CASE Settles
        BY <1>0, <3>2, Settling, Sleeping DEF SleepsOn
      <3> QED BY <1>0, <1>2, <3>1, <3>2, LoopDormant, TimerDormant, BatchDormant, InsertDormant, ScanDormant
    <2> QED BY <1>1, <2>1, <2>2, <2>3 DEF IInv
  <1>3. CASE \E g \in Gens : WalkActs(g)
    <2>1. PICK g \in Gens : WalkActs(g)
      BY <1>3
    <2>2. lw[g].arm = "walked" => lw[g].loop = "off"
      BY <1>0 DEF Dormant, Asleep
    <2> QED BY <1>0, <1>1, <2>1, <2>2, WalkShape, WalkControl, WalkDormant, WalkFlights DEF IInv
  <1>4. CASE KeeperStep
    BY <1>0, <1>1, <1>4, KeeperShape, KeeperControl, KeeperDormant, KeeperFlights DEF IInv
  <1> QED BY <1>2, <1>3, <1>4, StepsOfNext

\* TypeOK holds of every reachable state of a library's watcher.
THEOREM TypeCorrect == Spec => []TypeOK
  <1>1. IInv => TypeOK
    BY DEF IInv, Shape
  <1> QED BY <1>1, Initially, Inductive, PTL DEF Spec

\* NothingLate: once a generation has been joined, nothing is asked for on its
\* behalf, however its timers, its loop and the scans' replays were overtaken.
THEOREM NothingAfterTheJoin == Spec => []NothingLate
  <1>1. IInv => NothingLate
    BY DEF IInv
  <1> QED BY <1>1, Initially, Inductive, PTL DEF Spec

-----------------------------------------------------------------------------
(***************************************************************************)
(* Where a change that is owed can be.                                     *)
(***************************************************************************)
Present(p) == disk[p] # "none"
\* What is noted of a path says whether it is there.
Fits(p, ops) == "remove" \in ops <=> ~Present(p)
Queued(g, p) == \E i \in 1..Len(lw[g].queue) : lw[g].queue[i].path = p
\* The last event of the path in the queue.
Newest(g, p) ==
  \E i \in 1..Len(lw[g].queue) :
    /\ lw[g].queue[i].path = p /\ Fits(p, lw[g].queue[i].ops)
    /\ \A j \in 1..Len(lw[g].queue) : j > i => lw[g].queue[j].path # p
InHand(g, p) == ~Queued(g, p) /\ lw[g].event.path = p /\ Fits(p, lw[g].event.ops)
Noted(g, p) == lw[g].paused[p] # {} /\ Fits(p, lw[g].paused[p])
Replays(g, p) ==
  \E s \in Scans : scan[s].gen = g /\ scan[s].todo[p] # {} /\ Fits(p, scan[s].todo[p])
Debounced(g, p) == Present(p) /\ p \in lw[g].edits
InBatch(g, p) ==
  \/ ~Present(p) /\ batch["soft"].gen = g /\ p \in batch["soft"].paths
  \/ batch["side"].gen = g /\ p \in batch["side"].paths
SetOut(p) ==
  \E f \in flights :
    /\ p \in f.paths
    /\ \/ f.kind = "side" \/ (f.kind = "soft" /\ ~Present(p))
       \/ (f.kind \in {"edit", "dir"} /\ Present(p))
Somewhere(g, p) ==
  Noted(g, p) \/ Replays(g, p) \/ Debounced(g, p) \/ InBatch(g, p) \/ SetOut(p)
\* All events of the path have been handled, and left it somewhere.
Kept(g, p) == ~Queued(g, p) /\ lw[g].event.path # p /\ Somewhere(g, p)
\* A scan of everything is due.
OnWhole(g) ==
  \/ batch["rescan"].gen = g /\ batch["rescan"].timer # "none"
  \/ \E f \in flights : f.kind = "rescan"
Whole(g) == lw[g].overflow \/ lw[g].dirty \/ OnWhole(g)
Followed(g, p) == Whole(g) \/ Newest(g, p) \/ InHand(g, p) \/ Kept(g, p)

\* Nothing is written to a directory.
Unwritten(ops) == "write" \notin ops
WatchesUnwritten(l) ==
  /\ \A p \in Dirs : Unwritten(l.paused[p])
  /\ \A i \in 1..Len(l.queue) : l.queue[i].path \in Dirs => Unwritten(l.queue[i].ops)
  /\ l.event.path \in Dirs => Unwritten(l.event.ops)
DirsUnwritten ==
  /\ \A g \in Gens : WatchesUnwritten(lw[g])
  /\ \A s \in Scans : \A p \in Dirs : Unwritten(scan[s].todo[p])
\* Changes are owed by a registered watcher that sees them, and Heya's own bytes
\* are not.
OwedFits ==
  /\ ghost.owed # {} => \E g \in Gens : mgr.watcher = g /\ lw[g].arm \in {"walked", "live"}
  /\ \A p \in ghost.owed : disk[p] # "heya"
\* A path kept with its creation and its removal has been merged.
Both == {"create", "remove"}
MergedKnown ==
  \A g \in Gens : mgr.watcher = g =>
    /\ \A p \in Paths : Both \subseteq lw[g].paused[p] => p \in ghost.merged
    /\ \A s \in Scans : scan[s].gen = g => \A p \in Paths : Both \subseteq scan[s].todo[p] => p \in ghost.merged
Tracking ==
  \A g \in Gens : mgr.watcher = g => \A p \in ghost.owed \ ghost.merged : Followed(g, p)
Tracks == DirsUnwritten /\ OwedFits /\ MergedKnown /\ Tracking

\* The invariant is what the run checks.
LEMMA TracksImply == IInv /\ Tracks => ChangeTracked
  <1> SUFFICES ASSUME IInv, Tracks, NEW p \in ghost.owed \ ghost.merged
               PROVE  Tracked(p)
    BY DEF ChangeTracked
  <1>0. Shape
    BY DEF IInv
  <1>1. PICK g \in Gens : mgr.watcher = g
    BY DEF Tracks, OwedFits
  <1>2. g # 0 /\ Followed(g, p)
    BY <1>1, BoundsAssumption DEF Tracks, Tracking, Gens
  <1>3. {"soft", "side", "rescan"} = Kinds
    BY DEF Kinds
  <1>4. CASE Whole(g)
    BY <1>1, <1>2, <1>3, <1>4 DEF Whole, OnWhole, Tracked
  <1>5. CASE Newest(g, p)
    BY <1>1, <1>2, <1>5 DEF Newest, Tracked
  <1>6. CASE InHand(g, p)
    BY <1>1, <1>2, <1>6 DEF InHand, Tracked
  <1>7. CASE Kept(g, p)
    BY <1>1, <1>2, <1>3, <1>7 DEF Kept, Somewhere, Noted, Replays, Debounced, InBatch, SetOut, Tracked
  <1> QED BY <1>2, <1>4, <1>5, <1>6, <1>7 DEF Followed

-----------------------------------------------------------------------------
(***************************************************************************)
(* What moves and what stays.                                              *)
(***************************************************************************)
\* The registered watcher is the current one.
LEMMA Registered ==
  ASSUME IInv, NEW g \in Gens, mgr.watcher = g
  PROVE  generationCurrent(g) /\ ~Busy /\ ~lw[g].cancelled /\ Shape
  BY BoundsAssumption DEF IInv, Control, FreshWatcher, generationCurrent, Gens

\* What the current generation batches takes nothing out of its batches.
BatchKept(g) ==
  \A k \in Kinds :
    batch[k].gen = g => /\ batch'[k].gen = g /\ batch[k].paths \subseteq batch'[k].paths
                        /\ batch[k].timer # "none" => batch'[k].timer # "none"

\* Only the current generation adds to a batch, and it replaces those of others.
LEMMA GrownKeeps ==
  ASSUME IInv, NEW g \in Gens, mgr.watcher = g, NEW h \in Gens, Grown(h)
  PROVE  BatchKept(g)
  <1>1. generationCurrent(h) => h = g
    BY Registered DEF generationCurrent
  <1> QED BY <1>1 DEF Grown, BatchKept

\* What is somewhere stays there when nothing is taken out.
LEMMA Staying ==
  ASSUME NEW g \in Gens, NEW p \in Paths, disk'[p] = disk[p],
         lw'[g].paused[p] = lw[g].paused[p], lw[g].edits \subseteq lw'[g].edits,
         \A s \in Scans : scan[s].gen = g /\ scan[s].todo[p] # {} =>
                            scan'[s].gen = g /\ scan'[s].todo[p] = scan[s].todo[p],
         BatchKept(g), flights \subseteq flights'
  PROVE  (Somewhere(g, p) => Somewhere(g, p)') /\ (OnWhole(g) => OnWhole(g)')
  <1>1. {"soft", "side", "rescan"} \subseteq Kinds
    BY DEF Kinds
  <1>2. OnWhole(g) => OnWhole(g)'
    BY <1>1 DEF OnWhole, BatchKept
  <1>3. Noted(g, p) => Noted(g, p)'
    BY DEF Noted, Fits, Present
  <1>4. Replays(g, p) => Replays(g, p)'
    BY DEF Replays, Fits, Present
  <1>5. Debounced(g, p) => Debounced(g, p)'
    BY DEF Debounced, Present
  <1>6. InBatch(g, p) => InBatch(g, p)'
    BY <1>1 DEF InBatch, BatchKept, Present
  <1>7. SetOut(p) => SetOut(p)'
    BY DEF SetOut, Present
  <1> QED BY <1>2, <1>3, <1>4, <1>5, <1>6, <1>7 DEF Somewhere

\* A path is followed on while its events stay where they are.
LEMMA Following ==
  ASSUME NEW g \in Gens, NEW p \in Paths, disk'[p] = disk[p],
         lw'[g].queue = lw[g].queue,
         \/ lw'[g].event = lw[g].event
         \/ lw[g].event.path # p /\ lw'[g].event.path # p,
         Whole(g) => Whole(g)',
         Somewhere(g, p) => Somewhere(g, p)' \/ Whole(g)',
         Followed(g, p)
  PROVE  Followed(g, p)'
  <1>1. Queued(g, p)' <=> Queued(g, p)
    BY DEF Queued
  <1>2. Newest(g, p) => Newest(g, p)'
    BY DEF Newest, Fits, Present
  <1>3. InHand(g, p) => InHand(g, p)'
    BY <1>1 DEF InHand, Fits, Present
  <1>4. Kept(g, p) => Kept(g, p)' \/ Whole(g)'
    BY <1>1 DEF Kept
  <1> QED BY <1>2, <1>3, <1>4 DEF Followed

\* An event that tells the truth leaves its path somewhere.
LEMMA Landing ==
  ASSUME IInv, NEW g \in Gens, mgr.watcher = g, NEW e \in Asked, NEW by \in {"loop", "resume"},
         handleEvent(g, e, by), e.ops # {}, Fits(e.path, e.ops), ~(Both \subseteq e.ops),
         e.path \in Dirs => "write" \notin e.ops,
         disk' = disk, Edited(e) => e.path \in lw'[g].edits
  PROVE  Somewhere(g, e.path)' \/ OnWhole(g)'
  <1>0. Shape /\ TypeOK /\ generationCurrent(g)
    BY Registered, Types
  <1>1. e.path \in Paths /\ e.ops \in SUBSET Ops
    BY DEF Asked
  <1>2. CASE ~Present(e.path)
    <2>1. "remove" \in e.ops /\ "create" \notin e.ops
      BY <1>2 DEF Fits, Both
    <2>2. Gone(e)
      BY <2>1 DEF Gone, Vanished, NewDir
    <2>3. /\ e.path \in Media => batch'["soft"].gen = g /\ e.path \in batch'["soft"].paths
          /\ e.path \in Sidecars => batch'["side"].gen = g /\ e.path \in batch'["side"].paths
          /\ e.path \in Dirs => batch'["rescan"].gen = g /\ batch'["rescan"].timer = "armed"
      BY <1>0, <2>2, Handling
    <2>4. ~Present(e.path)'
      BY <1>2 DEF Present
    <2>5. CASE e.path \in Dirs
      BY <2>3, <2>5 DEF OnWhole
    <2>6. CASE e.path \in Media \cup Sidecars
      <3>1. InBatch(g, e.path)'
        BY <2>3, <2>4, <2>6 DEF InBatch
      <3> QED BY <3>1 DEF Somewhere
    <2> QED BY <1>1, <2>5, <2>6 DEF Paths
  <1>3. CASE Present(e.path)
    <2>1. "remove" \notin e.ops /\ Present(e.path)'
      BY <1>3 DEF Fits, Present
    <2>2. CASE e.path \in Dirs
      <3>1. "create" \in e.ops
        BY <1>1, <2>1, <2>2 DEF Ops
      <3>2. NewDir(e)
        BY <1>3, <2>2, <3>1 DEF NewDir, Present
      <3>3. DirScan(g, e, by) \in flights'
        BY <1>0, <3>2, Handling
      <3>4. DirScan(g, e, by).kind = "dir" /\ e.path \in DirScan(g, e, by).paths
        BY DEF DirScan
      <3>5. SetOut(e.path)'
        BY <2>1, <3>3, <3>4 DEF SetOut
      <3> QED BY <3>5 DEF Somewhere
    <2>3. CASE e.path \notin Dirs
      <3>1. Edited(e)
        BY <1>3, <2>1, <2>3 DEF Edited, Vanished, NewDir, Gone, Present
      <3>2. Debounced(g, e.path)'
        BY <2>1, <3>1 DEF Debounced
      <3> QED BY <3>2 DEF Somewhere
    <2> QED BY <2>2, <2>3
  <1> QED BY <1>2, <1>3

-----------------------------------------------------------------------------
(***************************************************************************)
(* Nothing is written to a directory.                                      *)
(***************************************************************************)
\* What is left of a queue when its head has been received.
LEMMA TailOf ==
  ASSUME NEW q \in Seq(Events), q # << >>
  PROVE  /\ 1 \in 1..Len(q) /\ q[1] = Head(q) /\ Head(q) \in Events
         /\ Tail(q) \in Seq(Events) /\ Len(Tail(q)) = Len(q) - 1
         /\ \A i \in 1..Len(Tail(q)) : i + 1 \in 1..Len(q) /\ Tail(q)[i] = q[i + 1]
         /\ \A i \in 1..Len(q) : i # 1 => i - 1 \in 1..Len(Tail(q)) /\ Tail(q)[i - 1] = q[i]
  <1>1. Len(q) \in Nat /\ Len(q) # 0
    OBVIOUS
  <1>2. Len(Tail(q)) = Len(q) - 1 /\ Tail(q) \in Seq(Events) /\ q[1] = Head(q) /\ Head(q) \in Events
    OBVIOUS
  <1>3. \A i \in 1..Len(Tail(q)) : i + 1 \in 1..Len(q) /\ Tail(q)[i] = q[i + 1]
    BY <1>1, <1>2
  <1>4. \A i \in 1..Len(q) : i # 1 => i - 1 \in 1..Len(Tail(q)) /\ Tail(q)[i - 1] = q[i]
    <2> SUFFICES ASSUME NEW i \in 1..Len(q), i # 1
                 PROVE  i - 1 \in 1..Len(Tail(q)) /\ Tail(q)[i - 1] = q[i]
      OBVIOUS
    <2>1. i - 1 \in 1..Len(Tail(q)) /\ (i - 1) + 1 = i
      BY <1>1, <1>2
    <2> QED BY <1>3, <2>1
  <1> QED BY <1>1, <1>2, <1>3, <1>4

\* What a queue has when an event has been appended.
LEMMA AppendTo ==
  ASSUME NEW q \in Seq(Events), NEW e \in Events
  PROVE  /\ Len(q) \in Nat /\ Len(Append(q, e)) = Len(q) + 1
         /\ Append(q, e)[Len(q) + 1] = e
         /\ \A i \in 1..Len(q) : Append(q, e)[i] = q[i]
         /\ \A i \in 1..Len(Append(q, e)) : i \in 1..Len(q) \/ i = Len(q) + 1
  OBVIOUS

\* It stays so as long as nothing new is queued, kept or replayed.
LEMMA UnwrittenStays ==
  ASSUME DirsUnwritten,
         \A g \in Gens :
           /\ lw'[g].paused \in {lw[g].paused, NothingToReplay}
           /\ lw'[g].queue \in {lw[g].queue, << >>}
           /\ lw'[g].event \in {lw[g].event, NoEvent},
         \A s \in Scans : \A p \in Paths :
           scan'[s].todo[p] = scan[s].todo[p] \/ scan'[s].todo[p] = {}
  PROVE  DirsUnwritten'
  <1>1. NoEvent.path \notin Dirs
    BY PathsAssumption DEF NoEvent
  <1>2. \A p \in Dirs : p \in Paths /\ Unwritten(NothingToReplay[p]) /\ Unwritten({})
    BY DEF NothingToReplay, Unwritten, Paths
  <1>3. ASSUME NEW g \in Gens
        PROVE  WatchesUnwritten(lw'[g])
    <2>1. WatchesUnwritten(lw[g])
      BY DEF DirsUnwritten
    <2>2. \A p \in Dirs : Unwritten(lw'[g].paused[p])
      BY <1>2, <2>1 DEF WatchesUnwritten
    <2>3. \A i \in 1..Len(lw'[g].queue) : lw'[g].queue[i].path \in Dirs => Unwritten(lw'[g].queue[i].ops)
      <3>1. CASE lw'[g].queue = lw[g].queue
        BY <2>1, <3>1 DEF WatchesUnwritten
      <3>2. CASE lw'[g].queue = << >>
        BY <3>2
      <3> QED BY <3>1, <3>2
    <2>4. lw'[g].event.path \in Dirs => Unwritten(lw'[g].event.ops)
      BY <1>1, <2>1 DEF WatchesUnwritten
    <2> QED BY <2>2, <2>3, <2>4 DEF WatchesUnwritten
  <1>4. \A s \in Scans : \A p \in Dirs : Unwritten(scan'[s].todo[p])
    BY <1>2 DEF DirsUnwritten
  <1> QED BY <1>3, <1>4 DEF DirsUnwritten

\* The world writes to files only.
LEMMA ChangeUnwritten ==
  ASSUME Shape, DirsUnwritten, NEW p \in Paths, ChangeStep(p)
  PROVE  DirsUnwritten'
  <1>1. PICK op \in Ops : Deliver(p, op) /\ Changed(p, op) /\ scan' = scan
    BY Changing DEF ChangeStep, StillManager
  <1>2. TypeOK /\ lw \in [Gens -> Watchers]
    BY Types
  <1>3. p \in Dirs => Unwritten({op})
    BY <1>1 DEF Changed, Unwritten
  <1> DEFINE e == [path |-> p, ops |-> {op}]
  <1>4. e \in Events /\ e.path = p /\ e.ops = {op}
    BY DEF Events, Ops
  <1> HIDE DEF e
  <1>5. ASSUME NEW g \in Gens
        PROVE  WatchesUnwritten(lw'[g])
    <2>1. WatchesUnwritten(lw[g]) /\ lw[g].queue \in Seq(Events)
      BY <1>2, WatcherFields DEF DirsUnwritten
    <2>2. lw'[g].paused = lw[g].paused /\ lw'[g].event = lw[g].event
      BY <1>1, <1>2, Delivering DEF SameButQueue
    <2>3. lw'[g].queue = lw[g].queue \/ lw'[g].queue = Append(lw[g].queue, e)
      BY <1>1, <1>2, Delivering DEF e
    <2>4. \A i \in 1..Len(lw'[g].queue) : lw'[g].queue[i].path \in Dirs => Unwritten(lw'[g].queue[i].ops)
      <3>1. CASE lw'[g].queue = lw[g].queue
        BY <2>1, <3>1 DEF WatchesUnwritten
      <3>2. CASE lw'[g].queue = Append(lw[g].queue, e)
        <4> DEFINE q == lw[g].queue
        <4>1. q \in Seq(Events) /\ lw'[g].queue = Append(q, e)
          BY <2>1, <3>2
        <4>2. \A i \in 1..Len(q) : q[i].path \in Dirs => Unwritten(q[i].ops)
          BY <2>1 DEF WatchesUnwritten
        <4> HIDE DEF q
        <4>3. \A i \in 1..Len(Append(q, e)) :
                Append(q, e)[i] = e \/ (i \in 1..Len(q) /\ Append(q, e)[i] = q[i])
          BY <1>4, <4>1, AppendTo
        <4>4. \A i \in 1..Len(Append(q, e)) :
                Append(q, e)[i].path \in Dirs => Unwritten(Append(q, e)[i].ops)
          BY <1>3, <1>4, <4>2, <4>3
        <4> QED BY <4>1, <4>4
      <3> QED BY <2>3, <3>1, <3>2
    <2> QED BY <2>1, <2>2, <2>4 DEF WatchesUnwritten
  <1> QED BY <1>1, <1>5 DEF DirsUnwritten

\* A loop and a scan only pass on what they have.
LEMMA ReceiveUnwritten ==
  ASSUME Shape, DirsUnwritten, NEW g \in Gens, Receive(g)
  PROVE  DirsUnwritten'
  <1>1. lw \in [Gens -> Watchers] /\ lw[g].queue \in Seq(Events)
    BY Types, WatcherFields
  <1> DEFINE q == lw[g].queue
  <1>2. q \in Seq(Events) /\ q # << >>
    BY <1>1, Receiving
  <1>3. lw'[g].queue = Tail(q) /\ scan' = scan /\ Others(g)
    BY Receiving
  <1>4. WatchesUnwritten(lw[g])
    BY DEF DirsUnwritten
  <1>5. Head(q).path \in Dirs => Unwritten(Head(q).ops)
    BY <1>2, <1>4, TailOf DEF WatchesUnwritten
  <1>6. \A i \in 1..Len(lw'[g].queue) : lw'[g].queue[i].path \in Dirs => Unwritten(lw'[g].queue[i].ops)
    BY <1>2, <1>3, <1>4, TailOf DEF WatchesUnwritten
  <1>7. lw'[g].event.path \in Dirs => Unwritten(lw'[g].event.ops)
    BY <1>5, Receiving, PathsAssumption DEF NoEvent
  <1>8. \A p \in Dirs : Unwritten(lw'[g].paused[p])
    <2> SUFFICES ASSUME NEW p \in Dirs
                 PROVE  Unwritten(lw'[g].paused[p])
      OBVIOUS
    <2>1. p \in Paths /\ Unwritten(lw[g].paused[p]) /\ Unwritten(NothingToReplay[p])
      BY <1>4 DEF WatchesUnwritten, Paths, NothingToReplay, Unwritten
    <2>2. \/ lw'[g].paused = lw[g].paused \/ lw'[g].paused = NothingToReplay
          \/ p = Head(q).path /\ lw'[g].paused[p] = lw[g].paused[p] \cup Head(q).ops
          \/ lw'[g].paused[p] = lw[g].paused[p]
      BY <2>1, Receiving
    <2> QED BY <1>5, <2>1, <2>2 DEF Unwritten
  <1>9. WatchesUnwritten(lw'[g])
    BY <1>6, <1>7, <1>8 DEF WatchesUnwritten
  <1> QED BY <1>3, <1>9 DEF DirsUnwritten, Others

\* A scan takes over what the watcher has kept.
LEMMA TakePausedUnwritten ==
  ASSUME Shape, DirsUnwritten, NEW s \in Scans, TakePaused(s)
  PROVE  DirsUnwritten'
  <1> DEFINE g == scan[s].gen
  <1>1. g \in Gens /\ Others(g) /\ OtherScans(s) /\ scan'[s].todo = lw[g].paused
        /\ lw'[g].queue = lw[g].queue /\ lw'[g].event = lw[g].event /\ lw'[g].paused = NothingToReplay
    BY TakingPaused
  <1>2. WatchesUnwritten(lw[g])
    BY <1>1 DEF DirsUnwritten
  <1>3. \A p \in Dirs : Unwritten(NothingToReplay[p])
    BY DEF Unwritten, NothingToReplay, Paths
  <1>4. WatchesUnwritten(lw'[g])
    BY <1>1, <1>2, <1>3 DEF WatchesUnwritten
  <1>5. \A p \in Dirs : Unwritten(scan'[s].todo[p])
    BY <1>1, <1>2 DEF WatchesUnwritten
  <1> HIDE DEF g
  <1> QED BY <1>1, <1>4, <1>5 DEF DirsUnwritten, Others, OtherScans

\* All other steps keep it.
LEMMA UnwrittenStep ==
  ASSUME IInv, DirsUnwritten, Next
  PROVE  DirsUnwritten'
  <1>0. Shape /\ Control /\ lw \in [Gens -> Watchers]
    BY Types DEF IInv
  <1>1. CASE \E p \in Paths : ChangeStep(p)
    BY <1>0, <1>1, ChangeUnwritten
  <1>2. CASE Settles
    BY <1>0, <1>2, Settling, UnwrittenStays
  <1>3. CASE \E g \in Gens : LoopStep(g) \/ TimerStep(g)
    <2>1. PICK g \in Gens : LoopStep(g) \/ TimerStep(g)
      BY <1>3
    <2>2. CASE Receive(g)
      BY <1>0, <2>2, ReceiveUnwritten
    <2>3. CASE ~Receive(g)
      <3>1. scan' = scan /\ Others(g) /\ lw'[g].paused \in {lw[g].paused, NothingToReplay}
            /\ lw'[g].queue \in {lw[g].queue, << >>} /\ lw'[g].event \in {lw[g].event, NoEvent}
        BY <1>0, <2>1, <2>3, HandlingOne, Marking, Exiting, AdmittingEdits, TakingEdits
        DEF LoopStep, TimerStep
      <3>2. \A h \in Gens :
              /\ lw'[h].paused \in {lw[h].paused, NothingToReplay}
              /\ lw'[h].queue \in {lw[h].queue, << >>} /\ lw'[h].event \in {lw[h].event, NoEvent}
        BY <3>1 DEF Others
      <3> QED BY <3>1, <3>2, UnwrittenStays
    <2> QED BY <2>2, <2>3
  <1>4. CASE \E g \in Gens : WalkActs(g)
    <2>1. PICK g \in Gens : WalkActs(g)
      BY <1>4
    <2>2. scan' = scan /\ Others(g) /\ lw'[g].paused = lw[g].paused
          /\ lw'[g].queue = lw[g].queue /\ lw'[g].event = lw[g].event
      BY <1>0, <2>1, Walking DEF StillWalking, SameButArm
    <2> QED BY <2>2, UnwrittenStays DEF Others
  <1>5. CASE \E k \in Kinds : BatchStep(k)
    <2>1. lw' = lw /\ scan' = scan
      BY <1>0, <1>5, Admitting, Taking DEF BatchStep
    <2> QED BY <2>1, UnwrittenStays
  <1>6. CASE \E f \in flights : Insert(f)
    BY <1>0, <1>6, Inserting, UnwrittenStays
  <1>7. CASE \E s \in Scans : ScanStep(s)
    <2>1. PICK s \in Scans : ScanStep(s)
      BY <1>7
    <2>2. CASE TakePaused(s)
      BY <1>0, <2>2, TakePausedUnwritten
    <2>3. CASE Pause(s) \/ Resume(s)
      <3>1. OtherScans(s) /\ scan'[s].todo = scan[s].todo /\ \A g \in Gens : SameButDepth(g)
        BY <1>0, <2>3, Pausing, Resuming
      <3> QED BY <3>1, UnwrittenStays DEF OtherScans, SameButDepth
    <2>4. CASE SwapDirty(s)
      <3> DEFINE g == scan[s].gen
      <3>1. OtherScans(s) /\ scan'[s].todo = NothingToReplay /\ g \in Gens /\ Others(g)
            /\ lw'[g].paused = lw[g].paused /\ lw'[g].queue = lw[g].queue /\ lw'[g].event = lw[g].event
        BY <1>0, <2>4, Swapping
      <3>2. \A p \in Paths : NothingToReplay[p] = {}
        BY DEF NothingToReplay
      <3> HIDE DEF g
      <3> QED BY <3>1, <3>2, UnwrittenStays DEF OtherScans, Others
    <2>5. CASE \E p \in Paths : Replay(s, p)
      <3>1. PICK p \in Paths : Replay(s, p)
        BY <2>5
      <3> DEFINE g == scan[s].gen
      <3>2. OtherScans(s) /\ g \in Gens /\ Others(g)
            /\ lw'[g].paused = lw[g].paused /\ lw'[g].queue = lw[g].queue /\ lw'[g].event = lw[g].event
            /\ scan'[s].todo[p] = {} /\ \A q \in Paths \ {p} : scan'[s].todo[q] = scan[s].todo[q]
        BY <1>0, <3>1, Replaying
      <3> HIDE DEF g
      <3> QED BY <3>2, UnwrittenStays DEF OtherScans, Others
    <2> QED BY <2>1, <2>2, <2>3, <2>4, <2>5 DEF ScanStep
  <1>8. CASE KeeperStep
    <2>1. scan' = scan /\ \A g \in Gens :
            /\ lw'[g].paused \in {lw[g].paused, NothingToReplay}
            /\ lw'[g].queue = lw[g].queue /\ lw'[g].event = lw[g].event
      <3>1. CASE Finish
        <4>1. (~mgr.stopped => mgr.gen \in Gens) /\ (keeper.why = "sync" => ~mgr.stopped)
          BY <1>0, <3>1 DEF Control, NewGeneration, Busy, Purposes, Finish
        <4> QED BY <1>0, <3>1, <4>1, Finishing DEF StillKeeping
      <3>2. CASE Drain \/ DrainAgain
        <4>1. scan' = scan /\ Others(keeper.gen)
              /\ (keeper.gen \in Gens =>
                    /\ lw'[keeper.gen].paused = NothingToReplay
                    /\ lw'[keeper.gen].queue = lw[keeper.gen].queue
                    /\ lw'[keeper.gen].event = lw[keeper.gen].event)
          BY <1>0, <3>2, DrainingOld, DrainingTwice DEF StillKeeping
        <4> QED BY <4>1 DEF Others
      <3>3. CASE ~(Drain \/ DrainAgain \/ Finish)
        <4>1. lw' = lw /\ scan' = scan
          BY <1>0, <1>8, <3>3, Invalidating, Cancelling, Waiting DEF KeeperStep, StillKeeping
        <4> QED BY <4>1
      <3> QED BY <3>1, <3>2, <3>3
    <2> QED BY <2>1, UnwrittenStays
  <1> QED BY <1>1, <1>2, <1>3, <1>4, <1>5, <1>6, <1>7, <1>8, StepsOfNext


-----------------------------------------------------------------------------
(***************************************************************************)
(* Who owes, and what has been merged.                                     *)
(***************************************************************************)
\* A change leaves it owed to a watcher that saw it.
LEMMA ChangeOwed ==
  ASSUME IInv, OwedFits, NEW p \in Paths, ChangeStep(p)
  PROVE  OwedFits'
  <1>0. Shape /\ TypeOK
    BY Types DEF IInv
  <1>1. PICK op \in Ops : Deliver(p, op) /\ Changed(p, op) /\ mgr' = mgr
    BY <1>0, Changing DEF ChangeStep, StillManager
  <1>2. \A g \in Gens : lw'[g].arm = lw[g].arm
    BY <1>0, <1>1, Delivering DEF SameButQueue
  <1>3. ASSUME ghost'.owed # {}
        PROVE  \E g \in Gens : mgr'.watcher = g /\ lw'[g].arm \in {"walked", "live"}
    <2>1. CASE ghost.owed # {}
      BY <1>1, <1>2, <2>1 DEF OwedFits
    <2>2. CASE mgr.watcher \in Gens /\ Watches(mgr.watcher)
      BY <1>1, <1>2, <2>2 DEF Watches
    <2> QED BY <1>1, <1>3, <2>1, <2>2 DEF Changed
  <1>4. \A q \in ghost'.owed : disk'[q] # "heya"
    <2> SUFFICES ASSUME NEW q \in ghost'.owed
                 PROVE  disk'[q] # "heya"
      OBVIOUS
    <2>1. q \in Paths /\ (q = p \/ q \in ghost.owed)
      BY <1>1 DEF Changed
    <2>2. CASE q = p
      BY <1>1, <2>2 DEF Changed
    <2>3. CASE q # p
      BY <1>1, <2>1, <2>3 DEF Changed, OwedFits
    <2> QED BY <2>2, <2>3
  <1> QED BY <1>3, <1>4 DEF OwedFits

\* Nothing is owed while no watcher is registered.
LEMMA NoneOwed ==
  ASSUME OwedFits, mgr.watcher = 0 \/ mgr.watcher \notin Gens
  PROVE  ghost.owed = {}
  BY BoundsAssumption DEF OwedFits, Gens

\* While the reconciler works none is registered, and it registers none.
LEMMA KeeperOwes ==
  ASSUME IInv, OwedFits, KeeperStep
  PROVE  ghost'.owed = {} /\ mgr'.watcher = 0
  <1>0. Shape /\ Control
    BY DEF IInv
  <1>1. CASE \E why \in {"sync", "unwatch", "stop"} : Invalidate(why)
    BY <1>0, <1>1, Invalidating
  <1>2. CASE ~\E why \in {"sync", "unwatch", "stop"} : Invalidate(why)
    <2>1. Drain \/ cancelPendingEnqueues \/ Wait \/ DrainAgain \/ Finish
      BY <1>2 DEF KeeperStep
    <2>2. keeper.pc # "idle"
      BY <2>1 DEF Drain, cancelPendingEnqueues, Wait, DrainAgain, Finish
    <2>3. mgr.watcher = 0
      BY <1>0, <2>2 DEF Control, FreshWatcher, Busy
    <2>4. ghost' = ghost /\ mgr'.watcher = mgr.watcher
      <3>1. CASE Finish
        <4>1. (~mgr.stopped => mgr.gen \in Gens) /\ (keeper.why = "sync" => ~mgr.stopped)
          BY <1>0, <2>2 DEF Control, NewGeneration, Busy, Purposes
        <4> QED BY <1>0, <3>1, <4>1, Finishing
      <3>2. CASE ~Finish
        BY <1>0, <2>1, <3>2, DrainingOld, Cancelling, Waiting, DrainingTwice
      <3> QED BY <3>1, <3>2
    <2> QED BY <2>3, <2>4, NoneOwed
  <1> QED BY <1>1, <1>2

\* Nothing is owed to a watcher whose walk has stalled; one whose walk is done
\* stays registered until the reconciler gives it up.
LEMMA WalkOwed ==
  ASSUME IInv, OwedFits, NEW h \in Gens, WalkActs(h)
  PROVE  /\ OwedFits'
         /\ ghost' = ghost /\ (ghost.owed # {} => mgr'.watcher = mgr.watcher)
  <1>0. Shape /\ disk' = disk /\ ghost' = ghost
    BY Walking DEF IInv, StillWalking, world
  <1>1. ASSUME ghost.owed # {}
        PROVE  /\ mgr'.watcher = mgr.watcher
               /\ \E g \in Gens : mgr.watcher = g /\ lw'[g].arm \in {"walked", "live"}
    <2>1. PICK g \in Gens : mgr.watcher = g /\ lw[g].arm \in {"walked", "live"}
      BY <1>1 DEF OwedFits
    <2>2. g # 0 /\ generationCurrent(g)
      BY <2>1, Registered, BoundsAssumption DEF Gens
    <2>3. CASE h = g
      <3>1. Walks(g)
        BY <1>0, <2>3, Walking
      <3>2. mgr'.watcher = mgr.watcher /\ lw'[g].arm \in {"walked", "live"}
        BY <2>1, <2>2, <3>1 DEF Walks
      <3> QED BY <2>1, <3>2
    <2>4. CASE h # g
      <3>1. Walks(h) /\ Others(h)
        BY <1>0, Walking
      <3>2. mgr'.watcher = mgr.watcher
        BY <2>1, <2>2, <2>4, <3>1 DEF Walks
      <3> QED BY <2>1, <2>4, <3>1, <3>2 DEF Others
    <2> QED BY <2>3, <2>4
  <1> QED BY <1>0, <1>1 DEF OwedFits

\* All other steps owe no more, and leave the watchers armed as they are.
LEMMA OwedStep ==
  ASSUME IInv, OwedFits, Next
  PROVE  OwedFits'
  <1>0. Shape
    BY DEF IInv
  <1>1. CASE \E p \in Paths : ChangeStep(p)
    BY <1>1, ChangeOwed
  <1>2. CASE \E g \in Gens : WalkActs(g)
    BY <1>2, WalkOwed
  <1>3. CASE KeeperStep
    BY <1>3, KeeperOwes DEF OwedFits
  <1>4. CASE \/ Settles
             \/ \E g \in Gens : LoopStep(g) \/ TimerStep(g)
             \/ \E k \in Kinds : BatchStep(k)
             \/ \E f \in flights : Insert(f)
             \/ \E s \in Scans : ScanStep(s)
    <2>1. mgr'.watcher = mgr.watcher /\ \A g \in Gens : lw'[g].arm = lw[g].arm
      BY <1>0, <1>4, QuietSteps DEF Quiet, Lives
    <2>2. disk' = disk /\ ghost'.owed \subseteq ghost.owed
      <3>1. CASE Settles
        BY <1>0, <3>1, Settling
      <3>2. CASE \E g \in Gens : LoopStep(g) \/ TimerStep(g)
        <4>1. PICK g \in Gens : LoopStep(g) \/ TimerStep(g)
          BY <3>2
        <4>2. CASE Receive(g)
          <5>1. disk' = disk /\ (ghost' = ghost \/ ghost' = [ghost EXCEPT !.merged = @ \cup Mixed(lw'[g], Head(lw[g].queue))])
            BY <1>0, <4>2, Receiving DEF StillWorld, world
          <5>2. ghost \in Notes
            BY <1>0, Types
          <5> QED BY <5>1, <5>2 DEF Notes
        <4>3. CASE ~Receive(g)
          BY <1>0, <4>1, <4>3, HandlingOne, Marking, Exiting, AdmittingEdits, TakingEdits
          DEF LoopStep, TimerStep, StillWorld, world
        <4> QED BY <4>2, <4>3
      <3>3. CASE \E k \in Kinds : BatchStep(k)
        BY <1>0, <3>3, Admitting, Taking DEF BatchStep, StillWorld, world
      <3>4. CASE \E f \in flights : Insert(f)
        BY <1>0, <3>4, Inserting DEF world
      <3>5. CASE \E s \in Scans : ScanStep(s)
        BY <1>0, <3>5, Pausing, Resuming, TakingPaused, Replaying, Swapping DEF ScanStep, StillScan, world
      <3> QED BY <1>4, <3>1, <3>2, <3>3, <3>4, <3>5
    <2> QED BY <2>1, <2>2 DEF OwedFits
  <1> QED BY <1>1, <1>2, <1>3, <1>4, StepsOfNext

\* What has been merged stays known as long as nothing new is merged.
LEMMA MergedStays ==
  ASSUME MergedKnown, ghost.merged \subseteq ghost'.merged, mgr'.watcher = mgr.watcher,
         \A g \in Gens : mgr.watcher = g => \A p \in Paths : lw'[g].paused[p] \subseteq lw[g].paused[p],
         \A g \in Gens : mgr.watcher = g =>
           \A s \in Scans : scan'[s].gen = g =>
             \A p \in Paths : \/ scan'[s].todo[p] = {} \/ scan'[s].todo[p] = lw[g].paused[p]
                              \/ scan[s].gen = g /\ scan'[s].todo[p] = scan[s].todo[p]
  PROVE  MergedKnown'
  <1>1. \A ops : ops = {} => ~(Both \subseteq ops)
    BY DEF Both
  <1> SUFFICES ASSUME NEW g \in Gens, mgr.watcher = g
               PROVE  /\ \A p \in Paths : Both \subseteq lw'[g].paused[p] => p \in ghost'.merged
                      /\ \A s \in Scans : scan'[s].gen = g =>
                           \A p \in Paths : Both \subseteq scan'[s].todo[p] => p \in ghost'.merged
    BY DEF MergedKnown, Both
  <1>2. /\ \A p \in Paths : Both \subseteq lw[g].paused[p] => p \in ghost.merged
        /\ \A s \in Scans : scan[s].gen = g => \A p \in Paths : Both \subseteq scan[s].todo[p] => p \in ghost.merged
    BY DEF MergedKnown
  <1>3. \A p \in Paths : Both \subseteq lw'[g].paused[p] => p \in ghost'.merged
    BY <1>2
  <1>4. ASSUME NEW s \in Scans, scan'[s].gen = g, NEW p \in Paths, Both \subseteq scan'[s].todo[p]
        PROVE  p \in ghost'.merged
    <2>1. \/ scan'[s].todo[p] = {} \/ scan'[s].todo[p] = lw[g].paused[p]
          \/ scan[s].gen = g /\ scan'[s].todo[p] = scan[s].todo[p]
      BY <1>4
    <2> QED BY <1>1, <1>2, <1>4, <2>1
  <1> QED BY <1>3, <1>4

\* A held event that mixes a path is noted.
LEMMA ReceiveMerged ==
  ASSUME IInv, MergedKnown, NEW h \in Gens, Receive(h)
  PROVE  MergedKnown'
  <1>0. Shape /\ ghost \in Notes /\ lw' \in [Gens -> Watchers] /\ Head(lw[h].queue) \in Events
    BY Types, Receiving DEF IInv
  <1> DEFINE e == Head(lw[h].queue)
  <1>1. scan' = scan /\ mgr' = mgr /\ Others(h)
    BY <1>0, Receiving DEF StillWorld
  <1>2. ghost.merged \subseteq ghost'.merged
    BY <1>0, Receiving DEF Notes
  <1>3. ASSUME NEW p \in Paths, Both \subseteq lw'[h].paused[p], mgr.watcher = h
        PROVE  p \in ghost'.merged
    <2>1. CASE Both \subseteq lw[h].paused[p]
      BY <1>2, <1>3, <2>1 DEF MergedKnown
    <2>2. CASE ~(Both \subseteq lw[h].paused[p])
      <3>1. ~lw'[h].dirty /\ p = e.path
            /\ ghost' = [ghost EXCEPT !.merged = @ \cup Mixed(lw'[h], e)]
        <4>1. NothingToReplay[p] = {}
          BY DEF NothingToReplay
        <4> QED BY <1>0, <1>3, <2>2, <4>1, Receiving DEF Both
      <3>2. p \in Mixed(lw'[h], e)
        BY <1>3, <3>1 DEF Mixed, Both
      <3> QED BY <1>0, <3>1, <3>2 DEF Notes
    <2> QED BY <2>1, <2>2
  <1>4. ASSUME NEW g \in Gens, mgr.watcher = g
        PROVE  /\ \A p \in Paths : Both \subseteq lw'[g].paused[p] => p \in ghost'.merged
               /\ \A s \in Scans : scan[s].gen = g => \A p \in Paths : Both \subseteq scan[s].todo[p] => p \in ghost'.merged
    <2>1. /\ \A p \in Paths : Both \subseteq lw[g].paused[p] => p \in ghost'.merged
          /\ \A s \in Scans : scan[s].gen = g => \A p \in Paths : Both \subseteq scan[s].todo[p] => p \in ghost'.merged
      BY <1>2, <1>4 DEF MergedKnown
    <2>2. g = h \/ lw'[g] = lw[g]
      BY <1>1 DEF Others
    <2> QED BY <1>3, <1>4, <2>1, <2>2
  <1> QED BY <1>1, <1>4 DEF MergedKnown, Both

\* Every step keeps what has been merged known.
LEMMA MergedStep ==
  ASSUME IInv, MergedKnown, OwedFits, Next
  PROVE  MergedKnown'
  <1>0. Shape /\ TypeOK /\ Dormant
    BY Types DEF IInv
  <1>1. \A p \in Paths : NothingToReplay[p] = {}
    BY DEF NothingToReplay
  <1>2. CASE \E p \in Paths : ChangeStep(p)
    <2>1. PICK p \in Paths, op \in Ops : Deliver(p, op) /\ Changed(p, op) /\ mgr' = mgr /\ scan' = scan
      BY <1>0, <1>2, Changing DEF ChangeStep, StillManager
    <2>2. \A g \in Gens : lw'[g].paused = lw[g].paused
      BY <1>0, <2>1, Delivering DEF SameButQueue
    <2>3. ghost'.merged = ghost.merged
      BY <2>1 DEF Changed
    <2> QED BY <2>1, <2>2, <2>3, MergedStays
  <1>3. CASE Settles
    BY <1>0, <1>3, Settling, MergedStays
  <1>4. CASE \E g \in Gens : LoopStep(g) \/ TimerStep(g)
    <2>1. PICK h \in Gens : LoopStep(h) \/ TimerStep(h)
      BY <1>4
    <2>2. CASE Receive(h)
      BY <2>2, ReceiveMerged
    <2>3. CASE ~Receive(h)
      <3>1. scan' = scan /\ mgr' = mgr /\ ghost' = ghost /\ Others(h) /\ lw'[h].paused \in {lw[h].paused, NothingToReplay}
        BY <1>0, <2>1, <2>3, HandlingOne, Marking, Exiting, AdmittingEdits, TakingEdits
        DEF LoopStep, TimerStep, StillWorld
      <3>2. \A g \in Gens : \A p \in Paths : lw'[g].paused[p] \subseteq lw[g].paused[p]
        BY <1>1, <3>1 DEF Others
      <3> QED BY <3>1, <3>2, MergedStays
    <2> QED BY <2>2, <2>3
  <1>5. CASE \E g \in Gens : WalkActs(g)
    <2>1. PICK h \in Gens : WalkActs(h)
      BY <1>5
    <2>2. scan' = scan /\ ghost' = ghost /\ Others(h) /\ lw'[h].paused = lw[h].paused /\ Walks(h)
      BY <1>0, <2>1, Walking DEF StillWalking, SameButArm
    <2>3. \A g \in Gens : lw'[g].paused = lw[g].paused
      BY <2>2 DEF Others
    <2>4. CASE mgr'.watcher = mgr.watcher
      BY <2>2, <2>3, <2>4, MergedStays
    <2>5. CASE mgr'.watcher = 0
      <3>1. \A g \in Gens : mgr'.watcher # g
        BY <2>5, BoundsAssumption DEF Gens
      <3> QED BY <3>1 DEF MergedKnown
    <2>6. CASE mgr'.watcher = h /\ lw[h].arm = "new"
      <3>1. lw[h].paused = NothingToReplay /\ \A s \in Scans : scan[s].gen = h => scan[s].todo = NothingToReplay
        BY <1>0, <2>6 DEF Dormant, Asleep
      <3>2. /\ \A p \in Paths : ~(Both \subseteq lw'[h].paused[p])
            /\ \A s \in Scans : scan'[s].gen = h => \A p \in Paths : ~(Both \subseteq scan'[s].todo[p])
        BY <1>1, <2>2, <3>1 DEF Both
      <3>3. \A g \in Gens : mgr'.watcher = g => g = h
        BY <2>6
      <3> QED BY <3>2, <3>3 DEF MergedKnown, Both
    <2> QED BY <2>2, <2>4, <2>5, <2>6 DEF Walks
  <1>6. CASE \E k \in Kinds : BatchStep(k)
    <2>1. lw' = lw /\ scan' = scan /\ mgr' = mgr /\ ghost' = ghost
      BY <1>0, <1>6, Admitting, Taking DEF BatchStep, StillWorld
    <2> QED BY <2>1, MergedStays
  <1>7. CASE \E f \in flights : Insert(f)
    <2>1. scan' = scan /\ mgr' = mgr /\ ghost'.merged = ghost.merged /\ \A g \in Gens : lw'[g].paused = lw[g].paused
      BY <1>0, <1>7, Inserting
    <2> QED BY <2>1, MergedStays
  <1>8. CASE \E s \in Scans : ScanStep(s)
    <2>1. PICK s \in Scans : ScanStep(s)
      BY <1>8
    <2>0. ghost' = ghost /\ mgr'.watcher = mgr.watcher /\ OtherScans(s)
      BY <1>0, <2>1, Pausing, Resuming, TakingPaused, Replaying, Swapping DEF ScanStep, SameMgr
    <2>2. CASE TakePaused(s)
      <3> DEFINE h == scan[s].gen
      <3>1. h \in Gens /\ Others(h) /\ scan'[s].todo = lw[h].paused /\ lw'[h].paused = NothingToReplay /\ scan'[s].gen = h
        BY <1>0, <2>2, TakingPaused
      <3> HIDE DEF h
      <3>2. \A g \in Gens : \A p \in Paths : lw'[g].paused[p] \subseteq lw[g].paused[p]
        BY <1>1, <3>1 DEF Others
      <3> QED BY <2>0, <3>1, <3>2, MergedStays DEF OtherScans
    <2>3. CASE Pause(s) \/ Resume(s)
      <3>1. scan'[s].todo = scan[s].todo /\ scan[s].pc # "replay" /\ \A g \in Gens : lw'[g].paused = lw[g].paused
        BY <1>0, <2>3, Pausing, Resuming DEF SameButDepth
      <3>2. scan[s].todo = NothingToReplay
        BY <1>0, <3>1 DEF Shape, ScansFit
      <3> QED BY <1>1, <2>0, <3>1, <3>2, MergedStays DEF OtherScans
    <2>4. CASE SwapDirty(s)
      <3> DEFINE h == scan[s].gen
      <3>1. h \in Gens /\ Others(h) /\ scan'[s].todo = NothingToReplay /\ lw'[h].paused = lw[h].paused
        BY <1>0, <2>4, Swapping
      <3> HIDE DEF h
      <3>2. \A g \in Gens : lw'[g].paused = lw[g].paused
        BY <3>1 DEF Others
      <3> QED BY <1>1, <2>0, <3>1, <3>2, MergedStays DEF OtherScans
    <2>5. CASE \E p \in Paths : Replay(s, p)
      <3>1. PICK p \in Paths : Replay(s, p)
        BY <2>5
      <3> DEFINE h == scan[s].gen
      <3>2. h \in Gens /\ Others(h) /\ lw'[h].paused = lw[h].paused /\ scan'[s].gen = h
            /\ scan'[s].todo[p] = {} /\ \A q \in Paths \ {p} : scan'[s].todo[q] = scan[s].todo[q]
        BY <1>0, <3>1, Replaying
      <3>3. \A q \in Paths : scan'[s].todo[q] = {} \/ scan'[s].todo[q] = scan[s].todo[q]
        BY <3>2
      <3>4. scan'[s].gen = scan[s].gen
        BY <3>2
      <3> HIDE DEF h
      <3>5. \A g \in Gens : lw'[g].paused = lw[g].paused
        BY <3>2 DEF Others
      <3> QED BY <2>0, <3>3, <3>4, <3>5, MergedStays DEF OtherScans
    <2> QED BY <2>1, <2>2, <2>3, <2>4, <2>5 DEF ScanStep
  <1>9. CASE KeeperStep
    <2>1. \A g \in Gens : mgr'.watcher # g
      BY <1>9, KeeperOwes, BoundsAssumption DEF Gens
    <2> QED BY <2>1 DEF MergedKnown
  <1> QED BY <1>2, <1>3, <1>4, <1>5, <1>6, <1>7, <1>8, <1>9, StepsOfNext


-----------------------------------------------------------------------------
(***************************************************************************)
(* Every change is followed.                                               *)
(***************************************************************************)
SameInput(g) == lw'[g].queue = lw[g].queue /\ lw'[g].event = lw[g].event
SameFlags(g) == lw'[g].overflow = lw[g].overflow /\ lw'[g].dirty = lw[g].dirty
\* The scans that replay for the watcher go on replaying the path.
SameReplays(g, p) ==
  \A s \in Scans : scan[s].gen = g /\ scan[s].todo[p] # {} =>
                     scan'[s].gen = g /\ scan'[s].todo[p] = scan[s].todo[p]

\* It is while nothing is taken out.
LEMMA Undisturbed ==
  ASSUME NEW g \in Gens, NEW p \in Paths, disk'[p] = disk[p], SameInput(g), SameFlags(g),
         lw'[g].paused[p] = lw[g].paused[p], lw[g].edits \subseteq lw'[g].edits, SameReplays(g, p),
         BatchKept(g), flights \subseteq flights', Followed(g, p)
  PROVE  Followed(g, p)'
  <1>1. (Somewhere(g, p) => Somewhere(g, p)') /\ (OnWhole(g) => OnWhole(g)')
    BY Staying DEF SameReplays
  <1>2. Whole(g) => Whole(g)'
    BY <1>1 DEF Whole, SameFlags
  <1> QED BY <1>1, <1>2, Following DEF SameInput

\* A change of another path leaves it where it is; its own change is its newest
\* event, unless the queue overflows.
LEMMA ChangeFollowed ==
  ASSUME IInv, Tracks, NEW g \in Gens, mgr.watcher = g, NEW p \in Paths, ChangeStep(p),
         NEW q \in ghost'.owed \ ghost'.merged
  PROVE  Followed(g, q)'
  <1>0. Shape /\ TypeOK /\ lw \in [Gens -> Watchers]
    BY Types DEF IInv
  <1>1. PICK op \in Ops : Deliver(p, op) /\ Changed(p, op) /\ StillManager
    BY <1>0, Changing DEF ChangeStep
  <1> DEFINE e == [path |-> p, ops |-> {op}]
             l == lw[g].queue
  <1>2. SameButQueue(g) /\ l \in Seq(Events) /\ e \in Events /\ e.path = p /\ e.ops = {op}
    BY <1>0, <1>1, Delivering, WatcherFields DEF Events, Ops
  <1>3. lw[g].arm \in {"walked", "live"} /\ ~lw[g].cancelled
    <2>1. ghost'.owed # {}
      OBVIOUS
    <2>2. CASE ghost.owed # {}
      BY <2>2, Registered DEF Tracks, OwedFits
    <2>3. CASE Watches(mgr.watcher)
      BY <2>3 DEF Watches
    <2> QED BY <1>1, <2>1, <2>2, <2>3 DEF Changed
  <1>4. \/ lw'[g].queue = Append(l, e) /\ lw'[g].overflow = lw[g].overflow
        \/ lw'[g].queue = l /\ lw'[g].overflow
    BY <1>0, <1>1, <1>3, Delivering DEF Watches
  <1> HIDE DEF e, l
  <1>5. CASE lw'[g].overflow
    BY <1>5 DEF Followed, Whole
  <1>6. CASE lw'[g].queue = Append(l, e) /\ lw'[g].overflow = lw[g].overflow
    <2>1. CASE q = p
      <3>1. "remove" \in e.ops <=> ~(disk'[p] # "none")
        BY <1>1, <1>2 DEF Changed
      <3>2. Newest(g, p)'
        <4>1. Len(l) + 1 \in 1..Len(Append(l, e)) /\ Append(l, e)[Len(l) + 1] = e
          BY <1>2, AppendTo
        <4>2. \A j \in 1..Len(Append(l, e)) : ~(j > Len(l) + 1)
          BY <1>2, AppendTo
        <4>3. "remove" \in Append(l, e)[Len(l) + 1].ops <=> ~(disk'[p] # "none")
          BY <1>2, <3>1, <4>1
        <4> QED BY <1>2, <1>6, <4>1, <4>2, <4>3 DEF Newest, Fits, Present
      <3> QED BY <2>1, <3>2 DEF Followed
    <2>2. CASE q # p
      <3>1. q \in Paths /\ disk'[q] = disk[q] /\ q \in ghost.owed \ ghost.merged
        BY <1>1, <2>2 DEF Changed
      <3>2. Followed(g, q)
        BY <3>1 DEF Tracks, Tracking
      <3>3. \A k \in Kinds : batch'[k] = batch[k]
        BY <1>1 DEF StillManager
      <3>4. BatchKept(g) /\ flights \subseteq flights' /\ SameReplays(g, q)
        BY <1>1, <3>3 DEF BatchKept, StillManager, SameReplays
      <3>5. (Somewhere(g, q) => Somewhere(g, q)') /\ (OnWhole(g) => OnWhole(g)')
        BY <1>2, <3>1, <3>4, Staying DEF SameButQueue, SameReplays
      <3>6. Whole(g) => Whole(g)'
        BY <1>2, <1>6, <3>5 DEF Whole, SameButQueue
      <3>7. /\ \A i \in 1..Len(l) : i \in 1..Len(Append(l, e)) /\ Append(l, e)[i] = l[i]
            /\ \A i \in 1..Len(Append(l, e)) : i \in 1..Len(l) \/ Append(l, e)[i] = e
        BY <1>2, AppendTo
      <3>8. Queued(g, q)' <=> Queued(g, q)
        BY <1>2, <1>6, <2>2, <3>7 DEF Queued, l
      <3>9. ASSUME Newest(g, q)
            PROVE  Newest(g, q)'
        <4>1. PICK i \in 1..Len(l) :
                /\ l[i].path = q /\ Fits(q, l[i].ops)
                /\ \A j \in 1..Len(l) : j > i => l[j].path # q
          BY <3>9 DEF Newest, l
        <4>2. i \in 1..Len(Append(l, e)) /\ Append(l, e)[i] = l[i]
          BY <3>7
        <4>3. \A j \in 1..Len(Append(l, e)) : j > i => Append(l, e)[j].path # q
          <5> SUFFICES ASSUME NEW j \in 1..Len(Append(l, e)), j > i
                       PROVE  Append(l, e)[j].path # q
            OBVIOUS
          <5>1. CASE j \in 1..Len(l)
            BY <3>7, <4>1, <5>1
          <5>2. CASE Append(l, e)[j] = e
            BY <1>2, <2>2, <5>2
          <5> QED BY <3>7, <5>1, <5>2
        <4>4. "remove" \in Append(l, e)[i].ops <=> ~(disk'[q] # "none")
          BY <3>1, <4>1, <4>2 DEF Fits, Present
        <4>5. Append(l, e)[i].path = q
          BY <4>1, <4>2
        <4> QED BY <1>6, <4>2, <4>3, <4>4, <4>5 DEF Newest, Fits, Present
      <3>10. InHand(g, q) => InHand(g, q)'
        BY <1>2, <3>1, <3>8 DEF InHand, Fits, Present, SameButQueue
      <3>11. Kept(g, q) => Kept(g, q)'
        BY <1>2, <3>5, <3>8 DEF Kept, SameButQueue
      <3> QED BY <3>2, <3>6, <3>9, <3>10, <3>11 DEF Followed
    <2> QED BY <2>1, <2>2
  <1> QED BY <1>4, <1>5, <1>6

\* An event that is received goes on being handled, or is kept until the scan
\* resumes; a removal that is merged with something else shows in what is merged.
LEMMA ReceiveFollowed ==
  ASSUME IInv, Tracks, NEW g \in Gens, mgr.watcher = g, Receive(g), NEW p \in ghost'.owed \ ghost'.merged,
         p \in ghost.owed \ ghost.merged
  PROVE  Followed(g, p)'
  <1>0. Shape /\ lw \in [Gens -> Watchers] /\ lw' \in [Gens -> Watchers] /\ ghost \in Notes /\ p \in Paths
    BY Types, Receiving DEF IInv, Notes
  <1> DEFINE q == lw[g].queue
             e == Head(q)
  <1>1. q \in Seq(Events) /\ q # << >> /\ e \in Events
    BY <1>0, Receiving, WatcherFields
  <1>2. /\ disk' = disk /\ scan' = scan /\ batch' = batch /\ flights' = flights
        /\ lw'[g].edits = lw[g].edits /\ lw'[g].overflow = lw[g].overflow
        /\ lw'[g].queue = Tail(q) /\ lw[g].loop = "wait"
    BY <1>0, Receiving DEF StillWorld, world
  <1>3. lw[g].event = NoEvent /\ NoEvent.path # p
    BY <1>0, <1>2, PathsAssumption DEF Shape, LoopsFit, NoEvent, Paths
  <1>4. \/ /\ lw'[g].event = e /\ lw'[g].paused = lw[g].paused /\ lw'[g].dirty = lw[g].dirty
        \/ /\ lw'[g].event = NoEvent /\ lw'[g].dirty
        \/ /\ lw'[g].event = NoEvent /\ ~lw'[g].dirty /\ ~lw[g].dirty
           /\ ghost' = [ghost EXCEPT !.merged = @ \cup Mixed(lw'[g], e)]
           /\ lw'[g].paused[e.path] = lw[g].paused[e.path] \cup e.ops
           /\ \A r \in Paths \ {e.path} : lw'[g].paused[r] = lw[g].paused[r]
    BY <1>0, Receiving
  <1> HIDE DEF q, e
  <1>5. e = q[1] /\ 1 \in 1..Len(q) /\ Len(q) \in Nat
    BY <1>1, TailOf DEF e
  <1>6. /\ \A i \in 1..Len(Tail(q)) : i + 1 \in 1..Len(q) /\ Tail(q)[i] = q[i + 1]
        /\ \A i \in 1..Len(q) : i # 1 => i - 1 \in 1..Len(Tail(q)) /\ Tail(q)[i - 1] = q[i]
    BY <1>1, TailOf
  <1>7. CASE lw'[g].dirty
    BY <1>7 DEF Followed, Whole
  <1>8. CASE ~lw'[g].dirty
    <2>1. Whole(g) => Whole(g)'
      BY <1>2, <1>4, <1>8 DEF Whole, OnWhole
    <2>2. ASSUME Kept(g, p)
          PROVE  Kept(g, p)'
      <3>1. e.path # p /\ ~Queued(g, p)
        BY <1>5, <2>2 DEF Kept, Queued, q
      <3>2. ~Queued(g, p)'
        BY <1>2, <1>6, <3>1 DEF Queued, q
      <3>3. lw'[g].event.path # p /\ lw'[g].paused[p] = lw[g].paused[p]
        BY <1>0, <1>3, <1>4, <1>8, <3>1
      <3>4. Somewhere(g, p)'
        <4>1. \A k \in Kinds : batch'[k] = batch[k]
          BY <1>2
        <4>2. BatchKept(g)
          BY <4>1 DEF BatchKept
        <4> QED BY <1>0, <1>2, <2>2, <3>3, <4>2, Staying DEF Kept
      <3> QED BY <3>2, <3>3, <3>4 DEF Kept
    <2>3. ASSUME Newest(g, p)
          PROVE  Followed(g, p)'
      <3>1. PICK i \in 1..Len(q) :
              /\ q[i].path = p /\ Fits(p, q[i].ops)
              /\ \A j \in 1..Len(q) : j > i => q[j].path # p
        BY <2>3 DEF Newest, q
      <3>2. CASE i # 1
        <4>1. i - 1 \in 1..Len(Tail(q)) /\ Tail(q)[i - 1] = q[i]
          BY <1>6, <3>2
        <4>2. \A j \in 1..Len(Tail(q)) : j > i - 1 => Tail(q)[j].path # p
          <5> SUFFICES ASSUME NEW j \in 1..Len(Tail(q)), j > i - 1
                       PROVE  Tail(q)[j].path # p
            OBVIOUS
          <5>1. j + 1 \in 1..Len(q) /\ j + 1 > i /\ Tail(q)[j] = q[j + 1]
            BY <1>5, <1>6
          <5> QED BY <3>1, <5>1
        <4>3. Tail(q)[i - 1].path = p /\ ("remove" \in Tail(q)[i - 1].ops <=> ~(disk'[p] # "none"))
          BY <1>2, <3>1, <4>1 DEF Fits, Present
        <4>4. PICK m \in 1..Len(Tail(q)) : m = i - 1
          BY <4>1
        <4>5. /\ Tail(q)[m].path = p /\ ("remove" \in Tail(q)[m].ops <=> ~(disk'[p] # "none"))
              /\ \A j \in 1..Len(Tail(q)) : j > m => Tail(q)[j].path # p
          BY <4>2, <4>3, <4>4
        <4>6. lw'[g].queue = Tail(q)
          BY <1>2
        <4>7. Newest(g, p)'
          BY <4>5, <4>6 DEF Newest, Fits, Present
        <4> QED BY <4>7 DEF Followed
      <3>3. CASE i = 1
        <4>1. e.path = p /\ Fits(p, e.ops)
          BY <1>5, <3>1, <3>3
        <4>2. ~Queued(g, p)'
          <5> SUFFICES ASSUME NEW j \in 1..Len(Tail(q))
                       PROVE  Tail(q)[j].path # p
            BY <1>2 DEF Queued
          <5>1. j + 1 \in 1..Len(q) /\ j + 1 > i /\ Tail(q)[j] = q[j + 1]
            BY <1>5, <1>6, <3>3
          <5> QED BY <3>1, <5>1
        <4>3. CASE lw'[g].event = e
          <5>1. InHand(g, p)'
            BY <1>2, <4>1, <4>2, <4>3 DEF InHand, Fits, Present
          <5> QED BY <5>1 DEF Followed
        <4>4. CASE /\ lw'[g].event = NoEvent
                   /\ ghost' = [ghost EXCEPT !.merged = @ \cup Mixed(lw'[g], e)]
                   /\ lw'[g].paused[e.path] = lw[g].paused[e.path] \cup e.ops
          <5>1. p \notin Mixed(lw'[g], e)
            BY <1>0, <4>4 DEF Notes
          <5>2. "remove" \in lw'[g].paused[p] => "create" \notin lw'[g].paused[p] /\ "write" \notin e.ops
            BY <1>8, <4>1, <5>1 DEF Mixed
          <5>3. lw'[g].paused[p] = lw[g].paused[p] \cup e.ops
                /\ e.ops \in {{"create"}, {"write"}, {"remove"}}
            BY <1>1, <4>1, <4>4 DEF Events
          <5>4. "remove" \in e.ops <=> "remove" \in lw'[g].paused[p]
            BY <5>2, <5>3
          <5>5. Noted(g, p)'
            BY <1>2, <4>1, <5>3, <5>4 DEF Noted, Fits, Present
          <5>6. Kept(g, p)'
            BY <1>3, <4>2, <4>4, <5>5 DEF Kept, Somewhere
          <5> QED BY <5>6 DEF Followed
        <4> QED BY <1>4, <1>8, <4>3, <4>4
      <3> QED BY <3>2, <3>3
    <2>4. ~InHand(g, p)
      BY <1>3 DEF InHand
    <2>5. Followed(g, p)
      BY DEF Tracks, Tracking
    <2> QED BY <2>1, <2>2, <2>3, <2>4, <2>5 DEF Followed
  <1> QED BY <1>7, <1>8

\* An event that is handled leaves its path in a batch, among the edits or on its
\* way; an overflow leaves a whole scan to be made.
LEMMA HandleFollowed ==
  ASSUME IInv, Tracks, NEW g \in Gens, mgr.watcher = g, Handle(g), NEW p \in ghost.owed \ ghost.merged
  PROVE  Followed(g, p)'
  <1>0. Shape /\ TypeOK /\ p \in Paths /\ Followed(g, p)
    BY Types DEF IInv, Notes, Tracks, Tracking
  <1> DEFINE e == lw[g].event
  <1>1. /\ e \in Events /\ e \in Asked /\ handleEvent(g, e, "loop")
        /\ disk' = disk /\ scan' = scan /\ SameFlags(g) /\ lw'[g].paused = lw[g].paused
        /\ lw'[g].queue = lw[g].queue /\ lw'[g].event = NoEvent /\ lw[g].edits \subseteq lw'[g].edits
        /\ Edited(e) => e.path \in lw'[g].edits
    BY <1>0, HandlingOne DEF StillWorld, world, SameFlags
  <1>2. BatchKept(g) /\ flights \subseteq flights'
    BY <1>0, <1>1, Handling, GrownKeeps
  <1>3. (Somewhere(g, p) => Somewhere(g, p)') /\ (OnWhole(g) => OnWhole(g)')
    BY <1>0, <1>1, <1>2, Staying
  <1>4. Whole(g) => Whole(g)'
    BY <1>1, <1>3 DEF Whole, SameFlags
  <1>5. NoEvent.path # p
    BY <1>0, PathsAssumption DEF NoEvent, Paths
  <1>6. CASE e.path # p
    BY <1>0, <1>1, <1>3, <1>4, <1>5, <1>6, Following
  <1>7. CASE e.path = p
    <2>1. Queued(g, p)' <=> Queued(g, p)
      BY <1>1 DEF Queued
    <2>2. Newest(g, p) => Newest(g, p)'
      BY <1>1 DEF Newest, Fits, Present
    <2>3. ~Kept(g, p)
      BY <1>7 DEF Kept
    <2>4. ASSUME InHand(g, p)
          PROVE  Followed(g, p)'
      <3>1. e.ops # {} /\ ~(Both \subseteq e.ops) /\ Fits(e.path, e.ops)
        BY <1>1, <1>7, <2>4 DEF Events, Both, InHand
      <3>2. e.path \in Dirs => "write" \notin e.ops
        BY DEF Tracks, DirsUnwritten, WatchesUnwritten, Unwritten
      <3>3. Somewhere(g, p)' \/ OnWhole(g)'
        BY <1>1, <1>7, <3>1, <3>2, Landing
      <3>4. ~Queued(g, p)'
        BY <2>1, <2>4 DEF InHand
      <3>5. Kept(g, p)' \/ Whole(g)'
        BY <1>1, <1>5, <3>3, <3>4 DEF Kept, Whole
      <3> QED BY <3>5 DEF Followed
    <2> QED BY <1>0, <1>4, <2>2, <2>3, <2>4 DEF Followed
  <1> QED BY <1>6, <1>7

\* An overflow leaves a whole scan to be made, or noted.
LEMMA MarkFollowed ==
  ASSUME IInv, NEW g \in Gens, MarkDirty(g)
  PROVE  \A p \in Paths : Followed(g, p)'
  <1>1. lw'[g].dirty \/ (batch'["rescan"].gen = g /\ batch'["rescan"].timer = "armed")
    BY Marking DEF IInv
  <1> QED BY <1>1 DEF Followed, Whole, OnWhole


\* A loop or a timer of another generation disturbs nothing.
LEMMA StrangerFollowed ==
  ASSUME IInv, NEW g \in Gens, mgr.watcher = g, NEW h \in Gens, h # g, LoopStep(h) \/ TimerStep(h),
         NEW p \in Paths, Followed(g, p)
  PROVE  Followed(g, p)'
  <1>0. Shape /\ TypeOK
    BY Types DEF IInv
  <1>1. disk' = disk /\ scan' = scan /\ Others(h) /\ flights \subseteq flights' /\ (batch' = batch \/ Grown(h))
    <2>1. CASE Handle(h)
      BY <1>0, <2>1, HandlingOne, Handling DEF StillWorld, world
    <2>2. CASE ~Handle(h)
      BY <1>0, <2>2, Receiving, Marking, Exiting, AdmittingEdits, TakingEdits
      DEF LoopStep, TimerStep, StillWorld, world
    <2> QED BY <2>1, <2>2
  <1>2. BatchKept(g)
    <2>1. CASE batch' = batch
      BY <2>1 DEF BatchKept
    <2>2. CASE Grown(h)
      BY <2>2, GrownKeeps
    <2> QED BY <1>1, <2>1, <2>2
  <1>3. lw'[g] = lw[g]
    BY <1>1 DEF Others
  <1> QED BY <1>1, <1>2, <1>3, Undisturbed DEF SameInput, SameFlags, SameReplays

\* The edits of a watcher set out.
LEMMA EditsFollowed ==
  ASSUME IInv, Tracks, NEW g \in Gens, mgr.watcher = g, TimerStep(g), NEW p \in ghost.owed \ ghost.merged
  PROVE  Followed(g, p)'
  <1>0. Shape /\ p \in Paths /\ Followed(g, p) /\ disk[p] # "heya" /\ generationCurrent(g)
    BY Types, Registered DEF IInv, Notes, Tracks, Tracking, OwedFits
  <1>1. disk' = disk /\ scan' = scan /\ batch' = batch /\ SameInput(g) /\ SameFlags(g)
        /\ lw'[g].paused = lw[g].paused
    BY <1>0, AdmittingEdits, TakingEdits DEF TimerStep, StillWorld, world, SameInput, SameFlags
  <1>2. BatchKept(g) /\ SameReplays(g, p)
    BY <1>1 DEF BatchKept, SameReplays
  <1>3. CASE AdmitEdits(g)
    BY <1>0, <1>1, <1>2, <1>3, AdmittingEdits, Undisturbed
  <1>4. CASE TakeEdits(g)
    <2>1. PICK ps \in SUBSET Paths :
            /\ flights \subseteq flights'
            /\ \A r \in lw[g].edits : ~Suppressed(r) => r \in ps /\ TimerFlight("edit", g, ps) \in flights'
      BY <1>0, <1>4, TakingEdits
    <2>2. ~Suppressed(p)
      BY <1>0 DEF Suppressed
    <2>3. Debounced(g, p) => SetOut(p)'
      <3>1. TimerFlight("edit", g, ps).kind = "edit" /\ TimerFlight("edit", g, ps).paths = ps
        BY DEF TimerFlight
      <3> QED BY <1>1, <2>1, <2>2, <3>1 DEF Debounced, SetOut, Present
    <2>4. Noted(g, p) => Noted(g, p)'
      BY <1>1 DEF Noted, Fits, Present
    <2>5. Replays(g, p) => Replays(g, p)'
      BY <1>1 DEF Replays, Fits, Present
    <2>6. InBatch(g, p) => InBatch(g, p)'
      BY <1>1 DEF InBatch, Present
    <2>7. SetOut(p) => SetOut(p)'
      BY <1>1, <2>1 DEF SetOut, Present
    <2>8. Somewhere(g, p) => Somewhere(g, p)'
      BY <2>3, <2>4, <2>5, <2>6, <2>7 DEF Somewhere
    <2>9. Whole(g) => Whole(g)'
      BY <1>1, <2>1 DEF Whole, OnWhole, SameFlags
    <2> QED BY <1>0, <1>1, <2>8, <2>9, Following DEF SameInput
  <1> QED BY <1>3, <1>4 DEF TimerStep

\* So does a batch.
LEMMA BatchFollowed ==
  ASSUME IInv, Tracks, NEW g \in Gens, mgr.watcher = g, NEW k \in Kinds, BatchStep(k),
         NEW p \in ghost.owed \ ghost.merged
  PROVE  Followed(g, p)'
  <1>0. Shape /\ p \in Paths /\ Followed(g, p) /\ disk[p] # "heya" /\ generationCurrent(g)
    BY Types, Registered DEF IInv, Notes, Tracks, Tracking, OwedFits
  <1>1. disk' = disk /\ scan' = scan /\ lw' = lw /\ flights \subseteq flights'
    BY <1>0, Admitting, Taking DEF BatchStep, StillWorld, world
  <1>2. SameInput(g) /\ SameFlags(g) /\ SameReplays(g, p)
    BY <1>1 DEF SameInput, SameFlags, SameReplays
  <1>3. CASE BatchKept(g)
    BY <1>0, <1>1, <1>2, <1>3, Undisturbed
  <1>4. CASE ~BatchKept(g)
    <2>1. Take(k) /\ batch[k].gen = g
      <3>1. CASE Admit(k)
        BY <1>0, <1>4, <3>1, Admitting DEF BatchKept
      <3>2. CASE Take(k) /\ batch[k].gen # g
        BY <1>0, <1>4, <3>2, Taking DEF BatchKept
      <3> QED BY <3>1, <3>2 DEF BatchStep
    <2>2. PICK ps \in SUBSET Paths :
            /\ k = "rescan" => TimerFlight(k, g, ps) \in flights'
            /\ \A r \in batch[k].paths :
                 k # "side" \/ ~Suppressed(r) => r \in ps /\ TimerFlight(k, g, ps) \in flights'
      BY <1>0, <2>1, Taking
    <2>3. \A j \in Kinds \ {k} : batch'[j] = batch[j]
      BY <1>0, <2>1, Taking
    <2>4. ~Suppressed(p) /\ TimerFlight(k, g, ps).kind = k /\ TimerFlight(k, g, ps).paths = ps
      BY <1>0 DEF Suppressed, TimerFlight
    <2>5. {"soft", "side", "rescan"} = Kinds
      BY DEF Kinds
    <2>6. InBatch(g, p) => InBatch(g, p)' \/ SetOut(p)'
      <3>1. CASE ~Present(p) /\ batch["soft"].gen = g /\ p \in batch["soft"].paths
        <4>1. CASE k = "soft"
          BY <1>1, <2>2, <2>4, <3>1, <4>1 DEF SetOut, Present
        <4>2. CASE k # "soft"
          BY <1>1, <2>3, <2>5, <3>1, <4>2 DEF InBatch, Present
        <4> QED BY <4>1, <4>2
      <3>2. CASE batch["side"].gen = g /\ p \in batch["side"].paths
        <4>1. CASE k = "side"
          BY <2>2, <2>4, <3>2, <4>1 DEF SetOut
        <4>2. CASE k # "side"
          BY <2>3, <2>5, <3>2, <4>2 DEF InBatch
        <4> QED BY <4>1, <4>2
      <3> QED BY <3>1, <3>2 DEF InBatch
    <2>7. OnWhole(g) => OnWhole(g)'
      <3>1. CASE \E f \in flights : f.kind = "rescan"
        BY <1>1, <3>1 DEF OnWhole
      <3>2. CASE batch["rescan"].gen = g /\ batch["rescan"].timer # "none"
        <4>1. CASE k = "rescan"
          BY <2>2, <2>4, <4>1 DEF OnWhole
        <4>2. CASE k # "rescan"
          BY <2>3, <2>5, <3>2, <4>2 DEF OnWhole
        <4> QED BY <4>1, <4>2
      <3> QED BY <3>1, <3>2 DEF OnWhole
    <2>8. (Noted(g, p) => Noted(g, p)') /\ (Replays(g, p) => Replays(g, p)') /\ (Debounced(g, p) => Debounced(g, p)')
      BY <1>1 DEF Noted, Replays, Debounced, Fits, Present
    <2>9. SetOut(p) => SetOut(p)'
      BY <1>1 DEF SetOut, Present
    <2>10. Somewhere(g, p) => Somewhere(g, p)'
      BY <2>6, <2>8, <2>9 DEF Somewhere
    <2>11. Whole(g) => Whole(g)'
      BY <1>2, <2>7 DEF Whole, SameFlags
    <2> QED BY <1>0, <1>1, <1>2, <2>10, <2>11, Following DEF SameInput
  <1> QED BY <1>3, <1>4

\* A request makes good what it was on its way for.
LEMMA InsertFollowed ==
  ASSUME IInv, Tracks, NEW g \in Gens, mgr.watcher = g, NEW f \in flights, Insert(f),
         NEW p \in ghost'.owed \ ghost'.merged
  PROVE  Followed(g, p)'
  <1>0. Shape /\ ghost \in Notes
    BY Types DEF IInv
  <1>1. /\ disk' = disk /\ scan' = scan /\ batch' = batch /\ flights' = flights \ {f} /\ f \in Flights
        /\ p \in ghost.owed \ ghost.merged /\ p \notin Covers(f) /\ p \in Paths
        /\ lw'[g].paused = lw[g].paused /\ lw'[g].edits = lw[g].edits /\ SameInput(g) /\ SameFlags(g)
    BY <1>0, Inserting DEF world, Notes, SameInput, SameFlags
  <1>2. Followed(g, p)
    BY <1>1 DEF Tracks, Tracking
  <1>3. f.kind # "rescan"
    BY <1>1 DEF Covers
  <1>4. Whole(g) => Whole(g)'
    BY <1>1, <1>3 DEF Whole, OnWhole, SameFlags
  <1>5. SetOut(p) => SetOut(p)'
    <2>1. ~(/\ p \in f.paths
            /\ \/ f.kind = "side" \/ (f.kind = "soft" /\ ~Present(p))
               \/ (f.kind \in {"edit", "dir"} /\ Present(p)))
      BY <1>1 DEF Covers, Present
    <2> QED BY <1>1, <2>1 DEF SetOut, Present
  <1>6. (Noted(g, p) => Noted(g, p)') /\ (Replays(g, p) => Replays(g, p)') /\ (Debounced(g, p) => Debounced(g, p)')
    BY <1>1 DEF Noted, Replays, Debounced, Fits, Present
  <1>7. InBatch(g, p) => InBatch(g, p)'
    BY <1>1 DEF InBatch, Present
  <1>8. Somewhere(g, p) => Somewhere(g, p)'
    BY <1>5, <1>6, <1>7 DEF Somewhere
  <1> QED BY <1>1, <1>2, <1>4, <1>8, Following DEF SameInput

\* A scan that resumes takes over what has been noted, and leaves it where the
\* events of the loop would have left it.
LEMMA TakePausedFollowed ==
  ASSUME IInv, NEW g \in Gens, mgr.watcher = g, NEW s \in Scans, TakePaused(s), scan[s].gen = g,
         NEW p \in Paths, Followed(g, p)
  PROVE  Followed(g, p)'
  <1>0. Shape
    BY DEF IInv
  <1>1. /\ disk' = disk /\ batch' = batch /\ flights' = flights /\ SameInput(g) /\ SameFlags(g)
        /\ lw'[g].edits = lw[g].edits /\ OtherScans(s) /\ scan[s].todo = NothingToReplay
        /\ scan'[s].gen = g /\ scan'[s].todo = lw[g].paused
    BY <1>0, TakingPaused DEF StillScan, world, SameInput, SameFlags
  <1>2. Whole(g) => Whole(g)'
    BY <1>1 DEF Whole, OnWhole, SameFlags
  <1>3. Noted(g, p) => Replays(g, p)'
    BY <1>1 DEF Noted, Replays, Fits, Present
  <1>4. Replays(g, p) => Replays(g, p)'
    <2>1. scan[s].todo[p] = {}
      BY <1>1 DEF NothingToReplay
    <2> QED BY <1>1, <2>1 DEF Replays, Fits, Present, OtherScans
  <1>5. (Debounced(g, p) => Debounced(g, p)') /\ (InBatch(g, p) => InBatch(g, p)') /\ (SetOut(p) => SetOut(p)')
    BY <1>1 DEF Debounced, InBatch, SetOut, Present
  <1>6. Somewhere(g, p) => Somewhere(g, p)'
    BY <1>3, <1>4, <1>5 DEF Somewhere
  <1> QED BY <1>1, <1>2, <1>6, Following DEF SameInput

\* It does so path by path.
LEMMA ReplayFollowed ==
  ASSUME IInv, Tracks, NEW g \in Gens, mgr.watcher = g, NEW s \in Scans, NEW q \in Paths, Replay(s, q),
         NEW p \in ghost.owed \ ghost.merged
  PROVE  Followed(g, p)'
  <1>0. Shape /\ TypeOK /\ p \in Paths /\ Followed(g, p) /\ scan \in [Scans -> ScanRecords]
    BY Types DEF IInv, Notes, Tracks, Tracking
  <1> DEFINE h == scan[s].gen
             e == Replayed(s, q)
  <1>1. /\ disk' = disk /\ h \in Gens /\ e \in Asked /\ handleEvent(h, e, "resume") /\ Others(h)
        /\ lw'[h].paused = lw[h].paused /\ SameInput(h) /\ SameFlags(h) /\ lw[h].edits \subseteq lw'[h].edits
        /\ (Edited(e) => q \in lw'[h].edits)
        /\ OtherScans(s) /\ scan'[s].gen = h /\ scan[s].todo[q] # {}
        /\ \A r \in Paths \ {q} : scan'[s].todo[r] = scan[s].todo[r]
    BY <1>0, Replaying DEF StillScan, world, SameInput, SameFlags
  <1>2. e.path = q /\ e.ops = scan[s].todo[q]
    BY DEF Replayed
  <1>3. Grown(h) /\ flights \subseteq flights'
    BY <1>0, <1>1, Handling
  <1>4. BatchKept(g)
    BY <1>1, <1>3, GrownKeeps
  <1>5. lw'[g].paused = lw[g].paused /\ SameInput(g) /\ SameFlags(g) /\ lw[g].edits \subseteq lw'[g].edits
    BY <1>1 DEF Others, SameInput, SameFlags
  <1>6. CASE q # p \/ h # g
    <2>1. SameReplays(g, p)
      BY <1>0, <1>1, <1>6 DEF SameReplays, OtherScans
    <2> QED BY <1>0, <1>1, <1>3, <1>4, <1>5, <2>1, Undisturbed
  <1>7. CASE q = p /\ h = g
    <2>1. {"soft", "side", "rescan"} \subseteq Kinds
      BY DEF Kinds
    <2>2. Whole(g) => Whole(g)'
      BY <1>3, <1>4, <1>5, <2>1 DEF Whole, OnWhole, BatchKept, SameFlags
    <2>3. (Noted(g, p) => Noted(g, p)') /\ (Debounced(g, p) => Debounced(g, p)')
      BY <1>1, <1>5 DEF Noted, Debounced, Fits, Present
    <2>4. InBatch(g, p) => InBatch(g, p)'
      BY <1>1, <1>4, <2>1 DEF InBatch, BatchKept, Present
    <2>5. SetOut(p) => SetOut(p)'
      BY <1>1, <1>3 DEF SetOut, Present
    <2>6. ASSUME Replays(g, p)
          PROVE  Somewhere(g, p)' \/ OnWhole(g)'
      <3>1. PICK t \in Scans : scan[t].gen = g /\ scan[t].todo[p] # {} /\ Fits(p, scan[t].todo[p])
        BY <2>6 DEF Replays
      <3>2. CASE t # s
        <4>1. scan'[t] = scan[t]
          BY <1>1, <3>2 DEF OtherScans
        <4>2. Replays(g, p)'
          BY <1>1, <3>1, <4>1 DEF Replays, Fits, Present
        <4> QED BY <4>2 DEF Somewhere
      <3>3. CASE t = s
        <4>1. PICK c \in Asked : c = e
          BY <1>1
        <4>2. ~(Both \subseteq c.ops)
          BY <1>0, <1>2, <1>7, <4>1 DEF Tracks, MergedKnown
        <4>3. c.path = p /\ c.ops # {} /\ Fits(c.path, c.ops)
          BY <1>2, <1>7, <3>1, <3>3, <4>1
        <4>4. c.path \in Dirs => "write" \notin c.ops
          BY <1>2, <4>1 DEF Tracks, DirsUnwritten, Unwritten
        <4>5. handleEvent(g, c, "resume") /\ (Edited(c) => c.path \in lw'[g].edits)
          BY <1>1, <1>2, <1>7, <4>1
        <4> QED BY <1>1, <4>2, <4>3, <4>4, <4>5, Landing
      <3> QED BY <3>2, <3>3
    <2>7. Somewhere(g, p) => Somewhere(g, p)' \/ Whole(g)'
      BY <2>3, <2>4, <2>5, <2>6 DEF Somewhere, Whole
    <2> QED BY <1>0, <1>1, <1>5, <2>2, <2>7, Following DEF SameInput
  <1> QED BY <1>6, <1>7


\* Then what could not be kept becomes a whole scan.
LEMMA SwapFollowed ==
  ASSUME IInv, NEW g \in Gens, mgr.watcher = g, NEW s \in Scans, SwapDirty(s), NEW p \in Paths, Followed(g, p)
  PROVE  Followed(g, p)'
  <1>0. Shape /\ generationCurrent(g) /\ scan \in [Scans -> ScanRecords]
    BY Types, Registered DEF IInv
  <1> DEFINE h == scan[s].gen
  <1>1. /\ disk' = disk /\ flights' = flights /\ h \in Gens /\ Others(h) /\ Grown(h)
        /\ lw'[h].paused = lw[h].paused /\ SameInput(h) /\ lw'[h].overflow = lw[h].overflow
        /\ lw'[h].edits = lw[h].edits /\ OtherScans(s) /\ scan[s].todo = NothingToReplay
        /\ lw[h].dirty /\ generationCurrent(h) => batch'["rescan"].gen = h /\ batch'["rescan"].timer = "armed"
    BY <1>0, Swapping DEF StillScan, world, SameInput
  <1>2. BatchKept(g)
    BY <1>1, GrownKeeps
  <1>3. SameReplays(g, p)
    <2>1. scan[s].todo[p] = {}
      BY <1>1 DEF NothingToReplay
    <2> QED BY <1>1, <2>1 DEF SameReplays, OtherScans
  <1>4. lw'[g].paused = lw[g].paused /\ SameInput(g) /\ lw'[g].overflow = lw[g].overflow /\ lw'[g].edits = lw[g].edits
    BY <1>1 DEF Others, SameInput
  <1>5. (Somewhere(g, p) => Somewhere(g, p)') /\ (OnWhole(g) => OnWhole(g)')
    BY <1>1, <1>2, <1>3, <1>4, Staying DEF SameReplays
  <1>6. Whole(g) => Whole(g)'
    <2>1. lw[g].dirty => lw'[g].dirty \/ OnWhole(g)'
      BY <1>0, <1>1 DEF Others, OnWhole
    <2> QED BY <1>4, <1>5, <2>1 DEF Whole
  <1> QED BY <1>1, <1>4, <1>5, <1>6, Following DEF SameInput

\* So a scan loses nothing between its pause and the end of its replay.
LEMMA ScanFollowed ==
  ASSUME IInv, Tracks, NEW g \in Gens, mgr.watcher = g, NEW s \in Scans, ScanStep(s),
         NEW p \in ghost.owed \ ghost.merged
  PROVE  Followed(g, p)'
  <1>0. Shape /\ p \in Paths /\ Followed(g, p)
    BY Types DEF IInv, Notes, Tracks, Tracking
  <1>1. CASE Pause(s) \/ Resume(s)
    <2>1. /\ disk' = disk /\ flights' = flights /\ batch' = batch /\ SameButDepth(g) /\ OtherScans(s)
          /\ scan'[s].todo = scan[s].todo /\ scan[s].pc # "replay"
      BY <1>0, <1>1, Pausing, Resuming DEF StillScan, world
    <2>2. scan[s].todo[p] = {}
      BY <1>0, <2>1 DEF Shape, ScansFit, NothingToReplay
    <2>3. SameReplays(g, p) /\ BatchKept(g)
      BY <2>1, <2>2 DEF SameReplays, OtherScans, BatchKept
    <2> QED BY <1>0, <2>1, <2>3, Undisturbed DEF SameButDepth, SameInput, SameFlags
  <1>2. CASE TakePaused(s) /\ scan[s].gen = g
    BY <1>0, <1>2, TakePausedFollowed
  <1>3. CASE TakePaused(s) /\ scan[s].gen # g
    <2>1. /\ disk' = disk /\ flights' = flights /\ batch' = batch /\ lw'[g] = lw[g] /\ OtherScans(s)
          /\ scan[s].todo = NothingToReplay
      BY <1>0, <1>3, TakingPaused DEF StillScan, world, Others
    <2>2. SameReplays(g, p) /\ BatchKept(g)
      BY <1>0, <2>1 DEF SameReplays, OtherScans, BatchKept, NothingToReplay
    <2> QED BY <1>0, <2>1, <2>2, Undisturbed DEF SameInput, SameFlags
  <1>4. CASE SwapDirty(s)
    BY <1>0, <1>4, SwapFollowed
  <1>5. CASE \E q \in Paths : Replay(s, q)
    BY <1>5, ReplayFollowed
  <1> QED BY <1>1, <1>2, <1>3, <1>4, <1>5 DEF ScanStep

\* A walk disturbs nothing of a watcher to which something is owed.
LEMMA WalkFollowed ==
  ASSUME IInv, Tracks, NEW g \in Gens, mgr.watcher = g, NEW h \in Gens, WalkActs(h),
         NEW p \in ghost.owed \ ghost.merged
  PROVE  Followed(g, p)'
  <1>0. Shape /\ p \in Paths /\ Followed(g, p)
    BY Types DEF IInv, Notes, Tracks, Tracking
  <1>1. disk' = disk /\ flights' = flights /\ batch' = batch /\ scan' = scan /\ Others(h) /\ SameButArm(h)
    BY <1>0, Walking DEF StillWalking, world
  <1>2. SameButArm(g)
    BY <1>1 DEF Others, SameButArm
  <1>3. SameReplays(g, p) /\ BatchKept(g)
    BY <1>1 DEF SameReplays, BatchKept
  <1> QED BY <1>0, <1>1, <1>2, <1>3, Undisturbed DEF SameButArm, SameInput, SameFlags

\* So every step follows every change on.
LEMMA TrackingStep ==
  ASSUME IInv, Tracks, Next
  PROVE  Tracking'
  <1> SUFFICES ASSUME NEW g \in Gens, mgr'.watcher = g, NEW p \in ghost'.owed \ ghost'.merged
               PROVE  Followed(g, p)'
    BY DEF Tracking
  <1>0. Shape /\ OwedFits /\ ghost \in Notes
    BY Types DEF IInv, Tracks
  <1>1. CASE KeeperStep
    BY <1>0, <1>1, KeeperOwes
  <1>2. CASE \E h \in Gens : WalkActs(h)
    <2>1. PICK h \in Gens : WalkActs(h)
      BY <1>2
    <2>2. ghost' = ghost /\ mgr'.watcher = mgr.watcher
      BY <1>0, <2>1, WalkOwed
    <2> QED BY <2>1, <2>2, WalkFollowed
  <1>3. CASE ~KeeperStep /\ ~\E h \in Gens : WalkActs(h)
    <2>0. mgr.watcher = g
      BY <1>0, <1>3, StepsOfNext, QuietSteps DEF Quiet
    <2>1. CASE \E q \in Paths : ChangeStep(q)
      BY <2>0, <2>1, ChangeFollowed
    <2>2. CASE \E f \in flights : Insert(f)
      BY <2>0, <2>2, InsertFollowed
    <2>3. CASE \/ Settles
               \/ \E h \in Gens : LoopStep(h) \/ TimerStep(h)
               \/ \E k \in Kinds : BatchStep(k)
               \/ \E s \in Scans : ScanStep(s)
      <3>1. p \in ghost.owed \ ghost.merged
        <4>1. ghost' = ghost \/ \E ps : ghost' = [ghost EXCEPT !.merged = @ \cup ps]
          <5>1. CASE Settles
            BY <1>0, <5>1, Settling
          <5>2. CASE \E h \in Gens : LoopStep(h) \/ TimerStep(h)
            <6>1. PICK h \in Gens : LoopStep(h) \/ TimerStep(h)
              BY <5>2
            <6> QED BY <1>0, <6>1, Receiving, HandlingOne, Marking, Exiting, AdmittingEdits, TakingEdits
                    DEF LoopStep, TimerStep
          <5>3. CASE \E k \in Kinds : BatchStep(k)
            BY <1>0, <5>3, Admitting, Taking DEF BatchStep
          <5>4. CASE \E s \in Scans : ScanStep(s)
            BY <1>0, <5>4, Pausing, Resuming, TakingPaused, Replaying, Swapping DEF ScanStep
          <5> QED BY <2>3, <5>1, <5>2, <5>3, <5>4
        <4> QED BY <1>0, <4>1 DEF Notes
      <3>2. Followed(g, p) /\ p \in Paths
        BY <1>0, <2>0, <3>1 DEF Tracks, Tracking, Notes
      <3>3. CASE Settles
        <4>1. /\ disk' = disk /\ flights' = flights /\ batch' = batch /\ scan' = scan /\ lw' = lw
          BY <1>0, <3>3, Settling
        <4>2. SameReplays(g, p) /\ BatchKept(g)
          BY <4>1 DEF SameReplays, BatchKept
        <4> QED BY <3>2, <4>1, <4>2, Undisturbed DEF SameInput, SameFlags
      <3>4. CASE \E h \in Gens : LoopStep(h) \/ TimerStep(h)
        <4>1. PICK h \in Gens : LoopStep(h) \/ TimerStep(h)
          BY <3>4
        <4>2. CASE h # g
          BY <2>0, <3>2, <4>1, <4>2, StrangerFollowed
        <4>3. CASE h = g /\ TimerStep(g)
          BY <2>0, <3>1, <4>3, EditsFollowed
        <4>4. CASE h = g /\ Receive(g)
          BY <2>0, <3>1, <4>4, ReceiveFollowed
        <4>5. CASE h = g /\ Handle(g)
          BY <2>0, <3>1, <4>5, HandleFollowed
        <4>6. CASE h = g /\ MarkDirty(g)
          BY <3>2, <4>6, MarkFollowed
        <4>7. CASE h = g /\ Exit(g)
          <5>1. lw[g].cancelled
            BY <1>0, <4>7, Exiting
          <5> QED BY <2>0, <5>1, Registered
        <4> QED BY <4>1, <4>2, <4>3, <4>4, <4>5, <4>6, <4>7 DEF LoopStep
      <3>5. CASE \E k \in Kinds : BatchStep(k)
        BY <2>0, <3>1, <3>5, BatchFollowed
      <3>6. CASE \E s \in Scans : ScanStep(s)
        BY <2>0, <3>1, <3>6, ScanFollowed
      <3> QED BY <2>3, <3>3, <3>4, <3>5, <3>6
    <2> QED BY <1>3, <2>1, <2>2, <2>3, StepsOfNext
  <1> QED BY <1>1, <1>2, <1>3

\* To begin with nothing is owed, queued, kept or replayed.
LEMMA TracksInitially == Init => Tracks
  <1> SUFFICES ASSUME Init
               PROVE  Tracks
    OBVIOUS
  <1>1. /\ ghost.owed = {} /\ mgr.watcher = 0
        /\ \A g \in Gens : lw[g] = NoWatcher
        /\ \A s \in Scans : scan[s].todo = NothingToReplay
    BY DEF Init
  <1>2. \A p \in Dirs : NothingToReplay[p] = {}
    BY DEF NothingToReplay, Paths
  <1>3. NoWatcher.paused = NothingToReplay /\ NoWatcher.queue = << >> /\ NoWatcher.event = NoEvent
    BY DEF NoWatcher, NothingToReplay
  <1>4. NoEvent.path \notin Dirs
    BY PathsAssumption DEF NoEvent
  <1>5. WatchesUnwritten(NoWatcher)
    BY <1>2, <1>3, <1>4 DEF WatchesUnwritten, Unwritten
  <1>6. DirsUnwritten
    BY <1>1, <1>2, <1>5 DEF DirsUnwritten, Unwritten
  <1>7. \A g \in Gens : mgr.watcher # g
    BY <1>1, BoundsAssumption DEF Gens
  <1> QED BY <1>1, <1>6, <1>7 DEF Tracks, OwedFits, MergedKnown, Tracking

\* It is about the variables alone.
LEMMA TracksStutter == Tracks /\ UNCHANGED vars => Tracks'
  <1> SUFFICES ASSUME Tracks, UNCHANGED vars
               PROVE  Tracks'
    OBVIOUS
  <1>1. disk' = disk /\ mgr' = mgr /\ lw' = lw /\ batch' = batch /\ flights' = flights
        /\ scan' = scan /\ ghost' = ghost
    BY DEF vars
  <1>2. DirsUnwritten'
    BY <1>1 DEF Tracks, DirsUnwritten, WatchesUnwritten
  <1>3. OwedFits' /\ MergedKnown'
    BY <1>1 DEF Tracks, OwedFits, MergedKnown, Both
  <1>4. \A g \in Gens, p \in ghost.owed \ ghost.merged : Followed(g, p) => Followed(g, p)'
    BY <1>1 DEF Followed, Whole, OnWhole, Newest, InHand, Kept, Queued, Somewhere, Noted, Replays,
                Debounced, InBatch, SetOut, Fits, Present
  <1>5. Tracking'
    BY <1>1, <1>4 DEF Tracks, Tracking
  <1> QED BY <1>2, <1>3, <1>5 DEF Tracks

\* Every step keeps it.
LEMMA TracksInductive == IInv /\ Tracks /\ [Next]_vars => Tracks'
  <1> SUFFICES ASSUME IInv, Tracks, [Next]_vars
               PROVE  Tracks'
    OBVIOUS
  <1>1. CASE Next
    <2>1. DirsUnwritten'
      BY <1>1, UnwrittenStep DEF Tracks
    <2>2. OwedFits'
      BY <1>1, OwedStep DEF Tracks
    <2>3. MergedKnown'
      BY <1>1, MergedStep DEF Tracks
    <2>4. Tracking'
      BY <1>1, TrackingStep
    <2> QED BY <2>1, <2>2, <2>3, <2>4 DEF Tracks
  <1> QED BY <1>1, TracksStutter

\* ChangeTracked: no change to a watched path falls between the queue, the paused
\* set, the debouncers, the batches, the scans' replays and the dirty flag, except
\* that of a path whose removal was merged with a creation or a later edit.
THEOREM EveryChangeIsTracked == Spec => []ChangeTracked
  <1>1. Init => IInv /\ Tracks
    BY Initially, TracksInitially
  <1>2. (IInv /\ Tracks) /\ [Next]_vars => (IInv /\ Tracks)'
    BY Inductive, TracksInductive
  <1>3. IInv /\ Tracks => ChangeTracked
    BY TracksImply
  <1> QED BY <1>1, <1>2, <1>3, PTL DEF Spec

=============================================================================
