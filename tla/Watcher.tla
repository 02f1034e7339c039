-------------------------------- MODULE Watcher --------------------------------
(***************************************************************************)
(* The filesystem watcher of one library with one root:                    *)
(* internal/watcher.Manager.                                               *)
(*                                                                         *)
(* A reconciler rebuilds the watcher when the library's settings change; a *)
(* rebuild invalidates the generation of everything the old watcher has in *)
(* flight and joins it.  Scans pause the watcher while they run.  Events   *)
(* are debounced into batches whose timers run on goroutines of their own. *)
(* A watcher is named by the generation that armed it.  The paths lie in   *)
(* one directory.  A timer callback that finds another timer armed in its  *)
(* place does nothing and is left out.                                     *)
(***************************************************************************)
EXTENDS Naturals, Sequences, FiniteSets

CONSTANTS
  Media,     \* primary media files
  Sidecars,  \* NFOs, images, subtitles; Heya writes some of them itself
  Dirs,      \* directories below the root
  Scans,     \* jobs that bracket their work with Pause and Resume
  MaxGen,    \* bound on the generations
  MaxQueue,  \* bound on the kernel's event queue
  MaxPaused, \* maxPausedWatcherPaths
  Limits     \* how often the environment acts (see LimitNames)

Paths == Media \cup Sidecars \cup Dirs
Gens == 1..MaxGen
LimitNames == {"all", "change", "publish", "setting", "early", "stall", "fault"}

ASSUME PathsAssumption ==
  /\ "none" \notin Media \cup Sidecars \cup Dirs
  /\ Media \cap Sidecars = {} /\ Media \cap Dirs = {} /\ Sidecars \cap Dirs = {}
ASSUME BoundsAssumption ==
  /\ MaxGen \in Nat \ {0} /\ MaxQueue \in Nat \ {0} /\ MaxPaused \in Nat \ {0}
ASSUME LimitsAssumption == Limits \in [LimitNames -> Nat]

VARIABLES
  disk,    \* per path: whose bytes are there, "none" when it is absent
  record,  \* per sidecar: the suppression record, "due" until it is registered
  lib,     \* the library's row: whether it is to be watched, whether it exists
  mgr,     \* Manager: generation, pause depth, registered watcher, walk, ...
  lw,      \* per generation: its LibraryWatcher
  batch,   \* softDeletes, sidecarRescans, rescanTimers
  flights, \* batches taken from their map and not yet inserted
  keeper,  \* the holder of reconcileMu
  scan,    \* per scan: where it is, what its Resume still replays
  ghost,   \* history: changes nobody has asked a scan for; merged paths;
           \* whether a request came after its generation had been joined
  left     \* what is left of Limits

vars == <<disk, record, lib, mgr, lw, batch, flights, keeper, scan, ghost, left>>
world == <<disk, record, lib>>

Spend(n) ==
  /\ left[n] > 0 /\ left["all"] > 0
  /\ left' = [left EXCEPT ![n] = @ - 1, !["all"] = @ - 1]
Kinds == {"soft", "side", "rescan"}
NoBatch == [gen |-> 0, paths |-> {}, timer |-> "none"]
NoEvent == [path |-> "none", ops |-> {}]
NoWatcher ==
  [arm |-> "none", cancelled |-> FALSE, depth |-> 0, dirty |-> FALSE,
   paused |-> [p \in Paths |-> {}], edits |-> {}, timer |-> "none",
   queue |-> << >>, overflow |-> FALSE, loop |-> "off", event |-> NoEvent]
NothingToReplay == [p \in Paths |-> {}]

Init ==
  /\ disk \in [Paths -> {"none", "user"}]
  /\ record = [s \in Sidecars |-> "none"]
  /\ lib = [watch |-> TRUE, exists |-> TRUE]
  /\ mgr = [gen |-> 0, depth |-> 0, watcher |-> 0, walk |-> 0,
            desired |-> "unknown", stopped |-> FALSE]
  /\ lw = [g \in Gens |-> NoWatcher]
  /\ batch = [k \in Kinds |-> NoBatch]
  /\ flights = {}
  /\ keeper = [pc |-> "idle", why |-> "none", gen |-> 0]
  /\ scan = [s \in Scans |-> [pc |-> "idle", gen |-> 0, todo |-> NothingToReplay]]
  /\ ghost = [owed |-> {}, merged |-> {}, late |-> FALSE]
  /\ left = Limits

generationCurrent(g) == ~mgr.stopped /\ mgr.gen = g

-----------------------------------------------------------------------------
(***************************************************************************)
(* The directory.  Every change is an event for each watch on it; a full   *)
(* kernel queue drops the event and reports an overflow.                   *)
(***************************************************************************)
Watches(g) == lw[g].arm \in {"walked", "live"} /\ ~lw[g].cancelled
Deliver(p, op) ==
  lw' = [g \in Gens |->
           IF ~Watches(g) THEN lw[g]
           ELSE IF Len(lw[g].queue) < MaxQueue
                THEN [lw[g] EXCEPT !.queue = Append(@, [path |-> p, ops |-> {op}])]
                ELSE [lw[g] EXCEPT !.overflow = TRUE]]
Owe(p) ==
  ghost' = IF \E g \in Gens : Watches(g) /\ mgr.watcher = g
           THEN [ghost EXCEPT !.owed = @ \cup {p}] ELSE ghost
ChangeFrame == UNCHANGED <<record, lib, mgr, batch, flights, keeper, scan>>

Adds(p) ==
  /\ disk[p] = "none" /\ Spend("change")
  /\ disk' = [disk EXCEPT ![p] = "user"]
  /\ Deliver(p, "create") /\ Owe(p) /\ ChangeFrame
Edits(p) ==
  /\ disk[p] # "none" /\ p \notin Dirs /\ Spend("change")
  /\ disk' = [disk EXCEPT ![p] = "user"]
  /\ Deliver(p, "write") /\ Owe(p) /\ ChangeFrame
Removes(p) ==
  /\ disk[p] # "none" /\ Spend("change")
  /\ disk' = [disk EXCEPT ![p] = "none"]
  /\ Deliver(p, "remove") /\ Owe(p) /\ ChangeFrame

\* A publication by Heya: what it writes it need not be told of.  Registration
\* follows, and fails when the user has edited the file meanwhile.
Publishes(s) ==
  /\ disk[s] # "user" /\ Spend("publish")
  /\ disk' = [disk EXCEPT ![s] = "heya"]
  /\ record' = [record EXCEPT ![s] = "due"]
  /\ Deliver(s, "create")
  /\ ghost' = [ghost EXCEPT !.owed = @ \ {s}]
  /\ UNCHANGED <<lib, mgr, batch, flights, keeper, scan>>
SuppressGeneratedWrite(s) ==
  /\ record[s] = "due"
  /\ record' = [record EXCEPT ![s] = IF disk[s] = "heya" THEN "kept" ELSE "none"]
  /\ UNCHANGED <<disk, lib, mgr, lw, batch, flights, keeper, scan, ghost, left>>
\* Its lifetime is over, or a full table evicts it.
Expires(s) ==
  /\ record[s] = "kept"
  /\ record' = [record EXCEPT ![s] = "none"]
  /\ UNCHANGED <<disk, lib, mgr, lw, batch, flights, keeper, scan, ghost, left>>

Sets(setting) ==
  /\ lib.exists /\ Spend("setting")
  /\ lib' \in {[lib EXCEPT !.watch = ~@], [lib EXCEPT !.exists = FALSE]}
  /\ setting = lib'
  /\ UNCHANGED <<disk, record, mgr, lw, batch, flights, keeper, scan, ghost>>

-----------------------------------------------------------------------------
(***************************************************************************)
(* Debouncing.                                                             *)
(***************************************************************************)
\* shouldSuppressGeneratedEvent.
\* (Mutant: a record suppresses whatever stands at its path.)
HasRecord(p) == p \in Sidecars /\ record[p] = "kept"
Suppressed(p) == p \in Sidecars /\ record[p] = "kept" /\ disk[p] = "heya"

\* enqueueSoftDelete, enqueueSidecarRescan, enqueueRescan: admitted under the
\* manager's lock, a batch of another generation is replaced, the timer restarts.
Batched(b, k, g, ps) ==
  IF ~generationCurrent(g) THEN b
  ELSE [b EXCEPT ![k] = [gen |-> g, timer |-> "armed",
                         paths |-> ps \cup (IF @.gen = g THEN @.paths ELSE {})]]

\* handleEvent, for an event of the loop or a replayed one; a new directory is
\* scanned at once, by whoever handles the event.
Vanished(e) == "create" \in e.ops /\ disk[e.path] = "none"
NewDir(e) == "create" \in e.ops /\ disk[e.path] # "none" /\ e.path \in Dirs
Gone(e) == ~Vanished(e) /\ ~NewDir(e) /\ "remove" \in e.ops
Edited(e) == ~Vanished(e) /\ ~NewDir(e) /\ ~Gone(e) /\ e.path \notin Dirs
handleEvent(g, e, by) ==
  /\ batch' = IF ~Gone(e) THEN batch
              ELSE IF e.path \in Media THEN Batched(batch, "soft", g, {e.path})
              ELSE IF e.path \in Sidecars THEN Batched(batch, "side", g, {e.path})
              ELSE Batched(batch, "rescan", g, {})
  /\ flights' = IF NewDir(e) /\ generationCurrent(g)
                THEN flights \cup {[kind |-> "dir", gen |-> g, paths |-> {e.path}, by |-> by]} ELSE flights
WithEdit(l, e) ==
  IF Edited(e) THEN [l EXCEPT !.edits = @ \cup {e.path}, !.timer = "armed"] ELSE l

-----------------------------------------------------------------------------
(***************************************************************************)
(* The event loop.                                                         *)
(***************************************************************************)
LoopFrame == UNCHANGED <<world, mgr, keeper, scan, left>>

\* A paused loop merges the event into what it keeps, or gives up on keeping.
\* (Mutant: it gives up and notes nothing.)
HeldForgetful(l, e) ==
  IF Cardinality({p \in Paths : l.paused[p] # {}}) >= MaxPaused
  THEN [l EXCEPT !.paused = NothingToReplay]
  ELSE [l EXCEPT !.paused[e.path] = @ \cup e.ops]
Held(l, e) ==
  IF Cardinality({p \in Paths : l.paused[p] # {}}) >= MaxPaused
  THEN [l EXCEPT !.paused = NothingToReplay, !.dirty = TRUE]
  ELSE IF l.dirty THEN l
  ELSE [l EXCEPT !.paused[e.path] = @ \cup e.ops]
\* The merged set no longer tells the order: a removal hides the creation it
\* was merged with, or the edit merged after it.
Mixed(l, e) ==
  {p \in {e.path} : /\ ~l.dirty /\ "remove" \in l.paused[p]
                    /\ "create" \in l.paused[p] \/ "write" \in e.ops}

Receive(g) ==
  /\ lw[g].loop = "wait" /\ lw[g].queue # << >>
  /\ LET e == Head(lw[g].queue)
         rest == [lw[g] EXCEPT !.queue = Tail(@)]
     IN IF lw[g].depth > 0
        THEN /\ lw' = [lw EXCEPT ![g] = Held(rest, e)]
             /\ ghost' = [ghost EXCEPT !.merged = @ \cup Mixed(lw'[g], e)]
        ELSE lw' = [lw EXCEPT ![g] = [rest EXCEPT !.loop = "handle", !.event = e]]
             /\ UNCHANGED ghost
  /\ UNCHANGED <<batch, flights>> /\ LoopFrame
Handle(g) ==
  /\ lw[g].loop = "handle"
  /\ handleEvent(g, lw[g].event, "loop")
  /\ lw' = [lw EXCEPT ![g] =
              [WithEdit(@, lw[g].event) EXCEPT
                 !.loop = IF NewDir(lw[g].event) /\ generationCurrent(g) THEN "insert" ELSE "wait", !.event = NoEvent]]
  /\ UNCHANGED ghost /\ LoopFrame
\* handleWatcherError, markWatcherDirty.
MarkDirty(g) ==
  /\ lw[g].loop = "wait" /\ lw[g].overflow
  /\ LET ready == generationCurrent(g) /\ mgr.depth = 0
     IN /\ lw' = [lw EXCEPT ![g] = [@ EXCEPT !.overflow = FALSE, !.dirty = ~ready]]
        /\ batch' = IF ready THEN Batched(batch, "rescan", g, {}) ELSE batch
  /\ UNCHANGED <<flights, ghost>> /\ LoopFrame
\* The context is cancelled; the deferred stopPendingEvents.
Drained(l) == [l EXCEPT !.paused = NothingToReplay, !.edits = {}, !.timer = "none"]
Exit(g) ==
  /\ lw[g].loop = "wait" /\ lw[g].cancelled
  /\ lw' = [lw EXCEPT ![g] = [Drained(@) EXCEPT !.loop = "off", !.queue = << >>]]
  /\ UNCHANGED <<batch, flights, ghost>> /\ LoopFrame

-----------------------------------------------------------------------------
(***************************************************************************)
(* Timers.  A callback is admitted into its generation, takes its batch    *)
(* under the batch's lock, looks at the generation again and inserts.      *)
(***************************************************************************)
TimerFrame == UNCHANGED <<world, mgr, keeper, scan, left>>

Admit(k) ==
  /\ batch[k].timer = "armed"
  /\ batch' = [batch EXCEPT ![k].timer =
                 IF generationCurrent(batch[k].gen) THEN "admitted" ELSE "refused"]
  /\ UNCHANGED <<lw, flights, ghost>> /\ TimerFrame
Take(k) ==
  /\ batch[k].timer = "admitted"
  /\ batch' = [batch EXCEPT ![k] = NoBatch]
  /\ LET b == batch[k]
         ps == IF k = "side" THEN {p \in b.paths : ~Suppressed(p)} ELSE b.paths
     IN flights' = IF generationCurrent(b.gen) /\ (ps # {} \/ k = "rescan")
                   THEN flights \cup {[kind |-> k, gen |-> b.gen, paths |-> ps, by |-> "timer"]} ELSE flights
  /\ UNCHANGED <<lw, ghost>> /\ TimerFrame
AdmitEdits(g) ==
  /\ lw[g].timer = "armed"
  /\ lw' = [lw EXCEPT ![g].timer = IF generationCurrent(g) THEN "admitted" ELSE "refused"]
  /\ UNCHANGED <<batch, flights, ghost>> /\ TimerFrame
TakeEdits(g) ==
  /\ lw[g].timer = "admitted"
  /\ lw' = [lw EXCEPT ![g] = [@ EXCEPT !.edits = {}, !.timer = "none"]]
  /\ LET ps == {p \in lw[g].edits : ~Suppressed(p)}
     IN flights' = IF generationCurrent(g) /\ ps # {}
                   THEN flights \cup {[kind |-> "edit", gen |-> g, paths |-> ps, by |-> "timer"]} ELSE flights
  /\ UNCHANGED <<batch, ghost>> /\ TimerFrame

\* What a request makes good: a scoped scan what is there, a soft delete what is
\* gone, a forced or a whole scan whatever it names.
Covers(f) ==
  CASE f.kind \in {"edit", "dir"} -> {p \in Paths : disk[p] # "none"}
    [] f.kind = "soft" -> {p \in f.paths : disk[p] = "none"}
    [] f.kind = "side" -> f.paths
    [] f.kind = "rescan" -> Paths
\* A directory scan belongs to the loop that found the directory.
Landed(f) ==
  lw' = IF f.by = "loop"
        THEN [lw EXCEPT ![f.gen].loop = "wait"] ELSE lw
Joined(g) == ~generationCurrent(g) /\ keeper.pc \in {"idle", "drain2", "arm"}
\* A whole scan is asked for through a callback; everything else is an insert
\* under the watcher's context, which may fail.
Insert(f) ==
  /\ f \in flights /\ flights' = flights \ {f} /\ Landed(f)
  /\ \/ /\ f.kind = "rescan" \/ ~lw[f.gen].cancelled
        /\ ghost' = [ghost EXCEPT !.owed = @ \ Covers(f), !.late = @ \/ Joined(f.gen)]
        /\ UNCHANGED left
     \/ /\ f.kind # "rescan"
        /\ IF lw[f.gen].cancelled THEN UNCHANGED left ELSE Spend("fault")
        /\ ghost' = [ghost EXCEPT !.owed = @ \ (f.paths \cup Covers(f))]
  /\ UNCHANGED <<world, mgr, batch, keeper, scan>>

-----------------------------------------------------------------------------
(***************************************************************************)
(* Pause and Resume, around a scan.                                        *)
(***************************************************************************)
ScanFrame == UNCHANGED <<world, keeper, left>>
SetDepth(d) ==
  /\ mgr' = [mgr EXCEPT !.depth = d]
  /\ lw' = [g \in Gens |-> IF mgr.watcher = g THEN [lw[g] EXCEPT !.depth = d] ELSE lw[g]]

\* (Mutant: lowered below zero.)
LoweredAlways == mgr.depth - 1
Lowered == IF mgr.depth > 0 THEN mgr.depth - 1 ELSE 0

Pause(s) ==
  /\ scan[s].pc = "idle"
  /\ scan' = [scan EXCEPT ![s].pc = "scanning"]
  /\ IF mgr.stopped THEN UNCHANGED <<mgr, lw>> ELSE SetDepth(mgr.depth + 1)
  /\ UNCHANGED <<batch, flights, ghost>> /\ ScanFrame
Resume(s) ==
  /\ scan[s].pc = "scanning"
  /\ IF mgr.stopped
     THEN scan' = [scan EXCEPT ![s].pc = "idle"] /\ UNCHANGED <<mgr, lw>>
     ELSE /\ SetDepth(Lowered)
          /\ scan' = [scan EXCEPT ![s] =
               IF mgr'.depth = 0 /\ mgr.watcher # 0
               THEN [@ EXCEPT !.pc = "take", !.gen = mgr.watcher]
               ELSE [@ EXCEPT !.pc = "idle"]]
  /\ UNCHANGED <<batch, flights, ghost>> /\ ScanFrame
TakePaused(s) ==
  /\ scan[s].pc = "take"
  /\ LET g == scan[s].gen
     IN /\ scan' = [scan EXCEPT ![s] = [@ EXCEPT !.pc = "replay", !.todo = lw[g].paused]]
        /\ lw' = [lw EXCEPT ![g].paused = NothingToReplay]
  /\ UNCHANGED <<mgr, batch, flights, ghost>> /\ ScanFrame
\* The kept paths are handled one by one; then the dirty flag is swapped.
Replay(s, p) ==
  /\ scan[s].pc = "replay" /\ scan[s].todo[p] # {}
  /\ LET g == scan[s].gen
         e == [path |-> p, ops |-> scan[s].todo[p]]
     IN handleEvent(g, e, "resume") /\ lw' = [lw EXCEPT ![g] = WithEdit(@, e)]
  /\ scan' = [scan EXCEPT ![s].todo[p] = {}]
  /\ UNCHANGED <<mgr, ghost>> /\ ScanFrame
SwapDirty(s) ==
  /\ scan[s].pc = "replay" /\ scan[s].todo = NothingToReplay
  /\ LET g == scan[s].gen
     IN /\ lw' = [lw EXCEPT ![g].dirty = FALSE]
        /\ batch' = IF lw[g].dirty THEN Batched(batch, "rescan", g, {}) ELSE batch
  /\ scan' = [scan EXCEPT ![s] = [@ EXCEPT !.pc = "idle", !.gen = 0]]
  /\ UNCHANGED <<mgr, flights, ghost>> /\ ScanFrame

-----------------------------------------------------------------------------
(***************************************************************************)
(* The reconciler: resetLibrary, then watch under the new generation.      *)
(***************************************************************************)
KeepFrame == UNCHANGED <<world, scan>>
Desired == IF lib.watch THEN "on" ELSE "off"
\* An abandoned walk of a wanted root counts as a watcher.
Actual ==
  IF mgr.watcher # 0 \/ (lib.watch /\ mgr.walk # 0) THEN "on" ELSE "off"
\* (Mutant: only the wanted roots are compared.)
SameDesired == mgr.desired = Desired
InSync == mgr.desired = Desired /\ Actual = Desired

\* SyncLibrary or a Reconcile that finds the library changed or out of step (it
\* may be so early that the new generation has not reserved its slot yet);
\* an Unwatch; StopAll.
Invalidate(why) ==
  /\ keeper.pc = "idle" /\ ~mgr.stopped
  /\ CASE why = "sync"    -> lib.exists /\ ~InSync /\ mgr.gen < MaxGen
       [] why = "unwatch" -> ~lib.exists /\ mgr.desired # "unknown" /\ mgr.gen < MaxGen
       [] why = "stop"    -> TRUE
  /\ IF why = "sync" /\ mgr.desired = Desired /\ lw[mgr.gen].arm = "new"
     THEN Spend("early") ELSE UNCHANGED left
  /\ keeper' = [pc |-> "drain", why |-> why, gen |-> mgr.watcher]
  /\ mgr' = IF why = "stop"
            THEN [mgr EXCEPT !.stopped = TRUE, !.watcher = 0, !.walk = 0, !.depth = 0,
                             !.desired = "unknown"]
            ELSE [mgr EXCEPT !.gen = @ + 1, !.watcher = 0]
  /\ ghost' = [ghost EXCEPT !.owed = {}, !.merged = {}]
  /\ UNCHANGED <<lw, batch, flights>> /\ KeepFrame
\* stopPendingEvents, cancel, Close.
Drain ==
  /\ keeper.pc = "drain" /\ keeper' = [keeper EXCEPT !.pc = "cancel"]
  /\ lw' = [g \in Gens |-> IF g = keeper.gen
                           THEN [Drained(lw[g]) EXCEPT !.cancelled = TRUE] ELSE lw[g]]
  /\ UNCHANGED <<mgr, batch, flights, ghost, left>> /\ KeepFrame
cancelPendingEnqueues ==
  /\ keeper.pc = "cancel" /\ keeper' = [keeper EXCEPT !.pc = "wait"]
  /\ batch' = [k \in Kinds |-> NoBatch]
  /\ UNCHANGED <<mgr, lw, flights, ghost, left>> /\ KeepFrame
\* Every loop and every admitted callback of the generation has ended.
ActivityOf(g) ==
  \/ lw[g].loop # "off" \/ lw[g].timer = "admitted"
  \/ \E k \in Kinds : batch[k].gen = g /\ batch[k].timer = "admitted"
  \/ \E f \in flights : f.gen = g /\ f.by # "resume"
\* (Mutant: only the loops are joined.)
LoopsEnded == \A g \in Gens : g = keeper.gen => lw[g].loop = "off"
ActivitiesEnded == \A g \in Gens : g = keeper.gen => ~ActivityOf(g)
Wait ==
  /\ keeper.pc = "wait" /\ ActivitiesEnded
  /\ keeper' = [keeper EXCEPT !.pc = "drain2"]
  /\ UNCHANGED <<mgr, lw, batch, flights, ghost, left>> /\ KeepFrame
DrainAgain ==
  /\ keeper.pc = "drain2" /\ keeper' = [keeper EXCEPT !.pc = "arm"]
  /\ lw' = [g \in Gens |-> IF g = keeper.gen THEN Drained(lw[g]) ELSE lw[g]]
  /\ UNCHANGED <<mgr, batch, flights, ghost, left>> /\ KeepFrame
\* The caller: start the walk of the new generation and note what is wanted, or
\* forget the library.
Finish ==
  /\ keeper.pc = "arm" /\ keeper' = [pc |-> "idle", why |-> "none", gen |-> 0]
  /\ \/ /\ keeper.why = "sync"
        /\ mgr' = [mgr EXCEPT !.desired = Desired]
        /\ lw' = IF lib.watch THEN [lw EXCEPT ![mgr.gen].arm = "new"] ELSE lw
     \/ /\ keeper.why = "unwatch"
        /\ mgr' = [mgr EXCEPT !.desired = "unknown", !.depth = 0, !.gen = 0] /\ UNCHANGED lw
     \/ keeper.why = "stop" /\ UNCHANGED <<mgr, lw>>
  /\ UNCHANGED <<batch, flights, ghost, left>> /\ KeepFrame

-----------------------------------------------------------------------------
(***************************************************************************)
(* watch: reserve the slot, walk the tree without the lock, commit.        *)
(***************************************************************************)
WatchFrame == UNCHANGED <<world, batch, flights, keeper, scan, ghost>>
Armed(g, a) == lw' = [lw EXCEPT ![g].arm = a]

Reserve(g) ==
  /\ lw[g].arm = "new"
  /\ IF generationCurrent(g) /\ mgr.watcher = 0 /\ mgr.walk = 0
     THEN /\ mgr' = [mgr EXCEPT !.watcher = g, !.walk = g]
          /\ lw' = [lw EXCEPT ![g] = [@ EXCEPT !.arm = "walking", !.depth = mgr.depth]]
     ELSE Armed(g, "closed") /\ UNCHANGED mgr
  /\ UNCHANGED left /\ WatchFrame
\* The walk ends and removes its attempt; the wrapper may have given up on it.
WalkEnds(g) ==
  /\ lw[g].arm = "walking" /\ Armed(g, "walked")
  /\ mgr' = [mgr EXCEPT !.walk = IF @ = g THEN 0 ELSE @]
  /\ UNCHANGED left /\ WatchFrame
WalkStalls(g) ==
  /\ lw[g].arm = "walking"
  /\ IF lw[g].cancelled THEN UNCHANGED left ELSE Spend("stall")
  /\ Armed(g, "stalled") /\ UNCHANGED mgr /\ WatchFrame
AbandonedWalkEnds(g) ==
  /\ mgr.walk = g /\ lw[g].arm \in {"stalled", "closed"}
  /\ mgr' = [mgr EXCEPT !.walk = 0]
  /\ UNCHANGED <<lw, left>> /\ WatchFrame
\* The commit is refused when the watcher was removed meanwhile.
Commit(g) ==
  /\ lw[g].arm \in {"walked", "stalled"}
  /\ LET mine == generationCurrent(g) /\ mgr.watcher = g
     IN /\ lw' = [lw EXCEPT ![g] =
                    IF mine /\ @.arm = "walked" THEN [@ EXCEPT !.arm = "live", !.loop = "wait"]
                    ELSE [@ EXCEPT !.arm = "closed", !.cancelled = TRUE]]
        /\ mgr' = IF mine /\ lw[g].arm = "stalled" THEN [mgr EXCEPT !.watcher = 0] ELSE mgr
  /\ UNCHANGED left /\ WatchFrame

-----------------------------------------------------------------------------
Loop(g) == Receive(g) \/ Handle(g) \/ MarkDirty(g) \/ Exit(g)
Timers == (\E k \in Kinds : Admit(k) \/ Take(k)) \/ \E g \in Gens : AdmitEdits(g) \/ TakeEdits(g)
Inserts == \E f \in flights : Insert(f)
Resumes(s) ==
  Resume(s) \/ TakePaused(s) \/ SwapDirty(s) \/ \E p \in Paths : Replay(s, p)
Keeps ==
  \/ Invalidate("sync") \/ Invalidate("unwatch") \/ Drain \/ cancelPendingEnqueues
  \/ Wait \/ DrainAgain \/ Finish
Arms(g) ==
  Reserve(g) \/ WalkEnds(g) \/ AbandonedWalkEnds(g) \/ Commit(g)

Next ==
  \/ \E p \in Paths : Adds(p) \/ Edits(p) \/ Removes(p)
  \/ \E s \in Sidecars : Publishes(s) \/ SuppressGeneratedWrite(s) \/ Expires(s)
  \/ \E b \in BOOLEAN, x \in BOOLEAN : Sets([watch |-> b, exists |-> x])
  \/ \E g \in Gens : Loop(g) \/ Arms(g) \/ WalkStalls(g)
  \/ Timers \/ Inserts
  \/ \E s \in Scans : Pause(s) \/ Resumes(s)
  \/ Keeps \/ Invalidate("stop")

Fairness ==
  /\ \A g \in Gens : WF_vars(Loop(g)) /\ WF_vars(Arms(g))
  /\ \A k \in Kinds : WF_vars(Admit(k) \/ Take(k))
  /\ \A g \in Gens : WF_vars(AdmitEdits(g) \/ TakeEdits(g))
  /\ WF_vars(Inserts) /\ WF_vars(Keeps)
  /\ \A s \in Scans : WF_vars(Resumes(s))
Spec == Init /\ [][Next]_vars
FairSpec == Spec /\ Fairness

-----------------------------------------------------------------------------
Events == [path : Paths, ops : {{"create"}, {"write"}, {"remove"}}]
Watchers ==
  [arm : {"none", "new", "walking", "walked", "stalled", "live", "closed"},
   cancelled : BOOLEAN, depth : Nat, dirty : BOOLEAN,
   paused : [Paths -> SUBSET {"create", "write", "remove"}], edits : SUBSET Paths,
   timer : {"none", "armed", "admitted", "refused"}, queue : Seq(Events),
   overflow : BOOLEAN, loop : {"off", "wait", "handle", "insert"}, event : Events \cup {NoEvent}]
Flights ==
  [kind : Kinds \cup {"edit", "dir"}, gen : Gens, paths : SUBSET Paths,
   by : {"timer", "loop", "resume"}]

\* Every variable keeps the shape the code gives it.
TypeOK ==
  /\ disk \in [Paths -> {"none", "user", "heya"}]
  /\ record \in [Sidecars -> {"none", "due", "kept"}]
  /\ lib \in [watch : BOOLEAN, exists : BOOLEAN]
  /\ mgr \in [gen : 0..MaxGen, depth : Nat, watcher : 0..MaxGen, walk : 0..MaxGen,
             desired : {"unknown", "on", "off"}, stopped : BOOLEAN]
  /\ lw \in [Gens -> Watchers]
  /\ batch \in [Kinds -> [gen : 0..MaxGen, paths : SUBSET Paths,
                          timer : {"none", "armed", "admitted", "refused"}]]
  /\ flights \in SUBSET Flights
  /\ keeper \in [pc : {"idle", "drain", "cancel", "wait", "drain2", "arm"},
                 why : {"none", "sync", "unwatch", "stop"}, gen : 0..MaxGen]
  /\ scan \in [Scans -> [pc : {"idle", "scanning", "take", "replay"}, gen : 0..MaxGen,
                         todo : [Paths -> SUBSET {"create", "write", "remove"}]]]
  /\ ghost \in [owed : SUBSET Paths, merged : SUBSET Paths, late : BOOLEAN]
  /\ left \in [LimitNames -> Nat]

\* Where a change may be waiting to become a request.
Tracked(p) ==
  LET g == mgr.watcher
  IN \/ g # 0 /\ \/ lw[g].overflow \/ lw[g].dirty
                 \/ \E i \in 1..Len(lw[g].queue) : lw[g].queue[i].path = p
                 \/ lw[g].event.path = p \/ lw[g].paused[p] # {}
                 \/ p \in lw[g].edits
     \/ \E k \in Kinds : p \in batch[k].paths \/ (k = "rescan" /\ batch[k].timer # "none")
     \/ \E f \in flights : p \in f.paths \/ f.kind = "rescan"
     \/ \E s \in Scans : scan[s].todo[p] # {}

\* No change to a watched path falls between the queue, the paused set, the
\* debouncers, the batches and the dirty flag, and no suppression of Heya's own
\* write hides an edit of the user; the one exception is a path whose removal
\* was merged with its creation, or with a later edit, while the watcher was
\* paused.
ChangeTracked == \A p \in ghost.owed \ ghost.merged : Tracked(p)

\* Once a rebuild, an Unwatch or a StopAll has joined a generation, nothing is
\* requested on its behalf any more.
NothingLate == ~ghost.late

\* Every change is asked for in the end.
ChangesAreScanned ==
  \A p \in Paths : p \in ghost.owed ~> p \notin ghost.owed \ ghost.merged

\* A library that stays to be watched ends up with a live watcher, through
\* rebuilds and walks that stalled.
WatchConverges ==
  <>[](lib.watch /\ lib.exists /\ ~mgr.stopped) =>
    <>[](mgr.watcher # 0 /\ lw[mgr.watcher].arm = "live")
=============================================================================
