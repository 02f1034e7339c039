----------------------------- MODULE KickoffPump -----------------------------
(***************************************************************************)
(* One pump task of the scheduler: the kickoff job that stays active for   *)
(* a whole run, snoozing between wakes and topping the work queue up wave  *)
(* by wave (internal/worker/kickoff_workers.go), the Run Now / cron        *)
(* trigger and the orphan reaper (internal/scheduler/scheduler.go), the    *)
(* SQL they share (internal/queueops/river_jobs.go) and the user's cancel  *)
(* (internal/service/jobs.go, tasks.go).                                   *)
(*                                                                         *)
(* Every SQL statement is one step; what a Go function keeps in a local    *)
(* between two statements is a variable here.  River (the job queue) is    *)
(* external: a row is queued (available, scheduled or retryable), running  *)
(* or final.                                                               *)
(***************************************************************************)
EXTENDS Naturals, FiniteSets

CONSTANTS
  NItems,        \* work items (tracks) have ids 1..NItems
  Cleanup,       \* items that lack only CLAP windows (sonic task; else {})
  Batch,         \* the wave size (sonicKickoffBatch, kickoff...TrackBatch)
  Sonic,         \* TRUE: the sonic pump, with a feature switch and one Insert
                 \* per item; FALSE: fingerprints or segments, one InsertMany
  MaxErrStreak,  \* pumpMaxErrStreak
  MaxTries,      \* attempts of TriggerNow's upgrade loop
  Clickers,      \* users pressing Run Now, once each
  Limits         \* how often the environment acts (see LimitNames)

LimitNames == {"crash", "fault", "arrive", "toggle", "cron", "cancel", "retry"}

ASSUME SizesAssumption ==
  /\ NItems \in Nat /\ Cleanup \subseteq 1..NItems /\ Batch \in Nat \ {0}
  /\ MaxErrStreak \in Nat \ {0} /\ MaxTries \in Nat \ {0}
  /\ Sonic \in BOOLEAN /\ (Sonic \/ Cleanup = {})
ASSUME LimitsAssumption == Limits \in [LimitNames -> Nat]

VARIABLES
  row,     \* the task's kickoff row in river_job, with its metadata
  task,    \* the scheduled_tasks row and the settings a wake reads
  need,    \* which items still need work
  job,     \* the work job of each item (unique per item)
  st,      \* pumpState of the wake in progress
  wake,    \* the other locals of the wake in progress
  ctx,     \* context of the running wake: live, signalled, dead
  proc,    \* the worker process: up, stopping, down
  click,   \* TriggerNow(manual = TRUE), one per user
  cancel,  \* CancelTask
  reap,    \* enforceTaskMaxRuntime
  left,    \* what is left of Limits
  ghost    \* history, read by no action's guard

dbVars   == <<row, task, need, job>>
pumpVars == <<st, wake, ctx>>
vars == <<row, task, need, job, st, wake, ctx, proc, click, cancel, reap,
          left, ghost>>

Items   == 1..NItems
Sources == {"cron", "manual"}
RowStates == {"none", "queued", "running", "completed", "discarded", "cancelled"}

(***************************************************************************)
(* The kickoff row, and what a wake remembers of it.                       *)
(***************************************************************************)
\* kickoffActiveStates: the states in which the row holds its unique key.
Active(r) == r.state \in {"queued", "running"}

\* pumpState.  skipped is the Skipped counter compared with zero; the
\* Enqueued and Failed counters only feed the task's statistics.
PumpState(src, cur, skip, final, errs) ==
  [source |-> src, cursor |-> cur, skipped |-> skip, final |-> final, errs |-> errs]

FreshRow(src) ==
  [state |-> "queued", source |-> src, finishing |-> FALSE, cursor |-> 0,
   skipped |-> FALSE, final |-> FALSE, errs |-> 0, stamped |-> FALSE]

\* What MarkActiveKickoffManual may still upgrade.
Upgradable(r) == Active(r) /\ ~r.finishing

readPumpState(r) == PumpState(r.source, r.cursor, r.skipped, r.final, r.errs)

\* (Mutant: the patch writes the source the wake started with.)
patchSource(r, s) ==
  [r EXCEPT !.source = s.source, !.finishing = FALSE, !.cursor = s.cursor,
            !.skipped = s.skipped, !.final = s.final, !.errs = s.errs]

\* The metadata patch: every key the pump owns, finishing reset, source absent.
patch(r, s) ==
  [r EXCEPT !.finishing = FALSE, !.cursor = s.cursor, !.skipped = s.skipped,
            !.final = s.final, !.errs = s.errs]

\* restartSweep: one verification pass from zero when items were skipped.
\* (Mutant: skipped items are never swept again.)
NeverRestart(s) == FALSE
CanRestart(s) == s.skipped /\ ~s.final
restartSweep(s) == PumpState(s.source, 0, FALSE, TRUE, 0)

\* continueAsManual; every caller then clears the error streak.
continueAsManual(s) == PumpState("manual", 0, FALSE, FALSE, 0)

\* What a finishing claim reveals: a cron wake whose row was upgraded under it.
\* (Mutants: never noticed; noticed by a wake that already runs as manual.)
NeverUpgraded(s, r) == FALSE
LiveManual(s, r) == r.source = "manual"
UpgradedMidRun(s, r) == s.source # "manual" /\ r.source = "manual"

\* (Mutant: the arguments swapped.)
JobSwapped(own, src) == [state |-> "queued", own |-> src, source |-> own, old |-> FALSE]
Job(own, src) == [state |-> "queued", own |-> own, source |-> src, old |-> FALSE]
NoJob == [Job("task", "cron") EXCEPT !.state = "none"]
OwnLive(i) == job[i].own = "task" /\ job[i].state # "none"
\* (Mutant: running jobs are not counted.)
QueuedCount == Cardinality({i \in Items : OwnLive(i) /\ job[i].state = "queued"})
ActiveCount == Cardinality({i \in Items : OwnLive(i)})

\* CancelPendingByScheduledTask over the work kinds: own jobs not yet running.
CancelPendingWork ==
  [i \in Items |-> IF job[i].own = "task" /\ job[i].state = "queued"
                   THEN NoJob ELSE job[i]]

\* ListPending...: the first `want` items after the cursor, in id order.
\* The sonic query holds cleanup items back while any full analysis is due.
FullDue == {i \in Items \ Cleanup : need[i]}
Pending(cur) ==
  {i \in Items : need[i] /\ i > cur /\ (i \in Cleanup => FullDue = {})}
FirstOf(S, want) == {i \in S : Cardinality({j \in S : j <= i}) <= want}
IsLeast(i, S) == i \in S /\ \A j \in S : i <= j
IsLast(i, S)  == i \in S /\ \A j \in S : j <= i

Spend(n) == left[n] > 0 /\ left' = [left EXCEPT ![n] = @ - 1]

\* The locals of Work before it is called and after it has returned.
NoState == PumpState("cron", 0, FALSE, FALSE, 0)
NoWake == [pc |-> "idle", why |-> "drained", out |-> "snooze", active |-> 0,
           listed |-> 0, todo |-> {}]

-----------------------------------------------------------------------------
Init ==
  /\ row = [FreshRow("cron") EXCEPT !.state = "none"]
  /\ task = [enabled |-> TRUE, feature |-> TRUE, expired |-> FALSE, last |-> "never"]
  /\ need \in [Items -> BOOLEAN]
  /\ job = [i \in Items |-> NoJob]
  /\ st = NoState
  /\ wake = NoWake
  /\ ctx = "live"
  /\ proc = "up"
  /\ click = [c \in Clickers |-> [pc |-> "start", tries |-> 0]]
  /\ cancel = [pc |-> "idle", hit |-> FALSE, run |-> FALSE]
  /\ reap = "idle"
  /\ left = Limits
  /\ ghost = [promised |-> FALSE, due |-> {}, offered |-> {}]

(***************************************************************************)
(* Inserting a kickoff: River refuses a second one while one is active     *)
(* (uniqueWhileActive), so this is only enabled when none is.              *)
(***************************************************************************)
InsertKickoff(src) ==
  /\ ~Active(row)
  /\ row' = FreshRow(src)
  /\ task' = [task EXCEPT !.expired = FALSE]
  /\ cancel' = [cancel EXCEPT !.hit = FALSE]
  /\ ghost' = [promised |-> FALSE, due |-> FullDue, offered |-> {}]

\* tick: a due cron firing; with a run active the insert coalesces into it.
CronTick ==
  /\ task.enabled
  /\ Spend("cron")
  /\ InsertKickoff("cron")
  /\ UNCHANGED <<need, job, pumpVars, proc, click, reap>>

(***************************************************************************)
(* TriggerNow(manual = TRUE).                                              *)
(***************************************************************************)
ClickTo(c, pc) == click' = [click EXCEPT ![c].pc = pc]

\* The first Insert: a fresh manual run, or a duplicate.
ClickInsert(c) ==
  /\ click[c].pc = "start"
  /\ \/ /\ InsertKickoff("manual")
        /\ ClickTo(c, "markAll")
     \/ /\ Active(row)
        /\ ClickTo(c, "mark")
        /\ UNCHANGED <<row, task, cancel, ghost>>
  /\ UNCHANGED <<need, job, pumpVars, proc, reap, left>>

\* MarkActiveKickoffManual's UPDATE: skips a row that has claimed finishing.
ClickMark(c) ==
  /\ click[c].pc = "mark"
  /\ IF Upgradable(row)
     THEN /\ row' = [row EXCEPT !.source = "manual"]
          /\ ghost' = [ghost EXCEPT !.promised = TRUE]
          /\ ClickTo(c, "markAll")
     ELSE ClickTo(c, "reinsert") /\ UNCHANGED <<row, ghost>>
  /\ UNCHANGED <<task, need, job, pumpVars, proc, cancel, reap, left>>

\* MarkScheduledTaskJobsManual: every active job of the task, whatever row is
\* active by now and whether or not it is finishing.
ClickMarkAll(c) ==
  /\ click[c].pc = "markAll"
  /\ row' = IF Active(row) THEN [row EXCEPT !.source = "manual"] ELSE row
  /\ job' = [i \in Items |-> IF OwnLive(i) THEN [job[i] EXCEPT !.source = "manual"]
                                           ELSE job[i]]
  /\ ClickTo(c, "accepted")
  /\ UNCHANGED <<task, need, pumpVars, proc, cancel, reap, left, ghost>>

\* The loop's second Insert, and its give-up after MaxTries attempts.
ClickReinsert(c) ==
  /\ click[c].pc = "reinsert"
  /\ \/ /\ InsertKickoff("manual")
        /\ ClickTo(c, "accepted")
     \/ /\ Active(row)
        /\ click' = [click EXCEPT ![c] =
             [pc |-> IF @.tries + 1 < MaxTries THEN "mark" ELSE "failed",
              tries |-> @.tries + 1]]
        /\ UNCHANGED <<row, task, cancel, ghost>>
  /\ UNCHANGED <<need, job, pumpVars, proc, reap, left>>

(***************************************************************************)
(* One wake of the pump.  The steps leave `wake.pc` at the statement to    *)
(* run next; "merge" persists the state, "ret" hands the outcome to River. *)
(***************************************************************************)
Frame == UNCHANGED <<task, need, proc, click, cancel, reap>>

\* A query fails when its context is dead, or on a database fault.
Fault == IF ctx = "dead" THEN UNCHANGED left ELSE Spend("fault")
Runs  == ctx # "dead" /\ UNCHANGED left

Goto(pc) == wake' = [wake EXCEPT !.pc = pc]
Yield(how) == wake' = [wake EXCEPT !.pc = "merge", !.out = how]
ClaimFor(reason) == wake' = [wake EXCEPT !.pc = "claim", !.why = reason]

\* pumpTransientFailure: a dead context yields at once; otherwise the streak
\* grows until the run gives up, through the finishing claim.
pumpTransientFailure ==
  IF ctx = "dead" THEN Yield("interrupted") /\ UNCHANGED st
  ELSE LET errs == IF st.errs < MaxErrStreak THEN st.errs + 1 ELSE st.errs
       IN  /\ st' = [st EXCEPT !.errs = errs]
           /\ IF errs = MaxErrStreak THEN ClaimFor("giveup") ELSE Yield("snooze")

\* River hands the row to the worker with the metadata it has now.
Fetch ==
  /\ proc = "up" /\ wake.pc = "idle" /\ row.state = "queued"
  /\ row' = [row EXCEPT !.state = "running"]
  /\ st' = readPumpState(row)
  /\ Goto("check")
  /\ UNCHANGED <<job, ctx, left, ghost>> /\ Frame

\* The feature switch, then pumpShouldStop; an unreadable switch reads as off
\* (the settings default), an unreadable task row means go on.
ShouldStop == st.source # "manual" /\ (~task.enabled \/ task.expired)
Check ==
  /\ wake.pc = "check"
  /\ \/ ctx = "dead" /\ Yield("interrupted") /\ UNCHANGED left
     \/ ctx # "dead" /\ ~task.feature /\ ClaimFor("off") /\ UNCHANGED left
     \/ Sonic /\ ctx # "dead" /\ task.feature /\ Spend("fault") /\ ClaimFor("off")
     \/ Runs /\ task.feature /\ ShouldStop /\ ClaimFor("window")
     \/ Runs /\ task.feature /\ ~ShouldStop /\ Goto("count")
     \/ ctx # "dead" /\ task.feature /\ ShouldStop /\ Spend("fault") /\ Goto("count")
  /\ UNCHANGED <<row, job, st, ctx, ghost>> /\ Frame

\* pumpActiveCount; a full wave skips the listing.
Count ==
  /\ wake.pc = "count"
  /\ \/ /\ Runs
        /\ wake' = [wake EXCEPT !.active = ActiveCount, !.todo = {},
                      !.pc = IF ActiveCount < Batch THEN "list" ELSE "decide",
                      !.listed = Batch]
        /\ UNCHANGED st
     \/ Fault /\ pumpTransientFailure
  /\ UNCHANGED <<row, job, ctx, ghost>> /\ Frame

List ==
  /\ wake.pc = "list"
  /\ LET ids == FirstOf(Pending(st.cursor), Batch - wake.active)
     IN  \/ /\ Runs
            /\ wake' = [wake EXCEPT !.listed = Cardinality(ids), !.todo = ids,
                          !.pc = IF ids = {} THEN "decide" ELSE "insert"]
            /\ UNCHANGED st
         \/ Fault /\ pumpTransientFailure
  /\ UNCHANGED <<row, job, ctx, ghost>> /\ Frame

\* Insert the jobs of W (one item, or the whole wave): created where the item
\* has none, coalesced where another job holds its key, or failed as one.
Free(W) == {i \in W : job[i].state = "none"}
InsertJobs(W, last) ==
  /\ \/ /\ Runs
        /\ job' = [i \in Items |-> IF i \in Free(W)
                            THEN Job("task", st.source) ELSE job[i]]
        /\ st' = [st EXCEPT !.cursor = last, !.skipped = @ \/ Free(W) # W]
        /\ ghost' = [ghost EXCEPT !.offered = @ \cup
                       (IF st.final THEN W ELSE Free(W))]
     \/ /\ Fault
        /\ st' = [st EXCEPT !.cursor = last, !.skipped = TRUE]
        /\ ghost' = [ghost EXCEPT !.offered = @ \cup (IF st.final THEN W ELSE {})]
        /\ UNCHANGED job
  /\ wake' = [wake EXCEPT !.todo = @ \ W, !.pc = IF wake.todo = W THEN "decide" ELSE "insert"]

Insert ==
  /\ wake.pc = "insert"
  /\ \/ ctx = "dead" /\ Yield("interrupted") /\ UNCHANGED <<job, st, ghost, left>>
     \/ /\ ctx # "dead" /\ ~Sonic
        /\ \E i \in Items : IsLast(i, wake.todo) /\ InsertJobs(wake.todo, i)
     \/ /\ ctx # "dead" /\ Sonic
        /\ \E i \in Items : IsLeast(i, wake.todo) /\ InsertJobs({i}, i)
  /\ UNCHANGED <<row, ctx>> /\ Frame

\* Nothing active and nothing listed: re-sweep once, or claim the finish.
Decide ==
  /\ wake.pc = "decide"
  /\ IF wake.active = 0 /\ wake.listed = 0
     THEN IF CanRestart(st) THEN st' = restartSweep(st) /\ Yield("snooze")
                            ELSE ClaimFor("drained") /\ UNCHANGED st
     ELSE st' = [st EXCEPT !.errs = 0] /\ Yield("snooze")
  /\ UNCHANGED <<row, job, ctx, left, ghost>> /\ Frame

\* pumpFinishHandshake on ClaimKickoffFinish; a failed claim may have committed.
Claim ==
  /\ wake.pc = "claim"
  /\ \/ /\ Runs
        /\ row' = [row EXCEPT !.finishing = TRUE]
        /\ IF UpgradedMidRun(st, row)
           THEN st' = continueAsManual(st) /\ Yield("snooze")
           ELSE Goto(IF wake.why = "window" THEN "wind" ELSE "stamp") /\ UNCHANGED st
     \/ /\ Fault
        /\ row' \in {row, [row EXCEPT !.finishing = TRUE]}
        /\ IF wake.why = "giveup" THEN Yield("snooze") /\ UNCHANGED st
                                  ELSE pumpTransientFailure
  /\ UNCHANGED <<job, ctx, ghost>> /\ Frame

\* Wind-down cancels the wave it fanned out; the error is ignored.
WindDown ==
  /\ wake.pc = "wind"
  /\ \/ Runs /\ job' = CancelPendingWork
     \/ Fault /\ UNCHANGED job
  /\ Goto("stamp")
  /\ UNCHANGED <<row, st, ctx, ghost>> /\ Frame

\* finishKickoff: the outcome on the scheduled_tasks row (failure is logged).
Stamp ==
  /\ wake.pc = "stamp"
  /\ LET out == IF wake.why = "giveup" THEN "error" ELSE "done"
     IN  /\ wake' = [wake EXCEPT !.pc = "ret", !.out = out]
         /\ \/ task' = [task EXCEPT !.last = out] /\ UNCHANGED left
            \/ Spend("fault") /\ UNCHANGED task
  /\ UNCHANGED <<row, need, job, st, ctx, proc, click, cancel, reap, ghost>>

\* MergeJobMetadata: pumpInterrupted uses a context of its own, pumpSnooze the
\* wake's; a failure is only logged.
Merge ==
  /\ wake.pc = "merge"
  /\ \/ /\ ctx # "dead" \/ wake.out = "interrupted"
        /\ row' = patch(row, st)
        /\ UNCHANGED left
     \/ /\ IF wake.out = "interrupted" THEN Spend("fault") ELSE Fault
        /\ UNCHANGED row
  /\ Goto("ret")
  /\ UNCHANGED <<job, st, ctx, ghost>> /\ Frame

\* River finalises the attempt; a snooze of a cancel-stamped row is a cancel.
Return ==
  /\ wake.pc = "ret"
  /\ row' = [row EXCEPT !.state =
       CASE wake.out = "done"  -> "completed"
         [] wake.out = "error" -> "discarded"
         [] OTHER -> IF row.stamped THEN "cancelled" ELSE "queued"]
  /\ wake' = NoWake /\ st' = NoState /\ ctx' = "live"
  /\ UNCHANGED <<job, left, ghost>> /\ Frame

PumpStep == \/ Check \/ Count \/ List \/ Insert \/ Decide \/ Claim \/ WindDown
            \/ Stamp \/ Merge \/ Return

(***************************************************************************)
(* The work jobs the pump fans out, and other owners of the same keys.     *)
(***************************************************************************)
WorkFrame == UNCHANGED <<row, task, pumpVars, proc, click, cancel, reap>>

WorkStart(i) ==
  /\ proc = "up" /\ job[i].state = "queued"
  /\ job' = [job EXCEPT ![i].state = "running"]
  /\ UNCHANGED <<need, left, ghost>> /\ WorkFrame

\* The worker measured the item, it failed for good (or was cancelled), or the
\* attempt failed and is retried.
WorkEnd(i) ==
  /\ proc # "down" /\ job[i].state = "running"
  /\ \/ /\ job' = [job EXCEPT ![i] = NoJob] /\ UNCHANGED left
        /\ \/ /\ need' = [need EXCEPT ![i] = FALSE]
              /\ ghost' = [ghost EXCEPT !.due = @ \ {i}]
           \/ UNCHANGED <<need, ghost>>
     \/ /\ job' = [job EXCEPT ![i].state = "queued"] /\ Spend("fault")
        /\ UNCHANGED <<need, ghost>>
  /\ WorkFrame

\* A library scan adds an item, or hands a file off to a segments job of its
\* own, which may be cancelled before it starts.
ItemArrives(i) ==
  /\ ~need[i] /\ i \notin Cleanup /\ Spend("arrive")
  /\ need' = [need EXCEPT ![i] = TRUE]
  /\ UNCHANGED <<job, ghost>> /\ WorkFrame
OtherOwner(i) ==
  /\ ~Sonic
  /\ \/ /\ need[i] /\ job[i].state = "none" /\ Spend("arrive")
        /\ job' = [job EXCEPT ![i] = Job("other", "cron")]
     \/ /\ job[i].own = "other" /\ job[i].state = "queued" /\ UNCHANGED left
        /\ job' = [job EXCEPT ![i] = NoJob]
  /\ UNCHANGED <<need, ghost>> /\ WorkFrame

(***************************************************************************)
(* The worker process: graceful stop, crash, and the boot that rescues     *)
(* rows left running before it starts the workers.                         *)
(***************************************************************************)
BeginStop ==
  /\ proc = "up" /\ Spend("crash")
  /\ proc' = "stopping"
  /\ UNCHANGED <<dbVars, pumpVars, click, cancel, reap, ghost>>

\* The soft-stop budget is spent: River cancels the contexts of running jobs,
\* whose attempts end without a verdict.
HardStop ==
  /\ proc = "stopping"
  /\ ctx' = IF wake.pc = "idle" THEN ctx ELSE "dead"
  /\ job' = [i \in Items |-> IF job[i].state = "running"
                             THEN [job[i] EXCEPT !.state = "queued"] ELSE job[i]]
  /\ UNCHANGED <<row, task, need, st, wake, proc, click, cancel, reap, left, ghost>>

StopDone ==
  /\ proc = "stopping" /\ wake.pc = "idle"
  /\ \A i \in Items : job[i].state # "running"
  /\ proc' = "down"
  /\ UNCHANGED <<dbVars, pumpVars, click, cancel, reap, left, ghost>>

Crash ==
  /\ proc # "down" /\ Spend("crash")
  /\ proc' = "down"
  /\ wake' = NoWake /\ st' = NoState /\ ctx' = "live"
  /\ UNCHANGED <<dbVars, click, cancel, reap, ghost>>

\* RescueOrphanedRunning, then StartWorkers.
Boot ==
  /\ proc = "down"
  /\ proc' = "up"
  /\ row' = IF row.state = "running" THEN [row EXCEPT !.state = "queued"] ELSE row
  /\ job' = [i \in Items |-> IF job[i].state = "running"
                             THEN [job[i] EXCEPT !.state = "queued"] ELSE job[i]]
  /\ UNCHANGED <<task, need, pumpVars, click, cancel, reap, left, ghost>>

(***************************************************************************)
(* CancelTask.                                                             *)
(***************************************************************************)
CancelFrame == UNCHANGED <<need, st, wake, proc, click, reap, ghost>>

CancelBegin ==
  /\ cancel.pc = "idle" /\ Spend("cancel")
  /\ cancel' = [pc |-> "sweep1", hit |-> FALSE, run |-> Active(row)]
  /\ UNCHANGED <<row, task, job, ctx>> /\ CancelFrame

\* CancelPendingByScheduledTask over kickoff and work kinds, run twice.
\* (Mutant: the running kickoff is finalised as well.)
SweepActive ==
  /\ job' = CancelPendingWork
  /\ row' = IF Active(row) THEN [row EXCEPT !.state = "cancelled"] ELSE row
SweepPending ==
  /\ job' = CancelPendingWork
  /\ row' = IF row.state = "queued" THEN [row EXCEPT !.state = "cancelled"] ELSE row
CancelSweep ==
  /\ \/ cancel.pc = "sweep1" /\ cancel' = [cancel EXCEPT !.pc = "ids"]
     \/ cancel.pc = "sweep2" /\ cancel' = [cancel EXCEPT !.pc = "stop"]
  /\ SweepPending
  /\ UNCHANGED <<task, ctx, left>> /\ CancelFrame

\* RunningIDsByScheduledTask, then JobCancel: a running row is stamped and its
\* context signalled, a row that went back to the queue is cancelled outright.
CancelListRunning ==
  /\ cancel.pc = "ids"
  /\ cancel' = [cancel EXCEPT !.pc = "signal", !.hit = (row.state = "running")]
  /\ UNCHANGED <<row, task, job, ctx, left>> /\ CancelFrame
CancelSignal ==
  /\ cancel.pc = "signal"
  /\ cancel' = [cancel EXCEPT !.pc = "sweep2", !.hit = FALSE]
  /\ row' = IF cancel.hit /\ row.state = "running" THEN [row EXCEPT !.stamped = TRUE]
            ELSE IF cancel.hit /\ row.state = "queued" THEN [row EXCEPT !.state = "cancelled"]
            ELSE row
  /\ ctx' = IF cancel.hit /\ row.state = "running" /\ wake.pc # "idle" /\ ctx = "live"
            THEN "signalled" ELSE ctx
  /\ UNCHANGED <<task, job, left>> /\ CancelFrame
CancelStamp ==
  /\ cancel.pc = "stop"
  /\ cancel' = [cancel EXCEPT !.pc = "done"]
  /\ task' = IF cancel.run THEN [task EXCEPT !.last = "stopped"] ELSE task
  /\ UNCHANGED <<row, job, ctx, left>> /\ CancelFrame

\* River's cancel notification reaches the worker some time after the stamp.
DeliverCancel ==
  /\ ctx = "signalled"
  /\ ctx' = "dead"
  /\ UNCHANGED <<row, task, job, cancel, left>> /\ CancelFrame

\* RetryJob on the task's last, finished kickoff row.
RetryJob ==
  /\ row.state \in {"discarded", "cancelled"}
  /\ Spend("retry")
  /\ row' = [row EXCEPT !.state = "queued"]
  /\ UNCHANGED <<task, need, job, pumpVars, proc, click, cancel, reap, ghost>>

(***************************************************************************)
(* enforceTaskMaxRuntime for a pump task, and the task's settings.         *)
(***************************************************************************)
ReapFrame == UNCHANGED <<row, task, need, pumpVars, proc, click, cancel, left, ghost>>

\* ActiveKickoffSource: a live pump owns its window.
ReapBegin ==
  /\ reap = "idle" /\ task.enabled /\ ~Active(row)
  /\ reap' = "exceeded"
  /\ UNCHANGED job /\ ReapFrame
\* ScheduledTaskExceededRuntime: some live job not marked manual is too old.
ReapExceeded ==
  /\ reap = "exceeded"
  /\ \/ /\ \A i \in Items : OwnLive(i) /\ job[i].old => job[i].source = "manual"
        /\ reap' = "idle"
     \/ /\ \E i \in Items : OwnLive(i) /\ job[i].old /\ job[i].source # "manual"
        /\ reap' = "cancel"
  /\ UNCHANGED job /\ ReapFrame
\* CancelPendingByScheduledTask, then JobCancel of what runs (see WorkEnd).
ReapCancel ==
  /\ reap = "cancel"
  /\ reap' = "idle"
  /\ job' = CancelPendingWork
  /\ ReapFrame

\* The administrator edits the task or the feature switch.
Settings ==
  /\ Spend("toggle")
  /\ \/ task' = [task EXCEPT !.enabled = ~@]
     \/ Sonic /\ task' = [task EXCEPT !.feature = ~@]
  /\ UNCHANGED <<row, need, job, pumpVars, proc, click, cancel, reap, ghost>>

\* The max-runtime window of everything created so far closes.
WindowCloses ==
  /\ reap = "idle" /\ Spend("toggle")   \* the sweep takes milliseconds
  /\ task' = [task EXCEPT !.expired = Active(row)]
  /\ job' = [i \in Items |-> IF OwnLive(i) THEN [job[i] EXCEPT !.old = TRUE] ELSE job[i]]
  /\ UNCHANGED <<row, need, pumpVars, proc, click, cancel, reap, ghost>>

-----------------------------------------------------------------------------
Click(c) == ClickInsert(c) \/ ClickMark(c) \/ ClickMarkAll(c) \/ ClickReinsert(c)
Work(i)  == WorkStart(i) \/ WorkEnd(i)
Cancel   == CancelSweep \/ CancelListRunning \/ CancelSignal \/ CancelStamp
Reap     == ReapExceeded \/ ReapCancel

Next ==
  \/ CronTick \/ Fetch \/ PumpStep
  \/ \E c \in Clickers : Click(c)
  \/ \E i \in Items : Work(i) \/ ItemArrives(i) \/ OtherOwner(i)
  \/ BeginStop \/ HardStop \/ StopDone \/ Crash \/ Boot
  \/ CancelBegin \/ Cancel \/ DeliverCancel \/ RetryJob
  \/ ReapBegin \/ Reap \/ Settings \/ WindowCloses

\* River keeps fetching and running jobs, an HTTP handler runs to its end, and
\* the supervisor restarts the process.
Fairness ==
  /\ WF_vars(Fetch) /\ WF_vars(PumpStep) /\ WF_vars(DeliverCancel)
  /\ WF_vars(HardStop) /\ WF_vars(StopDone) /\ WF_vars(Boot)
  /\ WF_vars(Cancel) /\ WF_vars(Reap)
  /\ \A c \in Clickers : WF_vars(Click(c))
  /\ \A i \in Items : WF_vars(Work(i))

Spec == Init /\ [][Next]_vars
FairSpec == Spec /\ Fairness

-----------------------------------------------------------------------------
PumpStates == [source : Sources, cursor : 0..NItems, skipped : BOOLEAN,
               final : BOOLEAN, errs : 0..MaxErrStreak]
Rows == [state : RowStates, source : Sources, finishing : BOOLEAN,
         cursor : 0..NItems, skipped : BOOLEAN, final : BOOLEAN,
         errs : 0..MaxErrStreak, stamped : BOOLEAN]
Tasks == [enabled : BOOLEAN, feature : BOOLEAN, expired : BOOLEAN,
          last : {"never", "done", "error", "stopped"}]
Jobs == [state : {"none", "queued", "running"}, own : {"task", "other"},
         source : Sources, old : BOOLEAN]
Wakes == [pc : {"idle", "check", "count", "list", "insert", "decide", "claim",
                "wind", "stamp", "merge", "ret"},
          why : {"off", "window", "drained", "giveup"},
          out : {"snooze", "interrupted", "done", "error"},
          active : Nat, listed : Nat, todo : SUBSET Items]
Clicks == [pc : {"start", "mark", "markAll", "reinsert", "accepted", "failed"},
           tries : Nat]
Cancels == [pc : {"idle", "sweep1", "ids", "signal", "sweep2", "stop", "done"},
            hit : BOOLEAN, run : BOOLEAN]
Ghosts == [promised : BOOLEAN, due : SUBSET Items, offered : SUBSET Items]

\* Every variable keeps the shape the code gives it.
TypeOK ==
  /\ row \in Rows
  /\ task \in Tasks
  /\ need \in [Items -> BOOLEAN]
  /\ job \in [Items -> Jobs]
  /\ st \in PumpStates
  /\ wake \in Wakes
  /\ ctx \in {"live", "signalled", "dead"}
  /\ proc \in {"up", "stopping", "down"}
  /\ click \in [Clickers -> Clicks]
  /\ cancel \in Cancels
  /\ reap \in {"idle", "exceeded", "cancel"}
  /\ left \in [LimitNames -> Nat]
  /\ ghost \in Ghosts

Finishing == wake.pc \in {"wind", "stamp"} \/ (wake.pc = "ret" /\ wake.out \in {"done", "error"})

\* A run that accepted a Run Now upgrade is never completed, wound down or
\* given up by a wake that still takes it for a cron run: the finishing claim
\* serialises MarkActiveKickoffManual against every completion.
UpgradeSeenByFinish == Finishing /\ ghost.promised => st.source = "manual"

\* A run that reports its backlog drained has offered River every item that
\* was listed as pending work when the run began: across snoozes, lost state patches, crashes
\* and the re-sweep, no item is stranded behind the cursor.
DrainedMeansOffered ==
  Finishing /\ wake.why = "drained" =>
    \A i \in ghost.due : need[i] => i \in ghost.offered

\* The inductive form of the two invariants above, proved in KickoffPumpProofs.
\* A wake holds its row: nobody else takes the row out of "running".
RowHeld == wake.pc # "idle" => row.state = "running" /\ proc # "down"

\* Between the claim and River's verdict the row stays marked, and an upgrade
\* it accepted earlier is known to the wake.
PromiseKept ==
  /\ wake.pc # "ret" => wake.out \in {"snooze", "interrupted"}
  /\ ghost.promised => row.source = "manual"
  /\ Finishing => row.finishing /\ (ghost.promised => st.source = "manual")

\* What the sweep has passed was offered, or marks the sweep as incomplete.
Covered(s) == \A i \in ghost.due :
  i <= s.cursor => i \in ghost.offered \/ (s.skipped /\ ~s.final)

\* The items of the run's start that a sweep has still to reach are in the rest
\* of this wave or beyond it; an empty listing means there are none.
SweepInv ==
  /\ \A i \in ghost.due : need[i] /\ i \notin Cleanup
  /\ Covered(row)
  /\ wake.pc # "idle" => Covered(st)
  /\ wake.pc = "insert" =>
       /\ wake.listed # 0
       /\ \A k \in wake.todo : st.cursor < k
       /\ \A i \in ghost.due :
            i > st.cursor => i \in wake.todo \/ \A k \in wake.todo : k < i
  /\ wake.pc = "list" => wake.active < Batch
  /\ wake.pc = "decide" /\ wake.listed = 0 => \A i \in ghost.due : i <= st.cursor
  /\ wake.why = "drained" /\ (wake.pc = "claim" \/ Finishing) =>
       ghost.due \subseteq ghost.offered

\* The pump keeps at most one wave of its own jobs in River.
OneWaveAtATime == ActiveCount <= Batch

\* While a run is active its row never goes back from manual to cron: no
\* state patch undoes an upgrade that landed mid-wake.
UpgradeSticks ==
  [][Active(row) /\ row.source = "manual" => row'.source = "manual"]_vars

\* A manual run ends: whatever crashes, faults and stops interrupt it.
ManualRunEnds == (Active(row) /\ row.source = "manual") ~> ~Active(row)
=============================================================================
