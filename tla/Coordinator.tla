----------------------------- MODULE Coordinator -----------------------------
(***************************************************************************)
(* The singleton background coordinator: `heya worker` processes compete   *)
(* for a session-level PostgreSQL advisory lock (internal/runtimelease),   *)
(* rescue the rows a dead coordinator left running, work the River queue,  *)
(* and stand down on a signal or when the lease is lost (cmd/heya/cmd/     *)
(* worker.go, internal/service/app.go).  `heya queue process` works the    *)
(* same queue without a lease (cmd/heya/cmd/queue.go).                     *)
(*                                                                         *)
(* Between the server and a process there is time: the server may end a    *)
(* session before the process notices, and the process may close one       *)
(* before the server notices.                                              *)
(***************************************************************************)
EXTENDS Naturals, FiniteSets

CONSTANTS
  Workers,   \* `heya worker` processes, restarted by a supervisor
  Drainers,  \* `heya queue process` runs
  Jobs,      \* rows of river_job
  NoOne,     \* the value of `lock` when no session holds it
  Limits     \* how often the environment acts (see LimitNames)

LimitNames == {"crash", "signal", "loss", "fault"}
Procs == Workers \cup Drainers

ASSUME RolesAssumption == Workers \cap Drainers = {} /\ NoOne \notin Procs
ASSUME LimitsAssumption == Limits \in [LimitNames -> Nat]

VARIABLES
  lock,    \* whose session holds the advisory lock, as the server sees it
  cmd,     \* how far each command has come
  lease,   \* the lease's monitor: off, on, dying (session closed), lost
  watch,   \* the goroutine of watchWorkerLease: none, armed, fired, quit
  asked,   \* a signal cancelled the command's context (and workerCtx with it)
  river,   \* the River client: off, on, draining (Stop), dead (context cancelled)
  row,     \* the state of each job's row
  exec,    \* the processes with a goroutine working each job
  left     \* what is left of Limits

roleVars == <<lock, cmd, lease, watch, asked, river>>
vars == <<roleVars, row, exec, left>>

Spend(n) == left[n] > 0 /\ left' = [left EXCEPT ![n] = @ - 1]

-----------------------------------------------------------------------------
Init ==
  /\ lock = NoOne
  /\ cmd = [p \in Procs |-> "off"]
  /\ lease = [w \in Workers |-> "off"]
  /\ watch = [w \in Workers |-> "none"]
  /\ asked = [p \in Procs |-> FALSE]
  /\ river = [p \in Procs |-> "off"]
  /\ row = [j \in Jobs |-> "available"]
  /\ exec = [j \in Jobs |-> {}]
  /\ left = Limits

Step(p, from, to) == cmd[p] = from /\ cmd' = [cmd EXCEPT ![p] = to]
JobFrame == UNCHANGED <<row, exec>>

(***************************************************************************)
(* `heya worker`: the lease.                                               *)
(***************************************************************************)
\* pg_try_advisory_lock on a session of its own; a second contender is refused
\* and its process ends.
Acquire(w) ==
  /\ Step(w, "off", "leased")
  /\ lock = NoOne /\ lock' = w
  /\ lease' = [lease EXCEPT ![w] = "on"]
  /\ UNCHANGED <<watch, asked, river, left>> /\ JobFrame

\* The lock is taken but the answer is lost: the process closes the session
\* and ends, the server notices later.
AcquireUnanswered(w) ==
  /\ cmd[w] = "off" /\ lock = NoOne /\ Spend("fault")
  /\ lock' = w
  /\ UNCHANGED <<cmd, lease, watch, asked, river>> /\ JobFrame

\* The server ends a session (failover, idle kill, network), or learns that
\* the process has closed it or is gone.
SessionEnds(w) ==
  /\ lock = w
  /\ IF lease[w] = "on" THEN Spend("loss") ELSE UNCHANGED left
  /\ lock' = NoOne
  /\ UNCHANGED <<cmd, lease, watch, asked, river>> /\ JobFrame

\* The monitor's ping fails because the session is gone, or times out although
\* it is not; either way the session is closed before the loss is reported.
PingFails(w) ==
  /\ lease[w] = "on"
  /\ IF lock = w THEN Spend("loss") ELSE UNCHANGED left
  /\ lease' = [lease EXCEPT ![w] = "dying"]
  /\ UNCHANGED <<lock, cmd, watch, asked, river>> /\ JobFrame

\* The loss goes into a channel of capacity one.
\* (Mutant: unbuffered, it needs the watcher at the other end.)
SendUnbuffered(w) == lease[w] = "dying" /\ watch[w] = "armed"
CanSend(w) == lease[w] = "dying"
ReportLoss(w) ==
  /\ CanSend(w)
  /\ lease' = [lease EXCEPT ![w] = "lost"]
  /\ UNCHANGED <<lock, cmd, watch, asked, river, left>> /\ JobFrame

(***************************************************************************)
(* `heya worker`: the command.                                             *)
(***************************************************************************)
\* workerCtx is a child of the signal's context, and the watcher cancels it.
WorkerCtxDead(w) == asked[w] \/ watch[w] = "fired"

\* watchWorkerLease, and its goroutine's choice between the two channels.
Arm(w) ==
  /\ Step(w, "leased", "armed")
  /\ watch' = [watch EXCEPT ![w] = "armed"]
  /\ UNCHANGED <<lock, lease, asked, river, left>> /\ JobFrame
WatchQuits(w) ==
  /\ watch[w] = "armed" /\ asked[w]
  /\ watch' = [watch EXCEPT ![w] = "quit"]
  /\ UNCHANGED <<lock, cmd, lease, asked, river, left>> /\ JobFrame
\* cancelWorker and cancelRiver: the jobs' contexts are cancelled.
WatchFires(w) ==
  /\ watch[w] = "armed" /\ lease[w] = "lost"
  /\ watch' = [watch EXCEPT ![w] = "fired"]
  /\ river' = [river EXCEPT ![w] = IF @ = "off" THEN @ ELSE "dead"]
  /\ UNCHANGED <<lock, cmd, lease, asked, left>> /\ JobFrame

\* NewWorker fails with the lease held, and its cleanup closes the lease.
SetupFails(w) ==
  /\ Step(w, "leased", "closing")
  /\ IF asked[w] THEN UNCHANGED left ELSE Spend("fault")
  /\ UNCHANGED <<lock, lease, watch, asked, river>> /\ JobFrame

\* RescueOrphanedJobsAtStartup flips every running row; a failure is logged.
\* (Mutant: into a state of River that no reader of the queue knows here.)
FlippedToPending(s) == IF s = "running" THEN "pending" ELSE s
Flipped(s) == IF s = "running" THEN "available" ELSE s
Rescue(w) ==
  /\ Step(w, "armed", "rescued")
  /\ \/ /\ ~WorkerCtxDead(w) /\ UNCHANGED left
        /\ row' = [j \in Jobs |-> Flipped(row[j])]
     \/ /\ IF WorkerCtxDead(w) THEN UNCHANGED left ELSE Spend("fault")
        /\ UNCHANGED row
  /\ UNCHANGED <<lock, lease, watch, asked, river, exec>>

\* StartWorkers on a context that only the watcher can cancel, or its failure.
\* (Mutant: River is started on a context of its own.)
NeverDead(w) == FALSE
RiverCtxDead(w) == watch[w] = "fired"
StartRiver(w) ==
  /\ \/ /\ Step(w, "rescued", "running") /\ UNCHANGED left
        /\ river' = [river EXCEPT ![w] = IF RiverCtxDead(w) THEN "dead" ELSE "on"]
     \/ Step(w, "rescued", "closing") /\ Spend("fault") /\ UNCHANGED river
  /\ UNCHANGED <<lock, lease, watch, asked>> /\ JobFrame

\* waitForWorkerShutdown, then StopWorkers: River stops fetching ...
StopRiver(p) ==
  /\ Step(p, "running", "stopping")
  /\ river' = [river EXCEPT ![p] = IF @ = "on" THEN "draining" ELSE @]
  /\ UNCHANGED <<lock, lease, watch, asked, left>> /\ JobFrame
StopWorker(w) == StopRiver(w) /\ WorkerCtxDead(w)
\* ... and after eight seconds cancels the jobs that still run.
HardStop(p) ==
  /\ cmd[p] = "stopping" /\ river[p] = "draining"
  /\ river' = [river EXCEPT ![p] = "dead"]
  /\ UNCHANGED <<lock, cmd, lease, watch, asked, left>> /\ JobFrame

\* closeWorkers: nothing is released before the last job has returned.
\* (Mutants: a stop that timed out counts as a stop; the join never returns.)
AnyTime(p) == TRUE
NeverIdle(p) == FALSE
Idle(p) == \A j \in Jobs : p \notin exec[j]
CloseWorkers(p) ==
  /\ Step(p, "stopping", "closing")
  /\ Idle(p)
  /\ river' = [river EXCEPT ![p] = "off"]
  /\ UNCHANGED <<lock, lease, watch, asked, left>> /\ JobFrame

\* Lease.Close joins the monitor, then unlocks or closes the session.
ReleaseLease(w) ==
  /\ Step(w, "closing", "closed")
  /\ lease[w] # "dying"
  /\ lease' = [lease EXCEPT ![w] = "off"]
  /\ lock' = IF lock = w /\ lease[w] = "on" THEN NoOne ELSE lock
  /\ UNCHANGED <<watch, asked, river, left>> /\ JobFrame

\* A process is gone and its goroutines with it; its rows and session are not.
Gone(p) ==
  /\ cmd' = [cmd EXCEPT ![p] = "off"] /\ river' = [river EXCEPT ![p] = "off"]
  /\ asked' = [asked EXCEPT ![p] = FALSE]
  /\ watch' = [w \in Workers |-> IF w = p THEN "none" ELSE watch[w]]
  /\ lease' = [w \in Workers |-> IF w = p THEN "off" ELSE lease[w]]
  /\ exec' = [j \in Jobs |-> exec[j] \ {p}]
  /\ UNCHANGED <<lock, row>>
Exit(w) == cmd[w] = "closed" /\ Gone(w) /\ UNCHANGED left
Crash(p) == cmd[p] # "off" /\ Spend("crash") /\ Gone(p)

Signal(p) ==
  /\ cmd[p] # "off" /\ ~asked[p] /\ Spend("signal")
  /\ asked' = [asked EXCEPT ![p] = TRUE]
  /\ UNCHANGED <<lock, cmd, lease, watch, river>> /\ JobFrame

(***************************************************************************)
(* `heya queue process`: River without the lease, until the queue is empty.*)
(***************************************************************************)
DrainerStarts(d) ==
  /\ Step(d, "off", "running")
  /\ river' = [river EXCEPT ![d] = "on"]
  /\ UNCHANGED <<lock, lease, watch, asked, left>> /\ JobFrame
StopDrainer(d) ==
  /\ asked[d] \/ \A j \in Jobs : row[j] \notin {"available", "running"}
  /\ StopRiver(d)
DrainerExits(d) == cmd[d] = "closing" /\ Gone(d) /\ UNCHANGED left

(***************************************************************************)
(* The jobs, in any process whose River client runs.                       *)
(***************************************************************************)
Fetch(p, j) ==
  /\ river[p] = "on" /\ row[j] = "available" /\ p \notin exec[j]
  /\ row' = [row EXCEPT ![j] = "running"]
  /\ exec' = [exec EXCEPT ![j] = @ \cup {p}]
  /\ UNCHANGED <<roleVars, left>>

\* The attempt ends; River records the outcome only on a row still running.  A
\* cancelled attempt goes back to the queue.
Finish(p, j) ==
  /\ p \in exec[j]
  /\ exec' = [exec EXCEPT ![j] = @ \ {p}]
  /\ \/ row' = [row EXCEPT ![j] = IF @ = "running" THEN "completed" ELSE @]
     \/ /\ river[p] = "dead"
        /\ row' = [row EXCEPT ![j] = IF @ = "running" THEN "available" ELSE @]
  /\ UNCHANGED <<roleVars, left>>

\* River's own rescuer, long after the job's deadline: retried or discarded.
RescuedAs == {"available", "discarded"}
RescueStuck(j) ==
  /\ row[j] = "running" /\ exec[j] = {}
  /\ \E p \in Procs : river[p] = "on"
  /\ \E s \in RescuedAs : row' = [row EXCEPT ![j] = s]
  /\ UNCHANGED <<roleVars, exec, left>>

-----------------------------------------------------------------------------
Monitor(w) == PingFails(w) \/ ReportLoss(w)
Watch(w) == WatchQuits(w) \/ WatchFires(w)
Stop(p) == HardStop(p) \/ CloseWorkers(p)
Command(w) ==
  \/ Acquire(w) \/ Arm(w) \/ Rescue(w) \/ StartRiver(w)
  \/ StopWorker(w) \/ Stop(w) \/ ReleaseLease(w) \/ Exit(w)
Drain(d) == StopDrainer(d) \/ Stop(d) \/ DrainerExits(d)
Environment(w) == AcquireUnanswered(w) \/ SessionEnds(w) \/ SetupFails(w)

Next ==
  \/ \E w \in Workers : Command(w) \/ Monitor(w) \/ Watch(w) \/ Environment(w)
  \/ \E d \in Drainers : DrainerStarts(d) \/ Drain(d)
  \/ \E p \in Procs : Signal(p) \/ Crash(p)
  \/ \E p \in Procs, j \in Jobs : Fetch(p, j) \/ Finish(p, j)
  \/ \E j \in Jobs : RescueStuck(j)

\* The goroutines run, the supervisor restarts the worker, a ping finds out
\* that its session is gone, and the server that a process is.
Fairness ==
  /\ \A w \in Workers : /\ WF_vars(Command(w)) /\ WF_vars(Watch(w))
                        /\ WF_vars(Monitor(w) /\ left' = left)
                        /\ WF_vars(SessionEnds(w) /\ left' = left)
  /\ \A d \in Drainers : WF_vars(Drain(d))
  /\ \A p \in Procs, j \in Jobs : WF_vars(Fetch(p, j)) /\ WF_vars(Finish(p, j))
  /\ \A j \in Jobs : WF_vars(RescueStuck(j))

Spec == Init /\ [][Next]_vars
FairSpec == Spec /\ Fairness

-----------------------------------------------------------------------------
\* Every variable keeps the shape the code gives it.
TypeOK ==
  /\ lock \in Workers \cup {NoOne}
  /\ cmd \in [Procs -> {"off", "leased", "armed", "rescued", "running",
                        "stopping", "closing", "closed"}]
  /\ lease \in [Workers -> {"off", "on", "dying", "lost"}]
  /\ watch \in [Workers -> {"none", "armed", "fired", "quit"}]
  /\ asked \in [Procs -> BOOLEAN]
  /\ river \in [Procs -> {"off", "on", "draining", "dead"}]
  /\ row \in [Jobs -> {"available", "running", "completed", "discarded"}]
  /\ exec \in [Jobs -> SUBSET Procs]
  /\ left \in [LimitNames -> Nat]

\* The server has taken the lease from w, or w has given it up as lost.
Lost(w) == lease[w] \in {"dying", "lost"} \/ (lease[w] = "on" /\ lock # w)

\* Two coordinators never work the same job unless one has lost its lease:
\* a restart, a crash or an orderly stop alone never overlaps two of them.
OverlapNeedsLoss ==
  \A j \in Jobs : \A v, w \in Workers \cap exec[j] : v = w \/ Lost(v) \/ Lost(w)

\* The rescue of a coordinator that still holds its lease never takes a row
\* from another coordinator that has not lost its own.
RescueSparesHealthy ==
  [][\A w \in Workers : Rescue(w) /\ lock = w =>
       \A j \in Jobs : row'[j] # row[j] =>
         \A v \in Workers \cap exec[j] : v = w \/ Lost(v)]_vars

\* The inductive form of the invariant above, proved in CoordinatorProofs: who
\* runs River or a job is between StartWorkers and the end of closeWorkers, and
\* the lease object lives from the acquisition to the release behind both.
RolesKept ==
  /\ \A p \in Procs : river[p] # "off" => cmd[p] \in {"running", "stopping"}
  /\ \A j \in Jobs : \A p \in exec[j] : cmd[p] \in {"running", "stopping"}
  /\ \A w \in Workers : lease[w] = "off" <=> cmd[w] \in {"off", "closed"}

\* Once the watcher has fired, the process fetches no job and every job it
\* still runs has a cancelled context.
FiredMeansFenced ==
  \A w \in Workers : watch[w] = "fired" => river[w] \in {"off", "dead"}

\* A coordinator that was asked to stop or has lost its lease ends.
CoordinatorEnds ==
  \A w \in Workers : (asked[w] \/ lease[w] = "dying") ~> cmd[w] = "off"

\* Every job ends, whatever coordinators crash, stop or lose their lease.
JobsSettle == \A j \in Jobs : <>[](row[j] \in {"completed", "discarded"})
=============================================================================
