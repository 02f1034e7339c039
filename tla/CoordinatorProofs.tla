-------------------------- MODULE CoordinatorProofs --------------------------
(***************************************************************************)
(* What holds of the coordinator role for every set of workers, queue      *)
(* processors and jobs, and however often they crash, are signalled or     *)
(* lose their lease.                                                       *)
(***************************************************************************)
EXTENDS Coordinator, TLAPS

\* The steps of a worker's command keep every variable in shape.
LEMMA CommandType ==
  ASSUME TypeOK, NEW w \in Workers, Command(w) \/ Monitor(w) \/ Watch(w) \/ Environment(w)
  PROVE  TypeOK'
<1> USE DEF TypeOK, Procs
<1>1. CASE Acquire(w)
  BY <1>1 DEF Acquire, Step, JobFrame
<1>2. CASE Arm(w)
  BY <1>2 DEF Arm, Step, JobFrame
<1>3. CASE Rescue(w)
  BY <1>3 DEF Rescue, Flipped, Step, Spend, LimitNames
<1>4. CASE StartRiver(w)
  BY <1>4 DEF StartRiver, Step, Spend, JobFrame, LimitNames
<1>5. CASE StopWorker(w)
  BY <1>5 DEF StopWorker, StopRiver, Step, JobFrame
<1>6. CASE Stop(w)
  BY <1>6 DEF Stop, HardStop, CloseWorkers, Step, JobFrame
<1>7. CASE ReleaseLease(w)
  BY <1>7 DEF ReleaseLease, Step, JobFrame
<1>8. CASE Exit(w)
  BY <1>8 DEF Exit, Gone
<1>9. CASE Monitor(w)
  BY <1>9 DEF Monitor, PingFails, ReportLoss, CanSend, Spend, JobFrame, LimitNames
<1>10. CASE Watch(w)
  BY <1>10 DEF Watch, WatchQuits, WatchFires, JobFrame
<1>11. CASE Environment(w)
  BY <1>11 DEF Environment, AcquireUnanswered, SessionEnds, SetupFails, Step, Spend, JobFrame,
     LimitNames
<1> QED
  BY <1>1, <1>2, <1>3, <1>4, <1>5, <1>6, <1>7, <1>8, <1>9, <1>10, <1>11 DEF Command

\* So do queue processors, signals, crashes and the jobs.
LEMMA OtherType ==
  ASSUME TypeOK,
         \/ \E d \in Drainers : DrainerStarts(d) \/ Drain(d)
         \/ \E p \in Procs : Signal(p) \/ Crash(p)
         \/ \E p \in Procs, j \in Jobs : Fetch(p, j) \/ Finish(p, j)
         \/ \E j \in Jobs : RescueStuck(j)
  PROVE  TypeOK'
<1>1. ASSUME NEW d \in Drainers, DrainerStarts(d) \/ Drain(d) PROVE TypeOK'
  <2>1. d \in Procs
    BY DEF Procs
  <2>2. CASE DrainerStarts(d)
    BY <2>1, <2>2 DEF TypeOK, DrainerStarts, Step, JobFrame
  <2>3. CASE StopDrainer(d)
    BY <2>1, <2>3 DEF TypeOK, StopDrainer, StopRiver, Step, JobFrame
  <2>4. CASE Stop(d)
    BY <2>1, <2>4 DEF TypeOK, Stop, HardStop, CloseWorkers, Step, JobFrame
  <2>5. CASE DrainerExits(d)
    BY <2>1, <2>5 DEF TypeOK, DrainerExits, Gone
  <2> QED BY <1>1, <2>2, <2>3, <2>4, <2>5 DEF Drain
<1>2. ASSUME NEW p \in Procs, Signal(p) \/ Crash(p) PROVE TypeOK'
  <2>1. CASE Signal(p)
    BY <2>1 DEF TypeOK, Signal, Spend, JobFrame, LimitNames
  <2>2. CASE Crash(p)
    BY <2>2 DEF TypeOK, Crash, Gone, Spend, LimitNames
  <2> QED BY <1>2, <2>1, <2>2
<1>3. ASSUME NEW p \in Procs, NEW j \in Jobs, Fetch(p, j) \/ Finish(p, j) PROVE TypeOK'
  <2>1. CASE Fetch(p, j)
    BY <2>1 DEF TypeOK, Fetch, roleVars
  <2>2. CASE Finish(p, j)
    <3>1. row' \in [Jobs -> {"available", "running", "completed", "discarded"}]
      BY <2>2 DEF TypeOK, Finish
    <3>2. exec' \in [Jobs -> SUBSET Procs]
      BY <2>2 DEF TypeOK, Finish
    <3> QED BY <2>2, <3>1, <3>2 DEF TypeOK, Finish, roleVars
  <2> QED BY <1>3, <2>1, <2>2
<1>4. ASSUME NEW j \in Jobs, RescueStuck(j) PROVE TypeOK'
  BY <1>4 DEF TypeOK, RescueStuck, RescuedAs, roleVars
<1> QED BY <1>1, <1>2, <1>3, <1>4

\* Every reachable state has the shape TypeOK states.
THEOREM TypeCorrect == Spec => []TypeOK
<1>1. Init => TypeOK
  BY LimitsAssumption, RolesAssumption DEF Init, TypeOK, Procs
<1>2. TypeOK /\ [Next]_vars => TypeOK'
  <2> SUFFICES ASSUME TypeOK, [Next]_vars PROVE TypeOK'
    OBVIOUS
  <2>1. CASE UNCHANGED vars
    BY <2>1 DEF TypeOK, vars, roleVars
  <2> QED BY <2>1, CommandType, OtherType DEF Next
<1> QED BY <1>1, <1>2, PTL DEF Spec

-----------------------------------------------------------------------------
(* The inductive invariant: the lease object outlives River, and River the  *)
(* jobs.                                                                    *)

\* A step of a worker keeps the order in which it takes and releases things.
LEMMA CommandKeepsRoles ==
  ASSUME TypeOK, RolesKept, NEW w \in Workers,
         Command(w) \/ Monitor(w) \/ Watch(w) \/ Environment(w)
  PROVE  RolesKept'
<1> USE DEF TypeOK, Procs, RolesKept
<1>1. CASE Acquire(w)
  BY <1>1 DEF Acquire, Step, JobFrame
<1>2. CASE Arm(w)
  BY <1>2 DEF Arm, Step, JobFrame
<1>3. CASE Rescue(w)
  BY <1>3 DEF Rescue, Step
<1>4. CASE StartRiver(w)
  BY <1>4 DEF StartRiver, Step, JobFrame
<1>5. CASE StopWorker(w)
  BY <1>5 DEF StopWorker, StopRiver, Step, JobFrame
<1>6. CASE HardStop(w)
  BY <1>6 DEF HardStop, JobFrame
<1>7. CASE CloseWorkers(w)
  BY <1>7 DEF CloseWorkers, Idle, Step, JobFrame
<1>8. CASE ReleaseLease(w)
  BY <1>8 DEF ReleaseLease, Step, JobFrame
<1>9. CASE Exit(w)
  BY <1>9 DEF Exit, Gone
<1>10. CASE Monitor(w)
  BY <1>10 DEF Monitor, PingFails, ReportLoss, CanSend, JobFrame
<1>11. CASE Watch(w)
  BY <1>11 DEF Watch, WatchQuits, WatchFires, JobFrame
<1>12. CASE Environment(w)
  BY <1>12 DEF Environment, AcquireUnanswered, SessionEnds, SetupFails, Step, JobFrame
<1> QED
  BY <1>1, <1>2, <1>3, <1>4, <1>5, <1>6, <1>7, <1>8, <1>9, <1>10, <1>11, <1>12
  DEF Command, Stop

\* A process that ends takes its jobs' goroutines and its lease with it.
LEMMA GoneKeepsRoles ==
  ASSUME TypeOK, RolesKept, NEW p \in Procs, Gone(p) PROVE RolesKept'
BY DEF TypeOK, Procs, RolesKept, Gone

\* A queue processor has no lease, and no other step changes a command.
LEMMA OthersKeepRoles ==
  ASSUME TypeOK, RolesKept,
         \/ \E d \in Drainers : DrainerStarts(d) \/ Drain(d)
         \/ \E p \in Procs : Signal(p) \/ Crash(p)
         \/ \E p \in Procs, j \in Jobs : Fetch(p, j) \/ Finish(p, j)
         \/ \E j \in Jobs : RescueStuck(j)
  PROVE  RolesKept'
<1>1. ASSUME NEW d \in Drainers, DrainerStarts(d) \/ Drain(d) PROVE RolesKept'
  <2>1. d \in Procs /\ d \notin Workers
    BY RolesAssumption DEF Procs
  <2>2. CASE DrainerStarts(d)
    BY <2>1, <2>2 DEF TypeOK, RolesKept, DrainerStarts, Step, JobFrame
  <2>3. CASE StopDrainer(d)
    BY <2>1, <2>3 DEF TypeOK, RolesKept, StopDrainer, StopRiver, Step, JobFrame
  <2>4. CASE HardStop(d)
    BY <2>1, <2>4 DEF TypeOK, RolesKept, HardStop, JobFrame
  <2>5. CASE CloseWorkers(d)
    BY <2>1, <2>5 DEF TypeOK, RolesKept, CloseWorkers, Idle, Step, JobFrame
  <2>6. CASE DrainerExits(d)
    BY <2>1, <2>6, GoneKeepsRoles DEF DrainerExits
  <2> QED BY <1>1, <2>2, <2>3, <2>4, <2>5, <2>6 DEF Drain, Stop
<1>2. ASSUME NEW p \in Procs, Signal(p) \/ Crash(p) PROVE RolesKept'
  <2>1. CASE Signal(p)
    BY <2>1 DEF RolesKept, Signal, JobFrame
  <2>2. CASE Crash(p)
    BY <2>2, GoneKeepsRoles DEF Crash
  <2> QED BY <1>2, <2>1, <2>2
<1>3. ASSUME NEW p \in Procs, NEW j \in Jobs, Fetch(p, j) \/ Finish(p, j) PROVE RolesKept'
  BY <1>3 DEF TypeOK, RolesKept, Fetch, Finish, roleVars
<1>4. ASSUME NEW j \in Jobs, RescueStuck(j) PROVE RolesKept'
  BY <1>4 DEF RolesKept, RescueStuck, roleVars
<1> QED BY <1>1, <1>2, <1>3, <1>4

\* River and jobs run only between StartWorkers and the end of closeWorkers,
\* and the lease object exists from the acquisition to the release behind them.
THEOREM RolesInvariant == Spec => []RolesKept
<1>1. Init => RolesKept
  BY DEF Init, RolesKept, Procs
<1>2. TypeOK /\ RolesKept /\ [Next]_vars => RolesKept'
  <2> SUFFICES ASSUME TypeOK, RolesKept, [Next]_vars PROVE RolesKept'
    OBVIOUS
  <2>1. CASE UNCHANGED vars
    BY <2>1 DEF RolesKept, vars, roleVars
  <2> QED BY <2>1, CommandKeepsRoles, OthersKeepRoles DEF Next
<1> QED BY <1>1, <1>2, TypeCorrect, PTL DEF Spec

-----------------------------------------------------------------------------
(* What follows from it.                                                    *)

\* A worker with a job in progress holds the lease or has lost it.
LEMMA RunnerHoldsOrLost ==
  ASSUME TypeOK, RolesKept, NEW j \in Jobs, NEW w \in Workers \cap exec[j]
  PROVE  lock = w \/ Lost(w)
<1>1. lease[w] # "off"
  BY DEF RolesKept
<1> QED BY <1>1 DEF TypeOK, Lost

\* Two coordinators never work one job unless one of them has lost its lease.
THEOREM NoOverlapWithoutLoss == Spec => []OverlapNeedsLoss
<1>1. TypeOK /\ RolesKept => OverlapNeedsLoss
  BY RunnerHoldsOrLost DEF OverlapNeedsLoss
<1> QED BY <1>1, TypeCorrect, RolesInvariant, PTL

\* A rescue under a lease that is still held takes no row from a coordinator
\* that has not lost its own.
THEOREM RescueIsFenced == Spec => RescueSparesHealthy
<1>1. TypeOK /\ RolesKept /\ [Next]_vars =>
        [\A w \in Workers : Rescue(w) /\ lock = w =>
           \A j \in Jobs : row'[j] # row[j] =>
             \A v \in Workers \cap exec[j] : v = w \/ Lost(v)]_vars
  BY RunnerHoldsOrLost
<1> QED BY <1>1, TypeCorrect, RolesInvariant, PTL DEF Spec, RescueSparesHealthy

\* Once the watcher has fired, the process runs no job with a live context.
THEOREM FiredIsFenced == Spec => []FiredMeansFenced
<1>1. Init => FiredMeansFenced
  BY DEF Init, FiredMeansFenced
<1>2. TypeOK /\ FiredMeansFenced /\ [Next]_vars => FiredMeansFenced'
  <2> SUFFICES ASSUME TypeOK, FiredMeansFenced, [Next]_vars PROVE FiredMeansFenced'
    OBVIOUS
  <2> USE RolesAssumption DEF TypeOK, Procs, FiredMeansFenced
  <2>1. CASE UNCHANGED vars
    BY <2>1 DEF vars, roleVars
  <2>2. ASSUME NEW w \in Workers, Command(w) \/ Monitor(w) \/ Watch(w) \/ Environment(w)
        PROVE  FiredMeansFenced'
    <3>1. CASE Acquire(w) \/ Arm(w) \/ Rescue(w)
      BY <3>1 DEF Acquire, Arm, Rescue
    <3>2. CASE StartRiver(w)
      BY <3>2 DEF StartRiver, RiverCtxDead, JobFrame
    <3>3. CASE StopWorker(w)
      BY <3>3 DEF StopWorker, StopRiver
    <3>4. CASE Stop(w)
      BY <3>4 DEF Stop, HardStop, CloseWorkers
    <3>5. CASE ReleaseLease(w) \/ Monitor(w) \/ Environment(w)
      BY <3>5 DEF ReleaseLease, Monitor, PingFails, ReportLoss, Environment,
         AcquireUnanswered, SessionEnds, SetupFails
    <3>6. CASE Exit(w)
      BY <3>6 DEF Exit, Gone
    <3>7. CASE Watch(w)
      BY <3>7 DEF Watch, WatchQuits, WatchFires
    <3> QED BY <2>2, <3>1, <3>2, <3>3, <3>4, <3>5, <3>6, <3>7 DEF Command
  <2>3. ASSUME NEW d \in Drainers, DrainerStarts(d) \/ Drain(d) PROVE FiredMeansFenced'
    <3>1. d \in Procs /\ d \notin Workers
      OBVIOUS
    <3>2. UNCHANGED watch \/ watch' = [w \in Workers |-> IF w = d THEN "none" ELSE watch[w]]
      BY <2>3 DEF DrainerStarts, Drain, StopDrainer, StopRiver, Stop, HardStop, CloseWorkers,
         DrainerExits, Gone
    <3>3. \A w \in Workers : river'[w] = river[w]
      BY <2>3, <3>1 DEF DrainerStarts, Drain, StopDrainer, StopRiver, Stop, HardStop,
         CloseWorkers, DrainerExits, Gone
    <3> QED BY <3>1, <3>2, <3>3
  <2>4. ASSUME NEW p \in Procs, Signal(p) \/ Crash(p) PROVE FiredMeansFenced'
    BY <2>4 DEF Signal, Crash, Gone
  <2>5. ASSUME NEW p \in Procs, NEW j \in Jobs, Fetch(p, j) \/ Finish(p, j)
        PROVE  FiredMeansFenced'
    BY <2>5 DEF Fetch, Finish, roleVars
  <2>6. ASSUME NEW j \in Jobs, RescueStuck(j) PROVE FiredMeansFenced'
    BY <2>6 DEF RescueStuck, roleVars
  <2> QED BY <2>1, <2>2, <2>3, <2>4, <2>5, <2>6 DEF Next
<1> QED BY <1>1, <1>2, TypeCorrect, PTL DEF Spec
=============================================================================
