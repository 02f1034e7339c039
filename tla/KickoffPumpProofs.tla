-------------------------- MODULE KickoffPumpProofs --------------------------
(* Theorems about KickoffPump, for every number of items, wave size, streak *)
(* and attempt bound, every set of users and every environment budget.      *)
EXTENDS KickoffPump, FiniteSetTheorems, WellFoundedInduction, TLAPS

-----------------------------------------------------------------------------
(* Facts about the listing.                                                 *)

\* Counting items gives a number: every set of items is finite.
LEMMA ItemsFinite ==
  ASSUME NEW S \in SUBSET Items
  PROVE  IsFiniteSet(S) /\ Cardinality(S) \in Nat
<1>1. IsFiniteSet(Items)
  BY FS_Interval, SizesAssumption DEF Items
<1>2. IsFiniteSet(S)
  BY <1>1, FS_Subset
<1> QED BY <1>2, FS_CardinalityType

\* A non-empty set of items has a first one.
LEMMA FirstItem ==
  ASSUME NEW S \in SUBSET Items, S # {}
  PROVE  \E i \in Items : IsLeast(i, S)
<1>1. S \subseteq Nat
  BY SizesAssumption DEF Items
<1>2. PICK i \in S : \A j \in S : ~(<<j, i>> \in OpToRel(<, Nat))
  BY <1>1, NatLessThanWellFounded, WFMin
<1>3. \A j \in S : ~(j < i)
  BY <1>1, <1>2 DEF OpToRel
<1> QED BY <1>1, <1>3 DEF IsLeast

\* ListPending returns a prefix of what is pending: an item it leaves out
\* comes after every item it returns.
LEMMA ListedIsPrefix ==
  ASSUME NEW S \in SUBSET Items, NEW want \in Nat,
         NEW i \in S, i \notin FirstOf(S, want), NEW k \in FirstOf(S, want)
  PROVE  k < i
<1> DEFINE upTo(n) == {j \in S : j <= n}
<1>1. upTo(i) \in SUBSET Items /\ upTo(k) \in SUBSET Items
  OBVIOUS
<1>2. IsFiniteSet(upTo(k)) /\ Cardinality(upTo(i)) \in Nat /\ Cardinality(upTo(k)) \in Nat
  BY <1>1, ItemsFinite
<1>3. Cardinality(upTo(k)) <= want /\ ~(Cardinality(upTo(i)) <= want)
  BY DEF FirstOf
<1>n. i \in Nat /\ k \in Nat /\ S \subseteq Nat
  BY SizesAssumption DEF Items, FirstOf
<1>4. SUFFICES ASSUME i <= k PROVE FALSE
  BY <1>n
<1>5. upTo(i) \in SUBSET upTo(k)
  <2>1. ASSUME NEW j \in upTo(i) PROVE j \in upTo(k)
    <3>1. j \in S /\ j <= i /\ j \in Nat
      BY <2>1, <1>n
    <3>2. j <= k
      BY <3>1, <1>4, <1>n
    <3> QED BY <3>1, <3>2
  <2> QED BY <2>1
<1>6. Cardinality(upTo(i)) <= Cardinality(upTo(k))
  BY <1>2, <1>5, FS_Subset
<1> QED BY <1>2, <1>3, <1>6

\* ListPending is empty only when nothing is pending.
LEMMA EmptyListing ==
  ASSUME NEW S \in SUBSET Items, NEW want \in Nat \ {0}, FirstOf(S, want) = {}
  PROVE  S = {}
<1>1. SUFFICES ASSUME S # {} PROVE FALSE
  OBVIOUS
<1>2. PICK i \in Items : IsLeast(i, S)
  BY <1>1, FirstItem
<1>n. S \subseteq Nat /\ i \in S
  BY <1>2, SizesAssumption DEF IsLeast, Items
<1>3. {j \in S : j <= i} = {i}
  <2>1. ASSUME NEW j \in S PROVE j <= i <=> j = i
    BY <1>2, <1>n DEF IsLeast
  <2> QED BY <2>1, <1>n, Zenon
<1>4. Cardinality({i}) = 1
  BY FS_Singleton
<1> QED BY <1>2, <1>3, <1>4 DEF FirstOf, IsLeast

-----------------------------------------------------------------------------
(* Type correctness.                                                        *)

\* The number of a task's live jobs, and of the items a wake lists, is a number.
LEMMA CountsAreNumbers ==
  /\ ActiveCount \in Nat
  /\ \A cur, want : Cardinality(FirstOf(Pending(cur), want)) \in Nat
  /\ \A cur, want : FirstOf(Pending(cur), want) \subseteq Items
<1>1. {i \in Items : OwnLive(i)} \in SUBSET Items
  OBVIOUS
<1>2. \A cur, want : FirstOf(Pending(cur), want) \in SUBSET Items
  BY DEF FirstOf, Pending
<1> QED BY <1>1, <1>2, ItemsFinite DEF ActiveCount

\* The records the actions build are of the types TypeOK names.
LEMMA RecordTypes ==
  /\ \A src \in Sources : FreshRow(src) \in Rows
  /\ \A own \in {"task", "other"}, src \in Sources : Job(own, src) \in Jobs
  /\ NoJob \in Jobs
  /\ NoState \in PumpStates
  /\ NoWake \in Wakes
  /\ \A src \in Sources, f \in BOOLEAN : PumpState(src, 0, FALSE, f, 0) \in PumpStates
<1>1. \A src \in Sources : FreshRow(src) \in Rows
  BY SizesAssumption DEF Rows, RowStates, FreshRow
<1>2. \A own \in {"task", "other"}, src \in Sources : Job(own, src) \in Jobs
  BY DEF Jobs, Job
<1>3. NoJob \in Jobs
  BY DEF Jobs, NoJob, Job, Sources
<1>4. NoState \in PumpStates
  BY SizesAssumption DEF PumpStates, NoState, PumpState, Sources
<1>5. NoWake \in Wakes
  BY DEF Wakes, NoWake
<1>6. \A src \in Sources, f \in BOOLEAN : PumpState(src, 0, FALSE, f, 0) \in PumpStates
  BY SizesAssumption DEF PumpStates, PumpState, Sources
<1> QED BY <1>1, <1>2, <1>3, <1>4, <1>5, <1>6

\* The initial state has the shape.
LEMMA InitType == Init => TypeOK
<1> SUFFICES ASSUME Init PROVE TypeOK
  OBVIOUS
<1> USE SizesAssumption DEF Init, Sources
<1>1. row \in Rows
  <2>1. FreshRow("cron") \in Rows
    BY RecordTypes
  <2> QED BY <2>1 DEF Rows, RowStates
<1>2. task \in Tasks /\ cancel \in Cancels /\ ghost \in Ghosts
  BY DEF Tasks, Cancels, Ghosts
<1>3. job \in [Items -> Jobs] /\ st \in PumpStates /\ wake \in Wakes
  BY RecordTypes
<1>4. click \in [Clickers -> Clicks]
  BY DEF Clicks
<1>5. left \in [LimitNames -> Nat]
  BY LimitsAssumption
<1> QED BY <1>1, <1>2, <1>3, <1>4, <1>5 DEF TypeOK

\* A new kickoff row, and the history that starts with it.
LEMMA InsertType ==
  ASSUME TypeOK, NEW src \in Sources, InsertKickoff(src)
  PROVE  row' \in Rows /\ task' \in Tasks /\ cancel' \in Cancels /\ ghost' \in Ghosts
<1>1. row' \in Rows
  BY RecordTypes DEF InsertKickoff
<1>2. task' \in Tasks /\ cancel' \in Cancels
  BY DEF InsertKickoff, TypeOK, Tasks, Cancels
<1>3. ghost' \in Ghosts
  BY DEF FullDue, InsertKickoff, Ghosts
<1> QED BY <1>1, <1>2, <1>3

\* A trigger (cron tick or Run Now) keeps every variable in shape.
LEMMA TriggerType ==
  ASSUME TypeOK, CronTick \/ (\E c \in Clickers : Click(c)) PROVE TypeOK'
<1>1. CASE CronTick
  <2>1. left' \in [LimitNames -> Nat]
    BY <1>1 DEF TypeOK, CronTick, Spend, LimitNames
  <2> QED BY <1>1, <2>1, InsertType DEF TypeOK, CronTick, pumpVars, Sources
<1>2. ASSUME NEW c \in Clickers, ClickInsert(c) PROVE TypeOK'
  <2>1. click' \in [Clickers -> Clicks]
    BY <1>2 DEF ClickInsert, ClickTo, TypeOK, Clicks
  <2> QED BY <1>2, <2>1, InsertType DEF TypeOK, ClickInsert, pumpVars, Sources
<1>3. ASSUME NEW c \in Clickers, ClickMark(c) PROVE TypeOK'
  <2>1. click' \in [Clickers -> Clicks]
    BY <1>3 DEF ClickMark, ClickTo, TypeOK, Clicks
  <2>2. CASE Upgradable(row)
    <3>1. row' = [row EXCEPT !.source = "manual"]
          /\ ghost' = [ghost EXCEPT !.promised = TRUE]
      BY <1>3, <2>2 DEF ClickMark
    <3>2. row' \in Rows /\ ghost' \in Ghosts
      BY <3>1 DEF TypeOK, Rows, Ghosts, Sources
    <3> QED BY <1>3, <2>1, <3>2 DEF TypeOK, ClickMark, pumpVars
  <2>3. CASE ~Upgradable(row)
    BY <1>3, <2>1, <2>3 DEF TypeOK, ClickMark, pumpVars
  <2> QED BY <2>2, <2>3
<1>4. ASSUME NEW c \in Clickers, ClickMarkAll(c) PROVE TypeOK'
  <2>1. click' \in [Clickers -> Clicks]
    BY <1>4 DEF ClickMarkAll, ClickTo, TypeOK, Clicks
  <2>2. row' \in Rows /\ job' \in [Items -> Jobs]
    BY <1>4 DEF ClickMarkAll, TypeOK, Rows, Jobs, Sources
  <2> QED BY <1>4, <2>1, <2>2 DEF TypeOK, ClickMarkAll, pumpVars
<1>5. ASSUME NEW c \in Clickers, ClickReinsert(c) PROVE TypeOK'
  <2>1. click' \in [Clickers -> Clicks]
    BY <1>5, SizesAssumption DEF ClickReinsert, ClickTo, TypeOK, Clicks
  <2> QED BY <1>5, <2>1, InsertType DEF TypeOK, ClickReinsert, pumpVars, Sources
<1> QED BY <1>1, <1>2, <1>3, <1>4, <1>5 DEF Click

\* A query spends a fault or nothing.
LEMMA BudgetType ==
  ASSUME TypeOK
  PROVE  /\ Fault => left' \in [LimitNames -> Nat]
         /\ Runs => left' \in [LimitNames -> Nat]
         /\ \A n \in LimitNames : Spend(n) => left' \in [LimitNames -> Nat]
BY DEF TypeOK, Fault, Runs, Spend, LimitNames

\* A failing wake keeps its memory in shape.
LEMMA TransientType ==
  ASSUME TypeOK, pumpTransientFailure PROVE st' \in PumpStates /\ wake' \in Wakes
<1>1. wake' \in Wakes
  BY DEF pumpTransientFailure, Yield, ClaimFor, TypeOK, Wakes
<1>2. st' \in PumpStates
  BY SizesAssumption DEF pumpTransientFailure, TypeOK, PumpStates
<1> QED BY <1>1, <1>2

\* Every step of a wake keeps every variable in shape.
LEMMA WakeType ==
  ASSUME TypeOK, Fetch \/ PumpStep PROVE TypeOK'
<1> USE BudgetType DEF Frame, LimitNames
<1>1. CASE Fetch
  <2>1. row' \in Rows /\ wake' \in Wakes
    BY <1>1 DEF Fetch, TypeOK, Rows, RowStates, Wakes, Goto
  <2>2. st' \in PumpStates
    BY <1>1 DEF Fetch, TypeOK, Rows, readPumpState, PumpState, PumpStates
  <2> QED BY <1>1, <2>1, <2>2 DEF Fetch, TypeOK
<1>2. CASE Check
  <2>1. wake' \in Wakes
    BY <1>2 DEF Check, TypeOK, Wakes, Goto, Yield, ClaimFor
  <2> QED BY <1>2, <2>1 DEF Check, TypeOK
<1>3. CASE Count
  <2>1. CASE pumpTransientFailure /\ Fault
    BY <1>3, <2>1, TransientType DEF Count, TypeOK
  <2>2. CASE /\ Runs /\ UNCHANGED st
             /\ wake' = [wake EXCEPT !.active = ActiveCount, !.todo = {},
                      !.pc = IF ActiveCount < Batch THEN "list" ELSE "decide",
                      !.listed = Batch]
    <3>1. wake' \in Wakes
      BY <2>2, CountsAreNumbers, SizesAssumption DEF TypeOK, Wakes
    <3> QED BY <1>3, <2>2, <3>1 DEF Count, TypeOK
  <2> QED BY <1>3, <2>1, <2>2 DEF Count
<1>4. CASE List
  <2> DEFINE ids == FirstOf(Pending(st.cursor), Batch - wake.active)
  <2>1. CASE pumpTransientFailure /\ Fault
    BY <1>4, <2>1, TransientType DEF List, TypeOK
  <2>2. CASE /\ Runs /\ UNCHANGED st
             /\ wake' = [wake EXCEPT !.listed = Cardinality(ids), !.todo = ids,
                          !.pc = IF ids = {} THEN "decide" ELSE "insert"]
    <3>0. Cardinality(ids) \in Nat /\ ids \in SUBSET Items
      BY CountsAreNumbers
    <3>1. wake' \in Wakes
      BY <2>2, <3>0 DEF TypeOK, Wakes
    <3> QED BY <1>4, <2>2, <3>1 DEF List, TypeOK
  <2> QED BY <1>4, <2>1, <2>2 DEF List
<1>5. CASE Insert
  <2>1. CASE Yield("interrupted") /\ UNCHANGED <<job, st, ghost, left>>
    <3>1. wake' \in Wakes
      BY <2>1 DEF TypeOK, Wakes, Yield
    <3> QED BY <1>5, <2>1, <3>1 DEF Insert, TypeOK
  <2>2. ASSUME NEW W \in SUBSET Items, NEW i \in Items, InsertJobs(W, i)
        PROVE  /\ wake' \in Wakes /\ st' \in PumpStates /\ job' \in [Items -> Jobs]
               /\ ghost' \in Ghosts /\ left' \in [LimitNames -> Nat]
    <3>1. wake' \in Wakes
      BY <2>2 DEF InsertJobs, TypeOK, Wakes
    <3>2. st' \in PumpStates
      <4> DEFINE skip == st.skipped \/ Free(W) # W
      <4>1. skip \in BOOLEAN
        OBVIOUS
      <4>2. i \in 0..NItems
        BY SizesAssumption DEF Items
      <4>3. \/ st' = [st EXCEPT !.cursor = i, !.skipped = skip]
            \/ st' = [st EXCEPT !.cursor = i, !.skipped = TRUE]
        BY <2>2 DEF InsertJobs
      <4> HIDE DEF skip
      <4> QED BY <4>1, <4>2, <4>3 DEF TypeOK, PumpStates
    <3>3. job' \in [Items -> Jobs]
      <4>1. Job("task", st.source) \in Jobs
        BY RecordTypes DEF TypeOK, PumpStates
      <4> QED BY <2>2, <4>1 DEF InsertJobs, TypeOK
    <3>4. ghost' \in Ghosts
      BY <2>2 DEF InsertJobs, TypeOK, Ghosts, Free
    <3>5. left' \in [LimitNames -> Nat]
      BY <2>2 DEF InsertJobs
    <3> QED BY <3>1, <3>2, <3>3, <3>4, <3>5
  <2>3. wake.todo \in SUBSET Items
    BY DEF TypeOK, Wakes
  <2>4. CASE \E i \in Items : InsertJobs(wake.todo, i) \/ InsertJobs({i}, i)
    BY <1>5, <2>2, <2>3, <2>4 DEF Insert, TypeOK
  <2> QED BY <1>5, <2>1, <2>4 DEF Insert
<1>6. CASE Decide
  <2>1. wake' \in Wakes
    BY <1>6 DEF Decide, TypeOK, Wakes, Yield, ClaimFor
  <2>2. st' \in PumpStates
    <3>1. restartSweep(st) \in PumpStates
      BY RecordTypes DEF TypeOK, PumpStates, restartSweep
    <3>2. [st EXCEPT !.errs = 0] \in PumpStates
      BY SizesAssumption DEF TypeOK, PumpStates
    <3> QED BY <1>6, <3>1, <3>2 DEF Decide, TypeOK
  <2> QED BY <1>6, <2>1, <2>2 DEF Decide, TypeOK
<1>7. CASE Claim
  <2>1. row' \in Rows
    BY <1>7 DEF Claim, UpgradedMidRun, TypeOK, Rows
  <2>2. wake' \in Wakes /\ st' \in PumpStates
    <3>1. CASE pumpTransientFailure
      BY <3>1, TransientType
    <3>2. CASE Yield("snooze") /\ (UNCHANGED st \/ st' = continueAsManual(st))
      <4>1. wake' \in Wakes
        BY <3>2 DEF TypeOK, Wakes, Yield
      <4>2. st' \in PumpStates
        BY <3>2, RecordTypes DEF TypeOK, continueAsManual, Sources
      <4> QED BY <4>1, <4>2
    <3>3. CASE Goto(IF wake.why = "window" THEN "wind" ELSE "stamp") /\ UNCHANGED st
      BY <3>3 DEF TypeOK, Wakes, Goto
    <3> QED BY <1>7, <3>1, <3>2, <3>3 DEF Claim, UpgradedMidRun
  <2>3. ghost' \in Ghosts
    BY <1>7 DEF Claim, UpgradedMidRun, TypeOK, Ghosts
  <2> QED BY <1>7, <2>1, <2>2, <2>3 DEF Claim, UpgradedMidRun, TypeOK
<1>8. CASE WindDown
  <2>1. wake' \in Wakes
    BY <1>8 DEF WindDown, TypeOK, Wakes, Goto
  <2>2. job' \in [Items -> Jobs]
    BY <1>8, RecordTypes DEF WindDown, TypeOK, CancelPendingWork
  <2> QED BY <1>8, <2>1, <2>2 DEF WindDown, TypeOK
<1>9. CASE Stamp
  <2>1. wake' \in Wakes
    BY <1>9 DEF Stamp, TypeOK, Wakes
  <2>2. task' \in Tasks
    BY <1>9 DEF Stamp, TypeOK, Tasks
  <2> QED BY <1>9, <2>1, <2>2 DEF Stamp, TypeOK
<1>10. CASE Merge
  <2>1. wake' \in Wakes
    BY <1>10 DEF Merge, TypeOK, Wakes, Goto
  <2>2. row' \in Rows
    BY <1>10 DEF Merge, patch, TypeOK, Rows, PumpStates
  <2>3. left' \in [LimitNames -> Nat]
    BY <1>10 DEF Merge, TypeOK
  <2> QED BY <1>10, <2>1, <2>2, <2>3 DEF Merge, TypeOK
<1>11. CASE Return
  <2>1. row' \in Rows
    BY <1>11 DEF Return, TypeOK, Rows, RowStates
  <2> QED BY <1>11, <2>1, RecordTypes DEF Return, TypeOK
<1> QED
  BY <1>1, <1>2, <1>3, <1>4, <1>5, <1>6, <1>7, <1>8, <1>9, <1>10, <1>11 DEF PumpStep

\* The wave a cancel sweeps away, and jobs put back in the queue, stay jobs.
LEMMA JobSetTypes ==
  ASSUME TypeOK
  PROVE  /\ CancelPendingWork \in [Items -> Jobs]
         /\ [i \in Items |-> IF job[i].state = "running"
               THEN [job[i] EXCEPT !.state = "queued"] ELSE job[i]] \in [Items -> Jobs]
<1>1. CancelPendingWork \in [Items -> Jobs]
  BY RecordTypes DEF CancelPendingWork, TypeOK
<1>2. \A i \in Items : [job[i] EXCEPT !.state = "queued"] \in Jobs
  BY DEF TypeOK, Jobs
<1> QED BY <1>1, <1>2 DEF TypeOK

\* The work jobs and the process keep every variable in shape.
LEMMA WorkType ==
  ASSUME TypeOK,
         \/ \E i \in Items : Work(i) \/ ItemArrives(i) \/ OtherOwner(i)
         \/ BeginStop \/ HardStop \/ StopDone \/ Crash \/ Boot
  PROVE  TypeOK'
<1> USE BudgetType DEF LimitNames, pumpVars, dbVars, WorkFrame
<1>1. ASSUME NEW i \in Items, WorkStart(i) PROVE TypeOK'
  <2>1. job' \in [Items -> Jobs]
    BY <1>1 DEF WorkStart, TypeOK, Jobs
  <2> QED BY <1>1, <2>1 DEF WorkStart, TypeOK
<1>2. ASSUME NEW i \in Items, WorkEnd(i) PROVE TypeOK'
  <2>1. [job[i] EXCEPT !.state = "queued"] \in Jobs
    BY DEF TypeOK, Jobs
  <2>2. job' \in [Items -> Jobs] /\ need' \in [Items -> BOOLEAN]
    BY <1>2, <2>1, RecordTypes DEF WorkEnd, TypeOK
  <2>3. ghost' \in Ghosts
    BY <1>2 DEF WorkEnd, TypeOK, Ghosts
  <2>4. left' \in [LimitNames -> Nat]
    BY <1>2 DEF WorkEnd, TypeOK
  <2> QED BY <1>2, <2>2, <2>3, <2>4 DEF WorkEnd, TypeOK
<1>3. ASSUME NEW i \in Items, ItemArrives(i) PROVE TypeOK'
  BY <1>3 DEF ItemArrives, TypeOK
<1>4. ASSUME NEW i \in Items, OtherOwner(i) PROVE TypeOK'
  <2>1. job' \in [Items -> Jobs]
    BY <1>4, RecordTypes DEF OtherOwner, TypeOK, Sources
  <2>2. left' \in [LimitNames -> Nat]
    BY <1>4 DEF OtherOwner, TypeOK
  <2> QED BY <1>4, <2>1, <2>2 DEF OtherOwner, TypeOK
<1>5. CASE BeginStop \/ StopDone
  BY <1>5 DEF BeginStop, StopDone, TypeOK
<1>6. CASE HardStop
  BY <1>6, JobSetTypes DEF HardStop, TypeOK
<1>7. CASE Crash
  BY <1>7, RecordTypes DEF Crash, TypeOK
<1>8. CASE Boot
  <2>1. row' \in Rows
    BY <1>8 DEF Boot, TypeOK, Rows, RowStates
  <2> QED BY <1>8, <2>1, JobSetTypes DEF Boot, TypeOK
<1> QED BY <1>1, <1>2, <1>3, <1>4, <1>5, <1>6, <1>7, <1>8 DEF Work

\* The cancel, the reaper and the settings keep every variable in shape.
LEMMA ControlType ==
  ASSUME TypeOK,
         \/ CancelBegin \/ Cancel \/ DeliverCancel \/ RetryJob
         \/ ReapBegin \/ Reap \/ Settings \/ WindowCloses
  PROVE  TypeOK'
<1> USE BudgetType DEF LimitNames, pumpVars, CancelFrame, ReapFrame
<1>1. CASE CancelBegin
  <2>1. cancel' \in Cancels
    BY <1>1 DEF CancelBegin, Cancels, Active
  <2> QED BY <1>1, <2>1 DEF CancelBegin, TypeOK
<1>2. CASE CancelSweep
  <2>1. cancel' \in Cancels
    BY <1>2 DEF CancelSweep, Cancels, TypeOK
  <2>2. row' \in Rows
    BY <1>2 DEF CancelSweep, SweepPending, TypeOK, Rows, RowStates
  <2> QED BY <1>2, <2>1, <2>2, JobSetTypes DEF CancelSweep, SweepPending, TypeOK
<1>3. CASE CancelListRunning
  <2>1. cancel' \in Cancels
    BY <1>3 DEF CancelListRunning, Cancels, TypeOK
  <2> QED BY <1>3, <2>1 DEF CancelListRunning, TypeOK
<1>4. CASE CancelSignal
  <2>1. cancel' \in Cancels
    BY <1>4 DEF CancelSignal, Cancels, TypeOK
  <2>2. row' \in Rows
    BY <1>4 DEF CancelSignal, TypeOK, Rows, RowStates
  <2> QED BY <1>4, <2>1, <2>2 DEF CancelSignal, TypeOK
<1>5. CASE CancelStamp
  <2>1. cancel' \in Cancels /\ task' \in Tasks
    BY <1>5 DEF CancelStamp, Cancels, Tasks, TypeOK
  <2> QED BY <1>5, <2>1 DEF CancelStamp, TypeOK
<1>6. CASE DeliverCancel
  BY <1>6 DEF DeliverCancel, TypeOK
<1>7. CASE RetryJob
  <2>1. row' \in Rows
    BY <1>7 DEF RetryJob, TypeOK, Rows, RowStates
  <2> QED BY <1>7, <2>1 DEF RetryJob, TypeOK
<1>8. CASE ReapBegin \/ ReapExceeded
  BY <1>8 DEF ReapBegin, ReapExceeded, TypeOK
<1>9. CASE ReapCancel
  BY <1>9, JobSetTypes DEF ReapCancel, TypeOK
<1>10. CASE Settings
  <2>1. task' \in Tasks
    BY <1>10 DEF Settings, TypeOK, Tasks
  <2> QED BY <1>10, <2>1 DEF Settings, TypeOK
<1>11. CASE WindowCloses
  <2>1. task' \in Tasks
    <3> DEFINE active == Active(row)
    <3>1. active \in BOOLEAN
      BY DEF Active
    <3>2. task' = [task EXCEPT !.expired = active]
      BY <1>11 DEF WindowCloses
    <3> HIDE DEF active
    <3> QED BY <3>1, <3>2 DEF TypeOK, Tasks
  <2>2. job' \in [Items -> Jobs]
    <3>1. \A i \in Items : [job[i] EXCEPT !.old = TRUE] \in Jobs
      BY DEF TypeOK, Jobs
    <3> QED BY <1>11, <3>1 DEF WindowCloses, TypeOK
  <2> QED BY <1>11, <2>1, <2>2 DEF WindowCloses, TypeOK
<1> QED
  BY <1>1, <1>2, <1>3, <1>4, <1>5, <1>6, <1>7, <1>8, <1>9, <1>10, <1>11 DEF Cancel, Reap

\* Every variable always keeps the shape the code gives it.
THEOREM TypeCorrect == Spec => []TypeOK
<1>1. Init => TypeOK
  BY InitType
<1>2. TypeOK /\ [Next]_vars => TypeOK'
  <2>1. CASE UNCHANGED vars
    BY <2>1 DEF vars, TypeOK
  <2> QED BY <2>1, TriggerType, WakeType, WorkType, ControlType DEF Next
<1> QED BY <1>1, <1>2, PTL DEF Spec

-----------------------------------------------------------------------------
(* A wake holds its row.                                                    *)

\* Nobody takes the row out of "running" while a wake works on it.
LEMMA RowHeldStep ==
  ASSUME TypeOK, RowHeld, [Next]_vars PROVE RowHeld'
<1> USE DEF RowHeld
<1>1. row \in Rows /\ wake \in Wakes
  BY DEF TypeOK
<1>2. CASE UNCHANGED vars
  BY <1>2 DEF vars
<1>3. ASSUME NEW src \in Sources, InsertKickoff(src), UNCHANGED <<wake, proc>> PROVE RowHeld'
  BY <1>3 DEF InsertKickoff, Active
<1>4. ASSUME row' \in Rows, row'.state = row.state, UNCHANGED <<wake, proc>> PROVE RowHeld'
  BY <1>4
<1>5. CASE CronTick
  BY <1>5, <1>3 DEF CronTick, pumpVars, Sources
<1>6. ASSUME NEW c \in Clickers, Click(c) PROVE RowHeld'
  <2>1. CASE ClickInsert(c)
    BY <2>1, <1>1, <1>3, <1>4 DEF ClickInsert, pumpVars, Sources
  <2>2. CASE ClickMark(c)
    BY <2>2, <1>1 DEF ClickMark, Upgradable, pumpVars, Rows
  <2>3. CASE ClickMarkAll(c)
    BY <2>3, <1>1 DEF ClickMarkAll, pumpVars, Rows
  <2>4. CASE ClickReinsert(c)
    BY <2>4, <1>1, <1>3, <1>4 DEF ClickReinsert, pumpVars, Sources
  <2> QED BY <1>6, <2>1, <2>2, <2>3, <2>4 DEF Click
<1>7. CASE Fetch
  BY <1>7, <1>1 DEF Fetch, Rows, Frame
<1>8. CASE PumpStep
  <2>1. CASE Check \/ Count \/ List \/ Insert \/ Decide \/ WindDown \/ Stamp
    <3>1. wake.pc # "idle" /\ UNCHANGED <<row, proc>>
      BY <2>1 DEF Check, Count, List, Insert, Decide, WindDown, Stamp, Frame
    <3> QED BY <3>1
  <2>2. CASE Claim \/ Merge
    <3>1. wake.pc # "idle" /\ UNCHANGED proc
      BY <2>2 DEF Claim, UpgradedMidRun, Merge, Frame
    <3>2. row'.state = row.state
      BY <2>2, <1>1 DEF Claim, UpgradedMidRun, Merge, patch, Rows
    <3> QED BY <3>1, <3>2
  <2>3. CASE Return
    BY <2>3 DEF Return, NoWake
  <2> QED BY <1>8, <2>1, <2>2, <2>3 DEF PumpStep
<1>9. CASE \E i \in Items : Work(i) \/ ItemArrives(i) \/ OtherOwner(i)
  BY <1>9 DEF Work, WorkStart, WorkEnd, ItemArrives, OtherOwner, WorkFrame, pumpVars
<1>10. CASE BeginStop \/ HardStop \/ StopDone \/ Crash \/ Boot
  BY <1>10, <1>1 DEF BeginStop, HardStop, StopDone, Crash, Boot, NoWake, dbVars, pumpVars
<1>11. CASE CancelBegin \/ Cancel \/ DeliverCancel \/ RetryJob
  BY <1>11, <1>1 DEF CancelBegin, Cancel, CancelSweep, SweepPending, CancelListRunning,
     CancelSignal, CancelStamp, DeliverCancel, RetryJob, CancelFrame, pumpVars, Rows
<1>12. CASE ReapBegin \/ Reap \/ Settings \/ WindowCloses
  BY <1>12 DEF ReapBegin, Reap, ReapExceeded, ReapCancel, Settings, WindowCloses, ReapFrame, pumpVars
<1> QED
  BY <1>2, <1>5, <1>6, <1>7, <1>8, <1>9, <1>10, <1>11, <1>12 DEF Next

-----------------------------------------------------------------------------
(* The finishing claim.                                                     *)

\* A failing wake yields, or heads for the claim as a give-up.
LEMMA TransientEnds ==
  ASSUME TypeOK, pumpTransientFailure
  PROVE  \/ wake'.pc = "merge" /\ wake'.out \in {"snooze", "interrupted"}
         \/ wake'.pc = "claim" /\ wake'.why = "giveup" /\ wake'.out = wake.out
<1>1. wake \in Wakes
  BY DEF TypeOK
<1>2. CASE ctx = "dead"
  BY <1>1, <1>2 DEF pumpTransientFailure, Yield, Wakes
<1>3. CASE ctx # "dead"
  BY <1>1, <1>3 DEF pumpTransientFailure, Yield, ClaimFor, Wakes
<1> QED BY <1>2, <1>3

\* No upgrade is accepted between the claim and River's verdict, and the claim
\* goes ahead only in a wake that knows of the upgrade.
LEMMA PromiseStep ==
  ASSUME TypeOK, RowHeld, PromiseKept, [Next]_vars PROVE PromiseKept'
<1>1. row \in Rows /\ wake \in Wakes /\ ghost \in Ghosts /\ st \in PumpStates
  BY DEF TypeOK
<1>2. CASE UNCHANGED vars
  BY <1>2 DEF vars, PromiseKept, Finishing
<1>3. ASSUME NEW src \in Sources, InsertKickoff(src), UNCHANGED <<wake, st>> PROVE PromiseKept'
  BY <1>3 DEF InsertKickoff, Active, RowHeld, PromiseKept, Finishing
<1>4. CASE CronTick
  BY <1>4, <1>3 DEF CronTick, pumpVars, Sources
<1>5. ASSUME NEW c \in Clickers, Click(c) PROVE PromiseKept'
  <2>1. CASE ClickInsert(c)
    BY <2>1, <1>3 DEF ClickInsert, pumpVars, Sources, PromiseKept, Finishing
  <2>2. CASE ClickMark(c)
    BY <2>2, <1>1 DEF ClickMark, Upgradable, pumpVars, Rows, Ghosts, PromiseKept, Finishing
  <2>3. CASE ClickMarkAll(c)
    BY <2>3, <1>1 DEF ClickMarkAll, pumpVars, Rows, PromiseKept, Finishing
  <2>4. CASE ClickReinsert(c)
    BY <2>4, <1>3 DEF ClickReinsert, pumpVars, Sources, PromiseKept, Finishing
  <2> QED BY <1>5, <2>1, <2>2, <2>3, <2>4 DEF Click
<1>6. CASE Fetch
  <2>1. ~Finishing' /\ wake'.out \in {"snooze", "interrupted"}
    BY <1>6, <1>1 DEF Fetch, Goto, Wakes, Finishing, PromiseKept
  <2> QED BY <1>6, <2>1, <1>1 DEF Fetch, Rows, PromiseKept
<1>7. CASE PumpStep
  <2>1. CASE Check \/ Count \/ List \/ Insert \/ Decide \/ Merge
    <3>1. ~Finishing' /\ (wake'.pc # "ret" => wake'.out \in {"snooze", "interrupted"})
      <4>1. CASE Check \/ Decide
        BY <4>1, <1>1 DEF Check, Decide, Goto, Yield, ClaimFor, Wakes, Finishing, PromiseKept
      <4>2. CASE Count \/ List
        <5>1. wake.out \in {"snooze", "interrupted"}
          BY <4>2 DEF Count, List, PromiseKept
        <5>2. CASE pumpTransientFailure
          BY <5>1, <5>2, TransientEnds DEF Finishing
        <5>3. CASE ~pumpTransientFailure
          <6>1. wake'.out = wake.out /\ wake'.pc \in {"list", "decide", "insert"}
            BY <4>2, <5>3, <1>1 DEF Count, List, Wakes
          <6> QED BY <5>1, <6>1 DEF Finishing
        <5> QED BY <5>2, <5>3
      <4>3. CASE Insert
        BY <4>3, <1>1 DEF Insert, InsertJobs, Yield, Wakes, Finishing, PromiseKept
      <4>4. CASE Merge
        BY <4>4, <1>1 DEF Merge, Goto, Wakes, Finishing, PromiseKept
      <4> QED BY <2>1, <4>1, <4>2, <4>3, <4>4
    <3>2. row'.source = row.source
      BY <2>1, <1>1 DEF Check, Count, List, Insert, Decide, Merge, patch, Rows
    <3>3. ghost'.promised = ghost.promised
      BY <2>1, <1>1 DEF Check, Count, List, Insert, InsertJobs, Decide, Merge, Ghosts
    <3> QED BY <3>1, <3>2, <3>3 DEF PromiseKept
  <2>2. CASE Claim
    <3>1. row'.source = row.source /\ ghost'.promised = ghost.promised
      BY <2>2, <1>1 DEF Claim, UpgradedMidRun, Rows, Ghosts
    <3>2. CASE Runs /\ row' = [row EXCEPT !.finishing = TRUE]
               /\ ~(st.source # "manual" /\ row.source = "manual") /\ UNCHANGED st
               /\ Goto(IF wake.why = "window" THEN "wind" ELSE "stamp")
      <4>1. row'.finishing /\ wake'.pc # "ret" /\ wake'.out \in {"snooze", "interrupted"}
        BY <2>2, <3>2, <1>1 DEF Claim, UpgradedMidRun, Rows, Wakes, Goto, PromiseKept
      <4> QED BY <3>1, <3>2, <4>1 DEF PromiseKept
    <3>3. CASE Yield("snooze") \/ pumpTransientFailure
      <4>1. ~Finishing' /\ wake'.pc # "ret" /\ wake'.out \in {"snooze", "interrupted"}
        <5>1. wake.out \in {"snooze", "interrupted"}
          BY <2>2 DEF Claim, UpgradedMidRun, PromiseKept
        <5>2. CASE Yield("snooze")
          BY <5>2, <1>1 DEF Yield, Wakes, Finishing
        <5> QED BY <3>3, <5>1, <5>2, TransientEnds DEF Finishing
      <4> QED BY <3>1, <4>1 DEF PromiseKept
    <3> QED BY <2>2, <3>2, <3>3 DEF Claim, UpgradedMidRun
  <2>3. CASE WindDown \/ Stamp
    <3>1. /\ Finishing /\ UNCHANGED <<row, st, ghost>>
          /\ wake'.pc # "ret" => wake'.out \in {"snooze", "interrupted"}
      BY <2>3, <1>1 DEF WindDown, Stamp, Finishing, Goto, Wakes, PromiseKept
    <3> QED BY <3>1 DEF PromiseKept
  <2>4. CASE Return
    <3>1. ~Finishing' /\ wake'.out = "snooze"
      BY <2>4 DEF Return, NoWake, Finishing
    <3> QED BY <2>4, <3>1, <1>1 DEF Return, Rows, PromiseKept
  <2> QED BY <1>7, <2>1, <2>2, <2>3, <2>4 DEF PumpStep
<1>8. CASE \E i \in Items : Work(i) \/ ItemArrives(i) \/ OtherOwner(i)
  BY <1>8, <1>1 DEF Work, WorkStart, WorkEnd, ItemArrives, OtherOwner, WorkFrame, pumpVars,
     PromiseKept, Finishing, Ghosts
<1>9. CASE BeginStop \/ HardStop \/ StopDone
  BY <1>9 DEF BeginStop, HardStop, StopDone, dbVars, pumpVars, PromiseKept, Finishing
<1>10. CASE Crash \/ Boot
  <2>1. ~Finishing' /\ (wake'.pc # "ret" => wake'.out \in {"snooze", "interrupted"})
    BY <1>10 DEF Crash, Boot, NoWake, Finishing, RowHeld, pumpVars, PromiseKept
  <2> QED BY <1>10, <2>1, <1>1 DEF Crash, Boot, dbVars, Rows, PromiseKept
<1>11. CASE CancelBegin \/ Cancel \/ DeliverCancel \/ RetryJob
  BY <1>11, <1>1 DEF CancelBegin, Cancel, CancelSweep, SweepPending, CancelListRunning,
     CancelSignal, CancelStamp, DeliverCancel, RetryJob, CancelFrame, pumpVars, Rows,
     PromiseKept, Finishing
<1>12. CASE ReapBegin \/ Reap \/ Settings \/ WindowCloses
  BY <1>12 DEF ReapBegin, Reap, ReapExceeded, ReapCancel, Settings, WindowCloses, ReapFrame,
     pumpVars, PromiseKept, Finishing
<1> QED
  BY <1>2, <1>4, <1>5, <1>6, <1>7, <1>8, <1>9, <1>10, <1>11, <1>12 DEF Next

-----------------------------------------------------------------------------
(* The sweep.                                                               *)

\* What a sweep passed stays covered when items are done or newly offered.
LEMMA SweepFrame ==
  ASSUME TypeOK, SweepInv,
         ghost'.due \subseteq ghost.due, ghost.offered \subseteq ghost'.offered,
         \A i \in ghost'.due : need'[i] /\ i \notin Cleanup,
         row'.cursor = row.cursor, row'.skipped = row.skipped, row'.final = row.final,
         UNCHANGED <<st, wake>>
  PROVE  SweepInv'
BY DEF SweepInv, Covered, Finishing

\* Before any wake of a run, or after one, only the row's own state counts.
LEMMA SweepIdle ==
  ASSUME wake'.pc = "idle", \A i \in ghost'.due : need'[i] /\ i \notin Cleanup, Covered(row)'
  PROVE  SweepInv'
BY DEF SweepInv, Finishing

\* A run begins with nothing swept.
LEMMA SweepBegins ==
  ASSUME TypeOK, RowHeld, NEW src \in Sources, InsertKickoff(src), UNCHANGED <<wake, need>>
  PROVE  SweepInv'
<1>1. wake'.pc = "idle"
  BY DEF RowHeld, InsertKickoff, Active
<1>2. \A i \in ghost'.due : need'[i] /\ i \notin Cleanup
  BY DEF InsertKickoff, FullDue
<1>3. Covered(row)'
  BY SizesAssumption DEF FullDue, InsertKickoff, FreshRow, Covered, Items
<1> QED BY <1>1, <1>2, <1>3, SweepIdle

\* Handing a wave (or one item of it) to River covers every item up to the new
\* cursor and leaves the rest of the listing to come.
LEMMA SweepInsert ==
  ASSUME TypeOK, RowHeld, SweepInv, Insert PROVE SweepInv'
<1>1. /\ row \in Rows /\ wake \in Wakes /\ ghost \in Ghosts /\ st \in PumpStates
      /\ wake.todo \subseteq Items /\ ghost.due \subseteq Items /\ Items \subseteq Nat
      /\ wake.pc = "insert" /\ wake.listed # 0
  BY SizesAssumption DEF TypeOK, Wakes, Ghosts, Items, Insert, SweepInv
<1>2. UNCHANGED <<row, need>>
  BY DEF Insert, Frame
<1>n. /\ st.cursor \in Nat
      /\ \A i \in Items : i \in Nat
      /\ \A i \in wake.todo : i \in Nat /\ st.cursor < i
      /\ \A i \in ghost.due : i \in Nat
  <2>1. st.cursor \in Nat
    BY <1>1, SizesAssumption DEF PumpStates
  <2>2. \A i \in wake.todo : st.cursor < i
    BY <1>1 DEF SweepInv
  <2>3. \A i \in Items : i \in Nat
    BY <1>1
  <2> QED BY <1>1, <2>1, <2>2, <2>3
<1>3. CASE Yield("interrupted") /\ UNCHANGED <<job, st, ghost, left>>
  <2>1. wake'.pc = "merge"
    BY <1>1, <1>3 DEF Yield, Wakes
  <2> QED BY <1>1, <1>2, <1>3, <2>1 DEF SweepInv, Covered, Finishing
<1>4. ASSUME NEW W \in SUBSET Items, NEW i \in Items, InsertJobs(W, i),
             W \subseteq wake.todo, i \in W,
             \A j \in wake.todo : j <= i => j \in W,
             \A j \in W : j <= i
      PROVE  SweepInv'
  <2>1. /\ ghost'.due = ghost.due /\ ghost.offered \subseteq ghost'.offered
        /\ st'.cursor = i /\ st'.final = st.final
        /\ st.skipped => st'.skipped
        /\ W \subseteq ghost'.offered \/ (st'.skipped /\ ~st'.final)
    <3>1. st'.cursor = i /\ st'.final = st.final
      BY <1>1, <1>4 DEF InsertJobs, PumpStates
    <3>2. CASE /\ st' = [st EXCEPT !.cursor = i, !.skipped = @ \/ Free(W) # W]
               /\ ghost' = [ghost EXCEPT !.offered = @ \cup (IF st.final THEN W ELSE Free(W))]
      <4>1. CASE st.final \/ Free(W) = W
        BY <1>1, <3>2, <4>1 DEF PumpStates, Ghosts
      <4>2. CASE ~st.final /\ Free(W) # W
        BY <1>1, <3>2, <4>2 DEF PumpStates, Ghosts
      <4> QED BY <4>1, <4>2
    <3>3. CASE /\ st' = [st EXCEPT !.cursor = i, !.skipped = TRUE]
               /\ ghost' = [ghost EXCEPT !.offered = @ \cup (IF st.final THEN W ELSE {})]
      BY <1>1, <3>3 DEF PumpStates, Ghosts
    <3> QED BY <1>4, <3>1, <3>2, <3>3 DEF InsertJobs
  <2>2. Covered(row)'
    BY <1>2, <2>1 DEF Covered, SweepInv
  <2>3. Covered(st)'
    <3>1. SUFFICES ASSUME NEW j \in ghost.due, j <= i
                   PROVE  j \in ghost'.offered \/ (st'.skipped /\ ~st'.final)
      BY <2>1 DEF Covered
    <3>2. CASE j <= st.cursor
      BY <1>1, <2>1, <3>2 DEF SweepInv, Covered
    <3>3. CASE ~(j <= st.cursor)
      <4>1. j > st.cursor /\ j \in Nat /\ i \in Nat
        BY <1>n, <3>3
      <4>2. j \in wake.todo \/ \A k \in wake.todo : k < j
        BY <1>1, <4>1 DEF SweepInv
      <4>3. j \in W
        BY <1>4, <3>1, <4>1, <4>2
      <4> QED BY <2>1, <4>3
    <3> QED BY <3>2, <3>3
  <2>4. /\ wake'.todo = wake.todo \ W /\ wake'.listed = wake.listed
        /\ wake'.pc \in {"insert", "decide"}
    BY <1>1, <1>4 DEF InsertJobs, Wakes
  <2>5. \A k \in wake'.todo : st'.cursor < k
    <3>1. \A k \in wake.todo \ W : i < k
      BY <1>n, <1>4
    <3> QED BY <2>1, <2>4, <3>1
  <2>6. \A j \in ghost'.due : j > st'.cursor =>
          j \in wake'.todo \/ \A k \in wake'.todo : k < j
    <3>1. SUFFICES ASSUME NEW j \in ghost.due, j > i
                   PROVE  j \in wake'.todo \/ \A k \in wake'.todo : k < j
      BY <2>1
    <3>2. j > st.cursor
      <4>1. st.cursor < i /\ st.cursor \in Nat /\ j \in Nat /\ i \in Nat
        BY <1>n, <1>4
      <4> QED BY <4>1, <3>1
    <3>3. j \in wake.todo \/ \A k \in wake.todo : k < j
      BY <1>1, <3>2 DEF SweepInv
    <3>4. j \notin W
      <4>1. j \in Nat /\ i \in Nat /\ ~(j <= i)
        BY <1>n, <3>1
      <4> QED BY <1>4, <4>1
    <3> QED BY <2>4, <3>3, <3>4
  <2> QED BY <1>1, <1>2, <2>1, <2>2, <2>3, <2>4, <2>5, <2>6 DEF SweepInv, Finishing
<1>5. CASE ctx # "dead" /\ \E i \in Items : IsLast(i, wake.todo) /\ InsertJobs(wake.todo, i)
  BY <1>1, <1>4, <1>5 DEF IsLast
<1>6. CASE ctx # "dead" /\ \E i \in Items : IsLeast(i, wake.todo) /\ InsertJobs({i}, i)
  <2>1. PICK i \in Items : IsLeast(i, wake.todo) /\ InsertJobs({i}, i)
    BY <1>6
  <2>2. \A j \in wake.todo : j <= i => j \in {i}
    BY <1>n, <2>1 DEF IsLeast
  <2>3. i \in wake.todo /\ i <= i
    BY <1>n, <2>1 DEF IsLeast
  <2> QED BY <1>4, <2>1, <2>2, <2>3
<1> QED BY <1>3, <1>5, <1>6 DEF Insert

\* Away from the insert loop, the decision and the drained claim, only what the
\* two copies of the cursor cover counts.
LEMMA SweepQuiet ==
  ASSUME SweepInv, UNCHANGED need, ghost'.due = ghost.due,
         Covered(row)', Covered(st)',
         \/ wake'.pc \in {"check", "count", "merge"}
         \/ wake'.pc = "claim" /\ wake'.why # "drained"
         \/ wake'.pc = "ret" /\ wake'.out \in {"snooze", "interrupted"}
  PROVE  SweepInv'
BY DEF SweepInv, Finishing

\* A failing wake keeps its cursor.
LEMMA SweepTransient ==
  ASSUME TypeOK, SweepInv, wake.pc # "idle", pumpTransientFailure,
         row'.cursor = row.cursor, row'.skipped = row.skipped, row'.final = row.final,
         UNCHANGED <<need, ghost>>
  PROVE  SweepInv'
<1>1. st'.cursor = st.cursor /\ st'.skipped = st.skipped /\ st'.final = st.final
  BY DEF pumpTransientFailure, TypeOK, PumpStates
<1>2. Covered(st)' /\ Covered(row)'
  BY <1>1 DEF SweepInv, Covered
<1>3. \/ wake'.pc = "merge"
      \/ wake'.pc = "claim" /\ wake'.why # "drained"
  BY TransientEnds
<1> QED BY <1>2, <1>3, SweepQuiet

\* Every step of a wake keeps the sweep complete.
LEMMA SweepWake ==
  ASSUME TypeOK, RowHeld, PromiseKept, SweepInv, Fetch \/ PumpStep PROVE SweepInv'
<1>1. /\ row \in Rows /\ wake \in Wakes /\ ghost \in Ghosts /\ st \in PumpStates
      /\ ghost.due \subseteq Items /\ (\A i \in Items : i \in Nat /\ i > 0)
  BY SizesAssumption DEF TypeOK, Ghosts, Items
<1>2. CASE Fetch
  <2>1. Covered(st)' /\ Covered(row)'
    BY <1>1, <1>2 DEF Fetch, readPumpState, PumpState, Rows, SweepInv, Covered
  <2>2. wake'.pc = "check"
    BY <1>1, <1>2 DEF Fetch, Goto, Wakes
  <2> QED BY <1>2, <2>1, <2>2, SweepQuiet DEF Fetch, Frame
<1>3. CASE Check
  <2>1. \/ wake'.pc \in {"merge", "count"}
        \/ wake'.pc = "claim" /\ wake'.why # "drained"
    BY <1>1, <1>3 DEF Check, Goto, Yield, ClaimFor, Wakes
  <2>2. Covered(st)' /\ Covered(row)'
    BY <1>3 DEF Check, SweepInv, Covered
  <2> QED BY <1>3, <2>1, <2>2, SweepQuiet DEF Check, Frame
<1>4. CASE Count
  <2>1. wake.pc # "idle" /\ UNCHANGED <<row, need, ghost>>
    BY <1>4 DEF Count, Frame
  <2>2. CASE pumpTransientFailure
    BY <2>1, <2>2, SweepTransient
  <2>3. CASE /\ UNCHANGED st
             /\ wake' = [wake EXCEPT !.active = ActiveCount, !.todo = {},
                      !.pc = IF ActiveCount < Batch THEN "list" ELSE "decide",
                      !.listed = Batch]
    <3>1. wake'.pc \in {"list", "decide"} /\ wake'.listed # 0
      BY <1>1, <2>3, SizesAssumption DEF Wakes
    <3> QED BY <2>1, <2>3, <3>1 DEF SweepInv, Covered, Finishing
  <2> QED BY <1>4, <2>2, <2>3 DEF Count
<1>5. CASE List
  <2> DEFINE ids == FirstOf(Pending(st.cursor), Batch - wake.active)
  <2>1. wake.pc # "idle" /\ UNCHANGED <<row, need, ghost>>
    BY <1>5 DEF List, Frame
  <2>2. CASE pumpTransientFailure
    BY <2>1, <2>2, SweepTransient
  <2>3. CASE /\ UNCHANGED st
             /\ wake' = [wake EXCEPT !.listed = Cardinality(ids), !.todo = ids,
                          !.pc = IF ids = {} THEN "decide" ELSE "insert"]
    <3> DEFINE P == Pending(st.cursor)
               want == Batch - wake.active
    <3>1. want \in Nat \ {0}
      BY <1>1, <1>5, SizesAssumption DEF Wakes, List, SweepInv
    <3>2. P \in SUBSET Items /\ (\A k \in P : st.cursor < k)
      BY DEF Pending
    <3>3. ids = {} => P = {}
      BY <3>1, <3>2, EmptyListing
    <3>4. ids # {} => Cardinality(ids) # 0
      <4>1. ids \in SUBSET Items
        BY <3>2 DEF FirstOf
      <4> QED BY <4>1, ItemsFinite, FS_EmptySet
    <3>5. \A i \in ghost.due : i > st.cursor => i \in P
      BY <1>1 DEF SweepInv, Pending
    <3>6. \A i \in P : i \in ids \/ \A k \in ids : k < i
      BY <3>1, <3>2, ListedIsPrefix
    <3>7. /\ ghost'.due = ghost.due /\ ghost'.offered = ghost.offered
          /\ wake'.todo = ids /\ wake'.listed = Cardinality(ids)
          /\ wake'.pc = IF ids = {} THEN "decide" ELSE "insert"
      BY <1>1, <2>1, <2>3 DEF Wakes, Ghosts
    <3>8. Covered(st)' /\ Covered(row)'
      BY <2>1, <2>3, <3>7 DEF SweepInv, Covered
    <3>9. CASE ids = {}
      <4>1. \A i \in ghost.due : i <= st.cursor
        BY <1>1, <3>3, <3>5, <3>9, SizesAssumption DEF PumpStates
      <4> HIDE DEF ids, P, want
      <4> QED BY <2>1, <2>3, <3>7, <3>8, <3>9, <4>1 DEF SweepInv, Finishing
    <3>10. CASE ids # {}
      <4>1. \A k \in ids : st.cursor < k
        BY <3>2 DEF FirstOf
      <4> HIDE DEF ids, P, want
      <4> QED BY <2>1, <2>3, <3>4, <3>5, <3>6, <3>7, <3>8, <3>10, <4>1 DEF SweepInv, Finishing
    <3> QED BY <3>9, <3>10
  <2> QED BY <1>5, <2>2, <2>3 DEF List
<1>6. CASE Insert
  BY <1>6, SweepInsert
<1>7. CASE Decide
  <2>0. UNCHANGED <<row, need, ghost>> /\ wake.pc = "decide"
    BY <1>7 DEF Decide, Frame
  <2>1. Covered(row)'
    BY <2>0 DEF SweepInv, Covered
  <2>2. CASE st' = restartSweep(st) /\ Yield("snooze")
    <3>1. Covered(st)'
      BY <1>1, <2>0, <2>2 DEF restartSweep, PumpState, Covered
    <3>2. wake'.pc = "merge"
      BY <1>1, <2>2 DEF Yield, Wakes
    <3> QED BY <2>0, <2>1, <3>1, <3>2, SweepQuiet
  <2>3. CASE st' = [st EXCEPT !.errs = 0] /\ Yield("snooze")
    <3>1. Covered(st)'
      BY <1>1, <2>0, <2>3 DEF SweepInv, PumpStates, Covered
    <3>2. wake'.pc = "merge"
      BY <1>1, <2>3 DEF Yield, Wakes
    <3> QED BY <2>0, <2>1, <3>1, <3>2, SweepQuiet
  <2>4. CASE wake.listed = 0 /\ ~CanRestart(st) /\ ClaimFor("drained") /\ UNCHANGED st
    <3>1. ghost.due \subseteq ghost.offered
      BY <2>0, <2>4 DEF SweepInv, Covered, CanRestart
    <3>2. wake'.pc = "claim"
      BY <1>1, <2>4 DEF ClaimFor, Wakes
    <3> QED BY <2>0, <2>1, <2>4, <3>1, <3>2 DEF SweepInv, Covered, Finishing
  <2> QED BY <1>7, <2>2, <2>3, <2>4 DEF Decide
<1>8. CASE Claim
  <2>0. /\ UNCHANGED need /\ wake.pc = "claim"
        /\ row'.cursor = row.cursor /\ row'.skipped = row.skipped /\ row'.final = row.final
        /\ ghost'.due = ghost.due /\ ghost'.offered = ghost.offered
    BY <1>1, <1>8 DEF Claim, UpgradedMidRun, Frame, Rows, Ghosts
  <2>1. Covered(row)'
    BY <2>0 DEF SweepInv, Covered
  <2>2. CASE st' = continueAsManual(st) /\ Yield("snooze")
    <3>1. Covered(st)'
      BY <1>1, <2>0, <2>2 DEF continueAsManual, PumpState, Covered
    <3>2. wake'.pc = "merge"
      BY <1>1, <2>2 DEF Yield, Wakes
    <3> QED BY <2>0, <2>1, <3>1, <3>2, SweepQuiet
  <2>3. CASE Goto(IF wake.why = "window" THEN "wind" ELSE "stamp") /\ UNCHANGED <<st, ghost>>
    <3>1. wake'.pc \in {"wind", "stamp"} /\ wake'.why = wake.why
      BY <1>1, <2>3 DEF Goto, Wakes
    <3> QED BY <2>0, <2>1, <2>3, <3>1 DEF SweepInv, Covered, Finishing
  <2>4. CASE Yield("snooze") /\ UNCHANGED st
    <3>1. Covered(st)'
      BY <2>0, <2>4 DEF SweepInv, Covered
    <3>2. wake'.pc = "merge"
      BY <1>1, <2>4 DEF Yield, Wakes
    <3> QED BY <2>0, <2>1, <3>1, <3>2, SweepQuiet
  <2>5. CASE pumpTransientFailure /\ UNCHANGED ghost
    BY <2>0, <2>5, SweepTransient
  <2> QED BY <1>8, <2>2, <2>3, <2>4, <2>5 DEF Claim, UpgradedMidRun
<1>9. CASE WindDown \/ Stamp
  <2>1. UNCHANGED <<row, need, st, ghost>> /\ Finishing
    BY <1>9 DEF WindDown, Stamp, Frame, Finishing
  <2>2. wake'.pc \in {"stamp", "ret"} /\ wake'.why = wake.why
    BY <1>1, <1>9 DEF WindDown, Stamp, Goto, Wakes
  <2> QED BY <1>9, <2>1, <2>2 DEF WindDown, Stamp, SweepInv, Covered, Finishing
<1>10. CASE Merge
  <2>1. UNCHANGED <<need, st, ghost>> /\ wake.pc = "merge"
    BY <1>10 DEF Merge, Frame
  <2>2. wake'.pc = "ret" /\ wake'.out \in {"snooze", "interrupted"}
    BY <1>1, <1>10 DEF Merge, Goto, Wakes, PromiseKept
  <2>3. Covered(st)'
    BY <2>1 DEF SweepInv, Covered
  <2>4. Covered(row)'
    <3>1. CASE UNCHANGED row
      BY <2>1, <3>1 DEF SweepInv, Covered
    <3>2. CASE row' = patch(row, st)
      <4>1. row'.cursor = st.cursor /\ row'.skipped = st.skipped /\ row'.final = st.final
        BY <1>1, <3>2 DEF patch, Rows
      <4> QED BY <2>1, <4>1 DEF SweepInv, Covered
    <3> QED BY <1>10, <3>1, <3>2 DEF Merge
  <2> QED BY <2>1, <2>2, <2>3, <2>4, SweepQuiet
<1>11. CASE Return
  <2>1. wake'.pc = "idle" /\ UNCHANGED <<need, ghost>>
    BY <1>11 DEF Return, NoWake, Frame
  <2>2. Covered(row)'
    BY <1>1, <1>11, <2>1 DEF Return, Rows, SweepInv, Covered
  <2> QED BY <2>1, <2>2, SweepIdle DEF SweepInv
<1> QED
  BY <1>2, <1>3, <1>4, <1>5, <1>6, <1>7, <1>8, <1>9, <1>10, <1>11 DEF PumpStep

\* Every other step only shrinks what is due, or begins a run.
LEMMA SweepStep ==
  ASSUME TypeOK, RowHeld, PromiseKept, SweepInv, [Next]_vars PROVE SweepInv'
<1>1. row \in Rows /\ wake \in Wakes /\ ghost \in Ghosts /\ \A i \in ghost.due : need[i] /\ i \notin Cleanup
  BY DEF TypeOK, SweepInv
<1>2. CASE UNCHANGED vars
  BY <1>1, <1>2, SweepFrame DEF vars
<1>3. CASE CronTick
  BY <1>3, SweepBegins DEF CronTick, pumpVars, Sources
<1>4. ASSUME NEW c \in Clickers, Click(c) PROVE SweepInv'
  <2>1. UNCHANGED <<st, wake, need>>
    BY <1>4 DEF Click, ClickInsert, ClickMark, Upgradable, ClickMarkAll, ClickReinsert, pumpVars
  <2>2. CASE InsertKickoff("manual")
    BY <2>1, <2>2, SweepBegins DEF Sources
  <2>3. CASE ~InsertKickoff("manual")
    <3>1. /\ ghost'.due = ghost.due /\ ghost'.offered = ghost.offered
          /\ row'.cursor = row.cursor /\ row'.skipped = row.skipped /\ row'.final = row.final
      BY <1>1, <1>4, <2>3 DEF Click, ClickInsert, ClickMark, Upgradable, ClickMarkAll, ClickReinsert, Rows, Ghosts
    <3> QED BY <1>1, <2>1, <3>1, SweepFrame
  <2> QED BY <2>2, <2>3
<1>5. CASE Fetch \/ PumpStep
  BY <1>5, SweepWake
<1>6. ASSUME NEW i \in Items, Work(i) \/ ItemArrives(i) \/ OtherOwner(i) PROVE SweepInv'
  <2>1. UNCHANGED <<row, st, wake>>
    BY <1>6 DEF Work, WorkStart, WorkEnd, ItemArrives, OtherOwner, WorkFrame, pumpVars
  <2>2. ghost'.due \subseteq ghost.due /\ ghost'.offered = ghost.offered
    BY <1>1, <1>6 DEF Work, WorkStart, WorkEnd, ItemArrives, OtherOwner, Ghosts
  <2>3. \A j \in ghost'.due : need'[j] /\ j \notin Cleanup
    <3>1. CASE UNCHANGED need
      BY <1>1, <2>2, <3>1
    <3>2. CASE need' = [need EXCEPT ![i] = FALSE] /\ ghost' = [ghost EXCEPT !.due = @ \ {i}]
      BY <1>1, <3>2 DEF Ghosts
    <3>3. CASE need' = [need EXCEPT ![i] = TRUE]
      BY <1>1, <2>2, <3>3 DEF Ghosts, TypeOK
    <3> QED
      BY <1>6, <3>1, <3>2, <3>3 DEF Work, WorkStart, WorkEnd, ItemArrives, OtherOwner, WorkFrame
  <2> QED BY <2>1, <2>2, <2>3, SweepFrame
<1>7. CASE BeginStop \/ HardStop \/ StopDone
  BY <1>1, <1>7, SweepFrame DEF BeginStop, HardStop, StopDone, dbVars, pumpVars
<1>8. CASE Crash
  <2>1. wake'.pc = "idle" /\ UNCHANGED <<row, need, ghost>>
    BY <1>8 DEF Crash, NoWake, dbVars
  <2> QED BY <1>1, <2>1, SweepIdle DEF SweepInv, Covered
<1>9. CASE Boot
  <2>1. /\ UNCHANGED <<st, wake, need, ghost>>
        /\ row'.cursor = row.cursor /\ row'.skipped = row.skipped /\ row'.final = row.final
    BY <1>1, <1>9 DEF Boot, Rows, pumpVars
  <2> QED BY <1>1, <2>1, SweepFrame
<1>10. CASE CancelBegin \/ Cancel \/ DeliverCancel \/ RetryJob
  <2>1. /\ UNCHANGED <<st, wake, need, ghost>>
        /\ row'.cursor = row.cursor /\ row'.skipped = row.skipped /\ row'.final = row.final
    BY <1>1, <1>10 DEF CancelBegin, Cancel, CancelSweep, SweepPending, CancelListRunning,
       CancelSignal, CancelStamp, DeliverCancel, RetryJob, CancelFrame, pumpVars, Rows
  <2> QED BY <1>1, <2>1, SweepFrame
<1>11. CASE ReapBegin \/ Reap \/ Settings \/ WindowCloses
  <2>1. UNCHANGED <<row, st, wake, need, ghost>>
    BY <1>11 DEF ReapBegin, Reap, ReapExceeded, ReapCancel, Settings, WindowCloses, ReapFrame, pumpVars
  <2> QED BY <1>1, <2>1, SweepFrame
<1> QED
  BY <1>2, <1>3, <1>4, <1>5, <1>6, <1>7, <1>8, <1>9, <1>10, <1>11 DEF Next

-----------------------------------------------------------------------------
(* The theorems.                                                            *)

PumpInv == TypeOK /\ RowHeld /\ PromiseKept /\ SweepInv

\* The inductive invariant of a pump run.
THEOREM PumpInvariant == Spec => [](TypeOK /\ RowHeld /\ PromiseKept /\ SweepInv)
<1>1. Init => PumpInv
  <2> SUFFICES ASSUME Init PROVE PumpInv
    OBVIOUS
  <2>1. RowHeld
    BY DEF Init, NoWake, RowHeld
  <2>2. PromiseKept
    BY DEF Init, NoWake, PromiseKept, Finishing
  <2>3. SweepInv
    BY DEF Init, NoWake, SweepInv, Covered, Finishing
  <2> QED BY <2>1, <2>2, <2>3, InitType DEF PumpInv
<1>2. PumpInv /\ [Next]_vars => PumpInv'
  <2> SUFFICES ASSUME PumpInv, [Next]_vars PROVE PumpInv'
    OBVIOUS
  <2>1. TypeOK'
    <3>1. CASE UNCHANGED vars
      BY <3>1 DEF vars, TypeOK, PumpInv
    <3> QED BY <3>1, TriggerType, WakeType, WorkType, ControlType DEF Next, PumpInv
  <2>2. RowHeld' /\ PromiseKept' /\ SweepInv'
    BY RowHeldStep, PromiseStep, SweepStep DEF PumpInv
  <2> QED BY <2>1, <2>2 DEF PumpInv
<1>3. PumpInv <=> TypeOK /\ RowHeld /\ PromiseKept /\ SweepInv
  BY DEF PumpInv
<1> QED BY <1>1, <1>2, <1>3, PTL DEF Spec

\* A completing pump knows of every upgrade its row accepted, whatever the
\* interleaving of clicks, cron ticks, cancels, faults and restarts.
THEOREM RunNowSurvivesFinish == Spec => []UpgradeSeenByFinish
<1>1. PromiseKept => UpgradeSeenByFinish
  BY DEF PromiseKept, UpgradeSeenByFinish
<1> QED BY <1>1, PumpInvariant, PTL

\* While a wake runs nobody takes its row out of "running": not a click, not a
\* cancel, not a retry; so what it lists and claims is its own run's.
THEOREM WakeHoldsRow == Spec => []RowHeld
BY PumpInvariant, PTL

\* Once a Run Now upgrade was accepted the row stays marked manual to the end
\* of the run, and a wake that has claimed the finish knows of it.
THEOREM UpgradePromiseKept == Spec => []PromiseKept
BY PumpInvariant, PTL

\* A drained run has offered River every item that needed work at its start.
THEOREM NoItemStranded == Spec => []DrainedMeansOffered
<1>1. SweepInv => DrainedMeansOffered
  BY DEF SweepInv, DrainedMeansOffered
<1> QED BY <1>1, PumpInvariant, PTL

\* No step takes an active run from manual back to cron.
THEOREM UpgradeNeverUndone == Spec => UpgradeSticks
<1>1. TypeOK /\ [Next]_vars =>
        [Active(row) /\ row.source = "manual" => row'.source = "manual"]_vars
  <2> SUFFICES ASSUME TypeOK, Next, Active(row), row.source = "manual"
               PROVE  row'.source = "manual"
    BY DEF vars
  <2>1. row \in Rows
    BY DEF TypeOK
  <2>2. CASE CronTick \/ (\E c \in Clickers : Click(c))
    BY <2>1, <2>2 DEF CronTick, InsertKickoff, Click, ClickInsert, ClickMark, Upgradable, ClickMarkAll,
       ClickReinsert, Rows
  <2>3. CASE Fetch \/ PumpStep
    BY <2>1, <2>3 DEF Fetch, PumpStep, Check, Count, List, Insert, Decide, Claim, UpgradedMidRun, WindDown,
       Stamp, Merge, Return, patch, Rows
  <2>4. CASE \E i \in Items : Work(i) \/ ItemArrives(i) \/ OtherOwner(i)
    BY <2>4 DEF Work, WorkStart, WorkEnd, ItemArrives, OtherOwner, WorkFrame
  <2>5. CASE BeginStop \/ HardStop \/ StopDone \/ Crash \/ Boot
    BY <2>1, <2>5 DEF BeginStop, HardStop, StopDone, Crash, Boot, dbVars, Rows
  <2>6. CASE CancelBegin \/ Cancel \/ DeliverCancel \/ RetryJob
    BY <2>1, <2>6 DEF CancelBegin, Cancel, CancelSweep, SweepPending, CancelListRunning,
       CancelSignal, CancelStamp, DeliverCancel, RetryJob, Rows
  <2>7. CASE ReapBegin \/ Reap \/ Settings \/ WindowCloses
    BY <2>7 DEF ReapBegin, Reap, ReapExceeded, ReapCancel, Settings, WindowCloses, ReapFrame
  <2> QED BY <2>2, <2>3, <2>4, <2>5, <2>6, <2>7 DEF Next
<1> QED BY <1>1, TypeCorrect, PTL DEF UpgradeSticks, Spec

-----------------------------------------------------------------------------
(* One wave at a time.                                                      *)

\* A non-empty set of items has a last one.
LEMMA LastItem ==
  ASSUME NEW S \in SUBSET Items, S # {}
  PROVE  \E i \in S : \A j \in S : j <= i
<1> DEFINE mirror == {n \in Items : NItems + 1 - n \in S}
<1>1. \A i \in S : i \in Nat /\ NItems + 1 - i \in Items /\ NItems + 1 - (NItems + 1 - i) = i
  BY SizesAssumption DEF Items
<1>2. mirror # {}
  BY <1>1
<1>3. PICK m \in Items : IsLeast(m, mirror)
  BY <1>2, FirstItem
<1>4. m \in Nat /\ NItems + 1 - m \in S
  BY <1>3, SizesAssumption DEF IsLeast, Items
<1>5. \A j \in S : j <= NItems + 1 - m
  <2> SUFFICES ASSUME NEW j \in S PROVE j <= NItems + 1 - m
    OBVIOUS
  <2>1. NItems + 1 - j \in mirror
    BY <1>1
  <2>2. m <= NItems + 1 - j
    BY <1>3, <2>1 DEF IsLeast
  <2> QED BY <1>1, <1>4, <2>2, SizesAssumption
<1> QED BY <1>4, <1>5

\* ListPending returns no more than it was asked for.
LEMMA ListedFits ==
  ASSUME NEW S \in SUBSET Items, NEW want \in Nat
  PROVE  Cardinality(FirstOf(S, want)) <= want
<1> DEFINE T == FirstOf(S, want)
<1>1. T \in SUBSET Items /\ T \subseteq S
  BY DEF FirstOf
<1>2. CASE T = {}
  BY <1>2, FS_EmptySet
<1>3. CASE T # {}
  <2>1. PICK m \in T : \A j \in T : j <= m
    BY <1>1, <1>3, LastItem
  <2> DEFINE U == {j \in S : j <= m}
  <2>2. Cardinality(U) <= want
    BY <2>1 DEF FirstOf
  <2>3. T \in SUBSET U /\ U \in SUBSET Items
    BY <1>1, <2>1
  <2>4. IsFiniteSet(U) /\ Cardinality(U) \in Nat /\ Cardinality(T) \in Nat
    BY <1>1, <2>3, ItemsFinite
  <2>5. Cardinality(T) <= Cardinality(U)
    BY <2>3, <2>4, FS_Subset
  <2> HIDE DEF T, U
  <2>6. Cardinality(T) <= want
    BY <2>2, <2>4, <2>5
  <2> QED BY <2>6 DEF T
<1> QED BY <1>2, <1>3

\* The task's own jobs in River, the wave that a listing may still add, and the
\* rest of the wave that is being inserted.
Live == {i \in Items : OwnLive(i)}
WaveFits ==
  /\ Cardinality(Live) <= Batch
  /\ wake.pc = "list" => Cardinality(Live) <= wake.active /\ wake.active < Batch
  /\ wake.pc = "insert" => Cardinality(Live) + Cardinality(wake.todo) <= Batch

\* It goes on fitting while only the wake itself adds jobs.
LEMMA WaveStays ==
  ASSUME TypeOK, WaveFits, Live' \subseteq Live,
         wake'.pc \in {"list", "insert"} => wake' = wake
  PROVE  WaveFits'
<1> DEFINE c == Cardinality(Live)
           d == Cardinality(Live')
           t == Cardinality(wake.todo)
<1>1. Live \in SUBSET Items /\ Live' \in SUBSET Live /\ wake.todo \in SUBSET Items /\ wake.active \in Nat
  BY DEF Live, TypeOK, Wakes
<1>2. IsFiniteSet(Live) /\ c \in Nat /\ d \in Nat /\ t \in Nat
  BY <1>1, ItemsFinite
<1>3. d <= c
  BY <1>1, <1>2, FS_Subset
<1>4. /\ c <= Batch
      /\ wake.pc = "list" => c <= wake.active /\ wake.active < Batch
      /\ wake.pc = "insert" => c + t <= Batch
  BY DEF WaveFits
<1>5. wake'.pc = "insert" => Cardinality(wake'.todo) = t
  OBVIOUS
<1> HIDE DEF c, d, t
<1>6. /\ d <= Batch
      /\ wake'.pc = "list" => d <= wake'.active /\ wake'.active < Batch
      /\ wake'.pc = "insert" => d + Cardinality(wake'.todo) <= Batch
  BY <1>1, <1>2, <1>3, <1>4, <1>5, SizesAssumption
<1> QED BY <1>6 DEF WaveFits, d

\* Each job that is inserted was part of the wave.
LEMMA WaveInsert ==
  ASSUME TypeOK, WaveFits, Insert PROVE WaveFits'
<1>1. wake \in Wakes /\ wake.pc = "insert" /\ wake.todo \in SUBSET Items /\ job \in [Items -> Jobs]
      /\ st \in PumpStates
  BY DEF Insert, TypeOK, Wakes
<1>2. CASE Yield("interrupted") /\ UNCHANGED <<job, st, ghost, left>>
  <2>1. wake'.pc = "merge" /\ Live' = Live
    BY <1>1, <1>2 DEF Yield, Wakes, Live, OwnLive
  <2> QED BY <2>1, WaveStays
<1>3. ASSUME NEW W \in SUBSET Items, NEW i \in Items, InsertJobs(W, i), W \subseteq wake.todo
      PROVE  WaveFits'
  <2>1. wake'.todo = wake.todo \ W /\ wake'.pc # "list"
    BY <1>1, <1>3 DEF InsertJobs, Wakes
  <2>2. Live' \subseteq Live \cup W
    <3>1. CASE job' = job
      BY <3>1 DEF Live, OwnLive
    <3>2. CASE job' = [j \in Items |-> IF j \in Free(W) THEN Job("task", st.source) ELSE job[j]]
      BY <3>2 DEF Live, OwnLive, Free
    <3> QED BY <1>3, <3>1, <3>2 DEF InsertJobs
  <2> DEFINE c == Cardinality(Live)
             w == Cardinality(W)
             d == Cardinality(Live')
             t == Cardinality(wake.todo)
  <2>3. Live \in SUBSET Items /\ wake.todo \in SUBSET Items /\ Live \cup W \in SUBSET Items
        /\ Live' \in SUBSET (Live \cup W) /\ Live \cap W \in SUBSET Items /\ wake.todo \cap W = W
    BY <1>1, <1>3, <2>2 DEF Live
  <2>4. /\ IsFiniteSet(Live) /\ IsFiniteSet(W) /\ IsFiniteSet(wake.todo) /\ IsFiniteSet(Live \cup W)
        /\ c \in Nat /\ w \in Nat /\ t \in Nat /\ d \in Nat
        /\ Cardinality(Live \cap W) \in Nat /\ Cardinality(Live \cup W) \in Nat
    BY <2>3, ItemsFinite
  <2>5. d <= Cardinality(Live \cup W)
    BY <2>3, <2>4, FS_Subset
  <2>6. Cardinality(Live \cup W) = c + w - Cardinality(Live \cap W)
    BY <2>4, FS_Union
  <2>7. Cardinality(wake.todo \ W) = t - w
    BY <2>3, <2>4, FS_Difference
  <2>8. w <= t
    BY <1>3, <2>4, FS_Subset
  <2>9. c + t <= Batch
    BY <1>1 DEF WaveFits
  <2> DEFINE both == Cardinality(Live \cap W)
             all == Cardinality(Live \cup W)
             rest == Cardinality(wake.todo \ W)
  <2> HIDE DEF c, w, d, t, both, all, rest
  <2>10. d <= all /\ all = c + w - both /\ rest = t - w /\ both \in Nat /\ all \in Nat
    BY <2>4, <2>5, <2>6, <2>7 DEF both, all, rest, c, d, t, w
  <2>11. d + rest <= Batch /\ d <= Batch
    BY <2>4, <2>8, <2>9, <2>10, SizesAssumption
  <2> QED BY <2>1, <2>11 DEF WaveFits, d, rest
<1>4. CASE ctx # "dead" /\ \E i \in Items : IsLast(i, wake.todo) /\ InsertJobs(wake.todo, i)
  BY <1>1, <1>3, <1>4
<1>5. CASE ctx # "dead" /\ \E i \in Items : IsLeast(i, wake.todo) /\ InsertJobs({i}, i)
  <2>1. PICK i \in Items : IsLeast(i, wake.todo) /\ InsertJobs({i}, i)
    BY <1>5
  <2>2. {i} \subseteq wake.todo /\ {i} \in SUBSET Items
    BY <2>1 DEF IsLeast
  <2> QED BY <1>3, <2>1, <2>2
<1> QED BY <1>2, <1>4, <1>5 DEF Insert

\* A wake counts before it lists, and lists no more than is missing.
LEMMA WaveListing ==
  ASSUME TypeOK, WaveFits, Count \/ List PROVE WaveFits'
<1>1. wake \in Wakes /\ Live' = Live /\ Cardinality(Live) \in Nat /\ ActiveCount = Cardinality(Live)
  <2>1. job' = job
    BY DEF Count, List
  <2>2. Live' = Live
    BY <2>1 DEF Live, OwnLive
  <2> QED BY <2>2, CountsAreNumbers DEF TypeOK, Live, ActiveCount
<1>2. CASE wake'.pc \notin {"list", "insert"}
  BY <1>1, <1>2, WaveStays
<1>3. CASE Count /\ wake'.pc \in {"list", "insert"}
  <2>1. wake' = [wake EXCEPT !.active = ActiveCount, !.todo = {},
                   !.pc = IF ActiveCount < Batch THEN "list" ELSE "decide", !.listed = Batch]
    <3>1. CASE Fault /\ pumpTransientFailure
      BY <1>1, <1>3, <3>1 DEF pumpTransientFailure, Yield, ClaimFor, Wakes
    <3> QED BY <1>3, <3>1 DEF Count
  <2>2. wake'.pc = "list" /\ wake'.active = ActiveCount /\ ActiveCount < Batch
    BY <1>1, <1>3, <2>1 DEF Wakes
  <2>3. Cardinality(Live) <= Batch
    BY DEF WaveFits
  <2> QED BY <1>1, <2>2, <2>3 DEF WaveFits
<1>4. CASE List /\ wake'.pc \in {"list", "insert"}
  <2> DEFINE want == Batch - wake.active
             ids == FirstOf(Pending(st.cursor), want)
  <2>1. wake.pc = "list" /\ wake.active \in Nat
    BY <1>1, <1>4 DEF List, Wakes
  <2>2. Cardinality(Live) <= wake.active /\ wake.active < Batch
    BY <2>1 DEF WaveFits
  <2>3. want \in Nat
    BY <2>1, <2>2, SizesAssumption
  <2>4. wake' = [wake EXCEPT !.listed = Cardinality(ids), !.todo = ids,
                   !.pc = IF ids = {} THEN "decide" ELSE "insert"]
    <3>1. CASE Fault /\ pumpTransientFailure
      BY <1>1, <1>4, <3>1 DEF pumpTransientFailure, Yield, ClaimFor, Wakes
    <3> QED BY <1>4, <3>1 DEF List
  <2>5. wake'.pc = "insert" /\ wake'.todo = ids
    BY <1>1, <1>4, <2>4 DEF Wakes
  <2>6. Pending(st.cursor) \in SUBSET Items
    BY DEF Pending
  <2>7. Cardinality(ids) <= want /\ Cardinality(ids) \in Nat
    BY <2>3, <2>6, ListedFits, CountsAreNumbers
  <2>8. Cardinality(Live) + Cardinality(ids) <= Batch
    <3> DEFINE n == Cardinality(ids)
    <3>1. n <= Batch - wake.active /\ n \in Nat
      BY <2>7
    <3> HIDE DEF n, ids
    <3>2. Cardinality(Live) + n <= Batch
      BY <1>1, <2>1, <2>2, <3>1, SizesAssumption
    <3> QED BY <3>2 DEF n
  <2> HIDE DEF ids
  <2>9. Cardinality(Live) <= Batch
    BY DEF WaveFits
  <2> QED BY <1>1, <2>5, <2>8, <2>9 DEF WaveFits
<1> QED BY <1>2, <1>3, <1>4

\* Nobody else gives the task a job.
LEMMA WaveStep ==
  ASSUME TypeOK, WaveFits, [Next]_vars PROVE WaveFits'
<1>0. job \in [Items -> Jobs] /\ wake \in Wakes
  BY DEF TypeOK
<1>k. NoJob.state = "none" /\ NoJob.own = "task"
  BY DEF NoJob, Job
<1>s. job' = job => Live' = Live
  BY DEF Live, OwnLive
<1>c. job' = CancelPendingWork => Live' \subseteq Live
  BY <1>0, <1>k DEF Live, OwnLive, CancelPendingWork
<1>1. CASE Count \/ List
  BY <1>1, WaveListing
<1>2. CASE Insert
  BY <1>2, WaveInsert
<1>3. CASE UNCHANGED vars
  BY <1>s, <1>3, WaveStays DEF vars
<1>4. CASE CronTick \/ \E c \in Clickers : ClickInsert(c) \/ ClickMark(c) \/ ClickReinsert(c)
  <2>1. job' = job /\ wake' = wake
    BY <1>4 DEF CronTick, InsertKickoff, ClickInsert, ClickMark, ClickReinsert, pumpVars
  <2> QED BY <1>s, <2>1, WaveStays
<1>5. CASE \E c \in Clickers : ClickMarkAll(c)
  <2>1. wake' = wake
        /\ job' = [i \in Items |-> IF OwnLive(i) THEN [job[i] EXCEPT !.source = "manual"] ELSE job[i]]
    BY <1>5 DEF ClickMarkAll, pumpVars
  <2>2. Live' \subseteq Live
    BY <1>0, <2>1 DEF Live, OwnLive, Jobs
  <2> QED BY <2>1, <2>2, WaveStays
<1>6. CASE Fetch \/ Check \/ Decide \/ Claim \/ Stamp \/ Merge \/ Return
  <2>1. wake'.pc \notin {"list", "insert"}
    <3>1. \A pc : Goto(pc) => wake'.pc = pc
      BY <1>0 DEF Goto, Wakes
    <3>2. \A how : Yield(how) => wake'.pc = "merge"
      BY <1>0 DEF Yield, Wakes
    <3>3. \A reason : ClaimFor(reason) => wake'.pc = "claim"
      BY <1>0 DEF ClaimFor, Wakes
    <3>4. pumpTransientFailure => wake'.pc \in {"merge", "claim"}
      BY <3>2, <3>3 DEF pumpTransientFailure
    <3>5. CASE Fetch \/ Merge
      BY <3>1, <3>5 DEF Fetch, Merge
    <3>6. CASE Check
      <4>1. \/ \E how : Yield(how)
            \/ \E reason : ClaimFor(reason)
            \/ Goto("count")
        BY <3>6 DEF Check
      <4> QED BY <3>1, <3>2, <3>3, <4>1
    <3>7. CASE Decide
      BY <3>2, <3>3, <3>7 DEF Decide
    <3>8. CASE Claim
      <4>1. \/ Yield("snooze") \/ pumpTransientFailure
            \/ Goto(IF wake.why = "window" THEN "wind" ELSE "stamp")
        BY <3>8 DEF Claim
      <4> QED BY <3>1, <3>2, <3>4, <4>1
    <3>9. CASE Stamp
      BY <1>0, <3>9 DEF Stamp, Wakes
    <3>10. CASE Return
      BY <3>10 DEF Return, NoWake
    <3> QED BY <1>6, <3>5, <3>6, <3>7, <3>8, <3>9, <3>10
  <2>2. job' = job
    BY <1>6 DEF Fetch, Check, Decide, Claim, Stamp, Merge, Return
  <2> QED BY <1>s, <2>1, <2>2, WaveStays
<1>7. CASE WindDown
  <2>1. wake'.pc = "stamp" /\ Live' \subseteq Live
    BY <1>0, <1>c, <1>s, <1>7 DEF WindDown, Goto, Wakes
  <2> QED BY <2>1, WaveStays
<1>8. CASE \E i \in Items : Work(i) \/ ItemArrives(i) \/ OtherOwner(i)
  <2>1. PICK i \in Items : Work(i) \/ ItemArrives(i) \/ OtherOwner(i)
    BY <1>8
  <2>2. wake' = wake
    BY <2>1 DEF Work, WorkStart, WorkEnd, ItemArrives, OtherOwner, WorkFrame, pumpVars
  <2>3. Live' \subseteq Live
    <3>1. CASE WorkStart(i)
      BY <1>0, <3>1 DEF WorkStart, Live, OwnLive, Jobs
    <3>2. CASE WorkEnd(i)
      <4>1. job' = [job EXCEPT ![i] = NoJob] \/ job' = [job EXCEPT ![i].state = "queued"]
        BY <3>2 DEF WorkEnd
      <4>2. job[i].state = "running"
        BY <3>2 DEF WorkEnd
      <4> QED BY <1>0, <1>k, <4>1, <4>2 DEF Live, OwnLive, Jobs
    <3>3. CASE ItemArrives(i)
      BY <1>s, <3>3 DEF ItemArrives
    <3>4. CASE OtherOwner(i)
      <4>1. job' = [job EXCEPT ![i] = Job("other", "cron")] \/ job' = [job EXCEPT ![i] = NoJob]
        BY <3>4 DEF OtherOwner
      <4>2. Job("other", "cron").own = "other"
        BY DEF Job
      <4> QED BY <1>0, <1>k, <4>1, <4>2 DEF Live, OwnLive
    <3> QED BY <2>1, <3>1, <3>2, <3>3, <3>4 DEF Work
  <2> QED BY <2>2, <2>3, WaveStays
<1>9. CASE BeginStop \/ StopDone \/ Crash
  <2>1. job' = job /\ (wake' = wake \/ wake'.pc = "idle")
    BY <1>9 DEF BeginStop, StopDone, Crash, dbVars, pumpVars, NoWake
  <2> QED BY <1>s, <2>1, WaveStays
<1>10. CASE HardStop \/ Boot
  <2>1. wake' = wake
        /\ job' = [i \in Items |-> IF job[i].state = "running"
                             THEN [job[i] EXCEPT !.state = "queued"] ELSE job[i]]
    BY <1>10 DEF HardStop, Boot, pumpVars
  <2>2. Live' \subseteq Live
    BY <1>0, <2>1 DEF Live, OwnLive, Jobs
  <2> QED BY <2>1, <2>2, WaveStays
<1>11. CASE CancelBegin \/ Cancel \/ DeliverCancel \/ RetryJob
  <2>1. wake' = wake
    BY <1>11 DEF CancelBegin, Cancel, CancelSweep, CancelListRunning, CancelSignal, CancelStamp,
       DeliverCancel, RetryJob, CancelFrame, pumpVars
  <2>2. job' = job \/ job' = CancelPendingWork
    BY <1>11 DEF CancelBegin, Cancel, CancelSweep, SweepPending, CancelListRunning, CancelSignal, CancelStamp,
       DeliverCancel, RetryJob
  <2> QED BY <1>c, <1>s, <2>1, <2>2, WaveStays
<1>12. CASE ReapBegin \/ Reap \/ Settings
  <2>1. wake' = wake /\ (job' = job \/ job' = CancelPendingWork)
    BY <1>12 DEF ReapBegin, Reap, ReapExceeded, ReapCancel, Settings, ReapFrame, pumpVars
  <2> QED BY <1>c, <1>s, <2>1, WaveStays
<1>13. CASE WindowCloses
  <2>1. wake' = wake
        /\ job' = [i \in Items |-> IF OwnLive(i) THEN [job[i] EXCEPT !.old = TRUE] ELSE job[i]]
    BY <1>13 DEF WindowCloses, pumpVars
  <2>2. Live' \subseteq Live
    BY <1>0, <2>1 DEF Live, OwnLive, Jobs
  <2> QED BY <2>1, <2>2, WaveStays
<1> QED
  BY <1>1, <1>2, <1>3, <1>4, <1>5, <1>6, <1>7, <1>8, <1>9, <1>10, <1>11, <1>12, <1>13
  DEF Next, PumpStep, Click

\* The pump never has more than one wave of its own jobs in River, across faults,
\* crashes, cancels and reaps: it counts before it lists, lists what is missing,
\* and nobody but the one wake that holds the row inserts for it.
THEOREM OneWaveHolds == Spec => []OneWaveAtATime
<1>1. Init => WaveFits
  <2> SUFFICES ASSUME Init PROVE WaveFits
    OBVIOUS
  <2>1. Live = {}
    BY DEF Init, Live, OwnLive, NoJob, Job
  <2>2. wake.pc = "idle"
    BY DEF Init, NoWake
  <2> QED BY <2>1, <2>2, FS_EmptySet, SizesAssumption DEF WaveFits
<1>2. TypeOK /\ WaveFits /\ [Next]_vars => WaveFits'
  BY WaveStep
<1>3. WaveFits => OneWaveAtATime
  BY DEF WaveFits, OneWaveAtATime, ActiveCount, Live
<1> QED BY <1>1, <1>2, <1>3, TypeCorrect, PTL DEF Spec
=============================================================================
