# Formal models of Heya

Heya is a self-hosted media server written in Go: an API process (`heya serve`), a background process
(`heya worker`), PostgreSQL between them and River as the job queue inside PostgreSQL. This directory holds
TLA+ models of the parts of it whose correctness depends on interleavings, failures and restarts, the TLC
configurations that check them on small instances, and theorems proved with TLAPS for every size.
`PROJECT.json` maps every definition to the source lines it stands for.

All commands are run here: `tlc -workers 2 -config MCKickoffPump_Upgrade.cfg MCKickoffPump`,
`tlapm KickoffPumpProofs.tla`. The largest runs take three minutes.

## 1. Inventory

| Component | State | Operations | Talks to | What is hard |
|---|---|---|---|---|
| Scheduler (`internal/scheduler`) | next-run times in `scheduled_tasks` | `tick`, `TriggerNow`, `enforceTaskMaxRuntime` | queueops, River | a click or a sweep between the statements of a running task |
| Queue operations (`internal/queueops`) | `river_job` rows and their metadata | mark manual, claim finish, cancel, retry, rescue | everything that starts or stops work | each is one statement; the callers are not |
| Analysis pumps (`internal/worker/*_worker.go`, `kickoff_workers.go`) | `pumpState` in the row's metadata | one wake: count, list, insert, decide, claim | scheduler, work jobs | a run lasts days; state survives only through patches that can fail |
| Task and job services (`internal/service/tasks.go`, `jobs.go`) | task rows | cancel, retry, edit | the pumps, the scan pipeline | cancel of a job is a stamp and a notification |
| Coordinator lease (`internal/runtimelease`) | an advisory lock held by a session | acquire, monitor, close | worker command | the two ends of a session learn of its end at different times |
| Worker and queue commands (`cmd/heya/cmd`), `service/app.go` | contexts, River client | start, rescue, stop, close | lease, River | order of shutdown; loss during a stop |
| Transcode sessions (`internal/transcoder`) | encode head, segment latches, cache directory | `EnsureSegment`, head goroutine, `Kill`, idle reaper | HTTP handlers, ffmpeg, the disk | `killHead` drops the mutex; suspension and requests race |
| Sidecar publication (`internal/generatedwrite`, `internal/atomicfile`) | intents in PostgreSQL, staged and previous files | publish, recover, reconcile, classify | watcher, the user's own edits | a crash between rename and commit |
| Library watcher (`internal/watcher`) | generations, debounce timers, queues, suppression records | arm, event, flush, pause, reset, suppress | scan pipeline | a retired generation's timers; queues at their limit |
| Scan pipeline (`internal/worker/kickoff_workers.go` stages, `internal/scanner`) | scanner entities, artifacts, continuations | process, search, fetch, apply, rich, prune, cancel | River, metadata service | stages enqueue one another while sources change and a cancel runs |
| Metadata change feed (`metadata_changes_worker.go` and its jobs) | a cursor and a stream id | page, resolve, commit, reset; refresh, reconcile | HeyaMetadata | cursor and jobs in one transaction, absorbed jobs, rebuilt streams |
| Event hub (`internal/eventhub`) | subscriber channels | publish, relay | web sockets | full channels lose events |
| Play queue, playback sessions, grants, login guard | rows or in-memory maps | CRUD with ordering, expiry, counters | clients | expiry against use, position arithmetic |
| Acquisition manager, playlist sync, scrobbling | wanted items, remote mirrors | search, import, merge | external services | partial failure of a long exchange |
| Ingress, TLS, Tailscale, cast, remote | listeners, device sessions | start, stop, reconfigure | daemons, devices | the peer is outside the repository |
| Matcher, parser, NFO, decision, recommendations | none | pure functions | – | data rather than control; table tests |
| Jellyfin, Subsonic, web API, web client | none of their own | request translation | services | – |

Correctness, in a sentence per component that has one worth stating:

* **Pumps.** A run neither forgets an item nor holds more than one wave in the queue, ends once and only once,
  and never completes over a Run Now that it has accepted.
* **Coordinator.** Two coordinators never work the same job unless one has lost its lease, and what has lost its
  lease stops.
* **Transcoding.** A request for a segment is answered with the segment or with a genuine failure, no two
  encoders that nobody has cancelled write a session's directory, and none outlives the session.
* **Sidecars.** The user's bytes are never destroyed, and provenance names only bytes that Heya wrote.
* **Watcher.** Every change is asked for in the end, and nothing is asked for on behalf of a retired watcher.
* **Scan pipeline.** A superseded run writes nothing; the scope ends applied from the sources on disk, with its
  downstream jobs, or waits for the user.
* **Change feed.** The cursor never passes a change without a job that will fetch it, and older data never lands on
  newer.

The hazards, each at its line, are in `PROJECT.json`; sections 3 to 9 say which property covers which.

## 2. Modules

| Module | Models | Checked by | Proved in |
|---|---|---|---|
| `KickoffPump` | one pump task with the scheduler, the services and the work jobs around it | `upgrade`, `sweep`, `segments` | `KickoffPumpProofs` |
| `Coordinator` | leases, rescue and shutdown; `KickoffPump` assumes one coordinator at a time, this module shows when that holds | `handover` | `CoordinatorProofs` |
| `TranscodeSession` | heads, latches, suspension, concurrent requests, `Kill` | `race`, `translive` | `TranscodeSessionProofs` |
| `SidecarOwner` | abstract: what may happen to the file of a person who shares its path with Heya | through `OwnerSpec` | `SidecarOwnerProofs` |
| `GeneratedWrite` | publication, recovery, reconciliation and classification of a sidecar; implements `SidecarOwner` | `publish`, `settle` | `GeneratedWriteProofs`, `SidecarOwnerProofs` |
| `Watcher` | one library's watcher: generations, queues, debounces, pause and replay, suppression | `watch` | `WatcherProofs` |
| `MetadataFeed` | the reader of the change feed and the jobs it starts | `feed`, `personlost` | `MetadataFeedProofs` |
| `ScanPipeline` | one owner scope through the five stages, with pruner and cancel | `scan` | `ScanPipelineProofs` |

The modules meet where one calls another: a publication registers its suppression with the watcher
(`GeneratedWrite` ends where `Watcher`'s `Publishes` and `SuppressGeneratedWrite` begin), a watcher's request is the
kickoff that `ScanPipeline` starts with, a scan's sidecars are classified by `GeneratedWrite`'s `Scanners`, and
every job of every module is run by what `Coordinator` calls the River client. They are checked apart: each of them
already fills its run, and what passes between them is one request each way.

In every module the environment (crashes, faults, the user's actions) spends from `Limits`, a budget per kind and,
where the sum would not fit, one for `"all"`; `Spend` is the only bound on it. No fairness is assumed of anything that
spends.

## 3. `KickoffPump`: one self-driving analysis task

A pump task's kickoff job stays active for the whole run. Each *wake* reads `pumpState` from the row's metadata,
counts its own live work jobs, tops the wave up from a cursor, and snoozes; when nothing is active and nothing is
listed it re-sweeps once if items were skipped, and otherwise *claims* the finish. The claim is the only place
where a cron run learns that a user pressed Run Now meanwhile.

| Variable | Code |
|---|---|
| `row` | the kickoff's `river_job` row: state, `metadata.source`, `finishing`, cursor, skipped, final pass, error streak, River's cancel stamp |
| `task` | the `scheduled_tasks` row (enabled, last outcome), the feature switch, whether the window has expired |
| `need`, `job` | which items the SQL would list; the work job of each item under its unique key |
| `st`, `wake`, `ctx` | `pumpState` in memory, `Work`'s other locals and its program counter, its context |
| `proc` | the worker process |
| `click`, `cancel`, `reap` | `TriggerNow(manual)`, `CancelTask`, `enforceTaskMaxRuntime`, each between two statements |
| `left`, `ghost` | remaining disturbances; history that no guard reads |

Every SQL statement is one step, and what a function keeps between two statements is a variable. River is
external: it fetches a queued row, finalises an attempt, turns the snooze of a cancel-stamped row into a cancel,
and refuses a second active row under a unique key.

`Sonic` chooses the instance. `TRUE` is the sonic pump (`kickoff_workers.go` 3502–3609): a feature switch, one
`Insert` per item, cleanup tracks that the query holds back while a full analysis is due. `FALSE` is the
fingerprint pump (`fingerprint_worker.go` 316–411) and, line for line the same, the segments pump
(`segments_worker.go`): one `InsertMany` per wave. Library scans hand files off to segments jobs of their own
(`ffprobe_worker.go` 157), which is what `OtherOwner` does.

### Runs

| Run | Question | Bounds |
|---|---|---|
| `upgrade` | Does a finish ever miss an accepted Run Now (`UpgradeSeenByFinish`, `PromiseKept`), does a patch undo one (`UpgradeSticks`)? Does a manual run end (`ManualRunEnds`)? | 1 item, a user, one crash or stop, one failing statement, one settings change, one cron tick, a give-up after one error; fairness |
| `sweep` | Is an item stranded behind the cursor of the sonic pump (`DrainedMeansOffered`)? Is there ever more than a wave (`OneWaveAtATime`)? | 3 items in waves of 2, one cleanup item, an arrival, a fault, a crash |
| `segments` | The segments pump, when scans own some of the jobs and drop them and the user cancels at any point of a wake and retries the cancelled row: does a wake ever go on without a running row of its own (`RowHeld`)? | 2 items in waves of 2, one hand-off or arrival, a crash, a cancel, a retry |

One item is enough for the race between a click and a finish, whose steps do not depend on the list. Three items in
waves of two give a cursor between items, an item the query holds back and a partial last wave. One disturbance of a
kind reaches every error path (a claim that fails and commits, a patch lost after it, the
give-up); the theorems remove the bounds.

*Fairness.* `FairSpec` assumes what River and the supervisor do: a queued row is fetched, a wake's next statement
runs, a cancel notification arrives, a stop's hard phase comes (it is a timer), a process that is down is booted.
Nothing is assumed of users, cron, faults or arrivals.

### Proved (`KickoffPumpProofs`)

From `SizesAssumption` and `LimitsAssumption` only (`Clickers` is any set):

* `TypeCorrect`: `Spec => []TypeOK`.
* `PumpInvariant`: `Spec => []PumpInv`, `PumpInv == TypeOK /\ RowHeld /\ PromiseKept /\ SweepInv`. Neither
  `UpgradeSeenByFinish` nor `DrainedMeansOffered` is inductive: the first needs that the row stays marked
  *finishing* from the claim to the verdict and that nobody else takes the row out of `running` (`RowHeld`), so a
  click in between is refused; the second needs what the cursor means at every statement of a wake – everything of
  the run's start at or below it was offered, or `skipped` announces another sweep (`Covered`), for the copy in
  memory and for the row separately, since a patch may be lost – and that the rest of a wave is the next part of
  the list.
* `RunNowSurvivesFinish`, `NoItemStranded`, `UpgradeNeverUndone`, `WakeHoldsRow`, `UpgradePromiseKept`: the
  properties themselves.
* `OneWaveHolds` (`OneWaveAtATime`). A wake inserts by what it counted and listed some statements earlier, so the
  invariant `WaveFits` speaks of what it has in hand: the live jobs and the rest of the listed wave never exceed a
  wave together, and the count a listing starts from is not below the live jobs.

### Where the code and its documentation differ

Windows that the actions show; earlier runs of the model gave the counterexamples of the first three.

* A *second* Run Now, on a run that is already manual, is accepted and dropped by the completing wake: a manual run's
  finish is never aborted (`kickoff_workers.go` 3101–3104, against `docs/pipeline.md` 288–292 and `scheduler.go` 269).
* The wake goes on inserting until River's cancel notification arrives, also after the second sweep of `CancelTask`
  (`jobs.go` 528–531): a wave then stays queued although its kickoff ends cancelled.
* The max-runtime sweep decides with one statement and cancels with another that does not look at the source
  (`scheduler.go` 136, against `river_jobs.go` 121–125).
* `CanRestart`: the cursor is reset for the cleanup pass only if something was skipped, so after a clean full pass the
  tracks that lack only CLAP windows and lie below the cursor wait for the next run, against `track_facets.sql`
  173–175.
* `Claim`/`Merge`: the reset of an aborted finish lives in memory until the next patch, so a crash or a failed patch
  loses it and the run finishes without the sweep "from scratch" that `kickoff_workers.go` 3079–3084 describes.
* `Check`: the sonic wake's feature switch reads every database error as "off" (`sonicanalysis_settings.go` 146–151),
  so one failing query completes a run, against 3004–3006.
* `RetryJob` keeps River's cancel stamp, so the retried row is cancelled at its first snooze.

## 4. `Coordinator`: who may work the queue

`lock` is the server's view of the advisory lock, `lease` the process's; between them there is time in both
directions. `cmd` is how far each command has come, `watch` the goroutine of `watchWorkerLease`, `river` the River
client, `exec` the processes in whose memory a job runs – several after a rescue that came too early. The actions
follow `worker.go` and `app.go` statement by statement: acquire, arm the watcher, rescue, start River on a context
that only the watcher cancels, stop softly, stop hard, join, release, exit. `Drainers` are `heya queue process`.

| Run | Question | Bounds |
|---|---|---|
| `handover` | Do two coordinators overlap without a loss (`OverlapNeedsLoss`)? Does a fired watcher fence its process (`FiredMeansFenced`)? Does the startup rescue take rows from a healthy coordinator (`RescueSparesHealthy`)? Does a coordinator that should end, end, and does every job (`CoordinatorEnds`, `JobsSettle`)? | 2 workers, a drainer, 1 job, one crash, signal, loss, fault each; fairness |

Two workers are all that can contend: a third is refused exactly like the second.

*Fairness.* Goroutines run, a job's attempt ends (every job has a timeout), a failed ping is noticed, the server
learns of a closed session, River's rescuer runs. Crashes, signals, losses and faults are bounded and not fair.

*Proved (`CoordinatorProofs`), for any sets of processes and jobs.* `RolesInvariant` is the strengthening: who runs
River or a job is between `StartWorkers` and the end of `closeWorkers`, and its lease object lives from acquisition
to release. With the lock being one value, two healthy runners are impossible (`NoOverlapWithoutLoss`), a rescuer
that holds the lock meets only runners that have lost theirs (`RescueIsFenced`), and what has fired is fenced
(`FiredIsFenced`).

*Known windows.* After a signal the watcher has returned (its context is the one the signal cancels), and a lease lost
during the graceful stop of up to eight seconds cancels nothing (`worker.go` 127, against `coordinator.go` 20–23). A
worker that starts beside `heya queue process`, which takes no lease, flips the rows that process works on
(`Rescue`), although `jobs.go` 442–446 calls every running row an orphan. A worker that lost its lease between
acquisition and rescue, and has not noticed, flips its successor's rows (`worker.go` 79); `RescueSparesHealthy` is
about rescuers that hold it. A job fetched by a coordinator without its lease after the successor's rescue waits for
River's rescuer.

## 5. `TranscodeSession`: one HLS stream

A player asks for segments by number. `EnsureSegment` serves what is on disk; otherwise it follows the session's
*head* – a goroutine with one ffmpeg that encodes strictly forward –, resumes it when it is paused, or replaces it
when the segment lies behind it or too far ahead, and waits for the segment's *latch* (a channel, closed when the
file is there) or for the head's end.

| Variable | Code |
|---|---|
| `sess` | `closed`, `head`, `lastRequestedSeg`, `headStopReason` |
| `latch` | `segments[i]`: which channel it holds now, and which of the channels it ever held are closed – a waiter keeps the one it read |
| `disk`, `made` | the segments in `OutputDir`; history: those ever flushed |
| `hd` | per head: `runHead`'s program counter, `StartSeg`, `CurrentSeg`, its context, `Suspended`, the state of its ffmpeg, the watcher and its queue of file events |
| `req` | per player: `EnsureSegment`'s program counter, `idx`, `head`, `ready` |
| `killer` | `disposeSessions`: `Kill`, then `RemoveAll` |

Each critical section of `s.mu` and each look at the disk is one step. `killHead` ends a step, since it drops the
mutex; what its caller does afterwards (`Killed`, `KillEnds`) is another. One file event takes the mutex up to five
times in the code; `Event` does it all at once up to the decision to pause, after which `SIGSTOP` (`Suspend`) and the
flag (`MarkSuspended`) are steps of their own. A head's slot is used again once nothing refers to it. The lead cap is
measured in segments.

| Run | Question | Bounds |
|---|---|---|
| `race` | Is there ever a second encoder that nobody has cancelled (`OneEncoder`)? Is a gap marked as ready (`ReadyWasMade`)? Does a reset strand a waiter (`WaiterHoldsLatch`)? Does an obsolete head's end show as the session's state (`StatusFollowsHead`)? | 2 players, 2 requests, 3 segments, a seek beyond 1, any adopted cache, disposal |
| `translive` | Is every request answered (`RequestsEnd`)? | 1 player, 2 requests, 2 segments; a vanished segment, a failure, a player that leaves, a kill; fairness |

Two requests are what it takes to replace each other's head; three segments give a gap, a seek and a forward
distance; three heads are one current, one being killed by each of the others. Heads and players are symmetric in the
safety run. `translive` has a lead cap of the whole stream, so that no head is suspended in it: with a cap of
0 TLC finds `RequestsEnd` violated in the first of the known windows below: the head that nobody cancels is suspended
after disposal has removed the segment its player waits for.

*Fairness.* Goroutines run, an encoder that is alive and not stopped flushes its next segment or ends, a cancelled
one is killed, the ticker ticks. A stopped encoder is promised nothing. Liveness is checked for one player: two
players that ask for far-apart segments of the same session may kill each other's heads for ever, which the code does
not exclude (session keys carry the client's session id, so that players do not normally share one).

*Proved (`TranscodeSessionProofs`), for any number of segments, any thresholds and any sets of players and heads.*

* `TypeCorrect`: `Spec => []TypeOK`; its content is that cursors and queues never leave the segment range.
* `OneEncoderHolds`, `StatusHolds`: `EncoderInv` (both properties together) is inductive with `TypeOK`: a head is
  installed only when there is none, and detached only with its context cancelled (`DetachKeeps`, `SettleKeeps`,
  `PlaceKeeps`); a head's own steps write the reason only while it is current (`HeadKeeps`).
* `ReadyHolds`, `WaiterHolds`: `LatchInv` adds that the directory and every queued event hold only segments that
  were flushed (`FlushedKnown`), which is what marking needs; a channel is replaced only when it is closed
  (`ResetKeeps`), so an open one that a waiter holds is never replaced.

*Known windows.* A request that waits in `killHead` for the old head when `Kill` closes the session finds no head
afterwards and starts one: the loop does not look at `closed` again (`session.go` 341–346, against
`session_test.go` 315). Nobody cancels that head, and its player gets the closed-session error (or the segment) while
ffmpeg runs on to the end of the file or to the lead cap. Whether the head is too far ahead is decided under the mutex,
the process is stopped and the flag set later (769–779); a request for a later segment that arrives in between neither
resumes the head nor replaces it, and waits until another request does. A head that stops because the next segment was
ready does not start again if that segment vanishes; the next request does it (762).

## 6. `GeneratedWrite` and `SidecarOwner`: a file with two owners

Heya renders NFOs and images into the media directories that the user edits too. `Publish` stages its bytes beside
the destination, takes the path's advisory lock, records an intent in PostgreSQL, links the staged file (the path is
free) or exchanges it with what is there (the path holds Heya's own bytes), looks at what the exchange displaced,
and finalises the intent or exchanges back. Whoever takes the lock next – a publisher, the maintenance job's
`Reconcile`, a scan that meets an expired intent – converges what a crash left (`recoverPublication`).

| Variable | Code |
|---|---|
| `dest`, `staged`, `previous` | the files at the path, at each call's `TempPath`, at its intent's previous path; bytes compared by size and SHA-256, here by equality |
| `row` | `generated_sidecar_publications`: published bytes, pending intent |
| `lock` | the path's `pg_advisory_lock`, as the server sees it: it goes with the session |
| `pc`, `ret`, `saw`, `cur` | a caller's next statement, where `recoverPublication` returns to, the publication it loaded, the bytes it observed |
| `own` | what `atomicfile.Pending` would still roll back when it is discarded |
| `ghost` | history: what the user wrote last, and versions overtaken by an earlier one that was put back |

Every rename, link, unlink, look at a path and statement is a step; `WriterSteps` follows `publisher.go` and
`atomicfile.go`, `RecoverySteps` is `recoverPublication` in the former, as called from a publication, `recovery.go`'s
`Reconcile` and a scan. A removal that fails leaves the file where it is: after a withdrawn link or an exchange of a
publisher's (`RemovalFails`) and in a recovery (`LeftoverStays`). A statement on the lock's connection fails when the
session is gone and may fail otherwise with or without its effect (`Statement`). The user takes no lock and replaces
or removes the file between any two steps.

`SidecarOwner` is the promise in five actions: Heya renders only over a free path or over bytes of its own; a version
that the user slips in is displaced, never destroyed, and all that happens to it is that it comes back; only a
version overtaken by one that came back is promised nothing. `OwnerSpec` (`INSTANCE SidecarOwner WITH` the files as
they lie on disk) is checked as a property of `GeneratedWrite`: a displaced version is one that lies at a staging or
previous path and was not overtaken.

| Run | Question | Bounds |
|---|---|---|
| `publish` | Does what Heya does to the path keep the promise (`OwnerSpec`)? Does the path, once quiet, hold what the user wrote last (`UserHasLastWord`)? Are Heya's own bytes there always recorded, or would they be taken for the user's and never be refreshed again (`OwnFilesKnown`)? | 2 publishers, a scan that recovers, 2 user versions, 2 renderings; two out of a crash, a failing statement and a deletion; symmetry |
| `settle` | Does every intent end (`IntentSettles`) and is what the user wrote last and Heya displaced in the end back at the path, and does it stay there (`Returned`)? | 1 publisher, `Reconcile`, 1 user version, 2 renderings; any two out of a crash, a fault, a lost answer, a failing rename or removal, a lost session, a deletion; fairness |

A scan and `Reconcile` recover by the same function and differ in what they do afterwards; each run has one of them,
and the theorems have any number of both. A scan alone settles nothing for certain, since nobody need start one, and
is not in the fair run. Two failures interrupt a publication and then its recovery. Two publishers make each kind of
conflict over one path; a second user version is what overtaking needs. Two renderings tell the published bytes from
the wanted ones; three could only matter to three calls.

*Fairness.* A call makes progress; a publisher that waits for the lock and a periodic `Reconcile` get it in the end
(strong fairness: PostgreSQL queues waiters, and the maintenance job tries again). The user and failures are not fair.

*Known windows.* (a) A second user version written between the exchange and the put-back is overtaken and then removed
with Heya's bytes (`publisher.go` 168–173, 259–262), although the comment at 155–157 promises the user's bytes
survive; `ghost.overtaken` is exactly this. Without further failures nothing else is lost. With them, and therefore
not in `publish`'s limits: (b) when the answer of `persistIntent`'s commit is lost, the lock is released before the
deferred `Discard` (`publisher.go` 64, `lock.go` 108); a recovery in between exchanges the user's bytes into the
staging path, and `Discard` removes them. (c) The undo of `PublishIfAbsent` (`atomicfile.go` 187–193) removes the path
although the user has replaced it, when another session has taken the lock. (d) A rename that fails after the exchange
leaves the roll-back to `Discard`, outside the lock. (e) When the removal after a rollback fails, a second rollback
exchanges back again and deletes the user's version (`atomicfile.go` 280). (f) A user who deletes the path while a
version is aside orphans it. `Returned` is therefore conditional:
it promises that a displaced version ends up at the path and stays, unless the user writes or removes the file anew, as
long as no answer, rename, removal or session has been lost (`Intact`) and the version was not overtaken. A crash and
a failing statement are no excuse.

*Proved*, for any callers, versions, renderings, crashes, failing statements and deletions: `TypeCorrect`
(`GeneratedWriteProofs`, without further assumptions), and in `SidecarOwnerProofs` `LastWordIsTheUsers`
(`UserHasLastWord`), `OwnFilesOnRecord` (`OwnFilesKnown`) and `PublishingKeepsThePromise` (`OwnerSpec`, the refinement).
The last three assume `Windowless`: no lost answer of `persistIntent`, failing rename, failing removal or lost session,
which are windows (b) to (e), the limits of the run `publish`, and what `Returned` excludes. The assumption is not for convenience. TLC finds
`UserHasLastWord` violated with one lost answer, rename or session, `OwnFilesKnown` with one rename, removal or session,
and `OwnerSpec` with any of the four. The properties speak of a quiet path and are not inductive; `Inv` says what
becomes of the bytes in between. A version lies in one place and was written before (`Versions`, `Once`); the path's
lock belongs to whoever is between taking it and leaving (`Locked`); for each publisher, what its `Pending` would
still roll back, by the statement it is at (`WriterFits`); for the open intent, whose bytes its three paths can hold
(`PendFits`); for the lock's holder, that what it loaded is still the row and what it is about to do fits the paths
(`HolderFits`). `LastWord` and `Known` are the properties with an intent open. The refinement then has one case per
step: a render, a displacement, a return, or a stutter.

## 7. `Watcher`: one library's filesystem watcher

| Variable | Code |
|---|---|
| `disk`, `record` | the directory; per sidecar, the suppression record of Heya's own write and whether it is still to be registered |
| `lib` | the library's row: to be watched or not, or deleted |
| `mgr` | `Manager`: `generation`, pause depth, the registered watcher, the walk attempt, the desired state, stopped |
| `lw` | per generation, its `LibraryWatcher`: how far it is armed, its context, event queue, loop, paused set, dirty flag, edits with their debounce |
| `batch`, `flights` | the manager's three debounced batches; batches taken out and not yet inserted |
| `keeper` | the holder of `reconcileMu` |
| `scan` | per scan, `Pause` to the end of `Resume`'s replay |
| `ghost` | history: changes nobody has asked a scan for (`owed`), paths whose operations were merged while paused so that the removal hides one of them (`merged`), a request after its generation was joined |

A change on disk is an event for every watch on it, or an overflow. The loop, the timers' callbacks, the inserts, a
scan's `Resume`, the reconciler and the walk are interleaved at every lock they release: `Admit`/`Take` are
a callback before and after it takes its batch, `Invalidate`/`Drain`/`cancelPendingEnqueues`/`Wait`/`DrainAgain`/`Finish`
are `resetLibrary` and its caller.

| Run | Question | Bounds |
|---|---|---|
| `watch` | Does a change ever fall between the queues (`ChangeTracked`), and is it asked for in the end (`ChangesAreScanned`)? Is anything requested for a generation after it was joined (`NothingLate`)? Do the watchers come to agree with the settings (`WatchConverges`)? | a media file and a sidecar, a scan, 3 generations, kernel queue and paused set of 1; two disturbances out of two changes, a publication, a settings change, an early reconcile, a stalled walk, a failing insert; fairness |

Queues of one reach their limit with two changes, and a scan makes them pause; three generations are a first watcher,
the one that replaces it and the next.

*Fairness.* Goroutines and timers run, an insert ends, a scan that paused the watcher resumes it (it does so in a
`defer`), the reconciler ticks. A directory read that the walk gave up
waiting for returns in the end (`AbandonedWalkEnds`), which an unresponsive network mount may never grant; until it does,
the code starts no second walk of that root. Changes, settings, stalls and faults are not fair.

*Known windows.* `Resume` replays the *merged* operations of a path (`watcher.go` 787) and no longer knows their order:
a create and a remove on an absent, known file are dropped, on a present file they become a soft delete only
(844–848); a write merged after a removal is replayed as the soft delete of a file that is there. `ghost.merged` exempts
such paths. The
soft-delete flush does not look again whether the path is gone (`softdelete_worker.go` 34, `library_files.sql` 242). An
insert that fails after the debounce loses its event (`Insert` drops what it owed). `forgetLibraryState` starts the
generations from zero, so a callback of a deleted library's watcher could take the generation of a new library's with
the same id; ids are not used twice.

*Proved* (`WatcherProofs`), for any files, scans, generations, limits and disturbances: `TypeCorrect`,
`NothingAfterTheJoin` (`NothingLate`) and `EveryChangeIsTracked` (`ChangeTracked`). `NothingLate` rests on `IInv`:
a live watcher of the current generation is the registered one, and while a reset is under way the new
generation has not begun (`Control`); a watcher that is not live has no loop, timer, batch, kept event or replay
(`Dormant`); what is on its way to the queue belongs to the current generation, to the one being joined, or to a scan
whose insert will be refused (`FlightsFit`). `ChangeTracked` adds `Tracks`: a path that is owed a scan and was not
merged is *followed*, that is, a scan of everything is due, or its newest event – queued, in hand, or what is kept of it
in the paused set, a debounce or a replay – fits whether the file is there (`Tracking`). It needs that changes are owed
only while a registered watcher sees them (`OwedFits`), that directories are never written (`DirsUnwritten`) and that a
kept creation with its removal is known as merged (`MergedKnown`). The write after a removal in *Known windows* was
found by this proof: the run's paused set of one is too small for it. It takes a creation that the overflowing paused
set dropped and the whole rescan made good, and then a kept removal that the next write is merged with.

## 8. `MetadataFeed`: the change feed and its jobs

HeyaMetadata publishes a numbered, gap-free sequence of changes. Every thirty seconds a tick reads it page by page
from a durable cursor; one transaction turns a page into jobs and advances the cursor. A stream that HeyaMetadata does
not know any more (its database was rebuilt) is answered with 409 and read again from its start.

| Variable | Code |
|---|---|
| `up` | HeyaMetadata (external): stream, log, the versions it serves |
| `row` | `metadata_change_consumers`: the cursor and its stream |
| `tick` | the tick now and one of a displaced worker: where it is, its page, the jobs it resolved |
| `queued`, `refresh` | `metadata_change` refreshes of media items, queued and the one that runs (`MaxWorkers` 1) |
| `person`, `scopes` | `person_fetch` and `reconcile_metadata_scope` rows |
| `local` | the read model: bound versions, stored documents, the top tracks and their checkpoint |
| `dead` | what a discarded, failed or skipped job left behind |
| `owed` | history: per entity, the version that the cursor has acknowledged |

The two insertion rules are what the module is about: refreshes of items are unique among queued rows only, so that
a change that arrives while one runs gets a row of its own (`Inserted`); rows of persons, and of an artist and
version, are unique while active and absorb their successor. Full refresh and reconciliation of an artist's top tracks
write the same rows under the same checkpoint (`Replaced`).

| Run | Question | Bounds |
|---|---|---|
| `feed` | Has every change of an item behind the cursor been stored, or a job that will fetch it (`ChangeNotLost`), and every change of top tracks (`TopTracksNotLost`)? Are the top tracks shown those of the checkpoint (`RowsMatchCheckpoint`)? Does a quiet feed end with every item at the version served (`FeedSettles`)? | an artist, a film, a person; pages of 2, 3 changes to a stream, 2 streams; two disturbances out of two changes, a rebuild, a crash, a displaced worker, a fault (one, if the artist starts without a checkpoint); 2 attempts; fairness |
| `personlost` | the counterexample below | a person, two changes |

A rebuilt stream holds every entity, hence three changes and a page boundary between them. Two changes are one and
its successor, which is what absorbing takes.

*Fairness.* A tick every thirty seconds takes its next step, some job moves while one can (the rescue of a lost job
included), HeyaMetadata serves the top tracks it announced. This is weaker than what River gives each queue.

*Where the code differs from its comments.* `personlost`, listed under `findings`: a `person_fetch` that has fetched
and not yet stored absorbs the job of a second change, the cursor passes it in the same transaction, and the second
version is never fetched; `metadata_changes_worker.go` 131–136 says that a trailing refresh must be enqueued first.
Stated in the actions and without a run: an artist whose fetch fails falls back to a search, is *skipped* and the job
counts as done (`music_refresh.go` 59–82), against the retry that `enrich_worker.go` 129–133 promises and which titles
get (`SkipArtist`); the same file (131–133, 150–153, 200–202) counts on the refresh-stale sweep, which is retired
(`kickoff_workers.go` 2968–2976); a failing update of a person is logged and the job succeeds
(`person_worker.go` 202–203). Items in `dead` are exempt from `ChangeNotLost` and `FeedSettles`, no others are.

A refresh of an artist stores its document with or without the top tracks (`StoreDocument`), as HeyaMetadata sends them.
A person is written in several statements: the update comes first, and a later one that fails returns the job for a
retry with the version stored (`PersonWritesFail`). A person whose fetch ends in an error that is no 404 and not
temporary is given up without one (`GivesUpPerson`).

*Left out.* The binding of a new item (a change that arrives between its fetch and its first binding has no target and
is passed), 404s, redirects to another entity, the merge of two rows of one person (`person_worker.go` 145–161), and the scan pipeline's apply of an older staged document
(`scanner/apply.go` 731), which can overwrite a newer one.

*Proved* (`MetadataFeedProofs`), for any entities, page size, streams, attempts, changes, faults and crashes:
`TypeCorrect`; `FeedInvariant`, and from it `ChangeKept` (`ChangeNotLost`), `TopTracksKept` (`TopTracksNotLost`) and `RowsKept`
(`RowsMatchCheckpoint`). `ChangeNotLost` is not inductive: a page passes a change without a job when the item is *bound*
to that version or a later one, and the binding runs ahead of the stored document. So `Documents` says the same of the
bound version as of the acknowledged one, and of a refresh that has fetched (`Fetched`) that it holds what the cursor
knows unless another is queued, which is what the rule of insertion gives. `TickFits` carries from the read to the commit
that the plan or the versions bound cover the page: both only grow meanwhile (`Forward`). `Truth` closes the circle: no
change names a version that HeyaMetadata does not serve, so a later fetch is never an older one. The proofs need the
entities finite and of distinct kinds, and "none" not to be one of them. `TypeCorrect` is an argument of its own: a page moves a cursor no
further than the log it was read from, a tick that belongs to no stream reads from the start (`CursorsFit`), and a
queued job has an attempt left (`RefreshFits`, `ScopesFit`). It is the only theorem that uses the bounds other than the
page size, and it needs `MaxLog` to have room for every entity, because a rebuilt stream starts with all of them.

## 9. `ScanPipeline`: one owner scope through five stages

`process_scan` walks a scope and persists a *generation* of its scanner entity, `search_metadata`, `fetch_metadata`,
`apply_metadata` and `apply_rich_metadata` take it on. Each stage hands the next an artifact and a job, in the
transaction that moves the entity. An artifact counts while the entity points at it and its sources are those on disk.

| Variable | Code |
|---|---|
| `disk`, `file`, `marker` | versions of the scope's media and sidecars; what `library_files` and `library_nfo_dirs` know of them |
| `entity` | `scanner_entities`: generation, status, the artifacts it points at |
| `rows`, `runs` | active `river_job` rows with their attempts and cancel stamp; the executions of running rows |
| `parked` | `scanner_metadata_continuations` |
| `catalog`, `fanned` | what the applies wrote: generation and sources; generations whose post-apply jobs were inserted |
| `pruner`, `cancel`, `stopped` | the orphan pass with the entity it listed; `cancelScanJobs`; cancelled rows of current artifacts |
| `halted` | history: nothing is owed to the scope (the user stopped it, or its last sidecar change was absorbed) |

Each transaction is a step, with the guard the code evaluates inside it: `Current` is `GetCurrentScannerEntityArtifact`,
`Valid` the comparison of sources, `Admits` the statuses an update's `WHERE` names. A stage that finds its artifact
superseded ends or asks for a new analysis (`Reanalyses`); a failure marks the entity (`Fails`); a crash leaves rows to
the rescue. The fan-out of the apply is one transaction over its checkpoint (`Fanout`). An item that a review blocks is
*skipped* (`SkipsItem`): the apply writes nothing, parks its files if they still wait (`ParksUnapplied`), and the entity
ends `skipped` (`EndsSkipped`). Rich rows exist for films and series only (`RichRows`).

| Run | Question | Bounds |
|---|---|---|
| `scan` | Does a superseded run ever write (`StaleNeverWrites`)? Is an entity reported applied without its jobs (`AppliedFannedOut`)? Does the scope end applied from the sources on disk, or waiting for the user (`ScanConverges`)? | one scope; two disturbances out of a media change, a park, a fault, a skipped item – or one crash, sidecar change, decision or cancel (with a second round) alone; two workers apply, one for every other kind; `process_scan` is tried three times, an apply twice, the rest once |

`ScanConverges` exempts a scope the user cancelled (`halted`): it does not say that a cancel stops the scan, only what
becomes of a scope that nobody cancelled.

Two disturbances give a superseded run beside its successor and a failure of either; one is enough for a crash or a
failure between a checkpoint and its fan-out, which the second try of the apply resumes. A discarded job of another stage
is what the pruner is there for. `process_scan` gets more tries, because a discarded one loses the change its kickoff has
ticked off (below).

*Fairness.* River runs what is queued and every run ends; an apply that is snoozed for the lock does not hold up the
holder of the lock (`HolderWorks`); kickoff, continuation sweep and pruner are periodic; the cancel's loop has a
deadline. The sources, the user and failures are not fair.

*Known windows.* `MarkScannerEntityFailed` has no status guard (`scanner.sql` 247). When the answer of the checkpoint's
commit is lost, the entity is `apply_error` with an apply artifact, which the retry takes for a pending checkpoint
(`kickoff_workers.go` 992), but the final update wants `applying`, so every retry fails until the pruner requeues the
scope. The NFO marker moves when the kickoff *asks* for a scan: a `process_scan` discarded after its attempts, or
absorbed by one that is past its hand-off (`Absorbed`), loses a sidecar change. A cancel deletes a parked continuation
whose search job has completed, so that nothing flags the entity as stopped and the pruner requeues it, against
`jobs.go` 545–549; the cancel's effect on such an entity is all that `halted` exempts. `ParkUnmatchedFiles` acts for a
superseded run too. An apply validates its sources on a second pool connection inside its transaction while a third
holds its lock: a small pool can run dry.

*Merged.* `needs_review` stands for the statuses in which an entity waits for the user (`unmatched`, `rejected` and
`ignored` too), which differ in what is displayed and not in what may happen to the entity. The guard's look at the files
and the write it guards are one step (`WriteCatalog`); in the code only the artifact is checked in the transaction, and a
file that changes between its `stat` and the commit is met by the check at the checkpoint or by the next kickoff, as a
change right after the commit is here. An apply never ends `blocked`, `failed` or `apply_missing` through its items: an action that fails comes
with an error, which rolls the transaction back and marks the entity `apply_error`.

*Left out.* The change of a decision under a fetched artifact, runs of a displaced worker,
the content of the post-apply jobs, several identities in one scope, the soft deletion and relocation of files. The
pruner lists and requeues in one step. Ids and generations are drawn from one counter, since the code only compares
them for equality.

*Proved* (`ScanPipelineProofs`), for any number of tries, workers, changes, faults, crashes, parks and cancels:
`TypeCorrect`; `ScanInvariant`, and from it `AppliedHasJobs` (`AppliedFannedOut`) and `StaleRunsWriteNothing` (`StaleNeverWrites`).
Neither property is inductive. That an apply with a current artifact writes *forward* needs to know that the catalog is
never ahead of an entity that exists (`CatalogFits`), although the pruner deletes entities and a decision resets them;
that rich data lands on the core data of its own generation needs to know it of the *job*, from its insertion on:
`RowFits` and `RunFits` say that a `rich` job's artifact is `Backed` by the catalog for as long as the entity stays in its
generation, which the fan-out establishes because its entity has a checkpoint, and a checkpoint is made by a run that
saw the catalog written or skipped its item (`Written`). Every step then falls under one of four lemmas: nothing moves but jobs (`Still`), the
entity moves within its generation (`EntityMoves`), a new generation begins (`NewGeneration`), the entity is deleted
(`Dropped`). `TypeCorrect` says of the queue that each execution has a row which counts its attempt. Its invariant
`QueueFits` needs that no two active rows and no two executions are of one job: what ends a run removes, or gives its
attempt back to, every row of the run's job, and must not take another run's row away.

## 10. Limits

*Model-checked only.* The liveness properties, since fairness and ENABLED are outside TLAPS: `ManualRunEnds`,
`CoordinatorEnds`, `JobsSettle`, `RequestsEnd`, `IntentSettles`, `Returned`, `ChangesAreScanned`, `WatchConverges`,
`FeedSettles` and `ScanConverges`. Every safety property of a passing run is the statement of a theorem; those of section
6 assume `Windowless`, and with the failures that it excludes the known windows apply. `personlost` is a counterexample.
Modules with a theorem declare no RECURSIVE operator.

*Not modelled, inside the modelled parts.* Failing statements and an API crash inside `TriggerNow` (the click then
ends with an error); the counters that only feed statistics; the arithmetic of time windows; the pumps with two
cursors (loudness, detect_segments), whose wake is that of `KickoffPump` over a second list; the creation and eviction
of transcode sessions.

*Not modelled at all.* `PROJECT.json` gives the reason for each component with status `not_modelled`: pure functions
over data (matcher, parser, decision, recommendations, web client), whose tables a model would repeat; protocols
whose other end is outside the repository (cast, remote playback, ingress, acquisition, playlist sync); generated code
(the database layer, the metadata client), of which the statements that matter are modelled where they are called;
registries whose operations are one critical section or one transaction each (playback sessions, play queue, login
guard); and the event hub, which promises nothing to a slow subscriber. The AAC session manager with the leases of the
transcode cache is the one component without a model that has interleavings of its own. The map's share of the
repository's lines is small for this reason: most of them are generated, protocol translation or rendering.
