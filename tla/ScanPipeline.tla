------------------------------ MODULE ScanPipeline ------------------------------
(***************************************************************************)
(* The scan pipeline of one owner scope: process_scan, search_metadata,    *)
(* fetch_metadata, apply_metadata and apply_rich_metadata                  *)
(* (internal/worker/kickoff_workers.go), their hand-offs                   *)
(* (internal/scanner/entity_artifact.go, queries/scanner.sql), the parked  *)
(* searches (metadata_continuation_worker.go), the orphan pruner           *)
(* (scanner_artifact_cleanup_worker.go) and the cancel of a scan           *)
(* (internal/service/jobs.go).                                             *)
(*                                                                         *)
(* A scope has one identity, hence one scanner entity.  What a stage hands *)
(* to the next is an artifact and a job, in the transaction that moves the *)
(* entity; an artifact counts while the entity still points at it and the  *)
(* sources it was made from are those on disk.  Entity ids and generations *)
(* are drawn from one counter: the code only compares them for equality.   *)
(* A check a stage makes twice is made once where the second decides the   *)
(* same: an artifact that stopped being current or valid stays so.         *)
(***************************************************************************)
EXTENDS Naturals, FiniteSets

CONSTANTS
  Attempts, \* MaxAttempts of each kind of job
  Slots,    \* the workers of each kind's queue
  Limits,   \* how often the environment acts (see LimitNames)
  Alone     \* what it only does in a behaviour where it does nothing else

Kinds == {"process", "search", "fetch", "apply", "rich"}
LimitNames ==
  {"all", "media", "sidecar", "decide", "park", "refuse", "fault", "crash", "cancel", "round"}

ASSUME AttemptsAssumption == Attempts \in [Kinds -> Nat \ {0}]
ASSUME SlotsAssumption == Slots \in [Kinds -> Nat \ {0}]
ASSUME LimitsAssumption == Limits \in [LimitNames -> Nat] /\ Alone \subseteq LimitNames

VARIABLES
  disk,    \* the scope's sources: versions of its media and of its sidecars
  file,    \* library_files: the media version seen, pending or not
  marker,  \* library_nfo_dirs: the sidecar version the kickoff has seen
  entity,  \* scanner_entities: generation, status, its current artifacts
  serial,  \* ids and generations drawn so far
  rows,    \* river_job: the active rows, with the attempts used; whether a
           \* cancel was requested
  runs,    \* the executions, one for each running row
  parked,  \* scanner_metadata_continuations
  catalog, \* what the applies wrote: generation and sources
  fanned,  \* generations whose post-apply jobs were inserted
  pruner,  \* the orphan pass: the entity it listed, NoEntity between two passes
  cancel,  \* cancelScanJobs: where it is
  stopped, \* river_job: the rows a cancel ended, while the entity points at theirs
  halted,  \* history: nothing is owed to the scope: the user stopped it, or its
           \* last sidecar change was absorbed
  left     \* what is left of Limits

vars == <<disk, file, marker, entity, serial, rows, runs, parked, catalog, fanned,
          pruner, cancel, stopped, halted, left>>
outside == <<disk, marker, pruner, cancel, halted>>

Spend(n) ==
  /\ left[n] > 0
  /\ left["all"] >= IF n \in Alone THEN Limits["all"] ELSE 1
  /\ left' = [left EXCEPT ![n] = @ - 1, !["all"] = IF n \in Alone THEN 0 ELSE @ - 1]

NoSource == [media |-> 0, sidecar |-> 0]
NoArtifact == [id |-> 0, gen |-> 0, n |-> 0, src |-> NoSource]
NoEntity == [id |-> 0, gen |-> 0, status |-> "none", src |-> NoSource, made |-> 0,
             analysis |-> 0, search |-> 0, metadata |-> 0, apply |-> 0, refused |-> FALSE]
\* The entity's column a job's artifact has to be in.
Column == [search |-> "analysis", fetch |-> "search", apply |-> "metadata", rich |-> "metadata"]
\* GetCurrentScannerEntityArtifact.
Current(e) ==
  /\ entity.id = e.art.id /\ entity.gen = e.art.gen
  /\ entity[Column[e.kind]] = e.art.n

Init ==
  /\ disk = [media |-> 1, sidecar |-> 0]
  /\ file = [seen |-> 0, pending |-> FALSE]
  /\ marker = 0
  /\ entity = NoEntity
  /\ serial = 0
  /\ rows = {} /\ runs = {} /\ parked = {}
  /\ catalog = [gen |-> 0, src |-> NoSource, rich |-> 0]
  /\ fanned = {}
  /\ pruner = NoEntity
  /\ cancel = "idle"
  /\ stopped = {}
  /\ halted = FALSE
  /\ left = Limits

-----------------------------------------------------------------------------
(***************************************************************************)
(* Jobs.  Rows are unique by their job while active (uniqueWhileActive).   *)
(***************************************************************************)
Job(r) == [kind |-> r.kind, art |-> r.art, poll |-> r.poll]
NewRow(kind, art, poll) == [kind |-> kind, art |-> art, poll |-> poll, tried |-> 0, stop |-> FALSE]
ProcessRow == NewRow("process", NoArtifact, FALSE)
Inserted(rs, new) == rs \cup {r \in new : \A q \in rs : Job(q) # Job(r)}
Running(r) == \E e \in runs : Job(e) = Job(r)
Owned(e) == {r \in rows : Job(r) = Job(e)}

\* The row after its run: completed, snoozed, or failed with its attempts used
\* or not.  A signalled row whose run fails is cancelled.
\* (Mutant: one attempt more than MaxAttempts.)
SpentLate(r) == r.tried > Attempts[r.kind]
Spent(r) == r.tried >= Attempts[r.kind]
Signalled(e) == \E r \in Owned(e) : r.stop
Completed(e) == rows \ Owned(e)
Snoozed(e) == (rows \ Owned(e)) \cup {[r EXCEPT !.tried = @ - 1] : r \in Owned(e)}
Failed(e) == rows \ {r \in Owned(e) : Spent(r) \/ Signalled(e)}
\* A superseded artifact never becomes current again.
Stopped(rs) == {s \in stopped \cup {Job(r) : r \in rs} : s.kind # "process" /\ Current(s)}
Cancelled(e) == IF Signalled(e) THEN Stopped(Owned(e)) ELSE stopped

First == [process |-> "walk", search |-> "persist", fetch |-> "begin", apply |-> "begin", rich |-> "store"]
Start(kind) ==
  \E r \in rows :
    /\ r.kind = kind /\ ~Running(r)
    /\ Cardinality({e \in runs : e.kind = kind}) < Slots[kind]
    /\ rows' = (rows \ {r}) \cup {[r EXCEPT !.tried = @ + 1]}
    /\ runs' = runs \cup {[kind |-> kind, art |-> r.art, poll |-> r.poll, pc |-> First[kind],
                           src |-> NoSource, n |-> 0, parks |-> FALSE]}
    /\ UNCHANGED <<outside, file, entity, serial, parked, catalog, fanned, stopped, left>>

Goes(e, to) == runs' = (runs \ {e}) \cup {to}
To(e, pc) == [e EXCEPT !.pc = pc]
Moves(e, ent, to) ==
  /\ entity' = ent /\ Goes(e, to)
  /\ UNCHANGED <<outside, file, serial, rows, parked, catalog, fanned, stopped, left>>
\* The run ends with nothing done; a search or a fetch drops its continuation.
Unpark(e) == parked \ {[kind |-> e.kind, art |-> e.art]}
Ends(e) ==
  /\ runs' = runs \ {e} /\ rows' = Completed(e)
  /\ parked' = Unpark(e)
  /\ UNCHANGED <<outside, file, entity, serial, catalog, fanned, stopped, left>>
Snoozes(e) ==
  /\ runs' = runs \ {e} /\ rows' = Snoozed(e)
  /\ UNCHANGED <<outside, file, entity, serial, parked, catalog, fanned, stopped, left>>

-----------------------------------------------------------------------------
(***************************************************************************)
(* Artifacts and the entity.                                               *)
(***************************************************************************)
\* ValidateScannerArtifactSourcesWithDB.
Valid(e) == e.art.src = disk
Artifact(ent, n) == [id |-> ent.id, gen |-> ent.gen, n |-> n, src |-> ent.src]
\* MarkScannerEntityFailed.
Marked(e, status) == IF Current(e) THEN [entity EXCEPT !.status = status] ELSE entity

\* enqueueStaleScannerArtifactReanalysis: the entity is released and a forced
\* process_scan inserted, unless a newer generation has superseded the artifact.
Reanalysis(e) == IF Current(e) THEN {ProcessRow} ELSE {}
Reanalyses(e) ==
  /\ entity' = Marked(e, "stale")
  /\ rows' = Inserted(rows, Reanalysis(e))
  /\ Goes(e, To(e, "done"))
  /\ UNCHANGED <<outside, file, serial, parked, catalog, fanned, stopped, left>>

\* The terminal step of a run that has committed something.
\* ParkUnmatchedFiles: files no accepted identity claims are quiet from now on.
Finishes(e) ==
  /\ e.pc \in {"sent", "done"}
  /\ runs' = runs \ {e} /\ rows' = Completed(e)
  /\ parked' = Unpark(e)
  /\ file' = IF e.parks THEN [seen |-> e.art.src.media, pending |-> FALSE] ELSE file
  /\ UNCHANGED <<outside, entity, serial, catalog, fanned, stopped, left>>

\* A stage fails, or the answer of its commit is lost: the entity is marked
\* and the job returns its error.
FailedStatus == [search |-> "error", fetch |-> "metadata_error", apply |-> "apply_error"]
Marks(e) ==
  \/ e.kind \in {"search", "fetch"}
  \/ e.kind = "apply" /\ e.pc \in {"write", "checkpoint", "fanout"}
Fails(e) ==
  /\ e.pc # "done" /\ Spend("fault")
  /\ runs' = runs \ {e} /\ rows' = Failed(e) /\ stopped' = Cancelled(e)
  /\ parked' = Unpark(e)
  /\ entity' = IF Marks(e) THEN Marked(e, FailedStatus[e.kind]) ELSE entity
  /\ UNCHANGED <<outside, file, serial, catalog, fanned>>

-----------------------------------------------------------------------------
(***************************************************************************)
(* process_scan.                                                           *)
(***************************************************************************)
\* The walk, and ObservePendingAnalysisFiles.
Walks(e) ==
  /\ e.kind = "process" /\ e.pc = "walk"
  /\ file' = IF file.seen = disk.media THEN file ELSE [seen |-> disk.media, pending |-> TRUE]
  /\ Goes(e, [e EXCEPT !.pc = "persist", !.src = disk])
  /\ UNCHANGED <<outside, entity, serial, rows, parked, catalog, fanned, stopped, left>>

\* persistScannerAnalysisEntities: a new generation and its search, in one
\* transaction, unless an apply holds the scope.
Generation(src) ==
  [NoEntity EXCEPT !.id = IF entity = NoEntity THEN serial + 1 ELSE entity.id,
                   !.gen = serial + 1, !.status = "discovered", !.src = src,
                   !.made = 1, !.analysis = 1]
PersistAnalysis(e) ==
  /\ e.kind = "process" /\ e.pc = "persist" /\ entity.status # "applying"
  /\ entity' = Generation(e.src)
  /\ serial' = serial + 1
  /\ rows' = Inserted(rows, {NewRow("search", Artifact(entity', 1), FALSE)})
  /\ Goes(e, To(e, "sent"))
  /\ UNCHANGED <<outside, file, parked, catalog, fanned, stopped, left>>
AnalysisWaits(e) ==
  /\ e.kind = "process" /\ e.pc = "persist" /\ entity.status = "applying"
  /\ Snoozes(e)

-----------------------------------------------------------------------------
(***************************************************************************)
(* search_metadata and fetch_metadata.                                     *)
(***************************************************************************)
\* BeginScannerEntityFetch.
BeginFetch(e) ==
  /\ e.kind = "fetch" /\ e.pc = "begin"
  /\ IF ~Current(e) THEN Ends(e)
     ELSE IF ~Valid(e) THEN Reanalyses(e)
     ELSE IF entity.status = "applying" THEN Ends(e)
     ELSE Moves(e, [entity EXCEPT !.status = "fetching"], To(e, "persist"))

\* MarkScannerEntitySearched, MarkScannerEntityFetched: the statuses a result
\* may replace.
Admits == [search |-> {"discovered", "needs_review", "unmatched", "error"}, fetch |-> {"fetching"}]
Next_n == entity.made + 1
Searched(status) ==
  [entity EXCEPT !.status = status, !.made = Next_n, !.search = Next_n, !.metadata = 0, !.apply = 0]
Fetched(status) == [entity EXCEPT !.status = status, !.made = Next_n, !.metadata = Next_n]

\* The result and the next stage's job, in one transaction; a search may find
\* nothing it accepts (needs_review stands for unmatched, rejected and ignored),
\* a fetch nothing usable or an error.
Commits(e, to, next, parks) ==
  /\ entity' = to
  /\ rows' = Inserted(rows, next)
  /\ Goes(e, [e EXCEPT !.pc = "sent", !.parks = parks])
  /\ UNCHANGED <<outside, file, serial, parked, catalog, fanned, stopped>>
PersistSearch(e) ==
  /\ Commits(e, Searched("matched"), {NewRow("fetch", Artifact(entity, Next_n), FALSE)}, FALSE)
  /\ UNCHANGED left
SearchUnmatched(e) ==
  /\ Commits(e, Searched("needs_review"), {}, TRUE)
  /\ UNCHANGED left
PersistFetch(e) ==
  /\ Commits(e, Fetched("fetched"), {NewRow("apply", Artifact(entity, Next_n), FALSE)}, FALSE)
  /\ UNCHANGED left
FetchFindsNothing(e) ==
  /\ \E status \in {"metadata_missing", "metadata_error"} : Commits(e, Fetched(status), {}, FALSE)
  /\ Spend("fault")
Persists(e) ==
  /\ e.kind \in {"search", "fetch"} /\ e.pc = "persist"
  /\ IF ~Current(e) THEN Ends(e)
     ELSE IF ~Valid(e) THEN Reanalyses(e)
     ELSE IF entity.status \notin Admits[e.kind] THEN Ends(e)
     ELSE IF e.kind = "search" THEN PersistSearch(e) \/ SearchUnmatched(e)
     ELSE PersistFetch(e) \/ FetchFindsNothing(e)

\* parkMetadataContinuation: the remote side is not ready; the job completes.
Parks(e) ==
  /\ e.kind \in {"search", "fetch"} /\ e.pc = "persist" /\ Spend("park")
  /\ parked' = parked \cup {[kind |-> e.kind, art |-> e.art]}
  /\ runs' = runs \ {e} /\ rows' = Completed(e)
  /\ UNCHANGED <<outside, file, entity, serial, catalog, fanned, stopped>>
\* MetadataContinuationSweepWorker: the continuation stays until its poll ends.
Promotes ==
  \E c \in parked :
    /\ rows' = Inserted(rows, {NewRow(c.kind, c.art, TRUE)})
    /\ UNCHANGED <<outside, file, entity, serial, runs, parked, catalog, fanned, stopped, left>>

-----------------------------------------------------------------------------
(***************************************************************************)
(* apply_metadata and apply_rich_metadata.                                 *)
(***************************************************************************)
\* tryScannerEntityExecutionLock, held until the run returns; then
\* loadScannerApplyCheckpoint, and BeginScannerEntityApply unless an earlier run
\* left its checkpoint.
Locked(e) == \E o \in runs : o.kind = "apply" /\ o.art.id = e.art.id /\ o.pc # "begin"
BeginApply(e) ==
  /\ e.kind = "apply" /\ e.pc = "begin"
  /\ IF Locked(e) THEN Snoozes(e)
     ELSE IF ~Current(e) THEN Ends(e)
     ELSE IF entity.apply # 0 /\ entity.status \in {"applying", "apply_error"}
          THEN Moves(e, entity, [e EXCEPT !.pc = "resume", !.n = entity.apply, !.parks = entity.refused])
     ELSE IF entity.apply # 0 THEN Ends(e)
     ELSE IF ~Valid(e) THEN Reanalyses(e)
     ELSE IF entity.status \notin {"fetched", "applying", "apply_error"} THEN Ends(e)
     ELSE Moves(e, [entity EXCEPT !.status = "applying"], To(e, "write"))

\* The domain writes, with the guard at the end of their transaction.  An item
\* that cannot be materialized is skipped, and the transaction writes nothing.
\* The guard's look at the files and the commit are one step.
\* (Mutant: the guard ran when the apply began.)
GuardedOnce(e) == TRUE
Guarded(e) == Current(e) /\ Valid(e)
WriteCatalog(e) ==
  /\ e.kind = "apply" /\ e.pc = "write"
  /\ IF Guarded(e)
     THEN /\ catalog' = [catalog EXCEPT !.gen = e.art.gen, !.src = e.art.src]
          /\ file' = [seen |-> e.art.src.media, pending |-> FALSE]
          /\ Goes(e, To(e, "checkpoint"))
          /\ UNCHANGED <<outside, entity, serial, rows, parked, fanned, stopped, left>>
     ELSE Reanalyses(e)
SkipsItem(e) ==
  /\ e.kind = "apply" /\ e.pc = "write" /\ Guarded(e) /\ Spend("refuse")
  /\ Goes(e, [e EXCEPT !.pc = "checkpoint", !.parks = TRUE])
  /\ UNCHANGED <<outside, file, entity, serial, rows, parked, catalog, fanned, stopped>>

\* persistScannerApplyEntity with pendingFanout.
\* (Mutant: the checkpoint is already the applied entity.)
PendingApplied(e, n) ==
  [entity EXCEPT !.status = "applied", !.made = n, !.apply = n, !.refused = e.parks]
Pending(e, n) ==
  [entity EXCEPT !.status = "applying", !.made = n, !.apply = n, !.refused = e.parks]
Checkpoint(e) ==
  /\ e.kind = "apply" /\ e.pc = "checkpoint"
  /\ IF ~Current(e) THEN Ends(e)
     ELSE IF ~Valid(e) THEN Reanalyses(e)
     ELSE IF entity.status # "applying" THEN Ends(e)
     ELSE Moves(e, Pending(e, Next_n), [e EXCEPT !.pc = "fanout", !.n = Next_n])

\* ParkUnappliedFiles: the files of a skipped item are quiet from now on.
ParksUnapplied(e) ==
  file' = IF e.parks THEN [seen |-> e.art.src.media, pending |-> FALSE] ELSE file
\* scannerRichMetadataTargets: films and series have one, what was skipped has none.
RichRows(e) == {{}, {NewRow("rich", e.art, FALSE)}}
\* The fan-out: every downstream job and the terminal status in one
\* transaction; an entity that is not applying any more fails it.
Finalizable(e) == Current(e) /\ entity.apply = e.n /\ entity.status = "applying"
InsertsFanout(e) ==
  /\ entity' = [entity EXCEPT !.status = "applied"]
  /\ \E new \in RichRows(e) : rows' = Inserted(rows, new)
  /\ fanned' = fanned \cup {e.art.gen}
EndsSkipped == entity' = [entity EXCEPT !.status = "skipped"] /\ UNCHANGED <<rows, fanned>>
Fanout(e) ==
  /\ e.kind = "apply" /\ e.pc \in {"fanout", "resume"}
  /\ ParksUnapplied(e)
  /\ IF Finalizable(e)
     THEN /\ IF e.parks THEN EndsSkipped ELSE InsertsFanout(e)
          /\ Goes(e, [e EXCEPT !.pc = "sent", !.parks = FALSE])
          /\ UNCHANGED <<outside, serial, parked, catalog, stopped, left>>
     ELSE /\ runs' = runs \ {e} /\ rows' = Failed(e) /\ stopped' = Cancelled(e)
          /\ UNCHANGED <<outside, entity, serial, parked, catalog, fanned, left>>

\* storeRichMetadataIfCurrent.
StoreRich(e) ==
  /\ e.kind = "rich" /\ e.pc = "store"
  /\ IF ~Current(e) THEN Ends(e)
     ELSE IF ~Valid(e) THEN Reanalyses(e)
     ELSE /\ catalog' = [catalog EXCEPT !.rich = e.art.gen]
          /\ Goes(e, To(e, "sent"))
          /\ UNCHANGED <<outside, file, entity, serial, rows, parked, fanned, stopped, left>>

Step(e) ==
  \/ Walks(e) \/ PersistAnalysis(e) \/ AnalysisWaits(e)
  \/ BeginFetch(e) \/ Persists(e)
  \/ BeginApply(e) \/ WriteCatalog(e) \/ SkipsItem(e) \/ Checkpoint(e) \/ Fanout(e) \/ StoreRich(e)
  \/ Finishes(e)

-----------------------------------------------------------------------------
(***************************************************************************)
(* The sources change; the kickoff notices; the user decides.              *)
(***************************************************************************)
ChangesMedia ==
  /\ Spend("media")
  /\ disk' = [disk EXCEPT !.media = @ + 1]
  /\ UNCHANGED <<file, marker, entity, serial, rows, runs, parked, catalog, fanned, pruner, cancel, stopped, halted>>
ChangesSidecar ==
  /\ Spend("sidecar")
  /\ disk' = [disk EXCEPT !.sidecar = @ + 1]
  /\ UNCHANGED <<file, marker, entity, serial, rows, runs, parked, catalog, fanned, pruner, cancel, stopped, halted>>

\* A job or a continuation of the entity: listOrphanedInFlightScannerEntities,
\* loadLiveScannerPipelineScopes.
LiveWork(ent) ==
  \/ \E r \in rows : r.kind # "process" /\ r.art.id = ent.id
  \/ \E c \in parked : c.art.id = ent.id
\* libraryFileNeedsScan and syncLibraryNFODirs.
NeedsScan == disk.media # file.seen \/ (file.pending /\ ~LiveWork(entity)) \/ disk.sidecar # marker
\* The marker moves although the scan it asks for is a duplicate of one that is
\* past its hand-off and only has to return.
Absorbed == disk.sidecar # marker /\ \E e \in runs : e.kind = "process" /\ e.pc = "sent"
\* The kickoff's job is itself among those a cancel stops.
Kickoff ==
  /\ NeedsScan /\ cancel = "idle"
  /\ rows' = Inserted(rows, {ProcessRow})
  /\ marker' = disk.sidecar
  /\ halted' = Absorbed
  /\ UNCHANGED <<disk, file, entity, serial, runs, parked, catalog, fanned, pruner, cancel, stopped, left>>

\* A manual decision resets the entity; the scan it asks for may fail to enqueue.
Decides ==
  /\ entity # NoEntity /\ Spend("decide")
  /\ entity' = [NoEntity EXCEPT !.id = entity.id, !.gen = serial + 1, !.status = "discovered"]
  /\ serial' = serial + 1
  /\ rows' \in {rows, Inserted(rows, {ProcessRow})}
  /\ halted' = FALSE
  /\ UNCHANGED <<disk, file, marker, runs, parked, catalog, fanned, pruner, cancel, stopped>>

-----------------------------------------------------------------------------
(***************************************************************************)
(* The worker crashes.                                                     *)
(***************************************************************************)
Rescued == {r \in rows : ~(Running(r) /\ Spent(r))}
Crash ==
  /\ runs # {} /\ Spend("crash")
  /\ rows' = Rescued /\ runs' = {}
  /\ pruner' = NoEntity
  /\ UNCHANGED <<disk, file, marker, entity, serial, parked, catalog, fanned, cancel, stopped, halted>>

\* Seconds have passed: no run is still on its way out of its hand-off.
Quiet == \A e \in runs : e.pc # "sent"

-----------------------------------------------------------------------------
(***************************************************************************)
(* The orphan pruner.                                                      *)
(***************************************************************************)
InFlight == {"discovered", "matched", "fetching", "fetched", "applying",
             "stale", "error", "metadata_error", "apply_error", "failed"}
Orphaned == entity.status \in InFlight /\ ~LiveWork(entity)
\* A cancelled job names an artifact the entity still points at.
Flagged == \E s \in stopped : Current(s)
\* What it lists, an entity that has not moved for orphanedScannerEntityRetention,
\* it requeues unless a cancel stopped it; what it listed it then deletes.
PrunerRequeues ==
  /\ pruner = NoEntity /\ Orphaned /\ Quiet
  /\ pruner' = entity
  /\ rows' = IF Flagged THEN rows ELSE Inserted(rows, {ProcessRow})
  /\ UNCHANGED <<disk, file, marker, entity, serial, runs, parked, catalog, fanned, cancel, stopped, halted, left>>
\* cleanupOrphanedInFlightScannerEntities: only what is still as listed.
\* (Mutant: whatever generation the entity is in.)
StillListedById(ent) == entity.id = ent.id
StillListed(ent) == entity = ent /\ ~LiveWork(ent)
PrunerCleans ==
  /\ pruner # NoEntity
  /\ entity' = IF StillListed(pruner) THEN NoEntity ELSE entity
  /\ pruner' = NoEntity
  /\ UNCHANGED <<disk, file, marker, serial, rows, runs, parked, catalog, fanned, cancel, stopped, halted, left>>

-----------------------------------------------------------------------------
(***************************************************************************)
(* cancelScanJobs.                                                         *)
(***************************************************************************)
ScanKinds == Kinds \ {"rich"}
CancelStep(from, to) ==
  /\ cancel = from /\ cancel' = to
  /\ UNCHANGED <<disk, file, marker, serial, catalog, fanned, pruner>>
CancelStarts ==
  /\ CancelStep("idle", "parked") /\ Spend("cancel")
  /\ UNCHANGED <<entity, rows, runs, parked, stopped, halted>>
CancelsParked ==
  /\ CancelStep("parked", "pending")
  /\ parked' = {}
  /\ UNCHANGED <<entity, rows, runs, stopped, halted, left>>
CancelsPending ==
  /\ CancelStep("pending", "signal")
  /\ rows' = {r \in rows : Running(r) \/ r.kind \notin ScanKinds}
  /\ stopped' = Stopped(rows \ rows')
  /\ UNCHANGED <<entity, runs, parked, halted, left>>
SignalsRunning ==
  /\ CancelStep("signal", "check")
  /\ rows' = {IF Running(r) /\ r.kind \in ScanKinds THEN [r EXCEPT !.stop = TRUE] ELSE r : r \in rows}
  /\ UNCHANGED <<entity, runs, parked, stopped, halted, left>>
\* One snapshot: again, while the deadline allows.
QuiescentNow == parked = {} /\ \A r \in rows : r.kind \notin ScanKinds
GoesAgain ==
  /\ CancelStep("check", "parked") /\ ~QuiescentNow
  /\ left["round"] > 0 /\ left' = [left EXCEPT !["round"] = @ - 1]
  /\ UNCHANGED <<entity, rows, runs, parked, stopped, halted>>
Leaves ==
  /\ CancelStep("check", "sweep") /\ (QuiescentNow \/ Quiet)
  /\ UNCHANGED <<entity, rows, runs, parked, stopped, halted, left>>
\* SweepCancelledScannerEntities.
SweepsCancelled ==
  /\ CancelStep("sweep", "idle")
  /\ entity' = IF Orphaned /\ Flagged THEN NoEntity ELSE entity
  /\ halted' = TRUE
  /\ UNCHANGED <<rows, runs, parked, stopped, left>>
\* River ends the context of a signalled run.
Aborts(e) ==
  /\ Signalled(e)
  /\ runs' = runs \ {e} /\ rows' = Completed(e) /\ stopped' = Cancelled(e)
  /\ UNCHANGED <<outside, file, entity, serial, parked, catalog, fanned, left>>

-----------------------------------------------------------------------------
Environment == ChangesMedia \/ ChangesSidecar \/ Decides \/ Crash \/ CancelStarts
Prunes == PrunerRequeues \/ PrunerCleans
Cancels == CancelsParked \/ CancelsPending \/ SignalsRunning \/ GoesAgain \/ Leaves \/ SweepsCancelled
Next ==
  \/ Environment \/ Kickoff \/ Promotes \/ Prunes \/ Cancels
  \/ \E kind \in Kinds : Start(kind)
  \/ \E e \in runs : Step(e) \/ Fails(e) \/ Parks(e) \/ Aborts(e)

Spec == Init /\ [][Next]_vars
\* River runs what is queued and every run ends; the kickoff, the sweep of the
\* continuations and the pruner are periodic; the cancel's loop has a deadline.
Works(kind) == \E e \in runs : e.kind = kind /\ Step(e)
\* An apply that is snoozed for the lock does not hold up the lock's holder.
HolderWorks == \E e \in runs : e.kind = "apply" /\ e.pc # "begin" /\ Step(e)
FairSpec ==
  /\ Spec
  /\ \A kind \in Kinds : WF_vars(Start(kind)) /\ WF_vars(Works(kind))
  /\ WF_vars(HolderWorks) /\ WF_vars(Kickoff) /\ WF_vars(Promotes) /\ WF_vars(Prunes) /\ WF_vars(Cancels)

-----------------------------------------------------------------------------
Statuses == InFlight \cup {"none", "needs_review", "metadata_missing", "skipped", "applied"}
TypeOK ==
  /\ entity.status \in Statuses /\ entity.gen \in 0..serial /\ entity.id \in 0..serial
  /\ \A r \in rows : r.kind \in Kinds /\ r.tried \in 0..Attempts[r.kind]
  /\ \A e \in runs : e.kind \in Kinds /\ \E r \in rows : Job(r) = Job(e) /\ r.tried > 0
  /\ \A c \in parked : c.kind \in {"search", "fetch"}
  /\ cancel \in {"idle", "parked", "pending", "signal", "check", "sweep"}

\* "A crash can leave either the whole hand-off pending or the whole hand-off
\* complete, never an applied entity with missing jobs" (entity_artifact.go:512).
AppliedFannedOut == entity.status = "applied" => entity.gen \in fanned

\* A superseded run writes nothing: the catalog only moves to the sources on
\* disk and to later generations, and the rich data written is that of the
\* generation whose core data is there, whoever else is still running.
StaleNeverWrites ==
  [][/\ catalog'.gen >= catalog.gen
     /\ catalog'.src # catalog.src => catalog'.src = disk
     /\ catalog'.rich # catalog.rich => catalog'.rich = catalog.gen]_vars

\* The scope is applied from the sources on disk, with its jobs inserted, or
\* waits for the user's review of them or of the item that was skipped.
Settled ==
  /\ entity.src = disk
  /\ entity.status \in {"applied", "skipped", "needs_review", "metadata_missing"}
  /\ entity.status = "applied" => catalog.src = disk
\* Whatever changes, fails, is parked, crashes or is displaced, the scope ends
\* settled: no work is lost between two stages.
ScanConverges == <>[](halted \/ Settled)
=============================================================================
