-------------------------- MODULE ScanPipelineProofs --------------------------
(***************************************************************************)
(* What holds of a scope for any number of attempts, workers, changes,     *)
(* faults, crashes and cancels: an applied entity has its jobs, a          *)
(* superseded run writes nothing, and each run has a row of its own.       *)
(***************************************************************************)
EXTENDS ScanPipeline, Integers, TLAPS

Sources == [media : Nat, sidecar : Nat]
Artifacts == [id : Nat, gen : Nat, n : Nat, src : Sources]
Entities ==
  [id : Nat, gen : Nat, status : Statuses, src : Sources, made : Nat,
   analysis : Nat, search : Nat, metadata : Nat, apply : Nat, refused : BOOLEAN]
Rows == [kind : Kinds, art : Artifacts, poll : BOOLEAN, tried : Int, stop : BOOLEAN]
Places ==
  {"walk", "persist", "begin", "store", "write", "checkpoint", "fanout", "resume", "sent", "done"}
Runs ==
  [kind : Kinds, art : Artifacts, poll : BOOLEAN, pc : Places, src : Sources, n : Nat,
   parks : BOOLEAN]
Continuations == [kind : {"search", "fetch"}, art : Artifacts]

\* Where an apply is once its domain writes are over.
Concluding == {"checkpoint", "fanout", "resume"}
\* The entity has the checkpoint of an apply that wrote the catalog.
Written(ent) == ent.apply # 0 /\ ~ent.refused

\* The artifact a job names was made in a generation that was drawn.
Drawn(kind, art) == kind # "process" => art.gen \in 1..serial /\ art.n > 0
\* While it is of the entity's generation, the catalog holds that generation.
Backed(art) == art.gen = entity.gen => catalog.gen = entity.gen

RowFits(r) == r \in Rows /\ Drawn(r.kind, r.art) /\ (r.kind = "rich" => Backed(r.art))
RunFits(e) ==
  /\ e \in Runs /\ Drawn(e.kind, e.art)
  /\ e.pc \in Concluding => e.kind = "apply"
  /\ e.kind = "rich" \/ (e.pc \in Concluding /\ ~e.parks) => Backed(e.art)
  /\ e.pc \in {"fanout", "resume"} => e.n > 0
ParkedFits(c) == c \in Continuations /\ Drawn(c.kind, c.art)

JobsFit ==
  /\ \A r \in rows : RowFits(r)
  /\ \A e \in runs : RunFits(e)
  /\ \A c \in parked : ParkedFits(c)

\* The catalog never holds a generation after the entity's, and holds the
\* entity's once an apply that did not skip its item has made its checkpoint.
CatalogFits ==
  /\ catalog \in [gen : Nat, src : Sources, rich : Nat]
  /\ catalog.gen <= serial
  /\ entity.gen > 0 => catalog.gen <= entity.gen
  /\ Written(entity) => catalog.gen = entity.gen
WorldFits ==
  /\ disk \in Sources /\ serial \in Nat
  /\ entity \in Entities /\ entity.gen <= serial
  /\ CatalogFits
  /\ AppliedFannedOut

ScanInv == WorldFits /\ JobsFit

\* What every step does to the generations: the entity keeps its own, and the
\* catalog its own or takes the entity's, or the entity leaves all those drawn.
Advances ==
  /\ serial' \in Nat /\ serial' >= serial
  /\ \/ entity'.gen = entity.gen /\ catalog'.gen \in {catalog.gen, entity.gen}
     \/ entity'.gen \notin 1..serial

-----------------------------------------------------------------------------
(***************************************************************************)
(* Jobs that stay as they are go on fitting.                               *)
(***************************************************************************)
LEMMA ArtifactKept ==
  ASSUME WorldFits, Advances, NEW kind, NEW art \in Artifacts, Drawn(kind, art)
  PROVE  Drawn(kind, art)' /\ (kind # "process" /\ Backed(art) => Backed(art)')
<1>1. serial \in Nat /\ entity.gen \in Nat /\ catalog.gen \in Nat /\ art.gen \in Nat
  BY DEF WorldFits, CatalogFits, Entities, Artifacts
<1> QED BY <1>1 DEF Advances, Drawn, Backed

\* A row that fits goes on fitting while the generations advance.
LEMMA RowKept ==
  ASSUME WorldFits, Advances, NEW r, RowFits(r)
  PROVE  RowFits(r)'
<1>1. r.art \in Artifacts
  BY DEF RowFits, Rows
<1> QED BY <1>1, ArtifactKept DEF RowFits

\* So does a run.
LEMMA RunKept ==
  ASSUME WorldFits, Advances, NEW e, RunFits(e)
  PROVE  RunFits(e)'
<1>1. e.art \in Artifacts
  BY DEF RunFits, Runs
<1>2. e.kind = "rich" \/ e.pc \in Concluding => e.kind # "process"
  BY DEF RunFits
<1> QED BY <1>1, <1>2, ArtifactKept DEF RunFits

\* So does a continuation.
LEMMA ContinuationKept ==
  ASSUME WorldFits, Advances, NEW c, ParkedFits(c)
  PROVE  ParkedFits(c)'
<1>1. c.art \in Artifacts
  BY DEF ParkedFits, Continuations
<1> QED BY <1>1, ArtifactKept DEF ParkedFits

\* A step that only moves jobs on, and whose new rows and runs fit already.
LEMMA JobsKept ==
  ASSUME ScanInv, Advances,
         \A r \in rows' : r \in rows \/ RowFits(r),
         \A e \in runs' : e \in runs \/ RunFits(e),
         \A c \in parked' : c \in parked \/ ParkedFits(c)
  PROVE  JobsFit'
<1>1. ASSUME NEW r \in rows' PROVE RowFits(r)'
  BY <1>1, RowKept DEF ScanInv, JobsFit
<1>2. ASSUME NEW e \in runs' PROVE RunFits(e)'
  BY <1>2, RunKept DEF ScanInv, JobsFit
<1>3. ASSUME NEW c \in parked' PROVE ParkedFits(c)'
  BY <1>3, ContinuationKept DEF ScanInv, JobsFit
<1> QED BY <1>1, <1>2, <1>3 DEF JobsFit

\* The same when generation, catalog and entity stay.
LEMMA Still ==
  ASSUME ScanInv, UNCHANGED <<entity, serial, catalog, fanned>>, disk' \in Sources,
         \A r \in rows' : r \in rows \/ RowFits(r),
         \A e \in runs' : e \in runs \/ RunFits(e),
         \A c \in parked' : c \in parked \/ ParkedFits(c)
  PROVE  ScanInv'
<1>1. WorldFits'
  BY DEF ScanInv, WorldFits, CatalogFits, AppliedFannedOut
<1>2. Advances
  BY DEF ScanInv, WorldFits, Advances
<1> QED BY <1>1, <1>2, JobsKept DEF ScanInv

-----------------------------------------------------------------------------
(***************************************************************************)
(* The queue's operations make no job of their own.                        *)
(***************************************************************************)
LEMMA InsertedFit ==
  ASSUME NEW STATE new, \A r \in new : RowFits(r)
  PROVE  \A r \in Inserted(rows, new) : r \in rows \/ RowFits(r)
BY DEF Inserted

\* The rows after a completed or a failed run, or a crash, were there before.
LEMMA QueueFit ==
  ASSUME NEW e
  PROVE  Completed(e) \subseteq rows /\ Failed(e) \subseteq rows /\ Rescued \subseteq rows
BY DEF Completed, Failed, Rescued

\* A snoozed row gives its attempt back and names the same artifact.
LEMMA SnoozedFit ==
  ASSUME ScanInv, NEW e
  PROVE  \A r \in Snoozed(e) : r \in rows \/ RowFits(r)
<1>1. ASSUME NEW r \in rows PROVE RowFits([r EXCEPT !.tried = @ - 1])
  BY DEF ScanInv, JobsFit, RowFits, Rows
<1> QED BY <1>1 DEF Snoozed, Owned

\* A process_scan names no artifact.
LEMMA ProcessFits == RowFits(ProcessRow)
BY DEF RowFits, Rows, ProcessRow, NewRow, NoArtifact, NoSource, Artifacts, Sources, Drawn, Kinds

\* An artifact of the entity's that a run hands on was made in its generation.
LEMMA HandedOn ==
  ASSUME ScanInv, NEW e \in runs, Current(e), e.kind # "process",
         NEW kind \in {"fetch", "apply"}
  PROVE  RowFits(NewRow(kind, Artifact(entity, Next_n), FALSE))
<1>1. entity \in Entities /\ entity.gen \in 1..serial
  BY DEF ScanInv, WorldFits, JobsFit, RunFits, Drawn, Current
<1>2. Next_n \in Nat /\ Next_n > 0
  BY <1>1 DEF Next_n, Entities
<1> QED BY <1>1, <1>2 DEF RowFits, Rows, NewRow, Artifact, Artifacts, Entities, Drawn, Kinds

-----------------------------------------------------------------------------
(***************************************************************************)
(* The ways in which a run goes on or ends.                                *)
(***************************************************************************)
LEMMA DiskFits == ASSUME ScanInv PROVE disk \in Sources
BY DEF ScanInv, WorldFits

\* A run that only ends, or is snoozed.
LEMMA EndsFit ==
  ASSUME ScanInv, NEW e \in runs, Ends(e) \/ Snoozes(e)
  PROVE  ScanInv'
<1>1. CASE Ends(e)
  BY <1>1, Still, QueueFit, DiskFits DEF Ends, outside, Unpark
<1>2. CASE Snoozes(e)
  <2>1. \A r \in rows' : r \in rows \/ RowFits(r)
    BY <1>2, SnoozedFit DEF Snoozes
  <2> QED BY <1>2, <2>1, Still, DiskFits DEF Snoozes, outside
<1> QED BY <1>1, <1>2

\* A change of the entity inside its generation.
LEMMA EntityMoves ==
  ASSUME ScanInv, UNCHANGED <<serial, catalog, fanned, disk>>,
         entity' \in Entities, entity'.gen = entity.gen,
         entity'.status = "applied" => entity'.gen \in fanned,
         Written(entity') => catalog.gen = entity.gen,
         \A r \in rows' : r \in rows \/ RowFits(r),
         \A x \in runs' : x \in runs \/ RunFits(x),
         \A c \in parked' : c \in parked \/ ParkedFits(c)
  PROVE  ScanInv'
<1>1. WorldFits'
  BY DEF ScanInv, WorldFits, CatalogFits, AppliedFannedOut, Entities, Written
<1>2. Advances
  BY DEF ScanInv, WorldFits, Advances
<1> QED BY <1>1, <1>2, JobsKept DEF ScanInv

\* MarkScannerEntityFailed leaves the generation and the checkpoint alone.
LEMMA MarkedFits ==
  ASSUME ScanInv, NEW e \in runs, NEW status \in Statuses \ {"applied"}
  PROVE  /\ Marked(e, status) \in Entities
         /\ Marked(e, status).gen = entity.gen /\ Marked(e, status).apply = entity.apply
         /\ Marked(e, status).refused = entity.refused
         /\ Marked(e, status).status \in {entity.status, status}
BY DEF ScanInv, WorldFits, Marked, Entities

\* A run that moves on without a checkpoint.
LEMMA SameRun ==
  ASSUME ScanInv, NEW e \in runs, NEW pc \in Places \ Concluding
  PROVE  RunFits(To(e, pc))
<1>1. RunFits(e)
  BY DEF ScanInv, JobsFit
<1>2. To(e, pc) \in Runs /\ To(e, pc).kind = e.kind /\ To(e, pc).art = e.art /\ To(e, pc).pc = pc
  BY <1>1 DEF RunFits, Runs, To
<1> QED BY <1>1, <1>2 DEF RunFits, Concluding

\* A run that found its sources changed releases the entity.
LEMMA ReanalysesFit ==
  ASSUME ScanInv, NEW e \in runs, Reanalyses(e)
  PROVE  ScanInv'
<1>1. "stale" \in Statuses \ {"applied"}
  BY DEF Statuses, InFlight
<1>2. /\ entity' \in Entities /\ entity'.gen = entity.gen /\ entity'.apply = entity.apply
      /\ entity'.refused = entity.refused /\ entity'.status \in {entity.status, "stale"}
  BY <1>1, MarkedFits DEF Reanalyses
<1>3. \A r \in Reanalysis(e) : RowFits(r)
  BY ProcessFits DEF Reanalysis
<1>4. \A r \in rows' : r \in rows \/ RowFits(r)
  BY <1>3, InsertedFit DEF Reanalyses
<1>5. \A x \in runs' : x \in runs \/ RunFits(x)
  <2>1. RunFits(To(e, "done"))
    BY SameRun DEF Places, Concluding
  <2> QED BY <2>1 DEF Reanalyses, Goes
<1> QED BY <1>2, <1>4, <1>5, EntityMoves
     DEF Reanalyses, outside, ScanInv, WorldFits, CatalogFits, AppliedFannedOut, Written

-----------------------------------------------------------------------------
(***************************************************************************)
(* The stages.                                                             *)
(***************************************************************************)
\* process_scan: a generation that nobody has seen replaces the entity's.
LEMMA NewGeneration ==
  ASSUME ScanInv, UNCHANGED <<catalog, fanned, disk, parked>>,
         serial' = serial + 1,
         entity' \in Entities, entity'.gen = serial + 1,
         entity'.status = "discovered", entity'.apply = 0,
         \A r \in rows' : r \in rows \/ RowFits(r)',
         \A x \in runs' : x \in runs \/ RunFits(x)
  PROVE  ScanInv'
<1>1. WorldFits'
  BY DEF ScanInv, WorldFits, CatalogFits, AppliedFannedOut, Entities, Written
<1>2. Advances
  BY DEF ScanInv, WorldFits, Advances
<1>3. ASSUME NEW r \in rows' PROVE RowFits(r)'
  BY <1>2, <1>3, RowKept DEF ScanInv, JobsFit
<1>4. ASSUME NEW x \in runs' PROVE RunFits(x)'
  BY <1>2, <1>4, RunKept DEF ScanInv, JobsFit
<1>5. ASSUME NEW c \in parked' PROVE ParkedFits(c)'
  BY <1>2, <1>5, ContinuationKept DEF ScanInv, JobsFit
<1> QED BY <1>1, <1>3, <1>4, <1>5 DEF ScanInv, JobsFit

\* The three outcomes of process_scan.
LEMMA ProcessKeeps ==
  ASSUME ScanInv, NEW e \in runs, Walks(e) \/ PersistAnalysis(e) \/ AnalysisWaits(e)
  PROVE  ScanInv'
<1> DEFINE walked == [e EXCEPT !.pc = "persist", !.src = disk]
<1>1. RunFits(e)
  BY DEF ScanInv, JobsFit
<1>2. CASE Walks(e)
  <2>1. RunFits(walked)
    BY <1>1, DiskFits DEF RunFits, Runs, Places, Concluding
  <2> QED BY <1>2, <2>1, Still, DiskFits DEF Walks, Goes, outside
<1>3. CASE PersistAnalysis(e)
  <2>1. e.src \in Sources /\ serial \in Nat /\ entity.id \in Nat
    BY <1>1 DEF RunFits, Runs, ScanInv, WorldFits, Entities
  <2>2. Generation(e.src) \in Entities /\ Generation(e.src).gen = serial + 1
        /\ Generation(e.src).status = "discovered" /\ Generation(e.src).apply = 0
    <3> DEFINE id == IF entity = NoEntity THEN serial + 1 ELSE entity.id
    <3>1. id \in Nat
      BY <2>1
    <3>2. Generation(e.src) =
            [NoEntity EXCEPT !.id = id, !.gen = serial + 1, !.status = "discovered",
                             !.src = e.src, !.made = 1, !.analysis = 1]
      BY DEF Generation
    <3> HIDE DEF id
    <3>3. Generation(e.src) =
            [id |-> id, gen |-> serial + 1, status |-> "discovered", src |-> e.src, made |-> 1,
             analysis |-> 1, search |-> 0, metadata |-> 0, apply |-> 0, refused |-> FALSE]
      BY <3>2 DEF NoEntity
    <3>4. "discovered" \in Statuses
      BY DEF Statuses, InFlight
    <3> QED BY <2>1, <3>1, <3>3, <3>4 DEF Entities
  <2>3. entity' = Generation(e.src) /\ serial' = serial + 1
    BY <1>3 DEF PersistAnalysis
  <2>4. ASSUME NEW r \in rows', r \notin rows PROVE RowFits(r)'
    <3>1. entity' \in Entities /\ entity'.gen \in 1..serial'
      BY <2>1, <2>2, <2>3
    <3>2. entity'.gen \in Nat /\ entity'.id \in Nat /\ entity'.src \in Sources
      BY <3>1 DEF Entities
    <3>3. Artifact(entity', 1) \in Artifacts /\ Artifact(entity', 1).gen = entity'.gen
          /\ Artifact(entity', 1).n = 1
      BY <3>2 DEF Artifact, Artifacts
    <3>4. r = NewRow("search", Artifact(entity', 1), FALSE)
      BY <1>3, <2>4 DEF PersistAnalysis, Inserted
    <3>5. r \in Rows /\ r.kind = "search" /\ r.art = Artifact(entity', 1)
      BY <3>3, <3>4 DEF Rows, NewRow, Kinds
    <3> QED BY <3>1, <3>3, <3>5 DEF RowFits, Drawn
  <2>5. \A r \in rows' : r \in rows \/ RowFits(r)'
    BY <2>4
  <2>6. RunFits(To(e, "sent"))
    BY SameRun DEF Places, Concluding
  <2>7. \A x \in runs' : x \in runs \/ RunFits(x)
    BY <1>3, <2>6 DEF PersistAnalysis, Goes
  <2>8. UNCHANGED <<catalog, fanned, disk, parked>>
    BY <1>3 DEF PersistAnalysis, outside
  <2> QED BY <2>2, <2>3, <2>5, <2>7, <2>8, NewGeneration
<1>4. CASE AnalysisWaits(e)
  BY <1>4, EndsFit DEF AnalysisWaits
<1> QED BY <1>2, <1>3, <1>4

\* A stage that only moves the entity on, and its run.
LEMMA MovesFit ==
  ASSUME ScanInv, NEW e \in runs, NEW STATE ent, NEW STATE to, Moves(e, ent, to),
         ent \in Entities, ent.gen = entity.gen,
         ent.status = "applied" => entity.status = "applied",
         Written(ent) => catalog.gen = entity.gen,
         RunFits(to)
  PROVE  ScanInv'
<1>1. entity' = ent /\ UNCHANGED <<serial, catalog, fanned, disk, rows, parked>>
  BY DEF Moves, outside
<1>2. \A x \in runs' : x \in runs \/ RunFits(x)
  BY DEF Moves, Goes
<1>3. ent.status = "applied" => entity.gen \in fanned
  BY DEF ScanInv, WorldFits, AppliedFannedOut
<1> QED BY <1>1, <1>2, <1>3, EntityMoves

\* What the stages know of the entity.
LEMMA EntityIs ==
  ASSUME ScanInv
  PROVE  entity \in Entities /\ (Written(entity) => catalog.gen = entity.gen)
BY DEF ScanInv, WorldFits, CatalogFits

\* fetch_metadata takes the entity.
LEMMA FetchBegins ==
  ASSUME ScanInv, NEW e \in runs, BeginFetch(e)
  PROVE  ScanInv'
<1>1. CASE Moves(e, [entity EXCEPT !.status = "fetching"], To(e, "persist"))
  <2>1. RunFits(To(e, "persist"))
    BY SameRun DEF Places, Concluding
  <2>2. [entity EXCEPT !.status = "fetching"] \in Entities
    BY EntityIs DEF Entities, Statuses, InFlight
  <2> QED BY <1>1, <2>1, <2>2, EntityIs, MovesFit DEF Entities, Written
<1> QED BY <1>1, EndsFit, ReanalysesFit DEF BeginFetch

\* A stage that commits its result with the next job.
LEMMA CommitsFit ==
  ASSUME ScanInv, NEW e \in runs, NEW STATE to, NEW STATE next, NEW parks \in BOOLEAN,
         Commits(e, to, next, parks),
         to \in Entities, to.gen = entity.gen, to.status # "applied",
         to.apply \in {0, entity.apply}, to.refused = entity.refused,
         \A r \in next : RowFits(r)
  PROVE  ScanInv'
<1> DEFINE sent == [e EXCEPT !.pc = "sent", !.parks = parks]
<1>1. RunFits(sent)
  <2>1. RunFits(e)
    BY DEF ScanInv, JobsFit
  <2>2. sent \in Runs /\ sent.kind = e.kind /\ sent.art = e.art /\ sent.pc = "sent"
    BY <2>1 DEF RunFits, Runs, Places
  <2> HIDE DEF sent
  <2> QED BY <2>1, <2>2 DEF RunFits, Concluding
<1>2. \A x \in runs' : x \in runs \/ RunFits(x)
  BY <1>1 DEF Commits, Goes
<1>3. \A r \in rows' : r \in rows \/ RowFits(r)
  BY InsertedFit DEF Commits
<1>4. entity' = to /\ UNCHANGED <<serial, catalog, fanned, disk, parked>>
  BY DEF Commits, outside
<1>5. Written(to) => catalog.gen = entity.gen
  BY EntityIs DEF Written
<1> QED BY <1>2, <1>3, <1>4, <1>5, EntityMoves

\* The commits of search_metadata and fetch_metadata.
LEMMA PersistKeeps ==
  ASSUME ScanInv, NEW e \in runs, Persists(e)
  PROVE  ScanInv'
<1> DEFINE fetch == {NewRow("fetch", Artifact(entity, Next_n), FALSE)}
<1> DEFINE apply == {NewRow("apply", Artifact(entity, Next_n), FALSE)}
<1>1. Next_n \in Nat
  BY EntityIs DEF Next_n, Entities
<1>2. ASSUME NEW status \in Statuses \ {"applied"}
      PROVE  /\ Searched(status) \in Entities /\ Searched(status).gen = entity.gen
             /\ Searched(status).status # "applied" /\ Searched(status).apply = 0
             /\ Searched(status).refused = entity.refused
             /\ Fetched(status) \in Entities /\ Fetched(status).gen = entity.gen
             /\ Fetched(status).status # "applied" /\ Fetched(status).apply = entity.apply
             /\ Fetched(status).refused = entity.refused
  BY <1>1, EntityIs DEF Searched, Fetched, Entities
<1>3. {"matched", "needs_review", "fetched", "metadata_missing", "metadata_error"}
        \subseteq Statuses \ {"applied"}
  BY DEF Statuses, InFlight
<1>4. ASSUME Current(e), e.kind \in {"search", "fetch"}
      PROVE  (\A r \in fetch : RowFits(r)) /\ (\A r \in apply : RowFits(r))
  BY <1>4, HandedOn
<1>5. CASE Current(e) /\ e.kind \in {"search", "fetch"} /\ PersistSearch(e)
  <2>1. Commits(e, Searched("matched"), fetch, FALSE)
    BY <1>5 DEF PersistSearch
  <2> HIDE DEF fetch
  <2> QED BY <2>1, <1>2, <1>3, <1>4, <1>5, CommitsFit
<1>6. CASE SearchUnmatched(e)
  <2> DEFINE none == {}
  <2>1. Commits(e, Searched("needs_review"), none, TRUE)
    BY <1>6 DEF SearchUnmatched
  <2>2. \A r \in none : RowFits(r)
    OBVIOUS
  <2> HIDE DEF none
  <2> QED BY <2>1, <2>2, <1>2, <1>3, CommitsFit
<1>7. CASE Current(e) /\ e.kind \in {"search", "fetch"} /\ PersistFetch(e)
  <2>1. Commits(e, Fetched("fetched"), apply, FALSE)
    BY <1>7 DEF PersistFetch
  <2> HIDE DEF apply
  <2> QED BY <2>1, <1>2, <1>3, <1>4, <1>7, CommitsFit
<1>8. CASE FetchFindsNothing(e)
  <2> DEFINE none == {}
  <2>1. PICK status \in {"metadata_missing", "metadata_error"} :
          Commits(e, Fetched(status), none, FALSE)
    BY <1>8 DEF FetchFindsNothing
  <2>2. \A r \in none : RowFits(r)
    OBVIOUS
  <2> HIDE DEF none
  <2> QED BY <2>1, <2>2, <1>2, <1>3, CommitsFit
<1> QED BY <1>5, <1>6, <1>7, <1>8, EndsFit, ReanalysesFit DEF Persists

\* apply_metadata: the run that resumes has a checkpoint to resume from.
LEMMA ApplyBegins ==
  ASSUME ScanInv, NEW e \in runs, BeginApply(e)
  PROVE  ScanInv'
<1> DEFINE resumed == [e EXCEPT !.pc = "resume", !.n = entity.apply, !.parks = entity.refused]
<1> DEFINE applying == [entity EXCEPT !.status = "applying"]
<1>1. RunFits(e)
  BY DEF ScanInv, JobsFit
<1>2. CASE e.kind = "apply" /\ entity.apply # 0 /\ Moves(e, entity, resumed)
  <2>1. RunFits(resumed)
    <3>1. entity.apply \in Nat /\ entity.refused \in BOOLEAN
      BY EntityIs DEF Entities
    <3>2. resumed \in Runs /\ resumed.kind = e.kind /\ resumed.art = e.art
          /\ resumed.pc = "resume" /\ resumed.n = entity.apply /\ resumed.parks = entity.refused
      BY <1>1, <3>1 DEF RunFits, Runs, Places
    <3> HIDE DEF resumed
    <3>3. ~resumed.parks => Backed(resumed.art)
      BY <1>2, <3>2, EntityIs DEF Written, Backed
    <3> QED BY <1>1, <1>2, <3>1, <3>2, <3>3 DEF RunFits, Concluding
  <2> HIDE DEF resumed
  <2> QED BY <1>2, <2>1, EntityIs, MovesFit
<1>3. CASE Moves(e, applying, To(e, "write"))
  <2>1. RunFits(To(e, "write"))
    BY SameRun DEF Places, Concluding
  <2>2. applying \in Entities /\ applying.gen = entity.gen /\ applying.status = "applying"
        /\ applying.apply = entity.apply /\ applying.refused = entity.refused
    BY EntityIs DEF Entities, Statuses, InFlight
  <2> HIDE DEF applying
  <2> QED BY <1>3, <2>1, <2>2, EntityIs, MovesFit DEF Written
<1> QED BY <1>2, <1>3, EndsFit, ReanalysesFit DEF BeginApply

\* The catalog takes a generation the entity is in: every later job of that
\* generation finds it there.
LEMMA CatalogWritten ==
  ASSUME ScanInv, NEW e \in runs, WriteCatalog(e)
  PROVE  ScanInv'
<1>1. RunFits(e) /\ e.kind = "apply" /\ e.art \in Artifacts
  BY DEF ScanInv, JobsFit, RunFits, Runs, WriteCatalog
<1>2. CASE Guarded(e) /\ ~Reanalyses(e)
  <2>1. e.art.gen = entity.gen /\ e.art.gen \in 1..serial /\ e.art.src \in Sources
    BY <1>1, <1>2 DEF Guarded, Current, RunFits, Drawn, Artifacts
  <2>2. /\ catalog' = [catalog EXCEPT !.gen = e.art.gen, !.src = e.art.src]
        /\ UNCHANGED <<disk, entity, serial, rows, parked, fanned>>
        /\ runs' = (runs \ {e}) \cup {To(e, "checkpoint")}
    BY <1>2 DEF WriteCatalog, Goes, outside
  <2>3. catalog' \in [gen : Nat, src : Sources, rich : Nat] /\ catalog'.gen = entity.gen
    <3>1. catalog \in [gen : Nat, src : Sources, rich : Nat] /\ e.art.gen \in Nat
      BY <1>1 DEF ScanInv, WorldFits, CatalogFits, Artifacts
    <3>2. catalog' = [gen |-> e.art.gen, src |-> e.art.src, rich |-> catalog.rich]
      BY <2>2, <3>1
    <3> QED BY <2>1, <3>1, <3>2
  <2>4. WorldFits'
    BY <2>2, <2>3 DEF ScanInv, WorldFits, CatalogFits, AppliedFannedOut, Entities, Written
  <2>5. Advances
    BY <2>2, <2>3 DEF ScanInv, WorldFits, Advances
  <2>6. ASSUME NEW x \in runs', x \notin runs PROVE RunFits(x)'
    <3>1. x = To(e, "checkpoint")
      BY <2>2, <2>6
    <3>2. x \in Runs /\ x.kind = "apply" /\ x.art = e.art /\ x.pc = "checkpoint"
      BY <1>1, <3>1 DEF RunFits, Runs, To, Places
    <3>3. Drawn(x.kind, x.art)'
      BY <1>1, <2>2, <3>2 DEF RunFits, Drawn
    <3>4. Backed(x.art)'
      BY <2>2, <2>3 DEF Backed
    <3> QED BY <3>2, <3>3, <3>4 DEF RunFits, Concluding
  <2>7. ASSUME NEW x \in runs' PROVE RunFits(x)'
    BY <2>5, <2>6, RunKept DEF ScanInv, JobsFit
  <2>8. ASSUME NEW r \in rows' PROVE RowFits(r)'
    BY <2>2, <2>5, RowKept DEF ScanInv, JobsFit
  <2>9. ASSUME NEW c \in parked' PROVE ParkedFits(c)'
    BY <2>2, <2>5, ContinuationKept DEF ScanInv, JobsFit
  <2> QED BY <2>4, <2>7, <2>8, <2>9 DEF ScanInv, JobsFit
<1> QED BY <1>2, ReanalysesFit DEF WriteCatalog

\* A skipped item leaves the catalog as it is.
LEMMA ItemSkipped ==
  ASSUME ScanInv, NEW e \in runs, SkipsItem(e)
  PROVE  ScanInv'
<1> DEFINE next == [e EXCEPT !.pc = "checkpoint", !.parks = TRUE]
<1>1. RunFits(e) /\ e.kind = "apply"
  BY DEF ScanInv, JobsFit, SkipsItem
<1>2. next \in Runs /\ next.kind = e.kind /\ next.art = e.art
      /\ next.pc = "checkpoint" /\ next.parks
  BY <1>1 DEF RunFits, Runs, Places
<1>3. runs' = (runs \ {e}) \cup {next}
      /\ UNCHANGED <<entity, serial, catalog, fanned, disk, rows, parked>>
  BY DEF SkipsItem, Goes, outside
<1> HIDE DEF next
<1>4. RunFits(next)
  BY <1>1, <1>2 DEF RunFits
<1> QED BY <1>3, <1>4, Still, DiskFits

\* The checkpoint is made by a run that has seen the catalog written, or has
\* skipped its item and says so.
LEMMA CheckpointMade ==
  ASSUME ScanInv, NEW e \in runs, Checkpoint(e)
  PROVE  ScanInv'
<1> DEFINE next == [e EXCEPT !.pc = "fanout", !.n = Next_n]
<1> DEFINE pending == Pending(e, Next_n)
<1>1. RunFits(e) /\ e.pc = "checkpoint" /\ e.parks \in BOOLEAN
  BY DEF ScanInv, JobsFit, Checkpoint, RunFits, Runs
<1>2. Next_n \in Nat /\ Next_n > 0
  BY EntityIs DEF Next_n, Entities
<1>3. CASE Current(e) /\ Moves(e, pending, next)
  <2>1. RunFits(next)
    <3>1. next \in Runs /\ next.kind = e.kind /\ next.art = e.art /\ next.pc = "fanout"
          /\ next.n = Next_n /\ next.parks = e.parks
      BY <1>1, <1>2 DEF RunFits, Runs, Places
    <3> HIDE DEF next
    <3> QED BY <1>1, <1>2, <3>1 DEF RunFits, Concluding
  <2>2. pending \in Entities /\ pending.gen = entity.gen /\ pending.status = "applying"
        /\ pending.refused = e.parks
    <3>1. entity \in Entities /\ "applying" \in Statuses
      BY EntityIs DEF Statuses, InFlight
    <3> QED BY <1>1, <1>2, <3>1 DEF Entities, Pending
  <2>3. ~e.parks => catalog.gen = entity.gen
    BY <1>1, <1>3 DEF RunFits, Concluding, Backed, Current
  <2> HIDE DEF pending, next
  <2> QED BY <1>3, <2>1, <2>2, <2>3, MovesFit DEF Written
<1> QED BY <1>3, EndsFit, ReanalysesFit DEF Checkpoint

\* The applied entity and its jobs come in one step; a skipped one has none.
LEMMA FansOut ==
  ASSUME ScanInv, NEW e \in runs, Fanout(e)
  PROVE  ScanInv'
<1>1. RunFits(e) /\ e.kind = "apply" /\ e.art \in Artifacts /\ e.n > 0 /\ e.pc \in Concluding
  BY DEF ScanInv, JobsFit, RunFits, Runs, Fanout, Concluding
<1> DEFINE sent == [e EXCEPT !.pc = "sent", !.parks = FALSE]
<1>2. RunFits(sent)
  <2>1. sent \in Runs /\ sent.kind = e.kind /\ sent.art = e.art /\ sent.pc = "sent"
    BY <1>1 DEF RunFits, Runs, Places
  <2> HIDE DEF sent
  <2> QED BY <1>1, <2>1 DEF RunFits, Concluding
<1>3. Finalizable(e) => runs' = (runs \ {e}) \cup {sent}
                        /\ UNCHANGED <<disk, serial, parked, catalog>>
  BY DEF Fanout, Goes, outside
<1> HIDE DEF sent
<1>4. CASE Finalizable(e) /\ ~e.parks
  <2>1. PICK new \in RichRows(e) :
           /\ entity' = [entity EXCEPT !.status = "applied"]
           /\ rows' = Inserted(rows, new)
           /\ fanned' = fanned \cup {e.art.gen}
    BY <1>4 DEF Fanout, InsertsFanout
  <2>2. entity' \in Entities /\ entity'.gen = entity.gen /\ entity'.apply = entity.apply
        /\ entity'.refused = entity.refused
    BY <2>1, EntityIs DEF Entities, Statuses
  <2>3. entity.gen = e.art.gen /\ catalog.gen = entity.gen
    BY <1>1, <1>4, EntityIs DEF Finalizable, Current, Entities, RunFits, Backed
  <2>4. WorldFits'
    BY <1>3, <1>4, <2>1, <2>2, <2>3 DEF ScanInv, WorldFits, CatalogFits, AppliedFannedOut
  <2>5. Advances
    BY <1>3, <1>4, <2>1, <2>2 DEF ScanInv, WorldFits, Advances
  <2>6. \A r \in new : RowFits(r)
    <3> DEFINE rich == NewRow("rich", e.art, FALSE)
    <3>1. rich \in Rows /\ rich.kind = "rich" /\ rich.art = e.art
      BY <1>1 DEF Rows, NewRow, Kinds
    <3>2. Drawn("rich", e.art) /\ Backed(e.art)
      BY <1>1, <2>3 DEF RunFits, Drawn, Backed
    <3>3. new = {} \/ new = {rich}
      BY DEF RichRows
    <3> HIDE DEF rich
    <3> QED BY <3>1, <3>2, <3>3 DEF RowFits
  <2>7. \A r \in rows' : r \in rows \/ RowFits(r)
    BY <2>1, <2>6 DEF Inserted
  <2>8. \A x \in runs' : x \in runs \/ RunFits(x)
    BY <1>2, <1>3, <1>4
  <2> QED BY <1>3, <1>4, <2>4, <2>5, <2>7, <2>8, JobsKept DEF ScanInv
<1>5. CASE Finalizable(e) /\ e.parks
  <2>1. entity' = [entity EXCEPT !.status = "skipped"] /\ UNCHANGED <<rows, fanned>>
    BY <1>5 DEF Fanout, EndsSkipped
  <2>2. entity' \in Entities /\ entity'.gen = entity.gen /\ entity'.apply = entity.apply
        /\ entity'.refused = entity.refused /\ entity'.status # "applied"
    BY <2>1, EntityIs DEF Entities, Statuses
  <2>3. \A x \in runs' : x \in runs \/ RunFits(x)
    BY <1>2, <1>3, <1>5
  <2> QED BY <1>3, <1>5, <2>1, <2>2, <2>3, EntityIs, EntityMoves DEF Written
<1>6. CASE ~Finalizable(e)
  BY <1>6, Still, QueueFit, DiskFits DEF Fanout, outside
<1> QED BY <1>4, <1>5, <1>6

\* apply_rich_metadata changes nothing the other jobs rely on.
LEMMA RichStored ==
  ASSUME ScanInv, NEW e \in runs, StoreRich(e)
  PROVE  ScanInv'
<1>1. RunFits(e) /\ e.kind = "rich" /\ e.art \in Artifacts
  BY DEF ScanInv, JobsFit, RunFits, Runs, StoreRich
<1>2. CASE catalog' = [catalog EXCEPT !.rich = e.art.gen] /\ StoreRich(e) /\ Current(e) /\ Valid(e)
  <2>1. catalog' \in [gen : Nat, src : Sources, rich : Nat] /\ catalog'.gen = catalog.gen
    BY <1>1, <1>2 DEF ScanInv, WorldFits, CatalogFits, Artifacts
  <2>2. /\ UNCHANGED <<disk, entity, serial, rows, parked, fanned>>
        /\ runs' = (runs \ {e}) \cup {To(e, "sent")}
    BY <1>2 DEF StoreRich, Goes, outside
  <2>3. WorldFits'
    BY <2>1, <2>2 DEF ScanInv, WorldFits, CatalogFits, AppliedFannedOut
  <2>4. Advances
    BY <2>1, <2>2 DEF ScanInv, WorldFits, Advances
  <2>5. \A x \in runs' : x \in runs \/ RunFits(x)
    BY <2>2, SameRun DEF Places, Concluding
  <2> QED BY <2>2, <2>3, <2>4, <2>5, JobsKept DEF ScanInv
<1> QED BY <1>2, EndsFit, ReanalysesFit DEF StoreRich

\* The terminal step of a run that committed.
LEMMA RunFinishes ==
  ASSUME ScanInv, NEW e \in runs, Finishes(e)
  PROVE  ScanInv'
BY Still, QueueFit, DiskFits DEF Finishes, outside, Unpark

\* A failure marks the entity with a status that is not the applied one.
LEMMA RunFails ==
  ASSUME ScanInv, NEW e \in runs, Fails(e)
  PROVE  ScanInv'
<1>1. /\ rows' = Failed(e) /\ runs' = runs \ {e} /\ parked' = Unpark(e)
      /\ UNCHANGED <<disk, serial, catalog, fanned>>
  BY DEF Fails, outside
<1>2. \A r \in rows' : r \in rows
  BY <1>1, QueueFit
<1>3. \A c \in parked' : c \in parked
  BY <1>1 DEF Unpark
<1>4. CASE UNCHANGED entity
  BY <1>1, <1>2, <1>3, <1>4, Still, DiskFits
<1>5. CASE Marks(e) /\ entity' = Marked(e, FailedStatus[e.kind])
  <2>1. FailedStatus[e.kind] \in Statuses \ {"applied"}
    BY <1>5 DEF Marks, FailedStatus, Statuses, InFlight
  <2>2. /\ entity' \in Entities /\ entity'.gen = entity.gen /\ entity'.apply = entity.apply
        /\ entity'.refused = entity.refused
        /\ entity'.status = "applied" => entity.status = "applied"
    BY <1>5, <2>1, MarkedFits
  <2>3. entity'.status = "applied" => entity'.gen \in fanned
    BY <2>2 DEF ScanInv, WorldFits, AppliedFannedOut
  <2> QED BY <1>1, <1>2, <1>3, <2>2, <2>3, EntityIs, EntityMoves DEF Written
<1> QED BY <1>4, <1>5 DEF Fails

\* A parked search or fetch names what its run named.
LEMMA RunParks ==
  ASSUME ScanInv, NEW e \in runs, Parks(e)
  PROVE  ScanInv'
<1> DEFINE c == [kind |-> e.kind, art |-> e.art]
<1>1. ParkedFits(c)
  <2>1. RunFits(e) /\ e.kind \in {"search", "fetch"} /\ e.art \in Artifacts
    BY DEF ScanInv, JobsFit, RunFits, Runs, Parks
  <2>2. c \in Continuations /\ c.kind = e.kind /\ c.art = e.art
    BY <2>1 DEF Continuations
  <2> HIDE DEF c
  <2> QED BY <2>1, <2>2 DEF ParkedFits, RunFits
<1> HIDE DEF c
<1>2. parked' = parked \cup {c}
  BY DEF Parks, c
<1>3. rows' = Completed(e) /\ runs' = runs \ {e} /\ UNCHANGED <<disk, entity, serial, catalog, fanned>>
  BY DEF Parks, outside
<1> QED BY <1>1, <1>2, <1>3, Still, QueueFit, DiskFits

\* A run of a job is a run of what the job names; none begins past its start.
LEMMA RunStarts ==
  ASSUME ScanInv, NEW kind \in Kinds, Start(kind)
  PROVE  ScanInv'
<1>1. PICK r \in rows :
        /\ r.kind = kind
        /\ rows' = (rows \ {r}) \cup {[r EXCEPT !.tried = @ + 1]}
        /\ runs' = runs \cup {[kind |-> kind, art |-> r.art, poll |-> r.poll, pc |-> First[kind],
                               src |-> NoSource, n |-> 0, parks |-> FALSE]}
        /\ UNCHANGED <<outside, file, entity, serial, parked, catalog, fanned, stopped, left>>
  BY DEF Start
<1> DEFINE run == [kind |-> kind, art |-> r.art, poll |-> r.poll, pc |-> First[kind],
                   src |-> NoSource, n |-> 0, parks |-> FALSE]
<1> DEFINE row == [r EXCEPT !.tried = @ + 1]
<1>2. RowFits(r)
  BY DEF ScanInv, JobsFit
<1>3. RowFits(row)
  BY <1>2 DEF RowFits, Rows
<1>4. RunFits(run)
  <2>1. First[kind] \in Places \ Concluding /\ NoSource \in Sources
    BY DEF First, Places, Kinds, NoSource, Sources, Concluding
  <2>2. run \in Runs /\ run.kind = r.kind /\ run.art = r.art
        /\ run.pc \notin Concluding
    BY <1>1, <1>2, <2>1 DEF RowFits, Rows, Runs
  <2> HIDE DEF run
  <2> QED BY <1>2, <2>2 DEF RowFits, RunFits, Concluding
<1>5. rows' = (rows \ {r}) \cup {row} /\ runs' = runs \cup {run}
      /\ UNCHANGED <<disk, entity, serial, parked, catalog, fanned>>
  BY <1>1 DEF outside
<1> HIDE DEF row, run
<1> QED BY <1>3, <1>4, <1>5, Still, DiskFits

-----------------------------------------------------------------------------
(***************************************************************************)
(* The world around the stages.                                            *)
(***************************************************************************)
\* The sources change, the user decides, the worker crashes.
LEMMA EnvironmentKeeps ==
  ASSUME ScanInv, Environment
  PROVE  ScanInv'
<1>1. CASE ChangesMedia
  <2>1. disk' \in Sources
    BY <1>1, DiskFits DEF ChangesMedia, Sources
  <2> QED BY <1>1, <2>1, Still DEF ChangesMedia
<1>2. CASE ChangesSidecar
  <2>1. disk' \in Sources
    BY <1>2, DiskFits DEF ChangesSidecar, Sources
  <2> QED BY <1>2, <2>1, Still DEF ChangesSidecar
<1>3. CASE Decides
  <2>1. serial \in Nat /\ entity.id \in Nat
    BY DEF ScanInv, WorldFits, Entities
  <2>2. entity' = [id |-> entity.id, gen |-> serial + 1, status |-> "discovered", src |-> NoSource,
                   made |-> 0, analysis |-> 0, search |-> 0, metadata |-> 0, apply |-> 0,
                   refused |-> FALSE]
    BY <1>3 DEF Decides, NoEntity
  <2>3. "discovered" \in Statuses /\ NoSource \in Sources
    BY DEF Statuses, InFlight, NoSource, Sources
  <2>4. entity' \in Entities /\ entity'.gen = serial + 1
        /\ entity'.status = "discovered" /\ entity'.apply = 0
    BY <2>1, <2>2, <2>3 DEF Entities
  <2>5. ASSUME NEW r \in rows', r \notin rows PROVE RowFits(r)'
    <3>1. r = ProcessRow
      BY <1>3, <2>5 DEF Decides, Inserted
    <3>2. RowFits(r) /\ r.kind = "process"
      BY <3>1, ProcessFits DEF ProcessRow, NewRow
    <3> QED BY <3>2 DEF RowFits, Drawn
  <2>6. \A r \in rows' : r \in rows \/ RowFits(r)'
    BY <2>5
  <2>7. UNCHANGED <<catalog, fanned, disk, parked, runs>> /\ serial' = serial + 1
    BY <1>3 DEF Decides
  <2> QED BY <2>4, <2>6, <2>7, NewGeneration
<1>4. CASE Crash
  BY <1>4, Still, QueueFit, DiskFits DEF Crash
<1>5. CASE CancelStarts
  BY <1>5, Still, DiskFits DEF CancelStarts, CancelStep
<1> QED BY <1>1, <1>2, <1>3, <1>4, <1>5 DEF Environment

\* What the kickoff asks for is a process_scan, which names no artifact.
LEMMA KickoffKeeps ==
  ASSUME ScanInv, Kickoff
  PROVE  ScanInv'
<1> DEFINE new == {ProcessRow}
<1>1. \A r \in new : RowFits(r)
  BY ProcessFits
<1>2. rows' = Inserted(rows, new) /\ UNCHANGED <<disk, entity, serial, runs, parked, catalog, fanned>>
  BY DEF Kickoff
<1> HIDE DEF new
<1> QED BY <1>1, <1>2, InsertedFit, Still, DiskFits

\* So does the row its promotion inserts.
LEMMA PromotionKeeps ==
  ASSUME ScanInv, Promotes
  PROVE  ScanInv'
<1>1. PICK c \in parked :
        /\ rows' = Inserted(rows, {NewRow(c.kind, c.art, TRUE)})
        /\ UNCHANGED <<outside, file, entity, serial, runs, parked, catalog, fanned, stopped, left>>
  BY DEF Promotes
<1> DEFINE row == NewRow(c.kind, c.art, TRUE)
<1>2. RowFits(row)
  <2>1. ParkedFits(c)
    BY DEF ScanInv, JobsFit
  <2>2. row \in Rows /\ row.kind = c.kind /\ row.art = c.art /\ c.kind # "rich"
    BY <2>1 DEF ParkedFits, Continuations, Rows, NewRow, Kinds
  <2> HIDE DEF row
  <2> QED BY <2>1, <2>2 DEF RowFits, ParkedFits
<1>3. rows' = Inserted(rows, {row})
  BY <1>1
<1> HIDE DEF row
<1>4. \A r \in rows' : r \in rows \/ RowFits(r)
  BY <1>2, <1>3 DEF Inserted
<1> QED BY <1>1, <1>4, Still, DiskFits DEF outside

\* An entity that is deleted leaves the generations that were drawn behind.
LEMMA Dropped ==
  ASSUME ScanInv, entity' \in {NoEntity, entity}, UNCHANGED <<disk, serial, catalog, fanned, runs, parked>>,
         \A r \in rows' : r \in rows
  PROVE  ScanInv'
<1>1. CASE UNCHANGED entity
  BY <1>1, Still, DiskFits
<1>2. CASE entity' = NoEntity
  <2>1. NoEntity \in Entities /\ NoEntity.gen = 0 /\ NoEntity.apply = 0 /\ NoEntity.status = "none"
    BY DEF NoEntity, NoSource, Sources, Entities, Statuses
  <2>2. entity' \in Entities /\ entity'.gen = 0 /\ entity'.apply = 0 /\ entity'.status = "none"
    BY <1>2, <2>1
  <2>3. WorldFits'
    BY <2>2 DEF ScanInv, WorldFits, CatalogFits, AppliedFannedOut, Written
  <2>4. Advances
    BY <2>2 DEF ScanInv, WorldFits, Advances
  <2> QED BY <2>3, <2>4, JobsKept DEF ScanInv
<1> QED BY <1>1, <1>2

\* The orphan pruner requeues, then deletes.
LEMMA PrunerKeeps ==
  ASSUME ScanInv, Prunes
  PROVE  ScanInv'
<1>1. CASE PrunerRequeues
  <2> DEFINE new == {ProcessRow}
  <2>1. \A r \in new : RowFits(r)
    BY ProcessFits
  <2>2. rows' \in {rows, Inserted(rows, new)}
        /\ UNCHANGED <<disk, entity, serial, runs, parked, catalog, fanned>>
    BY <1>1 DEF PrunerRequeues
  <2> HIDE DEF new
  <2> QED BY <2>1, <2>2, InsertedFit, Still, DiskFits
<1>2. CASE PrunerCleans
  BY <1>2, Dropped DEF PrunerCleans
<1> QED BY <1>1, <1>2 DEF Prunes

\* A cancel takes rows and continuations away, signals rows, deletes the entity.
LEMMA CancelKeeps ==
  ASSUME ScanInv, Cancels
  PROVE  ScanInv'
<1>1. CASE CancelsParked
  BY <1>1, Still, DiskFits DEF CancelsParked, CancelStep
<1>2. CASE CancelsPending
  BY <1>2, Still, DiskFits DEF CancelsPending, CancelStep
<1>3. CASE SignalsRunning
  <2>1. ASSUME NEW r \in rows PROVE RowFits([r EXCEPT !.stop = TRUE])
    BY DEF ScanInv, JobsFit, RowFits, Rows
  <2>2. \A r \in rows' : r \in rows \/ RowFits(r)
    BY <1>3, <2>1 DEF SignalsRunning
  <2> QED BY <1>3, <2>2, Still, DiskFits DEF SignalsRunning, CancelStep
<1>4. CASE GoesAgain \/ Leaves
  BY <1>4, Still, DiskFits DEF GoesAgain, Leaves, CancelStep
<1>5. CASE SweepsCancelled
  BY <1>5, Dropped DEF SweepsCancelled, CancelStep
<1> QED BY <1>1, <1>2, <1>3, <1>4, <1>5 DEF Cancels

\* River cancels a signalled run.
LEMMA RunAborts ==
  ASSUME ScanInv, NEW e \in runs, Aborts(e)
  PROVE  ScanInv'
BY Still, QueueFit, DiskFits DEF Aborts, outside

-----------------------------------------------------------------------------
(***************************************************************************)
(* The theorems.                                                           *)
(***************************************************************************)
\* It holds of an empty scope.
LEMMA ScanInit == Init => ScanInv
<1> SUFFICES ASSUME Init PROVE ScanInv
  OBVIOUS
<1>1. NoSource \in Sources
  BY DEF NoSource, Sources
<1>2. /\ NoEntity \in Entities /\ NoEntity.gen = 0 /\ NoEntity.apply = 0
      /\ NoEntity.status = "none"
  BY <1>1 DEF NoEntity, Entities, Statuses
<1>3. disk \in Sources /\ entity = NoEntity /\ serial = 0
      /\ catalog = [gen |-> 0, src |-> NoSource, rich |-> 0]
      /\ rows = {} /\ runs = {} /\ parked = {}
  BY DEF Init, Sources
<1> QED BY <1>1, <1>2, <1>3 DEF ScanInv, JobsFit, WorldFits, CatalogFits, AppliedFannedOut, Written

\* Every step keeps the invariant.
LEMMA ScanStep == ScanInv /\ [Next]_vars => ScanInv'
<1> SUFFICES ASSUME ScanInv, [Next]_vars PROVE ScanInv'
  OBVIOUS
<1>1. ASSUME NEW e \in runs, Step(e) PROVE ScanInv'
  BY <1>1, ProcessKeeps, FetchBegins, PersistKeeps, ApplyBegins, CatalogWritten, ItemSkipped,
     CheckpointMade, FansOut, RichStored, RunFinishes DEF Step
<1>2. ASSUME NEW e \in runs, Fails(e) \/ Parks(e) \/ Aborts(e) PROVE ScanInv'
  BY <1>2, RunFails, RunParks, RunAborts
<1>3. CASE UNCHANGED vars
  BY <1>3, Still, DiskFits DEF vars
<1> QED BY <1>1, <1>2, <1>3, EnvironmentKeeps, KickoffKeeps, PromotionKeeps, PrunerKeeps, CancelKeeps,
           RunStarts DEF Next

\* The jobs in the queue, the runs and what is parked name generations that
\* were drawn, and the catalog follows the entity: whatever the bounds.
THEOREM ScanInvariant == Spec => []ScanInv
<1> QED BY ScanInit, ScanStep, PTL DEF Spec

\* An entity is never applied without its post-apply jobs: a crash between two
\* steps, a cancel, a retry or a second apply leaves both or neither
\* (finalizeApplyHandoff, entity_artifact.go).
THEOREM AppliedHasJobs == Spec => []AppliedFannedOut
<1>1. ScanInv => AppliedFannedOut
  BY DEF ScanInv, WorldFits
<1> QED BY <1>1, ScanInvariant, PTL

\* The catalog is written by two steps only, and by them in its generation.
WritesForward ==
  /\ catalog'.gen >= catalog.gen
  /\ catalog'.src # catalog.src => catalog'.src = disk
  /\ catalog'.rich # catalog.rich => catalog'.rich = catalog.gen
\* A step that leaves the catalog writes nothing stale.
LEMMA CatalogUntouched ==
  ASSUME ScanInv, UNCHANGED catalog
  PROVE  WritesForward
BY DEF ScanInv, WorldFits, CatalogFits, WritesForward

\* A run that only ends, or releases the entity, writes nothing.
LEMMA QuietEnds ==
  ASSUME NEW e, Ends(e) \/ Snoozes(e) \/ Reanalyses(e)
  PROVE  catalog' = catalog
BY DEF Ends, Snoozes, Reanalyses

\* Nor does any stage but the two that write.
LEMMA OtherStages ==
  ASSUME NEW e, Step(e), ~WriteCatalog(e), ~StoreRich(e)
  PROVE  catalog' = catalog
<1>1. CASE Walks(e)
  BY <1>1 DEF Walks
<1>2. CASE PersistAnalysis(e)
  BY <1>2 DEF PersistAnalysis
<1>3. CASE AnalysisWaits(e)
  BY <1>3, QuietEnds DEF AnalysisWaits
<1>4. CASE BeginFetch(e)
  BY <1>4, QuietEnds DEF BeginFetch, Moves
<1>5. CASE Persists(e)
  <2>1. PersistSearch(e) => catalog' = catalog
    BY DEF PersistSearch, Commits
  <2>2. SearchUnmatched(e) => catalog' = catalog
    BY DEF SearchUnmatched, Commits
  <2>3. PersistFetch(e) => catalog' = catalog
    BY DEF PersistFetch, Commits
  <2>4. FetchFindsNothing(e) => catalog' = catalog
    BY DEF FetchFindsNothing, Commits
  <2> QED BY <1>5, <2>1, <2>2, <2>3, <2>4, QuietEnds DEF Persists
<1>6. CASE BeginApply(e)
  BY <1>6, QuietEnds DEF BeginApply, Moves
<1>7. CASE Checkpoint(e)
  BY <1>7, QuietEnds DEF Checkpoint, Moves
<1>8. CASE Fanout(e)
  BY <1>8 DEF Fanout
<1>9. CASE Finishes(e)
  BY <1>9 DEF Finishes
<1>10. CASE SkipsItem(e)
  BY <1>10 DEF SkipsItem
<1> QED BY <1>1, <1>2, <1>3, <1>4, <1>5, <1>6, <1>7, <1>8, <1>9, <1>10 DEF Step

\* The two that write, write in the entity's generation and from the sources
\* on disk.
LEMMA StageWrites ==
  ASSUME ScanInv, NEW e \in runs, Step(e)
  PROVE  WritesForward
<1>1. RunFits(e) /\ e.art \in Artifacts /\ catalog \in [gen : Nat, src : Sources, rich : Nat]
  BY DEF ScanInv, WorldFits, CatalogFits, JobsFit, RunFits, Runs
<1>2. CASE WriteCatalog(e) /\ catalog' = [catalog EXCEPT !.gen = e.art.gen, !.src = e.art.src] /\ Guarded(e)
  <2>1. e.kind = "apply" /\ e.art.gen = entity.gen /\ e.art.src = disk /\ e.art.gen \in 1..serial
    BY <1>1, <1>2 DEF WriteCatalog, Guarded, Current, Valid, RunFits, Drawn
  <2>2. catalog'.gen = entity.gen /\ catalog'.src = disk /\ catalog'.rich = catalog.rich
    BY <1>1, <1>2, <2>1
  <2>3. catalog.gen <= entity.gen
    BY <2>1 DEF ScanInv, WorldFits, CatalogFits, Entities, Artifacts
  <2> QED BY <1>1, <2>1, <2>2, <2>3 DEF WritesForward, Artifacts
<1>3. CASE StoreRich(e) /\ catalog' = [catalog EXCEPT !.rich = e.art.gen] /\ Current(e)
  <2>1. e.art.gen = entity.gen /\ catalog.gen = entity.gen
    BY <1>1, <1>3 DEF StoreRich, Current, RunFits, Backed
  <2>2. catalog'.gen = catalog.gen /\ catalog'.src = catalog.src /\ catalog'.rich = catalog.gen
    BY <1>1, <1>3, <2>1
  <2> QED BY <1>1, <2>2 DEF WritesForward
<1>4. CASE ~WriteCatalog(e) /\ ~StoreRich(e)
  <2>1. catalog' = catalog
    BY <1>4, OtherStages
  <2> QED BY <2>1, CatalogUntouched
<1>5. CASE WriteCatalog(e) /\ ~Guarded(e)
  BY <1>5, QuietEnds, CatalogUntouched DEF WriteCatalog
<1>6. CASE StoreRich(e) /\ ~(Current(e) /\ Valid(e))
  BY <1>6, QuietEnds, CatalogUntouched DEF StoreRich
<1>7. WriteCatalog(e) /\ Guarded(e) =>
        catalog' = [catalog EXCEPT !.gen = e.art.gen, !.src = e.art.src]
  BY DEF WriteCatalog
<1>8. StoreRich(e) /\ Current(e) /\ Valid(e) => catalog' = [catalog EXCEPT !.rich = e.art.gen]
  BY DEF StoreRich
<1> QED BY <1>2, <1>3, <1>4, <1>5, <1>6, <1>7, <1>8

\* A run that another scan, a decision or a prune has superseded writes nothing
\* any more, and the rich data lands on the core data of its own generation.
THEOREM StaleRunsWriteNothing == Spec => StaleNeverWrites
<1>1. ScanInv /\ [Next]_vars => [WritesForward]_vars
  <2> SUFFICES ASSUME ScanInv, [Next]_vars PROVE WritesForward
    OBVIOUS
  <2>1. ASSUME NEW e \in runs, Fails(e) \/ Parks(e) \/ Aborts(e) PROVE UNCHANGED catalog
    BY <2>1 DEF Fails, Parks, Aborts
  <2>2. CASE Environment
    BY <2>2, CatalogUntouched
    DEF Environment, ChangesMedia, ChangesSidecar, Decides, Crash, CancelStarts, CancelStep
  <2>3. CASE Kickoff \/ Promotes \/ Prunes
    BY <2>3, CatalogUntouched DEF Kickoff, Promotes, Prunes, PrunerRequeues, PrunerCleans
  <2>4. CASE Cancels
    BY <2>4, CatalogUntouched
    DEF Cancels, CancelsParked, CancelsPending, SignalsRunning, GoesAgain, Leaves, SweepsCancelled, CancelStep
  <2>5. CASE \E kind \in Kinds : Start(kind)
    BY <2>5, CatalogUntouched DEF Start
  <2>6. CASE UNCHANGED vars
    BY <2>6, CatalogUntouched DEF vars
  <2> QED BY <2>1, <2>2, <2>3, <2>4, <2>5, <2>6, StageWrites, CatalogUntouched DEF Next
<1>2. StaleNeverWrites <=> [][WritesForward]_vars
  BY PTL DEF StaleNeverWrites, WritesForward
<1> QED BY <1>1, <1>2, ScanInvariant, PTL DEF Spec

-----------------------------------------------------------------------------
(***************************************************************************)
(* Attempts and executions.  A run belongs to one active row, which has    *)
(* used an attempt; a row that nobody runs has one left.  Both need that   *)
(* no two active rows are of one job (uniqueWhileActive): what ends a run  *)
(* takes away, or gives its attempt back to, every row of the run's job.   *)
(***************************************************************************)
RowsCounted ==
  /\ \A r \in rows : r.tried \in 0..Attempts[r.kind]
  /\ \A r \in rows : ~Running(r) => r.tried < Attempts[r.kind]
RowsUnique == \A r, q \in rows : Job(r) = Job(q) => r = q
RunsOwned ==
  /\ \A e \in runs : \E r \in rows : Job(r) = Job(e) /\ r.tried > 0
  /\ \A e, f \in runs : Job(e) = Job(f) => e = f
QueueFits == RowsCounted /\ RowsUnique /\ RunsOwned
IdentityFits ==
  /\ entity.id <= serial
  /\ cancel \in {"idle", "parked", "pending", "signal", "check", "sweep"}
TypeInv == QueueFits /\ IdentityFits

\* What a step of a run does to the queue: the run leaves, or goes on as the
\* same job; a row may join the others.
Departs(e) == runs' = runs \ {e} /\ rows' \in {Completed(e), Failed(e), Snoozed(e)}
GoesOn(e) == \E x \in runs' : Job(x) = Job(e) /\ runs' = (runs \ {e}) \cup {x}
Enqueues ==
  \/ rows' = rows
  \/ \E r \in rows' : /\ r.kind \in Kinds /\ r.tried = 0
                      /\ rows' = rows \cup {r} /\ \A q \in rows : Job(q) # Job(r)

\* The row a transaction inserts is one more, or its job is active already.
LEMMA OneInserted ==
  ASSUME NEW kind \in Kinds, NEW art, NEW poll, rows' = Inserted(rows, {NewRow(kind, art, poll)})
  PROVE  Enqueues
<1> DEFINE new == NewRow(kind, art, poll)
<1>1. new.kind = kind /\ new.tried = 0
  BY DEF NewRow
<1>2. rows' = rows \cup {r \in {new} : \A q \in rows : Job(q) # Job(r)}
  BY DEF Inserted
<1> HIDE DEF new
<1>3. CASE \A q \in rows : Job(q) # Job(new)
  <2>1. rows' = rows \cup {new}
    BY <1>2, <1>3
  <2> QED BY <1>1, <1>3, <2>1 DEF Enqueues
<1>4. CASE ~\A q \in rows : Job(q) # Job(new)
  <2>1. rows' = rows
    BY <1>2, <1>4
  <2> QED BY <2>1 DEF Enqueues
<1> QED BY <1>3, <1>4

\* Every kind has attempts.
LEMMA AttemptsPositive ==
  ASSUME NEW kind \in Kinds
  PROVE  Attempts[kind] \in Nat /\ Attempts[kind] > 0
BY AttemptsAssumption

\* Rows join while the runs stay the same jobs.
LEMMA JoinKeeps ==
  ASSUME QueueFits, Enqueues, (\E e \in runs : GoesOn(e)) \/ UNCHANGED runs
  PROVE  QueueFits'
<1>1. /\ \A f \in runs' : \E e \in runs : Job(f) = Job(e)
      /\ \A e \in runs : \E f \in runs' : Job(f) = Job(e)
  BY DEF GoesOn
<1>2. \A e, f \in runs' : Job(e) = Job(f) => e = f
  BY DEF QueueFits, RunsOwned, GoesOn
<1>3. \A r : Running(r)' <=> Running(r)
  <2>1. ASSUME NEW r PROVE Running(r)' <=> Running(r)
    <3>1. Running(r)' <=> \E f \in runs' : Job(f) = Job(r)
      BY DEF Running
    <3>2. Running(r) <=> \E e \in runs : Job(e) = Job(r)
      BY DEF Running
    <3> QED BY <1>1, <3>1, <3>2
  <2> QED BY <2>1
<1>4. rows \subseteq rows'
  BY DEF Enqueues
<1>5. ASSUME NEW r \in rows', r \notin rows
      PROVE  /\ r.tried \in 0..Attempts[r.kind] /\ r.tried < Attempts[r.kind]
             /\ \A q \in rows : Job(q) # Job(r)
             /\ \A q \in rows' : q = r \/ q \in rows
  <2>1. r.kind \in Kinds /\ r.tried = 0 /\ rows' = rows \cup {r} /\ \A q \in rows : Job(q) # Job(r)
    BY <1>5 DEF Enqueues
  <2> QED BY <2>1, AttemptsPositive
<1>6. RowsCounted'
  <2>1. ASSUME NEW r \in rows' PROVE r.tried \in 0..Attempts[r.kind]
    BY <1>5, <2>1 DEF QueueFits, RowsCounted
  <2>2. ASSUME NEW r \in rows', ~(Running(r)') PROVE r.tried < Attempts[r.kind]
    BY <1>3, <1>5, <2>2 DEF QueueFits, RowsCounted
  <2> QED BY <2>1, <2>2 DEF RowsCounted
<1>7. RowsUnique'
  <2>1. ASSUME NEW r \in rows', NEW q \in rows', Job(r) = Job(q) PROVE r = q
    BY <1>5, <2>1 DEF QueueFits, RowsUnique
  <2> QED BY <2>1 DEF RowsUnique
<1>8. RunsOwned'
  <2>1. ASSUME NEW f \in runs' PROVE \E r \in rows' : Job(r) = Job(f) /\ r.tried > 0
    BY <1>1, <1>4, <2>1 DEF QueueFits, RunsOwned
  <2> QED BY <1>2, <2>1 DEF RunsOwned
<1> QED BY <1>6, <1>7, <1>8 DEF QueueFits

\* A run leaves, and its row is gone, has an attempt left, or gives one back.
LEMMA DepartureKeeps ==
  ASSUME ScanInv, QueueFits, NEW e \in runs, Departs(e)
  PROVE  QueueFits'
<1>1. PICK own \in rows : Job(own) = Job(e) /\ own.tried > 0
  BY DEF QueueFits, RunsOwned
<1>2. Owned(e) = {own} /\ own \in Rows
  BY <1>1 DEF Owned, QueueFits, RowsUnique, ScanInv, JobsFit, RowFits
<1> DEFINE back == [own EXCEPT !.tried = @ - 1]
<1>3. back.kind = own.kind /\ back.tried = own.tried - 1 /\ Job(back) = Job(own)
  BY <1>2 DEF Rows, Job
<1>4. own.tried \in 0..Attempts[own.kind] /\ Attempts[own.kind] \in Nat
  BY <1>2, AttemptsPositive DEF QueueFits, RowsCounted, Rows
<1>5. rows' \subseteq (rows \ {own}) \cup {back} \cup {r \in {own} : ~Spent(r)}
      /\ rows \ {own} \subseteq rows'
  <2>1. Completed(e) = rows \ {own}
    BY <1>2 DEF Completed
  <2>2. Snoozed(e) = (rows \ {own}) \cup {back}
    BY <1>2 DEF Snoozed
  <2>3. Failed(e) \subseteq (rows \ {own}) \cup {r \in {own} : ~Spent(r)} /\ rows \ {own} \subseteq Failed(e)
    BY <1>2 DEF Failed
  <2> HIDE DEF back
  <2> QED BY <2>1, <2>2, <2>3 DEF Departs
<1>6. \/ own \notin rows'
      \/ back \notin rows' /\ ~Spent(own)
      \/ back = own
  <2>1. Completed(e) = rows \ {own}
    BY <1>2 DEF Completed
  <2>2. Snoozed(e) = (rows \ {own}) \cup {back}
    BY <1>2 DEF Snoozed
  <2>3. Failed(e) \subseteq rows /\ (own \in Failed(e) => ~Spent(own))
    BY <1>2 DEF Failed
  <2>4. back \in rows => back = own
    BY <1>3 DEF QueueFits, RowsUnique
  <2> HIDE DEF back
  <2> QED BY <2>1, <2>2, <2>3, <2>4 DEF Departs
<1> HIDE DEF back
<1>7. back # own
  BY <1>3, <1>4
<1>8. runs' = runs \ {e}
  BY DEF Departs
<1>9. \A r \in rows : r # own => (Running(r)' <=> Running(r))
  <2>1. ASSUME NEW r \in rows, r # own PROVE Running(r)' <=> Running(r)
    <3>1. Running(r)' <=> \E f \in runs' : Job(f) = Job(r)
      BY DEF Running
    <3>2. Running(r) <=> \E f \in runs : Job(f) = Job(r)
      BY DEF Running
    <3>3. Job(e) # Job(r)
      BY <1>1, <2>1 DEF QueueFits, RowsUnique
    <3> QED BY <1>8, <3>1, <3>2, <3>3
  <2> QED BY <2>1
<1>10. RowsCounted'
  <2>1. ASSUME NEW r \in rows'
        PROVE  r.tried \in 0..Attempts[r.kind] /\ (~(Running(r)') => r.tried < Attempts[r.kind])
    <3>1. CASE r \in rows /\ r # own
      BY <1>9, <3>1 DEF QueueFits, RowsCounted
    <3>2. CASE r = back
      BY <1>1, <1>3, <1>4, <3>2
    <3>3. CASE r = own
      <4>1. ~Spent(own)
        BY <1>5, <1>7, <2>1, <3>3
      <4> QED BY <1>4, <3>3, <4>1 DEF Spent
    <3> QED BY <1>5, <2>1, <3>1, <3>2, <3>3
  <2> QED BY <2>1 DEF RowsCounted
<1>11. RowsUnique'
  <2>1. ASSUME NEW r \in rows', NEW q \in rows', Job(r) = Job(q) PROVE r = q
    BY <1>3, <1>5, <1>6, <1>7, <2>1 DEF QueueFits, RowsUnique
  <2> QED BY <2>1 DEF RowsUnique
<1>12. RunsOwned'
  <2>1. ASSUME NEW f \in runs' PROVE \E r \in rows' : Job(r) = Job(f) /\ r.tried > 0
    <3>1. PICK r \in rows : Job(r) = Job(f) /\ r.tried > 0
      BY <1>8, <2>1 DEF QueueFits, RunsOwned
    <3>2. r # own
      BY <1>1, <1>8, <2>1, <3>1 DEF QueueFits, RunsOwned
    <3> QED BY <1>5, <3>1, <3>2
  <2>2. \A f, g \in runs' : Job(f) = Job(g) => f = g
    BY <1>8 DEF QueueFits, RunsOwned
  <2> QED BY <2>1, <2>2 DEF RunsOwned
<1> QED BY <1>10, <1>11, <1>12 DEF QueueFits

\* A run starts: its row was nobody's, and uses one more attempt.
LEMMA StartKeeps ==
  ASSUME ScanInv, QueueFits, NEW kind \in Kinds, Start(kind)
  PROVE  QueueFits'
<1>1. PICK r \in rows :
        /\ r.kind = kind /\ ~Running(r)
        /\ rows' = (rows \ {r}) \cup {[r EXCEPT !.tried = @ + 1]}
        /\ runs' = runs \cup {[kind |-> kind, art |-> r.art, poll |-> r.poll, pc |-> First[kind],
                               src |-> NoSource, n |-> 0, parks |-> FALSE]}
  BY DEF Start
<1> DEFINE row == [r EXCEPT !.tried = @ + 1]
           run == [kind |-> kind, art |-> r.art, poll |-> r.poll, pc |-> First[kind],
                   src |-> NoSource, n |-> 0, parks |-> FALSE]
<1>2. r \in Rows
  BY DEF ScanInv, JobsFit, RowFits
<1>3. row.kind = r.kind /\ row.tried = r.tried + 1 /\ Job(row) = Job(r)
  BY <1>2 DEF Rows, Job
<1>4. Job(run) = Job(r)
  BY <1>1 DEF Job
<1>5. r.tried \in Nat /\ r.tried < Attempts[r.kind] /\ Attempts[r.kind] \in Nat
  BY <1>1, <1>2, AttemptsPositive DEF QueueFits, RowsCounted, Rows
<1>6. rows' = (rows \ {r}) \cup {row} /\ runs' = runs \cup {run}
  BY <1>1
<1> HIDE DEF row, run
<1>7. \A q \in rows : q # r => (~(Running(q)') => ~Running(q))
  BY <1>6 DEF Running
<1>8. \A f \in runs : Job(f) # Job(r)
  BY <1>1 DEF Running
<1>9. RowsCounted'
  <2>1. ASSUME NEW q \in rows'
        PROVE  q.tried \in 0..Attempts[q.kind] /\ (~(Running(q)') => q.tried < Attempts[q.kind])
    <3>1. CASE q \in rows /\ q # r
      BY <1>7, <3>1 DEF QueueFits, RowsCounted
    <3>2. CASE q = row
      <4>1. run \in runs' /\ Job(run) = Job(q)
        BY <1>3, <1>4, <1>6, <3>2
      <4>2. Running(q)'
        BY <4>1 DEF Running
      <4> QED BY <1>3, <1>5, <3>2, <4>2
    <3> QED BY <1>6, <2>1, <3>1, <3>2
  <2> QED BY <2>1 DEF RowsCounted
<1>10. RowsUnique'
  <2>1. ASSUME NEW q \in rows', NEW p \in rows', Job(q) = Job(p) PROVE q = p
    BY <1>3, <1>6, <2>1 DEF QueueFits, RowsUnique
  <2> QED BY <2>1 DEF RowsUnique
<1>11. RunsOwned'
  <2>1. ASSUME NEW f \in runs' PROVE \E q \in rows' : Job(q) = Job(f) /\ q.tried > 0
    <3>1. CASE f = run
      BY <1>3, <1>4, <1>5, <1>6, <3>1
    <3>2. CASE f \in runs
      <4>1. PICK q \in rows : Job(q) = Job(f) /\ q.tried > 0
        BY <3>2 DEF QueueFits, RunsOwned
      <4> QED BY <1>6, <1>8, <3>2, <4>1
    <3> QED BY <1>6, <2>1, <3>1, <3>2
  <2>2. ASSUME NEW f \in runs', NEW g \in runs', Job(f) = Job(g) PROVE f = g
    BY <1>4, <1>6, <1>8, <2>2 DEF QueueFits, RunsOwned
  <2> QED BY <2>1, <2>2 DEF RunsOwned
<1> QED BY <1>9, <1>10, <1>11 DEF QueueFits

\* Rows that nobody runs are taken away.
LEMMA RemovalKeeps ==
  ASSUME QueueFits, UNCHANGED runs, rows' \subseteq rows, \A r \in rows : Running(r) => r \in rows'
  PROVE  QueueFits'
<1>1. RowsCounted' /\ RowsUnique'
  BY DEF QueueFits, RowsCounted, RowsUnique, Running
<1>2. RunsOwned'
  <2>1. ASSUME NEW f \in runs PROVE \E q \in rows' : Job(q) = Job(f) /\ q.tried > 0
    <3>1. PICK q \in rows : Job(q) = Job(f) /\ q.tried > 0
      BY DEF QueueFits, RunsOwned
    <3>2. Running(q)
      BY <3>1 DEF Running
    <3> QED BY <3>1, <3>2
  <2> QED BY <2>1 DEF QueueFits, RunsOwned
<1> QED BY <1>1, <1>2 DEF QueueFits

\* A cancel is requested of rows that run; nothing else of them changes.
LEMMA SignalKeeps ==
  ASSUME ScanInv, QueueFits, SignalsRunning
  PROVE  QueueFits'
<1>1. ASSUME NEW r \in rows
      PROVE  LET s == [r EXCEPT !.stop = TRUE] IN
             Job(s) = Job(r) /\ s.kind = r.kind /\ s.tried = r.tried
  BY DEF ScanInv, JobsFit, RowFits, Rows, Job
<1>2. /\ \A s \in rows' : \E r \in rows :
           /\ Job(s) = Job(r) /\ s.kind = r.kind /\ s.tried = r.tried
           /\ s = IF Running(r) /\ r.kind \in ScanKinds THEN [r EXCEPT !.stop = TRUE] ELSE r
      /\ \A r \in rows : \E s \in rows' : Job(s) = Job(r) /\ s.kind = r.kind /\ s.tried = r.tried
  BY <1>1 DEF SignalsRunning
<1>3. runs' = runs
  BY DEF SignalsRunning
<1>4. RowsCounted'
  <2>1. ASSUME NEW s \in rows'
        PROVE  s.tried \in 0..Attempts[s.kind] /\ (~(Running(s)') => s.tried < Attempts[s.kind])
    <3>1. PICK r \in rows : Job(s) = Job(r) /\ s.kind = r.kind /\ s.tried = r.tried
      BY <1>2
    <3>2. Running(s)' <=> Running(r)
      BY <1>3, <3>1 DEF Running
    <3> QED BY <3>1, <3>2 DEF QueueFits, RowsCounted
  <2> QED BY <2>1 DEF RowsCounted
<1>5. RowsUnique'
  <2>1. ASSUME NEW s \in rows', NEW q \in rows', Job(s) = Job(q) PROVE s = q
    <3>1. PICK r \in rows :
            /\ Job(s) = Job(r)
            /\ s = IF Running(r) /\ r.kind \in ScanKinds THEN [r EXCEPT !.stop = TRUE] ELSE r
      BY <1>2
    <3>2. PICK p \in rows :
            /\ Job(q) = Job(p)
            /\ q = IF Running(p) /\ p.kind \in ScanKinds THEN [p EXCEPT !.stop = TRUE] ELSE p
      BY <1>2
    <3>3. r = p
      BY <2>1, <3>1, <3>2 DEF QueueFits, RowsUnique
    <3> QED BY <3>1, <3>2, <3>3
  <2> QED BY <2>1 DEF RowsUnique
<1>6. RunsOwned'
  <2>1. ASSUME NEW f \in runs PROVE \E s \in rows' : Job(s) = Job(f) /\ s.tried > 0
    <3>1. PICK r \in rows : Job(r) = Job(f) /\ r.tried > 0
      BY DEF QueueFits, RunsOwned
    <3> QED BY <1>2, <3>1
  <2> QED BY <1>3, <2>1 DEF QueueFits, RunsOwned
<1> QED BY <1>4, <1>5, <1>6 DEF QueueFits

\* After a crash a row that ran is discarded, or is rescued with an attempt left.
LEMMA CrashKeeps ==
  ASSUME ScanInv, QueueFits, Crash
  PROVE  QueueFits'
<1>1. runs' = {} /\ rows' = {r \in rows : ~(Running(r) /\ Spent(r))}
  BY DEF Crash, Rescued
<1>2. ASSUME NEW r \in rows' PROVE r.tried \in 0..Attempts[r.kind] /\ r.tried < Attempts[r.kind]
  <2>1. r \in rows /\ r.kind \in Kinds
    BY <1>1, <1>2 DEF ScanInv, JobsFit, RowFits, Rows
  <2>2. r.tried \in 0..Attempts[r.kind] /\ Attempts[r.kind] \in Nat
    BY <2>1, AttemptsPositive DEF QueueFits, RowsCounted
  <2>3. CASE Running(r)
    BY <1>1, <1>2, <2>2, <2>3 DEF Spent
  <2>4. CASE ~Running(r)
    BY <2>1, <2>2, <2>4 DEF QueueFits, RowsCounted
  <2> QED BY <2>3, <2>4
<1> QED BY <1>1, <1>2 DEF QueueFits, RowsCounted, RowsUnique, RunsOwned

\* Wherever it has got to, it is the same run.
LEMMA SameJob ==
  ASSUME ScanInv, NEW e \in runs, NEW pc
  PROVE  Job(To(e, pc)) = Job(e)
BY DEF ScanInv, JobsFit, RunFits, Runs, To, Job

\* A run that becomes one of the same job goes on.
LEMMA Continues ==
  ASSUME NEW e, NEW x, Job(x) = Job(e), Goes(e, x)
  PROVE  GoesOn(e)
BY DEF Goes, GoesOn

\* How each stage leaves the queue: its run departs, or goes on while a row
\* may join.
LEMMA StageQueues ==
  ASSUME ScanInv, NEW e \in runs, Step(e)
  PROVE  Departs(e) \/ (GoesOn(e) /\ Enqueues)
<1>0. e \in Runs
  BY DEF ScanInv, JobsFit, RunFits
<1>1. Ends(e) \/ Snoozes(e) => Departs(e)
  BY DEF Ends, Snoozes, Departs
<1>2. ASSUME Reanalyses(e) PROVE GoesOn(e) /\ Enqueues
  <2>1. GoesOn(e)
    BY <1>2, SameJob, Continues DEF Reanalyses
  <2>2. CASE Current(e)
    <3>1. rows' = Inserted(rows, {NewRow("process", NoArtifact, FALSE)})
      BY <1>2, <2>2 DEF Reanalyses, Reanalysis, ProcessRow
    <3> QED BY <2>1, <3>1, OneInserted DEF Kinds
  <2>3. CASE ~Current(e)
    <3>1. rows' = rows
      BY <1>2, <2>3 DEF Reanalyses, Reanalysis, Inserted
    <3> QED BY <2>1, <3>1 DEF Enqueues
  <2> QED BY <2>2, <2>3
<1>3. ASSUME NEW ent, NEW x, Job(x) = Job(e), Moves(e, ent, x) PROVE GoesOn(e) /\ Enqueues
  BY <1>3, Continues DEF Moves, Enqueues
<1>4. CASE Walks(e)
  <2>1. Goes(e, [e EXCEPT !.pc = "persist", !.src = disk]) /\ rows' = rows
    BY <1>4 DEF Walks
  <2>2. Job([e EXCEPT !.pc = "persist", !.src = disk]) = Job(e)
    BY <1>0 DEF Runs, Job
  <2> QED BY <2>1, <2>2, Continues DEF Enqueues
<1>5. CASE PersistAnalysis(e)
  <2>1. Goes(e, To(e, "sent")) /\ rows' = Inserted(rows, {NewRow("search", Artifact(entity', 1), FALSE)})
    BY <1>5 DEF PersistAnalysis
  <2>2. Enqueues
    BY <2>1, OneInserted DEF Kinds
  <2> QED BY <2>1, <2>2, SameJob, Continues
<1>6. CASE AnalysisWaits(e)
  BY <1>1, <1>6 DEF AnalysisWaits
<1>7. CASE BeginFetch(e)
  <2>1. Job(To(e, "persist")) = Job(e)
    BY SameJob
  <2> QED BY <1>1, <1>2, <1>3, <1>7, <2>1 DEF BeginFetch
<1>8. CASE Persists(e)
  <2>0. ASSUME NEW parks, Goes(e, [e EXCEPT !.pc = "sent", !.parks = parks]) PROVE GoesOn(e)
    <3>1. Job([e EXCEPT !.pc = "sent", !.parks = parks]) = Job(e)
      BY <1>0 DEF Runs, Job
    <3> QED BY <2>0, <3>1, Continues
  <2>1. ASSUME NEW ent, NEW kind \in Kinds, NEW art, NEW parks,
               Commits(e, ent, {NewRow(kind, art, FALSE)}, parks)
        PROVE  GoesOn(e) /\ Enqueues
    <3>1. Goes(e, [e EXCEPT !.pc = "sent", !.parks = parks])
          /\ rows' = Inserted(rows, {NewRow(kind, art, FALSE)})
      BY <2>1 DEF Commits
    <3>2. Enqueues
      BY <3>1, OneInserted
    <3> QED BY <2>0, <3>1, <3>2
  <2>2. ASSUME NEW ent, NEW parks, Commits(e, ent, {}, parks) PROVE GoesOn(e) /\ Enqueues
    <3>1. Goes(e, [e EXCEPT !.pc = "sent", !.parks = parks]) /\ rows' = Inserted(rows, {})
      BY <2>2 DEF Commits
    <3> QED BY <2>0, <3>1 DEF Inserted, Enqueues
  <2>3. PersistSearch(e) => GoesOn(e) /\ Enqueues
    BY <2>1 DEF PersistSearch, Kinds
  <2>4. PersistFetch(e) => GoesOn(e) /\ Enqueues
    BY <2>1 DEF PersistFetch, Kinds
  <2>5. SearchUnmatched(e) \/ FetchFindsNothing(e) => GoesOn(e) /\ Enqueues
    BY <2>2 DEF SearchUnmatched, FetchFindsNothing
  <2> QED BY <1>1, <1>2, <1>8, <2>3, <2>4, <2>5 DEF Persists
<1>9. CASE BeginApply(e)
  <2>1. Job(To(e, "write")) = Job(e) /\ Job([e EXCEPT !.pc = "resume", !.n = entity.apply, !.parks = entity.refused]) = Job(e)
    BY <1>0 DEF Runs, Job, To
  <2> QED BY <1>1, <1>2, <1>3, <1>9, <2>1 DEF BeginApply
<1>10. CASE WriteCatalog(e)
  <2>1. Reanalyses(e) \/ (Goes(e, To(e, "checkpoint")) /\ rows' = rows)
    BY <1>10 DEF WriteCatalog
  <2> QED BY <1>2, <2>1, SameJob, Continues DEF Enqueues
<1>11. CASE Checkpoint(e)
  <2>1. Job([e EXCEPT !.pc = "fanout", !.n = Next_n]) = Job(e)
    BY <1>0 DEF Runs, Job
  <2> QED BY <1>1, <1>2, <1>3, <1>11, <2>1 DEF Checkpoint
<1>12. CASE Fanout(e)
  <2> DEFINE sent == [e EXCEPT !.pc = "sent", !.parks = FALSE]
  <2>0. Job(sent) = Job(e)
    BY <1>0 DEF Runs, Job
  <2>1. \/ runs' = runs \ {e} /\ rows' = Failed(e)
        \/ Goes(e, sent) /\ \E new \in RichRows(e) : rows' = Inserted(rows, new)
        \/ Goes(e, sent) /\ rows' = rows
    BY <1>12 DEF Fanout, InsertsFanout, EndsSkipped
  <2>2. rows' = Inserted(rows, {NewRow("rich", e.art, FALSE)}) => Enqueues
    BY OneInserted DEF Kinds
  <2>3. rows' = Inserted(rows, {}) \/ rows' = rows => Enqueues
    BY DEF Inserted, Enqueues
  <2> HIDE DEF sent
  <2> QED BY <2>0, <2>1, <2>2, <2>3, Continues DEF Departs, RichRows
<1>13. CASE StoreRich(e)
  <2>1. Ends(e) \/ Reanalyses(e) \/ (Goes(e, To(e, "sent")) /\ rows' = rows)
    BY <1>13 DEF StoreRich
  <2> QED BY <1>1, <1>2, <2>1, SameJob, Continues DEF Enqueues
<1>14. CASE Finishes(e)
  BY <1>14 DEF Finishes, Departs
<1>15. CASE SkipsItem(e)
  <2>1. Job([e EXCEPT !.pc = "checkpoint", !.parks = TRUE]) = Job(e)
    BY <1>0 DEF Runs, Job
  <2> QED BY <1>15, <2>1, Continues DEF SkipsItem, Enqueues
<1> QED BY <1>4, <1>5, <1>6, <1>7, <1>8, <1>9, <1>10, <1>11, <1>12, <1>13, <1>14,
           <1>15 DEF Step

\* Every step keeps the rows counted and each run its row.
LEMMA QueueKeeps ==
  ASSUME ScanInv, QueueFits, [Next]_vars
  PROVE  QueueFits'
<1>1. ASSUME NEW e \in runs, Step(e) PROVE QueueFits'
  BY <1>1, StageQueues, DepartureKeeps, JoinKeeps
<1>2. ASSUME NEW e \in runs, Fails(e) \/ Parks(e) \/ Aborts(e) PROVE QueueFits'
  <2>1. Departs(e)
    BY <1>2 DEF Fails, Parks, Aborts, Departs
  <2> QED BY <2>1, DepartureKeeps
<1>3. ASSUME NEW kind \in Kinds, Start(kind) PROVE QueueFits'
  BY <1>3, StartKeeps
<1>4. CASE Environment
  <2>1. CASE ChangesMedia \/ ChangesSidecar \/ CancelStarts
    BY <2>1, JoinKeeps DEF ChangesMedia, ChangesSidecar, CancelStarts, Enqueues
  <2>2. CASE Decides
    <3>1. runs' = runs
          /\ (rows' = rows \/ rows' = Inserted(rows, {NewRow("process", NoArtifact, FALSE)}))
      BY <2>2 DEF Decides, ProcessRow
    <3>2. Enqueues
      BY <3>1, OneInserted DEF Kinds, Enqueues
    <3> QED BY <3>1, <3>2, JoinKeeps
  <2> QED BY <1>4, <2>1, <2>2, CrashKeeps DEF Environment
<1>5. CASE Kickoff \/ Prunes
  <2>1. runs' = runs
        /\ (rows' = rows \/ rows' = Inserted(rows, {NewRow("process", NoArtifact, FALSE)}))
    BY <1>5 DEF Kickoff, Prunes, PrunerRequeues, PrunerCleans, ProcessRow
  <2>2. Enqueues
    BY <2>1, OneInserted DEF Kinds, Enqueues
  <2> QED BY <2>1, <2>2, JoinKeeps
<1>6. CASE Promotes
  <2>1. PICK c \in parked : rows' = Inserted(rows, {NewRow(c.kind, c.art, TRUE)}) /\ runs' = runs
    BY <1>6 DEF Promotes
  <2>2. c.kind \in Kinds
    BY DEF ScanInv, JobsFit, ParkedFits, Continuations, Kinds
  <2>3. Enqueues
    BY <2>1, <2>2, OneInserted
  <2> QED BY <2>1, <2>3, JoinKeeps
<1>7. CASE Cancels
  <2>1. CASE CancelsPending
    BY <2>1, RemovalKeeps DEF CancelsPending
  <2>2. CASE CancelsParked \/ GoesAgain \/ Leaves \/ SweepsCancelled
    BY <2>2, JoinKeeps DEF CancelsParked, GoesAgain, Leaves, SweepsCancelled, Enqueues
  <2> QED BY <1>7, <2>1, <2>2, SignalKeeps DEF Cancels
<1>8. CASE UNCHANGED vars
  BY <1>8, JoinKeeps DEF vars, Enqueues
<1> QED BY <1>1, <1>2, <1>3, <1>4, <1>5, <1>6, <1>7, <1>8 DEF Next

\* An entity's id is drawn once and kept while the entity lives.
LEMMA IdentityKeeps ==
  ASSUME ScanInv, IdentityFits, [Next]_vars
  PROVE  IdentityFits'
<1>1. serial \in Nat /\ entity \in Entities /\ NoEntity.id = 0
  BY DEF ScanInv, WorldFits, NoEntity
<1>2. serial' \in Nat /\ serial' >= serial /\ entity'.id \in {entity.id, 0, serial'}
  <2>1. ASSUME NEW e, NEW status PROVE Marked(e, status).id = entity.id
    BY <1>1 DEF Marked, Entities
  <2>2. ASSUME NEW e, Ends(e) \/ Snoozes(e) \/ Reanalyses(e)
        PROVE  serial' = serial /\ entity'.id = entity.id
    BY <2>1, <2>2 DEF Ends, Snoozes, Reanalyses
  <2>3. ASSUME NEW e \in runs, Step(e) PROVE serial' \in {serial, serial + 1} /\ entity'.id \in {entity.id, serial'}
    <3>1. CASE PersistAnalysis(e)
      <4>1. entity' = Generation(e.src) /\ serial' = serial + 1
        BY <3>1 DEF PersistAnalysis
      <4>2. Generation(e.src).id = IF entity = NoEntity THEN serial + 1 ELSE entity.id
        BY DEF Generation, NoEntity
      <4> QED BY <4>1, <4>2
    <3>2. CASE Walks(e) \/ WriteCatalog(e) \/ SkipsItem(e) \/ StoreRich(e) \/ Finishes(e)
               \/ AnalysisWaits(e)
      BY <2>2, <3>2 DEF Walks, WriteCatalog, SkipsItem, StoreRich, Finishes, AnalysisWaits
    <3>3. CASE BeginFetch(e) \/ BeginApply(e) \/ Checkpoint(e)
      <4>1. [entity EXCEPT !.status = "fetching"].id = entity.id
            /\ [entity EXCEPT !.status = "applying"].id = entity.id
            /\ Pending(e, Next_n).id = entity.id
        BY <1>1 DEF Entities, Pending
      <4> QED BY <2>2, <3>3, <4>1 DEF BeginFetch, BeginApply, Checkpoint, Moves
    <3>4. CASE Persists(e)
      <4>1. \A status : Searched(status).id = entity.id /\ Fetched(status).id = entity.id
        BY <1>1 DEF Entities, Searched, Fetched
      <4>2. PersistSearch(e) \/ SearchUnmatched(e) => serial' = serial /\ entity'.id = entity.id
        BY <4>1 DEF PersistSearch, SearchUnmatched, Commits
      <4>3. PersistFetch(e) \/ FetchFindsNothing(e) => serial' = serial /\ entity'.id = entity.id
        BY <4>1 DEF PersistFetch, FetchFindsNothing, Commits
      <4> QED BY <2>2, <3>4, <4>2, <4>3 DEF Persists
    <3>5. CASE Fanout(e)
      <4>1. [entity EXCEPT !.status = "applied"].id = entity.id
            /\ [entity EXCEPT !.status = "skipped"].id = entity.id
        BY <1>1 DEF Entities
      <4> QED BY <3>5, <4>1 DEF Fanout, InsertsFanout, EndsSkipped
    <3> QED BY <2>3, <3>1, <3>2, <3>3, <3>4, <3>5 DEF Step
  <2>4. ASSUME NEW e \in runs, Fails(e) \/ Parks(e) \/ Aborts(e)
        PROVE  serial' = serial /\ entity'.id = entity.id
    BY <2>1, <2>4 DEF Fails, Parks, Aborts
  <2>5. CASE Environment
    <3>1. Decides => serial' = serial + 1 /\ entity'.id = entity.id
      BY DEF Decides, NoEntity
    <3> QED BY <1>1, <2>5, <3>1 DEF Environment, ChangesMedia, ChangesSidecar, Crash, CancelStarts, CancelStep
  <2>6. CASE Kickoff \/ Promotes \/ Prunes
    <3>1. serial' = serial /\ (entity' = entity \/ entity' = NoEntity)
      BY <2>6 DEF Kickoff, Promotes, Prunes, PrunerRequeues, PrunerCleans, outside
    <3> QED BY <1>1, <3>1
  <2>7. CASE Cancels
    BY <1>1, <2>7 DEF Cancels, CancelsParked, CancelsPending, SignalsRunning, GoesAgain, Leaves,
                      SweepsCancelled, CancelStep
  <2>8. CASE (\E kind \in Kinds : Start(kind)) \/ UNCHANGED vars
    <3>1. serial' = serial /\ entity' = entity
      BY <2>8 DEF Start, vars
    <3> QED BY <1>1, <3>1
  <2> QED BY <1>1, <2>3, <2>4, <2>5, <2>6, <2>7, <2>8 DEF Next
<1>3. entity'.id <= serial'
  BY <1>1, <1>2 DEF IdentityFits, Entities
<1>4. UNCHANGED cancel \/ \E from, to \in {"idle", "parked", "pending", "signal", "check", "sweep"} :
                            CancelStep(from, to)
  <2>1. ASSUME NEW e \in runs, Step(e) PROVE UNCHANGED cancel
    <3>1. CASE Walks(e) \/ PersistAnalysis(e) \/ AnalysisWaits(e) \/ Finishes(e) \/ Fanout(e)
      BY <3>1 DEF Walks, PersistAnalysis, AnalysisWaits, Finishes, Fanout, Snoozes, outside
    <3>2. CASE BeginFetch(e) \/ BeginApply(e) \/ Checkpoint(e)
      BY <3>2 DEF BeginFetch, BeginApply, Checkpoint, Moves, Ends, Snoozes, Reanalyses, outside
    <3>3. CASE Persists(e)
      BY <3>3 DEF Persists, PersistSearch, SearchUnmatched, PersistFetch, FetchFindsNothing, Commits,
                  Ends, Reanalyses, outside
    <3>4. CASE WriteCatalog(e) \/ SkipsItem(e) \/ StoreRich(e)
      BY <3>4 DEF WriteCatalog, SkipsItem, StoreRich, Ends, Reanalyses, outside
    <3> QED BY <2>1, <3>1, <3>2, <3>3, <3>4 DEF Step
  <2>2. ASSUME NEW e \in runs, Fails(e) \/ Parks(e) \/ Aborts(e) PROVE UNCHANGED cancel
    BY <2>2 DEF Fails, Parks, Aborts, outside
  <2>3. CASE Kickoff \/ Promotes \/ Prunes \/ \E kind \in Kinds : Start(kind)
    BY <2>3 DEF Kickoff, Promotes, Prunes, PrunerRequeues, PrunerCleans, Start, outside
  <2>4. CASE Environment
    BY <2>4 DEF Environment, ChangesMedia, ChangesSidecar, Crash, CancelStarts, Decides
  <2>5. CASE Cancels
    BY <2>5 DEF Cancels, CancelsParked, CancelsPending, SignalsRunning, GoesAgain, Leaves, SweepsCancelled
  <2>6. CASE UNCHANGED vars
    BY <2>6 DEF vars
  <2> QED BY <2>1, <2>2, <2>3, <2>4, <2>5, <2>6 DEF Next
<1> QED BY <1>3, <1>4 DEF IdentityFits, CancelStep

\* No row uses more attempts than its kind has or falls below none, each run has
\* a row of its own that has used one, and what is queued and parked is of a
\* kind that may be: whatever is snoozed, cancelled, rescued or inserted twice.
THEOREM TypeCorrect == Spec => []TypeOK
<1>1. Init => TypeInv
  <2> SUFFICES ASSUME Init PROVE TypeInv
    OBVIOUS
  <2>1. rows = {} /\ runs = {} /\ entity.id = 0 /\ serial = 0 /\ cancel = "idle"
    BY DEF Init, NoEntity
  <2> QED BY <2>1 DEF TypeInv, QueueFits, RowsCounted, RowsUnique, RunsOwned, IdentityFits
<1>2. ScanInv /\ TypeInv /\ [Next]_vars => TypeInv'
  BY QueueKeeps, IdentityKeeps DEF TypeInv
<1>3. ScanInv /\ TypeInv => TypeOK
  <2> SUFFICES ASSUME ScanInv, TypeInv PROVE TypeOK
    OBVIOUS
  <2>1. entity.status \in Statuses /\ entity.gen \in 0..serial /\ entity.id \in 0..serial
    BY DEF ScanInv, WorldFits, Entities, TypeInv, IdentityFits
  <2>2. \A r \in rows : r.kind \in Kinds /\ r.tried \in 0..Attempts[r.kind]
    BY DEF ScanInv, JobsFit, RowFits, Rows, TypeInv, QueueFits, RowsCounted
  <2>3. \A e \in runs : e.kind \in Kinds /\ \E r \in rows : Job(r) = Job(e) /\ r.tried > 0
    BY DEF ScanInv, JobsFit, RunFits, Runs, TypeInv, QueueFits, RunsOwned
  <2>4. \A c \in parked : c.kind \in {"search", "fetch"}
    BY DEF ScanInv, JobsFit, ParkedFits, Continuations
  <2> QED BY <2>1, <2>2, <2>3, <2>4 DEF TypeOK, TypeInv, IdentityFits
<1> QED BY <1>1, <1>2, <1>3, ScanInvariant, PTL DEF Spec
=============================================================================
