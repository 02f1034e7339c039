------------------------------ MODULE MetadataFeed ------------------------------
(***************************************************************************)
(* The metadata change feed: SyncMetadataChangesWorker                     *)
(* (internal/worker/metadata_changes_worker.go) and the three jobs it      *)
(* drives: the refresh of a media item (enrich_worker.go), of a person     *)
(* (person_worker.go) and of an artist's top tracks                        *)
(* (metadata_scope_worker.go).                                             *)
(*                                                                         *)
(* HeyaMetadata publishes a gap-free sequence of changes.  A tick reads it *)
(* page by page from a durable cursor; one transaction turns a page into   *)
(* jobs and advances the cursor.  An artist's document and top tracks are  *)
(* versioned apart; every entity has one local row, bound to it.  The      *)
(* refreshes of a displaced worker count as crashed; its tick may go on.   *)
(* An entity's 404 and its re-identification are left out.                 *)
(***************************************************************************)
EXTENDS Naturals, Sequences, SequencesExt, FiniteSets, FiniteSetsExt

CONSTANTS
  Artists,   \* items with a document and a list of top tracks
  Titles,    \* items with a document only: films, series, books
  People,    \* persons: a document each
  PageSize,  \* metadataChangePageSize
  MaxLog,    \* bound on the changes published in a stream
  MaxStream, \* bound on the streams
  Attempts,  \* MaxAttempts of the three kinds of job
  Limits     \* how often the environment acts: each way, in "all", and in "all"
             \* where an artist starts without a checkpoint ("unmarked")

Items == Artists \cup Titles
Entities == Items \cup People
JobKinds == {"media", "person", "scope"}
LimitNames == {"all", "unmarked", "change", "rebuild", "crash", "depose", "fault"}

ASSUME EntitiesAssumption ==
  /\ Artists \cap Titles = {} /\ Items \cap People = {} /\ IsFiniteSet(Entities)
  /\ "none" \notin Items
\* A rebuilt stream starts with every entity: MaxLog has room for them.
ASSUME BoundsAssumption ==
  /\ PageSize \in Nat \ {0} /\ MaxStream \in Nat \ {0}
  /\ MaxLog \in Nat /\ Cardinality(Entities) <= MaxLog
ASSUME AttemptsAssumption == Attempts \in [JobKinds -> Nat \ {0}]
ASSUME LimitsAssumption == Limits \in [LimitNames -> Nat]

VARIABLES
  up,      \* HeyaMetadata: its stream, the changes, the versions it serves
  row,     \* metadata_change_consumers: the cursor and its stream (0: none)
  tick,    \* the tick, now and of a displaced worker: where it is, the page it
           \* holds, the jobs it resolved
  queued,  \* per item: the queued metadata_change refreshes, oldest first,
           \* each by the attempts it has used
  refresh, \* the one running refresh (MaxWorkers 1)
  person,  \* per person: its person_fetch row
  scopes,  \* the active reconcile_metadata_scope rows
  local,   \* the read model: versions bound, stored, checkpointed
  dead,    \* entities whose last refresh failed, was skipped or discarded; artists
           \* whose last reconciliation was
  owed,    \* history: per entity, the version the cursor has acknowledged
  left     \* what is left of Limits

vars == <<up, row, tick, queued, refresh, person, scopes, local, dead, owed, left>>

Spend(n) ==
  /\ left[n] > 0 /\ left["all"] > 0
  /\ left' = [left EXCEPT ![n] = @ - 1, !["all"] = @ - 1]
Larger(a, b) == IF a >= b THEN a ELSE b

Tickers == {"now", "old"}
NoTick == [pc |-> "idle", cursor |-> 0, stream |-> 0,
           page |-> << >>, plan |-> {}, first |-> TRUE]
NoRefresh == [pc |-> "idle", item |-> "none", tried |-> 0, doc |-> 0, top |-> 0]
NoPerson == [pc |-> "none", tried |-> 0, doc |-> 0]

\* A library at version 1 throughout; an artist bound before checkpoints
\* existed has none.  A legacy cursor belongs to no stream.
Init ==
  /\ up = [stream |-> 1, log |-> << >>, doc |-> [e \in Entities |-> 1], top |-> [a \in Artists |-> 1]]
  /\ row \in {[cursor |-> 0, stream |-> 1], [cursor |-> 1, stream |-> 0]}
  /\ tick = [t \in Tickers |-> NoTick]
  /\ queued = [i \in Items |-> << >>]
  /\ refresh = NoRefresh
  /\ person = [p \in People |-> NoPerson]
  /\ scopes = {}
  /\ \E mark \in [Artists -> {0, 1}] :
       /\ local = [bound |-> [e \in Entities |-> 1], stored |-> [e \in Entities |-> 1],
                   mark |-> mark, rows |-> mark]
       /\ left = IF 0 \in {mark[a] : a \in Artists}
                 THEN [Limits EXCEPT !["all"] = Limits["unmarked"]] ELSE Limits
  /\ dead = [docs |-> {}, tops |-> {}]
  /\ owed = [docs |-> [e \in Entities |-> 0], tops |-> [a \in Artists |-> 0]]

-----------------------------------------------------------------------------
(***************************************************************************)
(* HeyaMetadata.  A change names the version it leads to; top tracks named *)
(* in a change may be served a little later.  A rebuilt database has a     *)
(* stream of its own, which starts with every entity.                      *)
(***************************************************************************)
ChangeTypes == {"updated", "top_tracks", "redirected"}
Entry(e, type) ==
  [entity |-> e, type |-> type, version |-> up.doc[e] + (IF type = "redirected" THEN 0 ELSE 1)]
Publishes(e, type) ==
  /\ Len(up.log) < MaxLog /\ Spend("change")
  /\ type = "top_tracks" => e \in Artists
  /\ up' = [up EXCEPT !.log = Append(@, Entry(e, type)), !.doc[e] = Entry(e, type).version]
  /\ UNCHANGED <<row, tick, queued, refresh, person, scopes, local, dead, owed>>
Serves(i) ==
  /\ up.top[i] < up.doc[i]
  /\ up' = [up EXCEPT !.top[i] = up.doc[i]]
  /\ UNCHANGED <<row, tick, queued, refresh, person, scopes, local, dead, owed, left>>
Rebuilds ==
  /\ up.stream < MaxStream /\ Spend("rebuild")
  /\ \E order \in SetToSeqs(Entities) :
       up' = [up EXCEPT
                !.stream = @ + 1,
                !.log = [n \in DOMAIN order |->
                          [entity |-> order[n], version |-> up.doc[order[n]],
                           type |-> IF order[n] \in Artists THEN "top_tracks" ELSE "updated"]]]
  /\ UNCHANGED <<row, tick, queued, refresh, person, scopes, local, dead, owed>>

-----------------------------------------------------------------------------
(***************************************************************************)
(* The tick.                                                               *)
(***************************************************************************)
\* CoalesceMetadataChangeEnrichJobs: the newest of the queued refreshes stays.
Coalesced(s) == IF s = << >> THEN s ELSE <<Last(s)>>

Ticks ==
  /\ tick["now"].pc = "idle"
  /\ queued' = [i \in Items |-> Coalesced(queued[i])]
  /\ tick' = [tick EXCEPT !["now"] = [NoTick EXCEPT
                !.pc = "read", !.stream = row.stream,
                !.cursor = IF row.stream = 0 THEN 0 ELSE row.cursor]]
  /\ UNCHANGED <<up, row, refresh, person, scopes, local, dead, owed, left>>

\* Source.Changes: 409 for a stream it does not know or a cursor ahead of it.
Conflicts(r) == r.stream # 0 /\ (r.stream # up.stream \/ r.cursor > Len(up.log))
Changes(t) ==
  /\ tick[t].pc = "read"
  /\ LET r == tick[t]
         next == IF r.cursor + PageSize < Len(up.log) THEN r.cursor + PageSize ELSE Len(up.log) IN
     tick' = [tick EXCEPT ![t] =
                IF Conflicts(r) THEN [r EXCEPT !.pc = "reset", !.stream = up.stream]
                ELSE [r EXCEPT !.pc = "page", !.stream = up.stream,
                               !.page = SubSeq(up.log, r.cursor + 1, next)]]
  /\ UNCHANGED <<up, row, queued, refresh, person, scopes, local, dead, owed, left>>

\* ResetMetadataChangeCursor.
ResetCursor(r) == 0
Resets(t) ==
  /\ tick[t].pc = "reset"
  /\ row' = [cursor |-> ResetCursor(tick[t]), stream |-> tick[t].stream]
  /\ tick' = [tick EXCEPT ![t].pc = "read", ![t].cursor = ResetCursor(tick[t])]
  /\ UNCHANGED <<up, queued, refresh, person, scopes, local, dead, owed, left>>

\* What the page says of e, and the jobs it calls for.
Entries(page, e) == {c \in ToSet(page) : c.entity = e}
Newest(cs) == Max({c.version : c \in cs} \cup {0})
Scoped(cs) == {c \in cs : c.type = "top_tracks"}
Forced(cs) == \E c \in cs : c.type = "redirected"
Stale(e, cs) == cs # {} /\ (Forced(cs) \/ local.bound[e] < Newest(cs))
\* (Mutant: the parent's version stands for its top tracks'.)
TopStaleByParent(i, cs) == Scoped(cs) # {} /\ local.bound[i] < Newest(Scoped(cs))
TopStale(i, cs) == Scoped(cs) # {} /\ local.mark[i] < Newest(Scoped(cs))
Plan(page) ==
  {[kind |-> "media", entity |-> i, version |-> 0] : i \in {j \in Items : Stale(j, Entries(page, j))}}
  \cup {[kind |-> "person", entity |-> p, version |-> 0] :
          p \in {q \in People : Stale(q, Entries(page, q))}}
  \cup {[kind |-> "scope", entity |-> i, version |-> Newest(Scoped(Entries(page, i)))] :
          i \in {j \in Artists : TopStale(j, Entries(page, j))}}
Resolves(t) ==
  /\ tick[t].pc = "page"
  /\ tick' = [tick EXCEPT ![t].pc = "commit", ![t].plan = Plan(tick[t].page)]
  /\ UNCHANGED <<up, row, queued, refresh, person, scopes, local, dead, owed, left>>

\* The page's transaction.  Queued refreshes of the planned items give way to
\* new ones; a row of the same person, or of the same artist and version, that
\* is active in any state absorbs its successor (uniqueWhileActive).
\* (Mutant: the rows are inserted only where nothing runs yet.)
InsertedUnlessRunning(planned) ==
  [i \in Items |-> IF i \notin planned THEN queued[i] ELSE IF refresh.item = i THEN << >> ELSE <<0>>]
Inserted(planned) == [i \in Items |-> IF i \in planned THEN <<0>> ELSE queued[i]]

PlannedOf(plan, kind) == {j.entity : j \in {k \in plan : k.kind = kind}}
NewScope(i, v) == [item |-> i, version |-> v, pc |-> "queued", tried |-> 0, top |-> 0]
PlannedScopes(plan) ==
  {NewScope(j.entity, j.version) :
     j \in {k \in plan : k.kind = "scope" /\ ~\E s \in scopes : s.item = k.entity /\ s.version = k.version}}
\* enqueueMetadataScopeBackfill: artists without a checkpoint and without a row.
Backfilled(after) ==
  {NewScope(i, 0) : i \in {j \in Artists : /\ local.mark[j] = 0 /\ j \notin dead.tops
                                          /\ ~\E s \in after : s.item = j}}
\* CommitMetadataChangeCursor.
\* (Mutant: the cursor only ever grows, whatever the stream.)
CommittedGreatest(r, next) == [cursor |-> Larger(row.cursor, next), stream |-> r.stream]
Committed(r, next) ==
  [cursor |-> IF row.stream = r.stream THEN Larger(row.cursor, next) ELSE next, stream |-> r.stream]
Acknowledge(page) ==
  owed' = [docs |-> [e \in Entities |-> Larger(owed.docs[e], Newest(Entries(page, e)))],
           tops |-> [i \in Artists |-> Larger(owed.tops[i], Newest(Scoped(Entries(page, i))))]]

Commits(t) ==
  /\ tick[t].pc = "commit"
  /\ LET r == tick[t]
         next == r.cursor + Len(r.page)
         inserted == scopes \cup PlannedScopes(r.plan) IN
     /\ queued' = Inserted(PlannedOf(r.plan, "media"))
     /\ person' = [p \in People |-> IF p \in PlannedOf(r.plan, "person") /\ person[p].pc = "none"
                                    THEN [NoPerson EXCEPT !.pc = "queued"] ELSE person[p]]
     /\ scopes' = inserted \cup (IF r.first THEN Backfilled(inserted) ELSE {})
     /\ row' = Committed(r, next)
     /\ Acknowledge(r.page)
     /\ tick' = [tick EXCEPT ![t] =
                   IF Len(r.page) < PageSize THEN NoTick
                   ELSE [r EXCEPT !.pc = "read", !.cursor = next, !.page = << >>, !.plan = {},
                                  !.first = FALSE]]
  /\ UNCHANGED <<up, refresh, local, dead, left>>

\* Any call fails, or the commit's answer is lost.
TickFails(t) ==
  /\ tick[t].pc # "idle" /\ Spend("fault")
  /\ tick' = [tick EXCEPT ![t] = NoTick]
  /\ UNCHANGED <<up, row, queued, refresh, person, scopes, local, dead, owed>>

-----------------------------------------------------------------------------
(***************************************************************************)
(* EnrichMediaItemWorker: one at a time.  The binding is advanced before   *)
(* the rest of the document is stored.                                     *)
(***************************************************************************)
Refreshing(i) == refresh.item = i
\* (Mutant: one attempt too many.)
RetriedOnceMore(kind, tried) == tried <= Attempts[kind]
Retried(kind, tried) == tried < Attempts[kind]
DocDead(e) == dead' = [dead EXCEPT !.docs = @ \cup {e}]
DocAlive(e) == dead' = [dead EXCEPT !.docs = @ \ {e}]
TopDead(i) == dead' = [dead EXCEPT !.tops = @ \cup {i}]

StartRefresh(i) ==
  /\ refresh.pc = "idle"
  /\ \E n \in DOMAIN queued[i] :
       /\ refresh' = [NoRefresh EXCEPT !.pc = "fetch", !.item = i, !.tried = queued[i][n] + 1]
       /\ queued' = [queued EXCEPT ![i] = RemoveAt(@, n)]
  /\ UNCHANGED <<up, row, tick, person, scopes, local, dead, owed, left>>
FetchDetail(i) ==
  /\ Refreshing(i) /\ refresh.pc = "fetch"
  /\ refresh' = [refresh EXCEPT !.pc = "base", !.doc = up.doc[i],
                               !.top = IF i \in Artists THEN up.top[i] ELSE 0]
  /\ UNCHANGED <<up, row, tick, queued, person, scopes, local, dead, owed, left>>
BindCanonical(i) ==
  /\ Refreshing(i) /\ refresh.pc = "base"
  /\ local' = [local EXCEPT !.bound[i] = Larger(@, refresh.doc)]
  /\ refresh' = [refresh EXCEPT !.pc = "rich"]
  /\ UNCHANGED <<up, row, tick, queued, person, scopes, dead, owed, left>>

\* ReplaceArtistTopTracks, under the binding's lock; the checkpoint's upsert
\* keeps the greater version.
\* (Mutant: the rows are replaced whatever the checkpoint says.)
ReplacedAlways(l, i, v) == [l EXCEPT !.rows[i] = v, !.mark[i] = Larger(@, v)]
Replaced(l, i, v) == IF l.mark[i] >= v THEN l ELSE [l EXCEPT !.rows[i] = v, !.mark[i] = v]
\* A document may come without its top tracks (ArtistTopTracksLoaded).
StoreDocument(i) ==
  /\ Refreshing(i) /\ refresh.pc = "rich"
  /\ LET stored == [local EXCEPT !.stored[i] = refresh.doc] IN
     \/ local' = stored
     \/ i \in Artists /\ local' = Replaced(stored, i, refresh.top)
  /\ refresh' = NoRefresh
  /\ DocAlive(i)
  /\ UNCHANGED <<up, row, tick, queued, person, scopes, owed, left>>

\* A lost job is retried until its attempts are used, a title's also after a
\* transient error; an artist that cannot be fetched is skipped, its job done.
\* A terminal error, and a failing store, mark the item failed (markFailed).
Requeue(i) ==
  IF Retried("media", refresh.tried)
  THEN queued' = [queued EXCEPT ![i] = <<refresh.tried>> \o @] /\ UNCHANGED dead
  ELSE DocDead(i) /\ UNCHANGED queued
SkipArtist(i) == DocDead(i) /\ UNCHANGED queued
FetchFails(i) ==
  /\ Refreshing(i) /\ refresh.pc = "fetch" /\ Spend("fault")
  /\ IF i \in Titles THEN Requeue(i) ELSE SkipArtist(i)
  /\ refresh' = NoRefresh
  /\ UNCHANGED <<up, row, tick, person, scopes, local, owed>>
MarkFailed(i) ==
  /\ Refreshing(i) /\ refresh.pc \in {"fetch", "base", "rich"} /\ Spend("fault")
  /\ DocDead(i)
  /\ refresh' = NoRefresh
  /\ UNCHANGED <<up, row, tick, queued, person, scopes, local, owed>>

-----------------------------------------------------------------------------
(***************************************************************************)
(* PersonFetchWorker: one row per person while it is active.               *)
(***************************************************************************)
PersonStep(p, from, to) ==
  /\ person[p].pc = from
  /\ person' = [person EXCEPT ![p] = to]
  /\ UNCHANGED <<up, row, tick, queued, refresh, scopes, owed>>
StartPerson(p) ==
  /\ PersonStep(p, "queued", [person[p] EXCEPT !.pc = "fetch", !.tried = @ + 1])
  /\ UNCHANGED <<local, dead, left>>
FetchPerson(p) ==
  /\ PersonStep(p, "fetch", [person[p] EXCEPT !.pc = "store", !.doc = up.doc[p]])
  /\ UNCHANGED <<local, dead, left>>
\* UpdatePersonFull and the binding; what follows them is of the same document.
StoredPerson(p) ==
  [local EXCEPT !.stored[p] = person[p].doc, !.bound[p] = Larger(@, person[p].doc)]
StorePerson(p) ==
  /\ PersonStep(p, "store", NoPerson)
  /\ local' = StoredPerson(p)
  /\ DocAlive(p)
  /\ UNCHANGED left
\* A failed job is retried until its attempts are used; a terminal error and a
\* failing update are logged, and the job succeeds.
RetriesPerson(p, from) ==
  /\ PersonStep(p, from, IF Retried("person", person[p].tried)
                         THEN [person[p] EXCEPT !.pc = "queued"] ELSE NoPerson)
  /\ IF Retried("person", person[p].tried) THEN UNCHANGED dead ELSE DocDead(p)
GivesUpPerson(p, from) == PersonStep(p, from, NoPerson) /\ DocDead(p)
PersonFetchFails(p) ==
  /\ RetriesPerson(p, "fetch") \/ GivesUpPerson(p, "fetch")
  /\ Spend("fault") /\ UNCHANGED local
UpdatePersonFails(p) ==
  /\ GivesUpPerson(p, "store")
  /\ Spend("fault") /\ UNCHANGED local
\* A biography, a profile, a credit or the image's job fails after the update.
PersonWritesFail(p) ==
  /\ RetriesPerson(p, "store")
  /\ Spend("fault") /\ local' = StoredPerson(p)

-----------------------------------------------------------------------------
(***************************************************************************)
(* ReconcileMetadataScopeWorker.                                           *)
(***************************************************************************)
ScopeStep(s, after) ==
  /\ s \in scopes
  /\ scopes' = (scopes \ {s}) \cup after
  /\ UNCHANGED <<up, row, tick, queued, refresh, person, owed>>
\* Nothing to do when the checkpoint has the version asked for and the parent's.
Redundant(s) == s.version > 0 /\ local.mark[s.item] >= Larger(s.version, local.bound[s.item])
StartScope(s) ==
  /\ s.pc = "queued"
  /\ ScopeStep(s, IF Redundant(s) THEN {} ELSE {[s EXCEPT !.pc = "fetch", !.tried = @ + 1]})
  /\ UNCHANGED <<local, dead, left>>
\* A payload older than the version asked for is an error.
Served(s) == s.version = 0 \/ up.top[s.item] >= s.version
FetchScope(s) ==
  /\ s.pc = "fetch" /\ Served(s)
  /\ ScopeStep(s, {[s EXCEPT !.pc = "store", !.top = up.top[s.item]]})
  /\ UNCHANGED <<local, dead, left>>
ScopeFails(s) ==
  /\ ScopeStep(s, IF Retried("scope", s.tried) THEN {[s EXCEPT !.pc = "queued"]} ELSE {})
  /\ IF Retried("scope", s.tried) THEN UNCHANGED dead ELSE TopDead(s.item)
  /\ UNCHANGED local
FetchScopeFails(s) ==
  /\ s.pc = "fetch"
  /\ IF Served(s) THEN Spend("fault") ELSE UNCHANGED left
  /\ ScopeFails(s)
StoreScope(s) ==
  /\ s.pc = "store"
  /\ ScopeStep(s, {})
  /\ local' = Replaced(local, s.item, s.top)
  /\ UNCHANGED <<dead, left>>

-----------------------------------------------------------------------------
(***************************************************************************)
(* The worker's process.  What it ran stays `running` until it is rescued. *)
(***************************************************************************)
Running == {"fetch", "base", "rich", "store"}
Halted ==
  /\ refresh' = IF refresh.pc = "idle" THEN refresh ELSE [refresh EXCEPT !.pc = "lost"]
  /\ person' = [p \in People |-> IF person[p].pc \in Running THEN [person[p] EXCEPT !.pc = "lost"]
                                 ELSE person[p]]
  /\ scopes' = {IF s.pc \in Running THEN [s EXCEPT !.pc = "lost"] ELSE s : s \in scopes}
  /\ UNCHANGED <<up, row, queued, local, dead, owed>>
Crash ==
  /\ Spend("crash")
  /\ tick' = [t \in Tickers |-> NoTick]
  /\ Halted
Displaced ==
  /\ tick["now"].pc # "idle" /\ tick["old"].pc = "idle" /\ Spend("depose")
  /\ tick' = [tick EXCEPT !["now"] = NoTick, !["old"] = tick["now"]]
  /\ Halted

RescueRefresh(i) ==
  /\ Refreshing(i) /\ refresh.pc = "lost"
  /\ Requeue(i)
  /\ refresh' = NoRefresh
  /\ UNCHANGED <<up, row, tick, person, scopes, local, owed, left>>
RescuePerson(p) == RetriesPerson(p, "lost") /\ UNCHANGED <<local, left>>
RescueScope(s) ==
  /\ s.pc = "lost"
  /\ ScopeFails(s)
  /\ UNCHANGED left

-----------------------------------------------------------------------------
Upstream ==
  \/ \E e \in Entities, type \in ChangeTypes : Publishes(e, type)
  \/ \E a \in Artists : Serves(a)
  \/ Rebuilds
TickStep(t) == Changes(t) \/ Resets(t) \/ Resolves(t) \/ Commits(t)
RefreshStep(i) ==
  StartRefresh(i) \/ FetchDetail(i) \/ BindCanonical(i) \/ StoreDocument(i) \/ RescueRefresh(i)
FetchStep(p) == StartPerson(p) \/ FetchPerson(p) \/ StorePerson(p) \/ RescuePerson(p)
ScopeWork(s) == StartScope(s) \/ FetchScope(s) \/ StoreScope(s) \/ RescueScope(s)
JobStep ==
  \/ \E i \in Items : RefreshStep(i)
  \/ \E p \in People : FetchStep(p)
  \/ \E s \in scopes : ScopeWork(s)
Failures ==
  \/ \E t \in Tickers : TickFails(t)
  \/ \E i \in Items : FetchFails(i) \/ MarkFailed(i)
  \/ \E p \in People : PersonFetchFails(p) \/ UpdatePersonFails(p) \/ PersonWritesFail(p)
  \/ \E s \in scopes : FetchScopeFails(s)
  \/ Crash \/ Displaced

Next ==
  \/ Upstream
  \/ Ticks
  \/ \E t \in Tickers : TickStep(t)
  \/ JobStep
  \/ Failures

Spec == Init /\ [][Next]_vars

\* A tick is inserted every thirty seconds; River runs what is due and rescues
\* what a dead client left running: it is enough that some job moves while one
\* can.  HeyaMetadata serves what it announced.
FairSpec ==
  /\ Spec
  /\ WF_vars(Ticks \/ TickStep("now")) /\ WF_vars(TickStep("old")) /\ WF_vars(JobStep)
  /\ \A a \in Artists : WF_vars(Serves(a))

-----------------------------------------------------------------------------
TypeOK ==
  /\ row \in [cursor : 0..Larger(1, MaxLog), stream : 0..MaxStream]
  /\ \A t \in Tickers :
       /\ tick[t].pc \in {"idle", "read", "reset", "page", "commit"}
       /\ tick[t].pc \in {"page", "commit"} => tick[t].stream \in 1..MaxStream
       /\ Len(tick[t].page) <= PageSize
  /\ refresh.item \in Items \cup {"none"} /\ (refresh.item = "none" <=> refresh.pc = "idle")
  /\ \A i \in Items : \A n \in DOMAIN queued[i] : queued[i][n] < Attempts["media"]
  /\ \A p \in People : person[p].pc \in Running \cup {"none", "queued", "lost"}
  /\ \A s \in scopes : s.tried <= Attempts["scope"] /\ s.item \in Artists

\* A refresh that has not fetched yet, or has fetched version v or a later one.
WillStore(i, v) == Refreshing(i) /\ (refresh.pc \in {"fetch", "lost"} \/ refresh.doc >= v)

\* Once the cursor has passed a change of an item, its version is stored, or a
\* refresh that will fetch it is queued or running, or the item's last refresh
\* was given up.  "Advancing the cursor and inserting River jobs in the same
\* pgx transaction means a crash can produce [no] lost change"
\* (metadata_changes_worker.go:37).
ChangeNotLost ==
  \A i \in Items :
    \/ local.stored[i] >= owed.docs[i]
    \/ queued[i] # << >> \/ WillStore(i, owed.docs[i])
    \/ i \in dead.docs

\* The same of an artist's top tracks: "a newer change is never lost behind an
\* older in-flight reconciliation" (jobs.go:37).
TopTracksNotLost ==
  \A a \in Artists :
    \/ local.mark[a] >= owed.tops[a]
    \/ \E s \in scopes : s.item = a /\ s.version >= owed.tops[a]
    \/ a \in dead.tops

\* The top tracks shown are those of the checkpointed version, whichever of the
\* two jobs wrote last: an older list never lands on a newer one
\* (metadatasync, ReplaceArtistTopTracks).
RowsMatchCheckpoint == local.rows = local.mark

\* Every entity of the library is where its last job left it.
Settled ==
  /\ \A i \in Items : local.stored[i] = up.doc[i] \/ i \in dead.docs
  /\ \A a \in Artists : local.mark[a] >= owed.tops[a] \/ a \in dead.tops
\* The cursor never skips a change: whatever stream a tick adopts, it reads
\* every change of it, and every item gets to the version served, unless its
\* last job was given up.
FeedSettles == <>[]Settled

\* What the same file says of every later page, of people too: "It must enqueue
\* a trailing refresh before advancing that later cursor" (lines 131-136).
PersonChangeNotLost ==
  \A p \in People :
    \/ local.stored[p] >= owed.docs[p]
    \/ person[p].pc \in {"queued", "fetch", "lost"} \/ person[p].doc >= owed.docs[p]
    \/ p \in dead.docs
=============================================================================
