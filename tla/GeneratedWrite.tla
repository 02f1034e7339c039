---------------------------- MODULE GeneratedWrite ----------------------------
(***************************************************************************)
(* Publication of one generated sidecar (an NFO, an exported image) into a *)
(* media directory that the user edits too: internal/generatedwrite on top *)
(* of internal/atomicfile.                                                 *)
(*                                                                         *)
(* A Publish stages its bytes beside the destination, records an intent in *)
(* PostgreSQL, links or exchanges the staged file into place, looks at     *)
(* what the exchange displaced, and finalises the intent.  Whoever takes   *)
(* the path's advisory lock next converges what a crash left behind.  The  *)
(* user takes no lock.  Bytes are compared by size and SHA-256: here by    *)
(* equality.  One user action replaces, or removes, the whole file.        *)
(***************************************************************************)
EXTENDS Naturals, FiniteSets

CONSTANTS
  Writers,   \* Publish calls, each with a staging file and an intent of its own
  Janitors,  \* the maintenance job's Reconcile
  Scanners,  \* scans that classify the sidecar they inventoried
  User,      \* versions of the file that the user may write, each once
  Heya,      \* bytes that the renderer may produce
  None,      \* no file, no bytes, nobody
  Limits     \* how often the environment acts (see LimitNames)

LimitNames == {"crash", "fault", "answer", "rename", "remove", "loss", "delete", "all"}
Actors == Writers \cup Janitors \cup Scanners
Files == User \cup Heya \cup {None}

ASSUME ActorsAssumption ==
  /\ Writers \cap (Janitors \cup Scanners) = {}
  /\ Janitors \cap Scanners = {}
  /\ None \notin Actors
ASSUME BytesAssumption == User \cap Heya = {} /\ None \notin User \cup Heya
ASSUME LimitsAssumption == Limits \in [LimitNames -> Nat]

VARIABLES
  dest,      \* the file at the sidecar's path
  staged,    \* per writer: the file at its TempPath
  previous,  \* per writer: the file at its intent's previous path
  row,       \* generated_sidecar_publications: published bytes, pending intent
  lock,      \* who holds the path's advisory lock, as the server sees it
  pc,        \* per actor: the next statement
  ret,       \* per actor: where recoverPublication returns to
  saw,       \* per actor: the publication it loaded
  cur,       \* per actor: the bytes it observed at the path
  want,      \* per writer: the prepared bytes
  own,       \* per writer: what its atomicfile.Pending would still roll back
  left,      \* what is left of Limits
  ghost      \* history: the user's versions, those overtaken by an earlier one
             \* that was put back, the user's last word, what stood there first

diskVars == <<dest, staged, previous>>
actorVars == <<pc, ret, saw, cur, want, own>>
vars == <<diskVars, row, lock, actorVars, left, ghost>>

NoRow == [pub |-> None, pend |-> None]
Exists(r) == r # NoRow
Spend(n) ==
  /\ left[n] > 0 /\ left["all"] > 0
  /\ left' = [left EXCEPT ![n] = @ - 1, !["all"] = @ - 1]
Go(a, to) == pc' = [pc EXCEPT ![a] = to]
At(a, here) == pc[a] = here

-----------------------------------------------------------------------------
Init ==
  /\ dest \in Files
  /\ staged = [w \in Writers |-> None]
  /\ previous = [w \in Writers |-> None]
  /\ row \in [pub : Heya \cup {None}, pend : {None}]
  /\ lock = None
  /\ pc = [a \in Actors |-> "idle"]
  /\ ret = [a \in Actors |-> "end"]
  /\ saw = [a \in Actors |-> NoRow]
  /\ cur = [a \in Actors |-> None]
  /\ want = [w \in Writers |-> None]
  /\ own = [w \in Writers |-> "nothing"]
  /\ left = Limits
  /\ ghost = [written |-> {dest} \cap User, overtaken |-> {}, first |-> dest,
              last |-> IF dest \in User THEN dest ELSE None]

(***************************************************************************)
(* The user.                                                               *)
(***************************************************************************)
UserWrites(v) ==
  /\ v \notin ghost.written
  /\ dest' = v
  /\ ghost' = [ghost EXCEPT !.written = @ \cup {v}, !.last = v]
  /\ UNCHANGED <<staged, previous, row, lock, actorVars, left>>
UserDeletes ==
  /\ dest # None /\ Spend("delete")
  /\ dest' = None /\ ghost' = [ghost EXCEPT !.last = None]
  /\ UNCHANGED <<staged, previous, row, lock, actorVars>>

(***************************************************************************)
(* Failures and the lock.                                                  *)
(***************************************************************************)
\* Putting bytes back takes what stands at the path aside.
Overtakes(f) == ghost' = [ghost EXCEPT !.overtaken = @ \cup ({f} \cap User)]

Unlock(a) == lock' = IF lock = a THEN None ELSE lock
\* Publish releases the lock first and discards what it prepared afterwards.
After(a) == IF a \in Writers THEN "discard" ELSE "end"
Leave(a) == Go(a, After(a)) /\ Unlock(a)

\* A statement on the connection that holds the lock.  It fails when that
\* session is gone; otherwise it may fail with or without its effect.
Statement(a, effect, next) ==
  \/ /\ lock = a /\ row' = effect /\ Go(a, next)
     /\ UNCHANGED <<lock, left>>
  \/ /\ IF lock = a THEN Spend("fault") /\ row' \in {row, effect}
                    ELSE UNCHANGED <<row, left>>
     /\ Leave(a)
\* As Statement, for the last one of a callback.
LastStatement(a, effect) ==
  /\ \/ lock = a /\ row' = effect /\ UNCHANGED left
     \/ lock = a /\ Spend("fault") /\ row' \in {row, effect}
     \/ lock # a /\ UNCHANGED <<row, left>>
  /\ Leave(a)
\* A query.
Query(a, next) ==
  \/ lock = a /\ Go(a, next) /\ saw' = [saw EXCEPT ![a] = row] /\ UNCHANGED <<lock, left>>
  \/ /\ IF lock = a THEN Spend("fault") ELSE UNCHANGED left
     /\ Leave(a) /\ UNCHANGED saw

\* The server ends the session of the connection; the callback goes on.
LoseSession(a) ==
  /\ lock = a /\ Spend("loss")
  /\ lock' = None
  /\ UNCHANGED <<diskVars, row, actorVars, ghost>>

\* The process dies.  The files stay.
Crash ==
  /\ Spend("crash")
  /\ lock' = None
  /\ pc' = [a \in Actors |-> IF a \in Writers /\ pc[a] # "idle" THEN "end" ELSE "idle"]
  /\ own' = [w \in Writers |-> "nothing"]
  /\ UNCHANGED <<diskVars, row, ret, saw, cur, want, ghost>>

-----------------------------------------------------------------------------
(***************************************************************************)
(* Publish.                                                                *)
(***************************************************************************)
Prepare(w) ==
  /\ At(w, "idle") /\ Go(w, "lock")
  /\ \E h \in Heya :
       staged' = [staged EXCEPT ![w] = h] /\ want' = [want EXCEPT ![w] = h]
  /\ own' = [own EXCEPT ![w] = "staged"]
  /\ UNCHANGED <<dest, previous, row, lock, ret, saw, cur, left, ghost>>

Lock(a) ==
  /\ At(a, "lock") /\ lock = None
  /\ lock' = a /\ Go(a, "load")
  /\ UNCHANGED <<diskVars, row, ret, saw, cur, want, own, left, ghost>>

\* LoadPublication; a known publication is recovered first.
Load(w) ==
  /\ At(w, "load")
  /\ Query(w, IF Exists(row) THEN "recover" ELSE "judge")
  /\ ret' = [ret EXCEPT ![w] = "judge"]
  /\ UNCHANGED <<diskVars, row, cur, want, own, ghost>>

\* Exact bytes are attested, foreign bytes are the user's, and only a free path
\* or Heya's own bytes may be written over.
IsPublished(a) == saw[a].pub # None /\ saw[a].pub = dest
Judge(w) ==
  /\ At(w, "judge")
  /\ cur' = [cur EXCEPT ![w] = dest]
  /\ \/ dest = want[w] /\ Go(w, "attest") /\ UNCHANGED lock
     \/ /\ dest \notin {want[w], None} /\ ~IsPublished(w)
        /\ IF Exists(saw[w]) THEN Go(w, "disown") /\ UNCHANGED lock ELSE Leave(w)
     \/ dest # want[w] /\ (dest = None \/ IsPublished(w)) /\ Go(w, "intend") /\ UNCHANGED lock
  /\ UNCHANGED <<diskVars, row, ret, saw, want, own, left, ghost>>

Attest(w) ==
  /\ At(w, "attest")
  /\ LastStatement(w, [pub |-> want[w], pend |-> None])
  /\ UNCHANGED <<diskVars, ret, saw, cur, want, own, ghost>>

\* ClearPublication: the path is the user's.
Disown(a) ==
  /\ At(a, "disown")
  /\ LastStatement(a, NoRow)
  /\ UNCHANGED <<diskVars, ret, saw, cur, want, own, ghost>>

Intend(w) ==
  /\ At(w, "intend")
  /\ \/ lock = w /\ row' = [row EXCEPT !.pend = w] /\ UNCHANGED left
        /\ Go(w, IF cur[w] = None THEN "link" ELSE "swap") /\ UNCHANGED lock
     \/ lock = w /\ row' = [row EXCEPT !.pend = w] /\ Spend("answer") /\ Leave(w)
     \/ lock = w /\ Spend("fault") /\ Leave(w) /\ UNCHANGED row
     \/ lock # w /\ Leave(w) /\ UNCHANGED <<row, left>>
  /\ UNCHANGED <<diskVars, ret, saw, cur, want, own, ghost>>

\* acquireDestinationLock: held from the link or the exchange to its verdict.
DestinationFree(w) ==
  \A o \in Writers \ {w} : ~At(o, "unlink") /\ (own[o] = "nothing" \/ own[o] = "staged")

\* PublishIfAbsent: an atomic link that never replaces, then the removal of the
\* other name.
Link(w) ==
  /\ At(w, "link") /\ DestinationFree(w)
  /\ \/ dest = None /\ staged[w] # None /\ dest' = staged[w] /\ Go(w, "unlink") /\ UNCHANGED lock
     \/ dest # None /\ Go(w, "reload") /\ UNCHANGED <<dest, lock>>
     \/ dest = None /\ staged[w] = None /\ Leave(w) /\ UNCHANGED dest
  /\ UNCHANGED <<staged, previous, row, ret, saw, cur, want, own, left, ghost>>
Unlink(w) ==
  /\ At(w, "unlink")
  /\ IF staged[w] # None
     THEN /\ staged' = [staged EXCEPT ![w] = None] /\ own' = [own EXCEPT ![w] = "nothing"]
          /\ Go(w, "confirm") /\ UNCHANGED <<dest, lock>>
     ELSE /\ dest' = None
          /\ Leave(w) /\ UNCHANGED <<staged, own>>
  /\ UNCHANGED <<previous, row, ret, saw, cur, want, left, ghost>>
\* An external writer was first: recovery classifies its bytes.
Reload(w) ==
  /\ At(w, "reload")
  /\ Query(w, IF Exists(row) THEN "recover" ELSE "leave")
  /\ ret' = [ret EXCEPT ![w] = "leave"]
  /\ UNCHANGED <<diskVars, row, cur, want, own, ghost>>

\* Exchange, RelocateExchangedPrevious.
Swap(w) ==
  /\ At(w, "swap") /\ DestinationFree(w)
  /\ IF dest # None /\ staged[w] # None
     THEN /\ dest' = staged[w] /\ staged' = [staged EXCEPT ![w] = dest]
          /\ own' = [own EXCEPT ![w] = "swapped"]
          /\ Go(w, "relocate") /\ UNCHANGED lock
     ELSE Leave(w) /\ UNCHANGED <<dest, staged, own>>
  /\ UNCHANGED <<previous, row, ret, saw, cur, want, left, ghost>>
Relocate(w) ==
  /\ At(w, "relocate")
  /\ \/ /\ staged[w] # None
        /\ previous' = [previous EXCEPT ![w] = staged[w]]
        /\ staged' = [staged EXCEPT ![w] = None]
        /\ own' = [own EXCEPT ![w] = "moved"]
        /\ Go(w, "inspect") /\ UNCHANGED <<lock, left>>
     \/ /\ IF staged[w] # None THEN Spend("rename") ELSE UNCHANGED left
        /\ Leave(w) /\ UNCHANGED <<staged, previous, own>>
  /\ UNCHANGED <<dest, row, ret, saw, cur, want, ghost>>

\* What the exchange displaced decides between Commit and Rollback.
\* (Mutant: the check before the exchange is trusted.)
InspectTrusts(w) ==
  /\ At(w, "inspect") /\ Go(w, "commit")
  /\ UNCHANGED <<diskVars, row, lock, ret, saw, cur, want, own, left, ghost>>
Inspect(w) ==
  /\ At(w, "inspect")
  /\ Go(w, IF previous[w] # None /\ previous[w] = saw[w].pub THEN "commit" ELSE "restore")
  /\ UNCHANGED <<diskVars, row, lock, ret, saw, cur, want, own, left, ghost>>
Commit(w) ==
  /\ At(w, "commit") /\ Go(w, "confirm")
  /\ previous' = [previous EXCEPT ![w] = None]
  /\ own' = [own EXCEPT ![w] = "nothing"]
  /\ UNCHANGED <<dest, staged, row, lock, ret, saw, cur, want, left, ghost>>
\* Rollback: exchange back, then remove what came back.
Restore(w) ==
  /\ At(w, "restore")
  /\ IF dest # None /\ previous[w] # None
     THEN /\ dest' = previous[w] /\ previous' = [previous EXCEPT ![w] = dest]
          /\ Overtakes(dest) /\ Go(w, "sweep") /\ UNCHANGED lock
     ELSE Leave(w) /\ UNCHANGED <<dest, previous, ghost>>
  /\ UNCHANGED <<staged, row, ret, saw, cur, want, own, left>>
Sweep(w) ==
  /\ At(w, "sweep")
  /\ \/ /\ previous' = [previous EXCEPT ![w] = None]
        /\ own' = [own EXCEPT ![w] = "nothing"]
        /\ Go(w, "disown") /\ UNCHANGED <<lock, left>>
     \/ Spend("remove") /\ Leave(w) /\ UNCHANGED <<previous, own>>
  /\ UNCHANGED <<dest, staged, row, ret, saw, cur, want, ghost>>

\* The path is observed once more before the intent is finalised.
Confirm(w) ==
  /\ At(w, "confirm")
  /\ Go(w, IF dest = want[w] THEN "finalize" ELSE "disown")
  /\ UNCHANGED <<diskVars, row, lock, ret, saw, cur, want, own, left, ghost>>
\* (Mutants: it records what stands at the path; it only clears the intent.)
FinalizeAnything(w) ==
  /\ At(w, "finalize")
  /\ LastStatement(w, [pub |-> dest, pend |-> None])
  /\ UNCHANGED <<diskVars, ret, saw, cur, want, own, ghost>>
FinalizeClears(w) ==
  /\ At(w, "finalize")
  /\ LastStatement(w, [row EXCEPT !.pend = None])
  /\ UNCHANGED <<diskVars, ret, saw, cur, want, own, ghost>>
Finalize(w) ==
  /\ At(w, "finalize")
  /\ LastStatement(w, IF row.pend = w THEN [pub |-> want[w], pend |-> None] ELSE row)
  /\ UNCHANGED <<diskVars, ret, saw, cur, want, own, ghost>>

\* Discard: the deferred rollback, after the lock was released.
Discard(w) ==
  /\ At(w, "discard")
  /\ CASE own[w] = "staged" ->
            /\ staged' = [staged EXCEPT ![w] = None]
            /\ Go(w, "end") /\ UNCHANGED <<dest, previous, ghost>>
       [] own[w] = "swapped" /\ dest # None /\ staged[w] # None ->
            /\ dest' = staged[w] /\ staged' = [staged EXCEPT ![w] = dest]
            /\ Overtakes(dest) /\ Go(w, "discard2") /\ UNCHANGED previous
       [] own[w] = "moved" /\ dest # None /\ previous[w] # None ->
            /\ dest' = previous[w] /\ previous' = [previous EXCEPT ![w] = dest]
            /\ Overtakes(dest) /\ Go(w, "discard2") /\ UNCHANGED staged
       [] OTHER -> Go(w, "end") /\ UNCHANGED <<diskVars, ghost>>
  /\ own' = [own EXCEPT ![w] = IF pc'[w] = "end" THEN "nothing" ELSE @]
  /\ UNCHANGED <<row, lock, ret, saw, cur, want, left>>
DiscardRest(w) ==
  /\ At(w, "discard2") /\ Go(w, "end")
  /\ own' = [own EXCEPT ![w] = "nothing"]
  /\ IF own[w] = "swapped"
     THEN staged' = [staged EXCEPT ![w] = None] /\ UNCHANGED previous
     ELSE previous' = [previous EXCEPT ![w] = None] /\ UNCHANGED staged
  /\ UNCHANGED <<dest, row, lock, ret, saw, cur, want, left, ghost>>

\* A removal fails.  The link is undone if that can be done; Commit has taken
\* the exchange back from Discard and reports the error; Discard gives up.
RemovalFails(w) ==
  /\ Spend("remove")
  /\ \/ At(w, "unlink") /\ staged[w] # None /\ dest' \in {dest, None}
        /\ Leave(w) /\ UNCHANGED own
     \/ At(w, "commit") /\ own' = [own EXCEPT ![w] = "nothing"]
        /\ Leave(w) /\ UNCHANGED dest
     \/ At(w, "discard") /\ own[w] = "staged" /\ own' = [own EXCEPT ![w] = "nothing"]
        /\ Go(w, "end") /\ UNCHANGED <<dest, lock>>
     \/ At(w, "discard2") /\ own' = [own EXCEPT ![w] = "nothing"]
        /\ Go(w, "end") /\ UNCHANGED <<dest, lock>>
  /\ UNCHANGED <<staged, previous, row, ret, saw, cur, want, ghost>>

-----------------------------------------------------------------------------
(***************************************************************************)
(* recoverPublication, for whoever holds the lock and loaded a row.        *)
(***************************************************************************)
Intent(a) == saw[a].pend
Wanted(a) == want[Intent(a)]
StagedReady(a) == staged[Intent(a)] = Wanted(a)
\* Where the bytes lie that an exchange displaced, if one did.
\* (Mutant: they are only looked for at the previous path.)
AsidePrevious(a) == IF previous[Intent(a)] # None THEN "previous" ELSE "nowhere"
Aside(a) ==
  CASE previous[Intent(a)] # None -> "previous"
    [] previous[Intent(a)] = None /\ staged[Intent(a)] \notin {None, Wanted(a)} -> "staged"
    [] OTHER -> "nowhere"
BytesAside(a) ==
  CASE Aside(a) = "previous" -> previous[Intent(a)]
    [] Aside(a) = "staged" -> staged[Intent(a)]
    [] OTHER -> None
\* Back to the caller, with the row as it now stands.
Return(a) == Go(a, ret[a])
Drop(files, a, gone) == [files EXCEPT ![Intent(a)] = IF @ \in gone THEN None ELSE @]

RecoverFrame == UNCHANGED <<row, lock, ret, cur, want, own, left>>

\* Observe the three paths and classify.
Verdict(a) ==
  CASE Intent(a) = None /\ (dest = None \/ IsPublished(a)) -> ret[a]
    [] Intent(a) = None /\ dest # None /\ ~IsPublished(a) -> "retire"
    [] Intent(a) # None /\ dest = Wanted(a) ->
         IF Aside(a) # "nowhere" /\ BytesAside(a) # saw[a].pub
         THEN "putBack" ELSE "accept"
    [] Intent(a) # None /\ dest # Wanted(a) /\ IsPublished(a) ->
         IF StagedReady(a) THEN "redo" ELSE "forget"
    [] Intent(a) # None /\ dest = None ->
         IF StagedReady(a) THEN "relink" ELSE "forget"
    [] OTHER -> "tidy"
Recover(a) ==
  /\ At(a, "recover") /\ Go(a, Verdict(a))
  /\ UNCHANGED <<diskVars, saw, ghost>> /\ RecoverFrame

\* The intent's bytes displaced somebody else's: exchange back, remove what
\* came back.
PutBack(a) ==
  /\ At(a, "putBack")
  /\ IF dest = None \/ Aside(a) = "nowhere"
     THEN Leave(a) /\ UNCHANGED <<diskVars, ghost>>
     ELSE /\ dest' = BytesAside(a) /\ Overtakes(dest)
          /\ IF Aside(a) = "previous"
             THEN previous' = [previous EXCEPT ![Intent(a)] = dest] /\ UNCHANGED staged
             ELSE staged' = [staged EXCEPT ![Intent(a)] = dest] /\ UNCHANGED previous
          /\ Go(a, IF Aside(a) = "previous" THEN "removePrevious" ELSE "removeStaged")
          /\ UNCHANGED lock
  /\ UNCHANGED <<row, ret, saw, cur, want, own, left>>
RemoveReturned(a) ==
  /\ pc[a] \in {"removePrevious", "removeStaged"} /\ Go(a, "retire")
  /\ IF At(a, "removePrevious")
     THEN /\ previous' = [previous EXCEPT ![Intent(a)] = None]
          /\ staged' = Drop(staged, a, {Wanted(a)})
     ELSE /\ staged' = [staged EXCEPT ![Intent(a)] = None]
          /\ previous' = Drop(previous, a, {Wanted(a)})
  /\ UNCHANGED <<dest, saw, ghost>> /\ RecoverFrame

\* The intent's bytes stand at the path: drop the rest, finalise, reload.
Accept(a) ==
  /\ At(a, "accept") /\ Go(a, "acknowledge")
  /\ previous' = IF Aside(a) = "previous" THEN [previous EXCEPT ![Intent(a)] = None] ELSE previous
  /\ staged' = IF Aside(a) = "staged" THEN [staged EXCEPT ![Intent(a)] = None]
                                      ELSE Drop(staged, a, {Wanted(a)})
  /\ UNCHANGED <<dest, saw, ghost>> /\ RecoverFrame
Acknowledge(a) ==
  /\ At(a, "acknowledge")
  /\ IF row.pend = Intent(a)
     THEN Statement(a, [pub |-> Wanted(a), pend |-> None], "reloaded")
     ELSE Leave(a) /\ UNCHANGED <<row, left>>
  /\ UNCHANGED <<diskVars, ret, saw, cur, want, own, ghost>>
Reloaded(a) ==
  /\ At(a, "reloaded")
  /\ Query(a, ret[a])
  /\ UNCHANGED <<diskVars, row, ret, cur, want, own, ghost>>

\* The publication never happened, or only half: do it now, then look again.
Redo(a) ==
  /\ At(a, "redo")
  /\ IF dest # None /\ staged[Intent(a)] # None
     THEN /\ dest' = staged[Intent(a)]
          /\ staged' = [staged EXCEPT ![Intent(a)] = dest]
          /\ Go(a, "redoMove") /\ UNCHANGED lock
     ELSE Leave(a) /\ UNCHANGED <<dest, staged>>
  /\ UNCHANGED <<previous, row, ret, saw, cur, want, own, left, ghost>>
RedoMove(a) ==
  /\ At(a, "redoMove")
  /\ \/ /\ staged[Intent(a)] # None
        /\ previous' = [previous EXCEPT ![Intent(a)] = staged[Intent(a)]]
        /\ staged' = [staged EXCEPT ![Intent(a)] = None]
        /\ Go(a, "recover") /\ UNCHANGED <<lock, left>>
     \/ /\ IF staged[Intent(a)] # None THEN Spend("rename") ELSE UNCHANGED left
        /\ Leave(a) /\ UNCHANGED <<staged, previous>>
  /\ UNCHANGED <<dest, row, ret, saw, cur, want, own, ghost>>
Relink(a) ==
  /\ At(a, "relink")
  /\ \/ dest = None /\ staged[Intent(a)] # None /\ dest' = staged[Intent(a)]
        /\ Go(a, "relinked") /\ UNCHANGED lock
     \/ dest # None /\ Go(a, "recover") /\ UNCHANGED <<dest, lock>>
     \/ dest = None /\ staged[Intent(a)] = None /\ Leave(a) /\ UNCHANGED dest
  /\ UNCHANGED <<staged, previous, row, ret, saw, cur, want, own, left, ghost>>
Relinked(a) ==
  /\ At(a, "relinked")
  /\ staged' = [staged EXCEPT ![Intent(a)] = None]
  /\ IF staged[Intent(a)] # None THEN Go(a, "recover") /\ UNCHANGED lock ELSE Leave(a)
  /\ UNCHANGED <<dest, previous, row, ret, saw, cur, want, own, left, ghost>>

\* Somebody else's bytes: remove Heya's leftovers, clear the row.
Tidy(a) ==
  /\ At(a, "tidy") /\ Go(a, "retire")
  /\ staged' = Drop(staged, a, {Wanted(a), saw[a].pub})
  /\ previous' = Drop(previous, a, {Wanted(a), saw[a].pub})
  /\ UNCHANGED <<dest, saw, ghost>> /\ RecoverFrame
\* The first recovery of a Publish goes on without the row; every other caller
\* is done.
Retire(a) ==
  /\ At(a, "retire")
  /\ IF a \in Writers /\ ret[a] = "judge"
     THEN /\ Statement(a, NoRow, "judge")
          /\ saw' = [saw EXCEPT ![a] = IF pc'[a] = "judge" THEN NoRow ELSE @]
     ELSE LastStatement(a, NoRow) /\ UNCHANGED saw
  /\ UNCHANGED <<diskVars, ret, cur, want, own, ghost>>

\* clearPending keeps a published half; without one the row goes.
\* (Mutant: only the published half matters.)
ForgottenHalf(a) == IF row.pub = None THEN NoRow ELSE row
Forgotten(a) ==
  IF row.pub = None THEN NoRow
  ELSE IF row.pend = Intent(a) THEN [row EXCEPT !.pend = None] ELSE row
Forget(a) ==
  /\ At(a, "forget")
  /\ Statement(a, Forgotten(a), "reloaded")
  /\ UNCHANGED <<diskVars, ret, saw, cur, want, own, ghost>>

\* A removal of recovery's fails: what came back is left behind; what was
\* displaced, or linked, is reported.
LeftoverStays(a) ==
  /\ Spend("remove")
  /\ \/ pc[a] \in {"removePrevious", "removeStaged"} /\ Go(a, "retire") /\ UNCHANGED lock
     \/ At(a, "accept") /\ Aside(a) # "nowhere" /\ Leave(a)
     \/ At(a, "relinked") /\ staged[Intent(a)] # None /\ Leave(a)
  /\ UNCHANGED <<diskVars, row, ret, saw, cur, want, own, ghost>>

\* Nothing is left to do.
LeaveNow(a) ==
  /\ At(a, "leave") /\ Leave(a)
  /\ UNCHANGED <<diskVars, row, ret, saw, cur, want, own, left, ghost>>

-----------------------------------------------------------------------------
(***************************************************************************)
(* The other holders of the path's lock.                                   *)
(***************************************************************************)
IsKnown(r, bytes) ==
  /\ bytes # None
  /\ bytes = r.pub \/ (r.pend # None /\ bytes = want[r.pend])

Done(a) ==
  /\ At(a, "end") /\ a \notin Writers /\ Go(a, "idle")
  /\ saw' = [saw EXCEPT ![a] = NoRow] /\ cur' = [cur EXCEPT ![a] = None]
  /\ UNCHANGED <<diskVars, row, lock, ret, want, own, left, ghost>>

\* Reconcile: rows whose lease has expired, or that nobody verified for a day;
\* pg_try_advisory_lock, and a path that is busy is skipped.
Examine(j) ==
  /\ At(j, "idle") /\ Exists(row) /\ lock = None
  /\ lock' = j /\ Go(j, "examine")
  /\ UNCHANGED <<diskVars, row, ret, saw, cur, want, own, left, ghost>>
Examined(j) ==
  /\ At(j, "examine")
  /\ Query(j, IF Exists(row) THEN "recover" ELSE "leave")
  /\ ret' = [ret EXCEPT ![j] = "verify"]
  /\ UNCHANGED <<diskVars, row, cur, want, own, ghost>>
Verify(j) ==
  /\ At(j, "verify")
  /\ IF IsKnown(saw[j], dest)
     THEN Leave(j) ELSE Go(j, "disown") /\ UNCHANGED lock
  /\ UNCHANGED <<diskVars, row, ret, saw, cur, want, own, left, ghost>>

\* A scan hashes the sidecar, waits for the lock, hashes it again, and takes an
\* expired intent to recovery.
Inventory(s) ==
  /\ At(s, "idle") /\ dest # None /\ Go(s, "queue")
  /\ cur' = [cur EXCEPT ![s] = dest]
  /\ UNCHANGED <<diskVars, row, lock, ret, saw, want, own, left, ghost>>
Classify(s) ==
  /\ At(s, "queue") /\ lock = None
  /\ IF dest = cur[s] THEN lock' = s /\ Go(s, "classify") ELSE Go(s, "end") /\ UNCHANGED lock
  /\ UNCHANGED <<diskVars, row, ret, saw, cur, want, own, left, ghost>>
Classified(s) ==
  /\ At(s, "classify")
  /\ \E expired \in BOOLEAN :
       Query(s, IF row.pend # None /\ expired THEN "recover"
                ELSE IF Exists(row) /\ ~IsKnown(row, cur[s]) /\ row.pend = None
                THEN "compareDelete" ELSE "leave")
  /\ ret' = [ret EXCEPT ![s] = "recheck"]
  /\ UNCHANGED <<diskVars, row, cur, want, own, ghost>>
Recheck(s) ==
  /\ At(s, "recheck")
  /\ IF dest = cur[s] /\ Exists(saw[s]) /\ ~IsKnown(saw[s], cur[s])
     THEN Go(s, "compareDelete") /\ UNCHANGED lock ELSE Leave(s)
  /\ UNCHANGED <<diskVars, row, ret, saw, cur, want, own, left, ghost>>
\* ClearPublicationIfUnchanged.
CompareDelete(s) ==
  /\ At(s, "compareDelete")
  /\ LastStatement(s, IF row = saw[s] THEN NoRow ELSE row)
  /\ UNCHANGED <<diskVars, ret, saw, cur, want, own, ghost>>

-----------------------------------------------------------------------------
RecoverySteps(a) ==
  \/ Recover(a) \/ PutBack(a) \/ RemoveReturned(a)
  \/ Accept(a) \/ Acknowledge(a) \/ Reloaded(a)
  \/ Redo(a) \/ RedoMove(a) \/ Relink(a) \/ Relinked(a)
  \/ Tidy(a) \/ Retire(a) \/ Forget(a)
  \/ Disown(a) \/ LeaveNow(a)
WriterSteps(w) ==
  \/ Load(w) \/ Judge(w) \/ Attest(w) \/ Intend(w)
  \/ Link(w) \/ Unlink(w) \/ Reload(w)
  \/ Swap(w) \/ Relocate(w) \/ Inspect(w) \/ Commit(w) \/ Restore(w) \/ Sweep(w)
  \/ Confirm(w) \/ Finalize(w) \/ Discard(w) \/ DiscardRest(w)
JanitorSteps(j) == Examined(j) \/ Verify(j) \/ Done(j)
ScannerSteps(s) == Classified(s) \/ Recheck(s) \/ CompareDelete(s) \/ Done(s)
Runs(a) ==
  \/ RecoverySteps(a)
  \/ a \in Writers /\ WriterSteps(a)
  \/ a \in Janitors /\ JanitorSteps(a)
  \/ a \in Scanners /\ ScannerSteps(a)

Next ==
  \/ \E v \in User : UserWrites(v)
  \/ UserDeletes
  \/ Crash
  \/ \E a \in Actors : LoseSession(a) \/ LeftoverStays(a) \/ Runs(a)
  \/ \E w \in Writers : Prepare(w) \/ Lock(w) \/ RemovalFails(w)
  \/ \E j \in Janitors : Examine(j)
  \/ \E s \in Scanners : Inventory(s) \/ Classify(s)

Spec == Init /\ [][Next]_vars
FairSpec ==
  /\ Spec
  /\ \A a \in Actors : WF_vars(Runs(a))
  /\ \A w \in Writers : SF_vars(Lock(w))
  /\ \A j \in Janitors : SF_vars(Examine(j))

-----------------------------------------------------------------------------
Steps ==
  {"idle", "lock", "load", "judge", "attest", "disown", "intend", "link", "unlink",
   "reload", "swap", "relocate", "inspect", "commit", "restore", "sweep", "confirm",
   "finalize", "discard", "discard2", "end", "leave", "recover", "putBack",
   "removePrevious", "removeStaged", "accept", "acknowledge", "reloaded", "redo",
   "redoMove", "relink", "relinked", "tidy", "retire", "forget", "examine", "verify",
   "queue", "classify", "recheck", "compareDelete"}
Rows == [pub : Heya \cup {None}, pend : Writers \cup {None}]
Notes == [written : SUBSET User, overtaken : SUBSET User, first : Files,
          last : User \cup {None}]

\* Every variable keeps the shape the code gives it; in particular only bytes
\* of a renderer are ever recorded as published.
TypeOK ==
  /\ dest \in Files
  /\ staged \in [Writers -> Files] /\ previous \in [Writers -> Files]
  /\ row \in Rows
  /\ lock \in Actors \cup {None}
  /\ pc \in [Actors -> Steps]
  /\ ret \in [Actors -> {"judge", "leave", "verify", "recheck", "end"}]
  /\ saw \in [Actors -> Rows]
  /\ cur \in [Actors -> Files]
  /\ want \in [Writers -> Heya \cup {None}]
  /\ own \in [Writers -> {"nothing", "staged", "swapped", "moved"}]
  /\ left \in [LimitNames -> Nat]
  /\ ghost \in Notes

\* No intent is open and nobody is between two statements.
Quiet == row.pend = None /\ \A a \in Actors : pc[a] \in {"idle", "lock", "end"}

\* Publications, recoveries and crashes in any order leave at the path what
\* the user wrote last, unless that was overtaken by an earlier version.
UserHasLastWord ==
  Quiet /\ ghost.last \in User \ ghost.overtaken => dest = ghost.last

\* Heya never loses track of a file of its own: bytes that it rendered and
\* left at the path are recorded as published, or they would be taken for the
\* user's and never be refreshed again.
OwnFilesKnown == Quiet /\ dest \in Heya => dest \in {row.pub, ghost.first}

\* Publishing implements SidecarOwner: what a publication displaced lies at a
\* staging or a previous path.
OnDisk(v) == \E w \in Writers : v \in {staged[w], previous[w]}
Owner == INSTANCE SidecarOwner
  WITH file      <- dest,
       aside     <- {v \in User : OnDisk(v)} \ ghost.overtaken,
       overtaken <- ghost.overtaken,
       deletions <- Limits["delete"] - left["delete"]
OwnerSpec == Owner!Spec

\* A version that was displaced comes back to the path and stays there, in spite
\* of a crash or a failing statement, until the user writes or removes the file
\* anew.  Excepted are the failures behind which the code is known to destroy it.
Intact == \A n \in {"answer", "rename", "remove", "loss"} : left[n] = Limits[n]
Displaced(v) == OnDisk(v) /\ v \notin ghost.overtaken
Returned == \A v \in User : Displaced(v) ~> [](Intact => dest = v \/ ghost.last # v)

\* No intent stays open: the next holder of the lock settles it.
IntentSettles == row.pend # None ~> row.pend = None
=============================================================================
