-------------------------- MODULE SidecarOwnerProofs --------------------------
(***************************************************************************)
(* Publishing a sidecar keeps the promise of SidecarOwner, for any number  *)
(* of publishers, janitors, scans, user versions, renderings, crashes,     *)
(* failing statements and deletions, as long as none of the four windows   *)
(* opens through which the code is known to break it.                      *)
(***************************************************************************)
EXTENDS GeneratedWriteProofs

\* The windows: a lost answer of persistIntent, a rename or a removal that
\* fails after an exchange, a session that ends under its callback.
Windows == {"answer", "rename", "remove", "loss"}
Windowless == \A n \in Windows : Limits[n] = 0

-----------------------------------------------------------------------------
(***************************************************************************)
(* The inductive invariant.                                                *)
(***************************************************************************)
\* Bytes that Heya may always find: nothing, or the user's.
Free == User \cup {None}
\* Versions that still count.
Standing == User \ ghost.overtaken

Outside == {"idle", "lock", "queue", "discard", "discard2", "end"}
Recovering == Settling \cup {"recover", "reloaded", "retire"}

Shut == \A n \in Windows : left[n] = 0
\* Whoever is between taking the lock and leaving holds it, and nobody else.
Locked == \A a \in Actors : pc[a] \notin Outside <=> lock = a

\* A version was written before it can be anywhere, and is in one place.
Versions ==
  /\ ghost.overtaken \subseteq ghost.written
  /\ dest \in User => dest \in ghost.written \ ghost.overtaken
  /\ \A w \in Writers : {staged[w], previous[w]} \cap User \subseteq ghost.written
Once ==
  /\ dest \in User => \A w \in Writers : dest \notin {staged[w], previous[w]}
  /\ \A w, x \in Writers :
       /\ staged[w] \in User => staged[w] # previous[x]
       /\ w # x /\ staged[w] \in User => staged[w] # staged[x]
       /\ w # x /\ previous[w] \in User => previous[w] # previous[x]

\* A publisher's files and what it would roll back, by where it is.
Preparing(w) ==
  \/ pc[w] \in {"lock", "load", "judge", "attest", "intend"}
  \/ pc[w] \in Recovering /\ ret[w] = "judge"
\* A discard that exchanges back: the user's version goes to a path that is
\* the user's, and nobody publishes meanwhile.
Undoing(w) == own[w] = "moved" /\ pc[w] \in {"discard", "discard2"}
UndoFits(w) ==
  /\ dest \in Free /\ staged[w] = None
  /\ pc[w] = "discard" => previous[w] \in Standing
  /\ pc[w] = "discard2" => previous[w] \in ghost.overtaken
  /\ row.pend \in {None, w} \/ pc[row.pend] \in {"link", "swap"}
WriterFits(w) ==
  /\ Preparing(w) \/ pc[w] = "idle" => row.pend # w
  /\ Preparing(w) \/ pc[w] \in {"link", "unlink", "swap"} => own[w] = "staged" /\ staged[w] = want[w]
  /\ pc[w] = "idle" => staged[w] = None /\ previous[w] = None
  /\ own[w] = "staged" => want[w] \in Heya /\ staged[w] \in {want[w], None} /\ previous[w] = None
  /\ own[w] = "swapped" <=> pc[w] = "relocate"
  /\ pc[w] \in {"inspect", "commit", "restore", "sweep", "discard2"} => own[w] = "moved"
  /\ own[w] = "moved" => pc[w] \in {"inspect", "commit", "restore", "sweep", "discard", "discard2"}
  /\ pc[w] \in {"idle", "end", "confirm", "finalize"} => own[w] = "nothing"
  /\ Undoing(w) => UndoFits(w)

\* The writer p whose intent is open.
PendFits(p) ==
  /\ want[p] \in Heya
  /\ dest \in Free \cup {want[p], row.pub}
  /\ previous[p] # None => staged[p] = None
  /\ staged[p] \in Free \cup {want[p], row.pub} /\ previous[p] \in Free \cup {want[p], row.pub}
  /\ staged[p] \in ghost.overtaken => dest \in Free
  /\ previous[p] \in ghost.overtaken \cup {want[p]} => dest \in Free
  /\ own[p] = "staged" /\ pc[p] # "swap" => dest \in Free \cup {want[p]}

\* The holder a of the lock: what it loaded, and what it may rely on of the
\* path (dest) and of the files of the open intent, by the statement it is at.
Loaded(a) ==
  /\ pc[a] \in Recovering => ret[a] # "end"
  /\ pc[a] \in (Recovering \ {"reloaded"}) \cup {"judge", "attest", "intend", "verify", "recheck"} => saw[a] = row
  /\ pc[a] \in {"judge", "attest", "intend", "verify", "recheck", "reloaded", "compareDelete"} => row.pend = None
  /\ pc[a] \in {"link", "unlink", "reload", "swap", "relocate", "inspect", "commit", "restore", "sweep",
                "confirm", "finalize"} => row.pend = a /\ row.pub = saw[a].pub
  /\ pc[a] \in Settling => row.pend # None
  /\ pc[a] \in {"attest", "intend"} => a \in Writers
PathFits(a) ==
  LET p == row.pend
      wanted == Free \cup {want[p]}
  IN
  /\ pc[a] = "attest" => dest \in Free \cup {want[a]}
  /\ pc[a] = "intend" /\ cur[a] = None => dest \in Free
  /\ pc[a] = "intend" /\ cur[a] # None => row.pub \notin {None, want[a]} /\ dest \in Free \cup {row.pub}
  /\ pc[a] \in {"link", "sweep", "removePrevious", "removeStaged", "relink", "tidy"} => dest \in Free
  /\ pc[a] \in {"disown", "retire"} /\ p # None => dest \in Free
  /\ pc[a] \in {"disown", "retire", "compareDelete"} /\ p = None /\ dest \in Heya => dest = ghost.first
  /\ pc[a] \in {"unlink", "reload", "relocate", "inspect", "commit", "restore", "confirm", "finalize",
                "putBack", "accept", "acknowledge", "redoMove", "relinked"} => dest \in wanted
  /\ pc[a] \in {"swap", "redo"} => row.pub \notin {None, want[p]} /\ dest \in Free \cup {row.pub}
  /\ pc[a] = "forget" => dest \in Free \cup ({row.pub} \ {want[p]})
  /\ pc[a] = "classify" => dest \in Free \cup {cur[a]}
AsideFits(a) ==
  LET p == row.pend
  IN
  /\ pc[a] \in {"relocate", "redoMove"} =>
       staged[p] \in Standing \cup ({row.pub} \ {None, want[p]}) /\ previous[p] = None
  /\ pc[a] = "inspect" => previous[p] \in Standing \cup {row.pub} /\ previous[p] # None
  /\ pc[a] = "commit" => previous[p] = row.pub /\ row.pub # None
  /\ pc[a] = "restore" => previous[p] \in Standing
  /\ pc[a] \in {"sweep", "removePrevious"} => previous[p] \in {want[p]} \cup ghost.overtaken
  /\ pc[a] = "removeStaged" => staged[p] \in {want[p]} \cup ghost.overtaken /\ previous[p] = None
  /\ pc[a] \in {"confirm", "finalize"} => staged[p] = None /\ previous[p] = None
  /\ pc[a] = "putBack" => previous[p] \in Standing \/ (previous[p] = None /\ staged[p] \in Standing)
  /\ pc[a] \in {"accept", "acknowledge"} => staged[p] \notin User /\ previous[p] \notin User
  /\ pc[a] = "redo" => staged[p] = want[p]
  /\ pc[a] \in {"relink", "relinked"} => staged[p] \in {want[p], None} /\ previous[p] = None
  /\ pc[a] \in {"putBack", "removePrevious", "removeStaged", "redo", "redoMove"} => own[p] = "nothing"
  /\ pc[a] \in {"accept", "relink", "relinked"} => own[p] # "moved"
HolderFits(a) == Loaded(a) /\ PathFits(a) /\ AsideFits(a)

\* What the user wrote last stands at the path, or was displaced by the open
\* intent and is still there.
LastWord ==
  ghost.last \in Standing =>
    \/ dest = ghost.last
    \/ /\ row.pend # None /\ dest = want[row.pend]
       /\ ghost.last \in {staged[row.pend], previous[row.pend]}
\* Without an open intent Heya's own bytes at the path are those on record.
Known == row.pend = None /\ dest \in Heya => dest \in {row.pub, ghost.first}

Inv ==
  /\ Shape /\ Shut /\ Locked /\ Versions /\ Once
  /\ \A w \in Writers : WriterFits(w)
  /\ \A p \in Writers : row.pend = p => PendFits(p)
  /\ \A a \in Actors : lock = a => HolderFits(a)
  /\ LastWord /\ Known

-----------------------------------------------------------------------------
(***************************************************************************)
(* Steps that touch no file.                                               *)
(***************************************************************************)
DataSame == UNCHANGED <<dest, staged, previous, want, own, ghost>>
\* Only actor a is elsewhere, knows more, holds or releases the lock.
OnlyActs(a) ==
  /\ \A b \in Actors \ {a} : pc'[b] = pc[b] /\ ret'[b] = ret[b] /\ saw'[b] = saw[b] /\ cur'[b] = cur[b]
  /\ pc'[a] \notin Outside <=> lock' = a
  /\ lock' = lock \/ (lock = a /\ lock' = None) \/ (lock = None /\ lock' = a)
\* A statement of its closes the open intent, if it changes the row at all.
RowCloses(a) == row' = row \/ (lock = a /\ row'.pend = None)

\* Who holds the lock is where only a holder can be.
LEMMA LockedKept ==
  ASSUME Inv, NEW a \in Actors, OnlyActs(a)
  PROVE  Locked'
  <1>1. Locked /\ None \notin Actors  BY ActorsAssumption DEF Inv
  <1> QED BY <1>1 DEF Locked, OnlyActs

\* A step that touches no file keeps the invariant, if it leaves the actor
\* that takes it where its files and what it relies on allow.
LEMMA MoveKeeps ==
  ASSUME Inv, Shape', Shut', NEW a \in Actors, DataSame, OnlyActs(a), RowCloses(a),
         a \in Writers => WriterFits(a)',
         pc[a] \in {"link", "swap"} => pc'[a] \in {"link", "swap"} \/ \A w \in Writers \ {a} : ~Undoing(w),
         pc[a] = "swap" => dest \in Free \cup {want[a]},
         lock' = a => HolderFits(a)',
         row' # row => LastWord' /\ Known'
  PROVE  Inv'
  <1>1. Locked'
    BY LockedKept
  <1>2. Versions' /\ Once'
    BY DEF Inv, DataSame, Versions, Once
  <1>3. ASSUME NEW w \in Writers, w # a PROVE WriterFits(w)'
    <2>1. WriterFits(w) /\ w \in Actors /\ Locked /\ None \notin Actors
      BY ActorsAssumption DEF Inv, Actors
    <2>2. pc'[w] = pc[w] /\ ret'[w] = ret[w] /\ own'[w] = own[w] /\ staged'[w] = staged[w] /\ previous'[w] = previous[w] /\ want'[w] = want[w]
      BY <1>3, <2>1 DEF OnlyActs, DataSame
    <2>3. row'.pend = row.pend \/ row'.pend = None
      BY DEF RowCloses
    <2>4. Undoing(w)' => UndoFits(w)'
      <3> SUFFICES ASSUME Undoing(w)' PROVE UndoFits(w)'  OBVIOUS
      <3>1. Undoing(w) /\ UndoFits(w)
        BY <2>1, <2>2 DEF Undoing, WriterFits
      <3>2. row'.pend \in {None, w} \/ pc'[row'.pend] \in {"link", "swap"}
        <4>1. CASE row'.pend = row.pend /\ row.pend \notin {None, w}
          <5>1. row.pend \in Writers /\ row.pend \in Actors
            BY <4>1 DEF Inv, Shape, TypeOK, Rows, Actors
          <5>2. pc[row.pend] \in {"link", "swap"}
            BY <3>1, <4>1 DEF UndoFits
          <5>3. CASE row.pend = a
            BY <1>3, <3>1, <4>1, <5>2, <5>3 
          <5>4. CASE row.pend # a
            BY <4>1, <5>1, <5>2, <5>4 DEF OnlyActs
          <5> QED BY <5>3, <5>4
        <4> QED BY <2>3, <4>1
      <3> QED BY <2>2, <3>1, <3>2 DEF UndoFits, DataSame, Free, Standing
    <2> QED BY <2>1, <2>2, <2>3, <2>4, ActorsAssumption DEF WriterFits, Preparing
  <1>4. ASSUME NEW p \in Writers, row'.pend = p PROVE PendFits(p)'
    <2>1. row' = row /\ PendFits(p) /\ row.pend = p /\ p \in Actors
      BY <1>4, ActorsAssumption DEF RowCloses, Inv, Actors
    <2>2. pc'[p] # "swap" => pc[p] # "swap" \/ dest \in Free \cup {want[p]}
      BY <2>1 DEF OnlyActs
    <2> QED BY <2>1, <2>2 DEF PendFits, DataSame, Free
  <1>5. ASSUME NEW b \in Actors, lock' = b PROVE HolderFits(b)'
    <2>1. CASE b = a
      BY <1>5, <2>1
    <2>2. CASE b # a
      <3>1. lock' = lock /\ HolderFits(b) /\ row' = row
        BY <1>5, <2>2, ActorsAssumption DEF OnlyActs, Inv, RowCloses
      <3>2. pc'[b] = pc[b] /\ ret'[b] = ret[b] /\ saw'[b] = saw[b] /\ cur'[b] = cur[b]
        BY <2>2 DEF OnlyActs
      <3>3. Loaded(b)'
        BY <3>1, <3>2 DEF HolderFits, Loaded
      <3>4. PathFits(b)'
        BY <3>1, <3>2 DEF HolderFits, PathFits, DataSame, Free
      <3>5. AsideFits(b)'
        BY <3>1, <3>2 DEF HolderFits, AsideFits, DataSame, Standing
      <3> QED BY <3>3, <3>4, <3>5 DEF HolderFits
    <2> QED BY <2>1, <2>2
  <1>6. LastWord' /\ Known'
    BY DEF Inv, LastWord, Known, DataSame, Standing
  <1> QED BY <1>1, <1>2, <1>3, <1>4, <1>5, <1>6 DEF Inv

\* No window opens, whatever else is spent.
LEMMA ShutKept ==
  ASSUME Inv, NEW n \in LimitNames \ Windows, Costs(n)
  PROVE  Shut'
  BY DEF Inv, Shut, Costs, Windows, LimitNames
\* A window that is shut cannot be spent.
LEMMA NoWindow ==
  ASSUME Inv, NEW n \in Windows, Spend(n)
  PROVE  FALSE
  <1>1. n \in LimitNames \ {"all"} /\ Shape /\ left[n] = 0
    BY DEF Inv, Shut, Windows, LimitNames
  <1> QED BY <1>1, Spending
\* What the invariant says of an actor between taking the lock and leaving.
LEMMA Holding ==
  ASSUME Inv, NEW a \in Actors, pc[a] \notin Outside
  PROVE  lock = a /\ a # None /\ HolderFits(a) /\ (a \in Writers => WriterFits(a))
  BY ActorsAssumption DEF Inv, Locked

\* A holder that rolls nothing back later may leave at any time.
LEMMA LeaveKeeps ==
  ASSUME Inv, Shape', Shut', NEW a \in Actors, pc[a] \notin Outside, DataSame, Leaves(a), RowCloses(a),
         \A b \in Actors \ {a} : ret'[b] = ret[b] /\ saw'[b] = saw[b] /\ cur'[b] = cur[b],
         a \in Writers => own[a] \in {"nothing", "staged"},
         pc[a] \in {"link", "swap"} => \A w \in Writers \ {a} : ~Undoing(w),
         pc[a] = "swap" => dest \in Free \cup {want[a]},
         row' # row => LastWord' /\ Known'
  PROVE  Inv'
  <1>1. lock = a /\ a # None /\ (a \in Writers => WriterFits(a))
    BY Holding
  <1>2. OnlyActs(a) /\ lock' = None
    BY <1>1 DEF OnlyActs, Leaves, Moves, Outside
  <1>3. a \in Writers => WriterFits(a)'
    BY <1>1 DEF WriterFits, Preparing, Undoing, Leaves, Moves, DataSame, Recovering, Settling, After
  <1> QED BY <1>1, <1>2, <1>3, MoveKeeps

-----------------------------------------------------------------------------
(***************************************************************************)
(* Recovery.                                                               *)
(***************************************************************************)
\* Looking at the three paths tells apart what happened.
LEMMA RecoverFits ==
  ASSUME Inv, NEW a \in Actors, Recover(a)
  PROVE  Inv'
  <1>0. Shape'  BY RecoveryShape DEF RecoverySteps, Inv
  <1>1. pc[a] = "recover" /\ lock = a /\ HolderFits(a) /\ (a \in Writers => WriterFits(a))
    BY Holding DEF Recover, At, Outside
  <1>2. saw[a] = row /\ ret[a] # "end" /\ ret[a] \in {"judge", "leave", "verify", "recheck"}
    BY <1>1 DEF HolderFits, Loaded, Recovering, Inv, Shape, TypeOK
  <1>3. Verdict(a) \in Steps \ {"recover", "reloaded"} /\ Moves(a, Verdict(a))
    <2>1. Verdict(a) \in Steps \ {"recover", "reloaded"}
      BY <1>2 DEF Verdict, Steps
    <2> QED BY <2>1, Going DEF Recover, Inv
  <1>4. DataSame /\ UNCHANGED <<row, saw, ret, cur, left, lock>>
    BY DEF Recover, DataSame, RecoverFrame, diskVars
  <1>5. OnlyActs(a) /\ RowCloses(a) /\ Shut'
    <2>1. Verdict(a) \notin Outside
      BY <1>2 DEF Verdict, Outside
    <2> QED BY <1>1, <1>3, <1>4, <2>1 DEF OnlyActs, RowCloses, Moves, Shut, Inv
  <1>6. a \in Writers => WriterFits(a)'
    <2> SUFFICES ASSUME a \in Writers PROVE WriterFits(a)'  OBVIOUS
    <2>1. Verdict(a) = "judge" => ret[a] = "judge"
      BY <1>2 DEF Verdict
    <2>2. Verdict(a) \notin {"lock", "load", "attest", "intend", "idle", "link", "unlink", "swap", "relocate", "end", "confirm", "finalize",
              "inspect", "commit", "restore", "sweep", "discard", "discard2"}
      BY <1>2 DEF Verdict
    <2>3. Preparing(a)' => Preparing(a)
      BY <1>1, <1>3, <1>4, <2>1, <2>2 DEF Preparing, Moves, Recovering
    <2> QED BY <1>1, <1>3, <1>4, <2>2, <2>3 DEF WriterFits, Undoing, Moves, DataSame
  <1>7. HolderFits(a)'
    <2>1. pc'[a] = Verdict(a)
      BY <1>3 DEF Moves
    <2>2. CASE row.pend = None
      <3>1. CASE dest = None \/ IsPublished(a)
        <4>1. Verdict(a) = ret[a]
          BY <1>2, <2>2, <3>1 DEF Verdict, Intent
        <4> QED BY <1>2, <1>4, <2>1, <2>2, <4>1 DEF HolderFits, Loaded, PathFits, AsideFits, Recovering, Settling
      <3>2. CASE ~(dest = None \/ IsPublished(a))
        <4>1. Verdict(a) = "retire"
          BY <1>2, <2>2, <3>2 DEF Verdict, Intent
        <4>2. dest \in Heya => dest = ghost.first
          BY <1>2, <2>2, <3>2, BytesAssumption DEF Inv, Known, IsPublished
        <4> QED BY <1>2, <1>4, <2>1, <2>2, <4>1, <4>2 DEF HolderFits, Loaded, PathFits, AsideFits, Recovering, Settling, DataSame
      <3> QED BY <3>1, <3>2
    <2>3. CASE row.pend # None
      <3> DEFINE p == row.pend
      <3>0. /\ p \in Writers /\ PendFits(p) /\ WriterFits(p) /\ Intent(a) = p /\ Wanted(a) = want[p]
            /\ want[p] # None /\ want[p] \notin User /\ ghost.overtaken \subseteq User
        BY <1>2, <2>3, BytesAssumption DEF Inv, Shape, TypeOK, Rows, Intent, Wanted, PendFits, Notes
      <3>9. Loaded(a)'
        BY <1>2, <1>4, <2>1, <2>3, <3>0, <1>5 DEF Loaded, Recovering, Settling, Verdict
      <3>8. own[p] # "swapped" /\ pc[p] # "swap" /\ (own[p] = "moved" => UndoFits(p))
        <4>1. p \in Actors /\ (pc[p] \notin Outside => p = a)
          BY <1>1, <3>0 DEF Inv, Locked, Actors
        <4> QED BY <1>1, <3>0, <4>1 DEF WriterFits, Undoing, Outside
      <3>7. row.pub \in Heya \cup {None} /\ own[p] \in {"nothing", "staged", "swapped", "moved"}
        BY <3>0 DEF Inv, Shape, TypeOK, Rows
      <3>1. CASE dest = want[p] /\ Aside(a) # "nowhere" /\ BytesAside(a) # row.pub
        <4>1. Verdict(a) = "putBack"
          BY <1>2, <2>3, <3>0, <3>1 DEF Verdict
        <4>2. PathFits(a)'
          BY <1>4, <2>1, <3>1, <4>1 DEF PathFits, DataSame
        <4>3. AsideFits(a)'
          <5>1. previous[p] \in Standing \/ (previous[p] = None /\ staged[p] \in Standing)
            BY <3>0, <3>1 DEF PendFits, Aside, BytesAside, Free, Standing
          <5>2. own[p] = "nothing"
            BY <3>0, <3>1, <3>7, <3>8, <5>1, BytesAssumption DEF UndoFits, Free, WriterFits, Standing
          <5> QED BY <1>4, <2>1, <4>1, <5>1, <5>2 DEF AsideFits, DataSame, Standing
        <4> QED BY <3>9, <4>2, <4>3 DEF HolderFits
      <3>2. CASE dest = want[p] /\ ~(Aside(a) # "nowhere" /\ BytesAside(a) # row.pub)
        <4>1. Verdict(a) = "accept"
          BY <1>2, <2>3, <3>0, <3>2 DEF Verdict
        <4>2. PathFits(a)'
          BY <1>4, <2>1, <3>2, <4>1 DEF PathFits, DataSame
        <4>3. AsideFits(a)'
          <5>1. staged[p] \notin User /\ previous[p] \notin User
            BY <3>0, <3>2, <3>7, BytesAssumption DEF PendFits, Aside, BytesAside
          <5>2. own[p] # "moved"
            BY <3>0, <3>2, <3>8 DEF UndoFits, Free
          <5> QED BY <1>4, <2>1, <4>1, <5>1, <5>2 DEF AsideFits, DataSame
        <4> QED BY <3>9, <4>2, <4>3 DEF HolderFits
      <3>3. CASE dest # want[p] /\ IsPublished(a) /\ StagedReady(a)
        <4>1. Verdict(a) = "redo"
          BY <1>2, <2>3, <3>0, <3>3 DEF Verdict, IsPublished
        <4>2. PathFits(a)'
          BY <1>2, <1>4, <2>1, <3>3, <4>1 DEF PathFits, DataSame, IsPublished
        <4>3. AsideFits(a)'
          <5>1. own[p] = "nothing"
            BY <1>2, <3>0, <3>3, <3>7, <3>8, BytesAssumption DEF UndoFits, Free, WriterFits, PendFits, IsPublished
          <5> QED BY <1>4, <2>1, <3>0, <3>3, <4>1, <5>1 DEF AsideFits, DataSame, StagedReady
        <4> QED BY <3>9, <4>2, <4>3 DEF HolderFits
      <3>4. CASE dest # want[p] /\ ~IsPublished(a) /\ dest = None /\ StagedReady(a)
        <4>1. Verdict(a) = "relink"
          BY <1>2, <2>3, <3>0, <3>4 DEF Verdict
        <4>2. PathFits(a)'
          BY <1>4, <2>1, <3>4, <4>1 DEF PathFits, DataSame, Free
        <4>3. AsideFits(a)'
          <5>1. staged[p] = want[p] /\ previous[p] = None /\ own[p] # "moved"
            BY <3>0, <3>4, <3>8 DEF StagedReady, PendFits, UndoFits
          <5> QED BY <1>4, <2>1, <4>1, <5>1 DEF AsideFits, DataSame
        <4> QED BY <3>9, <4>2, <4>3 DEF HolderFits
      <3>5. CASE dest # want[p] /\ (dest = None \/ IsPublished(a)) /\ ~StagedReady(a)
        <4>1. Verdict(a) = "forget"
          BY <1>2, <2>3, <3>0, <3>5 DEF Verdict
        <4>2. PathFits(a)'
          BY <1>2, <1>4, <2>1, <3>5, <4>1 DEF PathFits, DataSame, IsPublished, Free
        <4>3. AsideFits(a)'
          BY <1>4, <2>1, <4>1 DEF AsideFits, DataSame
        <4> QED BY <3>9, <4>2, <4>3 DEF HolderFits
      <3>6. CASE dest # want[p] /\ ~(dest = None \/ IsPublished(a))
        <4>1. Verdict(a) = "tidy"
          BY <1>2, <2>3, <3>0, <3>6 DEF Verdict
        <4>2. PathFits(a)'
          BY <1>2, <1>4, <2>1, <3>0, <3>6, <4>1 DEF PathFits, DataSame, IsPublished, Free, PendFits
        <4>3. AsideFits(a)'
          BY <1>4, <2>1, <4>1 DEF AsideFits, DataSame
        <4> QED BY <3>9, <4>2, <4>3 DEF HolderFits
      <3> QED BY <3>1, <3>2, <3>3, <3>4, <3>5, <3>6
    <2> QED BY <2>2, <2>3
  <1> QED BY <1>0, <1>1, <1>4, <1>5, <1>6, <1>7, MoveKeeps

\* Outside an exchange nothing has to be rolled back.
LEMMA Calm ==
  ASSUME Inv, NEW w \in Writers,
         pc[w] \notin {"relocate", "inspect", "commit", "restore", "sweep", "discard", "discard2"}
  PROVE  own[w] \in {"nothing", "staged"}
  BY DEF Inv, WriterFits, Shape, TypeOK
\* Closing the open intent loses nobody's last word, if none of its files are
\* the user's or its bytes do not stand at the path.
LEMMA LastWordClosed ==
  ASSUME Inv, DataSame, row'.pend = None,
         row.pend # None =>
           dest # want[row.pend] \/ (staged[row.pend] \notin User /\ previous[row.pend] \notin User)
  PROVE  LastWord'
  BY DEF Inv, LastWord, DataSame, Standing
\* The last statement of a callback, which may close the open intent.
LEMMA ClosingLeaves ==
  ASSUME Inv, Shape', NEW a \in Actors, pc[a] \notin Outside, DataSame, UNCHANGED <<ret, cur>>,
         \A b \in Actors \ {a} : saw'[b] = saw[b],
         NEW effect \in Rows, LastStatement(a, effect),
         effect.pend = None \/ effect = row,
         a \in Writers => own[a] \in {"nothing", "staged"},
         pc[a] \notin {"link", "swap"},
         row' = effect /\ effect # row => LastWord' /\ Known'
  PROVE  Inv'
  <1>1. lock = a  BY Holding
  <1>2. Costs("fault") /\ row' \in {row, effect} /\ Leaves(a)
    BY StatingLast DEF Inv
  <1>3. Shut'
    BY <1>2, ShutKept DEF LimitNames, Windows
  <1>4. RowCloses(a) /\ (row' # row => LastWord' /\ Known')
    BY <1>1, <1>2 DEF RowCloses
  <1> QED BY <1>2, <1>3, <1>4, LeaveKeeps
\* Another statement, which may.
LEMMA ClosingGoesOn ==
  ASSUME Inv, Shape', NEW a \in Actors, pc[a] \notin Outside, DataSame, UNCHANGED <<ret, cur>>,
         \A b \in Actors \ {a} : saw'[b] = saw[b],
         NEW effect \in Rows, NEW next \in Steps \ Outside, Statement(a, effect, next),
         effect.pend = None \/ effect = row,
         a \in Writers => own[a] \in {"nothing", "staged"},
         pc[a] \notin {"link", "swap"},
         row' = effect /\ effect # row => LastWord' /\ Known',
         row' = effect /\ pc'[a] = next => HolderFits(a)' /\ (a \in Writers => WriterFits(a)')
  PROVE  Inv'
  <1>1. lock = a  BY Holding
  <1>2. /\ Costs("fault") /\ row' \in {row, effect}
        /\ \/ row' = effect /\ Moves(a, next) /\ lock' = lock
           \/ Leaves(a)
    BY Stating DEF Inv
  <1>3. Shut'
    BY <1>2, ShutKept DEF LimitNames, Windows
  <1>4. RowCloses(a) /\ (row' # row => LastWord' /\ Known')
    BY <1>1, <1>2 DEF RowCloses
  <1>5. CASE Leaves(a)
    BY <1>2, <1>3, <1>4, <1>5, LeaveKeeps
  <1>6. CASE row' = effect /\ Moves(a, next) /\ lock' = lock
    <2>1. OnlyActs(a) /\ pc'[a] = next
      BY <1>1, <1>6 DEF OnlyActs, Moves
    <2> QED BY <1>3, <1>4, <1>6, <2>1, MoveKeeps
  <1> QED BY <1>2, <1>5, <1>6
\* A query, and where it leads.
LEMMA QueryFits ==
  ASSUME Inv, Shape', NEW a \in Actors, pc[a] \notin Outside, DataSame, UNCHANGED <<row, cur>>,
         \A b \in Actors \ {a} : ret'[b] = ret[b],
         NEW next \in Steps \ Outside, Query(a, next),
         a \in Writers => own[a] \in {"nothing", "staged"},
         pc[a] \notin {"link", "swap"},
         saw'[a] = row /\ pc'[a] = next => HolderFits(a)' /\ (a \in Writers => WriterFits(a)')
  PROVE  Inv'
  <1>1. lock = a  BY Holding
  <1>2. /\ Costs("fault") /\ \A b \in Actors \ {a} : saw'[b] = saw[b]
        /\ \/ Moves(a, next) /\ saw'[a] = row /\ lock' = lock
           \/ Leaves(a)
    BY Querying DEF Inv
  <1>3. Shut'
    BY <1>2, ShutKept DEF LimitNames, Windows
  <1>4. RowCloses(a)
    BY DEF RowCloses
  <1>5. CASE Leaves(a)
    BY <1>2, <1>3, <1>4, <1>5, LeaveKeeps
  <1>6. CASE Moves(a, next) /\ saw'[a] = row /\ lock' = lock
    <2>1. OnlyActs(a) /\ pc'[a] = next
      BY <1>1, <1>2, <1>6 DEF OnlyActs, Moves
    <2> QED BY <1>3, <1>4, <1>6, <2>1, MoveKeeps
  <1> QED BY <1>2, <1>5, <1>6

\* The statements of recovery.
LEMMA RecoveryStatementsFit ==
  ASSUME Inv, NEW a \in Actors,
         Acknowledge(a) \/ Reloaded(a) \/ Retire(a) \/ Forget(a) \/ Disown(a) \/ LeaveNow(a)
  PROVE  Inv'
  <1>0. Shape' /\ TypeOK
    BY RecoveryShape DEF RecoverySteps, Inv, Shape
  <1>1. pc[a] \in {"acknowledge", "reloaded", "retire", "forget", "disown", "leave"}
    BY DEF Acknowledge, Reloaded, Retire, Forget, Disown, LeaveNow, At
  <1>2. pc[a] \notin Outside /\ lock = a /\ HolderFits(a) /\ (a \in Writers => WriterFits(a) /\ own[a] \in {"nothing", "staged"})
    BY <1>1, Holding, Calm DEF Outside
  <1>3. /\ ret[a] \in {"judge", "leave", "verify", "recheck", "end"}
        /\ pc[a] \in Recovering => ret[a] # "end"
        /\ pc[a] \in (Recovering \ {"reloaded"}) => saw[a] = row
        /\ pc[a] \in Settling => row.pend \in Writers /\ PendFits(row.pend) /\ row.pend # None
    BY <1>0, <1>2 DEF HolderFits, Loaded, Inv, TypeOK, Rows, Recovering, Settling
  <1>4. CASE Acknowledge(a)
    <2> DEFINE p == row.pend
               closed == [pub |-> want[p], pend |-> None]
    <2>1. DataSame /\ UNCHANGED <<ret, saw, cur>> /\ pc[a] = "acknowledge"
      BY <1>4 DEF Acknowledge, DataSame, diskVars, At
    <2>2. p \in Writers /\ PendFits(p) /\ Intent(a) = p /\ Wanted(a) = want[p] /\ ret[a] # "end"
      BY <1>3, <2>1 DEF Intent, Wanted, Recovering, Settling
    <2>3. closed \in Rows /\ closed.pend = None /\ Statement(a, closed, "reloaded")
      BY <1>0, <1>4, <2>2 DEF Acknowledge, TypeOK, Rows
    <2>4. row' = closed => LastWord' /\ Known'
      <3>1. staged[p] \notin User /\ previous[p] \notin User /\ dest \in Free \cup {want[p]}
        BY <1>2, <2>1 DEF HolderFits, PathFits, AsideFits
      <3> QED BY <2>1, <3>1, LastWordClosed, BytesAssumption DEF Known, DataSame, Free
    <2>5. row' = closed /\ pc'[a] = "reloaded" => HolderFits(a)' /\ (a \in Writers => WriterFits(a)')
      <3>1. row' = closed /\ pc'[a] = "reloaded" => HolderFits(a)'
        BY <2>1, <2>2 DEF HolderFits, Loaded, PathFits, AsideFits, Recovering, Settling
      <3>2. a \in Writers /\ row' = closed /\ pc'[a] = "reloaded" => WriterFits(a)'
        BY <1>2, <2>1, ActorsAssumption DEF WriterFits, Preparing, Undoing, DataSame, Recovering, Settling, Actors
      <3> QED BY <3>1, <3>2
    <2> HIDE DEF closed
    <2> QED BY <1>0, <1>2, <2>1, <2>3, <2>4, <2>5, ClosingGoesOn DEF Steps, Outside
  <1>5. CASE Reloaded(a)
    <2>1. DataSame /\ UNCHANGED <<row, ret, cur>> /\ pc[a] = "reloaded" /\ Query(a, ret[a])
      BY <1>5 DEF Reloaded, DataSame, diskVars, At
    <2>2. ret[a] \in Steps \ Outside /\ ret[a] # "end" /\ row.pend = None
      BY <1>2, <1>3, <2>1 DEF Steps, Outside, Recovering, HolderFits, Loaded
    <2>3. saw'[a] = row /\ pc'[a] = ret[a] => HolderFits(a)'
      BY <1>3, <2>1, <2>2 DEF HolderFits, Loaded, PathFits, AsideFits, Recovering, Settling
    <2>4. a \in Writers /\ pc'[a] = ret[a] => WriterFits(a)'
      BY <1>2, <1>3, <2>1, <2>2 DEF WriterFits, Preparing, Undoing, DataSame, Recovering, Settling
    <2> QED BY <1>0, <1>2, <2>1, <2>2, <2>3, <2>4, QueryFits
  <1>6. CASE Retire(a)
    <2>1. DataSame /\ UNCHANGED <<ret, cur>> /\ pc[a] = "retire" /\ \A b \in Actors \ {a} : saw'[b] = saw[b]
      BY <1>0, <1>6 DEF Retire, DataSame, diskVars, At, TypeOK
    <2>2. NoRow \in Rows /\ NoRow.pend = None
      BY DEF NoRow, Rows
    <2>3. row' = NoRow => LastWord' /\ Known'
      <3>1. dest \in Free \/ (row.pend = None /\ (dest \in Heya => dest = ghost.first))
        BY <1>2, <2>1 DEF HolderFits, PathFits
      <3>2. row.pend # None => want[row.pend] \in Heya
        BY <1>0 DEF Inv, PendFits, TypeOK, Rows
      <3> QED BY <2>1, <2>2, <3>1, <3>2, LastWordClosed, BytesAssumption DEF Known, DataSame, Free
    <2>4. CASE a \in Writers /\ ret[a] = "judge" /\ Statement(a, NoRow, "judge") /\ saw' = [saw EXCEPT ![a] = IF pc'[a] = "judge" THEN NoRow ELSE @]
      <3>1. pc'[a] = "judge" => saw'[a] = NoRow
        BY <1>0, <2>4 DEF TypeOK
      <3>2. row' = NoRow /\ pc'[a] = "judge" => HolderFits(a)'
        BY <2>2, <3>1 DEF HolderFits, Loaded, PathFits, AsideFits, Recovering, Settling
      <3>3. row' = NoRow /\ pc'[a] = "judge" => WriterFits(a)'
        BY <1>2, <2>1, <2>2, <2>4, ActorsAssumption DEF WriterFits, Preparing, Undoing, DataSame, Recovering, Settling, Actors
      <3> QED BY <1>0, <1>2, <2>1, <2>2, <2>3, <2>4, <3>2, <3>3, ClosingGoesOn DEF Steps, Outside
    <2>5. CASE LastStatement(a, NoRow)
      BY <1>0, <1>2, <2>1, <2>2, <2>3, <2>5, ClosingLeaves
    <2> QED BY <1>6, <2>4, <2>5 DEF Retire
  <1>7. CASE Forget(a)
    <2> DEFINE p == row.pend
    <2>1. DataSame /\ UNCHANGED <<ret, saw, cur>> /\ pc[a] = "forget" /\ Statement(a, Forgotten(a), "reloaded")
      BY <1>7 DEF Forget, DataSame, diskVars, At
    <2>2. p \in Writers /\ PendFits(p) /\ Intent(a) = p /\ ret[a] # "end"
      BY <1>3, <2>1 DEF Intent, Recovering, Settling
    <2>3. Forgotten(a) = [pub |-> row.pub, pend |-> None] /\ Forgotten(a) \in Rows
      BY <1>0, <2>2 DEF Forgotten, NoRow, TypeOK, Rows
    <2>4. row' = Forgotten(a) => LastWord' /\ Known'
      <3>1. dest \in Free \cup ({row.pub} \ {want[p]}) /\ want[p] \in Heya
        BY <1>2, <2>1, <2>2 DEF HolderFits, PathFits, PendFits
      <3> QED BY <2>1, <2>3, <3>1, LastWordClosed, BytesAssumption DEF Known, DataSame, Free
    <2>5. row' = Forgotten(a) /\ pc'[a] = "reloaded" => HolderFits(a)' /\ (a \in Writers => WriterFits(a)')
      <3>1. row' = Forgotten(a) /\ pc'[a] = "reloaded" => HolderFits(a)'
        BY <2>1, <2>2, <2>3 DEF HolderFits, Loaded, PathFits, AsideFits, Recovering, Settling
      <3>2. a \in Writers /\ row' = Forgotten(a) /\ pc'[a] = "reloaded" => WriterFits(a)'
        BY <1>2, <2>1, <2>3, ActorsAssumption DEF WriterFits, Preparing, Undoing, DataSame, Recovering, Settling, Actors
      <3> QED BY <3>1, <3>2
    <2> QED BY <1>0, <1>2, <2>1, <2>3, <2>4, <2>5, ClosingGoesOn DEF Steps, Outside
  <1>8. CASE Disown(a)
    <2>1. DataSame /\ UNCHANGED <<ret, saw, cur>> /\ pc[a] = "disown" /\ LastStatement(a, NoRow)
      BY <1>8 DEF Disown, DataSame, diskVars, At
    <2>2. NoRow \in Rows /\ NoRow.pend = None
      BY DEF NoRow, Rows
    <2>3. row' = NoRow => LastWord' /\ Known'
      <3>1. dest \in Free \/ (row.pend = None /\ (dest \in Heya => dest = ghost.first))
        BY <1>2, <2>1 DEF HolderFits, PathFits
      <3>2. row.pend # None => want[row.pend] \in Heya
        BY <1>0 DEF Inv, PendFits, TypeOK, Rows
      <3> QED BY <2>1, <2>2, <3>1, <3>2, LastWordClosed, BytesAssumption DEF Known, DataSame, Free
    <2> QED BY <1>0, <1>2, <2>1, <2>2, <2>3, ClosingLeaves
  <1>9. CASE LeaveNow(a)
    <2>1. DataSame /\ UNCHANGED <<row, ret, saw, cur, left>> /\ Leaves(a) /\ pc[a] = "leave"
      BY <1>9, Leaving DEF LeaveNow, DataSame, diskVars, Inv, At
    <2>2. Shut' /\ RowCloses(a)
      BY <2>1 DEF Inv, Shut, RowCloses
    <2> QED BY <1>0, <1>2, <2>1, <2>2, LeaveKeeps
  <1> QED BY <1>4, <1>5, <1>6, <1>7, <1>8, <1>9

-----------------------------------------------------------------------------
(***************************************************************************)
(* Publish, where it touches no file.                                      *)
(***************************************************************************)
\* Loading the row.
LEMMA LoadFits ==
  ASSUME Inv, NEW a \in Writers, Load(a) \/ Reload(a)
  PROVE  Inv'
  <1>0. Shape' /\ TypeOK /\ a \in Actors
    BY WriterShape DEF WriterSteps, Inv, Shape, Actors
  <1>1. pc[a] \in {"load", "reload"} /\ pc[a] \notin Outside
    BY DEF Load, Reload, At, Outside
  <1>2. HolderFits(a) /\ WriterFits(a) /\ own[a] \in {"nothing", "staged"}
    BY <1>0, <1>1, Holding, Calm
  <1>3. DataSame /\ UNCHANGED <<row, cur>> /\ \A b \in Actors \ {a} : ret'[b] = ret[b]
    BY <1>0 DEF Load, Reload, DataSame, diskVars, TypeOK
  <1>4. CASE Load(a)
    <2> DEFINE next == IF Exists(row) THEN "recover" ELSE "judge"
    <2>1. Query(a, next) /\ ret'[a] = "judge" /\ pc[a] = "load"
      BY <1>0, <1>4 DEF Load, TypeOK, At
    <2>2. next \in {"recover", "judge"} /\ next \in Steps \ Outside /\ (next = "judge" => row.pend = None)
      BY DEF Exists, NoRow, Steps, Outside
    <2>3. saw'[a] = row /\ pc'[a] = next => HolderFits(a)'
      BY <1>3, <2>1, <2>2 DEF HolderFits, Loaded, PathFits, AsideFits, Recovering, Settling
    <2>4. pc'[a] = next => WriterFits(a)'
      BY <1>2, <1>3, <2>1, <2>2 DEF WriterFits, Preparing, Undoing, DataSame, Recovering, Settling
    <2> HIDE DEF next
    <2> QED BY <1>0, <1>1, <1>2, <1>3, <2>1, <2>2, <2>3, <2>4, QueryFits
  <1>5. CASE Reload(a)
    <2> DEFINE next == IF Exists(row) THEN "recover" ELSE "leave"
    <2>1. Query(a, next) /\ ret'[a] = "leave" /\ pc[a] = "reload"
      BY <1>0, <1>5 DEF Reload, TypeOK, At
    <2>2. next \in {"recover", "leave"} /\ next \in Steps \ Outside
      BY DEF Exists, NoRow, Steps, Outside
    <2>3. saw'[a] = row /\ pc'[a] = next => HolderFits(a)'
      BY <1>3, <2>1, <2>2 DEF HolderFits, Loaded, PathFits, AsideFits, Recovering, Settling
    <2>4. pc'[a] = next => WriterFits(a)'
      BY <1>2, <1>3, <2>1, <2>2 DEF WriterFits, Preparing, Undoing, DataSame, Recovering, Settling
    <2> HIDE DEF next
    <2> QED BY <1>0, <1>1, <1>2, <1>3, <2>1, <2>2, <2>3, <2>4, QueryFits
  <1> QED BY <1>4, <1>5

\* Looking at the path before publishing.
LEMMA JudgeFits ==
  ASSUME Inv, NEW a \in Writers, Judge(a)
  PROVE  Inv'
  <1>0. Shape' /\ TypeOK /\ a \in Actors
    BY WriterShape DEF WriterSteps, Inv, Shape, Actors
  <1>1. pc[a] = "judge" /\ pc[a] \notin Outside
    BY DEF Judge, At, Outside
  <1>2. lock = a /\ HolderFits(a) /\ WriterFits(a) /\ own[a] \in {"nothing", "staged"}
    BY <1>0, <1>1, Holding, Calm
  <1>3. saw[a] = row /\ row.pend = None /\ want[a] \in Heya
    BY <1>1, <1>2 DEF HolderFits, Loaded, WriterFits, Preparing
  <1>4. DataSame /\ UNCHANGED <<row, ret, saw, left>> /\ cur'[a] = dest /\ \A b \in Actors \ {a} : cur'[b] = cur[b]
    BY <1>0 DEF Judge, DataSame, diskVars, TypeOK
  <1>5. Shut' /\ RowCloses(a)
    BY <1>4 DEF Shut, RowCloses, Inv
  <1>6. CASE Leave(a)
    <2>1. Leaves(a)
      BY <1>0, <1>6, Leaving DEF Inv
    <2> QED BY <1>0, <1>1, <1>2, <1>4, <1>5, <2>1, LeaveKeeps
  <1>7. CASE ~Leave(a)
    <2>1. \/ dest = want[a] /\ Go(a, "attest") /\ lock' = lock
          \/ dest # None /\ ~IsPublished(a) /\ Go(a, "disown") /\ lock' = lock
          \/ dest # want[a] /\ (dest = None \/ IsPublished(a)) /\ Go(a, "intend") /\ lock' = lock
      BY <1>7 DEF Judge
    <2>2. PICK to \in {"attest", "disown", "intend"} : Go(a, to)
      BY <2>1
    <2>3. Moves(a, to) /\ lock' = lock /\ pc'[a] = to
      BY <1>0, <2>1, <2>2, Going DEF Steps, Inv, Moves
    <2>4. OnlyActs(a)
      BY <1>2, <1>4, <2>3 DEF OnlyActs, Moves, Outside
    <2>5. WriterFits(a)'
      BY <1>1, <1>2, <1>3, <1>4, <2>3, ActorsAssumption DEF WriterFits, Preparing, Undoing, DataSame, Recovering, Settling, Actors
    <2>6. HolderFits(a)'
      <3>1. Loaded(a)'
        BY <1>3, <1>4, <2>3 DEF Loaded, Recovering, Settling
      <3>2. PathFits(a)'
        <4>1. CASE to = "attest"
          <5>1. dest = want[a]
            BY <1>0, <2>1, <2>2, <4>1 DEF Go, TypeOK
          <5> QED BY <1>4, <2>3, <4>1, <5>1 DEF PathFits, DataSame
        <4>2. CASE to = "disown"
          <5>1. dest # None /\ ~IsPublished(a)
            BY <1>0, <2>1, <2>2, <4>2 DEF Go, TypeOK
          <5>2. dest \in Heya => dest = ghost.first
            BY <1>3, <5>1, BytesAssumption DEF Inv, Known, IsPublished
          <5> QED BY <1>3, <1>4, <2>3, <4>2, <5>2 DEF PathFits, DataSame
        <4>3. CASE to = "intend"
          <5>1. dest # want[a] /\ (dest = None \/ IsPublished(a))
            BY <1>0, <2>1, <2>2, <4>3 DEF Go, TypeOK
          <5> QED BY <1>3, <1>4, <2>3, <4>3, <5>1 DEF PathFits, DataSame, IsPublished, Free
        <4> QED BY <4>1, <4>2, <4>3
      <3>3. AsideFits(a)'
        BY <2>3 DEF AsideFits
      <3> QED BY <3>1, <3>2, <3>3 DEF HolderFits
    <2> QED BY <1>0, <1>1, <1>4, <1>5, <2>4, <2>5, <2>6, MoveKeeps
  <1> QED BY <1>6, <1>7

\* Attesting the bytes that already stand there, and finalising the intent.
LEMMA RecordFits ==
  ASSUME Inv, NEW a \in Writers, Attest(a) \/ Finalize(a)
  PROVE  Inv'
  <1>0. Shape' /\ TypeOK /\ a \in Actors
    BY WriterShape DEF WriterSteps, Inv, Shape, Actors
  <1>1. pc[a] \in {"attest", "finalize"} /\ pc[a] \notin Outside
    BY DEF Attest, Finalize, At, Outside
  <1>2. HolderFits(a) /\ WriterFits(a) /\ own[a] \in {"nothing", "staged"}
    BY <1>0, <1>1, Holding, Calm
  <1>3. DataSame /\ UNCHANGED <<ret, saw, cur>>
    BY DEF Attest, Finalize, DataSame, diskVars
  <1> DEFINE effect == [pub |-> want[a], pend |-> None]
  <1>4. effect \in Rows /\ effect.pend = None /\ effect.pub = want[a]
    BY <1>0 DEF TypeOK, Rows
  <1>5. LastStatement(a, effect)
    <2>1. CASE Attest(a)
      BY <2>1 DEF Attest
    <2>2. CASE Finalize(a)
      <3>1. row.pend = a
        BY <1>2, <2>2 DEF Finalize, At, HolderFits, Loaded
      <3> QED BY <2>2, <3>1 DEF Finalize
    <2> QED BY <2>1, <2>2
  <1> HIDE DEF effect
  <1>6. row' = effect => LastWord' /\ Known'
    <2>1. row.pend # None => row.pend = a /\ staged[a] = None /\ previous[a] = None
      BY <1>1, <1>2 DEF HolderFits, Loaded, AsideFits
    <2>2. dest \in Free \cup {want[a]}
      BY <1>1, <1>2 DEF HolderFits, PathFits, Loaded
    <2>3. row' = effect => LastWord'
      BY <1>3, <1>4, <2>1, LastWordClosed, BytesAssumption
    <2> QED BY <1>3, <1>4, <2>2, <2>3, BytesAssumption DEF Known, DataSame, Free
  <1> QED BY <1>0, <1>1, <1>2, <1>3, <1>4, <1>5, <1>6, ClosingLeaves

\* Recording the intent: nobody is undoing when a link or an exchange begins,
\* and whoever is undoing now keeps this one from beginning.
LEMMA IntendFits ==
  ASSUME Inv, NEW a \in Writers, Intend(a)
  PROVE  Inv'
  <1>0. Shape' /\ TypeOK /\ a \in Actors /\ a # None
    BY WriterShape, ActorsAssumption DEF WriterSteps, Inv, Shape, Actors
  <1>1. pc[a] = "intend" /\ pc[a] \notin Outside
    BY DEF Intend, At, Outside
  <1>2. lock = a /\ HolderFits(a) /\ WriterFits(a) /\ own[a] \in {"nothing", "staged"}
    BY <1>0, <1>1, Holding, Calm
  <1>3. saw[a] = row /\ row.pend = None /\ own[a] = "staged" /\ staged[a] = want[a] /\ want[a] \in Heya /\ previous[a] = None
    BY <1>1, <1>2 DEF HolderFits, Loaded, WriterFits, Preparing
  <1>4. DataSame /\ UNCHANGED <<ret, saw, cur>>
    BY DEF Intend, DataSame, diskVars
  <1>5. CASE Leave(a) /\ row' = row
    <2>1. Leaves(a)
      BY <1>0, <1>5, Leaving DEF Inv
    <2>2. Costs("fault")
      <3>1. "fault" \in LimitNames \ {"all"} /\ "answer" \in Windows
        BY DEF LimitNames, Windows
      <3> QED BY <1>0, <1>2, <1>5, <2>1, <3>1, Spending, NoWindow DEF Intend, Inv, Leaves, Moves, After
    <2>3. Shut' /\ RowCloses(a)
      BY <1>5, <2>2, ShutKept DEF LimitNames, Windows, RowCloses
    <2> QED BY <1>0, <1>1, <1>2, <1>4, <1>5, <2>1, <2>3, LeaveKeeps
  <1>6. CASE ~(Leave(a) /\ row' = row)
    <2> DEFINE to == IF cur[a] = None THEN "link" ELSE "swap"
    <2>1. row' = [row EXCEPT !.pend = a] /\ UNCHANGED <<left, lock>> /\ Go(a, to)
      BY <1>2, <1>6, NoWindow DEF Intend, Windows
    <2>2. to \in {"link", "swap"} /\ to \in Steps /\ Moves(a, to) /\ pc'[a] = to
      BY <1>0, <2>1, Going DEF Steps, Inv, Moves
    <2>3. row'.pend = a /\ row'.pub = row.pub
      BY <1>0, <2>1 DEF TypeOK, Rows
    <2>4. OnlyActs(a) /\ Shut'
      BY <1>2, <1>4, <2>1, <2>2 DEF OnlyActs, Moves, Outside, Shut, Inv
    <2>5. /\ dest \in Free \cup {row.pub}
          /\ to = "link" => dest \in Free
          /\ to = "swap" => row.pub \notin {None, want[a]}
      BY <1>1, <1>2 DEF HolderFits, PathFits
    <2> HIDE DEF to
    <2>6. Locked' /\ Versions' /\ Once'
      BY <1>0, <1>4, <2>4, LockedKept DEF Inv, Versions, Once, DataSame
    <2>7. ASSUME NEW w \in Writers PROVE WriterFits(w)'
      <3>1. CASE w = a
        BY <1>2, <1>3, <1>4, <2>2, <2>3, <3>1 DEF WriterFits, Preparing, Undoing, DataSame, Recovering, Settling
      <3>2. CASE w # a
        <4>1. WriterFits(w) /\ w \in Actors /\ pc'[w] = pc[w] /\ ret'[w] = ret[w]
          BY <1>4, <2>4, <3>2 DEF Inv, Actors, OnlyActs
        <4>2. Undoing(w)' => UndoFits(w)'
          BY <1>4, <2>2, <2>3, <4>1 DEF WriterFits, Undoing, UndoFits, DataSame, Free, Standing
        <4> QED BY <1>4, <2>3, <3>2, <4>1, <4>2 DEF WriterFits, Preparing, DataSame
      <3> QED BY <3>1, <3>2
    <2>8. ASSUME NEW p \in Writers, row'.pend = p PROVE PendFits(p)'
      <3>1. p = a
        BY <2>3, <2>8
      <3>2. staged[p] \notin ghost.overtaken /\ previous[p] \notin ghost.overtaken \cup {want[p]}
        BY <1>0, <1>3, <3>1, BytesAssumption DEF TypeOK, Notes
      <3> QED BY <1>3, <1>4, <2>2, <2>3, <2>5, <3>1, <3>2 DEF PendFits, DataSame, Free
    <2>9. ASSUME NEW b \in Actors, lock' = b PROVE HolderFits(b)'
      <3>1. b = a
        BY <1>2, <2>1, <2>9
      <3>2. Loaded(a)' /\ AsideFits(a)'
        BY <1>3, <1>4, <2>2, <2>3 DEF Loaded, AsideFits, Recovering, Settling
      <3>3. PathFits(a)'
        BY <1>4, <2>2, <2>3, <2>5 DEF PathFits, DataSame, Free
      <3> QED BY <3>1, <3>2, <3>3 DEF HolderFits
    <2>10. LastWord' /\ Known'
      <3>1. Known'
        BY <1>0, <2>3 DEF Known
      <3>2. LastWord'
        BY <1>3, <1>4, <2>3 DEF Inv, LastWord, DataSame, Standing
      <3> QED BY <3>1, <3>2
    <2> QED BY <1>0, <2>4, <2>6, <2>7, <2>8, <2>9, <2>10 DEF Inv
  <1> QED BY <1>5, <1>6

\* The two looks after an exchange or a link.
LEMMA LookFits ==
  ASSUME Inv, NEW a \in Writers, Inspect(a) \/ Confirm(a)
  PROVE  Inv'
  <1>0. Shape' /\ TypeOK /\ a \in Actors
    BY WriterShape DEF WriterSteps, Inv, Shape, Actors
  <1>1. pc[a] \in {"inspect", "confirm"} /\ pc[a] \notin Outside
    BY DEF Inspect, Confirm, At, Outside
  <1>2. lock = a /\ HolderFits(a) /\ WriterFits(a) /\ row.pend = a /\ saw[a].pub = row.pub
    BY <1>0, <1>1, Holding DEF HolderFits, Loaded
  <1>3. DataSame /\ UNCHANGED <<row, ret, saw, cur, left, lock>>
    BY DEF Inspect, Confirm, DataSame, diskVars
  <1>4. Shut' /\ RowCloses(a)
    BY <1>3 DEF Shut, RowCloses, Inv
  <1>5. row.pend \in Writers /\ PendFits(a) /\ want[a] \in Heya
    BY <1>2 DEF Inv, PendFits
  <1>6. CASE Inspect(a)
    <2> DEFINE to == IF previous[a] # None /\ previous[a] = saw[a].pub THEN "commit" ELSE "restore"
    <2>1. Moves(a, to) /\ pc'[a] = to /\ to \in {"commit", "restore"} /\ pc[a] = "inspect"
      BY <1>0, <1>6, Going DEF Inspect, Steps, Inv, Moves, At
    <2>2. OnlyActs(a)
      BY <1>2, <1>3, <2>1 DEF OnlyActs, Moves, Outside
    <2>3. WriterFits(a)'
      BY <1>2, <1>3, <2>1 DEF WriterFits, Preparing, Undoing, DataSame, Recovering, Settling
    <2>4. previous[a] \in Standing \cup {row.pub} /\ previous[a] # None
      BY <1>2, <2>1 DEF HolderFits, AsideFits
    <2>5. AsideFits(a)'
      BY <1>2, <1>3, <2>1, <2>4 DEF AsideFits, DataSame, Standing
    <2>6. PathFits(a)'
      BY <1>2, <1>3, <2>1 DEF PathFits, DataSame, HolderFits, Free
    <2>7. Loaded(a)'
      BY <1>2, <1>3, <2>1 DEF Loaded, DataSame, Recovering, Settling
    <2> QED BY <1>0, <1>3, <1>4, <2>1, <2>2, <2>3, <2>5, <2>6, <2>7, MoveKeeps DEF HolderFits
  <1>7. CASE Confirm(a)
    <2> DEFINE to == IF dest = want[a] THEN "finalize" ELSE "disown"
    <2>1. Moves(a, to) /\ pc'[a] = to /\ to \in {"finalize", "disown"} /\ pc[a] = "confirm"
      BY <1>0, <1>7, Going DEF Confirm, Steps, Inv, Moves, At
    <2>2. OnlyActs(a)
      BY <1>2, <1>3, <2>1 DEF OnlyActs, Moves, Outside
    <2>3. WriterFits(a)'
      BY <1>2, <1>3, <2>1 DEF WriterFits, Preparing, Undoing, DataSame, Recovering, Settling
    <2>4. AsideFits(a)'
      BY <1>2, <1>3, <2>1 DEF AsideFits, DataSame, HolderFits
    <2>5. PathFits(a)'
      BY <1>2, <1>3, <2>1, ActorsAssumption DEF PathFits, DataSame, HolderFits, Free, Actors
    <2>6. Loaded(a)'
      BY <1>2, <1>3, <2>1 DEF Loaded, DataSame, Recovering, Settling
    <2> QED BY <1>0, <1>3, <1>4, <2>1, <2>2, <2>3, <2>4, <2>5, <2>6, MoveKeeps DEF HolderFits
  <1> QED BY <1>6, <1>7

-----------------------------------------------------------------------------
(***************************************************************************)
(* Janitors, scans, and whoever takes the lock.                            *)
(***************************************************************************)
\* A visitor that is done has no files.
LEMMA VisitorsFit ==
  ASSUME Inv, NEW a \in Actors \ Writers,
         \/ Examined(a) \/ Verify(a) \/ Done(a)
         \/ Classified(a) \/ Recheck(a) \/ CompareDelete(a)
  PROVE  Inv'
  <1>0. Shape' /\ TypeOK /\ a \in Actors /\ a \notin Writers /\ a # None
    BY VisitorShape, ActorsAssumption DEF Inv, Shape
  <1>1. CASE Examined(a)
    <2> DEFINE next == IF Exists(row) THEN "recover" ELSE "leave"
    <2>1. Query(a, next) /\ ret'[a] = "verify" /\ pc[a] = "examine" /\ DataSame /\ UNCHANGED <<row, cur>>
          /\ \A b \in Actors \ {a} : ret'[b] = ret[b]
      BY <1>0, <1>1 DEF Examined, TypeOK, At, DataSame, diskVars
    <2>2. next \in {"recover", "leave"} /\ next \in Steps \ Outside
      BY DEF Steps, Outside
    <2>3. saw'[a] = row /\ pc'[a] = next => HolderFits(a)'
      BY <2>1, <2>2 DEF HolderFits, Loaded, PathFits, AsideFits, Recovering, Settling
    <2> HIDE DEF next
    <2> QED BY <1>0, <2>1, <2>2, <2>3, QueryFits DEF Outside
  <1>2. CASE Verify(a) \/ Recheck(a)
    <2>1. DataSame /\ UNCHANGED <<row, ret, saw, cur, left>> /\ pc[a] \in {"verify", "recheck"}
      BY <1>2 DEF Verify, Recheck, DataSame, diskVars, At
    <2>2. lock = a /\ saw[a] = row /\ row.pend = None
      BY <1>0, <2>1, Holding DEF HolderFits, Loaded, Outside
    <2>3. Shut' /\ RowCloses(a)
      BY <2>1 DEF Shut, RowCloses, Inv
    <2>4. CASE Leave(a)
      <3>1. Leaves(a)
        BY <2>4, Leaving DEF Inv
      <3> QED BY <1>0, <2>1, <2>3, <3>1, LeaveKeeps DEF Outside
    <2>5. CASE ~Leave(a)
      <3>1. PICK to \in {"disown", "compareDelete"} : Go(a, to) /\ lock' = lock
        BY <1>2, <2>5 DEF Verify, Recheck
      <3>2. Moves(a, to) /\ pc'[a] = to
        BY <3>1, Going DEF Steps, Inv, Moves
      <3>3. OnlyActs(a)
        BY <2>1, <2>2, <3>1, <3>2 DEF OnlyActs, Moves, Outside
      <3>4. dest \in Heya => dest = ghost.first
        <4>1. dest # None => ~IsKnown(saw[a], dest)
          BY <1>2, <2>5 DEF Verify, Recheck
        <4> QED BY <2>2, <4>1, BytesAssumption DEF IsKnown, Inv, Known
      <3>5. HolderFits(a)'
        BY <2>1, <2>2, <3>2, <3>4 DEF HolderFits, Loaded, PathFits, AsideFits, Recovering, Settling, DataSame
      <3> QED BY <1>0, <2>1, <2>3, <3>3, <3>5, MoveKeeps
    <2> QED BY <2>4, <2>5
  <1>3. CASE Done(a)
    <2>1. DataSame /\ UNCHANGED <<row, ret, left, lock>> /\ pc[a] = "end" /\ Moves(a, "idle")
      BY <1>3, Going DEF Done, DataSame, diskVars, At, Steps, Inv
    <2>2. lock # a
      BY <2>1, <1>0 DEF Inv, Locked, Outside
    <2>3. OnlyActs(a)
      BY <1>0, <1>3, <2>1, <2>2 DEF OnlyActs, Moves, Outside, Done, TypeOK
    <2>4. Shut' /\ RowCloses(a)
      BY <2>1 DEF Shut, RowCloses, Inv
    <2> QED BY <1>0, <2>1, <2>2, <2>3, <2>4, MoveKeeps
  <1>4. CASE Classified(a)
    <2>1. DataSame /\ UNCHANGED <<row, cur>> /\ ret'[a] = "recheck" /\ pc[a] = "classify" /\ \A b \in Actors \ {a} : ret'[b] = ret[b]
      BY <1>0, <1>4 DEF Classified, DataSame, diskVars, TypeOK, At
    <2>2. PICK expired \in BOOLEAN :
            Query(a, IF row.pend # None /\ expired THEN "recover"
                     ELSE IF Exists(row) /\ ~IsKnown(row, cur[a]) /\ row.pend = None
                     THEN "compareDelete" ELSE "leave")
      BY <1>4 DEF Classified
    <2> DEFINE next == IF row.pend # None /\ expired THEN "recover"
                       ELSE IF Exists(row) /\ ~IsKnown(row, cur[a]) /\ row.pend = None
                       THEN "compareDelete" ELSE "leave"
    <2>3. next \in {"recover", "compareDelete", "leave"} /\ next \in Steps \ Outside
      BY DEF Steps, Outside
    <2>4. next = "compareDelete" => row.pend = None /\ (dest \in Heya => dest = ghost.first)
      <3>1. dest \in Free \cup {cur[a]}
        BY <1>0, <2>1, Holding DEF HolderFits, PathFits, Outside
      <3> QED BY <3>1, BytesAssumption DEF Inv, Known, IsKnown, Free
    <2>5. Query(a, next)
      BY <2>2
    <2> HIDE DEF next
    <2>6. saw'[a] = row /\ pc'[a] = next => HolderFits(a)'
      BY <2>1, <2>3, <2>4 DEF HolderFits, Loaded, PathFits, AsideFits, Recovering, Settling, DataSame
    <2> QED BY <1>0, <2>1, <2>3, <2>5, <2>6, QueryFits DEF Outside
  <1>5. CASE CompareDelete(a)
    <2> DEFINE kept == IF row = saw[a] THEN NoRow ELSE row
    <2>1. DataSame /\ UNCHANGED <<ret, saw, cur>> /\ pc[a] = "compareDelete" /\ LastStatement(a, kept)
      BY <1>5 DEF CompareDelete, DataSame, diskVars, At
    <2>2. kept \in Rows /\ (kept.pend = None \/ kept = row) /\ (kept # row => kept.pend = None)
      BY <1>0 DEF Rows, TypeOK, NoRow
    <2> HIDE DEF kept
    <2>3. HolderFits(a)
      BY <1>0, <2>1, Holding DEF Outside
    <2>4. row' = kept /\ kept # row => LastWord' /\ Known'
      <3>1. row.pend = None /\ (dest \in Heya => dest = ghost.first)
        BY <2>1, <2>3 DEF HolderFits, Loaded, PathFits
      <3> QED BY <2>1, <2>2, <3>1, LastWordClosed DEF Known, DataSame
    <2> QED BY <1>0, <2>1, <2>2, <2>4, ClosingLeaves DEF Outside
  <1> QED BY <1>1, <1>2, <1>3, <1>4, <1>5

\* Taking the lock, or finding it taken.
LEMMA TakersFit ==
  ASSUME Inv, NEW a \in Actors,
         \/ a \in Writers /\ Lock(a)
         \/ a \in Janitors /\ Examine(a)
         \/ a \in Scanners /\ (Inventory(a) \/ Classify(a))
  PROVE  Inv'
  <1>0. Shape' /\ TypeOK /\ a # None
    BY OutsideShape, ActorsAssumption DEF Inv, Shape, Actors
  <1>1. DataSame /\ UNCHANGED <<row, ret, saw, left>> /\ \A b \in Actors \ {a} : cur'[b] = cur[b]
    BY <1>0 DEF Lock, Examine, Inventory, Classify, diskVars, DataSame, TypeOK, Actors
  <1>2. pc[a] \in {"lock", "idle", "queue"} /\ pc[a] \in Outside /\ lock # a
    <2>1. pc[a] \in {"lock", "idle", "queue"}
      BY DEF Lock, Examine, Inventory, Classify, At
    <2>2. pc[a] \in Outside
      BY <2>1 DEF Outside
    <2> QED BY <2>1, <2>2 DEF Inv, Locked
  <1>3. PICK to \in {"load", "examine", "queue", "classify", "end"} :
          /\ Go(a, to)
          /\ to = "load" => pc[a] = "lock" /\ lock = None /\ lock' = a /\ a \in Writers
          /\ to \in {"examine", "classify"} => lock = None /\ lock' = a /\ a \notin Writers
          /\ to = "classify" => dest = cur[a] /\ cur' = cur
          /\ to \in {"queue", "end"} => lock' = lock /\ a \notin Writers
    BY ActorsAssumption DEF Lock, Examine, Inventory, Classify, At
  <1>4. Moves(a, to) /\ pc'[a] = to
    BY <1>3, Going DEF Steps, Inv, Moves
  <1>5. OnlyActs(a) /\ Shut' /\ RowCloses(a)
    BY <1>1, <1>2, <1>3, <1>4 DEF OnlyActs, Moves, Outside, Shut, Inv, RowCloses
  <1>6. a \in Writers => WriterFits(a)'
    BY <1>1, <1>2, <1>3, <1>4 DEF Inv, WriterFits, Preparing, Undoing, DataSame, Recovering, Settling
  <1>7. lock' = a => HolderFits(a)'
    BY <1>0, <1>1, <1>2, <1>3, <1>4 DEF HolderFits, Loaded, PathFits, AsideFits, Recovering, Settling, DataSame
  <1> QED BY <1>0, <1>1, <1>2, <1>5, <1>6, <1>7, MoveKeeps

-----------------------------------------------------------------------------
(***************************************************************************)
(* Steps of the lock's holder that touch files, all of them those of the   *)
(* open intent.                                                            *)
(***************************************************************************)
\* Files disappear, or Heya's bytes appear: nothing of the user's is doubled.
LEMMA OnceShrinks ==
  ASSUME Once, dest' = dest \/ dest' \notin User,
         \A w \in Writers : /\ staged'[w] = staged[w] \/ staged'[w] \notin User
                            /\ previous'[w] = previous[w] \/ previous'[w] \notin User
  PROVE  Once'
  BY DEF Once
\* An exchange with a staging path moves what it exchanges.
LEMMA OnceSwapsStaged ==
  ASSUME Once, NEW p \in Writers, dest' = staged[p], staged'[p] = dest, previous' = previous,
         \A w \in Writers \ {p} : staged'[w] = staged[w]
  PROVE  Once'
  BY DEF Once
\* So does one with a previous path.
LEMMA OnceSwapsPrevious ==
  ASSUME Once, NEW p \in Writers, dest' = previous[p], previous'[p] = dest, staged' = staged,
         \A w \in Writers \ {p} : previous'[w] = previous[w]
  PROVE  Once'
  BY DEF Once
\* So does a rename from the staging path to the previous path.
LEMMA OnceMoves ==
  ASSUME Once, NEW p \in Writers, dest' = dest, previous'[p] = staged[p], staged'[p] \notin User,
         \A w \in Writers \ {p} : staged'[w] = staged[w] /\ previous'[w] = previous[w]
  PROVE  Once'
  BY DEF Once

\* While the holder is past the beginning of its own publication, or settles an
\* intent that nobody rolls back, nobody is undoing.
LEMMA NobodyUndoes ==
  ASSUME Inv, NEW a \in Actors, pc[a] \notin Outside, pc[a] \notin {"link", "swap"},
         row.pend \in Writers, row.pend = a \/ own[row.pend] # "moved"
  PROVE  \A w \in Writers \ {a} : ~Undoing(w)
  <1> SUFFICES ASSUME NEW w \in Writers \ {a}, Undoing(w) PROVE FALSE  OBVIOUS
  <1>1. row.pend \in {None, w} \/ pc[row.pend] \in {"link", "swap"}
    BY DEF Inv, WriterFits, UndoFits
  <1>2. pc[row.pend] \in {"link", "swap"}
    BY <1>1, ActorsAssumption DEF Undoing, Actors
  <1>3. row.pend = a
    BY <1>2, Holding DEF Outside, Actors
  <1> QED BY <1>2, <1>3

\* A step of the holder on the files of the intent p.
LEMMA FileKeeps ==
  ASSUME Inv, Shape', NEW a \in Actors, pc[a] \notin Outside, NEW p \in Writers, row.pend = p,
         NEW to \in Steps \ Outside, Moves(a, to),
         UNCHANGED <<row, lock, ret, saw, cur, want, left>>,
         \A w \in Writers \ {p} : staged'[w] = staged[w] /\ previous'[w] = previous[w] /\ own'[w] = own[w],
         \A w \in Writers \ {a} : ~Undoing(w),
         a \in Writers => WriterFits(a)', WriterFits(p)',
         PendFits(p)', HolderFits(a)', Versions', Once', LastWord'
  PROVE  Inv'
  <1>1. lock = a /\ p # None
    BY Holding, ActorsAssumption DEF Actors
  <1>2. OnlyActs(a)
    BY <1>1 DEF OnlyActs, Moves
  <1>3. Locked' /\ Shut' /\ Known'
    BY <1>1, <1>2, LockedKept DEF Inv, Shut, Known
  <1>4. ASSUME NEW w \in Writers, w # a, w # p PROVE WriterFits(w)'
    <2>1. WriterFits(w) /\ ~Undoing(w) /\ w \in Actors
      BY <1>4 DEF Inv, Actors
    <2>2. pc'[w] = pc[w] /\ ret'[w] = ret[w] /\ own'[w] = own[w] /\ staged'[w] = staged[w] /\ previous'[w] = previous[w]
      BY <1>2, <1>4, <2>1 DEF OnlyActs
    <2> QED BY <2>1, <2>2 DEF WriterFits, Preparing, Undoing
  <1> QED BY <1>1, <1>3, <1>4 DEF Inv

\* A step of recovery on them: the publisher of the intent is not preparing.
LEMMA RecoveryKeeps ==
  ASSUME Inv, Shape', NEW a \in Actors, pc[a] \in Settling, NEW p \in Writers, row.pend = p,
         NEW to \in Recovering \ {"reloaded"}, Moves(a, to),
         UNCHANGED <<row, lock, ret, saw, cur, want, own, left>>,
         \A w \in Writers \ {p} : staged'[w] = staged[w] /\ previous'[w] = previous[w],
         own[p] # "moved", own[p] = "staged" => staged'[p] \in {want[p], None} /\ previous'[p] = None,
         PendFits(p)', PathFits(a)', AsideFits(a)', Versions', Once', LastWord'
  PROVE  Inv'
  <1>1. pc[a] \in Steps \ Outside /\ to \in Steps \ Outside /\ lock = a /\ HolderFits(a) /\ p \in Actors /\ p # None
    <2>1. pc[a] \in Steps \ Outside /\ to \in Steps \ Outside
      BY DEF Settling, Recovering, Steps, Outside
    <2> QED BY <2>1, Holding, ActorsAssumption DEF Actors
  <1>2. \A w \in Writers \ {a} : ~Undoing(w)
    BY <1>1, NobodyUndoes DEF Settling
  <1>3. pc[p] \notin Outside => p = a
    BY <1>1, Holding
  <1>4. WriterFits(p) /\ ~Preparing(p) /\ pc[p] # "idle" /\ own[p] # "swapped"
    BY <1>3 DEF Inv, WriterFits, Outside, Settling
  <1>5. pc[p] \notin {"link", "unlink", "swap", "inspect", "commit", "restore", "sweep", "relocate", "confirm", "finalize"}
    BY <1>3 DEF Outside, Settling
  <1>6. WriterFits(p)'
    <2>1. CASE p = a
      BY <1>4, <1>5, <2>1 DEF WriterFits, Preparing, Undoing, Moves, Settling, Recovering
    <2>2. CASE p # a
      BY <1>1, <1>4, <1>5, <2>2 DEF WriterFits, Preparing, Undoing, Moves, Settling, Recovering
    <2> QED BY <2>1, <2>2
  <1>7. ASSUME a \in Writers, a # p PROVE WriterFits(a)'
    BY <1>7 DEF Inv, WriterFits, Preparing, Undoing, Moves, Settling, Recovering
  <1>8. Loaded(a)'
    BY <1>1 DEF HolderFits, Loaded, Moves, Recovering, Settling
  <1> QED BY <1>1, <1>2, <1>6, <1>7, <1>8, FileKeeps DEF HolderFits

\* Where recovery settles an intent, it is the open one.
LEMMA SettlingFacts ==
  ASSUME Inv, NEW a \in Actors, pc[a] \in Settling
  PROVE  /\ lock = a /\ pc[a] \notin Outside /\ HolderFits(a)
         /\ row.pend \in Writers /\ row.pend # None /\ PendFits(row.pend)
         /\ Intent(a) = row.pend /\ Wanted(a) = want[row.pend] /\ saw[a] = row
         /\ want[row.pend] \in Heya /\ want[row.pend] # None /\ want[row.pend] \notin User
         /\ (a \in Writers => own[a] \in {"nothing", "staged"})
         /\ own[row.pend] # "swapped"
         /\ row.pub \in Heya \cup {None} /\ ghost.overtaken \subseteq User
  <1>1. pc[a] \notin Outside
    BY DEF Settling, Outside
  <1>2. lock = a /\ HolderFits(a)
    BY <1>1, Holding
  <1>3. row.pend # None /\ saw[a] = row
    BY <1>2 DEF HolderFits, Loaded, Settling, Recovering
  <1>4. row.pend \in Writers /\ row.pub \in Heya \cup {None} /\ ghost.overtaken \subseteq User
    BY <1>3 DEF Inv, Shape, TypeOK, Rows, Notes
  <1>5. PendFits(row.pend) /\ WriterFits(row.pend)
    BY <1>4 DEF Inv
  <1>6. own[row.pend] # "swapped"
    <2>1. pc[row.pend] = "relocate" => row.pend = a
      BY <1>2, <1>4, Holding DEF Outside, Actors
    <2> QED BY <1>5, <2>1 DEF WriterFits, Settling
  <1> QED BY <1>1, <1>2, <1>3, <1>4, <1>5, <1>6, Calm, BytesAssumption DEF Intent, Wanted, PendFits, Settling

\* Exchanging the user's bytes back.
LEMMA PutBackFits ==
  ASSUME Inv, NEW a \in Actors, PutBack(a)
  PROVE  Inv'
  <1>0. Shape' /\ TypeOK
    BY RecoveryShape DEF RecoverySteps, Inv, Shape
  <1>1. pc[a] = "putBack" /\ pc[a] \in Settling
    BY DEF PutBack, At, Settling
  <1>p. PICK p \in Writers : p = row.pend
    BY <1>1, SettlingFacts
  <1>2. /\ lock = a /\ pc[a] \notin Outside /\ HolderFits(a) /\ p \in Writers /\ p # None /\ PendFits(p)
        /\ Intent(a) = p /\ want[p] # None /\ want[p] \notin User /\ want[p] \in Heya /\ ghost.overtaken \subseteq User
        /\ Wanted(a) = want[p] /\ (a \in Writers => own[a] \in {"nothing", "staged"})
    BY <1>1, <1>p, SettlingFacts
  <1>3. /\ own[p] = "nothing" /\ dest \in Free \cup {want[p]}
        /\ previous[p] \in Standing \/ (previous[p] = None /\ staged[p] \in Standing)
    BY <1>p, <1>1, <1>2 DEF HolderFits, PathFits, AsideFits
  <1>4. UNCHANGED <<row, ret, saw, cur, want, own, left>>
    BY DEF PutBack
  <1>5. CASE dest = None
    <2>1. DataSame /\ Leaves(a)
      BY <1>4, <1>5, Leaving DEF PutBack, DataSame, diskVars, Inv
    <2>2. Shut' /\ RowCloses(a)
      BY <1>4 DEF Shut, Inv, RowCloses
    <2> QED BY <1>p, <1>0, <1>1, <1>2, <1>4, <2>1, <2>2, LeaveKeeps
  <1>6. CASE dest # None
    <2> DEFINE to == IF Aside(a) = "previous" THEN "removePrevious" ELSE "removeStaged"
    <2>1. /\ Aside(a) = (IF previous[p] # None THEN "previous" ELSE "staged")
          /\ BytesAside(a) = (IF previous[p] # None THEN previous[p] ELSE staged[p])
          /\ BytesAside(a) \in Standing
      BY <1>p, <1>2, <1>3, BytesAssumption DEF Aside, BytesAside, Standing
    <2>2. /\ dest' = BytesAside(a) /\ Overtakes(dest) /\ lock' = lock /\ Go(a, to)
          /\ IF Aside(a) = "previous"
             THEN previous' = [previous EXCEPT ![p] = dest] /\ staged' = staged
             ELSE staged' = [staged EXCEPT ![p] = dest] /\ previous' = previous
      BY <1>p, <1>2, <1>6, <2>1 DEF PutBack
    <2>3. to \in Recovering \ {"reloaded"} /\ Moves(a, to) /\ pc'[a] = to
      BY <2>2, Going DEF Recovering, Settling, Steps, Inv, Moves
    <2>4. /\ ghost'.overtaken = ghost.overtaken \cup ({dest} \cap User)
          /\ ghost'.written = ghost.written /\ ghost'.last = ghost.last
      BY <1>0, <2>2 DEF Overtakes, TypeOK, Notes
    <2>5. \A w \in Writers \ {p} : staged'[w] = staged[w] /\ previous'[w] = previous[w]
      BY <1>0, <2>2 DEF TypeOK
    <2>6. /\ previous[p] # None => previous'[p] = dest /\ staged'[p] = None
          /\ previous[p] = None => previous'[p] = None /\ staged'[p] = dest
          /\ previous[p] # None => dest' = previous[p]
          /\ previous[p] = None => dest' = staged[p]
      BY <1>p, <1>0, <1>2, <2>1, <2>2 DEF TypeOK, PendFits
    <2> HIDE DEF to
    <2>7. dest' \in User /\ dest' \in Standing /\ dest' # dest
      <3>1. dest' \in Standing
        BY <2>1, <2>2
      <3>2. dest' # dest
        BY <1>p, <1>2, <1>6, <2>6, <3>1 DEF Inv, Once, Standing
      <3> QED BY <3>1, <3>2 DEF Standing
    <2>8. Once'
      <3>1. CASE previous[p] # None
        BY <1>p, <1>2, <2>1, <2>2, <2>5, <2>6, <3>1, OnceSwapsPrevious DEF Inv
      <3>2. CASE previous[p] = None
        BY <1>p, <1>2, <2>1, <2>2, <2>5, <2>6, <3>2, OnceSwapsStaged DEF Inv
      <3> QED BY <3>1, <3>2
    <2>9. Versions'
      <3>1. ghost'.overtaken \subseteq ghost.written
        BY <2>4 DEF Inv, Versions
      <3>2. dest' \in ghost.written \ ghost'.overtaken
        BY <1>p, <1>2, <2>4, <2>6, <2>7 DEF Inv, Versions, Standing
      <3>3. \A w \in Writers : {staged'[w], previous'[w]} \cap User \subseteq ghost.written
        BY <1>p, <1>2, <2>5, <2>6, BytesAssumption DEF Inv, Versions
      <3> QED BY <2>4, <3>1, <3>2, <3>3 DEF Versions
    <2>10. PendFits(p)'
      BY <1>p, <1>2, <1>3, <1>4, <2>6, <2>7 DEF PendFits, Free
    <2>11. PathFits(a)'
      BY <1>4, <2>3, <2>7 DEF PathFits, Free, to
    <2>12. AsideFits(a)'
      <3>1. dest \in {want[p]} \cup ghost'.overtaken
        BY <1>3, <1>6, <2>4 DEF Free
      <3> QED BY <1>p, <1>2, <1>3, <1>4, <2>1, <2>3, <2>6, <3>1 DEF AsideFits, to
    <2>13. LastWord'
      <3> SUFFICES ASSUME ghost.last \in User \ ghost'.overtaken PROVE dest' = ghost.last
        BY <2>4 DEF LastWord, Standing
      <3>1. ghost.last \in Standing /\ dest # ghost.last
        BY <2>4 DEF Standing
      <3>2. ghost.last \in {staged[p], previous[p]}
        BY <1>p, <3>1 DEF Inv, LastWord
      <3> QED BY <1>p, <1>2, <2>6, <3>1, <3>2, BytesAssumption DEF PendFits, Standing
    <2> QED BY <1>p, <1>0, <1>1, <1>2, <1>3, <1>4, <2>2, <2>3, <2>5, <2>8, <2>9, <2>10, <2>11, <2>12, <2>13, RecoveryKeeps
  <1> QED BY <1>5, <1>6

\* Removing what came back.
LEMMA RemoveReturnedFits ==
  ASSUME Inv, NEW a \in Actors, RemoveReturned(a)
  PROVE  Inv'
  <1>0. Shape' /\ TypeOK
    BY RecoveryShape DEF RecoverySteps, Inv, Shape
  <1>1. pc[a] \in {"removePrevious", "removeStaged"} /\ pc[a] \in Settling
    BY DEF RemoveReturned, Settling
  <1>p. PICK p \in Writers : p = row.pend
    BY <1>1, SettlingFacts
  <1>2. /\ HolderFits(a) /\ p \in Writers /\ p # None /\ PendFits(p) /\ Intent(a) = p
        /\ want[p] # None /\ want[p] \notin User /\ want[p] \in Heya /\ Wanted(a) = want[p]
        /\ ghost.overtaken \subseteq User
    BY <1>1, <1>p, SettlingFacts
  <1>3. /\ own[p] = "nothing" /\ dest \in Free
        /\ pc[a] = "removePrevious" => previous[p] \in {want[p]} \cup ghost.overtaken
        /\ pc[a] = "removeStaged" => staged[p] \in {want[p]} \cup ghost.overtaken /\ previous[p] = None
    BY <1>p, <1>1, <1>2 DEF HolderFits, PathFits, AsideFits
  <1>4. UNCHANGED <<dest, ghost, row, lock, ret, saw, cur, want, own, left>>
    BY DEF RemoveReturned, RecoverFrame
  <1>5. Moves(a, "retire") /\ pc'[a] = "retire"
    BY Going DEF RemoveReturned, Steps, Inv, Moves
  <1>6. \A w \in Writers \ {p} : staged'[w] = staged[w] /\ previous'[w] = previous[w]
    BY <1>p, <1>0, <1>2 DEF RemoveReturned, Drop, TypeOK
  <1>7. staged'[p] \in {staged[p], None} /\ previous'[p] \in {previous[p], None}
    BY <1>p, <1>0, <1>2 DEF RemoveReturned, Drop, TypeOK
  <1>8. Once' /\ Versions'
    <2>1. Once'
      BY <1>p, <1>2, <1>4, <1>6, <1>7, OnceShrinks, BytesAssumption DEF Inv
    <2>2. \A w \in Writers : {staged'[w], previous'[w]} \cap User \subseteq ghost.written
      BY <1>p, <1>2, <1>6, <1>7, BytesAssumption DEF Inv, Versions
    <2> QED BY <1>4, <2>1, <2>2 DEF Inv, Versions
  <1>9. PendFits(p)' /\ PathFits(a)' /\ AsideFits(a)'
    <2>1. PendFits(p)'
      BY <1>p, <1>2, <1>3, <1>4, <1>7 DEF PendFits, Free
    <2>2. PathFits(a)'
      BY <1>p, <1>2, <1>3, <1>4, <1>5 DEF PathFits, Free
    <2>3. AsideFits(a)'
      BY <1>5 DEF AsideFits
    <2> QED BY <2>1, <2>2, <2>3
  <1>10. LastWord'
    BY <1>p, <1>2, <1>3, <1>4 DEF Inv, LastWord, Standing, Free
  <1>11. "retire" \in Recovering \ {"reloaded"}
    BY DEF Recovering
  <1> QED BY <1>p, <1>0, <1>1, <1>2, <1>3, <1>4, <1>5, <1>6, <1>8, <1>9, <1>10, <1>11, RecoveryKeeps

\* Recovery goes on without having touched a file.
LEMMA RecoveryGoesOn ==
  ASSUME Inv, Shape', NEW a \in Actors, pc[a] \in Settling,
         NEW to \in Recovering \ {"reloaded"}, Moves(a, to),
         DataSame, UNCHANGED <<row, lock, ret, saw, cur, left>>,
         PathFits(a)', AsideFits(a)'
  PROVE  Inv'
  <1>1. lock = a /\ pc[a] \notin Outside /\ HolderFits(a) /\ row.pend # None /\ pc[a] \notin {"link", "swap"}
    BY SettlingFacts DEF Settling
  <1>2. OnlyActs(a) /\ RowCloses(a) /\ Shut'
    BY <1>1 DEF OnlyActs, Moves, Outside, Recovering, Settling, RowCloses, Shut, Inv
  <1>3. a \in Writers => WriterFits(a)'
    BY DEF Inv, WriterFits, Preparing, Undoing, Moves, Settling, Recovering, DataSame
  <1>4. Loaded(a)'
    BY <1>1 DEF HolderFits, Loaded, Moves, Recovering, Settling
  <1> QED BY <1>1, <1>2, <1>3, <1>4, MoveKeeps DEF HolderFits
\* Recovery gives up: the other process left the files in another state.
LEMMA RecoveryLeaves ==
  ASSUME Inv, Shape', NEW a \in Actors, pc[a] \in Settling, Leave(a), DataSame,
         UNCHANGED <<row, ret, saw, cur, left>>
  PROVE  Inv'
  <1>1. Leaves(a) /\ Shut' /\ RowCloses(a)
    BY Leaving DEF Inv, Shut, RowCloses
  <1> QED BY <1>1, SettlingFacts, LeaveKeeps DEF Settling

\* Dropping what the accepted bytes left over.
LEMMA AcceptFits ==
  ASSUME Inv, NEW a \in Actors, Accept(a)
  PROVE  Inv'
  <1>0. Shape' /\ TypeOK
    BY RecoveryShape DEF RecoverySteps, Inv, Shape
  <1>1. pc[a] = "accept" /\ pc[a] \in Settling
    BY DEF Accept, At, Settling
  <1>p. PICK p \in Writers : p = row.pend
    BY <1>1, SettlingFacts
  <1>2. /\ HolderFits(a) /\ p # None /\ PendFits(p) /\ Intent(a) = p
        /\ want[p] # None /\ want[p] \notin User /\ want[p] \in Heya /\ Wanted(a) = want[p]
        /\ ghost.overtaken \subseteq User
    BY <1>p, <1>1, SettlingFacts
  <1>3. own[p] # "moved" /\ dest \in Free \cup {want[p]} /\ staged[p] \notin User /\ previous[p] \notin User
    BY <1>p, <1>1, <1>2 DEF HolderFits, PathFits, AsideFits
  <1>4. UNCHANGED <<dest, ghost, row, lock, ret, saw, cur, want, own, left>>
    BY DEF Accept, RecoverFrame
  <1>5. Moves(a, "acknowledge") /\ pc'[a] = "acknowledge" /\ "acknowledge" \in Recovering \ {"reloaded"}
    BY Going DEF Accept, Steps, Inv, Moves, Recovering, Settling
  <1>6. \A w \in Writers \ {p} : staged'[w] = staged[w] /\ previous'[w] = previous[w]
    BY <1>0, <1>2 DEF Accept, Drop, TypeOK
  <1>7. staged'[p] \in {staged[p], None} /\ previous'[p] \in {previous[p], None}
    BY <1>0, <1>2 DEF Accept, Drop, TypeOK
  <1>8. Once' /\ Versions'
    <2>1. Once'
      BY <1>2, <1>4, <1>6, <1>7, OnceShrinks, BytesAssumption DEF Inv
    <2>2. \A w \in Writers : {staged'[w], previous'[w]} \cap User \subseteq ghost.written
      BY <1>2, <1>6, <1>7, BytesAssumption DEF Inv, Versions
    <2> QED BY <1>4, <2>1, <2>2 DEF Inv, Versions
  <1>9. PendFits(p)' /\ PathFits(a)' /\ AsideFits(a)'
    <2>1. staged'[p] \notin User /\ previous'[p] \notin User
      BY <1>3, <1>7, BytesAssumption
    <2>2. PendFits(p)'
      BY <1>2, <1>3, <1>4, <1>7, <2>1, BytesAssumption DEF PendFits, Free
    <2>3. PathFits(a)'
      BY <1>p, <1>2, <1>3, <1>4, <1>5 DEF PathFits, Free
    <2>4. AsideFits(a)'
      BY <1>p, <1>4, <1>5, <2>1 DEF AsideFits
    <2> QED BY <2>2, <2>3, <2>4
  <1>10. LastWord'
    BY <1>p, <1>2, <1>3, <1>4 DEF Inv, LastWord, Standing, Free
  <1>11. own[p] = "staged" => staged'[p] \in {want[p], None} /\ previous'[p] = None
    BY <1>7 DEF Inv, WriterFits
  <1> QED BY <1>p, <1>0, <1>1, <1>3, <1>4, <1>5, <1>6, <1>8, <1>9, <1>10, <1>11, RecoveryKeeps

\* Exchanging now what the publisher did not.
LEMMA RedoFits ==
  ASSUME Inv, NEW a \in Actors, Redo(a)
  PROVE  Inv'
  <1>0. Shape' /\ TypeOK
    BY RecoveryShape DEF RecoverySteps, Inv, Shape
  <1>1. pc[a] = "redo" /\ pc[a] \in Settling
    BY DEF Redo, At, Settling
  <1>p. PICK p \in Writers : p = row.pend
    BY <1>1, SettlingFacts
  <1>2. /\ HolderFits(a) /\ p # None /\ PendFits(p) /\ Intent(a) = p
        /\ want[p] # None /\ want[p] \notin User /\ want[p] \in Heya
        /\ ghost.overtaken \subseteq User /\ row.pub \in Heya \cup {None}
    BY <1>p, <1>1, SettlingFacts
  <1>3. own[p] = "nothing" /\ row.pub \notin {None, want[p]} /\ dest \in Free \cup {row.pub} /\ staged[p] = want[p]
    BY <1>p, <1>1, <1>2 DEF HolderFits, PathFits, AsideFits
  <1>4. UNCHANGED <<previous, ghost, row, ret, saw, cur, want, own, left>>
    BY DEF Redo
  <1>5. CASE dest = None
    BY <1>0, <1>1, <1>4, <1>5, RecoveryLeaves DEF Redo, DataSame
  <1>6. CASE dest # None
    <2>1. dest' = staged[p] /\ staged' = [staged EXCEPT ![p] = dest] /\ Go(a, "redoMove") /\ lock' = lock
      BY <1>2, <1>3, <1>6 DEF Redo
    <2>2. Moves(a, "redoMove") /\ pc'[a] = "redoMove" /\ "redoMove" \in Recovering \ {"reloaded"}
      BY <2>1, Going DEF Steps, Inv, Moves, Recovering, Settling
    <2>3. staged'[p] = dest /\ \A w \in Writers \ {p} : staged'[w] = staged[w] /\ previous'[w] = previous[w]
      BY <1>0, <1>4, <2>1 DEF TypeOK
    <2>4. dest \in Standing \cup {row.pub} /\ dest # want[p] /\ dest \notin ghost.overtaken /\ previous[p] = None
      BY <1>2, <1>3, <1>6, BytesAssumption DEF Inv, Versions, Standing, PendFits, Free
    <2>5. Once'
      BY <1>4, <2>1, <2>3, OnceSwapsStaged DEF Inv
    <2>6. Versions'
      <3>1. \A w \in Writers : {staged'[w], previous'[w]} \cap User \subseteq ghost.written
        BY <1>4, <2>3 DEF Inv, Versions
      <3> QED BY <1>2, <1>3, <1>4, <2>1, <3>1 DEF Inv, Versions
    <2>7. PendFits(p)'
      BY <1>2, <1>3, <1>4, <2>1, <2>3, <2>4, BytesAssumption DEF PendFits, Free, Standing
    <2>8. PathFits(a)'
      BY <1>p, <1>3, <1>4, <2>1, <2>2 DEF PathFits
    <2>9. AsideFits(a)'
      BY <1>p, <1>3, <1>4, <1>6, <2>2, <2>3, <2>4 DEF AsideFits, Standing
    <2>10. LastWord'
      BY <1>p, <1>2, <1>3, <1>4, <2>1, <2>3, <2>4 DEF Inv, LastWord, Standing
    <2> QED BY <1>p, <1>0, <1>1, <1>3, <1>4, <2>1, <2>2, <2>3, <2>5, <2>6, <2>7, <2>8, <2>9, <2>10, RecoveryKeeps
  <1> QED BY <1>5, <1>6
\* What that displaced goes to the previous path.
LEMMA RedoMoveFits ==
  ASSUME Inv, NEW a \in Actors, RedoMove(a)
  PROVE  Inv'
  <1>0. Shape' /\ TypeOK
    BY RecoveryShape DEF RecoverySteps, Inv, Shape
  <1>1. pc[a] = "redoMove" /\ pc[a] \in Settling
    BY DEF RedoMove, At, Settling
  <1>p. PICK p \in Writers : p = row.pend
    BY <1>1, SettlingFacts
  <1>2. /\ HolderFits(a) /\ p # None /\ PendFits(p) /\ Intent(a) = p
        /\ want[p] # None /\ want[p] \notin User /\ want[p] \in Heya
        /\ ghost.overtaken \subseteq User /\ row.pub \in Heya \cup {None}
    BY <1>p, <1>1, SettlingFacts
  <1>3. /\ own[p] = "nothing" /\ dest \in Free \cup {want[p]} /\ previous[p] = None
        /\ staged[p] \in Standing \cup ({row.pub} \ {None, want[p]})
    BY <1>p, <1>1, <1>2 DEF HolderFits, PathFits, AsideFits
  <1>4. UNCHANGED <<dest, ghost, row, ret, saw, cur, want, own>>
    BY DEF RedoMove
  <1>5. staged[p] # None /\ staged[p] # want[p] /\ staged[p] \notin ghost.overtaken
    BY <1>2, <1>3, BytesAssumption DEF Standing
  <1>6. /\ previous' = [previous EXCEPT ![p] = staged[p]] /\ staged' = [staged EXCEPT ![p] = None]
        /\ Go(a, "recover") /\ UNCHANGED <<lock, left>>
    BY <1>2, <1>5, NoWindow DEF RedoMove, Windows
  <1>7. Moves(a, "recover") /\ pc'[a] = "recover" /\ "recover" \in Recovering \ {"reloaded"}
    BY <1>6, Going DEF Steps, Inv, Moves, Recovering
  <1>8. /\ staged'[p] = None /\ previous'[p] = staged[p]
        /\ \A w \in Writers \ {p} : staged'[w] = staged[w] /\ previous'[w] = previous[w]
    BY <1>0, <1>6 DEF TypeOK
  <1>9. Once'
    BY <1>4, <1>8, OnceMoves, BytesAssumption DEF Inv
  <1>10. Versions'
    <2>1. \A w \in Writers : {staged'[w], previous'[w]} \cap User \subseteq ghost.written
      BY <1>8, BytesAssumption DEF Inv, Versions
    <2> QED BY <1>4, <2>1 DEF Inv, Versions
  <1>11. PendFits(p)'
    BY <1>2, <1>3, <1>4, <1>5, <1>8, BytesAssumption DEF PendFits, Free
  <1>12. PathFits(a)' /\ AsideFits(a)'
    BY <1>7 DEF PathFits, AsideFits
  <1>13. LastWord'
    BY <1>p, <1>3, <1>4, <1>8, BytesAssumption DEF Inv, LastWord, Standing
  <1> QED BY <1>p, <1>0, <1>1, <1>3, <1>4, <1>6, <1>7, <1>8, <1>9, <1>10, <1>11, <1>12, <1>13, RecoveryKeeps

\* Linking now what the publisher did not, and dropping the other name.
LEMMA RelinkFits ==
  ASSUME Inv, NEW a \in Actors, Relink(a) \/ Relinked(a)
  PROVE  Inv'
  <1>0. Shape' /\ TypeOK
    BY RecoveryShape DEF RecoverySteps, Inv, Shape
  <1>1. pc[a] \in {"relink", "relinked"} /\ pc[a] \in Settling
    BY DEF Relink, Relinked, At, Settling
  <1>p. PICK p \in Writers : p = row.pend
    BY <1>1, SettlingFacts
  <1>2. /\ HolderFits(a) /\ p # None /\ PendFits(p) /\ Intent(a) = p
        /\ want[p] # None /\ want[p] \notin User /\ want[p] \in Heya
        /\ ghost.overtaken \subseteq User
    BY <1>p, <1>1, SettlingFacts
  <1>3. own[p] # "moved" /\ staged[p] \in {want[p], None} /\ previous[p] = None
    BY <1>p, <1>1, <1>2 DEF HolderFits, AsideFits
  <1>4. UNCHANGED <<previous, ghost, row, ret, saw, cur, want, own, left>>
    BY DEF Relink, Relinked
  <1>5. CASE Relink(a)
    <2>1. staged' = staged /\ dest \in Free /\ pc[a] = "relink"
      BY <1>1, <1>2, <1>5 DEF Relink, At, HolderFits, PathFits
    <2>2. CASE dest # None
      <3>1. Moves(a, "recover") /\ dest' = dest /\ lock' = lock /\ "recover" \in Recovering \ {"reloaded"}
        BY <1>5, <2>2, Going DEF Relink, Steps, Inv, Recovering
      <3>2. PathFits(a)' /\ AsideFits(a)'
        BY <3>1 DEF PathFits, AsideFits, Moves
      <3> QED BY <1>0, <1>1, <1>4, <2>1, <3>1, <3>2, RecoveryGoesOn DEF DataSame
    <2>3. CASE dest = None /\ staged[p] = None
      BY <1>0, <1>1, <1>2, <1>4, <1>5, <2>1, <2>3, RecoveryLeaves DEF Relink, DataSame
    <2>4. CASE dest = None /\ staged[p] # None
      <3>1. dest' = want[p] /\ Go(a, "relinked") /\ lock' = lock
        BY <1>2, <1>3, <1>5, <2>4 DEF Relink
      <3>2. Moves(a, "relinked") /\ pc'[a] = "relinked" /\ "relinked" \in Recovering \ {"reloaded"}
        BY <3>1, Going DEF Steps, Inv, Moves, Recovering, Settling
      <3>3. Once'
        BY <1>2, <1>4, <2>1, <3>1, OnceShrinks DEF Inv
      <3>4. Versions'
        BY <1>2, <1>4, <2>1, <3>1 DEF Inv, Versions
      <3>5. PendFits(p)'
        BY <1>2, <1>3, <1>4, <2>1, <3>1, BytesAssumption DEF PendFits, Free
      <3>6. PathFits(a)' /\ AsideFits(a)'
        BY <1>p, <1>3, <1>4, <2>1, <3>1, <3>2 DEF PathFits, AsideFits
      <3>7. LastWord'
        BY <1>p, <1>2, <1>4, <2>1, <2>4, BytesAssumption DEF Inv, LastWord, Standing
      <3> QED BY <1>p, <1>0, <1>1, <1>3, <1>4, <2>1, <3>1, <3>2, <3>3, <3>4, <3>5, <3>6, <3>7, RecoveryKeeps
    <2> QED BY <2>2, <2>3, <2>4
  <1>6. CASE Relinked(a)
    <2>1. dest' = dest /\ dest \in Free \cup {want[p]} /\ pc[a] = "relinked" /\ staged' = [staged EXCEPT ![p] = None]
      BY <1>p, <1>1, <1>2, <1>6 DEF Relinked, At, HolderFits, PathFits
    <2>2. CASE staged[p] = None
      <3>1. staged' = staged
        BY <1>0, <2>1, <2>2 DEF TypeOK
      <3> QED BY <1>0, <1>1, <1>2, <1>4, <1>6, <2>1, <2>2, <3>1, RecoveryLeaves DEF Relinked, DataSame
    <2>3. CASE staged[p] # None
      <3>1. Go(a, "recover") /\ lock' = lock
        BY <1>2, <1>6, <2>3 DEF Relinked
      <3>2. Moves(a, "recover") /\ pc'[a] = "recover" /\ "recover" \in Recovering \ {"reloaded"}
        BY <3>1, Going DEF Steps, Inv, Moves, Recovering
      <3>3. staged'[p] = None /\ \A w \in Writers \ {p} : staged'[w] = staged[w]
        BY <1>0, <2>1 DEF TypeOK
      <3>4. Once'
        BY <1>4, <2>1, <3>3, OnceShrinks, BytesAssumption DEF Inv
      <3>5. Versions'
        <4>1. \A w \in Writers : {staged'[w], previous'[w]} \cap User \subseteq ghost.written
          BY <1>4, <3>3, BytesAssumption DEF Inv, Versions
        <4> QED BY <1>4, <2>1, <4>1 DEF Inv, Versions
      <3>6. PendFits(p)'
        BY <1>2, <1>3, <1>4, <2>1, <3>3, BytesAssumption DEF PendFits, Free
      <3>7. PathFits(a)' /\ AsideFits(a)'
        BY <3>2 DEF PathFits, AsideFits
      <3>8. LastWord'
        BY <1>p, <1>2, <1>3, <1>4, <2>1, <3>3, BytesAssumption DEF Inv, LastWord, Standing
      <3> QED BY <1>p, <1>0, <1>1, <1>3, <1>4, <2>1, <3>1, <3>2, <3>3, <3>4, <3>5, <3>6, <3>7, <3>8, RecoveryKeeps
    <2> QED BY <2>2, <2>3
  <1> QED BY <1>5, <1>6

\* Removing Heya's own leftovers beside somebody else's bytes.
LEMMA TidyFits ==
  ASSUME Inv, NEW a \in Actors, Tidy(a)
  PROVE  Inv'
  <1>0. Shape' /\ TypeOK
    BY RecoveryShape DEF RecoverySteps, Inv, Shape
  <1>1. pc[a] = "tidy" /\ pc[a] \in Settling
    BY DEF Tidy, At, Settling
  <1>p. PICK p \in Writers : p = row.pend
    BY <1>1, SettlingFacts
  <1>2. /\ HolderFits(a) /\ p # None /\ PendFits(p) /\ Intent(a) = p /\ saw[a] = row /\ lock = a
        /\ want[p] # None /\ want[p] \notin User /\ want[p] \in Heya /\ Wanted(a) = want[p]
        /\ ghost.overtaken \subseteq User /\ row.pub \in Heya \cup {None}
    BY <1>p, <1>1, SettlingFacts
  <1>3. dest \in Free
    BY <1>p, <1>1, <1>2 DEF HolderFits, PathFits
  <1>4. UNCHANGED <<dest, ghost, row, lock, ret, saw, cur, want, own, left>>
    BY DEF Tidy, RecoverFrame
  <1>5. Moves(a, "retire") /\ pc'[a] = "retire" /\ "retire" \in Recovering \ {"reloaded"}
    BY Going DEF Tidy, Steps, Inv, Moves, Recovering, Settling
  <1>6. /\ staged' = [staged EXCEPT ![p] = IF staged[p] \in {want[p], row.pub} THEN None ELSE staged[p]]
        /\ previous' = [previous EXCEPT ![p] = IF previous[p] \in {want[p], row.pub} THEN None ELSE previous[p]]
    BY <1>0, <1>2 DEF Tidy, Drop, TypeOK
  <1>7. PathFits(a)' /\ AsideFits(a)'
    BY <1>p, <1>2, <1>3, <1>4, <1>5 DEF PathFits, AsideFits, Free
  <1>8. CASE own[p] = "moved"
    <2>1. pc[p] \in Outside
      BY <1>1, <1>2, <1>8, Holding DEF Inv, WriterFits, Actors
    <2>2. UndoFits(p)
      BY <1>8, <2>1 DEF Inv, WriterFits, Undoing, Outside
    <2>3. staged[p] = None /\ previous[p] \in User
      BY <1>2, <1>8, <2>1, <2>2 DEF UndoFits, Standing, Inv, WriterFits, Outside
    <2>4. staged' = staged /\ previous' = previous
      BY <1>0, <1>2, <1>6, <2>3, BytesAssumption DEF TypeOK
    <2> QED BY <1>0, <1>1, <1>4, <1>5, <1>7, <2>4, RecoveryGoesOn DEF DataSame
  <1>9. CASE own[p] # "moved"
    <2>1. \A w \in Writers \ {p} : staged'[w] = staged[w] /\ previous'[w] = previous[w]
      BY <1>0, <1>6 DEF TypeOK
    <2>2. staged'[p] \in {staged[p], None} /\ previous'[p] \in {previous[p], None}
      BY <1>0, <1>6 DEF TypeOK
    <2>3. Once'
      BY <1>4, <2>1, <2>2, OnceShrinks, BytesAssumption DEF Inv
    <2>4. Versions'
      <3>1. \A w \in Writers : {staged'[w], previous'[w]} \cap User \subseteq ghost.written
        BY <2>1, <2>2, BytesAssumption DEF Inv, Versions
      <3> QED BY <1>4, <3>1 DEF Inv, Versions
    <2>5. PendFits(p)'
      BY <1>2, <1>3, <1>4, <2>2 DEF PendFits, Free
    <2>6. LastWord'
      BY <1>p, <1>2, <1>3, <1>4 DEF Inv, LastWord, Standing, Free
    <2>7. own[p] = "staged" => staged'[p] \in {want[p], None} /\ previous'[p] = None
      BY <2>2 DEF Inv, WriterFits
    <2> QED BY <1>p, <1>0, <1>1, <1>4, <1>5, <1>7, <1>9, <2>1, <2>3, <2>4, <2>5, <2>6, <2>7, RecoveryKeeps
  <1> QED BY <1>8, <1>9

-----------------------------------------------------------------------------
(***************************************************************************)
(* Publish, where it touches its files.                                    *)
(***************************************************************************)
\* Between its intent and its end a publisher works on its own intent.
LEMMA OwnFacts ==
  ASSUME Inv, NEW a \in Writers,
         pc[a] \in {"link", "unlink", "swap", "relocate", "commit", "restore", "sweep"}
  PROVE  /\ a \in Actors /\ a # None /\ pc[a] \notin Outside /\ lock = a /\ HolderFits(a) /\ WriterFits(a)
         /\ row.pend = a /\ PendFits(a) /\ saw[a].pub = row.pub
         /\ want[a] \in Heya /\ want[a] # None /\ want[a] \notin User
         /\ row.pub \in Heya \cup {None} /\ ghost.overtaken \subseteq User
         /\ (pc[a] \notin {"link", "swap"} => \A w \in Writers \ {a} : ~Undoing(w))
  <1>1. a \in Actors /\ a # None /\ pc[a] \notin Outside
    BY ActorsAssumption DEF Actors, Outside
  <1>2. lock = a /\ HolderFits(a) /\ WriterFits(a)
    BY <1>1, Holding
  <1>3. row.pend = a /\ saw[a].pub = row.pub
    BY <1>2 DEF HolderFits, Loaded
  <1>4. PendFits(a) /\ row.pub \in Heya \cup {None} /\ ghost.overtaken \subseteq User
    BY <1>3 DEF Inv, Shape, TypeOK, Rows, Notes
  <1> QED BY <1>1, <1>2, <1>3, <1>4, NobodyUndoes, BytesAssumption DEF PendFits

\* Its own step on them.
LEMMA OwnKeeps ==
  ASSUME Inv, Shape', NEW a \in Writers,
         pc[a] \in {"link", "unlink", "swap", "relocate", "commit", "restore", "sweep"},
         NEW to \in Steps \ Outside, Moves(a, to),
         UNCHANGED <<row, lock, ret, saw, cur, want, left>>,
         \A w \in Writers \ {a} : staged'[w] = staged[w] /\ previous'[w] = previous[w] /\ own'[w] = own[w],
         pc[a] \in {"link", "swap"} => \A w \in Writers \ {a} : ~Undoing(w),
         to \in {"unlink", "relocate", "inspect", "confirm", "sweep", "disown"},
         WriterFits(a)', PendFits(a)', PathFits(a)', AsideFits(a)', Versions', Once', LastWord'
  PROVE  Inv'
  <1>1. a \in Actors /\ pc[a] \notin Outside /\ row.pend = a /\ HolderFits(a)
        /\ (pc[a] \notin {"link", "swap"} => \A w \in Writers \ {a} : ~Undoing(w))
    BY OwnFacts
  <1>2. Loaded(a)'
    BY <1>1 DEF HolderFits, Loaded, Moves, Recovering, Settling
  <1> QED BY <1>1, <1>2, FileKeeps DEF HolderFits

\* A link or an exchange begins only while nobody is undoing.
LEMMA FreeOfUndoing ==
  ASSUME NEW a \in Writers, DestinationFree(a)
  PROVE  \A w \in Writers \ {a} : ~Undoing(w)
  BY DEF DestinationFree, Undoing

\* The link, which never replaces, and the removal of the other name.
LEMMA LinkFits ==
  ASSUME Inv, NEW a \in Writers, Link(a) \/ Unlink(a)
  PROVE  Inv'
  <1>0. Shape' /\ TypeOK
    BY WriterShape DEF WriterSteps, Inv, Shape
  <1>1. pc[a] \in {"link", "unlink"}
    BY DEF Link, Unlink, At
  <1>2. /\ a \in Actors /\ a # None /\ pc[a] \notin Outside /\ lock = a /\ HolderFits(a) /\ WriterFits(a)
        /\ row.pend = a /\ PendFits(a)
        /\ want[a] \in Heya /\ want[a] # None /\ want[a] \notin User /\ ghost.overtaken \subseteq User
    BY <1>1, OwnFacts
  <1>3. staged[a] = want[a] /\ own[a] = "staged" /\ previous[a] = None
    BY <1>1, <1>2 DEF WriterFits
  <1>4. UNCHANGED <<previous, row, ret, saw, cur, want, left, ghost>>
    BY DEF Link, Unlink
  <1>5. CASE Link(a)
    <2>1. pc[a] = "link" /\ dest \in Free /\ \A w \in Writers \ {a} : ~Undoing(w)
      BY <1>2, <1>5, FreeOfUndoing DEF Link, At, HolderFits, PathFits
    <2>2. UNCHANGED <<staged, own>>
      BY <1>5 DEF Link
    <2>3. CASE dest # None
      <3>1. Moves(a, "reload") /\ pc'[a] = "reload" /\ dest' = dest /\ lock' = lock
        BY <1>2, <1>5, <2>3, Going DEF Link, Steps, Inv, Moves
      <3>2. OnlyActs(a) /\ RowCloses(a) /\ Shut'
        BY <1>2, <1>4, <3>1 DEF OnlyActs, Moves, Outside, RowCloses, Shut, Inv
      <3>3. WriterFits(a)'
        BY <1>2, <1>3, <1>4, <2>2, <3>1 DEF WriterFits, Preparing, Undoing, Recovering, Settling
      <3>4. HolderFits(a)'
        BY <1>2, <1>4, <2>1, <3>1 DEF HolderFits, Loaded, PathFits, AsideFits, Recovering, Settling, Free
      <3> QED BY <1>0, <1>2, <1>4, <2>1, <2>2, <3>1, <3>2, <3>3, <3>4, MoveKeeps DEF DataSame
    <2>4. CASE dest = None
      <3>1. dest' = want[a] /\ lock' = lock /\ Go(a, "unlink")
        BY <1>2, <1>3, <1>5, <2>4 DEF Link
      <3>2. Moves(a, "unlink") /\ pc'[a] = "unlink" /\ "unlink" \in Steps \ Outside
        BY <1>2, <3>1, Going DEF Steps, Inv, Moves, Outside
      <3>3. Once' /\ Versions'
        BY <1>2, <1>4, <2>2, <3>1, OnceShrinks DEF Inv, Versions
      <3>4. WriterFits(a)'
        BY <1>2, <1>3, <1>4, <2>2, <3>2 DEF WriterFits, Preparing, Undoing, Recovering, Settling
      <3>5. PendFits(a)'
        BY <1>2, <1>3, <1>4, <2>2, <3>1, BytesAssumption DEF PendFits, Free
      <3>6. PathFits(a)' /\ AsideFits(a)'
        BY <1>2, <1>4, <3>1, <3>2 DEF PathFits, AsideFits
      <3>7. LastWord'
        BY <1>2, <1>4, <2>4, BytesAssumption DEF Inv, LastWord, Standing
      <3> QED BY <1>0, <1>1, <1>4, <2>1, <2>2, <3>1, <3>2, <3>3, <3>4, <3>5, <3>6, <3>7, OwnKeeps
    <2> QED BY <2>3, <2>4
  <1>6. CASE Unlink(a)
    <2>1. /\ staged' = [staged EXCEPT ![a] = None] /\ own' = [own EXCEPT ![a] = "nothing"]
          /\ Go(a, "confirm") /\ UNCHANGED <<dest, lock>> /\ pc[a] = "unlink"
      BY <1>2, <1>3, <1>6 DEF Unlink, At
    <2>2. Moves(a, "confirm") /\ pc'[a] = "confirm" /\ "confirm" \in Steps \ Outside
      BY <1>2, <2>1, Going DEF Steps, Inv, Moves, Outside
    <2>3. staged'[a] = None /\ own'[a] = "nothing" /\ \A w \in Writers \ {a} : staged'[w] = staged[w] /\ own'[w] = own[w]
      BY <1>0, <2>1 DEF TypeOK
    <2>4. dest \in Free \cup {want[a]}
      BY <1>2, <2>1 DEF HolderFits, PathFits
    <2>5. Once'
      BY <1>4, <2>1, <2>3, OnceShrinks, BytesAssumption DEF Inv
    <2>6. Versions'
      <3>1. \A w \in Writers : {staged'[w], previous'[w]} \cap User \subseteq ghost.written
        BY <1>4, <2>3, BytesAssumption DEF Inv, Versions
      <3> QED BY <1>4, <2>1, <3>1 DEF Inv, Versions
    <2>7. WriterFits(a)'
      BY <1>2, <1>3, <1>4, <2>2, <2>3 DEF WriterFits, Preparing, Undoing, Recovering, Settling
    <2>8. PendFits(a)'
      BY <1>2, <1>3, <1>4, <2>1, <2>3, <2>4, BytesAssumption DEF PendFits, Free
    <2>9. PathFits(a)' /\ AsideFits(a)'
      BY <1>2, <1>3, <1>4, <2>1, <2>2, <2>3, <2>4 DEF PathFits, AsideFits, Free
    <2>10. LastWord'
      BY <1>2, <1>3, <1>4, <2>1, BytesAssumption DEF Inv, LastWord, Standing
    <2> QED BY <1>0, <1>1, <1>4, <2>1, <2>2, <2>3, <2>5, <2>6, <2>7, <2>8, <2>9, <2>10, OwnKeeps
  <1> QED BY <1>5, <1>6

\* The exchange: what it displaces is Heya's, or a version of the user's that
\* still counts.
LEMMA SwapFits ==
  ASSUME Inv, NEW a \in Writers, Swap(a)
  PROVE  Inv'
  <1>0. Shape' /\ TypeOK
    BY WriterShape DEF WriterSteps, Inv, Shape
  <1>1. pc[a] = "swap"
    BY DEF Swap, At
  <1>2. /\ a \in Actors /\ a # None /\ pc[a] \notin Outside /\ lock = a /\ HolderFits(a) /\ WriterFits(a)
        /\ row.pend = a /\ PendFits(a)
        /\ want[a] \in Heya /\ want[a] # None /\ want[a] \notin User /\ ghost.overtaken \subseteq User
        /\ row.pub \in Heya \cup {None}
    BY <1>1, OwnFacts
  <1>3. staged[a] = want[a] /\ own[a] = "staged" /\ previous[a] = None
    BY <1>1, <1>2 DEF WriterFits
  <1>4. UNCHANGED <<previous, row, ret, saw, cur, want, left, ghost>>
    BY DEF Swap
  <1>5. row.pub \notin {None, want[a]} /\ dest \in Free \cup {row.pub} /\ \A w \in Writers \ {a} : ~Undoing(w)
    BY <1>1, <1>2, FreeOfUndoing DEF Swap, HolderFits, PathFits
  <1>6. CASE dest = None
    <2>1. DataSame /\ Leaves(a)
      BY <1>2, <1>4, <1>6, Leaving DEF Swap, DataSame, Inv
    <2>2. Shut' /\ RowCloses(a)
      BY <1>4 DEF Shut, Inv, RowCloses
    <2> QED BY <1>0, <1>2, <1>3, <1>4, <1>5, <1>6, <2>1, <2>2, LeaveKeeps DEF Free
  <1>7. CASE dest # None
    <2>1. /\ dest' = want[a] /\ staged' = [staged EXCEPT ![a] = dest] /\ own' = [own EXCEPT ![a] = "swapped"]
          /\ Go(a, "relocate") /\ lock' = lock
      BY <1>2, <1>3, <1>7 DEF Swap
    <2>2. Moves(a, "relocate") /\ pc'[a] = "relocate" /\ "relocate" \in Steps \ Outside
      BY <1>2, <2>1, Going DEF Steps, Inv, Moves, Outside
    <2>3. staged'[a] = dest /\ own'[a] = "swapped" /\ \A w \in Writers \ {a} : staged'[w] = staged[w] /\ own'[w] = own[w]
      BY <1>0, <2>1 DEF TypeOK
    <2>4. dest \in Standing \cup {row.pub} /\ dest # want[a] /\ dest \notin ghost.overtaken
      BY <1>2, <1>5, <1>7, BytesAssumption DEF Inv, Versions, Standing, Free
    <2>5. Once'
      BY <1>3, <1>4, <2>1, <2>3, OnceSwapsStaged DEF Inv
    <2>6. Versions'
      <3>1. \A w \in Writers : {staged'[w], previous'[w]} \cap User \subseteq ghost.written
        BY <1>4, <2>3 DEF Inv, Versions
      <3> QED BY <1>2, <1>4, <2>1, <3>1 DEF Inv, Versions
    <2>7. WriterFits(a)'
      BY <1>2, <1>3, <1>4, <2>2, <2>3 DEF WriterFits, Preparing, Undoing, Recovering, Settling
    <2>8. PendFits(a)'
      BY <1>2, <1>3, <1>4, <1>5, <2>1, <2>3, <2>4, BytesAssumption DEF PendFits, Free
    <2>9. PathFits(a)' /\ AsideFits(a)'
      BY <1>2, <1>3, <1>4, <1>7, <2>1, <2>2, <2>3, <2>4 DEF PathFits, AsideFits, Standing
    <2>10. LastWord'
      BY <1>2, <1>4, <2>1, <2>3, <2>4 DEF Inv, LastWord, Standing
    <2> QED BY <1>0, <1>1, <1>4, <1>5, <2>1, <2>2, <2>3, <2>5, <2>6, <2>7, <2>8, <2>9, <2>10, OwnKeeps
  <1> QED BY <1>6, <1>7

\* The rename of what the exchange displaced.
LEMMA RelocateFits ==
  ASSUME Inv, NEW a \in Writers, Relocate(a)
  PROVE  Inv'
  <1>0. Shape' /\ TypeOK
    BY WriterShape DEF WriterSteps, Inv, Shape
  <1>1. pc[a] = "relocate"
    BY DEF Relocate, At
  <1>2. /\ a \in Actors /\ lock = a /\ HolderFits(a) /\ WriterFits(a) /\ row.pend = a /\ PendFits(a)
        /\ want[a] # None /\ want[a] \notin User /\ ghost.overtaken \subseteq User /\ saw[a].pub = row.pub
    BY <1>1, OwnFacts
  <1>3. /\ staged[a] \in Standing \cup ({row.pub} \ {None, want[a]}) /\ previous[a] = None
        /\ staged[a] # None /\ staged[a] \notin ghost.overtaken \cup {want[a]} /\ dest \in Free \cup {want[a]}
    <2>1. staged[a] \in Standing \cup ({row.pub} \ {None, want[a]}) /\ previous[a] = None /\ dest \in Free \cup {want[a]}
      BY <1>1, <1>2 DEF HolderFits, AsideFits, PathFits
    <2> QED BY <1>0, <1>2, <2>1, BytesAssumption DEF Standing, TypeOK, Rows
  <1>4. UNCHANGED <<dest, row, ret, saw, cur, want, ghost>>
    BY DEF Relocate
  <1>5. /\ previous' = [previous EXCEPT ![a] = staged[a]] /\ staged' = [staged EXCEPT ![a] = None]
        /\ own' = [own EXCEPT ![a] = "moved"] /\ Go(a, "inspect") /\ lock' = lock /\ left' = left
    BY <1>3, NoWindow DEF Relocate, Windows
  <1>6. Moves(a, "inspect") /\ pc'[a] = "inspect" /\ "inspect" \in Steps \ Outside
    BY <1>2, <1>5, Going DEF Steps, Inv, Moves, Outside
  <1>7. /\ staged'[a] = None /\ previous'[a] = staged[a] /\ own'[a] = "moved"
        /\ \A w \in Writers \ {a} : staged'[w] = staged[w] /\ previous'[w] = previous[w] /\ own'[w] = own[w]
    BY <1>0, <1>5 DEF TypeOK
  <1>8. Once'
    BY <1>4, <1>7, OnceMoves, BytesAssumption DEF Inv
  <1>9. Versions'
    <2>1. \A w \in Writers : {staged'[w], previous'[w]} \cap User \subseteq ghost.written
      BY <1>7, BytesAssumption DEF Inv, Versions
    <2> QED BY <1>4, <2>1 DEF Inv, Versions
  <1>10. WriterFits(a)'
    BY <1>2, <1>4, <1>6, <1>7 DEF WriterFits, Preparing, Undoing, Recovering, Settling
  <1>11. PendFits(a)'
    BY <1>2, <1>3, <1>4, <1>7 DEF PendFits, Free
  <1>12. PathFits(a)' /\ AsideFits(a)'
    BY <1>2, <1>3, <1>4, <1>6, <1>7 DEF PathFits, AsideFits, Free, Standing
  <1>13. LastWord'
    BY <1>2, <1>3, <1>4, <1>7, BytesAssumption DEF Inv, LastWord, Standing
  <1> QED BY <1>0, <1>1, <1>4, <1>5, <1>6, <1>7, <1>8, <1>9, <1>10, <1>11, <1>12, <1>13, OwnKeeps

\* The commit removes what was Heya's.
LEMMA CommitFits ==
  ASSUME Inv, NEW a \in Writers, Commit(a)
  PROVE  Inv'
  <1>0. Shape' /\ TypeOK
    BY WriterShape DEF WriterSteps, Inv, Shape
  <1>1. pc[a] = "commit"
    BY DEF Commit, At
  <1>2. /\ a \in Actors /\ lock = a /\ HolderFits(a) /\ WriterFits(a) /\ row.pend = a /\ PendFits(a)
        /\ want[a] # None /\ want[a] \notin User /\ row.pub \in Heya \cup {None}
    BY <1>1, OwnFacts
  <1>3. previous[a] = row.pub /\ row.pub # None /\ staged[a] = None /\ dest \in Free \cup {want[a]}
    BY <1>1, <1>2 DEF HolderFits, AsideFits, PathFits, PendFits
  <1>4. UNCHANGED <<dest, staged, row, lock, ret, saw, cur, want, left, ghost>>
    BY DEF Commit
  <1>5. previous' = [previous EXCEPT ![a] = None] /\ own' = [own EXCEPT ![a] = "nothing"] /\ Go(a, "confirm")
    BY DEF Commit
  <1>6. Moves(a, "confirm") /\ pc'[a] = "confirm" /\ "confirm" \in Steps \ Outside
    BY <1>2, <1>5, Going DEF Steps, Inv, Moves, Outside
  <1>7. /\ previous'[a] = None /\ own'[a] = "nothing"
        /\ \A w \in Writers \ {a} : staged'[w] = staged[w] /\ previous'[w] = previous[w] /\ own'[w] = own[w]
    BY <1>0, <1>4, <1>5 DEF TypeOK
  <1>8. Once'
    BY <1>4, <1>7, OnceShrinks, BytesAssumption DEF Inv
  <1>9. Versions'
    <2>1. \A w \in Writers : {staged'[w], previous'[w]} \cap User \subseteq ghost.written
      BY <1>4, <1>7, BytesAssumption DEF Inv, Versions
    <2> QED BY <1>4, <2>1 DEF Inv, Versions
  <1>10. WriterFits(a)'
    BY <1>2, <1>4, <1>6, <1>7 DEF WriterFits, Preparing, Undoing, Recovering, Settling
  <1>11. PendFits(a)'
    BY <1>2, <1>3, <1>4, <1>7, BytesAssumption DEF PendFits, Free
  <1>12. PathFits(a)' /\ AsideFits(a)'
    BY <1>2, <1>3, <1>4, <1>6, <1>7 DEF PathFits, AsideFits, Free
  <1>13. LastWord'
    BY <1>2, <1>3, <1>4, <1>7, BytesAssumption DEF Inv, LastWord, Standing
  <1> QED BY <1>0, <1>1, <1>4, <1>6, <1>7, <1>8, <1>9, <1>10, <1>11, <1>12, <1>13, OwnKeeps

\* The rollback exchanges back; when the path is free it is left to the discard.
LEMMA RestoreFits ==
  ASSUME Inv, NEW a \in Writers, Restore(a)
  PROVE  Inv'
  <1>0. Shape' /\ TypeOK
    BY WriterShape DEF WriterSteps, Inv, Shape
  <1>1. pc[a] = "restore"
    BY DEF Restore, At
  <1>2. /\ a \in Actors /\ a # None /\ pc[a] \notin Outside /\ lock = a /\ HolderFits(a) /\ WriterFits(a)
        /\ row.pend = a /\ PendFits(a)
        /\ want[a] # None /\ want[a] \notin User /\ ghost.overtaken \subseteq User
    BY <1>1, OwnFacts
  <1>3. previous[a] \in Standing /\ previous[a] # None /\ staged[a] = None /\ own[a] = "moved" /\ dest \in Free \cup {want[a]}
    <2>1. previous[a] \in Standing /\ dest \in Free \cup {want[a]} /\ own[a] = "moved"
      BY <1>1, <1>2 DEF HolderFits, AsideFits, PathFits, WriterFits
    <2> QED BY <1>2, <2>1, BytesAssumption DEF Standing, PendFits
  <1>4. UNCHANGED <<staged, row, ret, saw, cur, want, own, left>>
    BY DEF Restore
  <1>5. CASE dest = None
    <2>1. DataSame /\ Leaves(a)
      BY <1>2, <1>4, <1>5, Leaving DEF Restore, DataSame, Inv
    <2>2. lock' = None /\ pc'[a] = "discard" /\ Moves(a, "discard")
      BY <1>2, <2>1 DEF Leaves, After, Moves
    <2>3. OnlyActs(a) /\ RowCloses(a) /\ Shut'
      BY <1>2, <1>4, <2>2 DEF OnlyActs, Moves, Outside, RowCloses, Shut, Inv
    <2>4. UndoFits(a)'
      BY <1>2, <1>3, <1>4, <1>5, <2>1, <2>2 DEF UndoFits, DataSame, Free, Standing
    <2>5. WriterFits(a)'
      BY <1>2, <1>3, <1>4, <2>1, <2>2, <2>4 DEF WriterFits, Preparing, Recovering, Settling, DataSame
    <2> QED BY <1>0, <1>1, <1>2, <1>4, <2>1, <2>2, <2>3, <2>5, MoveKeeps
  <1>6. CASE dest # None
    <2>1. dest' = previous[a] /\ previous' = [previous EXCEPT ![a] = dest] /\ Overtakes(dest) /\ Go(a, "sweep") /\ lock' = lock
      BY <1>3, <1>6 DEF Restore
    <2>2. Moves(a, "sweep") /\ pc'[a] = "sweep" /\ "sweep" \in Steps \ Outside
      BY <1>2, <2>1, Going DEF Steps, Inv, Moves, Outside
    <2>3. previous'[a] = dest /\ \A w \in Writers \ {a} : previous'[w] = previous[w]
      BY <1>0, <2>1 DEF TypeOK
    <2>4. /\ ghost'.overtaken = ghost.overtaken \cup ({dest} \cap User)
          /\ ghost'.written = ghost.written /\ ghost'.last = ghost.last
      BY <1>0, <2>1 DEF Overtakes, TypeOK, Notes
    <2>5. dest' \in Standing /\ dest' # dest /\ dest' \in User
      BY <1>2, <1>3, <1>6, <2>1 DEF Inv, Once, Standing
    <2>6. Once'
      BY <1>4, <2>1, <2>3, OnceSwapsPrevious DEF Inv
    <2>7. Versions'
      <3>1. ghost'.overtaken \subseteq ghost.written
        BY <2>4 DEF Inv, Versions
      <3>2. dest' \in ghost.written \ ghost'.overtaken
        BY <2>1, <2>4, <2>5 DEF Inv, Versions, Standing
      <3>3. \A w \in Writers : {staged'[w], previous'[w]} \cap User \subseteq ghost.written
        BY <1>4, <2>3 DEF Inv, Versions
      <3> QED BY <2>4, <3>1, <3>2, <3>3 DEF Versions
    <2>8. WriterFits(a)'
      BY <1>2, <1>3, <1>4, <2>2 DEF WriterFits, Preparing, Undoing, Recovering, Settling
    <2>9. PendFits(a)'
      BY <1>2, <1>3, <1>4, <2>3, <2>5 DEF PendFits, Free
    <2>10. PathFits(a)' /\ AsideFits(a)'
      <3>1. dest \in {want[a]} \cup ghost'.overtaken
        BY <1>3, <1>6, <2>4 DEF Free
      <3> QED BY <1>2, <1>4, <2>2, <2>3, <2>5, <3>1 DEF PathFits, AsideFits, Free
    <2>11. LastWord'
      <3> SUFFICES ASSUME ghost.last \in User \ ghost'.overtaken PROVE dest' = ghost.last
        BY <2>4 DEF LastWord, Standing
      <3>1. ghost.last \in Standing /\ dest # ghost.last
        BY <2>4 DEF Standing
      <3>2. ghost.last \in {staged[a], previous[a]}
        BY <1>2, <3>1 DEF Inv, LastWord
      <3> QED BY <1>3, <2>1, <3>1, <3>2, BytesAssumption DEF Standing
    <2> QED BY <1>0, <1>1, <1>4, <2>1, <2>2, <2>3, <2>6, <2>7, <2>8, <2>9, <2>10, <2>11, OwnKeeps
  <1> QED BY <1>5, <1>6

\* Removing what came back.
LEMMA SweepFits ==
  ASSUME Inv, NEW a \in Writers, Sweep(a)
  PROVE  Inv'
  <1>0. Shape' /\ TypeOK
    BY WriterShape DEF WriterSteps, Inv, Shape
  <1>1. pc[a] = "sweep"
    BY DEF Sweep, At
  <1>2. /\ a \in Actors /\ lock = a /\ HolderFits(a) /\ WriterFits(a) /\ row.pend = a /\ PendFits(a)
        /\ want[a] # None /\ want[a] \notin User
    BY <1>1, OwnFacts
  <1>3. dest \in Free
    BY <1>1, <1>2 DEF HolderFits, PathFits
  <1>4. UNCHANGED <<dest, staged, row, ret, saw, cur, want, ghost>>
    BY DEF Sweep
  <1>5. /\ previous' = [previous EXCEPT ![a] = None] /\ own' = [own EXCEPT ![a] = "nothing"]
        /\ Go(a, "disown") /\ lock' = lock /\ left' = left
    BY NoWindow DEF Sweep, Windows
  <1>6. Moves(a, "disown") /\ pc'[a] = "disown" /\ "disown" \in Steps \ Outside
    BY <1>2, <1>5, Going DEF Steps, Inv, Moves, Outside
  <1>7. /\ previous'[a] = None /\ own'[a] = "nothing"
        /\ \A w \in Writers \ {a} : staged'[w] = staged[w] /\ previous'[w] = previous[w] /\ own'[w] = own[w]
    BY <1>0, <1>4, <1>5 DEF TypeOK
  <1>8. Once'
    BY <1>4, <1>7, OnceShrinks, BytesAssumption DEF Inv
  <1>9. Versions'
    <2>1. \A w \in Writers : {staged'[w], previous'[w]} \cap User \subseteq ghost.written
      BY <1>4, <1>7, BytesAssumption DEF Inv, Versions
    <2> QED BY <1>4, <2>1 DEF Inv, Versions
  <1>10. WriterFits(a)'
    BY <1>2, <1>4, <1>6, <1>7 DEF WriterFits, Preparing, Undoing, Recovering, Settling
  <1>11. PendFits(a)'
    BY <1>2, <1>3, <1>4, <1>7 DEF PendFits, Free
  <1>12. PathFits(a)' /\ AsideFits(a)'
    BY <1>2, <1>3, <1>4, <1>6, <1>7, ActorsAssumption DEF PathFits, AsideFits, Free
  <1>13. LastWord'
    BY <1>2, <1>3, <1>4, BytesAssumption DEF Inv, LastWord, Standing, Free
  <1> QED BY <1>0, <1>1, <1>4, <1>5, <1>6, <1>7, <1>8, <1>9, <1>10, <1>11, <1>12, <1>13, OwnKeeps

-----------------------------------------------------------------------------
(***************************************************************************)
(* Whoever does not hold the lock: the deferred discard, the next          *)
(* preparation, the user, a crash.                                         *)
(***************************************************************************)
\* A publisher that does not hold the lock changes its own files.  What
\* remains to be shown of the holder and of the others is about them.
LEMMA OutsiderKeeps ==
  ASSUME Inv, Shape', NEW w \in Writers, pc[w] \in {"idle", "discard", "discard2"},
         NEW to \in {"lock", "discard2", "end"}, Moves(w, to),
         UNCHANGED <<row, lock, ret, saw, cur, left>>,
         \A x \in Writers \ {w} : /\ staged'[x] = staged[x] /\ previous'[x] = previous[x]
                                  /\ own'[x] = own[x] /\ want'[x] = want[x],
         \A x \in Writers \ {w} : Undoing(x) => dest' \in Free /\ (previous[x] \in Standing <=> (previous[x] \in Standing)')
                                                /\ (previous[x] \in ghost.overtaken => previous[x] \in ghost'.overtaken),
         WriterFits(w)', \A p \in Writers : row.pend = p => PendFits(p)',
         \A b \in Actors \ {w} : lock = b => PathFits(b)' /\ AsideFits(b)',
         Versions', Once', LastWord', Known'
  PROVE  Inv'
  <1>1. w \in Actors /\ lock # w /\ w # None /\ pc[w] \in Outside /\ to \in Outside
    <2>1. w \in Actors /\ w # None /\ pc[w] \in Outside /\ to \in Outside
      BY ActorsAssumption DEF Actors, Outside
    <2> QED BY <2>1 DEF Inv, Locked
  <1>2. OnlyActs(w)
    BY <1>1 DEF OnlyActs, Moves
  <1>3. Locked' /\ Shut'
    BY <1>1, <1>2, LockedKept DEF Inv, Shut
  <1>4. ASSUME NEW x \in Writers, x # w PROVE WriterFits(x)'
    <2>1. WriterFits(x) /\ x \in Actors
      BY DEF Inv, Actors
    <2>2. pc'[x] = pc[x] /\ ret'[x] = ret[x] /\ own'[x] = own[x] /\ staged'[x] = staged[x] /\ previous'[x] = previous[x] /\ want'[x] = want[x]
      BY <1>2, <1>4, <2>1 DEF OnlyActs
    <2>3. Undoing(x)' => UndoFits(x)'
      <3> SUFFICES ASSUME Undoing(x)' PROVE UndoFits(x)'  OBVIOUS
      <3>1. Undoing(x) /\ UndoFits(x)
        BY <2>1, <2>2 DEF Undoing, WriterFits
      <3>2. dest' \in Free /\ (pc'[x] = "discard" => (previous[x] \in Standing)') /\ (pc'[x] = "discard2" => previous'[x] \in ghost'.overtaken)
        BY <1>4, <2>2, <3>1 DEF UndoFits
      <3>3. row'.pend \in {None, x} \/ pc'[row'.pend] \in {"link", "swap"}
        <4>1. CASE row.pend \in {None, x}
          BY <4>1
        <4>2. CASE row.pend \notin {None, x}
          <5>1. pc[row.pend] \in {"link", "swap"} /\ row.pend \in Actors /\ row.pend # w
            BY <1>1, <3>1, <4>2 DEF UndoFits, Inv, Shape, TypeOK, Rows, Actors
          <5> QED BY <5>1 DEF Moves
        <4> QED BY <4>1, <4>2
      <3> QED BY <2>2, <3>1, <3>2, <3>3 DEF UndoFits
    <2> QED BY <2>1, <2>2, <2>3 DEF WriterFits, Preparing
  <1>5. ASSUME NEW b \in Actors, lock' = b PROVE HolderFits(b)'
    <2>1. b # w /\ lock = b /\ HolderFits(b)
      BY <1>1, <1>5 DEF Inv
    <2>2. pc'[b] = pc[b]
      BY <2>1 DEF Moves
    <2>3. Loaded(b)'
      BY <2>1, <2>2 DEF HolderFits, Loaded
    <2> QED BY <2>1, <2>3 DEF HolderFits
  <1>6. \A p \in Writers : row'.pend = p => PendFits(p)'
    OBVIOUS
  <1> QED BY <1>3, <1>4, <1>5, <1>6 DEF Inv

\* Where the holder relies on the files of the open intent, that is open, and
\* its own or rolled back by nobody.
LEMMA HolderElsewhere ==
  ASSUME Inv, NEW w \in Writers, pc[w] \in Outside, NEW b \in Actors, lock = b
  PROVE  /\ b # w /\ HolderFits(b)
         /\ pc[b] \in Settling => row.pend # None
         /\ pc[b] \in {"link", "unlink", "reload", "swap", "relocate", "inspect", "commit", "restore", "sweep",
                       "confirm", "finalize"} => row.pend = b
  BY DEF Inv, Locked, HolderFits, Loaded

\* The discard, but for the exchange of one that undoes.
LEMMA DropKeeps ==
  ASSUME Inv, Shape', NEW w \in Writers, pc[w] \in {"discard", "discard2"}, Moves(w, "end"),
         UNCHANGED <<dest, row, lock, ret, saw, cur, want, left, ghost>>,
         \A x \in Writers \ {w} : staged'[x] = staged[x] /\ previous'[x] = previous[x] /\ own'[x] = own[x],
         own'[w] = "nothing",
         staged'[w] \in {staged[w], None}, previous'[w] \in {previous[w], None},
         own[w] = "nothing" => staged'[w] = staged[w] /\ previous'[w] = previous[w]
  PROVE  Inv'
  <1>1. WriterFits(w) /\ pc[w] \in Outside /\ pc'[w] = "end" /\ w \in Actors /\ w # None /\ own[w] \in {"nothing", "staged", "moved"}
    BY ActorsAssumption DEF Inv, Outside, Moves, Actors, Shape, TypeOK, WriterFits
  <1>2. own[w] = "moved" => UndoFits(w)
    BY <1>1 DEF WriterFits, Undoing
  <1>3. Once'
    BY OnceShrinks, BytesAssumption DEF Inv
  <1>4. Versions'
    <2>1. \A x \in Writers : {staged'[x], previous'[x]} \cap User \subseteq ghost.written
      BY BytesAssumption DEF Inv, Versions
    <2> QED BY <2>1 DEF Inv, Versions
  <1>5. WriterFits(w)'
    BY <1>1 DEF WriterFits, Preparing, Undoing, Recovering, Settling
  <1>6. ASSUME NEW p \in Writers, row.pend = p PROVE PendFits(p)'
    <2>1. PendFits(p)
      BY <1>6 DEF Inv
    <2>2. CASE p = w
      BY <1>1, <1>2, <1>6, <2>1, <2>2, BytesAssumption DEF PendFits, Free, Inv, Shape, TypeOK, Rows, Notes, UndoFits
    <2>3. CASE p # w
      BY <1>1, <2>1, <2>3 DEF PendFits, Free, Moves, Actors
    <2> QED BY <2>2, <2>3
  <1>7. ASSUME NEW b \in Actors \ {w}, lock = b PROVE PathFits(b)' /\ AsideFits(b)'
    <2>1. b # w /\ HolderFits(b) /\ pc'[b] = pc[b]
      BY <1>1, <1>7, HolderElsewhere DEF Moves
    <2>2. PathFits(b)'
      BY <2>1 DEF HolderFits, PathFits, Free
    <2>3. CASE row.pend = w
      <3>1. pc[b] \notin {"relocate", "inspect", "commit", "restore", "sweep", "confirm", "finalize"}
        BY <1>1, <1>7, <2>1, <2>3, HolderElsewhere
      <3>2. AsideFits(b)'
        BY <2>1, <2>3, <3>1, BytesAssumption DEF HolderFits, AsideFits, Standing
      <3> QED BY <2>2, <3>2
    <2>4. CASE row.pend # w /\ row.pend # None
      <3>1. row.pend \in Writers \ {w}
        BY <2>4 DEF Inv, Shape, TypeOK, Rows
      <3>2. AsideFits(b)'
        BY <2>1, <3>1 DEF HolderFits, AsideFits, Standing
      <3> QED BY <2>2, <3>2
    <2>5. CASE row.pend = None
      <3>1. pc[b] \notin Settling \cup {"relocate", "inspect", "commit", "restore", "sweep", "confirm", "finalize"}
        BY <1>1, <1>7, <2>5, HolderElsewhere, ActorsAssumption
      <3>2. AsideFits(b)'
        BY <2>1, <3>1 DEF AsideFits, Settling
      <3> QED BY <2>2, <3>2
    <2> QED BY <2>3, <2>4, <2>5
  <1>8. LastWord'
    <2> SUFFICES ASSUME ghost.last \in Standing, dest # ghost.last
                 PROVE  /\ row.pend # None /\ dest = want[row.pend]
                        /\ ghost.last \in {staged'[row.pend], previous'[row.pend]}
      BY DEF LastWord, Standing
    <2>1. row.pend # None /\ dest = want[row.pend] /\ ghost.last \in {staged[row.pend], previous[row.pend]}
      BY DEF Inv, LastWord
    <2>2. row.pend \in Writers
      BY <2>1 DEF Inv, Shape, TypeOK, Rows
    <2>3. want[row.pend] \in Heya
      BY <2>2 DEF Inv, PendFits
    <2>4. CASE row.pend = w
      <3>1. own[w] # "moved"
        BY <1>2, <2>1, <2>3, <2>4, BytesAssumption DEF UndoFits, Free
      <3>2. own[w] # "staged"
        BY <1>1, <2>1, <2>3, <2>4, BytesAssumption DEF WriterFits, Standing
      <3> QED BY <1>1, <2>1, <2>4, <3>1, <3>2
    <2>5. CASE row.pend # w
      BY <2>1, <2>2, <2>5
    <2> QED BY <2>4, <2>5
  <1>9. Known'
    BY DEF Inv, Known
  <1>10. \A x \in Writers \ {w} : Undoing(x) => dest' \in Free /\ (previous[x] \in Standing <=> (previous[x] \in Standing)')
                                                /\ (previous[x] \in ghost.overtaken => previous[x] \in ghost'.overtaken)
    BY DEF Inv, WriterFits, UndoFits, Standing
  <1> QED BY <1>1, <1>3, <1>4, <1>5, <1>6, <1>7, <1>8, <1>9, <1>10, OutsiderKeeps

\* The discard of what was prepared, or of what a rollback left.
LEMMA DiscardFits ==
  ASSUME Inv, NEW w \in Writers, Discard(w) \/ DiscardRest(w)
  PROVE  Inv'
  <1>0. Shape' /\ TypeOK
    BY WriterShape DEF WriterSteps, Inv, Shape
  <1>1. pc[w] \in {"discard", "discard2"} /\ w \in Actors /\ w # None /\ pc[w] \in Outside /\ WriterFits(w) /\ ghost.overtaken \subseteq User
    BY <1>0, ActorsAssumption DEF Discard, DiscardRest, At, Actors, Outside, Inv, TypeOK, Notes
  <1>2. UNCHANGED <<row, lock, ret, saw, cur, want, left>>
    BY DEF Discard, DiscardRest
  <1>3. own[w] \in {"nothing", "staged", "moved"} /\ (own[w] = "moved" => Undoing(w) /\ UndoFits(w))
    BY <1>0, <1>1 DEF WriterFits, Undoing, TypeOK
  <1>4. CASE DiscardRest(w)
    <2>1. pc[w] = "discard2" /\ own[w] = "moved"
      BY <1>1, <1>4 DEF DiscardRest, At, WriterFits
    <2>2. /\ Go(w, "end") /\ own' = [own EXCEPT ![w] = "nothing"]
          /\ previous' = [previous EXCEPT ![w] = None] /\ staged' = staged /\ dest' = dest /\ ghost' = ghost
      BY <1>4, <2>1 DEF DiscardRest
    <2>3. Moves(w, "end")
      BY <1>1, <2>2, Going DEF Steps, Inv
    <2>4. /\ own'[w] = "nothing" /\ previous'[w] = None
          /\ \A x \in Writers \ {w} : staged'[x] = staged[x] /\ previous'[x] = previous[x] /\ own'[x] = own[x]
      BY <1>0, <2>2 DEF TypeOK
    <2> QED BY <1>0, <1>1, <1>2, <2>1, <2>2, <2>3, <2>4, DropKeeps
  <1>5. CASE Discard(w) /\ own[w] = "staged"
    <2>1. Go(w, "end") /\ staged' = [staged EXCEPT ![w] = None] /\ UNCHANGED <<dest, previous, ghost>>
      BY <1>5 DEF Discard
    <2>2. Moves(w, "end") /\ pc'[w] = "end"
      BY <1>1, <2>1, Going DEF Steps, Inv, Moves
    <2>3. own' = [own EXCEPT ![w] = "nothing"]
      BY <1>5, <2>2 DEF Discard
    <2>4. /\ own'[w] = "nothing" /\ staged'[w] = None
          /\ \A x \in Writers \ {w} : staged'[x] = staged[x] /\ previous'[x] = previous[x] /\ own'[x] = own[x]
      BY <1>0, <2>1, <2>3 DEF TypeOK
    <2> QED BY <1>0, <1>1, <1>2, <1>5, <2>1, <2>2, <2>4, DropKeeps
  <1>6. CASE Discard(w) /\ (own[w] = "nothing" \/ (own[w] = "moved" /\ dest = None))
    <2>1. Go(w, "end") /\ UNCHANGED <<diskVars, ghost>>
      BY <1>6 DEF Discard
    <2>2. Moves(w, "end") /\ pc'[w] = "end"
      BY <1>1, <2>1, Going DEF Steps, Inv, Moves
    <2>3. own' = [own EXCEPT ![w] = "nothing"]
      BY <1>6, <2>2 DEF Discard
    <2>4. own'[w] = "nothing" /\ \A x \in Writers \ {w} : own'[x] = own[x]
      BY <1>0, <2>3 DEF TypeOK
    <2>5. UNCHANGED <<dest, staged, previous, ghost>>
      BY <2>1 DEF diskVars
    <2> QED BY <1>0, <1>1, <1>2, <2>2, <2>4, <2>5, DropKeeps
  <1>7. CASE Discard(w) /\ own[w] = "moved" /\ dest # None
    <2>1. pc[w] = "discard" /\ UndoFits(w)
      BY <1>3, <1>7 DEF Discard, At
    <2>2. /\ previous[w] \in Standing /\ previous[w] # None /\ previous[w] \in User /\ dest \in User /\ staged[w] = None
          /\ row.pend \in {None, w} \/ pc[row.pend] \in {"link", "swap"}
      BY <1>7, <2>1, BytesAssumption DEF UndoFits, Standing, Free
    <2>3. dest' = previous[w] /\ previous' = [previous EXCEPT ![w] = dest] /\ staged' = staged /\ Overtakes(dest) /\ Go(w, "discard2")
      BY <1>7, <2>2 DEF Discard
    <2>4. Moves(w, "discard2") /\ pc'[w] = "discard2"
      BY <1>1, <2>3, Going DEF Steps, Inv, Moves
    <2>5. own' = own
      BY <1>0, <1>7, <2>4 DEF Discard, TypeOK
    <2>6. previous'[w] = dest /\ \A x \in Writers \ {w} : previous'[x] = previous[x]
      BY <1>0, <2>3 DEF TypeOK
    <2>7. /\ ghost'.overtaken = ghost.overtaken \cup {dest}
          /\ ghost'.written = ghost.written /\ ghost'.last = ghost.last /\ ghost'.first = ghost.first
      BY <1>0, <2>2, <2>3 DEF Overtakes, TypeOK, Notes
    <2>8. dest' \in Standing /\ dest' \in User /\ dest' # dest /\ dest' \in Free
      BY <1>1, <2>2, <2>3 DEF Inv, Once, Standing, Free
    <2>9. Once'
      BY <2>3, <2>6, OnceSwapsPrevious DEF Inv
    <2>10. Versions'
      <3>1. ghost'.overtaken \subseteq ghost.written
        BY <2>2, <2>7 DEF Inv, Versions
      <3>2. dest' \in ghost.written \ ghost'.overtaken
        BY <2>3, <2>7, <2>8 DEF Inv, Versions, Standing
      <3>3. \A x \in Writers : {staged'[x], previous'[x]} \cap User \subseteq ghost.written
        BY <2>2, <2>3, <2>6 DEF Inv, Versions
      <3> QED BY <2>7, <3>1, <3>2, <3>3 DEF Versions
    <2>11. WriterFits(w)'
      <3>1. UndoFits(w)'
        <4>1. row'.pend \in {None, w} \/ pc'[row'.pend] \in {"link", "swap"}
          <5>1. CASE row.pend \in {None, w}
            BY <1>2, <5>1
          <5>2. CASE row.pend \notin {None, w}
            <6>1. pc[row.pend] \in {"link", "swap"} /\ row.pend \in Actors
              BY <1>0, <2>2, <5>2 DEF TypeOK, Rows, Actors
            <6> QED BY <1>2, <2>4, <5>2, <6>1 DEF Moves
          <5> QED BY <5>1, <5>2
        <4> QED BY <2>2, <2>3, <2>4, <2>6, <2>7, <2>8, <4>1 DEF UndoFits
      <3> QED BY <1>1, <1>2, <1>7, <2>3, <2>4, <2>5, <3>1 DEF WriterFits, Preparing, Recovering, Settling
    <2>12. ASSUME NEW p \in Writers, row.pend = p PROVE PendFits(p)'
      <3>1. PendFits(p)
        BY <2>12 DEF Inv
      <3>2. CASE p = w
        BY <1>2, <1>7, <2>2, <2>3, <2>5, <2>6, <2>8, <3>1, <3>2, BytesAssumption DEF PendFits, Free
      <3>3. CASE p # w
        BY <1>2, <2>3, <2>5, <2>6, <2>8, <3>1, <3>3 DEF PendFits, Free
      <3> QED BY <3>2, <3>3
    <2>13. ASSUME NEW b \in Actors \ {w}, lock = b PROVE PathFits(b)' /\ AsideFits(b)'
      <3>1. b # w /\ HolderFits(b) /\ pc'[b] = pc[b]
        BY <1>1, <2>4, <2>13, HolderElsewhere DEF Moves
      <3>2. dest' \notin Heya
        BY <2>8, BytesAssumption
      <3>3. PathFits(b)'
        BY <1>2, <2>8, <3>1, <3>2 DEF HolderFits, PathFits, Free
      <3>4. CASE row.pend = w
        <4>1. pc[b] \notin {"relocate", "inspect", "commit", "restore", "sweep", "confirm", "finalize"}
          BY <1>1, <2>13, <3>1, <3>4, HolderElsewhere
        <4>2. pc[b] \notin {"putBack", "removePrevious", "removeStaged", "redo", "redoMove", "accept", "acknowledge", "relink", "relinked"}
          BY <1>7, <2>2, <3>1, <3>4 DEF HolderFits, AsideFits
        <4>3. AsideFits(b)'
          BY <3>1, <4>1, <4>2 DEF AsideFits
        <4> QED BY <3>3, <4>3
      <3>5. CASE row.pend # w
        <4>1. row.pend = None \/ (row.pend \in Actors /\ pc[row.pend] \in {"link", "swap"})
          BY <1>0, <2>2, <3>5 DEF TypeOK, Rows, Actors
        <4>2. row.pend = None \/ row.pend = b
          BY <2>13, <4>1, Holding DEF Outside
        <4>3. pc[b] \notin Settling \cup {"relocate", "inspect", "commit", "restore", "sweep", "confirm", "finalize"}
          BY <1>1, <2>13, <4>1, <4>2, HolderElsewhere, ActorsAssumption DEF Settling
        <4>4. AsideFits(b)'
          BY <3>1, <4>3 DEF AsideFits, Settling
        <4> QED BY <3>3, <4>4
      <3> QED BY <3>4, <3>5
    <2>14. LastWord'
      <3> SUFFICES ASSUME ghost.last \in User \ ghost'.overtaken PROVE FALSE
        BY <2>7 DEF LastWord, Standing
      <3>1. ghost.last \in Standing /\ dest # ghost.last
        BY <2>7 DEF Standing
      <3>2. row.pend # None /\ dest = want[row.pend]
        BY <3>1 DEF Inv, LastWord
      <3>3. want[row.pend] \in Heya
        BY <1>0, <3>2 DEF Inv, PendFits, TypeOK, Rows
      <3> QED BY <2>2, <3>2, <3>3, BytesAssumption
    <2>15. Known'
      BY <2>8, BytesAssumption DEF Known
    <2>16. \A x \in Writers \ {w} : Undoing(x) => dest' \in Free /\ (previous[x] \in Standing <=> (previous[x] \in Standing)')
                                                /\ (previous[x] \in ghost.overtaken => previous[x] \in ghost'.overtaken)
      <3> TAKE x \in Writers \ {w}
      <3>1. previous'[x] = previous[x] /\ previous[x] # dest
        BY <2>2, <2>6 DEF Inv, Once
      <3> QED BY <2>7, <2>8, <3>1 DEF Standing
    <2> QED BY <1>0, <1>1, <1>2, <2>3, <2>4, <2>5, <2>6, <2>9, <2>10, <2>11, <2>12, <2>13, <2>14, <2>15, <2>16, OutsiderKeeps
  <1>8. Discard(w) => own[w] = "staged" \/ own[w] = "nothing" \/ (own[w] = "moved" /\ dest = None) \/ (own[w] = "moved" /\ dest # None)
    BY <1>3
  <1> QED BY <1>4, <1>5, <1>6, <1>7, <1>8

\* The preparation of the next publication.
LEMMA PrepareFits ==
  ASSUME Inv, NEW w \in Writers, Prepare(w)
  PROVE  Inv'
  <1>0. Shape' /\ TypeOK
    BY OutsideShape DEF Inv, Shape
  <1>1. pc[w] = "idle" /\ w \in Actors /\ w # None /\ pc[w] \in Outside /\ WriterFits(w)
    BY ActorsAssumption DEF Prepare, At, Actors, Outside, Inv
  <1>2. row.pend # w /\ previous[w] = None
    BY <1>1 DEF WriterFits
  <1>3. UNCHANGED <<dest, previous, row, lock, ret, saw, cur, left, ghost>> /\ own' = [own EXCEPT ![w] = "staged"] /\ Go(w, "lock")
    BY DEF Prepare
  <1>4. PICK h \in Heya : staged' = [staged EXCEPT ![w] = h] /\ want' = [want EXCEPT ![w] = h]
    BY DEF Prepare
  <1>5. Moves(w, "lock") /\ pc'[w] = "lock"
    BY <1>1, <1>3, Going DEF Steps, Inv, Moves
  <1>6. /\ staged'[w] = h /\ want'[w] = h /\ own'[w] = "staged" /\ h \notin User
        /\ \A x \in Writers \ {w} : staged'[x] = staged[x] /\ previous'[x] = previous[x] /\ own'[x] = own[x] /\ want'[x] = want[x]
    BY <1>0, <1>3, <1>4, BytesAssumption DEF TypeOK
  <1>7. Once'
    BY <1>3, <1>6, OnceShrinks DEF Inv
  <1>8. Versions'
    <2>1. \A x \in Writers : {staged'[x], previous'[x]} \cap User \subseteq ghost.written
      BY <1>3, <1>6 DEF Inv, Versions
    <2> QED BY <1>3, <2>1 DEF Inv, Versions
  <1>9. WriterFits(w)'
    BY <1>2, <1>3, <1>5, <1>6 DEF WriterFits, Preparing, Undoing, Recovering, Settling
  <1>10. ASSUME NEW p \in Writers, row.pend = p PROVE PendFits(p)'
    <2>1. p # w /\ PendFits(p) /\ p \in Actors
      BY <1>2, <1>10 DEF Inv, Actors
    <2>2. pc'[p] = pc[p] /\ staged'[p] = staged[p] /\ previous'[p] = previous[p] /\ own'[p] = own[p] /\ want'[p] = want[p]
      BY <1>5, <1>6, <2>1 DEF Moves
    <2> QED BY <1>3, <2>1, <2>2 DEF PendFits, Free
  <1>11. ASSUME NEW b \in Actors \ {w}, lock = b PROVE PathFits(b)' /\ AsideFits(b)'
    <2>1. b # w /\ HolderFits(b) /\ pc'[b] = pc[b]
      BY <1>1, <1>5, <1>11, HolderElsewhere DEF Moves
    <2>2. pc[b] \in {"attest", "intend"} => want'[b] = want[b]
      BY <1>6, <2>1 DEF HolderFits, Loaded
    <2>3. CASE row.pend # None
      <3>1. row.pend \in Writers \ {w}
        BY <1>0, <1>2, <2>3 DEF TypeOK, Rows
      <3>2. want'[row.pend] = want[row.pend] /\ staged'[row.pend] = staged[row.pend] /\ previous'[row.pend] = previous[row.pend] /\ own'[row.pend] = own[row.pend]
        BY <1>6, <3>1
      <3>3. PathFits(b)'
        BY <1>3, <2>1, <2>2, <3>2 DEF HolderFits, PathFits, Free
      <3>4. AsideFits(b)'
        BY <1>3, <2>1, <3>2 DEF HolderFits, AsideFits, Standing
      <3> QED BY <3>3, <3>4
    <2>4. CASE row.pend = None
      <3>1. pc[b] \notin Settling \cup {"link", "unlink", "reload", "swap", "relocate", "inspect", "commit", "restore", "sweep", "confirm", "finalize"}
        BY <1>1, <1>11, <2>4, HolderElsewhere, ActorsAssumption
      <3>2. PathFits(b)'
        BY <1>3, <2>1, <2>2, <2>4, <3>1 DEF HolderFits, PathFits, Free, Settling
      <3>3. AsideFits(b)'
        BY <2>1, <3>1 DEF AsideFits, Settling
      <3> QED BY <3>2, <3>3
    <2> QED BY <2>3, <2>4
  <1>12. LastWord'
    <2> SUFFICES ASSUME ghost.last \in Standing, dest # ghost.last
                 PROVE  /\ row.pend # None /\ dest = want'[row.pend]
                        /\ ghost.last \in {staged'[row.pend], previous'[row.pend]}
      BY <1>3 DEF LastWord, Standing
    <2>1. row.pend # None /\ dest = want[row.pend] /\ ghost.last \in {staged[row.pend], previous[row.pend]}
      BY DEF Inv, LastWord
    <2>2. row.pend \in Writers \ {w}
      BY <1>0, <1>2, <2>1 DEF TypeOK, Rows
    <2> QED BY <1>6, <2>1, <2>2
  <1>13. Known'
    BY <1>3 DEF Inv, Known
  <1>14. \A x \in Writers \ {w} : Undoing(x) => dest' \in Free /\ (previous[x] \in Standing <=> (previous[x] \in Standing)')
                                                /\ (previous[x] \in ghost.overtaken => previous[x] \in ghost'.overtaken)
    BY <1>3 DEF Inv, WriterFits, UndoFits, Standing
  <1> QED BY <1>0, <1>1, <1>3, <1>5, <1>6, <1>7, <1>8, <1>9, <1>10, <1>11, <1>12, <1>13, <1>14, OutsiderKeeps

\* The user, at any moment.
LEMMA UserFits ==
  ASSUME Inv, UserDeletes \/ \E v \in User : UserWrites(v)
  PROVE  Inv'
  <1>0. Shape' /\ TypeOK
    BY OutsideShape DEF Inv, Shape
  <1>1. UNCHANGED <<staged, previous, row, lock, pc, ret, saw, cur, want, own>>
    BY DEF UserWrites, UserDeletes, actorVars
  <1>2. /\ ghost'.last = dest'
        /\ ghost.written \subseteq ghost'.written
        /\ dest' \in Free /\ dest' \notin Heya
        /\ dest' \in User => dest' \in ghost'.written \ ghost.written
        /\ ghost'.overtaken = ghost.overtaken
    <2>1. CASE UserDeletes
      BY <1>0, <2>1, BytesAssumption DEF UserDeletes, Free, TypeOK, Notes
    <2>2. ASSUME NEW v \in User, UserWrites(v) PROVE <1>2!:
      BY <1>0, <2>2, BytesAssumption DEF UserWrites, Free, TypeOK, Notes
    <2> QED BY <2>1, <2>2
  <1>3. Shut'
    <2>1. CASE UserDeletes
      BY <2>1, Spending, ShutKept DEF UserDeletes, LimitNames, Windows, Inv
    <2>2. CASE \E v \in User : UserWrites(v)
      BY <2>2 DEF UserWrites, Inv, Shut
    <2> QED BY <2>1, <2>2
  <1>4. Locked'
    BY <1>1 DEF Inv, Locked
  <1>5. Versions'
    <2>1. \A w \in Writers : {staged[w], previous[w]} \cap User \subseteq ghost'.written
      BY <1>2 DEF Inv, Versions
    <2>2. ghost'.overtaken \subseteq ghost'.written /\ (dest' \in User => dest' \in ghost'.written \ ghost'.overtaken)
      BY <1>2 DEF Inv, Versions
    <2> QED BY <1>1, <2>1, <2>2 DEF Versions
  <1>6. Once'
    <2>1. dest' \in User => \A w \in Writers : dest' \notin {staged[w], previous[w]}
      BY <1>2 DEF Inv, Versions
    <2> QED BY <1>1, <2>1 DEF Inv, Once
  <1>7. ASSUME NEW w \in Writers PROVE WriterFits(w)'
    BY <1>1, <1>2 DEF Inv, WriterFits, Preparing, Undoing, UndoFits, Standing
  <1>8. ASSUME NEW p \in Writers, row.pend = p PROVE PendFits(p)'
    BY <1>1, <1>2, <1>8 DEF Inv, PendFits, Free
  <1>9. ASSUME NEW b \in Actors, lock = b PROVE HolderFits(b)'
    <2>1. HolderFits(b)
      BY <1>9 DEF Inv
    <2>2. Loaded(b)'
      BY <1>1, <2>1 DEF HolderFits, Loaded
    <2>3. PathFits(b)'
      BY <1>1, <1>2, <2>1 DEF HolderFits, PathFits, Free
    <2>4. AsideFits(b)'
      BY <1>1, <1>2, <2>1 DEF HolderFits, AsideFits, Standing
    <2> QED BY <2>2, <2>3, <2>4 DEF HolderFits
  <1>10. LastWord' /\ Known'
    BY <1>2, BytesAssumption DEF LastWord, Known, Standing
  <1> QED BY <1>0, <1>1, <1>3, <1>4, <1>5, <1>6, <1>7, <1>8, <1>9, <1>10 DEF Inv, Shape

\* A crash leaves the files and the row to whoever takes the lock next.
LEMMA CrashFits ==
  ASSUME Inv, Crash
  PROVE  Inv'
  <1>0. Shape' /\ TypeOK
    BY OutsideShape DEF Inv, Shape
  <1>1. UNCHANGED <<dest, staged, previous, row, ret, saw, cur, want, ghost>> /\ lock' = None
        /\ own' = [w \in Writers |-> "nothing"]
    BY DEF Crash, diskVars
  <1>2. \A a \in Actors : pc'[a] = IF a \in Writers /\ pc[a] # "idle" THEN "end" ELSE "idle"
    BY DEF Crash
  <1>3. Shut'
    BY Spending, ShutKept DEF Crash, LimitNames, Windows, Inv
  <1>4. Locked'
    BY <1>1, <1>2, ActorsAssumption DEF Locked, Outside
  <1>5. Versions' /\ Once'
    BY <1>1 DEF Inv, Versions, Once
  <1>6. ASSUME NEW w \in Writers PROVE WriterFits(w)'
    <2>1. w \in Actors /\ WriterFits(w) /\ own'[w] = "nothing"
      BY <1>1 DEF Actors, Inv
    <2>2. CASE pc[w] = "idle"
      <3>1. pc'[w] = "idle"
        BY <1>2, <2>1, <2>2
      <3> QED BY <1>1, <2>1, <2>2, <3>1 DEF WriterFits, Preparing, Undoing, Recovering, Settling
    <2>3. CASE pc[w] # "idle"
      <3>1. pc'[w] = "end"
        BY <1>2, <2>1, <2>3
      <3> QED BY <1>1, <2>1, <3>1 DEF WriterFits, Preparing, Undoing, Recovering, Settling
    <2> QED BY <2>2, <2>3
  <1>7. ASSUME NEW p \in Writers, row.pend = p PROVE PendFits(p)'
    BY <1>1, <1>7 DEF Inv, PendFits, Free
  <1>8. \A b \in Actors : lock' # b
    BY <1>1, ActorsAssumption
  <1>9. LastWord' /\ Known'
    BY <1>1 DEF Inv, LastWord, Known, Standing
  <1> QED BY <1>0, <1>1, <1>3, <1>4, <1>5, <1>6, <1>7, <1>8, <1>9 DEF Inv

-----------------------------------------------------------------------------
(***************************************************************************)
(* The invariant, and what it says of the file.                            *)
(***************************************************************************)
\* It holds at the start of a run without windows.
LEMMA InitInv ==
  ASSUME Windowless, Init
  PROVE  Inv
  <1>1. Shape
    BY InitShape
  <1>2. /\ staged = [w \in Writers |-> None] /\ previous = [w \in Writers |-> None]
        /\ row.pend = None /\ lock = None /\ own = [w \in Writers |-> "nothing"]
        /\ pc = [a \in Actors |-> "idle"] /\ ret = [a \in Actors |-> "end"] /\ left = Limits
    BY DEF Init
  <1>3. /\ ghost.written = {dest} \cap User /\ ghost.overtaken = {} /\ ghost.first = dest
        /\ ghost.last = IF dest \in User THEN dest ELSE None
    BY DEF Init
  <1>4. Shut /\ Locked
    BY <1>2, ActorsAssumption DEF Windowless, Shut, Locked, Outside
  <1>5. Versions /\ Once
    BY <1>2, <1>3, BytesAssumption DEF Versions, Once
  <1>6. ASSUME NEW w \in Writers PROVE WriterFits(w)
    <2>1. w \in Actors /\ w # None
      BY ActorsAssumption DEF Actors
    <2>2. pc[w] = "idle" /\ own[w] = "nothing" /\ staged[w] = None /\ previous[w] = None
      BY <1>2, <2>1
    <2> QED BY <1>2, <2>1, <2>2 DEF WriterFits, Preparing, Undoing, Recovering, Settling
  <1>7. \A a \in Actors : lock # a /\ row.pend # a
    BY <1>2, ActorsAssumption
  <1>8. LastWord /\ Known
    BY <1>3, BytesAssumption DEF LastWord, Known, Standing
  <1> QED BY <1>1, <1>4, <1>5, <1>6, <1>7, <1>8 DEF Inv, Actors

\* Every step keeps it.
LEMMA StepKeeps ==
  ASSUME Inv, [Next]_vars
  PROVE  Inv'
  <1>1. CASE UNCHANGED vars
    <2>1. UNCHANGED <<dest, staged, previous, row, lock, pc, ret, saw, cur, want, own, left, ghost>>
      BY <1>1 DEF vars, diskVars, actorVars
    <2>2. Shape' /\ Shut' /\ Locked' /\ Versions' /\ Once' /\ LastWord' /\ Known'
      BY <2>1 DEF Inv, Shape, TypeOK, Addressed, Shut, Locked, Versions, Once, LastWord, Known, Standing
    <2>3. \A w \in Writers : WriterFits(w)'
      BY <2>1 DEF Inv, WriterFits, Preparing, Undoing, UndoFits, Standing
    <2>4. \A p \in Writers : row'.pend = p => PendFits(p)'
      BY <2>1 DEF Inv, PendFits
    <2>5. \A a \in Actors : lock' = a => HolderFits(a)'
      BY <2>1 DEF Inv, HolderFits, Loaded, PathFits, AsideFits, Standing
    <2> QED BY <2>2, <2>3, <2>4, <2>5 DEF Inv
  <1>2. ASSUME NEW a \in Actors, RecoverySteps(a) PROVE Inv'
    BY <1>2, RecoverFits, PutBackFits, RemoveReturnedFits, AcceptFits, RedoFits, RedoMoveFits, RelinkFits,
       TidyFits, RecoveryStatementsFit DEF RecoverySteps
  <1>3. ASSUME NEW a \in Writers, WriterSteps(a) PROVE Inv'
    <2>1. CASE Load(a) \/ Judge(a) \/ Attest(a) \/ Intend(a) \/ Reload(a) \/ Inspect(a) \/ Confirm(a) \/ Finalize(a)
      BY <2>1, LoadFits, JudgeFits, RecordFits, IntendFits, LookFits
    <2>2. CASE Link(a) \/ Unlink(a) \/ Swap(a) \/ Relocate(a) \/ Commit(a) \/ Restore(a) \/ Sweep(a)
      BY <2>2, LinkFits, SwapFits, RelocateFits, CommitFits, RestoreFits, SweepFits
    <2>3. CASE Discard(a) \/ DiscardRest(a)
      BY <2>3, DiscardFits
    <2> QED BY <1>3, <2>1, <2>2, <2>3 DEF WriterSteps
  <1>4. ASSUME NEW a \in Actors \ Writers, JanitorSteps(a) \/ ScannerSteps(a) PROVE Inv'
    BY <1>4, VisitorsFit DEF JanitorSteps, ScannerSteps
  <1>5. Writers \cap Janitors = {} /\ Writers \cap Scanners = {}
    BY ActorsAssumption
  <1>6. ASSUME NEW a \in Actors, Runs(a) PROVE Inv'
    BY <1>2, <1>3, <1>4, <1>5, <1>6 DEF Runs
  <1>7. ASSUME NEW a, LoseSession(a) \/ LeftoverStays(a) \/ RemovalFails(a) PROVE Inv'
    BY <1>7, NoWindow DEF LoseSession, LeftoverStays, RemovalFails, Windows
  <1>8. ASSUME NEW a \in Actors, \/ a \in Writers /\ Lock(a)
                                 \/ a \in Janitors /\ Examine(a)
                                 \/ a \in Scanners /\ (Inventory(a) \/ Classify(a))
        PROVE  Inv'
    BY <1>8, TakersFit
  <1>9. Writers \subseteq Actors /\ Janitors \subseteq Actors /\ Scanners \subseteq Actors
    BY DEF Actors
  <1> QED BY <1>1, <1>6, <1>7, <1>8, <1>9, PrepareFits, UserFits, CrashFits DEF Next

\* So it always holds.
LEMMA InvHolds ==
  ASSUME Windowless
  PROVE  Spec => []Inv
  <1>1. Init => Inv
    BY InitInv
  <1>2. Inv /\ [Next]_vars => Inv'
    BY StepKeeps
  <1> QED BY <1>1, <1>2, PTL DEF Spec

\* Without the four windows, publications, recoveries, discards and crashes in
\* any order leave at the path what the user wrote last.
THEOREM LastWordIsTheUsers ==
  ASSUME Windowless
  PROVE  Spec => []UserHasLastWord
  <1>1. Inv => UserHasLastWord
    BY DEF Inv, LastWord, UserHasLastWord, Quiet, Standing
  <1> QED BY <1>1, InvHolds, PTL

\* Without them, bytes that Heya left at the path are on record as its own.
THEOREM OwnFilesOnRecord ==
  ASSUME Windowless
  PROVE  Spec => []OwnFilesKnown
  <1>1. Inv => OwnFilesKnown
    BY DEF Inv, Known, OwnFilesKnown, Quiet
  <1> QED BY <1>1, InvHolds, PTL

-----------------------------------------------------------------------------
(***************************************************************************)
(* Every step is one that the owner of the file was promised.              *)
(***************************************************************************)
\* The user's versions aside, as SidecarOwner sees them.
Asides == {v \in User : OnDisk(v)} \ ghost.overtaken
Promised == [Owner!Next]_(Owner!vars)
\* Only the user deletes.
Spares == left'["delete"] = left["delete"]
\* What is not a version that counts.
Worthless(f) == f \notin Standing

\* Statements and queries delete nothing.
LEMMA StatementSpares ==
  ASSUME Inv, NEW a, NEW e, NEW n, Statement(a, e, n) \/ LastStatement(a, e) \/ Query(a, n)
  PROVE  Spares
  <1>1. "fault" \in LimitNames \ {"all"} /\ "delete" \in LimitNames \ {"fault", "all"} /\ Shape
    BY DEF LimitNames, Inv
  <1>2. Spend("fault") => Spares
    BY <1>1, Spending DEF Costs, Spares
  <1> QED BY <1>2 DEF Statement, LastStatement, Query, Spares

\* Files that do not count come and go: nothing happens.
LEMMA DropPromised ==
  ASSUME Spares, dest' = dest, ghost'.overtaken = ghost.overtaken,
         \A w \in Writers : /\ staged'[w] = staged[w] \/ (Worthless(staged[w]) /\ Worthless(staged'[w]))
                            /\ previous'[w] = previous[w] \/ (Worthless(previous[w]) /\ Worthless(previous'[w]))
  PROVE  Promised
  <1>1. Asides' = Asides
    BY DEF Asides, OnDisk, Worthless, Standing
  <1> QED BY <1>1 DEF Promised, Owner!vars, Asides, Spares
\* Heya renders over what is not the user's.
LEMMA RenderPromised ==
  ASSUME Spares, dest \notin User, dest' \in Heya, ghost'.overtaken = ghost.overtaken,
         \A w \in Writers : /\ staged'[w] = staged[w] \/ (Worthless(staged[w]) /\ Worthless(staged'[w]))
                            /\ previous'[w] = previous[w] \/ (Worthless(previous[w]) /\ Worthless(previous'[w]))
  PROVE  Promised
  <1>1. Asides' = Asides
    BY DEF Asides, OnDisk, Worthless, Standing
  <1> QED BY <1>1 DEF Promised, Owner!Next, Owner!Render, Asides, Spares
\* A rename aside is not seen.
LEMMA MovePromised ==
  ASSUME Spares, dest' = dest, ghost'.overtaken = ghost.overtaken,
         NEW p \in Writers, previous'[p] = staged[p], staged'[p] = None, previous[p] = None,
         \A w \in Writers \ {p} : staged'[w] = staged[w] /\ previous'[w] = previous[w]
  PROVE  Promised
  <1>1. Asides' = Asides
    BY BytesAssumption DEF Asides, OnDisk
  <1> QED BY <1>1 DEF Promised, Owner!vars, Asides, Spares
\* An exchange over the user's version displaces it.
LEMMA DisplacePromised ==
  ASSUME Spares, Versions, dest \in User, dest' \in Heya, ghost'.overtaken = ghost.overtaken,
         NEW p \in Writers, staged[p] \notin User, staged'[p] = dest, previous' = previous,
         \A w \in Writers \ {p} : staged'[w] = staged[w]
  PROVE  Promised
  <1>1. Asides' = Asides \cup {dest}
    BY DEF Asides, OnDisk, Versions
  <1> QED BY <1>1 DEF Promised, Owner!Next, Owner!Displace, Asides, Spares
\* One that brings a version back may overtake what the user wrote meanwhile.
LEMMA BackPromised ==
  ASSUME Spares, Once, dest' \in Standing, ghost'.overtaken = ghost.overtaken \cup ({dest} \cap User),
         NEW p \in Writers,
         \/ dest' = previous[p] /\ previous'[p] = dest /\ staged'[p] = staged[p]
         \/ dest' = staged[p] /\ staged'[p] = dest /\ previous'[p] = previous[p],
         \A w \in Writers \ {p} : staged'[w] = staged[w] /\ previous'[w] = previous[w]
  PROVE  Promised
  <1>1. dest' \in Asides
    BY DEF Asides, OnDisk, Standing
  <1>2. Asides' = Asides \ {dest'}
    <2>1. ASSUME NEW v \in Asides, v # dest' PROVE v \in Asides'
      <3>1. v # dest
        BY <2>1 DEF Asides, OnDisk, Once
      <3>2. OnDisk(v)'
        BY <2>1 DEF Asides, OnDisk
      <3> QED BY <3>1, <3>2 DEF Asides
    <2>2. ASSUME NEW v \in Asides' PROVE v \in Asides /\ v # dest'
      <3>1. v \in User /\ v # dest /\ v \notin ghost.overtaken
        BY <2>2 DEF Asides
      <3>2. OnDisk(v)
        BY <2>2, <3>1 DEF Asides, OnDisk
      <3>3. v # dest'
        BY <2>2, <3>1 DEF Asides, OnDisk, Once, Standing
      <3> QED BY <3>1, <3>2, <3>3 DEF Asides
    <2> QED BY <2>1, <2>2
  <1> QED BY <1>1, <1>2 DEF Promised, Owner!Next, Owner!PutBack, Asides, Spares

\* Recovery.
LEMMA RecoveryPromised ==
  ASSUME Inv, NEW a \in Actors, RecoverySteps(a)
  PROVE  Promised
  <1>0. TypeOK /\ Shape
    BY DEF Inv, Shape
  <1>1. CASE Recover(a) \/ Acknowledge(a) \/ Reloaded(a) \/ Retire(a) \/ Forget(a) \/ Disown(a) \/ LeaveNow(a)
    <2>1. UNCHANGED <<dest, staged, previous, ghost>>
      BY <1>1 DEF Recover, Acknowledge, Reloaded, Retire, Forget, Disown, LeaveNow, diskVars
    <2>2. Spares
      BY <1>1, StatementSpares DEF Recover, RecoverFrame, Acknowledge, Reloaded, Retire, Forget, Disown, LeaveNow, Spares
    <2> QED BY <2>1, <2>2, DropPromised
  <1>2. CASE PutBack(a) \/ RemoveReturned(a) \/ Accept(a) \/ Redo(a) \/ RedoMove(a) \/ Relink(a) \/ Relinked(a) \/ Tidy(a)
    <2>1. pc[a] \in Settling
      BY <1>2 DEF PutBack, RemoveReturned, Accept, Redo, RedoMove, Relink, Relinked, Tidy, At, Settling
    <2>p. PICK p \in Writers : p = row.pend
      BY <2>1, SettlingFacts
    <2>2. /\ Intent(a) = p /\ Wanted(a) = want[p] /\ want[p] \in Heya /\ want[p] # None /\ want[p] \notin User
          /\ PendFits(p) /\ HolderFits(a) /\ saw[a] = row /\ ghost.overtaken \subseteq User
          /\ row.pub \in Heya \cup {None} /\ p # None
      BY <2>1, <2>p, SettlingFacts
    <2>3. row.pub \notin User /\ None \notin User
      BY <2>2, BytesAssumption
    <2>4. Spares
      <3>1. RedoMove(a) => staged[p] # None
        BY <2>p, <2>2, BytesAssumption DEF HolderFits, AsideFits, RedoMove, At, Standing
      <3>2. left' = left
        BY <1>2, <2>2, <3>1, NoWindow DEF PutBack, RemoveReturned, RecoverFrame, Accept, Redo, RedoMove, Relink, Relinked, Tidy, Windows
      <3> QED BY <3>2 DEF Spares
    <2>5. CASE PutBack(a)
      <3>1. previous[p] \in Standing \/ (previous[p] = None /\ staged[p] \in Standing)
        BY <2>p, <2>2, <2>5 DEF HolderFits, AsideFits, PutBack, At
      <3>2. CASE UNCHANGED <<diskVars, ghost>>
        BY <2>4, <3>2, DropPromised DEF diskVars
      <3>3. CASE ~UNCHANGED <<diskVars, ghost>>
        <4>1. /\ Aside(a) = (IF previous[p] # None THEN "previous" ELSE "staged")
              /\ BytesAside(a) = (IF previous[p] # None THEN previous[p] ELSE staged[p])
              /\ BytesAside(a) \in Standing
          BY <2>2, <2>3, <3>1 DEF Aside, BytesAside, Standing
        <4>2. /\ dest' = BytesAside(a) /\ Overtakes(dest)
              /\ IF Aside(a) = "previous"
                 THEN previous' = [previous EXCEPT ![p] = dest] /\ staged' = staged
                 ELSE staged' = [staged EXCEPT ![p] = dest] /\ previous' = previous
          BY <2>2, <2>5, <3>3, <4>1 DEF PutBack
        <4>3. ghost'.overtaken = ghost.overtaken \cup ({dest} \cap User)
          BY <1>0, <4>2 DEF Overtakes, TypeOK, Notes
        <4>4. \A w \in Writers \ {p} : staged'[w] = staged[w] /\ previous'[w] = previous[w]
          BY <1>0, <4>2 DEF TypeOK
        <4>5. \/ dest' = previous[p] /\ previous'[p] = dest /\ staged'[p] = staged[p]
              \/ dest' = staged[p] /\ staged'[p] = dest /\ previous'[p] = previous[p]
          BY <1>0, <4>1, <4>2 DEF TypeOK
        <4> QED BY <2>4, <4>1, <4>2, <4>3, <4>4, <4>5, BackPromised DEF Inv
      <3> QED BY <3>2, <3>3
    <2>6. CASE RemoveReturned(a)
      <3>1. UNCHANGED <<dest, ghost>>
        BY <2>6 DEF RemoveReturned
      <3>2. /\ pc[a] = "removePrevious" => previous[p] \in {want[p]} \cup ghost.overtaken
            /\ pc[a] = "removeStaged" => staged[p] \in {want[p]} \cup ghost.overtaken /\ previous[p] = None
        BY <2>p, <2>2 DEF HolderFits, AsideFits
      <3>3. \A w \in Writers \ {p} : staged'[w] = staged[w] /\ previous'[w] = previous[w]
        BY <1>0, <2>2, <2>6 DEF RemoveReturned, Drop, TypeOK
      <3>4. /\ staged'[p] \in {staged[p], None} /\ previous'[p] \in {previous[p], None}
            /\ staged'[p] # staged[p] => staged[p] = want[p] \/ pc[a] = "removeStaged"
            /\ previous'[p] # previous[p] => previous[p] = want[p] \/ pc[a] = "removePrevious"
        BY <1>0, <2>2, <2>6 DEF RemoveReturned, Drop, TypeOK, At
      <3> QED BY <2>2, <2>3, <2>4, <3>1, <3>2, <3>3, <3>4, DropPromised DEF Worthless, Standing
    <2>7. CASE Accept(a)
      <3>1. UNCHANGED <<dest, ghost>>
        BY <2>7 DEF Accept
      <3>2. staged[p] \notin User /\ previous[p] \notin User
        BY <2>p, <2>2, <2>7 DEF HolderFits, AsideFits, Accept, At
      <3>3. \A w \in Writers \ {p} : staged'[w] = staged[w] /\ previous'[w] = previous[w]
        BY <1>0, <2>2, <2>7 DEF Accept, Drop, TypeOK
      <3>4. staged'[p] \in {staged[p], None} /\ previous'[p] \in {previous[p], None}
        BY <1>0, <2>2, <2>7 DEF Accept, Drop, TypeOK
      <3> QED BY <2>3, <2>4, <3>1, <3>2, <3>3, <3>4, DropPromised DEF Worthless, Standing
    <2>8. CASE Redo(a)
      <3>1. staged[p] = want[p] /\ UNCHANGED <<previous, ghost>> /\ dest \in Free \cup {row.pub}
        BY <2>p, <2>2, <2>8 DEF HolderFits, AsideFits, PathFits, Redo, At
      <3>2. CASE UNCHANGED <<dest, staged>>
        BY <2>4, <3>1, <3>2, DropPromised
      <3>3. CASE ~UNCHANGED <<dest, staged>>
        <4>1. dest' = want[p] /\ staged' = [staged EXCEPT ![p] = dest]
          BY <2>2, <2>8, <3>1, <3>3 DEF Redo
        <4>2. staged'[p] = dest /\ \A w \in Writers \ {p} : staged'[w] = staged[w]
          BY <1>0, <4>1 DEF TypeOK
        <4>3. CASE dest \in User
          BY <2>2, <2>4, <3>1, <4>1, <4>2, <4>3, DisplacePromised DEF Inv
        <4>4. CASE dest \notin User
          BY <2>2, <2>4, <3>1, <4>1, <4>2, <4>4, RenderPromised DEF Worthless, Standing
        <4> QED BY <4>3, <4>4
      <3> QED BY <3>2, <3>3
    <2>9. CASE RedoMove(a)
      <3>1. UNCHANGED <<dest, ghost>> /\ previous[p] = None
        BY <2>p, <2>2, <2>9 DEF HolderFits, AsideFits, RedoMove, At
      <3>2. CASE UNCHANGED <<staged, previous>>
        BY <2>4, <3>1, <3>2, DropPromised
      <3>3. CASE ~UNCHANGED <<staged, previous>>
        <4>1. previous' = [previous EXCEPT ![p] = staged[p]] /\ staged' = [staged EXCEPT ![p] = None]
          BY <2>2, <2>9, <3>3 DEF RedoMove
        <4>2. /\ previous'[p] = staged[p] /\ staged'[p] = None
              /\ \A w \in Writers \ {p} : staged'[w] = staged[w] /\ previous'[w] = previous[w]
          BY <1>0, <4>1 DEF TypeOK
        <4> QED BY <2>4, <3>1, <4>2, MovePromised
      <3> QED BY <3>2, <3>3
    <2>10. CASE Relink(a)
      <3>1. UNCHANGED <<staged, previous, ghost>> /\ staged[p] \in {want[p], None}
        BY <2>p, <2>2, <2>10 DEF HolderFits, AsideFits, Relink, At
      <3>2. dest' = dest \/ (dest = None /\ dest' = want[p])
        BY <2>2, <2>10, <3>1 DEF Relink
      <3>3. CASE dest' = dest
        BY <2>4, <3>1, <3>3, DropPromised
      <3>4. CASE dest = None /\ dest' = want[p]
        BY <2>2, <2>3, <2>4, <3>1, <3>4, RenderPromised
      <3> QED BY <3>2, <3>3, <3>4
    <2>11. CASE Relinked(a)
      <3>1. UNCHANGED <<dest, previous, ghost>> /\ staged[p] \in {want[p], None}
        BY <2>p, <2>2, <2>11 DEF HolderFits, AsideFits, Relinked, At
      <3>2. staged'[p] = None /\ \A w \in Writers \ {p} : staged'[w] = staged[w]
        BY <1>0, <2>2, <2>11 DEF Relinked, TypeOK
      <3> QED BY <2>2, <2>3, <2>4, <3>1, <3>2, DropPromised DEF Worthless, Standing
    <2>12. CASE Tidy(a)
      <3>1. UNCHANGED <<dest, ghost>>
        BY <2>12 DEF Tidy
      <3>2. \A w \in Writers \ {p} : staged'[w] = staged[w] /\ previous'[w] = previous[w]
        BY <1>0, <2>2, <2>12 DEF Tidy, Drop, TypeOK
      <3>3. /\ staged'[p] = staged[p] \/ (staged'[p] = None /\ staged[p] \in {want[p], row.pub})
            /\ previous'[p] = previous[p] \/ (previous'[p] = None /\ previous[p] \in {want[p], row.pub})
        BY <1>0, <2>2, <2>12 DEF Tidy, Drop, TypeOK
      <3> QED BY <2>2, <2>3, <2>4, <3>1, <3>2, <3>3, DropPromised DEF Worthless, Standing
    <2> QED BY <1>2, <2>5, <2>6, <2>7, <2>8, <2>9, <2>10, <2>11, <2>12
  <1> QED BY <1>1, <1>2 DEF RecoverySteps

\* Publish.
LEMMA WriterPromised ==
  ASSUME Inv, NEW a \in Writers, WriterSteps(a)
  PROVE  Promised
  <1>0. TypeOK /\ Shape /\ None \notin User /\ WriterFits(a)
    BY BytesAssumption DEF Inv, Shape
  <1>1. CASE Load(a) \/ Judge(a) \/ Attest(a) \/ Intend(a) \/ Reload(a) \/ Inspect(a) \/ Confirm(a) \/ Finalize(a)
    <2>1. UNCHANGED <<dest, staged, previous, ghost>>
      BY <1>1 DEF Load, Judge, Attest, Intend, Reload, Inspect, Confirm, Finalize, diskVars
    <2>2. Spares
      <3>1. Intend(a) => Spares
        <4>1. "fault" \in LimitNames \ {"all"} /\ "delete" \in LimitNames \ {"fault", "all"}
          BY DEF LimitNames
        <4>2. Spend("fault") => Spares
          BY <1>0, <4>1, Spending DEF Costs, Spares
        <4> QED BY <4>2, NoWindow DEF Intend, Spares, Windows
      <3>2. Load(a) \/ Attest(a) \/ Reload(a) \/ Finalize(a) => Spares
        BY StatementSpares DEF Load, Attest, Reload, Finalize
      <3> QED BY <1>1, <3>1, <3>2 DEF Judge, Inspect, Confirm, Spares
    <2> QED BY <2>1, <2>2, DropPromised
  <1>2. CASE Link(a) \/ Unlink(a) \/ Swap(a) \/ Relocate(a) \/ Commit(a) \/ Restore(a) \/ Sweep(a)
    <2>1. pc[a] \in {"link", "unlink", "swap", "relocate", "commit", "restore", "sweep"}
      BY <1>2 DEF Link, Unlink, Swap, Relocate, Commit, Restore, Sweep, At
    <2>2. /\ HolderFits(a) /\ row.pend = a /\ PendFits(a)
          /\ want[a] \in Heya /\ want[a] # None /\ want[a] \notin User
          /\ row.pub \in Heya \cup {None} /\ ghost.overtaken \subseteq User
      BY <2>1, OwnFacts
    <2>3. row.pub \notin User
      BY <2>2, BytesAssumption
    <2>4. /\ pc[a] \in {"link", "unlink", "swap"} => staged[a] = want[a] /\ previous[a] = None
          /\ pc[a] = "relocate" => staged[a] # None /\ previous[a] = None
      BY <1>0, <2>2 DEF WriterFits, HolderFits, AsideFits, Standing
    <2>5. Spares
      <3>1. Relocate(a) => staged[a] # None
        BY <2>4 DEF Relocate, At
      <3>2. left' = left
        BY <1>2, <3>1, NoWindow DEF Link, Unlink, Swap, Relocate, Commit, Restore, Sweep, Windows
      <3> QED BY <3>2 DEF Spares
    <2>6. CASE Link(a)
      <3>1. UNCHANGED <<staged, previous, ghost>> /\ (dest' = dest \/ (dest = None /\ dest' = want[a]))
        BY <2>4, <2>6 DEF Link, At
      <3>2. CASE dest' = dest
        BY <2>5, <3>1, <3>2, DropPromised
      <3>3. CASE dest = None /\ dest' = want[a]
        BY <1>0, <2>2, <2>5, <3>1, <3>3, RenderPromised
      <3> QED BY <3>1, <3>2, <3>3
    <2>7. CASE Unlink(a)
      <3>1. UNCHANGED <<dest, previous, ghost>> /\ staged' = [staged EXCEPT ![a] = None] /\ staged[a] = want[a]
        BY <2>2, <2>4, <2>7 DEF Unlink, At
      <3>2. staged'[a] = None /\ \A w \in Writers \ {a} : staged'[w] = staged[w]
        BY <1>0, <3>1 DEF TypeOK
      <3> QED BY <1>0, <2>2, <2>5, <3>1, <3>2, DropPromised DEF Worthless, Standing
    <2>8. CASE Swap(a)
      <3>1. UNCHANGED <<previous, ghost>> /\ staged[a] = want[a]
        BY <2>4, <2>8 DEF Swap, At
      <3>2. CASE UNCHANGED <<dest, staged>>
        BY <2>5, <3>1, <3>2, DropPromised
      <3>3. CASE ~UNCHANGED <<dest, staged>>
        <4>1. dest' = want[a] /\ staged' = [staged EXCEPT ![a] = dest]
          BY <2>8, <3>1, <3>3 DEF Swap
        <4>2. staged'[a] = dest /\ \A w \in Writers \ {a} : staged'[w] = staged[w]
          BY <1>0, <4>1 DEF TypeOK
        <4>3. CASE dest \in User
          BY <2>2, <2>5, <3>1, <4>1, <4>2, <4>3, DisplacePromised DEF Inv
        <4>4. CASE dest \notin User
          BY <2>2, <2>5, <3>1, <4>1, <4>2, <4>4, RenderPromised DEF Worthless, Standing
        <4> QED BY <4>3, <4>4
      <3> QED BY <3>2, <3>3
    <2>9. CASE Relocate(a)
      <3>1. UNCHANGED <<dest, ghost>> /\ staged[a] # None /\ previous[a] = None
        BY <2>4, <2>9 DEF Relocate, At
      <3>2. CASE UNCHANGED <<staged, previous>>
        BY <2>5, <3>1, <3>2, DropPromised
      <3>3. CASE ~UNCHANGED <<staged, previous>>
        <4>1. previous' = [previous EXCEPT ![a] = staged[a]] /\ staged' = [staged EXCEPT ![a] = None]
          BY <2>9, <3>3 DEF Relocate
        <4>2. /\ previous'[a] = staged[a] /\ staged'[a] = None
              /\ \A w \in Writers \ {a} : staged'[w] = staged[w] /\ previous'[w] = previous[w]
          BY <1>0, <4>1 DEF TypeOK
        <4> QED BY <2>5, <3>1, <4>2, MovePromised
      <3> QED BY <3>2, <3>3
    <2>10. CASE Commit(a) \/ Sweep(a)
      <3>1. /\ UNCHANGED <<dest, staged, ghost>>
            /\ previous' = previous \/ previous' = [previous EXCEPT ![a] = None]
            /\ previous[a] \in {want[a], row.pub} \cup ghost.overtaken
        BY <2>2, <2>10 DEF Commit, Sweep, At, HolderFits, AsideFits
      <3>2. previous'[a] \in {previous[a], None} /\ \A w \in Writers \ {a} : previous'[w] = previous[w]
        BY <1>0, <3>1 DEF TypeOK
      <3> QED BY <1>0, <2>2, <2>3, <2>5, <3>1, <3>2, DropPromised DEF Worthless, Standing
    <2>11. CASE Restore(a)
      <3>1. previous[a] \in Standing /\ staged' = staged
        BY <2>2, <2>11 DEF HolderFits, AsideFits, Restore, At
      <3>2. CASE UNCHANGED <<dest, previous, ghost>>
        BY <2>5, <3>1, <3>2, DropPromised
      <3>3. CASE ~UNCHANGED <<dest, previous, ghost>>
        <4>1. dest' = previous[a] /\ previous' = [previous EXCEPT ![a] = dest] /\ Overtakes(dest)
          BY <2>11, <3>3 DEF Restore
        <4>2. previous'[a] = dest /\ \A w \in Writers \ {a} : previous'[w] = previous[w]
          BY <1>0, <4>1 DEF TypeOK
        <4>3. ghost'.overtaken = ghost.overtaken \cup ({dest} \cap User)
          BY <1>0, <4>1 DEF Overtakes, TypeOK, Notes
        <4> QED BY <2>5, <3>1, <4>1, <4>2, <4>3, BackPromised DEF Inv
      <3> QED BY <3>2, <3>3
    <2> QED BY <1>2, <2>6, <2>7, <2>8, <2>9, <2>10, <2>11
  <1>3. CASE Discard(a) \/ DiscardRest(a)
    <2>1. Spares
      BY <1>3 DEF Discard, DiscardRest, Spares
    <2>2. pc[a] \in {"discard", "discard2"}
      BY <1>3 DEF Discard, DiscardRest, At
    <2>3. /\ own[a] \in {"nothing", "staged", "moved"}
          /\ own[a] = "moved" => UndoFits(a)
          /\ own[a] = "staged" => staged[a] \notin User
      BY <1>0, <2>2, BytesAssumption DEF WriterFits, Undoing, TypeOK
    <2>4. CASE Discard(a) /\ own[a] = "staged"
      <3>1. staged' = [staged EXCEPT ![a] = None] /\ UNCHANGED <<dest, previous, ghost>>
        BY <2>4 DEF Discard
      <3>2. staged'[a] = None /\ \A w \in Writers \ {a} : staged'[w] = staged[w]
        BY <1>0, <3>1 DEF TypeOK
      <3> QED BY <1>0, <2>1, <2>3, <2>4, <3>1, <3>2, DropPromised DEF Worthless, Standing
    <2>5. CASE Discard(a) /\ own[a] = "nothing"
      <3>1. UNCHANGED <<dest, staged, previous, ghost>>
        BY <2>5 DEF Discard, diskVars
      <3> QED BY <2>1, <3>1, DropPromised
    <2>6. CASE Discard(a) /\ own[a] = "moved"
      <3>1. previous[a] \in Standing /\ previous[a] # None
        BY <1>0, <2>3, <2>6 DEF UndoFits, Discard, At, Standing
      <3>2. CASE dest = None
        <4>1. UNCHANGED <<dest, staged, previous, ghost>>
          BY <2>6, <3>2 DEF Discard, diskVars
        <4> QED BY <2>1, <4>1, DropPromised
      <3>3. CASE dest # None
        <4>1. dest' = previous[a] /\ previous' = [previous EXCEPT ![a] = dest] /\ Overtakes(dest) /\ staged' = staged
          BY <2>6, <3>1, <3>3 DEF Discard
        <4>2. previous'[a] = dest /\ \A w \in Writers \ {a} : previous'[w] = previous[w]
          BY <1>0, <4>1 DEF TypeOK
        <4>3. ghost'.overtaken = ghost.overtaken \cup ({dest} \cap User)
          BY <1>0, <4>1 DEF Overtakes, TypeOK, Notes
        <4> QED BY <2>1, <3>1, <4>1, <4>2, <4>3, BackPromised DEF Inv
      <3> QED BY <3>2, <3>3
    <2>7. CASE DiscardRest(a)
      <3>1. own[a] = "moved" /\ previous[a] \in ghost.overtaken
        BY <1>0, <2>3, <2>7 DEF DiscardRest, At, WriterFits, UndoFits
      <3>2. previous' = [previous EXCEPT ![a] = None] /\ UNCHANGED <<dest, staged, ghost>>
        BY <2>7, <3>1 DEF DiscardRest
      <3>3. previous'[a] = None /\ \A w \in Writers \ {a} : previous'[w] = previous[w]
        BY <1>0, <3>2 DEF TypeOK
      <3> QED BY <1>0, <2>1, <3>1, <3>2, <3>3, DropPromised DEF Worthless, Standing
    <2> QED BY <1>3, <2>3, <2>4, <2>5, <2>6, <2>7
  <1> QED BY <1>1, <1>2, <1>3 DEF WriterSteps

\* Janitors, scans, and whoever takes the lock, touch no file.
LEMMA VisitorPromised ==
  ASSUME Inv, NEW a,
         \/ JanitorSteps(a) \/ ScannerSteps(a)
         \/ Lock(a) \/ Examine(a) \/ Inventory(a) \/ Classify(a)
  PROVE  Promised
  <1>1. UNCHANGED <<dest, staged, previous, ghost>>
    BY DEF JanitorSteps, ScannerSteps, Examined, Verify, Done, Classified, Recheck, CompareDelete,
           Lock, Examine, Inventory, Classify, diskVars
  <1>2. Examined(a) \/ Classified(a) \/ CompareDelete(a) => Spares
    BY StatementSpares DEF Examined, Classified, CompareDelete
  <1>3. Spares
    BY <1>2 DEF JanitorSteps, ScannerSteps, Verify, Done, Recheck, Lock, Examine, Inventory, Classify, Spares
  <1> QED BY <1>1, <1>3, DropPromised

\* The user, a preparation, a crash.
LEMMA OutsidePromised ==
  ASSUME Inv,
         \/ \E v \in User : UserWrites(v)
         \/ UserDeletes \/ Crash
         \/ \E w \in Writers : Prepare(w)
  PROVE  Promised
  <1>0. TypeOK /\ Shape /\ "delete" \in LimitNames \ {"all", "crash"} /\ "crash" \in LimitNames \ {"all"}
    BY DEF Inv, Shape, LimitNames
  <1>1. ASSUME NEW v \in User, UserWrites(v) PROVE Promised
    <2>1. dest' = v /\ UNCHANGED <<staged, previous, left>> /\ v \notin ghost.written
      BY <1>1 DEF UserWrites
    <2>2. ghost'.overtaken = ghost.overtaken
      BY <1>0, <1>1 DEF UserWrites, TypeOK, Notes
    <2>3. Asides' = Asides
      BY <2>1, <2>2 DEF Asides, OnDisk
    <2>4. v \notin Asides \cup ghost.overtaken \cup {dest}
      BY <2>1 DEF Inv, Versions, Asides, OnDisk
    <2> QED BY <2>1, <2>2, <2>3, <2>4 DEF Promised, Owner!Next, Owner!UserWrites, Asides
  <1>2. CASE UserDeletes
    <2>1. dest # None /\ dest' = None /\ UNCHANGED <<staged, previous>>
      BY <1>2 DEF UserDeletes
    <2>2. ghost'.overtaken = ghost.overtaken
      BY <1>0, <1>2 DEF UserDeletes, TypeOK, Notes
    <2>3. Asides' = Asides
      BY <2>1, <2>2 DEF Asides, OnDisk
    <2>4. left'["delete"] = left["delete"] - 1
      BY <1>0, <1>2, Spending DEF UserDeletes
    <2>5. left["delete"] \in Nat /\ Limits["delete"] \in Nat
      BY <1>0, LimitsAssumption DEF TypeOK
    <2>6. Limits["delete"] - left'["delete"] = (Limits["delete"] - left["delete"]) + 1
      BY <2>4, <2>5
    <2> QED BY <2>1, <2>2, <2>3, <2>6 DEF Promised, Owner!Next, Owner!UserDeletes, Asides
  <1>3. CASE Crash
    <2>1. UNCHANGED <<dest, staged, previous, ghost>> /\ Spares
      BY <1>0, <1>3, Spending DEF Crash, diskVars, Costs, Spares
    <2> QED BY <2>1, DropPromised
  <1>4. ASSUME NEW w \in Writers, Prepare(w) PROVE Promised
    <2>1. UNCHANGED <<dest, previous, left, ghost>>
      BY <1>4 DEF Prepare
    <2>2. PICK h \in Heya : staged' = [staged EXCEPT ![w] = h]
      BY <1>4 DEF Prepare
    <2>3. staged'[w] = h /\ \A x \in Writers \ {w} : staged'[x] = staged[x]
      BY <1>0, <2>2 DEF TypeOK
    <2>4. staged[w] = None
      BY <1>4 DEF Prepare, At, Inv, WriterFits
    <2> QED BY <2>1, <2>3, <2>4, DropPromised, BytesAssumption DEF Worthless, Standing, Spares
  <1> QED BY <1>1, <1>2, <1>3, <1>4

\* Without the four windows publishing implements SidecarOwner: Heya renders
\* only over a free path or its own bytes, never destroys a version of the
\* user's that counts, and the only thing that happens to a displaced one is
\* that it comes back.
THEOREM PublishingKeepsThePromise ==
  ASSUME Windowless
  PROVE  Spec => OwnerSpec
  <1>1. Init => Owner!Init
    <2> SUFFICES ASSUME Init PROVE Owner!Init  OBVIOUS
    <2>1. /\ dest \in Files /\ staged = [w \in Writers |-> None] /\ previous = [w \in Writers |-> None]
          /\ left = Limits /\ ghost.overtaken = {}
      BY DEF Init
    <2>2. {v \in User : OnDisk(v)} \ ghost.overtaken = {}
      BY <2>1, BytesAssumption DEF OnDisk
    <2>3. Limits["delete"] - left["delete"] = 0
      BY <2>1, LimitsAssumption DEF LimitNames
    <2> QED BY <2>1, <2>2, <2>3 DEF Owner!Init, Files
  <1>2. Inv /\ [Next]_vars => [Owner!Next]_(Owner!vars)
    <2> SUFFICES ASSUME Inv, [Next]_vars PROVE Promised  BY DEF Promised
    <2>1. CASE UNCHANGED vars
      <3>1. UNCHANGED <<dest, staged, previous, left, ghost>>
        BY <2>1 DEF vars, diskVars
      <3> QED BY <3>1, DropPromised DEF Spares
    <2>2. ASSUME NEW a \in Actors, Runs(a) PROVE Promised
      BY <2>2, RecoveryPromised, WriterPromised, VisitorPromised DEF Runs
    <2>3. ASSUME NEW a, LoseSession(a) \/ LeftoverStays(a) \/ RemovalFails(a) PROVE Promised
      BY <2>3, NoWindow DEF LoseSession, LeftoverStays, RemovalFails, Windows
    <2>4. ASSUME NEW a, Lock(a) \/ Examine(a) \/ Inventory(a) \/ Classify(a) PROVE Promised
      BY <2>4, VisitorPromised
    <2> QED BY <2>1, <2>2, <2>3, <2>4, OutsidePromised DEF Next
  <1>3. Spec => []Inv
    BY InvHolds
  <1> QED BY <1>1, <1>2, <1>3, PTL DEF Spec, OwnerSpec, Owner!Spec
=============================================================================
