------------------------ MODULE GeneratedWriteProofs ------------------------
(***************************************************************************)
(* What holds of a sidecar's path for any number of publishers, janitors,  *)
(* scans, user versions, renderings, crashes, failing statements and       *)
(* deletions.                                                              *)
(***************************************************************************)
EXTENDS GeneratedWrite, TLAPS

\* Where recovery settles the intent it loaded.
Settling ==
  {"putBack", "removePrevious", "removeStaged", "accept", "acknowledge", "redo", "redoMove",
   "relink", "relinked", "tidy", "forget"}
\* There it did load one.
Addressed == \A a \in Actors : pc[a] \in Settling => saw[a].pend # None
Shape == TypeOK /\ Addressed

\* What a step does to the place of one actor, to the lock and to the limits.
Moves(a, to) ==
  /\ pc' \in [Actors -> Steps] /\ pc'[a] = to
  /\ \A b \in Actors \ {a} : pc'[b] = pc[b]
Leaves(a) ==
  /\ Moves(a, After(a)) /\ After(a) \in {"discard", "end"}
  /\ lock' \in Actors \cup {None} /\ lock' = IF lock = a THEN None ELSE lock
Costs(n) ==
  /\ left' \in [LimitNames -> Nat]
  /\ \A m \in LimitNames \ {n, "all"} : left'[m] = left[m]

-----------------------------------------------------------------------------
(***************************************************************************)
(* The parts that actions are made of.                                     *)
(***************************************************************************)
\* What spending leaves of the limits.
LEMMA Spending ==
  ASSUME Shape, NEW n \in LimitNames \ {"all"}, Spend(n)
  PROVE  Costs(n) /\ left[n] > 0 /\ left'[n] = left[n] - 1
  BY DEF Spend, LimitNames, Costs, Shape, TypeOK
\* Nothing spent costs nothing.
LEMMA Sparing ==
  ASSUME Shape, left' = left
  PROVE  \A n \in LimitNames : Costs(n)
  BY DEF Costs, Shape, TypeOK

\* An actor moves, and no other.
LEMMA Going ==
  ASSUME Shape, NEW a \in Actors, NEW to \in Steps, Go(a, to)
  PROVE  Moves(a, to)
  BY DEF Moves, Go, Shape, TypeOK
\* One that leaves releases the lock if it was its own.
LEMMA Leaving ==
  ASSUME Shape, NEW a \in Actors, Leave(a)
  PROVE  Leaves(a)
  <1>1. After(a) \in {"discard", "end"} /\ After(a) \in Steps
    BY DEF After, Steps
  <1>2. Moves(a, After(a))
    BY <1>1, Going DEF Leave
  <1> QED BY <1>1, <1>2 DEF Leave, Leaves, Unlock, Shape, TypeOK

\* A statement takes effect and goes on, or fails with or without its effect.
LEMMA Stating ==
  ASSUME Shape, NEW a \in Actors, NEW effect \in Rows, NEW next \in Steps,
         Statement(a, effect, next)
  PROVE  /\ Costs("fault") /\ row' \in {row, effect} /\ row' \in Rows
         /\ \/ lock = a /\ row' = effect /\ Moves(a, next) /\ lock' = lock
            \/ (lock # a => row' = row) /\ Leaves(a)
  <1>1. row \in Rows /\ "fault" \in LimitNames \ {"all"}
    BY DEF Shape, TypeOK, LimitNames
  <1>2. CASE lock = a /\ row' = effect /\ Go(a, next) /\ UNCHANGED <<lock, left>>
    BY <1>1, <1>2, Going, Sparing
  <1>3. CASE (IF lock = a THEN Spend("fault") /\ row' \in {row, effect} ELSE UNCHANGED <<row, left>>) /\ Leave(a)
    BY <1>1, <1>3, Leaving, Sparing, Spending
  <1> QED BY <1>2, <1>3 DEF Statement
\* The last statement of a callback, likewise.
LEMMA StatingLast ==
  ASSUME Shape, NEW a \in Actors, NEW effect \in Rows, LastStatement(a, effect)
  PROVE  /\ Costs("fault") /\ row' \in {row, effect} /\ row' \in Rows
         /\ (lock # a => row' = row) /\ Leaves(a)
  <1>1. row \in Rows /\ "fault" \in LimitNames \ {"all"}
    BY DEF Shape, TypeOK, LimitNames
  <1> QED BY <1>1, Leaving, Sparing, Spending DEF LastStatement
\* A query loads the row, or fails.
LEMMA Querying ==
  ASSUME Shape, NEW a \in Actors, NEW next \in Steps, Query(a, next)
  PROVE  /\ Costs("fault") /\ saw' \in [Actors -> Rows]
         /\ \A b \in Actors \ {a} : saw'[b] = saw[b]
         /\ \/ lock = a /\ Moves(a, next) /\ saw'[a] = row /\ lock' = lock
            \/ Leaves(a) /\ saw' = saw
  <1>1. row \in Rows /\ saw \in [Actors -> Rows] /\ "fault" \in LimitNames \ {"all"}
    BY DEF Shape, TypeOK, LimitNames
  <1>2. CASE lock = a /\ Go(a, next) /\ saw' = [saw EXCEPT ![a] = row] /\ UNCHANGED <<lock, left>>
    BY <1>1, <1>2, Going, Sparing
  <1>3. CASE (IF lock = a THEN Spend("fault") ELSE UNCHANGED left) /\ Leave(a) /\ UNCHANGED saw
    BY <1>1, <1>3, Leaving, Sparing, Spending
  <1> QED BY <1>2, <1>3 DEF Query

-----------------------------------------------------------------------------
(***************************************************************************)
(* Every variable keeps its shape.                                         *)
(***************************************************************************)
\* What it takes, when one actor moves.
LEMMA Shaped ==
  ASSUME Shape, NEW a \in Actors, NEW to \in Steps, Moves(a, to),
         to \in Settling => saw'[a].pend # None,
         \A b \in Actors \ {a} : saw'[b] = saw[b],
         dest' \in Files, staged' \in [Writers -> Files], previous' \in [Writers -> Files],
         row' \in Rows, lock' \in Actors \cup {None},
         ret' \in [Actors -> {"judge", "leave", "verify", "recheck", "end"}],
         saw' \in [Actors -> Rows], cur' \in [Actors -> Files],
         want' \in [Writers -> Heya \cup {None}],
         own' \in [Writers -> {"nothing", "staged", "swapped", "moved"}],
         left' \in [LimitNames -> Nat], ghost' \in Notes
  PROVE  Shape'
  <1>1. TypeOK'
    BY DEF TypeOK, Moves
  <1>2. Addressed'
    BY DEF Shape, Addressed, Moves
  <1> QED BY <1>1, <1>2 DEF Shape
\* Leaving settles nothing.
LEMMA LeftShaped ==
  ASSUME NEW a \in Actors, Leaves(a)
  PROVE  After(a) \in Steps /\ After(a) \notin Settling /\ Moves(a, After(a)) /\ lock' \in Actors \cup {None}
  BY DEF Leaves, Steps, Settling

\* A restart decides about each attempt and leaves it in its record.
LEMMA RecoveryShape ==
  ASSUME Shape, NEW a \in Actors, RecoverySteps(a)
  PROVE  Shape'
  <1>0. TypeOK /\ Addressed  BY DEF Shape
  <1>1. CASE Recover(a)
    <2>1. Verdict(a) \in Steps /\ (Verdict(a) \in Settling => saw[a].pend # None)
      BY <1>0 DEF Verdict, TypeOK, Steps, Settling, Intent
    <2>2. Moves(a, Verdict(a))
      BY <1>1, <2>1, Going DEF Recover
    <2>3. UNCHANGED <<dest, staged, previous, saw, ghost, row, lock, ret, cur, want, own, left>>
      BY <1>1 DEF Recover, RecoverFrame, diskVars
    <2> QED BY <1>0, <2>1, <2>2, <2>3, Shaped DEF TypeOK
  <1>2. CASE PutBack(a)
    <2>1. /\ saw[a].pend \in Writers /\ saw[a].pend # None
          /\ previous[Intent(a)] \in Files /\ staged[Intent(a)] \in Files
      BY <1>0, <1>2 DEF PutBack, At, Addressed, Settling, TypeOK, Rows, Intent
    <2>2. BytesAside(a) \in Files
      BY <2>1 DEF BytesAside, Files
    <2>3. UNCHANGED <<row, ret, saw, cur, want, own, left>>
      BY <1>2 DEF PutBack
    <2>4. CASE Leave(a) /\ UNCHANGED <<diskVars, ghost>>
      BY <1>0, <2>3, <2>4, Leaving, LeftShaped, Shaped DEF TypeOK, diskVars
    <2>5. CASE ~(Leave(a) /\ UNCHANGED <<diskVars, ghost>>)
      <3>1. PICK to \in {"removePrevious", "removeStaged"} : Go(a, to)
        BY <1>2, <2>5 DEF PutBack
      <3>2. to \in Steps /\ Moves(a, to)
        BY <3>1, Going DEF Steps
      <3>3. dest' \in Files /\ staged' \in [Writers -> Files] /\ previous' \in [Writers -> Files] /\ lock' = lock
        BY <1>0, <1>2, <2>1, <2>2, <2>5 DEF PutBack, TypeOK
      <3>4. ghost' \in Notes
        BY <1>0, <1>2, <2>5 DEF PutBack, TypeOK, Notes, Overtakes
      <3> QED BY <1>0, <2>1, <2>3, <3>2, <3>3, <3>4, Shaped DEF TypeOK, Intent
    <2> QED BY <2>4, <2>5
  <1>3. CASE RemoveReturned(a)
    <2>1. Moves(a, "retire")
      BY <1>3, Going DEF RemoveReturned, Steps
    <2>2. staged' \in [Writers -> Files] /\ previous' \in [Writers -> Files]
      BY <1>0, <1>3 DEF RemoveReturned, Drop, TypeOK, Files
    <2>3. UNCHANGED <<dest, saw, ghost, row, lock, ret, cur, want, own, left>>
      BY <1>3 DEF RemoveReturned, RecoverFrame
    <2> QED BY <1>0, <2>1, <2>2, <2>3, Shaped DEF TypeOK, Steps, Settling
  <1>4. CASE Accept(a)
    <2>1. Moves(a, "acknowledge") /\ saw[a].pend # None
      BY <1>0, <1>4, Going DEF Accept, Steps, At, Addressed, Settling
    <2>2. staged' \in [Writers -> Files] /\ previous' \in [Writers -> Files]
      BY <1>0, <1>4 DEF Accept, Drop, TypeOK, Files
    <2>3. UNCHANGED <<dest, saw, ghost, row, lock, ret, cur, want, own, left>>
      BY <1>4 DEF Accept, RecoverFrame
    <2> QED BY <1>0, <2>1, <2>2, <2>3, Shaped DEF TypeOK, Steps
  <1>5. CASE Acknowledge(a)
    <2>1. saw[a].pend \in Writers
      BY <1>0, <1>5 DEF Acknowledge, At, Addressed, Settling, TypeOK, Rows
    <2>2. [pub |-> Wanted(a), pend |-> None] \in Rows /\ "reloaded" \in Steps \ Settling
      BY <1>0, <2>1 DEF TypeOK, Rows, Wanted, Intent, Steps, Settling
    <2>3. UNCHANGED <<dest, staged, previous, ret, saw, cur, want, own, ghost>>
      BY <1>5 DEF Acknowledge, diskVars
    <2>4. CASE Statement(a, [pub |-> Wanted(a), pend |-> None], "reloaded")
      BY <1>0, <2>2, <2>3, <2>4, Stating, LeftShaped, Shaped DEF TypeOK, Costs
    <2>5. CASE Leave(a) /\ UNCHANGED <<row, left>>
      BY <1>0, <2>3, <2>5, Leaving, LeftShaped, Shaped DEF TypeOK
    <2> QED BY <1>5, <2>4, <2>5 DEF Acknowledge
  <1>6. CASE Reloaded(a)
    <2>1. Query(a, ret[a]) /\ UNCHANGED <<dest, staged, previous, row, ret, cur, want, own, ghost>>
      BY <1>6 DEF Reloaded, diskVars
    <2>2. ret[a] \in Steps \ Settling
      BY <1>0 DEF TypeOK, Steps, Settling
    <2> QED BY <1>0, <2>1, <2>2, Querying, LeftShaped, Shaped DEF TypeOK, Costs
  <1>7. CASE Redo(a)
    <2>1. saw[a].pend \in Writers /\ saw[a].pend # None
      BY <1>0, <1>7 DEF Redo, At, Addressed, Settling, TypeOK, Rows
    <2>2. UNCHANGED <<previous, row, ret, saw, cur, want, own, left, ghost>>
      BY <1>7 DEF Redo
    <2>3. CASE Leave(a) /\ UNCHANGED <<dest, staged>>
      BY <1>0, <2>2, <2>3, Leaving, LeftShaped, Shaped DEF TypeOK
    <2>4. CASE ~(Leave(a) /\ UNCHANGED <<dest, staged>>)
      <3>1. dest' \in Files /\ staged' \in [Writers -> Files] /\ lock' = lock
        BY <1>0, <1>7, <2>1, <2>4 DEF Redo, TypeOK, Intent
      <3>2. Moves(a, "redoMove")
        BY <1>7, <2>4, Going DEF Redo, Steps
      <3> QED BY <1>0, <2>1, <2>2, <3>1, <3>2, Shaped DEF TypeOK, Steps
    <2> QED BY <2>3, <2>4
  <1>8. CASE RedoMove(a)
    <2>1. saw[a].pend \in Writers /\ saw[a].pend # None
      BY <1>0, <1>8 DEF RedoMove, At, Addressed, Settling, TypeOK, Rows
    <2>2. UNCHANGED <<dest, row, ret, saw, cur, want, own, ghost>>
      BY <1>8 DEF RedoMove
    <2>3. CASE Leave(a) /\ UNCHANGED <<staged, previous>>
      <3>1. Costs("rename")
        BY <1>8, Spending, Sparing DEF RedoMove, LimitNames, Leave, Go, At
      <3> QED BY <1>0, <2>2, <2>3, <3>1, Leaving, LeftShaped, Shaped DEF TypeOK, Costs
    <2>4. CASE ~(Leave(a) /\ UNCHANGED <<staged, previous>>)
      <3>1. previous' \in [Writers -> Files] /\ staged' \in [Writers -> Files] /\ lock' = lock /\ left' = left
        BY <1>0, <1>8, <2>1, <2>4 DEF RedoMove, TypeOK, Intent, Files
      <3>2. Moves(a, "recover")
        BY <1>8, <2>4, Going DEF RedoMove, Steps
      <3> QED BY <1>0, <2>1, <2>2, <3>1, <3>2, Shaped DEF TypeOK, Steps
    <2> QED BY <2>3, <2>4
  <1>9. CASE Relink(a)
    <2>1. saw[a].pend \in Writers /\ saw[a].pend # None
      BY <1>0, <1>9 DEF Relink, At, Addressed, Settling, TypeOK, Rows
    <2>2. UNCHANGED <<staged, previous, row, ret, saw, cur, want, own, left, ghost>> /\ dest' \in Files
      BY <1>0, <1>9, <2>1 DEF Relink, TypeOK, Intent
    <2>3. CASE Leave(a)
      BY <1>0, <2>2, <2>3, Leaving, LeftShaped, Shaped DEF TypeOK
    <2>4. CASE ~Leave(a)
      <3>1. PICK to \in {"relinked", "recover"} : Go(a, to) /\ lock' = lock
        BY <1>9, <2>4 DEF Relink
      <3>2. to \in Steps /\ Moves(a, to)
        BY <3>1, Going DEF Steps
      <3> QED BY <1>0, <2>1, <2>2, <3>1, <3>2, Shaped DEF TypeOK
    <2> QED BY <2>3, <2>4
  <1>10. CASE Relinked(a)
    <2>1. UNCHANGED <<dest, previous, row, ret, saw, cur, want, own, left, ghost>> /\ staged' \in [Writers -> Files]
      BY <1>0, <1>10 DEF Relinked, TypeOK, Files
    <2>2. CASE Leave(a)
      BY <1>0, <2>1, <2>2, Leaving, LeftShaped, Shaped DEF TypeOK
    <2>3. CASE ~Leave(a)
      <3>1. Moves(a, "recover") /\ lock' = lock
        BY <1>10, <2>3, Going DEF Relinked, Steps
      <3> QED BY <1>0, <2>1, <3>1, Shaped DEF TypeOK, Steps, Settling
    <2> QED BY <2>2, <2>3
  <1>11. CASE Tidy(a)
    <2>1. Moves(a, "retire")
      BY <1>11, Going DEF Tidy, Steps
    <2>2. staged' \in [Writers -> Files] /\ previous' \in [Writers -> Files]
      BY <1>0, <1>11 DEF Tidy, Drop, TypeOK, Files
    <2>3. UNCHANGED <<dest, saw, ghost, row, lock, ret, cur, want, own, left>>
      BY <1>11 DEF Tidy, RecoverFrame
    <2> QED BY <1>0, <2>1, <2>2, <2>3, Shaped DEF TypeOK, Steps, Settling
  <1>12. CASE Retire(a)
    <2>1. UNCHANGED <<dest, staged, previous, ret, cur, want, own, ghost>>
      BY <1>12 DEF Retire, diskVars
    <2>2. NoRow \in Rows /\ "judge" \in Steps \ Settling
      BY DEF NoRow, Rows, Steps, Settling
    <2>3. saw' \in [Actors -> Rows] /\ \A b \in Actors \ {a} : saw'[b] = saw[b]
      BY <1>0, <1>12, <2>2 DEF Retire, TypeOK
    <2>4. CASE Statement(a, NoRow, "judge")
      BY <1>0, <2>1, <2>2, <2>3, <2>4, Stating, LeftShaped, Shaped DEF TypeOK, Costs
    <2>5. CASE LastStatement(a, NoRow)
      BY <1>0, <2>1, <2>2, <2>3, <2>5, StatingLast, LeftShaped, Shaped DEF TypeOK, Costs
    <2> QED BY <1>12, <2>4, <2>5 DEF Retire
  <1>13. CASE Forget(a)
    <2>1. Statement(a, Forgotten(a), "reloaded") /\ UNCHANGED <<dest, staged, previous, ret, saw, cur, want, own, ghost>>
      BY <1>13 DEF Forget, diskVars
    <2>2. Forgotten(a) \in Rows /\ "reloaded" \in Steps \ Settling
      BY <1>0 DEF Forgotten, TypeOK, Rows, NoRow, Steps, Settling
    <2> QED BY <1>0, <2>1, <2>2, Stating, LeftShaped, Shaped DEF TypeOK, Costs
  <1>14. CASE Disown(a)
    <2>1. LastStatement(a, NoRow) /\ UNCHANGED <<dest, staged, previous, ret, saw, cur, want, own, ghost>>
      BY <1>14 DEF Disown, diskVars
    <2>2. NoRow \in Rows
      BY DEF NoRow, Rows
    <2> QED BY <1>0, <2>1, <2>2, StatingLast, LeftShaped, Shaped DEF TypeOK, Costs
  <1>15. CASE LeaveNow(a)
    BY <1>0, <1>15, Leaving, LeftShaped, Shaped DEF LeaveNow, diskVars, TypeOK
  <1> QED
    BY <1>1, <1>2, <1>3, <1>4, <1>5, <1>6, <1>7, <1>8, <1>9, <1>10, <1>11, <1>12, <1>13, <1>14, <1>15
    DEF RecoverySteps

\* A publisher's own steps.
LEMMA WriterShape ==
  ASSUME Shape, NEW a \in Writers, WriterSteps(a)
  PROVE  Shape'
  <1>0. TypeOK /\ Addressed /\ a \in Actors  BY DEF Shape, Actors
  <1>1. CASE Load(a)
    <2>1. Query(a, IF Exists(row) THEN "recover" ELSE "judge") /\ UNCHANGED <<dest, staged, previous, row, cur, want, own, ghost>>
      BY <1>1 DEF Load, diskVars
    <2>2. (IF Exists(row) THEN "recover" ELSE "judge") \in Steps \ Settling
      BY DEF Steps, Settling
    <2>3. ret' \in [Actors -> {"judge", "leave", "verify", "recheck", "end"}]
      BY <1>0, <1>1 DEF Load, TypeOK
    <2> QED BY <1>0, <2>1, <2>2, <2>3, Querying, LeftShaped, Shaped DEF TypeOK, Costs
  <1>2. CASE Judge(a)
    <2>1. UNCHANGED <<dest, staged, previous, row, ret, saw, want, own, left, ghost>> /\ cur' \in [Actors -> Files]
      BY <1>0, <1>2 DEF Judge, diskVars, TypeOK
    <2>2. CASE Leave(a)
      BY <1>0, <2>1, <2>2, Leaving, LeftShaped, Shaped DEF TypeOK
    <2>3. CASE ~Leave(a)
      <3>1. PICK to \in {"attest", "disown", "intend"} : Go(a, to) /\ lock' = lock
        BY <1>2, <2>3 DEF Judge
      <3>2. to \in Steps \ Settling /\ Moves(a, to)
        BY <1>0, <3>1, Going DEF Steps, Settling
      <3> QED BY <1>0, <2>1, <3>1, <3>2, Shaped DEF TypeOK
    <2> QED BY <2>2, <2>3
  <1>3. CASE Attest(a)
    <2>1. LastStatement(a, [pub |-> want[a], pend |-> None]) /\ UNCHANGED <<dest, staged, previous, ret, saw, cur, want, own, ghost>>
      BY <1>3 DEF Attest, diskVars
    <2>2. [pub |-> want[a], pend |-> None] \in Rows
      BY <1>0 DEF Rows, TypeOK
    <2> QED BY <1>0, <2>1, <2>2, StatingLast, LeftShaped, Shaped DEF TypeOK, Costs
  <1>4. CASE Intend(a)
    <2>1. UNCHANGED <<dest, staged, previous, ret, saw, cur, want, own, ghost>>
      BY <1>4 DEF Intend, diskVars
    <2>2. row' \in Rows
      BY <1>0, <1>4 DEF Intend, TypeOK, Rows
    <2>3. left' \in [LimitNames -> Nat]
      BY <1>0, <1>4, Spending DEF Intend, TypeOK, Costs, LimitNames
    <2>4. CASE Leave(a)
      BY <1>0, <2>1, <2>2, <2>3, <2>4, Leaving, LeftShaped, Shaped DEF TypeOK
    <2>5. CASE ~Leave(a)
      <3>1. PICK to \in {"link", "swap"} : Go(a, to) /\ lock' = lock
        BY <1>4, <2>5 DEF Intend
      <3>2. to \in Steps \ Settling /\ Moves(a, to)
        BY <1>0, <3>1, Going DEF Steps, Settling
      <3> QED BY <1>0, <2>1, <2>2, <2>3, <3>1, <3>2, Shaped DEF TypeOK
    <2> QED BY <2>4, <2>5
  <1>5. CASE Link(a)
    <2>1. UNCHANGED <<staged, previous, row, ret, saw, cur, want, own, left, ghost>> /\ dest' \in Files
      BY <1>0, <1>5 DEF Link, TypeOK
    <2>2. CASE Leave(a)
      BY <1>0, <2>1, <2>2, Leaving, LeftShaped, Shaped DEF TypeOK
    <2>3. CASE ~Leave(a)
      <3>1. PICK to \in {"unlink", "reload"} : Go(a, to) /\ lock' = lock
        BY <1>5, <2>3 DEF Link
      <3>2. to \in Steps \ Settling /\ Moves(a, to)
        BY <1>0, <3>1, Going DEF Steps, Settling
      <3> QED BY <1>0, <2>1, <3>1, <3>2, Shaped DEF TypeOK
    <2> QED BY <2>2, <2>3
  <1>6. CASE Unlink(a)
    <2>1. /\ UNCHANGED <<previous, row, ret, saw, cur, want, left, ghost>> /\ dest' \in Files
          /\ staged' \in [Writers -> Files] /\ own' \in [Writers -> {"nothing", "staged", "swapped", "moved"}]
      BY <1>0, <1>6 DEF Unlink, TypeOK, Files
    <2>2. CASE Leave(a)
      BY <1>0, <2>1, <2>2, Leaving, LeftShaped, Shaped DEF TypeOK
    <2>3. CASE ~Leave(a)
      <3>1. Moves(a, "confirm") /\ lock' = lock
        BY <1>0, <1>6, <2>3, Going DEF Unlink, Steps
      <3> QED BY <1>0, <2>1, <3>1, Shaped DEF TypeOK, Steps, Settling
    <2> QED BY <2>2, <2>3
  <1>7. CASE Reload(a)
    <2>1. Query(a, IF Exists(row) THEN "recover" ELSE "leave") /\ UNCHANGED <<dest, staged, previous, row, cur, want, own, ghost>>
      BY <1>7 DEF Reload, diskVars
    <2>2. (IF Exists(row) THEN "recover" ELSE "leave") \in Steps \ Settling
      BY DEF Steps, Settling
    <2>3. ret' \in [Actors -> {"judge", "leave", "verify", "recheck", "end"}]
      BY <1>0, <1>7 DEF Reload, TypeOK
    <2> QED BY <1>0, <2>1, <2>2, <2>3, Querying, LeftShaped, Shaped DEF TypeOK, Costs
  <1>8. CASE Swap(a)
    <2>1. /\ UNCHANGED <<previous, row, ret, saw, cur, want, left, ghost>> /\ dest' \in Files
          /\ staged' \in [Writers -> Files] /\ own' \in [Writers -> {"nothing", "staged", "swapped", "moved"}]
      BY <1>0, <1>8 DEF Swap, TypeOK
    <2>2. CASE Leave(a)
      BY <1>0, <2>1, <2>2, Leaving, LeftShaped, Shaped DEF TypeOK
    <2>3. CASE ~Leave(a)
      <3>1. Moves(a, "relocate") /\ lock' = lock
        BY <1>0, <1>8, <2>3, Going DEF Swap, Steps
      <3> QED BY <1>0, <2>1, <3>1, Shaped DEF TypeOK, Steps, Settling
    <2> QED BY <2>2, <2>3
  <1>9. CASE Relocate(a)
    <2>1. /\ UNCHANGED <<dest, row, ret, saw, cur, want, ghost>>
          /\ staged' \in [Writers -> Files] /\ previous' \in [Writers -> Files]
          /\ own' \in [Writers -> {"nothing", "staged", "swapped", "moved"}]
      BY <1>0, <1>9 DEF Relocate, TypeOK, Files
    <2>2. left' \in [LimitNames -> Nat]
      BY <1>0, <1>9, Spending DEF Relocate, TypeOK, Costs, LimitNames
    <2>3. CASE Leave(a)
      BY <1>0, <2>1, <2>2, <2>3, Leaving, LeftShaped, Shaped DEF TypeOK
    <2>4. CASE ~Leave(a)
      <3>1. Moves(a, "inspect") /\ lock' = lock
        BY <1>0, <1>9, <2>4, Going DEF Relocate, Steps
      <3> QED BY <1>0, <2>1, <2>2, <3>1, Shaped DEF TypeOK, Steps, Settling
    <2> QED BY <2>3, <2>4
  <1>10. CASE Inspect(a) \/ Confirm(a)
    <2>1. PICK to \in {"commit", "restore", "finalize", "disown"} : Go(a, to)
      BY <1>10 DEF Inspect, Confirm
    <2>2. to \in Steps \ Settling /\ Moves(a, to)
      BY <1>0, <2>1, Going DEF Steps, Settling
    <2>3. UNCHANGED <<dest, staged, previous, row, lock, ret, saw, cur, want, own, left, ghost>>
      BY <1>10 DEF Inspect, Confirm, diskVars
    <2> QED BY <1>0, <2>2, <2>3, Shaped DEF TypeOK
  <1>11. CASE Commit(a)
    <2>1. /\ UNCHANGED <<dest, staged, row, lock, ret, saw, cur, want, left, ghost>>
          /\ previous' \in [Writers -> Files] /\ own' \in [Writers -> {"nothing", "staged", "swapped", "moved"}]
      BY <1>0, <1>11 DEF Commit, TypeOK, Files
    <2>2. Moves(a, "confirm")
      BY <1>0, <1>11, Going DEF Commit, Steps
    <2> QED BY <1>0, <2>1, <2>2, Shaped DEF TypeOK, Steps, Settling
  <1>12. CASE Restore(a)
    <2>1. /\ UNCHANGED <<staged, row, ret, saw, cur, want, own, left>>
          /\ dest' \in Files /\ previous' \in [Writers -> Files] /\ ghost' \in Notes
      BY <1>0, <1>12 DEF Restore, TypeOK, Overtakes, Notes
    <2>2. CASE Leave(a)
      BY <1>0, <2>1, <2>2, Leaving, LeftShaped, Shaped DEF TypeOK
    <2>3. CASE ~Leave(a)
      <3>1. Moves(a, "sweep") /\ lock' = lock
        BY <1>0, <1>12, <2>3, Going DEF Restore, Steps
      <3> QED BY <1>0, <2>1, <3>1, Shaped DEF TypeOK, Steps, Settling
    <2> QED BY <2>2, <2>3
  <1>13. CASE Sweep(a)
    <2>1. /\ UNCHANGED <<dest, staged, row, ret, saw, cur, want, ghost>>
          /\ previous' \in [Writers -> Files] /\ own' \in [Writers -> {"nothing", "staged", "swapped", "moved"}]
      BY <1>0, <1>13 DEF Sweep, TypeOK, Files
    <2>2. left' \in [LimitNames -> Nat]
      BY <1>0, <1>13, Spending DEF Sweep, TypeOK, Costs, LimitNames
    <2>3. CASE Leave(a)
      BY <1>0, <2>1, <2>2, <2>3, Leaving, LeftShaped, Shaped DEF TypeOK
    <2>4. CASE ~Leave(a)
      <3>1. Moves(a, "disown") /\ lock' = lock
        BY <1>0, <1>13, <2>4, Going DEF Sweep, Steps
      <3> QED BY <1>0, <2>1, <2>2, <3>1, Shaped DEF TypeOK, Steps, Settling
    <2> QED BY <2>3, <2>4
  <1>14. CASE Finalize(a)
    <2> DEFINE final == IF row.pend = a THEN [pub |-> want[a], pend |-> None] ELSE row
    <2>1. LastStatement(a, final) /\ UNCHANGED <<dest, staged, previous, ret, saw, cur, want, own, ghost>>
      BY <1>14 DEF Finalize, diskVars
    <2>2. final \in Rows
      BY <1>0 DEF Rows, TypeOK
    <2> HIDE DEF final
    <2> QED BY <1>0, <2>1, <2>2, StatingLast, LeftShaped, Shaped DEF TypeOK, Costs
  <1>15. CASE Discard(a)
    <2>1. UNCHANGED <<row, lock, ret, saw, cur, want, left>>
      BY <1>15 DEF Discard
    <2>2. PICK to \in {"end", "discard2"} : Go(a, to)
      BY <1>15 DEF Discard
    <2>3. to \in Steps \ Settling /\ Moves(a, to)
      BY <1>0, <2>2, Going DEF Steps, Settling
    <2>4. dest' \in Files /\ staged' \in [Writers -> Files] /\ previous' \in [Writers -> Files] /\ ghost' \in Notes
      <3>1. CASE own[a] = "staged"
        BY <1>0, <1>15, <3>1 DEF Discard, TypeOK, Files
      <3>2. CASE own[a] = "swapped"
        BY <1>0, <1>15, <3>2 DEF Discard, TypeOK, Overtakes, Notes, diskVars
      <3>3. CASE own[a] = "moved"
        BY <1>0, <1>15, <3>3 DEF Discard, TypeOK, Overtakes, Notes, diskVars
      <3>4. CASE own[a] = "nothing"
        BY <1>0, <1>15, <3>4 DEF Discard, TypeOK, diskVars
      <3> QED BY <1>0, <3>1, <3>2, <3>3, <3>4 DEF TypeOK
    <2>5. own' \in [Writers -> {"nothing", "staged", "swapped", "moved"}]
      BY <1>0, <1>15 DEF Discard, TypeOK
    <2> QED BY <1>0, <2>1, <2>3, <2>4, <2>5, Shaped DEF TypeOK
  <1>16. CASE DiscardRest(a)
    <2>1. /\ UNCHANGED <<dest, row, lock, ret, saw, cur, want, left, ghost>>
          /\ staged' \in [Writers -> Files] /\ previous' \in [Writers -> Files]
          /\ own' \in [Writers -> {"nothing", "staged", "swapped", "moved"}]
      BY <1>0, <1>16 DEF DiscardRest, TypeOK, Files
    <2>2. Moves(a, "end")
      BY <1>0, <1>16, Going DEF DiscardRest, Steps
    <2> QED BY <1>0, <2>1, <2>2, Shaped DEF TypeOK, Steps, Settling
  <1> QED
    BY <1>1, <1>2, <1>3, <1>4, <1>5, <1>6, <1>7, <1>8, <1>9, <1>10, <1>11, <1>12, <1>13, <1>14, <1>15, <1>16
    DEF WriterSteps

\* The janitors and the scans.
LEMMA VisitorShape ==
  ASSUME Shape, NEW a \in Actors,
         \/ Examined(a) \/ Verify(a) \/ Done(a)
         \/ Classified(a) \/ Recheck(a) \/ CompareDelete(a)
  PROVE  Shape'
  <1>0. TypeOK /\ Addressed  BY DEF Shape
  <1>1. CASE Examined(a)
    <2>1. Query(a, IF Exists(row) THEN "recover" ELSE "leave") /\ UNCHANGED <<dest, staged, previous, row, cur, want, own, ghost>>
      BY <1>1 DEF Examined, diskVars
    <2>2. (IF Exists(row) THEN "recover" ELSE "leave") \in Steps \ Settling
      BY DEF Steps, Settling
    <2>3. ret' \in [Actors -> {"judge", "leave", "verify", "recheck", "end"}]
      BY <1>0, <1>1 DEF Examined, TypeOK
    <2> QED BY <1>0, <2>1, <2>2, <2>3, Querying, LeftShaped, Shaped DEF TypeOK, Costs
  <1>2. CASE Verify(a) \/ Recheck(a)
    <2>1. UNCHANGED <<dest, staged, previous, row, ret, saw, cur, want, own, left, ghost>>
      BY <1>2 DEF Verify, Recheck, diskVars
    <2>2. CASE Leave(a)
      BY <1>0, <2>1, <2>2, Leaving, LeftShaped, Shaped DEF TypeOK
    <2>3. CASE ~Leave(a)
      <3>1. PICK to \in {"disown", "compareDelete"} : Go(a, to) /\ lock' = lock
        BY <1>2, <2>3 DEF Verify, Recheck
      <3>2. to \in Steps \ Settling /\ Moves(a, to)
        BY <3>1, Going DEF Steps, Settling
      <3> QED BY <1>0, <2>1, <3>1, <3>2, Shaped DEF TypeOK
    <2> QED BY <2>2, <2>3
  <1>3. CASE Done(a)
    <2>1. UNCHANGED <<dest, staged, previous, row, lock, ret, want, own, left, ghost>> /\ Moves(a, "idle")
      BY <1>3, Going DEF Done, diskVars, Steps
    <2>2. saw' \in [Actors -> Rows] /\ (\A b \in Actors \ {a} : saw'[b] = saw[b]) /\ cur' \in [Actors -> Files]
      BY <1>0, <1>3 DEF Done, TypeOK, Rows, NoRow, Files
    <2> QED BY <1>0, <2>1, <2>2, Shaped DEF TypeOK, Steps, Settling
  <1>4. CASE Classified(a)
    <2>1. UNCHANGED <<dest, staged, previous, row, cur, want, own, ghost>>
      BY <1>4 DEF Classified, diskVars
    <2>2. PICK to \in {"recover", "compareDelete", "leave"} : Query(a, to)
      BY <1>4 DEF Classified
    <2>3. to \in Steps \ Settling
      BY DEF Steps, Settling
    <2>4. ret' \in [Actors -> {"judge", "leave", "verify", "recheck", "end"}]
      BY <1>0, <1>4 DEF Classified, TypeOK
    <2> QED BY <1>0, <2>1, <2>2, <2>3, <2>4, Querying, LeftShaped, Shaped DEF TypeOK, Costs
  <1>5. CASE CompareDelete(a)
    <2> DEFINE kept == IF row = saw[a] THEN NoRow ELSE row
    <2>1. LastStatement(a, kept) /\ UNCHANGED <<dest, staged, previous, ret, saw, cur, want, own, ghost>>
      BY <1>5 DEF CompareDelete, diskVars
    <2>2. kept \in Rows
      BY <1>0 DEF Rows, TypeOK, NoRow
    <2> HIDE DEF kept
    <2> QED BY <1>0, <2>1, <2>2, StatingLast, LeftShaped, Shaped DEF TypeOK, Costs
  <1> QED BY <1>1, <1>2, <1>3, <1>4, <1>5

\* The user, failures, and whoever has not taken the lock yet.
LEMMA OutsideShape ==
  ASSUME Shape,
         \/ \E v \in User : UserWrites(v)
         \/ UserDeletes \/ Crash
         \/ \E a \in Actors : LoseSession(a) \/ LeftoverStays(a)
         \/ \E w \in Writers : Prepare(w) \/ Lock(w) \/ RemovalFails(w)
         \/ \E j \in Janitors : Examine(j)
         \/ \E s \in Scanners : Inventory(s) \/ Classify(s)
  PROVE  Shape'
  <1>0. TypeOK /\ Addressed  BY DEF Shape
  <1>1. ASSUME NEW v \in User, UserWrites(v) PROVE Shape'
    <2>1. UNCHANGED <<staged, previous, row, lock, pc, ret, saw, cur, want, own, left>> /\ dest' \in Files
      BY <1>1 DEF UserWrites, actorVars, Files
    <2>2. ghost' \in Notes
      BY <1>0, <1>1 DEF UserWrites, TypeOK, Notes
    <2> QED BY <1>0, <2>1, <2>2 DEF Shape, TypeOK, Addressed
  <1>2. CASE UserDeletes
    <2>1. UNCHANGED <<staged, previous, row, lock, pc, ret, saw, cur, want, own>> /\ dest' \in Files
      BY <1>2 DEF UserDeletes, actorVars, Files
    <2>2. ghost' \in Notes
      BY <1>0, <1>2 DEF UserDeletes, TypeOK, Notes
    <2>3. left' \in [LimitNames -> Nat]
      BY <1>2, Spending DEF UserDeletes, Costs, LimitNames
    <2> QED BY <1>0, <2>1, <2>2, <2>3 DEF Shape, TypeOK, Addressed
  <1>3. CASE Crash
    <2>1. UNCHANGED <<dest, staged, previous, row, ret, saw, cur, want, ghost>> /\ lock' = None
      BY <1>3 DEF Crash, diskVars
    <2>2. pc' \in [Actors -> Steps] /\ \A b \in Actors : pc'[b] \in {"end", "idle"}
      BY <1>3 DEF Crash, Steps
    <2>3. own' \in [Writers -> {"nothing", "staged", "swapped", "moved"}]
      BY <1>3 DEF Crash
    <2>4. left' \in [LimitNames -> Nat]
      BY <1>3, Spending DEF Crash, Costs, LimitNames
    <2> QED BY <1>0, <2>1, <2>2, <2>3, <2>4 DEF Shape, TypeOK, Addressed, Settling
  <1>4. ASSUME NEW a \in Actors, LoseSession(a) PROVE Shape'
    <2>1. UNCHANGED <<dest, staged, previous, row, pc, ret, saw, cur, want, own, ghost>> /\ lock' = None
      BY <1>4 DEF LoseSession, diskVars, actorVars
    <2>2. left' \in [LimitNames -> Nat]
      BY <1>4, Spending DEF LoseSession, Costs, LimitNames
    <2> QED BY <1>0, <2>1, <2>2 DEF Shape, TypeOK, Addressed
  <1>5. ASSUME NEW w \in Writers, Prepare(w) PROVE Shape'
    <2>1. w \in Actors /\ Moves(w, "lock")
      BY <1>5, Going DEF Prepare, Steps, Actors
    <2>2. UNCHANGED <<dest, previous, row, lock, ret, saw, cur, left, ghost>>
      BY <1>5 DEF Prepare
    <2>3. staged' \in [Writers -> Files] /\ want' \in [Writers -> Heya \cup {None}]
      BY <1>0, <1>5 DEF Prepare, TypeOK, Files
    <2>4. own' \in [Writers -> {"nothing", "staged", "swapped", "moved"}]
      BY <1>0, <1>5 DEF Prepare, TypeOK
    <2> QED BY <1>0, <2>1, <2>2, <2>3, <2>4, Shaped DEF TypeOK, Steps, Settling
  <1>6. ASSUME NEW a \in Actors, Lock(a) \/ Examine(a) \/ Inventory(a) \/ Classify(a) PROVE Shape'
    <2>1. UNCHANGED <<dest, staged, previous, row, ret, saw, want, own, left, ghost>>
      BY <1>6 DEF Lock, Examine, Inventory, Classify, diskVars
    <2>2. lock' \in Actors \cup {None} /\ cur' \in [Actors -> Files]
      BY <1>0, <1>6 DEF Lock, Examine, Inventory, Classify, TypeOK
    <2>3. PICK to \in {"load", "examine", "queue", "classify", "end"} : Go(a, to)
      BY <1>6 DEF Lock, Examine, Inventory, Classify
    <2>4. to \in Steps \ Settling /\ Moves(a, to)
      BY <2>3, Going DEF Steps, Settling
    <2> QED BY <1>0, <2>1, <2>2, <2>4, Shaped DEF TypeOK
  <1>7. ASSUME NEW w \in Writers, RemovalFails(w) PROVE Shape'
    <2>1. w \in Actors /\ UNCHANGED <<staged, previous, row, ret, saw, cur, want, ghost>>
      BY <1>7 DEF RemovalFails, Actors
    <2>2. left' \in [LimitNames -> Nat]
      BY <1>7, Spending DEF RemovalFails, Costs, LimitNames
    <2>3. dest' \in Files /\ own' \in [Writers -> {"nothing", "staged", "swapped", "moved"}]
      BY <1>0, <1>7 DEF RemovalFails, TypeOK, Files
    <2>4. CASE Leave(w)
      BY <1>0, <2>1, <2>2, <2>3, <2>4, Leaving, LeftShaped, Shaped DEF TypeOK
    <2>5. CASE ~Leave(w)
      <3>1. Moves(w, "end") /\ lock' = lock
        BY <1>7, <2>1, <2>5, Going DEF RemovalFails, Steps
      <3> QED BY <1>0, <2>1, <2>2, <2>3, <3>1, Shaped DEF TypeOK, Steps, Settling
    <2> QED BY <2>4, <2>5
  <1>8. ASSUME NEW a \in Actors, LeftoverStays(a) PROVE Shape'
    <2>1. UNCHANGED <<dest, staged, previous, row, ret, saw, cur, want, own, ghost>>
      BY <1>8 DEF LeftoverStays, diskVars
    <2>2. left' \in [LimitNames -> Nat]
      BY <1>8, Spending DEF LeftoverStays, Costs, LimitNames
    <2>3. CASE Leave(a)
      BY <1>0, <2>1, <2>2, <2>3, Leaving, LeftShaped, Shaped DEF TypeOK
    <2>4. CASE ~Leave(a)
      <3>1. Moves(a, "retire") /\ lock' = lock
        BY <1>8, <2>4, Going DEF LeftoverStays, Steps
      <3> QED BY <1>0, <2>1, <2>2, <3>1, Shaped DEF TypeOK, Steps, Settling
    <2> QED BY <2>3, <2>4
  <1> QED BY <1>1, <1>2, <1>3, <1>4, <1>5, <1>6, <1>7, <1>8 DEF Actors

\* So it is before the first step.
LEMMA InitShape == Init => Shape
  <1> SUFFICES ASSUME Init PROVE Shape  OBVIOUS
  <1>1. dest \in Files /\ staged \in [Writers -> Files] /\ previous \in [Writers -> Files]
    BY DEF Init, Files
  <1>2. row \in Rows /\ lock \in Actors \cup {None} /\ ghost \in Notes
    BY BytesAssumption DEF Init, Rows, Notes, Files
  <1>3. pc \in [Actors -> Steps] /\ ret \in [Actors -> {"judge", "leave", "verify", "recheck", "end"}]
    BY DEF Init, Steps
  <1>4. saw \in [Actors -> Rows] /\ cur \in [Actors -> Files]
    BY DEF Init, Rows, NoRow, Files
  <1>5. /\ want \in [Writers -> Heya \cup {None}]
        /\ own \in [Writers -> {"nothing", "staged", "swapped", "moved"}]
        /\ left \in [LimitNames -> Nat]
    BY LimitsAssumption DEF Init
  <1>6. Addressed
    BY DEF Init, Addressed, Settling
  <1> QED BY <1>1, <1>2, <1>3, <1>4, <1>5, <1>6 DEF Shape, TypeOK

\* Every variable keeps the shape the code gives it, whatever fails: in
\* particular only a renderer's bytes are ever recorded as published.
THEOREM TypeCorrect == Spec => []TypeOK
  <1>1. Init => Shape
    BY InitShape
  <1>2. Shape /\ [Next]_vars => Shape'
    <2> SUFFICES ASSUME Shape, [Next]_vars PROVE Shape'  OBVIOUS
    <2>1. CASE UNCHANGED vars
      BY <2>1 DEF Shape, TypeOK, Addressed, vars, diskVars, actorVars
    <2>2. ASSUME NEW a \in Actors, Runs(a) PROVE Shape'
      <3>1. CASE RecoverySteps(a)
        BY <3>1, RecoveryShape
      <3>2. CASE a \in Writers /\ WriterSteps(a)
        BY <3>2, WriterShape
      <3>3. CASE JanitorSteps(a) \/ ScannerSteps(a)
        BY <3>3, VisitorShape DEF JanitorSteps, ScannerSteps
      <3> QED BY <2>2, <3>1, <3>2, <3>3 DEF Runs
    <2> QED BY <2>1, <2>2, OutsideShape DEF Next
  <1>3. Shape => TypeOK
    BY DEF Shape
  <1> QED BY <1>1, <1>2, <1>3, PTL DEF Spec
=============================================================================
