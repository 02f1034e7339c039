----------------------------- MODULE SidecarOwner -----------------------------
(***************************************************************************)
(* What publishing a generated sidecar promises the person who edits the   *)
(* same file: Heya renders only over a free path or over bytes of its own. *)
(* A version that the person slipped in during a publication is displaced, *)
(* never destroyed, and the only thing that happens to it is that it comes *)
(* back.  While it is aside a still newer version may be written; what     *)
(* comes back then overtakes that one, and only for an overtaken version   *)
(* does Heya promise nothing.                                              *)
(* GeneratedWrite is shown to implement this.                              *)
(***************************************************************************)
EXTENDS Naturals

CONSTANTS
  User,  \* versions of the file that the user may write
  Heya,  \* bytes that the renderer may produce
  None   \* no file

VARIABLES
  file,      \* what stands at the path
  aside,     \* the user's versions that a publication has displaced
  overtaken, \* the user's versions that gave way to one that was put back
  deletions  \* how often the user removed the file

vars == <<file, aside, overtaken, deletions>>

Init ==
  /\ file \in User \cup Heya \cup {None}
  /\ aside = {} /\ overtaken = {} /\ deletions = 0

UserWrites ==
  /\ file' \in User \ (aside \cup overtaken \cup {file})
  /\ UNCHANGED <<aside, overtaken, deletions>>
UserDeletes ==
  /\ file # None /\ file' = None
  /\ deletions' = deletions + 1
  /\ UNCHANGED <<aside, overtaken>>

Render ==
  /\ file \notin User
  /\ file' \in Heya \cup {None}
  /\ UNCHANGED <<aside, overtaken, deletions>>
Displace ==
  /\ file \in User
  /\ file' \in Heya
  /\ aside' = aside \cup {file} /\ UNCHANGED <<overtaken, deletions>>
PutBack ==
  /\ file' \in aside
  /\ aside' = aside \ {file'}
  /\ overtaken' = overtaken \cup ({file} \cap User)
  /\ UNCHANGED deletions

Next == UserWrites \/ UserDeletes \/ Render \/ Displace \/ PutBack
Spec == Init /\ [][Next]_vars
=============================================================================
