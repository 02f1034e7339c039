-------------------------- MODULE MCGeneratedWrite --------------------------
(* Small instances of GeneratedWrite for TLC. *)
EXTENDS GeneratedWrite, TLC

Symmetry == Permutations(Writers) \cup Permutations(User) \cup Permutations(Heya)

Limit(all, crash, fault, answer, rename, remove, loss, delete) ==
  [n \in LimitNames |->
     CASE n = "all" -> all [] n = "crash" -> crash [] n = "fault" -> fault
       [] n = "answer" -> answer [] n = "rename" -> rename [] n = "remove" -> remove
       [] n = "loss" -> loss [] n = "delete" -> delete]
LimitsPublish == Limit(2, 1, 1, 0, 0, 0, 0, 1)
LimitsSettle == Limit(2, 1, 1, 1, 1, 1, 1, 1)
=============================================================================
