--------------------------- MODULE MCCoordinator ---------------------------
(* Small instances of Coordinator for TLC. *)
EXTENDS Coordinator

Limit(crash, signal, loss, fault) ==
  [n \in LimitNames |->
     CASE n = "crash" -> crash [] n = "signal" -> signal
       [] n = "loss" -> loss [] n = "fault" -> fault]

\* Restarts, a lost session and a failing statement.
LimitsHandover == Limit(1, 1, 1, 1)
=============================================================================
