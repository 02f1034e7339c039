--------------------------- MODULE MCKickoffPump ---------------------------
(* Small instances of KickoffPump for TLC. *)
EXTENDS KickoffPump

Limit(crash, fault, arrive, toggle, cron, stop, retry) ==
  [n \in LimitNames |->
     CASE n = "crash" -> crash [] n = "fault" -> fault [] n = "arrive" -> arrive
       [] n = "toggle" -> toggle [] n = "cron" -> cron [] n = "cancel" -> stop
       [] n = "retry" -> retry]

\* Run Now racing a cron run that winds down, drains, fails or crashes.
LimitsUpgrade == Limit(1, 1, 0, 1, 1, 0, 0)
\* A sweep among new items, faults and a crash.
LimitsSweep == Limit(1, 1, 1, 0, 1, 0, 0)
\* Files handed off to other jobs under the sweep; the user cancels, then
\* retries the cancelled row.
LimitsHandoff == Limit(1, 0, 1, 0, 1, 1, 1)
=============================================================================
