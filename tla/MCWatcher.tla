------------------------------- MODULE MCWatcher -------------------------------
(* Small instances of Watcher for TLC. *)
EXTENDS Watcher

Limit(all, change, publish, setting, early, stall, fault) ==
  [n \in LimitNames |->
     CASE n = "all" -> all [] n = "change" -> change [] n = "publish" -> publish [] n = "setting" -> setting
       [] n = "early" -> early [] n = "stall" -> stall [] n = "fault" -> fault]
LimitsWatch == Limit(2, 2, 1, 1, 1, 1, 1)
=============================================================================
