----------------------------- MODULE MCMetadataFeed -----------------------------
(* Small instances of MetadataFeed for TLC. *)
EXTENDS MetadataFeed

Limit(all, unmarked, change, rebuild, crash, depose, fault) ==
  [n \in LimitNames |->
     CASE n = "all" -> all [] n = "unmarked" -> unmarked [] n = "change" -> change [] n = "rebuild" -> rebuild
       [] n = "crash" -> crash [] n = "depose" -> depose [] n = "fault" -> fault]
AttemptsFeed == [k \in JobKinds |-> IF k = "person" THEN 1 ELSE 2]
LimitsFeed == Limit(2, 1, 2, 1, 1, 1, 1)
LimitsPerson == Limit(2, 2, 2, 0, 0, 0, 0)
=============================================================================
