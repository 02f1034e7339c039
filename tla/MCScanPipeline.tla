----------------------------- MODULE MCScanPipeline -----------------------------
(* Small instances of ScanPipeline for TLC. *)
EXTENDS ScanPipeline

Limit(all, media, sidecar, decide, park, refuse, fault, crash, cancels, round) ==
  [n \in LimitNames |->
     CASE n = "all" -> all [] n = "media" -> media [] n = "sidecar" -> sidecar
       [] n = "decide" -> decide [] n = "park" -> park [] n = "refuse" -> refuse [] n = "fault" -> fault
       [] n = "crash" -> crash [] n = "cancel" -> cancels [] n = "round" -> round]
\* process_scan is tried more often than the instance can fail it; an apply twice,
\* so that a second run resumes from the checkpoint of a first.
AttemptsScan == [k \in Kinds |-> CASE k = "process" -> 3 [] k = "apply" -> 2 [] OTHER -> 1]
SlotsScan == [k \in Kinds |-> IF k = "apply" THEN 2 ELSE 1]
AloneScan == {"sidecar", "decide", "crash", "cancel"}
LimitsScan == Limit(2, 1, 1, 1, 1, 1, 1, 1, 1, 1)
=============================================================================
