-------------------------- MODULE TranscodeSession --------------------------
(***************************************************************************)
(* One on-demand transcode session (internal/transcoder/session.go): HTTP  *)
(* requests that wait for HLS segments, the encode head (a goroutine with  *)
(* one ffmpeg process) they start, follow, resume, seek away from and      *)
(* kill, and the disposal of the session by its manager.                   *)
(*                                                                         *)
(* A critical section of the session's mutex is one step, and so is a look *)
(* at the disk.  killHead drops the mutex while it waits for the head's    *)
(* goroutine: what follows it is a step of its own.  The watcher takes the *)
(* mutex several times for one event or tick; what it does up to the call  *)
(* that pauses ffmpeg is one step here.                                    *)
(***************************************************************************)
EXTENDS Integers, Sequences, FiniteSets

CONSTANTS
  Total,          \* TotalSegs: segments are numbered 0..Total-1
  SeekThreshold,  \* seekThresholdSegs
  LeadCap,        \* LeadCapSeconds, in segments
  Clients,        \* players, each with one request at a time
  Heads,          \* encode heads; a slot is used again once nobody knows it
  NoHead,
  Limits          \* how often the environment acts (see LimitNames)

LimitNames == {"request", "cancel", "vanish", "fault", "kill"}

ASSUME SizesAssumption ==
  /\ Total \in Nat \ {0} /\ SeekThreshold \in Nat \ {0} /\ LeadCap \in Nat
  /\ NoHead \notin Heads
ASSUME LimitsAssumption == Limits \in [LimitNames -> Nat]

VARIABLES
  sess,    \* closed, head, lastRequestedSeg and headStopReason
  latch,   \* per segment: whether its channel is closed, and which one it is
  disk,    \* the segments in the output directory
  hd,      \* per head: goroutine, context, ffmpeg process and watcher
  req,     \* per client: EnsureSegment and its locals
  killer,  \* disposeSessions: Kill, then the removal of the output
  left,    \* what is left of Limits
  made     \* history: segments ever flushed to the directory

vars == <<sess, latch, disk, hd, req, killer, left, made>>

Segs == 0..(Total - 1)
Spend(n) == left[n] > 0 /\ left' = [left EXCEPT ![n] = @ - 1]

(***************************************************************************)
(* Latches: a waiter keeps the channel it found, and resetSegment replaces *)
(* a closed channel by a new one.                                          *)
(***************************************************************************)
isClosed(i, ch) == ch \in latch[i].closed
IsSegmentReady(i) == isClosed(i, latch[i].ch)
markSegmentsReady(S) ==
  latch' = [i \in Segs |-> IF i \in S THEN [latch[i] EXCEPT !.closed = @ \cup {latch[i].ch}]
                                      ELSE latch[i]]
\* (Mutant: an open channel is replaced as well.)
resetAnyway(i) == latch' = [latch EXCEPT ![i].ch = @ + 1]
resetSegment(i) == latch' = IF IsSegmentReady(i) THEN [latch EXCEPT ![i].ch = @ + 1] ELSE latch

(***************************************************************************)
(* Heads.                                                                  *)
(***************************************************************************)
\* CurrentSeg of a head that has flushed nothing.  (Mutant: its first segment.)
AtStart(i) == i
BeforeStart(i) == i - 1
NewHead(i) ==
  [pc |-> "launch", start |-> i, cur |-> BeforeStart(i), cancelled |-> FALSE,
   suspended |-> FALSE, proc |-> "none", next |-> i, watching |-> FALSE, events |-> <<>>]
\* What is left of a head once Done is closed: it is replaced whatever its cursor.
Over == [NewHead(0) EXCEPT !.pc = "done", !.proc = "exited"]
Done(h) == hd[h].pc = "done"

\* Slots that nobody but client c could still look at.
Unknown(c) ==
  {h \in Heads : /\ hd[h].pc = "done" /\ sess.head # h /\ killer.head # h
                 /\ \A d \in Clients \ {c} : req[d].head # h}

\* needsNewHead, of the current head with record r, for segment i.
Passed(r, i) == i <= r.cur
NeedsNewHead(r, i) == r.pc = "done" \/ Passed(r, i) \/ i - r.cur > SeekThreshold

Idle == [pc |-> "idle", idx |-> 0, head |-> NoHead, ch |-> 0]

-----------------------------------------------------------------------------
Init ==
  /\ sess = [closed |-> FALSE, head |-> NoHead, last |-> 0, reason |-> "running"]
  /\ disk \in SUBSET Segs   \* adopted from an earlier process, or empty
  /\ latch = [i \in Segs |-> [ch |-> 0, closed |-> IF i \in disk THEN {0} ELSE {}]]
  /\ made = disk
  /\ hd = [h \in Heads |-> Over]
  /\ req = [c \in Clients |-> Idle]
  /\ killer = [pc |-> "idle", head |-> NoHead]
  /\ left = Limits

(***************************************************************************)
(* EnsureSegment.                                                          *)
(***************************************************************************)
Answer(c) == req' = [req EXCEPT ![c] = Idle]
Goto(c, pc) == req' = [req EXCEPT ![c] = [@ EXCEPT !.pc = pc, !.head = NoHead, !.ch = 0]]

\* The range check, the closed check and lastRequestedSeg.
Begin(c, i) ==
  /\ req[c].pc = "idle" /\ Spend("request")
  /\ \/ /\ sess.closed
        /\ UNCHANGED <<sess, req>>
     \/ /\ ~sess.closed
        /\ req' = [req EXCEPT ![c] = [Idle EXCEPT !.pc = "check", !.idx = i]]
        /\ sess' = [sess EXCEPT !.last = i]
  /\ UNCHANGED <<latch, disk, hd, killer, made>>

Served(c) == IsSegmentReady(req[c].idx) /\ req[c].idx \in disk
Check(c) ==
  /\ req[c].pc = "check"
  /\ \/ Served(c) /\ Answer(c)
     \/ ~Served(c) /\ Goto(c, IF IsSegmentReady(req[c].idx) THEN "reset" ELSE "loop")
  /\ UNCHANGED <<sess, latch, disk, hd, killer, left, made>>
Reset(c) ==
  /\ req[c].pc = "reset"
  /\ resetSegment(req[c].idx)
  /\ Goto(c, "loop")
  /\ UNCHANGED <<sess, disk, hd, killer, left, made>>

\* killHead up to the wait: the head is detached and cancelled.
Detach(H, s) ==
  /\ hd' = [H EXCEPT ![s.head].cancelled = TRUE]
  /\ sess' = [s EXCEPT !.head = NoHead, !.reason = "killed"]

\* The end of the needsNewHead loop: kill the current head, or wait on it.
Settle(c, H, s) ==
  IF NeedsNewHead(H[s.head], req[c].idx)
  THEN /\ Detach(H, s)
       /\ req' = [req EXCEPT ![c].pc = "kill", ![c].head = s.head]
  ELSE /\ hd' = H /\ sess' = s
       /\ req' = [req EXCEPT ![c].pc = "wait", ![c].head = s.head,
                             ![c].ch = latch[req[c].idx].ch]
Spawn(c, h) ==
  Settle(c, [hd EXCEPT ![h] = NewHead(req[c].idx)],
            [sess EXCEPT !.head = h, !.reason = "running"])
Place(c) ==
  \/ sess.head = NoHead /\ \E h \in Unknown(c) : Spawn(c, h)
  \/ sess.head # NoHead /\ Settle(c, hd, sess)

\* A suspended head is resumed for a later segment; a failing resume kills it.
Resumable(c) ==
  sess.head # NoHead /\ hd[sess.head].suspended /\ req[c].idx > hd[sess.head].cur
Loop(c) ==
  /\ req[c].pc = "loop"
  /\ \/ sess.closed /\ Answer(c) /\ UNCHANGED <<sess, hd>>
     \/ ~sess.closed /\ ~Resumable(c) /\ Place(c)
     \/ /\ ~sess.closed /\ Resumable(c) /\ hd[sess.head].proc = "stopped"
        /\ Settle(c, [hd EXCEPT ![sess.head].suspended = FALSE, ![sess.head].proc = "running"],
                     [sess EXCEPT !.reason = "running"])
     \/ /\ ~sess.closed /\ Resumable(c) /\ hd[sess.head].proc = "exited"
        /\ Detach(hd, sess)
        /\ req' = [req EXCEPT ![c].pc = "kill", ![c].head = sess.head]
  /\ UNCHANGED <<latch, disk, killer, left, made>>

\* killHead has seen the head end: back into the needsNewHead loop.
\* (Mutant: a head is spawned over whatever another request has installed.)
SpawnOver(c) == \E h \in Unknown(c) : Spawn(c, h)
Replace(c) == Place(c)
Killed(c) ==
  /\ req[c].pc = "kill" /\ Done(req[c].head)
  /\ Replace(c)
  /\ UNCHANGED <<latch, disk, killer, left, made>>

\* The select: the segment's channel, the head's end, the client's context.
Wait(c) ==
  /\ req[c].pc = "wait"
  /\ \/ /\ isClosed(req[c].idx, req[c].ch) /\ UNCHANGED left
        /\ \/ req[c].idx \in disk /\ Answer(c)
           \/ req[c].idx \notin disk /\ Goto(c, "reset")
     \/ /\ Done(req[c].head) /\ UNCHANGED left
        /\ req' = [req EXCEPT ![c].pc = "ended"]
  /\ UNCHANGED <<sess, latch, disk, hd, killer, made>>
Leave(c) ==
  /\ req[c].pc = "wait" /\ Spend("cancel")
  /\ Answer(c)
  /\ UNCHANGED <<sess, latch, disk, hd, killer, made>>

\* The head has ended: a segment on disk wins over its result.
Ended(c) ==
  /\ req[c].pc = "ended"
  /\ \/ Served(c) /\ Answer(c) /\ UNCHANGED latch
     \/ ~Served(c) /\ resetSegment(req[c].idx) /\ req' = [req EXCEPT ![c].pc = "verdict"]
  /\ UNCHANGED <<sess, disk, hd, killer, left, made>>
Verdict(c) ==
  /\ req[c].pc = "verdict"
  /\ \/ sess.closed /\ Answer(c)
     \/ ~sess.closed /\ sess.head # req[c].head /\ Goto(c, "loop")
     \/ ~sess.closed /\ sess.head = req[c].head /\ Answer(c)
  /\ UNCHANGED <<sess, latch, disk, hd, killer, left, made>>

(***************************************************************************)
(* The head's goroutine and its ffmpeg process.                            *)
(***************************************************************************)
HeadFrame == UNCHANGED <<disk, req, killer, made>>

\* setStopReason: only while the head is the session's current one.
\* (Mutant: whichever head calls.)
setStopReasonAlways(h, r) == sess' = [sess EXCEPT !.reason = r]
setStopReason(h, r) == sess' = IF sess.head = h THEN [sess EXCEPT !.reason = r] ELSE sess

\* runHead up to cmd.Start; a start on a cancelled context is not an error.
Launch(h) ==
  /\ hd[h].pc = "launch"
  /\ \/ /\ ~hd[h].cancelled /\ UNCHANGED left
        /\ hd' = [hd EXCEPT ![h].pc = "started", ![h].proc = "running"]
     \/ /\ hd[h].cancelled /\ UNCHANGED left
        /\ hd' = [hd EXCEPT ![h].pc = "ending"]
     \/ /\ ~hd[h].cancelled /\ Spend("fault")
        /\ hd' = [hd EXCEPT ![h].pc = "ending"]
  /\ UNCHANGED <<sess, latch>> /\ HeadFrame
\* The watcher is added after the start; without one the ticker polls.
AddWatch(h) ==
  /\ hd[h].pc = "started"
  /\ \/ hd' = [hd EXCEPT ![h].pc = "watch", ![h].watching = TRUE] /\ UNCHANGED left
     \/ hd' = [hd EXCEPT ![h].pc = "watch"] /\ Spend("fault")
  /\ UNCHANGED <<sess, latch>> /\ HeadFrame

\* A file event.  In completed territory the head cancels itself; too far
\* ahead of the last request it goes on to suspend its process.
headExceedsLeadCap(cur) == cur - sess.last > LeadCap
Event(h) ==
  /\ hd[h].pc = "watch" /\ hd[h].events # <<>>
  /\ LET r == hd[h]
         i == Head(r.events)
         completed == i > r.start /\ i + 1 \in Segs /\ IsSegmentReady(i + 1)
     IN  /\ markSegmentsReady({i})
         /\ hd' = [hd EXCEPT ![h] = [r EXCEPT
                     !.events = Tail(r.events), !.cur = i, !.cancelled = r.cancelled \/ completed,
                     !.pc = IF ~r.suspended /\ headExceedsLeadCap(i) THEN "suspend" ELSE "watch"]]
         /\ IF completed THEN setStopReason(h, "completed") ELSE UNCHANGED sess
  /\ UNCHANGED left /\ HeadFrame
\* SIGSTOP, which fails on a process that has been reaped ...
Suspend(h) ==
  /\ hd[h].pc = "suspend"
  /\ \/ /\ hd[h].proc = "running" /\ UNCHANGED sess
        /\ hd' = [hd EXCEPT ![h].pc = "mark", ![h].proc = "stopped"]
     \/ /\ hd[h].proc = "exited" /\ setStopReason(h, "lead_cap")
        /\ hd' = [hd EXCEPT ![h].pc = "watch", ![h].cancelled = TRUE]
  /\ UNCHANGED <<latch, left>> /\ HeadFrame
\* ... and then the flag that requests look at.
MarkSuspended(h) ==
  /\ hd[h].pc = "mark"
  /\ hd' = [hd EXCEPT ![h].pc = "watch", ![h].suspended = (sess.head = h)]
  /\ setStopReason(h, "lead_cap")
  /\ UNCHANGED <<latch, left>> /\ HeadFrame

\* reconcileSegmentsFromFS: what is on disk is ready, and the cursor follows
\* the head's own contiguous run.  (Mutants: every segment up to the last one;
\* the segment after the run, where the code's loop stops.)
SpanOnDisk(h) == {j \in Segs : \E k \in disk : j <= k /\ hd[h].start <= j} \cup disk
OnDisk(h) == disk
OwnRun(h) == {j \in Segs : j >= hd[h].start /\ \A k \in hd[h].start..j : k \in disk}
AfterLast(S) == {j + 1 : j \in {j \in S : \A k \in S : k <= j}}
Last(S) == {j \in S : \A k \in S : k <= j}
reconcileSegments(h, pc) ==
  /\ markSegmentsReady(OnDisk(h))
  /\ \E j \in Last(OwnRun(h) \cup {hd[h].cur}) : hd' = [hd EXCEPT ![h].pc = pc, ![h].cur = j]
Tick(h) ==
  /\ hd[h].pc = "watch"
  /\ reconcileSegments(h, "watch")
  /\ UNCHANGED <<sess, left>> /\ HeadFrame
\* The process has ended, by itself or with the head's context.
Stopped(h) ==
  /\ hd[h].pc = "watch" /\ hd[h].proc = "exited"
  /\ reconcileSegments(h, "ending")
  /\ UNCHANGED <<sess, left>> /\ HeadFrame
\* setStopReasonIfRunning, then close(Done).
Finish(h) ==
  /\ hd[h].pc = "ending"
  /\ hd' = [hd EXCEPT ![h] = Over]
  /\ IF sess.reason = "running" THEN setStopReason(h, "exited") ELSE UNCHANGED sess
  /\ UNCHANGED <<latch, left>> /\ HeadFrame

\* ffmpeg renames a flushed segment into place: every watcher sees it.
Encode(h) ==
  /\ hd[h].proc = "running" /\ hd[h].next \in Segs
  /\ disk' = disk \cup {hd[h].next} /\ made' = made \cup {hd[h].next}
  /\ hd' = [g \in Heads |-> [hd[g] EXCEPT
              !.events = IF hd[g].watching THEN Append(@, hd[h].next) ELSE @,
              !.next = IF g = h THEN @ + 1 ELSE @]]
  /\ UNCHANGED <<sess, latch, req, killer, left>>
\* It ends at the end of the file, is killed with the context, or crashes.
ProcEnds(h) ==
  /\ hd[h].proc \in {"running", "stopped"}
  /\ \/ /\ hd[h].cancelled \/ (hd[h].proc = "running" /\ hd[h].next \notin Segs)
        /\ hd' = [hd EXCEPT ![h].proc = "exited"] /\ UNCHANGED left
     \/ /\ ~hd[h].cancelled /\ Spend("fault")
        /\ hd' = [hd EXCEPT ![h].proc = "exited"]
  /\ UNCHANGED <<sess, latch>> /\ HeadFrame

(***************************************************************************)
(* The cache and the session's end.                                        *)
(***************************************************************************)
\* A segment vanishes from the cache under a live session.
Vanish(i) ==
  /\ i \in disk /\ Spend("vanish")
  /\ disk' = disk \ {i}
  /\ UNCHANGED <<sess, latch, hd, req, killer, made>>

\* Kill, then (an idle or evicted session) the removal of the directory.
KillBegin ==
  /\ killer.pc = "idle" /\ Spend("kill")
  /\ \/ /\ sess.head = NoHead
        /\ sess' = [sess EXCEPT !.closed = TRUE] /\ UNCHANGED hd
        /\ killer' = [killer EXCEPT !.pc = "killed"]
     \/ /\ sess.head # NoHead
        /\ Detach(hd, [sess EXCEPT !.closed = TRUE])
        /\ killer' = [pc |-> "wait", head |-> sess.head]
  /\ UNCHANGED <<latch, disk, req, made>>
KillEnds ==
  /\ killer.pc = "wait" /\ Done(killer.head)
  /\ killer' = [pc |-> "killed", head |-> NoHead]
  /\ UNCHANGED <<sess, latch, disk, hd, req, left, made>>
RemoveOutput ==
  /\ killer.pc = "killed"
  /\ killer' = [killer EXCEPT !.pc = "removed"]
  /\ disk' = {}
  /\ UNCHANGED <<sess, latch, hd, req, left, made>>

-----------------------------------------------------------------------------
Request(c) == \/ Check(c) \/ Reset(c) \/ Loop(c) \/ Killed(c) \/ Wait(c) \/ Ended(c)
              \/ Verdict(c)
Watch(h)   == Event(h) \/ Suspend(h) \/ MarkSuspended(h) \/ Stopped(h)
Process(h) == Encode(h) \/ ProcEnds(h)
Dispose    == KillEnds \/ RemoveOutput

Next ==
  \/ \E c \in Clients : Request(c) \/ Leave(c) \/ \E i \in Segs : Begin(c, i)
  \/ \E h \in Heads : Launch(h) \/ AddWatch(h) \/ Watch(h) \/ Tick(h) \/ Finish(h) \/ Process(h)
  \/ \E i \in Segs : Vanish(i)
  \/ KillBegin \/ Dispose

\* Goroutines run, a live encoder makes progress, a cancelled one is killed,
\* the ticker ticks.
Fairness ==
  /\ \A c \in Clients : WF_vars(Request(c))
  /\ \A h \in Heads : /\ WF_vars(Launch(h) /\ left' = left) /\ WF_vars(AddWatch(h))
                      /\ WF_vars(Watch(h)) /\ WF_vars(Tick(h)) /\ WF_vars(Finish(h))
                      /\ WF_vars(Process(h) /\ left' = left)
  /\ WF_vars(Dispose)

Spec == Init /\ [][Next]_vars
FairSpec == Spec /\ Fairness

-----------------------------------------------------------------------------
Reasons   == {"running", "lead_cap", "completed", "killed", "exited"}
HeadSteps == {"launch", "started", "watch", "suspend", "mark", "ending", "done"}
ReqSteps  == {"idle", "check", "reset", "loop", "kill", "wait", "ended", "verdict"}
Procs     == {"none", "running", "stopped", "exited"}
Cursors   == -1..(Total - 1)
Positions == 0..Total
Queues    == Seq(Segs)
SessRecords == [closed : BOOLEAN, head : Heads \cup {NoHead}, last : Segs, reason : Reasons]
HeadRecords ==
  [pc : HeadSteps, start : Segs, cur : Cursors, cancelled : BOOLEAN, suspended : BOOLEAN,
   proc : Procs, next : Positions, watching : BOOLEAN, events : Queues]
ReqRecords == [pc : ReqSteps, idx : Segs, head : Heads \cup {NoHead}, ch : Nat]

\* Every variable keeps the shape the code gives it.
TypeOK ==
  /\ sess \in SessRecords
  /\ latch \in [Segs -> [ch : Nat, closed : SUBSET Nat]]
  /\ disk \in SUBSET Segs /\ made \in SUBSET Segs
  /\ hd \in [Heads -> HeadRecords]
  /\ req \in [Clients -> ReqRecords]
  /\ killer \in [pc : {"idle", "wait", "killed", "removed"}, head : Heads \cup {NoHead}]
  /\ left \in [LimitNames -> Nat]

\* Whatever requests race for it, a session has one encoder: a head that is
\* not the current one has been cancelled.
OneEncoder == \A h \in Heads : ~Done(h) /\ sess.head # h => hd[h].cancelled

\* A closed latch stands for a segment that was once flushed: neither a
\* reconciliation nor an older head's range marks a gap as ready, which no
\* request could ever get past.
ReadyWasMade == \A i \in Segs : IsSegmentReady(i) => i \in made

\* A waiter whose channel is open waits on the channel that the next head to
\* flush its segment will close.
WaiterHoldsLatch ==
  \A c \in Clients : req[c].pc = "wait" /\ ~isClosed(req[c].idx, req[c].ch) =>
    req[c].ch = latch[req[c].idx].ch

\* The stop reason is about the current head: while that head encodes, no
\* other head's end shows through.
StatusFollowsHead ==
  sess.head # NoHead /\ ~Done(sess.head) =>
    \/ sess.reason = "running" \/ hd[sess.head].cancelled
    \/ sess.reason = "lead_cap" /\ hd[sess.head].suspended

\* Every request is answered.
RequestsEnd == \A c \in Clients : req[c].pc # "idle" ~> req[c].pc = "idle"
=============================================================================
