----------------------- MODULE TranscodeSessionProofs -----------------------
(***************************************************************************)
(* What holds of a transcode session for every number of segments, every   *)
(* threshold and any sets of players and encode heads.                     *)
(***************************************************************************)
EXTENDS TranscodeSession, TLAPS

\* The records that the code builds are well typed.
LEMMA Records ==
  /\ \A i \in Segs : NewHead(i) \in HeadRecords
  /\ Over \in HeadRecords /\ Idle \in ReqRecords
  /\ 0 \in Segs
<1>1. 0 \in Segs
  BY SizesAssumption DEF Segs
<1>2. ASSUME NEW i \in Segs PROVE NewHead(i) \in HeadRecords
  <2>1. i - 1 \in Cursors /\ i \in Positions /\ <<>> \in Queues
    BY SizesAssumption DEF Segs, Cursors, Positions, Queues
  <2> QED BY <2>1 DEF NewHead, BeforeStart, HeadRecords, HeadSteps, Procs
<1>3. Over \in HeadRecords
  <2>1. NewHead(0) \in HeadRecords
    BY <1>1, <1>2
  <2> QED BY <2>1 DEF Over, HeadRecords, HeadSteps, Procs
<1>4. Idle \in ReqRecords
  BY <1>1 DEF Idle, ReqRecords, ReqSteps
<1> QED BY <1>1, <1>2, <1>3, <1>4

\* Marking and resetting keep the latches in shape.
LEMMA LatchType ==
  ASSUME TypeOK
  PROVE  /\ \A S : markSegmentsReady(S) => latch' \in [Segs -> [ch : Nat, closed : SUBSET Nat]]
         /\ \A i \in Segs : resetSegment(i) => latch' \in [Segs -> [ch : Nat, closed : SUBSET Nat]]
BY DEF TypeOK, markSegmentsReady, resetSegment

\* Detaching a head, and choosing between it and a new one, keep the session,
\* its heads and the request in shape.
LEMMA DetachType ==
  ASSUME NEW STATE H, NEW STATE s, H \in [Heads -> HeadRecords], s \in SessRecords,
         s.head \in Heads, Detach(H, s)
  PROVE  hd' \in [Heads -> HeadRecords] /\ sess' \in SessRecords
<1>1. hd' \in [Heads -> HeadRecords]
  BY DEF Detach, HeadRecords
<1>2. sess' \in SessRecords
  BY DEF Detach, SessRecords, Reasons
<1> QED BY <1>1, <1>2

\* Settling a request leaves heads, session and requests well formed.
LEMMA SettleType ==
  ASSUME TypeOK, NEW c \in Clients, NEW STATE H, NEW STATE s,
         H \in [Heads -> HeadRecords], s \in SessRecords,
         s.head \in Heads, Settle(c, H, s)
  PROVE  hd' \in [Heads -> HeadRecords] /\ sess' \in SessRecords /\ req' \in [Clients -> ReqRecords]
<1>0. req \in [Clients -> ReqRecords]
  BY DEF TypeOK
<1>1. CASE NeedsNewHead(H[s.head], req[c].idx)
  <2>1. req' = [req EXCEPT ![c].pc = "kill", ![c].head = s.head]
    BY <1>1 DEF Settle
  <2>2. req' \in [Clients -> ReqRecords]
    BY <1>0, <2>1 DEF ReqRecords, ReqSteps
  <2> QED BY <1>1, <2>2, DetachType DEF Settle
<1>2. CASE ~NeedsNewHead(H[s.head], req[c].idx)
  <2>1. /\ hd' = H /\ sess' = s
        /\ req' = [req EXCEPT ![c].pc = "wait", ![c].head = s.head, ![c].ch = latch[req[c].idx].ch]
    BY <1>2 DEF Settle
  <2>2. PICK ch \in Nat : ch = latch[req[c].idx].ch
    BY DEF TypeOK, ReqRecords
  <2>3. s.head \in Heads \cup {NoHead}
    OBVIOUS
  <2>4. req' = [req EXCEPT ![c].pc = "wait", ![c].head = s.head, ![c].ch = ch]
    BY <2>1, <2>2, Zenon
  <2>5. req' \in [Clients -> ReqRecords]
    <3>1. req[c] \in ReqRecords
      BY <1>0
    <3>2. [req[c] EXCEPT !.pc = "wait", !.head = s.head, !.ch = ch] \in ReqRecords
      BY <2>2, <2>3, <3>1 DEF ReqRecords, ReqSteps
    <3> QED BY <1>0, <2>4, <3>2
  <2> QED BY <2>1, <2>5
<1> QED BY <1>1, <1>2

\* So does placing one, whether it joins a head or starts one.
LEMMA PlaceType ==
  ASSUME TypeOK, NEW c \in Clients, Place(c)
  PROVE  hd' \in [Heads -> HeadRecords] /\ sess' \in SessRecords /\ req' \in [Clients -> ReqRecords]
<1>1. ASSUME NEW h \in Unknown(c), Spawn(c, h)
      PROVE  hd' \in [Heads -> HeadRecords] /\ sess' \in SessRecords
             /\ req' \in [Clients -> ReqRecords]
  <2>1. h \in Heads /\ req[c].idx \in Segs
    BY <1>1 DEF Unknown, TypeOK, ReqRecords
  <2>2. [hd EXCEPT ![h] = NewHead(req[c].idx)] \in [Heads -> HeadRecords]
    BY <2>1, Records DEF TypeOK
  <2>3. [sess EXCEPT !.head = h, !.reason = "running"] \in SessRecords
    BY <2>1 DEF TypeOK, SessRecords, Reasons
  <2>4. [sess EXCEPT !.head = h, !.reason = "running"].head \in Heads
    BY <2>1 DEF TypeOK, SessRecords
  <2> QED BY <1>1, <2>2, <2>3, <2>4, SettleType DEF Spawn
<1>2. CASE sess.head # NoHead /\ Settle(c, hd, sess)
  BY <1>2, SettleType DEF TypeOK, SessRecords
<1> QED BY <1>1, <1>2 DEF Place

-----------------------------------------------------------------------------
\* The steps of a request keep every variable in shape.
LEMMA RequestType ==
  ASSUME TypeOK, NEW c \in Clients, Request(c) \/ Leave(c) \/ \E i \in Segs : Begin(c, i)
  PROVE  TypeOK'
<1>h. hd \in [Heads -> HeadRecords]
  BY DEF TypeOK
<1>r. req \in [Clients -> ReqRecords]
  BY DEF TypeOK
<1>s. sess \in SessRecords
  BY DEF TypeOK
<1>i. Idle \in ReqRecords
  BY Records
<1>1. ASSUME NEW i \in Segs, Begin(c, i) PROVE TypeOK'
  <2>1. \/ UNCHANGED <<sess, req>>
        \/ /\ req' = [req EXCEPT ![c] = [Idle EXCEPT !.pc = "check", !.idx = i]]
           /\ sess' = [sess EXCEPT !.last = i]
    BY <1>1 DEF Begin
  <2>2. req' \in [Clients -> ReqRecords]
    <3>1. [Idle EXCEPT !.pc = "check", !.idx = i] \in ReqRecords
      BY <1>i, Zenon DEF ReqRecords, ReqSteps
    <3> QED BY <1>r, <2>1, <3>1
  <2>3. sess' \in SessRecords
    BY <1>s, <2>1 DEF SessRecords
  <2>4. left' \in [LimitNames -> Nat]
    <3>1. Spend("request") /\ "request" \in LimitNames
      BY <1>1 DEF Begin, LimitNames
    <3> QED BY <3>1 DEF Spend, TypeOK
  <2>5. UNCHANGED <<latch, disk, hd, killer, made>>
    BY <1>1 DEF Begin
  <2> QED BY <2>2, <2>3, <2>4, <2>5 DEF TypeOK
<1>2. ASSUME NEW pc \in ReqSteps, Answer(c) \/ Goto(c, pc) \/ req' = [req EXCEPT ![c].pc = pc]
      PROVE  req' \in [Clients -> ReqRecords]
  <2>1. \/ req' = [req EXCEPT ![c] = Idle]
        \/ req' = [req EXCEPT ![c].pc = pc]
        \/ req' = [req EXCEPT ![c] = [@ EXCEPT !.pc = pc, !.head = NoHead, !.ch = 0]]
    BY <1>2 DEF Answer, Goto
  <2>2. CASE req' = [req EXCEPT ![c] = Idle]
    BY <1>r, <1>i, <2>2
  <2>3. CASE req' = [req EXCEPT ![c].pc = pc]
    BY <1>r, <2>3 DEF ReqRecords
  <2>4. CASE req' = [req EXCEPT ![c] = [@ EXCEPT !.pc = pc, !.head = NoHead, !.ch = 0]]
    <3>1. [req[c] EXCEPT !.pc = pc, !.head = NoHead, !.ch = 0] \in ReqRecords
      BY <1>r DEF ReqRecords
    <3> QED BY <1>r, <2>4, <3>1
  <2> QED BY <2>1, <2>2, <2>3, <2>4
<1>3. req[c].idx \in Segs
  BY DEF TypeOK, ReqRecords
<1>4. CASE Check(c)
  BY <1>2, <1>4 DEF TypeOK, Check, ReqSteps
<1>5. CASE Reset(c)
  BY <1>2, <1>3, <1>5, LatchType DEF TypeOK, Reset, ReqSteps
<1>6. CASE Loop(c)
  <2>1. CASE sess.closed /\ Answer(c) /\ UNCHANGED <<sess, hd>>
    BY <1>2, <1>6, <2>1 DEF TypeOK, Loop, ReqSteps
  <2>2. CASE Place(c)
    BY <1>6, <2>2, PlaceType DEF TypeOK, Loop
  <2>3. CASE /\ Resumable(c)
             /\ Settle(c, [hd EXCEPT ![sess.head].suspended = FALSE, ![sess.head].proc = "running"],
                          [sess EXCEPT !.reason = "running"])
    <3>1. sess.head \in Heads
      BY <2>3 DEF Resumable, TypeOK, SessRecords
    <3>2. [hd EXCEPT ![sess.head].suspended = FALSE, ![sess.head].proc = "running"]
             \in [Heads -> HeadRecords]
      BY <1>h, <3>1 DEF HeadRecords, Procs
    <3>3. /\ [sess EXCEPT !.reason = "running"] \in SessRecords
          /\ [sess EXCEPT !.reason = "running"].head \in Heads
      BY <1>s, <3>1 DEF SessRecords, Reasons
    <3> QED BY <1>6, <2>3, <3>2, <3>3, SettleType DEF TypeOK, Loop
  <2>4. CASE /\ Resumable(c) /\ Detach(hd, sess)
             /\ req' = [req EXCEPT ![c].pc = "kill", ![c].head = sess.head]
    <3>1. sess.head \in Heads
      BY <2>4 DEF Resumable, TypeOK, SessRecords
    <3>2. req' \in [Clients -> ReqRecords]
      BY <1>r, <2>4, <3>1 DEF ReqRecords, ReqSteps
    <3> QED BY <1>6, <2>4, <3>1, <3>2, DetachType DEF TypeOK, Loop
  <2> QED BY <1>6, <2>1, <2>2, <2>3, <2>4 DEF Loop
<1>7. CASE Killed(c)
  BY <1>7, PlaceType DEF TypeOK, Killed, Replace
<1>8. CASE Wait(c)
  BY <1>2, <1>8 DEF TypeOK, Wait, ReqSteps
<1>9. CASE Leave(c)
  BY <1>2, <1>9 DEF TypeOK, Leave, Spend, LimitNames, ReqSteps
<1>10. CASE Ended(c)
  BY <1>2, <1>3, <1>10, LatchType DEF TypeOK, Ended, ReqSteps
<1>11. CASE Verdict(c)
  BY <1>2, <1>11 DEF TypeOK, Verdict, ReqSteps
<1> QED BY <1>1, <1>4, <1>5, <1>6, <1>7, <1>8, <1>9, <1>10, <1>11 DEF Request

\* So do the steps of a head and its process.
LEMMA HeadType ==
  ASSUME TypeOK, NEW h \in Heads,
         Launch(h) \/ AddWatch(h) \/ Watch(h) \/ Tick(h) \/ Finish(h) \/ Process(h)
  PROVE  TypeOK'
<1>0. hd \in [Heads -> HeadRecords] /\ sess \in SessRecords
  BY DEF TypeOK
<1>1. ASSUME NEW r \in Reasons, setStopReason(h, r) PROVE sess' \in SessRecords
  BY <1>0, <1>1 DEF setStopReason, SessRecords
<1>2. CASE Launch(h)
  <2>1. hd' \in [Heads -> HeadRecords]
    <3>1. \/ hd' = [hd EXCEPT ![h].pc = "started", ![h].proc = "running"]
          \/ hd' = [hd EXCEPT ![h].pc = "ending"]
      BY <1>2 DEF Launch
    <3> QED BY <1>0, <3>1 DEF HeadRecords, HeadSteps, Procs
  <2> QED BY <1>2, <2>1 DEF TypeOK, Launch, Spend, LimitNames, HeadFrame
<1>3. CASE AddWatch(h)
  <2>1. hd' \in [Heads -> HeadRecords]
    <3>1. \/ hd' = [hd EXCEPT ![h].pc = "watch", ![h].watching = TRUE]
          \/ hd' = [hd EXCEPT ![h].pc = "watch"]
      BY <1>3 DEF AddWatch
    <3> QED BY <1>0, <3>1 DEF HeadRecords, HeadSteps
  <2> QED BY <1>3, <2>1 DEF TypeOK, AddWatch, Spend, LimitNames, HeadFrame
<1>4. CASE Event(h)
  <2> DEFINE i == Head(hd[h].events)
             completed == i > hd[h].start /\ i + 1 \in Segs /\ IsSegmentReady(i + 1)
             stop == hd[h].cancelled \/ completed
             pc == IF ~hd[h].suspended /\ headExceedsLeadCap(i) THEN "suspend" ELSE "watch"
  <2>1. hd[h].events \in Seq(Segs) /\ hd[h].events # <<>>
    BY <1>0, <1>4 DEF Event, HeadRecords, Queues
  <2>2. i \in Segs /\ Tail(hd[h].events) \in Queues
    BY <2>1 DEF Queues
  <2>3. hd' \in [Heads -> HeadRecords]
    <3> DEFINE r == [hd[h] EXCEPT !.events = Tail(hd[h].events), !.cur = i, !.cancelled = stop,
                                  !.pc = pc]
    <3>1. hd' = [hd EXCEPT ![h] = r]
      BY <1>4, Zenon DEF Event
    <3>2. stop \in BOOLEAN /\ pc \in HeadSteps /\ i \in Cursors
      BY <1>0, <2>2, SizesAssumption DEF HeadRecords, HeadSteps, Segs, Cursors
    <3>3. hd[h] \in HeadRecords
      BY <1>0
    <3>4. r \in HeadRecords
      <4> HIDE DEF i, stop, pc
      <4> QED BY <2>2, <3>2, <3>3, Zenon DEF HeadRecords
    <3> HIDE DEF r
    <3> QED BY <1>0, <3>1, <3>4
  <2>4. sess' \in SessRecords
    BY <1>1, <1>4 DEF Event, TypeOK, Reasons
  <2> QED BY <1>4, <2>3, <2>4, LatchType DEF Event, TypeOK, HeadFrame
<1>5. CASE Suspend(h)
  <2>1. hd' \in [Heads -> HeadRecords]
    <3>1. \/ hd' = [hd EXCEPT ![h].pc = "mark", ![h].proc = "stopped"]
          \/ hd' = [hd EXCEPT ![h].pc = "watch", ![h].cancelled = TRUE]
      BY <1>5 DEF Suspend
    <3> QED BY <1>0, <3>1 DEF HeadRecords, HeadSteps, Procs
  <2>2. sess' \in SessRecords
    BY <1>1, <1>5 DEF Suspend, TypeOK, Reasons
  <2> QED BY <1>5, <2>1, <2>2 DEF TypeOK, Suspend, HeadFrame
<1>6. CASE MarkSuspended(h)
  <2>1. hd' \in [Heads -> HeadRecords]
    <3>1. \/ hd' = [hd EXCEPT ![h].pc = "watch", ![h].suspended = TRUE]
          \/ hd' = [hd EXCEPT ![h].pc = "watch", ![h].suspended = FALSE]
      <4>1. CASE sess.head = h
        BY <1>6, <4>1, Zenon DEF MarkSuspended
      <4>2. CASE sess.head # h
        BY <1>6, <4>2, Zenon DEF MarkSuspended
      <4> QED BY <4>1, <4>2
    <3> QED BY <1>0, <3>1 DEF HeadRecords, HeadSteps
  <2>2. sess' \in SessRecords
    BY <1>1, <1>6 DEF MarkSuspended, TypeOK, Reasons
  <2> QED BY <1>6, <2>1, <2>2 DEF TypeOK, MarkSuspended, HeadFrame
<1>7. ASSUME NEW pc \in HeadSteps, reconcileSegments(h, pc)
      PROVE  hd' \in [Heads -> HeadRecords]
  <2>1. PICK j \in Last(OwnRun(h) \cup {hd[h].cur}) : hd' = [hd EXCEPT ![h].pc = pc, ![h].cur = j]
    BY <1>7 DEF reconcileSegments
  <2>2. hd[h].cur \in Cursors
    BY <1>0 DEF HeadRecords
  <2>3. j \in Cursors
    BY <2>2, SizesAssumption DEF Last, OwnRun, Segs, Cursors
  <2> QED BY <1>0, <2>1, <2>3 DEF HeadRecords
<1>8. CASE Tick(h) \/ Stopped(h)
  <2>1. hd' \in [Heads -> HeadRecords]
    BY <1>7, <1>8 DEF Tick, Stopped, HeadSteps
  <2> QED BY <1>8, <2>1, LatchType DEF TypeOK, Tick, Stopped, reconcileSegments, HeadFrame
<1>9. CASE Finish(h)
  <2>1. sess' \in SessRecords
    BY <1>1, <1>9 DEF Finish, TypeOK, Reasons
  <2> QED BY <1>9, <2>1, Records DEF TypeOK, Finish, HeadFrame
<1>10. CASE Encode(h)
  <2>1. hd[h].next \in Segs /\ hd[h].next + 1 \in Positions
    <3>1. hd[h].next \in Segs
      BY <1>10 DEF Encode
    <3> QED BY <3>1, SizesAssumption DEF Segs, Positions
  <2>2. ASSUME NEW g \in Heads PROVE Append(hd[g].events, hd[h].next) \in Queues
    <3>1. hd[g].events \in Seq(Segs)
      BY <1>0 DEF HeadRecords, Queues
    <3> QED BY <2>1, <3>1 DEF Queues
  <2>3. hd' \in [Heads -> HeadRecords]
    <3>1. hd' = [g \in Heads |-> [hd[g] EXCEPT
                   !.events = IF hd[g].watching THEN Append(@, hd[h].next) ELSE @,
                   !.next = IF g = h THEN @ + 1 ELSE @]]
      BY <1>10 DEF Encode
    <3>2. ASSUME NEW g \in Heads
          PROVE  [hd[g] EXCEPT
                    !.events = IF hd[g].watching THEN Append(@, hd[h].next) ELSE @,
                    !.next = IF g = h THEN @ + 1 ELSE @] \in HeadRecords
      <4>1. hd[g] \in HeadRecords
        BY <1>0
      <4>2. hd[g].events \in Queues /\ hd[g].next \in Positions
        BY <4>1 DEF HeadRecords
      <4>3. PICK q \in Queues : q = IF hd[g].watching THEN Append(hd[g].events, hd[h].next)
                                                      ELSE hd[g].events
        BY <2>2, <4>2
      <4>4. PICK n \in Positions : n = IF g = h THEN hd[g].next + 1 ELSE hd[g].next
        BY <2>1, <4>2
      <4>5. [hd[g] EXCEPT !.events = q, !.next = n] \in HeadRecords
        BY <4>1 DEF HeadRecords
      <4> QED BY <4>3, <4>4, <4>5
    <3> QED BY <3>1, <3>2, Zenon
  <2> QED BY <1>10, <2>1, <2>3 DEF Encode, TypeOK
<1>11. CASE ProcEnds(h)
  <2>1. hd' \in [Heads -> HeadRecords]
    <3>1. hd' = [hd EXCEPT ![h].proc = "exited"]
      BY <1>11 DEF ProcEnds
    <3> QED BY <1>0, <3>1 DEF HeadRecords, Procs
  <2> QED BY <1>11, <2>1 DEF TypeOK, ProcEnds, Spend, LimitNames, HeadFrame
<1> QED BY <1>2, <1>3, <1>4, <1>5, <1>6, <1>8, <1>9, <1>10, <1>11 DEF Watch, Process

\* And so does the end of the session and the loss of a segment.
LEMMA DisposeType ==
  ASSUME TypeOK, KillBegin \/ Dispose \/ \E i \in Segs : Vanish(i)
  PROVE  TypeOK'
<1>1. CASE KillBegin
  <2>1. [sess EXCEPT !.closed = TRUE] \in SessRecords
    BY DEF TypeOK, SessRecords
  <2>4. left' \in [LimitNames -> Nat] /\ UNCHANGED <<latch, disk, req, made>>
    BY <1>1 DEF KillBegin, Spend, LimitNames, TypeOK
  <2>2. CASE sess.head = NoHead
    BY <1>1, <2>1, <2>2, <2>4 DEF TypeOK, KillBegin
  <2>3. CASE sess.head # NoHead
    <3>1. sess.head \in Heads /\ [sess EXCEPT !.closed = TRUE].head = sess.head
      BY <2>3 DEF TypeOK, SessRecords
    <3>2. /\ Detach(hd, [sess EXCEPT !.closed = TRUE])
          /\ killer' = [pc |-> "wait", head |-> sess.head]
      BY <1>1, <2>3 DEF KillBegin
    <3>3. hd' \in [Heads -> HeadRecords] /\ sess' \in SessRecords
      BY <2>1, <3>1, <3>2, DetachType DEF TypeOK
    <3> QED BY <2>4, <3>1, <3>2, <3>3 DEF TypeOK
  <2> QED BY <2>2, <2>3
<1>2. CASE Dispose
  BY <1>2 DEF TypeOK, Dispose, KillEnds, RemoveOutput
<1>3. CASE \E i \in Segs : Vanish(i)
  BY <1>3 DEF TypeOK, Vanish, Spend, LimitNames
<1> QED BY <1>1, <1>2, <1>3

\* Every step keeps the types.
LEMMA TypeStep == TypeOK /\ [Next]_vars => TypeOK'
<1> SUFFICES ASSUME TypeOK, [Next]_vars PROVE TypeOK'
  OBVIOUS
<1>1. CASE UNCHANGED vars
  BY <1>1 DEF vars, TypeOK
<1>2. CASE Next
  BY <1>2, RequestType, HeadType, DisposeType DEF Next
<1> QED BY <1>1, <1>2

\* A session that nobody has asked yet is well formed.
LEMMA TypeInit == Init => TypeOK
BY Records, LimitsAssumption DEF Init, TypeOK, SessRecords, Reasons

\* TypeOK holds of every reachable state of a session.
THEOREM TypeCorrect == Spec => []TypeOK
BY TypeInit, TypeStep, PTL DEF Spec

-----------------------------------------------------------------------------
(***************************************************************************)
(* One encoder, and a stop reason that is about it.  Both speak of the     *)
(* current head and of how far each head has come; they are inductive      *)
(* together with TypeOK, because a head is installed only when there is    *)
(* none and detached only with its context cancelled.                      *)
(***************************************************************************)
\* What OneEncoder and StatusFollowsHead say of heads H and session s.
Encoders(H, s) == \A g \in Heads : H[g].pc # "done" /\ s.head # g => H[g].cancelled
Status(H, s) == s.head # NoHead /\ H[s.head].pc # "done" =>
  \/ s.reason = "running" \/ H[s.head].cancelled
  \/ s.reason = "lead_cap" /\ H[s.head].suspended
EncoderInv == OneEncoder /\ StatusFollowsHead

\* The invariant, said of the heads and the session as values.
LEMMA EncoderForm ==
  /\ Encoders(hd, sess) /\ Status(hd, sess) <=> EncoderInv
  /\ (Encoders(hd', sess') /\ Status(hd', sess')) <=> EncoderInv'
BY DEF Encoders, Status, EncoderInv, OneEncoder, StatusFollowsHead, Done

\* Detaching a head leaves it cancelled and the session without one.
LEMMA DetachKeeps ==
  ASSUME NEW STATE H, NEW STATE s,
         H \in [Heads -> HeadRecords], s \in SessRecords, s.head \in Heads,
         Encoders(H, s), Detach(H, s)
  PROVE  EncoderInv'
<1>1. /\ hd' = [H EXCEPT ![s.head].cancelled = TRUE]
      /\ sess' = [s EXCEPT !.head = NoHead, !.reason = "killed"]
  BY DEF Detach
<1>2. sess'.head = NoHead
  BY <1>1 DEF SessRecords
<1>3. /\ hd'[s.head].cancelled
      /\ \A g \in Heads : g # s.head => hd'[g] = H[g]
  BY <1>1 DEF HeadRecords
<1>4. Encoders(hd', sess') /\ Status(hd', sess')
  BY <1>2, <1>3 DEF Encoders, Status
<1> QED BY <1>4, EncoderForm

\* Settling a request on heads that fit leaves heads that fit.
LEMMA SettleKeeps ==
  ASSUME NEW c \in Clients, NEW STATE H, NEW STATE s,
         H \in [Heads -> HeadRecords], s \in SessRecords,
         s.head \in Heads, Encoders(H, s), Status(H, s), Settle(c, H, s)
  PROVE  EncoderInv'
<1>1. CASE NeedsNewHead(H[s.head], req[c].idx)
  BY <1>1, DetachKeeps DEF Settle
<1>2. CASE ~NeedsNewHead(H[s.head], req[c].idx)
  BY <1>2, EncoderForm DEF Settle
<1> QED BY <1>1, <1>2

\* So does placing one.
LEMMA PlaceKeeps ==
  ASSUME TypeOK, EncoderInv, NEW c \in Clients, Place(c)
  PROVE  EncoderInv'
<1>1. ASSUME sess.head = NoHead, NEW h \in Unknown(c), Spawn(c, h) PROVE EncoderInv'
  <2> DEFINE H == [hd EXCEPT ![h] = NewHead(req[c].idx)]
             s == [sess EXCEPT !.head = h, !.reason = "running"]
  <2>1. h \in Heads /\ req[c].idx \in Segs
    BY <1>1 DEF Unknown, TypeOK, ReqRecords
  <2>2. H \in [Heads -> HeadRecords]
    BY <2>1, Records DEF TypeOK
  <2>3. s \in SessRecords /\ s.head = h /\ s.reason = "running"
    BY <2>1 DEF TypeOK, SessRecords, Reasons
  <2>4. \A g \in Heads : g # h => H[g] = hd[g]
    BY DEF TypeOK
  <2>5. \A g \in Heads : hd[g].pc # "done" => hd[g].cancelled
    BY <1>1, SizesAssumption DEF EncoderInv, OneEncoder, Done
  <2>6. Settle(c, H, s)
    BY <1>1 DEF Spawn
  <2> HIDE DEF H, s
  <2>7. Encoders(H, s) /\ Status(H, s)
    BY <2>3, <2>4, <2>5 DEF Encoders, Status
  <2> QED BY <2>1, <2>2, <2>3, <2>6, <2>7, SettleKeeps
<1>2. CASE sess.head # NoHead /\ Settle(c, hd, sess)
  BY <1>2, EncoderForm, SettleKeeps DEF TypeOK, SessRecords
<1> QED BY <1>1, <1>2 DEF Place

\* No request leaves two encoders, or a reason that is not the current head's.
LEMMA RequestKeeps ==
  ASSUME TypeOK, EncoderInv, NEW c \in Clients,
         Request(c) \/ Leave(c) \/ \E i \in Segs : Begin(c, i)
  PROVE  EncoderInv'
<1> DEFINE Same == hd' = hd /\ sess'.head = sess.head /\ sess'.reason = sess.reason
<1>1. ASSUME Same PROVE EncoderInv'
  BY <1>1 DEF EncoderInv, OneEncoder, StatusFollowsHead, Done
<1>2. ASSUME NEW i \in Segs, Begin(c, i) PROVE EncoderInv'
  <2>1. sess' = sess \/ sess' = [sess EXCEPT !.last = i]
    BY <1>2 DEF Begin
  <2>2. sess'.head = sess.head /\ sess'.reason = sess.reason
    BY <2>1 DEF TypeOK, SessRecords
  <2> QED BY <1>1, <1>2, <2>2 DEF Begin
<1>3. CASE Check(c) \/ Reset(c) \/ Wait(c) \/ Leave(c) \/ Ended(c) \/ Verdict(c)
  BY <1>1, <1>3 DEF Check, Reset, Wait, Leave, Ended, Verdict
<1>4. CASE Loop(c)
  <2>1. CASE UNCHANGED <<sess, hd>>
    BY <1>1, <2>1
  <2>2. CASE Place(c)
    BY <2>2, PlaceKeeps
  <2>3. CASE /\ Resumable(c)
             /\ Settle(c, [hd EXCEPT ![sess.head].suspended = FALSE, ![sess.head].proc = "running"],
                          [sess EXCEPT !.reason = "running"])
    <3> DEFINE H == [hd EXCEPT ![sess.head].suspended = FALSE, ![sess.head].proc = "running"]
               s == [sess EXCEPT !.reason = "running"]
    <3>1. sess.head \in Heads
      BY <2>3 DEF Resumable, TypeOK, SessRecords
    <3>2. hd \in [Heads -> HeadRecords]
      BY DEF TypeOK
    <3>3. H \in [Heads -> HeadRecords]
      BY <3>1, <3>2 DEF HeadRecords, Procs
    <3>4. s \in SessRecords /\ s.head = sess.head /\ s.reason = "running"
      BY <3>1 DEF TypeOK, SessRecords, Reasons
    <3>5. \A g \in Heads : H[g].pc = hd[g].pc /\ H[g].cancelled = hd[g].cancelled
      BY <3>1, <3>2 DEF HeadRecords
    <3>6. Settle(c, H, s)
      BY <2>3
    <3> HIDE DEF H, s
    <3>7. Encoders(H, s) /\ Status(H, s)
      BY <3>4, <3>5 DEF Encoders, Status, EncoderInv, OneEncoder, Done
    <3> QED BY <3>1, <3>3, <3>4, <3>6, <3>7, SettleKeeps
  <2>4. CASE Resumable(c) /\ Detach(hd, sess)
    BY <2>4, EncoderForm, DetachKeeps DEF Resumable, TypeOK, SessRecords
  <2> QED BY <1>4, <2>1, <2>2, <2>3, <2>4 DEF Loop
<1>5. CASE Killed(c)
  BY <1>5, PlaceKeeps DEF Killed, Replace
<1> QED BY <1>2, <1>3, <1>4, <1>5 DEF Request

\* A head's own steps: it never takes a cancellation back, and it touches the
\* stop reason only while it is the current one.
LEMMA HeadKeeps ==
  ASSUME TypeOK, EncoderInv, NEW h \in Heads,
         Launch(h) \/ AddWatch(h) \/ Watch(h) \/ Tick(h) \/ Finish(h) \/ Process(h)
  PROVE  EncoderInv'
<1>0. hd \in [Heads -> HeadRecords]
  BY DEF TypeOK
<1>s. sess \in SessRecords
  BY DEF TypeOK
<1>n. h # NoHead
  BY SizesAssumption
\* A step that keeps the session and the cancellations, and brings no head back.
<1>1. ASSUME sess' = sess,
             \A g \in Heads : /\ hd[g].pc = "done" => hd'[g].pc = "done"
                              /\ hd[g].cancelled => hd'[g].cancelled
                              /\ hd[g].suspended => hd'[g].suspended
      PROVE  EncoderInv'
  BY <1>1, <1>s DEF EncoderInv, OneEncoder, StatusFollowsHead, Done, SessRecords
\* A step that sets the reason, on behalf of a head that it cancels, ends, or
\* has suspended.
<1>2. ASSUME NEW r \in Reasons, setStopReason(h, r), hd[h].pc # "done",
             \A g \in Heads : g # h => hd'[g] = hd[g],
             hd[h].cancelled => hd'[h].cancelled \/ hd'[h].pc = "done",
             \/ hd'[h].cancelled \/ hd'[h].pc = "done"
             \/ sess.head = h => r = "lead_cap" /\ hd'[h].suspended
      PROVE  EncoderInv'
  <2>1. sess'.head = sess.head /\ (sess.head # h => sess' = sess)
    BY <1>2, <1>s DEF setStopReason, SessRecords
  <2>2. sess.head = h => sess'.reason = r
    BY <1>2, <1>s DEF setStopReason, SessRecords
  <2>3. OneEncoder'
    BY <1>2, <2>1 DEF EncoderInv, OneEncoder, Done
  <2>4. StatusFollowsHead'
    BY <1>2, <1>s, <2>1, <2>2 DEF EncoderInv, StatusFollowsHead, Done, SessRecords
  <2> QED BY <2>3, <2>4 DEF EncoderInv
<1>3. CASE Launch(h) \/ AddWatch(h) \/ ProcEnds(h)
  <2>1. sess' = sess
    BY <1>3 DEF Launch, AddWatch, ProcEnds
  <2>2. \A g \in Heads : g # h => hd'[g] = hd[g]
    BY <1>0, <1>3 DEF Launch, AddWatch, ProcEnds
  <2>3. hd'[h].cancelled = hd[h].cancelled /\ hd'[h].suspended = hd[h].suspended
    BY <1>0, <1>3 DEF Launch, AddWatch, ProcEnds, HeadRecords
  <2>4. hd[h].pc = "done" => hd'[h].pc = "done"
    BY <1>0, <1>3 DEF Launch, AddWatch, ProcEnds, HeadRecords
  <2> QED BY <1>1, <2>1, <2>2, <2>3, <2>4
<1>4. CASE Encode(h)
  <2>1. sess' = sess
    BY <1>4 DEF Encode
  <2>2. hd' = [g \in Heads |-> [hd[g] EXCEPT
                !.events = IF hd[g].watching THEN Append(@, hd[h].next) ELSE @,
                !.next = IF g = h THEN @ + 1 ELSE @]]
    BY <1>4 DEF Encode
  <2>3. \A g \in Heads : /\ hd'[g].pc = hd[g].pc /\ hd'[g].cancelled = hd[g].cancelled
                         /\ hd'[g].suspended = hd[g].suspended
    BY <1>0, <2>2 DEF HeadRecords
  <2> QED BY <1>1, <2>1, <2>3
<1>5. CASE Tick(h) \/ Stopped(h)
  <2>1. sess' = sess
    BY <1>5 DEF Tick, Stopped
  <2>2. PICK j, pc : hd' = [hd EXCEPT ![h].pc = pc, ![h].cur = j]
    BY <1>5 DEF Tick, Stopped, reconcileSegments
  <2>3. hd[h].pc # "done"
    BY <1>5 DEF Tick, Stopped
  <2>4. \A g \in Heads : g # h => hd'[g] = hd[g]
    BY <1>0, <2>2
  <2>5. hd'[h].cancelled = hd[h].cancelled /\ hd'[h].suspended = hd[h].suspended
    BY <1>0, <2>2 DEF HeadRecords
  <2> QED BY <1>1, <2>1, <2>3, <2>4, <2>5
<1>6. CASE Event(h)
  <2> DEFINE r == hd[h]
             i == Head(r.events)
             completed == i > r.start /\ i + 1 \in Segs /\ IsSegmentReady(i + 1)
             quit == r.cancelled \/ completed
             pc == IF ~r.suspended /\ headExceedsLeadCap(i) THEN "suspend" ELSE "watch"
  <2>1. hd' = [hd EXCEPT ![h] = [r EXCEPT !.events = Tail(r.events), !.cur = i,
                                          !.cancelled = quit, !.pc = pc]]
    BY <1>6 DEF Event
  <2>2. hd[h].pc # "done" /\ IF completed THEN setStopReason(h, "completed") ELSE UNCHANGED sess
    BY <1>6 DEF Event
  <2>3. quit = (r.cancelled \/ completed)
    OBVIOUS
  <2> HIDE DEF quit, completed, pc
  <2>4. /\ \A g \in Heads : g # h => hd'[g] = hd[g]
        /\ hd'[h].cancelled = quit /\ hd'[h].suspended = hd[h].suspended
    BY <1>0, <2>1 DEF HeadRecords
  <2>5. CASE completed
    BY <1>2, <2>2, <2>3, <2>4, <2>5 DEF Reasons
  <2>6. CASE ~completed
    BY <1>1, <2>2, <2>3, <2>4, <2>6
  <2> QED BY <2>5, <2>6
<1>7. CASE Suspend(h)
  <2>1. CASE hd' = [hd EXCEPT ![h].pc = "mark", ![h].proc = "stopped"] /\ sess' = sess
    <3>1. /\ \A g \in Heads : g # h => hd'[g] = hd[g]
          /\ hd'[h].cancelled = hd[h].cancelled /\ hd'[h].suspended = hd[h].suspended
      BY <1>0, <2>1 DEF HeadRecords
    <3>2. hd[h].pc # "done"
      BY <1>7 DEF Suspend
    <3> QED BY <1>1, <2>1, <3>1, <3>2
  <2>2. CASE hd' = [hd EXCEPT ![h].pc = "watch", ![h].cancelled = TRUE]
             /\ setStopReason(h, "lead_cap")
    <3>1. (\A g \in Heads : g # h => hd'[g] = hd[g]) /\ hd'[h].cancelled
      BY <1>0, <2>2 DEF HeadRecords
    <3>2. hd[h].pc # "done"
      BY <1>7 DEF Suspend
    <3> QED BY <1>2, <2>2, <3>1, <3>2 DEF Reasons
  <2> QED BY <1>7, <2>1, <2>2 DEF Suspend
<1>8. CASE MarkSuspended(h)
  <2>1. hd' = [hd EXCEPT ![h].pc = "watch", ![h].suspended = (sess.head = h)]
    BY <1>8 DEF MarkSuspended
  <2>2. setStopReason(h, "lead_cap") /\ hd[h].pc # "done"
    BY <1>8 DEF MarkSuspended
  <2>3. \A g \in Heads : g # h => hd'[g] = hd[g]
    BY <1>0, <2>1
  <2>4. hd'[h].cancelled = hd[h].cancelled /\ hd'[h].suspended = (sess.head = h)
    BY <1>0, <2>1 DEF HeadRecords
  <2> QED BY <1>2, <2>2, <2>3, <2>4 DEF Reasons
<1>9. CASE Finish(h)
  <2>1. (\A g \in Heads : g # h => hd'[g] = hd[g]) /\ hd'[h].pc = "done"
    BY <1>0, <1>9 DEF Finish, Over, NewHead
  <2>2. hd[h].pc # "done"
    BY <1>9 DEF Finish
  <2>3. CASE setStopReason(h, "exited")
    BY <1>2, <2>1, <2>2, <2>3 DEF Reasons
  <2>4. CASE UNCHANGED sess
    BY <2>1, <2>2, <2>4, <1>s DEF EncoderInv, OneEncoder, StatusFollowsHead, Done, SessRecords
  <2> QED BY <1>9, <2>3, <2>4 DEF Finish
<1> QED BY <1>3, <1>4, <1>5, <1>6, <1>7, <1>8, <1>9 DEF Watch, Process

\* The manager: a head it takes away from the session is cancelled.
LEMMA DisposeKeeps ==
  ASSUME TypeOK, EncoderInv, KillBegin \/ Dispose \/ \E i \in Segs : Vanish(i)
  PROVE  EncoderInv'
<1>1. ASSUME hd' = hd, sess'.head = sess.head, sess'.reason = sess.reason PROVE EncoderInv'
  BY <1>1 DEF EncoderInv, OneEncoder, StatusFollowsHead, Done
<1>2. CASE Dispose \/ \E i \in Segs : Vanish(i)
  BY <1>1, <1>2 DEF Dispose, KillEnds, RemoveOutput, Vanish
<1>3. CASE KillBegin
  <2>1. CASE sess.head = NoHead
    <3>1. sess' = [sess EXCEPT !.closed = TRUE] /\ hd' = hd
      BY <1>3, <2>1 DEF KillBegin
    <3>2. sess'.head = sess.head /\ sess'.reason = sess.reason
      BY <3>1 DEF TypeOK, SessRecords
    <3> QED BY <1>1, <3>1, <3>2
  <2>2. CASE sess.head # NoHead
    <3> DEFINE s == [sess EXCEPT !.closed = TRUE]
    <3>1. Detach(hd, s)
      BY <1>3, <2>2 DEF KillBegin
    <3>2. s \in SessRecords /\ s.head = sess.head
      BY DEF TypeOK, SessRecords
    <3>3. s.head \in Heads
      BY <2>2, <3>2 DEF SessRecords
    <3> HIDE DEF s
    <3>4. Encoders(hd, s)
      BY <3>2 DEF EncoderInv, OneEncoder, Encoders, Done
    <3> QED BY <3>1, <3>2, <3>3, <3>4, DetachKeeps DEF TypeOK
  <2> QED BY <2>1, <2>2
<1> QED BY <1>2, <1>3

\* EncoderInv holds in every state of every behaviour.
THEOREM EncoderTheorem == Spec => []EncoderInv
<1>1. Init => EncoderInv
  <2>1. Over.pc = "done"
    BY DEF Over, NewHead
  <2> QED BY <2>1, SizesAssumption DEF Init, EncoderInv, OneEncoder, StatusFollowsHead, Done
<1>2. TypeOK /\ EncoderInv /\ [Next]_vars => EncoderInv'
  <2> SUFFICES ASSUME TypeOK, EncoderInv, [Next]_vars PROVE EncoderInv'
    OBVIOUS
  <2>1. CASE UNCHANGED vars
    BY <2>1 DEF vars, EncoderInv, OneEncoder, StatusFollowsHead, Done
  <2>2. CASE Next
    BY <2>2, RequestKeeps, HeadKeeps, DisposeKeeps DEF Next
  <2> QED BY <2>1, <2>2
<1> QED BY <1>1, <1>2, TypeCorrect, PTL DEF Spec

\* Every head but the current one has been cancelled (session.go, the
\* needsNewHead loop), whatever requests race.
THEOREM OneEncoderHolds == Spec => []OneEncoder
BY EncoderTheorem, PTL DEF EncoderInv

\* The stop reason is the current head's (setStopReason's guard).
THEOREM StatusHolds == Spec => []StatusFollowsHead
BY EncoderTheorem, PTL DEF EncoderInv

-----------------------------------------------------------------------------
(***************************************************************************)
(* Latches.  A channel is closed for a segment that was flushed: from the  *)
(* directory or from a file event.  A channel that has been handed to a    *)
(* waiter is replaced only once it is closed.                              *)
(***************************************************************************)
Queued(H) == \A g \in Heads : \A n \in 1..Len(H[g].events) : H[g].events[n] \in made
FlushedKnown == disk \subseteq made /\ Queued(hd)
LatchInv == ReadyWasMade /\ FlushedKnown /\ WaiterHoldsLatch

\* Marking keeps the waiters' channels, and is sound for segments once made.
LEMMA MarkKeeps ==
  ASSUME TypeOK, WaiterHoldsLatch, ReadyWasMade, NEW S \in SUBSET made,
         markSegmentsReady(S), req' = req, made' = made
  PROVE  WaiterHoldsLatch' /\ ReadyWasMade'
<1>1. \A i \in Segs : /\ latch'[i].ch = latch[i].ch
                      /\ latch[i].closed \subseteq latch'[i].closed
                      /\ i \notin S => latch'[i] = latch[i]
  BY DEF markSegmentsReady, TypeOK
<1>2. \A c \in Clients : req[c].idx \in Segs
  BY DEF TypeOK, ReqRecords
<1>3. WaiterHoldsLatch'
  BY <1>1, <1>2 DEF WaiterHoldsLatch, isClosed
<1>4. ReadyWasMade'
  BY <1>1 DEF ReadyWasMade, IsSegmentReady, isClosed
<1> QED BY <1>3, <1>4

\* A closed channel that is replaced is nobody's open channel.
LEMMA ResetKeeps ==
  ASSUME TypeOK, WaiterHoldsLatch, ReadyWasMade, NEW i \in Segs, resetSegment(i),
         \A d \in Clients : req'[d] = req[d] \/ req'[d].pc # "wait", made' = made
  PROVE  WaiterHoldsLatch' /\ ReadyWasMade'
<1>1. CASE ~IsSegmentReady(i)
  BY <1>1 DEF resetSegment, WaiterHoldsLatch, ReadyWasMade, IsSegmentReady, isClosed
<1>2. CASE IsSegmentReady(i)
  <2>1. latch' = [latch EXCEPT ![i].ch = @ + 1]
    BY <1>2 DEF resetSegment
  <2>2. \A k \in Segs : latch'[k].closed = latch[k].closed /\ (k # i => latch'[k] = latch[k])
    BY <2>1 DEF TypeOK
  <2>3. latch[i].ch \in latch[i].closed /\ i \in made
    BY <1>2 DEF IsSegmentReady, isClosed, ReadyWasMade
  <2>4. \A c \in Clients : req[c].idx \in Segs
    BY DEF TypeOK, ReqRecords
  <2>5. WaiterHoldsLatch'
    BY <2>2, <2>3, <2>4 DEF WaiterHoldsLatch, isClosed
  <2>6. ReadyWasMade'
    BY <2>2, <2>3 DEF ReadyWasMade, IsSegmentReady, isClosed
  <2> QED BY <2>5, <2>6
<1> QED BY <1>1, <1>2

\* With the latches unchanged, a new waiter takes the current channel.
LEMMA JoinKeeps ==
  ASSUME WaiterHoldsLatch, ReadyWasMade, latch' = latch, made \subseteq made',
         \A d \in Clients : \/ req'[d] = req[d] \/ req'[d].pc # "wait"
                            \/ req'[d].ch = latch[req'[d].idx].ch
  PROVE  WaiterHoldsLatch' /\ ReadyWasMade'
BY DEF WaiterHoldsLatch, ReadyWasMade, IsSegmentReady, isClosed

\* Where requests go, and that they put no event into a head's queue.
LEMMA SettleJoins ==
  ASSUME TypeOK, NEW c \in Clients, NEW STATE H, NEW STATE s,
         H \in [Heads -> HeadRecords], s \in SessRecords, s.head \in Heads, Settle(c, H, s)
  PROVE  /\ \A d \in Clients : \/ req'[d] = req[d] \/ req'[d].pc # "wait"
                               \/ req'[d].ch = latch[req'[d].idx].ch
         /\ \A g \in Heads : hd'[g].events = H[g].events
<1>0. req \in [Clients -> ReqRecords]
  BY DEF TypeOK
<1>1. CASE NeedsNewHead(H[s.head], req[c].idx)
  <2>1. /\ req' = [req EXCEPT ![c].pc = "kill", ![c].head = s.head]
        /\ hd' = [H EXCEPT ![s.head].cancelled = TRUE]
    BY <1>1 DEF Settle, Detach
  <2>2. \A d \in Clients : req'[d] = req[d] \/ req'[d].pc # "wait"
    BY <1>0, <2>1 DEF ReqRecords
  <2>3. \A g \in Heads : hd'[g].events = H[g].events
    BY <2>1 DEF HeadRecords
  <2> QED BY <2>2, <2>3
<1>2. CASE ~NeedsNewHead(H[s.head], req[c].idx)
  <2>1. hd' = H /\ req' = [req EXCEPT ![c].pc = "wait", ![c].head = s.head,
                                      ![c].ch = latch[req[c].idx].ch]
    BY <1>2 DEF Settle
  <2>2. \A d \in Clients : d # c => req'[d] = req[d]
    BY <1>0, <2>1
  <2>3. req'[c].ch = latch[req'[c].idx].ch
    BY <1>0, <2>1 DEF ReqRecords
  <2> QED BY <2>1, <2>2, <2>3
<1> QED BY <1>1, <1>2

\* A request that is placed waits on the latch there is for its segment.
LEMMA PlaceJoins ==
  ASSUME TypeOK, Queued(hd), NEW c \in Clients, Place(c), made' = made
  PROVE  /\ \A d \in Clients : \/ req'[d] = req[d] \/ req'[d].pc # "wait"
                               \/ req'[d].ch = latch[req'[d].idx].ch
         /\ Queued(hd)'
<1>1. ASSUME NEW h \in Unknown(c), Spawn(c, h)
      PROVE  /\ \A d \in Clients : \/ req'[d] = req[d] \/ req'[d].pc # "wait"
                                   \/ req'[d].ch = latch[req'[d].idx].ch
             /\ Queued(hd)'
  <2> DEFINE H == [hd EXCEPT ![h] = NewHead(req[c].idx)]
             s == [sess EXCEPT !.head = h, !.reason = "running"]
  <2>1. h \in Heads /\ req[c].idx \in Segs
    BY <1>1 DEF Unknown, TypeOK, ReqRecords
  <2>2. H \in [Heads -> HeadRecords]
    BY <2>1, Records DEF TypeOK
  <2>3. s \in SessRecords /\ s.head = h
    BY <2>1 DEF TypeOK, SessRecords, Reasons
  <2>4. /\ \A g \in Heads : g # h => H[g] = hd[g]
        /\ H[h].events = <<>>
    BY <2>1 DEF TypeOK, NewHead
  <2>5. Settle(c, H, s)
    BY <1>1 DEF Spawn
  <2> HIDE DEF H, s
  <2>6. Queued(H)
    BY <2>4 DEF Queued
  <2>7. Queued(hd)'
    BY <2>1, <2>2, <2>3, <2>5, <2>6, SettleJoins DEF Queued
  <2> QED BY <2>1, <2>2, <2>3, <2>5, <2>7, SettleJoins
<1>2. CASE sess.head # NoHead /\ Settle(c, hd, sess)
  <2>1. hd \in [Heads -> HeadRecords] /\ sess \in SessRecords /\ sess.head \in Heads
    BY <1>2 DEF TypeOK, SessRecords
  <2>2. Queued(hd)'
    BY <1>2, <2>1, SettleJoins DEF Queued
  <2> QED BY <1>2, <2>1, <2>2, SettleJoins
<1> QED BY <1>1, <1>2 DEF Place

\* So does every step of a request.
LEMMA RequestLatches ==
  ASSUME TypeOK, LatchInv, NEW c \in Clients,
         Request(c) \/ Leave(c) \/ \E i \in Segs : Begin(c, i)
  PROVE  LatchInv'
<1>0. req \in [Clients -> ReqRecords] /\ req[c].idx \in Segs /\ made' = made /\ disk' = disk
  BY DEF TypeOK, ReqRecords, Request, Check, Reset, Loop, Killed, Wait, Ended, Verdict, Leave,
         Begin
\* Where a request goes when it does not go to wait.
<1>g. ASSUME Answer(c) \/ (\E pc \in ReqSteps \ {"wait"} : Goto(c, pc))
      PROVE  \A d \in Clients : req'[d] = req[d] \/ req'[d].pc # "wait"
  <2>1. CASE Answer(c)
    BY <1>0, <2>1 DEF Answer, Idle
  <2>2. ASSUME NEW pc \in ReqSteps \ {"wait"}, Goto(c, pc)
        PROVE  \A d \in Clients : req'[d] = req[d] \/ req'[d].pc # "wait"
    BY <1>0, <2>2 DEF Goto, ReqRecords
  <2> QED BY <1>g, <2>1, <2>2
<1>e. ASSUME NEW pc \in ReqSteps \ {"wait"}, req' = [req EXCEPT ![c].pc = pc]
      PROVE  \A d \in Clients : req'[d] = req[d] \/ req'[d].pc # "wait"
  BY <1>0, <1>e DEF ReqRecords
<1>1. ASSUME latch' = latch, hd' = hd,
             \A d \in Clients : req'[d] = req[d] \/ req'[d].pc # "wait"
      PROVE  LatchInv'
  BY <1>0, <1>1, JoinKeeps DEF LatchInv, FlushedKnown, Queued
<1>2. CASE Check(c)
  <2>1. Answer(c) \/ (\E pc \in ReqSteps \ {"wait"} : Goto(c, pc))
    BY <1>2 DEF Check, ReqSteps
  <2> QED BY <1>1, <1>2, <1>g, <2>1 DEF Check
<1>3. CASE Leave(c)
  BY <1>1, <1>3, <1>g DEF Leave
<1>4. CASE Wait(c)
  <2>1. CASE Answer(c) \/ Goto(c, "reset")
    BY <1>1, <1>4, <1>g, <2>1 DEF Wait, ReqSteps
  <2>2. CASE req' = [req EXCEPT ![c].pc = "ended"]
    BY <1>1, <1>4, <1>e, <2>2 DEF Wait, ReqSteps
  <2> QED BY <1>4, <2>1, <2>2 DEF Wait
<1>5. CASE Verdict(c)
  BY <1>1, <1>5, <1>g DEF Verdict, ReqSteps
<1>6. ASSUME NEW i \in Segs, Begin(c, i) PROVE LatchInv'
  <2>1. \A d \in Clients : req'[d] = req[d] \/ req'[d].pc # "wait"
    BY <1>0, <1>6 DEF Begin, Idle
  <2> QED BY <1>1, <1>6, <2>1 DEF Begin
<1>7. CASE Reset(c)
  <2>1. \A d \in Clients : req'[d] = req[d] \/ req'[d].pc # "wait"
    BY <1>7, <1>g DEF Reset, ReqSteps
  <2> QED BY <1>0, <1>7, <2>1, ResetKeeps DEF Reset, LatchInv, FlushedKnown, Queued
<1>8. CASE Ended(c)
  <2>1. CASE Answer(c) /\ UNCHANGED latch
    BY <1>1, <1>8, <1>g, <2>1 DEF Ended
  <2>2. CASE resetSegment(req[c].idx) /\ req' = [req EXCEPT ![c].pc = "verdict"]
    <3>1. \A d \in Clients : req'[d] = req[d] \/ req'[d].pc # "wait"
      BY <1>e, <2>2 DEF ReqSteps
    <3> QED BY <1>0, <1>8, <2>2, <3>1, ResetKeeps DEF Ended, LatchInv, FlushedKnown, Queued
  <2> QED BY <1>8, <2>1, <2>2 DEF Ended
<1>p. ASSUME Place(c), latch' = latch PROVE LatchInv'
  BY <1>0, <1>p, PlaceJoins, JoinKeeps DEF LatchInv, FlushedKnown
<1>9. CASE Loop(c)
  <2>0. latch' = latch
    BY <1>9 DEF Loop
  <2>1. CASE Answer(c) /\ hd' = hd
    BY <1>1, <1>g, <2>0, <2>1
  <2>2. CASE Place(c)
    BY <1>p, <2>0, <2>2
  <2>3. CASE /\ Resumable(c)
             /\ Settle(c, [hd EXCEPT ![sess.head].suspended = FALSE, ![sess.head].proc = "running"],
                          [sess EXCEPT !.reason = "running"])
    <3> DEFINE H == [hd EXCEPT ![sess.head].suspended = FALSE, ![sess.head].proc = "running"]
               s == [sess EXCEPT !.reason = "running"]
    <3>1. sess.head \in Heads /\ hd \in [Heads -> HeadRecords]
      BY <2>3 DEF Resumable, TypeOK, SessRecords
    <3>2. H \in [Heads -> HeadRecords]
      BY <3>1 DEF HeadRecords, Procs
    <3>e. \A g \in Heads : H[g].events = hd[g].events
      BY <3>1 DEF HeadRecords
    <3>3. s \in SessRecords /\ s.head \in Heads
      BY <3>1 DEF TypeOK, SessRecords, Reasons
    <3>4. Settle(c, H, s)
      BY <2>3
    <3> HIDE DEF H, s
    <3>5. Queued(hd)'
      BY <1>0, <3>2, <3>e, <3>3, <3>4, SettleJoins DEF LatchInv, FlushedKnown, Queued
    <3> QED BY <1>0, <2>0, <3>2, <3>3, <3>4, <3>5, SettleJoins, JoinKeeps
            DEF LatchInv, FlushedKnown
  <2>4. CASE /\ Resumable(c) /\ Detach(hd, sess)
             /\ req' = [req EXCEPT ![c].pc = "kill", ![c].head = sess.head]
    <3>1. \A d \in Clients : req'[d] = req[d] \/ req'[d].pc # "wait"
      BY <1>0, <2>4 DEF ReqRecords
    <3>2. \A g \in Heads : hd'[g].events = hd[g].events
      BY <2>4 DEF Detach, TypeOK, HeadRecords
    <3> QED BY <1>0, <2>0, <3>1, <3>2, JoinKeeps DEF LatchInv, FlushedKnown, Queued
  <2> QED BY <1>9, <2>1, <2>2, <2>3, <2>4 DEF Loop
<1>10. CASE Killed(c)
  BY <1>10, <1>p DEF Killed, Replace
<1> QED BY <1>2, <1>3, <1>4, <1>5, <1>6, <1>7, <1>8, <1>9, <1>10 DEF Request

\* A head closes latches for what is on disk or in its queue.
LEMMA HeadLatches ==
  ASSUME TypeOK, LatchInv, NEW h \in Heads,
         Launch(h) \/ AddWatch(h) \/ Watch(h) \/ Tick(h) \/ Finish(h) \/ Process(h)
  PROVE  LatchInv'
<1>0. hd \in [Heads -> HeadRecords] /\ disk \subseteq Segs /\ made \subseteq Segs
  BY DEF TypeOK
<1>r. req' = req
  BY DEF Launch, AddWatch, Watch, Event, Suspend, MarkSuspended, Stopped, Tick, Finish,
         Process, Encode, ProcEnds, HeadFrame
\* A step that closes no latch and adds nothing to a queue.
<1>1. ASSUME latch' = latch, disk' = disk, made' = made,
             \A g \in Heads : hd'[g].events = hd[g].events \/ hd'[g].events = <<>>
      PROVE  LatchInv'
  BY <1>1, <1>r, JoinKeeps DEF LatchInv, FlushedKnown, Queued
<1>2. CASE Launch(h) \/ AddWatch(h) \/ ProcEnds(h) \/ Suspend(h) \/ MarkSuspended(h)
  <2>1. latch' = latch /\ disk' = disk /\ made' = made
    BY <1>2 DEF Launch, AddWatch, ProcEnds, Suspend, MarkSuspended, HeadFrame
  <2>2. \A g \in Heads : g # h => hd'[g] = hd[g]
    BY <1>0, <1>2 DEF Launch, AddWatch, ProcEnds, Suspend, MarkSuspended
  <2>3. hd'[h].events = hd[h].events
    BY <1>0, <1>2 DEF Launch, AddWatch, ProcEnds, Suspend, MarkSuspended, HeadRecords
  <2> QED BY <1>1, <2>1, <2>2, <2>3
<1>3. CASE Finish(h)
  <2>1. Over.events = <<>>
    BY DEF Over, NewHead
  <2>2. \A g \in Heads : hd'[g].events = hd[g].events \/ hd'[g].events = <<>>
    BY <1>0, <1>3, <2>1 DEF Finish
  <2> QED BY <1>1, <1>3, <2>2 DEF Finish, HeadFrame
<1>4. CASE Tick(h) \/ Stopped(h)
  <2>1. disk' = disk /\ made' = made /\ markSegmentsReady(disk)
    BY <1>4 DEF Tick, Stopped, HeadFrame, reconcileSegments, OnDisk
  <2>2. PICK j, pc : hd' = [hd EXCEPT ![h].pc = pc, ![h].cur = j]
    BY <1>4 DEF Tick, Stopped, reconcileSegments
  <2>3. \A g \in Heads : hd'[g].events = hd[g].events
    BY <1>0, <2>2 DEF HeadRecords
  <2> QED BY <1>r, <2>1, <2>3, MarkKeeps DEF LatchInv, FlushedKnown, Queued
<1>5. CASE Event(h)
  <2> DEFINE r == hd[h]
             i == Head(r.events)
             quit == r.cancelled \/ (i > r.start /\ i + 1 \in Segs /\ IsSegmentReady(i + 1))
             pc == IF ~r.suspended /\ headExceedsLeadCap(i) THEN "suspend" ELSE "watch"
  <2>1. hd' = [hd EXCEPT ![h] = [r EXCEPT !.events = Tail(r.events), !.cur = i,
                                          !.cancelled = quit, !.pc = pc]]
    BY <1>5 DEF Event
  <2>2. /\ markSegmentsReady({i}) /\ disk' = disk /\ made' = made
        /\ r.events # <<>> /\ r.events \in Seq(Segs)
    BY <1>0, <1>5 DEF Event, HeadFrame, HeadRecords, Queues
  <2> HIDE DEF quit, pc
  <2>3. /\ \A g \in Heads : g # h => hd'[g] = hd[g]
        /\ hd'[h].events = Tail(hd[h].events)
    BY <1>0, <2>1 DEF HeadRecords
  <2>4. i \in made
    BY <2>2 DEF LatchInv, FlushedKnown, Queued
  <2>5. \A n \in 1..Len(Tail(r.events)) : Tail(r.events)[n] \in made
    BY <2>2 DEF LatchInv, FlushedKnown, Queued
  <2>6. Queued(hd)'
    BY <2>2, <2>3, <2>5 DEF LatchInv, FlushedKnown, Queued
  <2> QED BY <1>r, <2>2, <2>4, <2>6, MarkKeeps DEF LatchInv, FlushedKnown
<1>6. CASE Encode(h)
  <2>1. /\ disk' = disk \cup {hd[h].next} /\ made' = made \cup {hd[h].next} /\ latch' = latch
        /\ hd' = [g \in Heads |-> [hd[g] EXCEPT
              !.events = IF hd[g].watching THEN Append(@, hd[h].next) ELSE @,
              !.next = IF g = h THEN @ + 1 ELSE @]]
    BY <1>6 DEF Encode
  <2>2. \A g \in Heads : \/ hd'[g].events = hd[g].events
                         \/ hd'[g].events = Append(hd[g].events, hd[h].next)
    BY <1>0, <2>1 DEF HeadRecords
  <2>3. \A g \in Heads : hd[g].events \in Seq(Segs)
    BY <1>0 DEF HeadRecords, Queues
  <2>4. ASSUME NEW g \in Heads, NEW n \in 1..Len(hd'[g].events) PROVE hd'[g].events[n] \in made'
    <3>1. hd[h].next \in made' /\ \A m \in 1..Len(hd[g].events) : hd[g].events[m] \in made'
      BY <2>1 DEF LatchInv, FlushedKnown, Queued
    <3>2. CASE hd'[g].events = hd[g].events
      BY <2>4, <3>1, <3>2
    <3>3. CASE hd'[g].events = Append(hd[g].events, hd[h].next)
      BY <2>3, <2>4, <3>1, <3>3
    <3> QED BY <2>2, <3>2, <3>3
  <2>5. FlushedKnown'
    BY <2>1, <2>4 DEF FlushedKnown, Queued, LatchInv
  <2> QED BY <1>r, <2>1, <2>5, JoinKeeps DEF LatchInv
<1> QED BY <1>2, <1>3, <1>4, <1>5, <1>6 DEF Watch, Process

\* LatchInv holds in every state of every behaviour.
THEOREM LatchTheorem == Spec => []LatchInv
<1>1. Init => LatchInv
  <2> SUFFICES ASSUME Init PROVE LatchInv
    OBVIOUS
  <2>1. Over.events = <<>>
    BY DEF Over, NewHead
  <2>2. FlushedKnown
    BY <2>1 DEF Init, FlushedKnown, Queued
  <2>3. ReadyWasMade
    BY DEF Init, ReadyWasMade, IsSegmentReady, isClosed
  <2>4. WaiterHoldsLatch
    BY DEF Init, WaiterHoldsLatch, Idle
  <2> QED BY <2>2, <2>3, <2>4 DEF LatchInv
<1>2. TypeOK /\ LatchInv /\ [Next]_vars => LatchInv'
  <2> SUFFICES ASSUME TypeOK, LatchInv, [Next]_vars PROVE LatchInv'
    OBVIOUS
  <2>1. CASE UNCHANGED vars
    BY <2>1 DEF vars, LatchInv, ReadyWasMade, FlushedKnown, Queued, WaiterHoldsLatch,
                IsSegmentReady, isClosed
  <2>2. CASE KillBegin \/ Dispose \/ \E i \in Segs : Vanish(i)
    <3>1. latch' = latch /\ req' = req /\ made' = made /\ disk' \subseteq disk
      BY <2>2 DEF KillBegin, Dispose, KillEnds, RemoveOutput, Vanish
    <3>2. \A g \in Heads : hd'[g].events = hd[g].events
      <4>1. CASE hd' = hd
        BY <4>1
      <4>2. CASE hd' = [hd EXCEPT ![sess.head].cancelled = TRUE] /\ sess.head \in Heads
        BY <4>2 DEF TypeOK, HeadRecords
      <4>3. CASE KillBegin /\ sess.head # NoHead
        <5>1. hd' = [hd EXCEPT ![[sess EXCEPT !.closed = TRUE].head].cancelled = TRUE]
          BY <4>3 DEF KillBegin, Detach
        <5>2. [sess EXCEPT !.closed = TRUE].head = sess.head /\ sess.head \in Heads
          BY <4>3 DEF TypeOK, SessRecords
        <5> QED BY <4>2, <5>1, <5>2
      <4> QED BY <2>2, <4>1, <4>3 DEF KillBegin, Dispose, KillEnds, RemoveOutput, Vanish
    <3> QED BY <3>1, <3>2, JoinKeeps DEF LatchInv, FlushedKnown, Queued
  <2>3. CASE Next
    BY <2>2, <2>3, RequestLatches, HeadLatches DEF Next
  <2> QED BY <2>1, <2>3
<1> QED BY <1>1, <1>2, TypeCorrect, PTL DEF Spec

\* A closed latch means a segment that was flushed (markSegmentsReady's
\* callers: adoption, file events, reconciliation).
THEOREM ReadyHolds == Spec => []ReadyWasMade
BY LatchTheorem, PTL DEF LatchInv

\* A waiter's open channel is the one the next flush closes (resetSegment
\* replaces closed channels only).
THEOREM WaiterHolds == Spec => []WaiterHoldsLatch
BY LatchTheorem, PTL DEF LatchInv
=============================================================================
