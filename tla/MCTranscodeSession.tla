------------------------- MODULE MCTranscodeSession -------------------------
(* Small instances of TranscodeSession for TLC. *)
EXTENDS TranscodeSession, TLC

Limit(request, cancel, vanish, fault, kill) ==
  [n \in LimitNames |->
     CASE n = "request" -> request [] n = "cancel" -> cancel
       [] n = "vanish" -> vanish [] n = "fault" -> fault [] n = "kill" -> kill]

\* Two players race; the session is disposed and its output removed.
LimitsRace == Limit(2, 0, 0, 0, 1)
\* One player, and one of everything that can go wrong.
LimitsLive == Limit(2, 1, 1, 1, 1)

SlotsAreAlike == Permutations(Heads) \cup Permutations(Clients)
=============================================================================
