------------------------- MODULE MCMeetingLifecycle -------------------------
(* Instances of MeetingLifecycle for TLC.                                   *)
EXTENDS MeetingLifecycle, TLC

Symmetry == Permutations(Meetings) \cup Permutations(Threads)
=============================================================================
