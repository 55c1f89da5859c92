--------------------------- MODULE MeetingStates ---------------------------
(***************************************************************************)
(* The meeting state machine of engine/state/machine.py: the states and    *)
(* the table of legal transitions.  MeetingLifecycle runs one machine per  *)
(* live session against the status strings persisted in metadata.json.     *)
(***************************************************************************)

\* _ALLOWED_TRANSITIONS, one field per state.
AllowedTransitions ==
    [idle             |-> {"preparing", "recovery"},
     preparing        |-> {"recording", "error", "idle"},
     recording        |-> {"paused", "finalizing", "error"},
     paused           |-> {"resumed", "finalizing", "error"},
     resumed          |-> {"recording", "paused", "error"},
     finalizing       |-> {"generating_notes", "completed", "error"},
     generating_notes |-> {"completed", "error"},
     completed        |-> {},
     error            |-> {"recovery", "idle"},
     recovery         |-> {"recording", "finalizing", "idle", "error"}]

MeetingState == {"idle", "preparing", "recording", "paused", "resumed",
                 "finalizing", "generating_notes", "completed", "error",
                 "recovery"}

\* MeetingStateMachine.can_transition
CanTransition(current, target) == target \in AllowedTransitions[current]

=============================================================================
