-------------------------- MODULE RecordingService --------------------------
(***************************************************************************)
(* What the pages may rely on about a recording session of the server: a   *)
(* flag, a phase and the number of episodes in the dataset.  RobotApp puts *)
(* the pages on top of it, RecordingSession (lelab/record.py in detail)    *)
(* implements it.                                                          *)
(***************************************************************************)
EXTENDS Integers

CONSTANTS
  NumEpisodes, \* episodes asked for
  LateStops    \* whether a stop request may still write the phase when the
               \* session it was meant for is over

ASSUME ServiceAssumption == NumEpisodes \in Nat \ {0} /\ LateStops \in BOOLEAN

VARIABLES
  active, \* recording_active
  phase,  \* current_phase
  kept    \* episodes in the dataset

service == <<active, phase, kept>>

ServiceInit == active = FALSE /\ phase = "preparing" /\ kept = 0

BeginSession ==
  /\ ~active
  /\ active' = TRUE /\ phase' = "preparing" /\ kept' = 0

(* The worker thread cannot be started.                                      *)
AbortSession ==
  /\ active /\ phase = "preparing"
  /\ active' = FALSE
  /\ UNCHANGED <<phase, kept>>

(* Takes, resets, a stop, the end and a failure; a failure may still come    *)
(* after "completed", from finalize or the push to the Hub.                  *)
ChangePhase(to) ==
  /\ active
  /\ to = "resetting" => phase \in {"recording", "stopping"}
  /\ to = "recording" => phase \in {"preparing", "resetting", "stopping"}
  /\ phase' = to
  /\ UNCHANGED <<active, kept>>

KeepEpisode ==
  /\ active /\ kept < NumEpisodes
  /\ kept' = kept + 1
  /\ UNCHANGED <<active, phase>>

EndSession ==
  /\ active
  /\ phase \in {"completed", "error"} \/ (LateStops /\ phase = "stopping")
  /\ active' = FALSE
  /\ UNCHANGED <<phase, kept>>

StopLate ==
  /\ LateStops /\ ~active
  /\ phase' = "stopping"
  /\ UNCHANGED <<active, kept>>

Phases ==
  {"preparing", "recording", "resetting", "stopping", "completed", "error"}

ServiceNext ==
  \/ BeginSession \/ AbortSession \/ KeepEpisode \/ EndSession \/ StopLate
  \/ \E to \in Phases \ {"preparing"} : ChangePhase(to)

ServiceSpec == ServiceInit /\ [][ServiceNext]_service

=============================================================================
