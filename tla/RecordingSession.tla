-------------------------- MODULE RecordingSession --------------------------
(***************************************************************************)
(* One recording session, lelab/record.py: the worker thread that records  *)
(* episodes with LeRobot (recording_worker and record_with_web_events) and *)
(* the request handlers that steer it.  They share the dict of events and  *)
(* a few module globals, without a lock: every write of a handler may fall *)
(* between any two steps of the worker.                                    *)
(*                                                                         *)
(* A take is one run of LeRobot's record_loop with the dataset; it is kept *)
(* as an episode, or discarded and followed by a reset and another take.   *)
(***************************************************************************)
EXTENDS Integers, Sequences, FiniteSets

CONSTANTS
  NumEpisodes,  \* dataset.num_episodes
  Requests,     \* the requests that can be in flight at a time
  MaxPresses,   \* bound: requests to steer a session
  MaxSessions   \* bound: sessions one after the other

ASSUME RecordingAssumption ==
  /\ NumEpisodes \in Nat \ {0}
  /\ MaxPresses \in Nat
  /\ MaxSessions \in Nat \ {0}

VARIABLES
  active,   \* recording_active
  phase,    \* current_phase
  events,   \* recording_events; its flags are those of the current session
  given,    \* whether recording_events is not None
  saved,    \* saved_episodes; current_episode is saved + 1
  info,     \* last_recording_info: its result and its saved_episodes
  worker,   \* where the worker is
  failing,  \* whether an exception is on its way out of the worker
  buffer,   \* whether the episode buffer of the dataset has frames
  kept,     \* episodes in the dataset
  dataset,  \* "none", "open", "final" or "broken" (finalize raised)
  bus,      \* whether buses and cameras are open
  req,      \* req[r]: the request in progress, and the writes still to do
  presses,  \* requests so far
  sessions, \* sessions so far
  stopped,  \* whether a stop of this session has been answered (history)
  promised  \* episodes whose re-record was answered and not done (history)

vars == <<active, phase, events, given, saved, info, worker, failing, buffer,
          kept, dataset, bus, req, presses, sessions, stopped, promised>>

session == <<active, given, saved, info, sessions>>
data == <<failing, buffer, kept, dataset, bus>>
requests == <<req, presses, stopped, promised>>

Flags == {"exit_early", "stop_recording", "rerecord_episode", "triggered"}
Clear(fs) == [f \in Flags |-> IF f \in fs THEN FALSE ELSE events[f]]
Phases == {"preparing", "recording", "resetting", "stopping", "completed",
           "error"}

NoRequest == [op |-> "none", next |-> 0, episode |-> 0, of |-> 0]

Init ==
  /\ active = FALSE /\ phase = "preparing"
  /\ events = [f \in Flags |-> FALSE] /\ given = FALSE
  /\ saved = 0 /\ info = [result |-> "none", saved |-> 0]
  /\ worker = "none" /\ failing = FALSE
  /\ buffer = FALSE /\ kept = 0 /\ dataset = "none" /\ bus = FALSE
  /\ req = [r \in Requests |-> NoRequest]
  /\ presses = 0 /\ sessions = 0
  /\ stopped = FALSE /\ promised = {}

At(from, to) == worker = from /\ worker' = to

-----------------------------------------------------------------------------
(* handle_start_recording.                                                   *)

(* Mutant: the phase of the last session is not reset.                       *)
ClaimKeepsPhase ==
  /\ At("none", "claimed")
  /\ sessions < MaxSessions
  /\ sessions' = sessions + 1
  /\ active' = TRUE /\ given' = FALSE
  /\ saved' = 0 /\ info' = [result |-> "none", saved |-> 0]
  /\ failing' = FALSE /\ buffer' = FALSE /\ kept' = 0 /\ dataset' = "none"
  /\ stopped' = FALSE /\ promised' = {}
  /\ UNCHANGED <<phase, events, bus, req, presses>>

(* The flag is claimed and every global reset.                               *)
ClaimRecording ==
  /\ At("none", "claimed")
  /\ sessions < MaxSessions
  /\ sessions' = sessions + 1
  /\ active' = TRUE /\ phase' = "preparing" /\ given' = FALSE
  /\ saved' = 0 /\ info' = [result |-> "none", saved |-> 0]
  /\ failing' = FALSE /\ buffer' = FALSE /\ kept' = 0 /\ dataset' = "none"
  /\ stopped' = FALSE /\ promised' = {}
  /\ UNCHANGED <<events, bus, req, presses>>

LaunchWorker ==
  /\ At("claimed", "create")
  /\ given' = TRUE
  /\ events' = [f \in Flags |-> FALSE]
  /\ UNCHANGED <<active, phase, saved, info, data, requests, sessions>>

LaunchFails ==
  /\ At("claimed", "none")
  /\ active' = FALSE
  /\ UNCHANGED <<phase, events, given, saved, info, data, requests, sessions>>

-----------------------------------------------------------------------------
(* handle_stop_recording, handle_exit_early, handle_rerecord_episode.  The   *)
(* page offers a re-record only while the phase is "recording".              *)

(* What each handler writes, in its order; "phase" is current_phase.         *)
WritesOf(op) ==
  CASE op = "stop" -> <<"stop_recording", "exit_early", "phase">>
    [] op = "exit" -> <<"exit_early", "triggered">>
    [] op = "rerecord" -> <<"rerecord_episode", "exit_early">>

Press(r) ==
  /\ req[r] = NoRequest
  /\ presses < MaxPresses
  /\ presses' = presses + 1
  /\ active /\ given
  /\ \E op \in {"stop", "exit", "rerecord"} :
       /\ op = "rerecord" => phase = "recording"
       /\ req' = [req EXCEPT ![r] =
                    [op |-> op, next |-> 1, episode |-> saved + 1,
                     of |-> sessions]]
  /\ UNCHANGED <<phase, events, session, worker, data, stopped, promised>>

Pending(r) == req[r].op # "none" /\ req[r].next <= Len(WritesOf(req[r].op))
NextWrite(r) == WritesOf(req[r].op)[req[r].next]

HandlerWrites(r) ==
  /\ Pending(r)
  /\ \/ NextWrite(r) = "phase" /\ phase' = "stopping" /\ UNCHANGED events
     \/ /\ NextWrite(r) # "phase" /\ given
        /\ events' = [events EXCEPT ![NextWrite(r)] = TRUE]
        /\ UNCHANGED phase
  /\ req' = [req EXCEPT ![r].next = @ + 1]
  /\ UNCHANGED <<session, worker, data, presses, stopped, promised>>

(* recording_events[...] raises: another session has been claimed meanwhile. *)
HandlerDies(r) ==
  /\ Pending(r)
  /\ NextWrite(r) # "phase" /\ ~given
  /\ req' = [req EXCEPT ![r] = NoRequest]
  /\ UNCHANGED <<phase, events, session, worker, data, presses, stopped,
                 promised>>

HandlerReplies(r) ==
  /\ req[r].op # "none" /\ ~Pending(r)
  /\ req' = [req EXCEPT ![r] = NoRequest]
  /\ LET due == active /\ req[r].of = sessions IN
       /\ stopped' = (stopped \/ (due /\ req[r].op = "stop"))
       /\ promised' = IF due /\ req[r].op = "rerecord"
                      THEN promised \cup {req[r].episode} ELSE promised
  /\ UNCHANGED <<phase, events, session, worker, data, presses>>

-----------------------------------------------------------------------------
(* record_with_web_events: setup.                                            *)

CreateDataset ==
  /\ At("create", "connect")
  /\ dataset' = "open"
  /\ UNCHANGED <<phase, events, session, failing, buffer, kept, bus, requests>>

(* Only a new dataset is modelled, which the page always asks for: a resumed *)
(* one (record.py:630-644) may be refused when it is open already, and then  *)
(* nothing finalizes it.                                                     *)
CreateFails ==
  /\ At("create", "failed")
  /\ failing' = TRUE
  /\ UNCHANGED <<phase, events, session, buffer, kept, dataset, bus, requests>>

ConnectDevices ==
  /\ At("connect", "begin")
  /\ bus' = TRUE
  /\ UNCHANGED <<phase, events, session, failing, buffer, kept, dataset,
                 requests>>

(* One of the devices fails after others have been opened.                   *)
ConnectFails ==
  /\ At("connect", "finalize")
  /\ bus' = TRUE /\ failing' = TRUE
  /\ UNCHANGED <<phase, events, session, buffer, kept, dataset, requests>>

-----------------------------------------------------------------------------
(* record_with_web_events: the loop.                                         *)

BeginTake ==
  /\ At("begin", "arm")
  /\ phase' = "recording"
  /\ UNCHANGED <<events, session, data, requests>>

(* Mutant: the recording phase clears exit_early as the reset phases do.     *)
ArmClearing ==
  /\ At("arm", "recording")
  /\ events' = Clear({"triggered", "exit_early"})
  /\ UNCHANGED <<phase, session, data, requests>>

Arm ==
  /\ At("arm", "recording")
  /\ events' = Clear({"triggered"})
  /\ UNCHANGED <<phase, session, data, requests>>

(* record_loop: frames until exit_early, which it clears, or the time limit. *)
Frame ==
  /\ worker = "recording"
  /\ ~events["exit_early"]
  /\ buffer' = TRUE
  /\ UNCHANGED <<phase, events, session, worker, failing, kept, dataset, bus,
                 requests>>

TakeExits ==
  /\ At("recording", "decide")
  /\ events["exit_early"]
  /\ events' = Clear({"exit_early"})
  /\ UNCHANGED <<phase, session, data, requests>>

TakeTimesOut ==
  /\ At("recording", "decide")
  /\ buffer
  /\ UNCHANGED <<phase, events, session, data, requests>>

(* Whatever did not come from "Skip" counts as a timeout, a stop included.   *)
Decide ==
  /\ At("decide", "review")
  /\ events' = IF events["triggered"] THEN Clear({"triggered"})
               ELSE [events EXCEPT !["rerecord_episode"] = TRUE]
  /\ UNCHANGED <<phase, session, data, requests>>

DiscardTake ==
  /\ At("review", "again")
  /\ events["rerecord_episode"]
  /\ events' = Clear({"rerecord_episode", "exit_early"})
  /\ buffer' = FALSE
  /\ promised' = promised \ {saved + 1}
  /\ UNCHANGED <<phase, session, failing, kept, dataset, bus, req, presses,
                 stopped>>

KeepTake ==
  /\ At("review", "saving")
  /\ ~events["rerecord_episode"]
  /\ UNCHANGED <<phase, events, session, data, requests>>

(* dataset.save_episode, which refuses an empty buffer (TakeFails).          *)
SaveEpisode ==
  /\ At("saving", "saved")
  /\ buffer
  /\ buffer' = FALSE
  /\ kept' = kept + 1
  /\ UNCHANGED <<phase, events, session, failing, dataset, bus, requests>>

CountEpisode ==
  /\ At("saved", IF events["stop_recording"] \/ saved + 1 >= NumEpisodes
                 THEN "complete" ELSE "next")
  /\ saved' = saved + 1
  /\ UNCHANGED <<phase, events, active, given, info, sessions, data, requests>>

BeginReset ==
  /\ worker \in {"again", "next"} /\ worker' = "resetting"
  /\ phase' = "resetting"
  /\ events' = Clear({"exit_early"})
  /\ UNCHANGED <<session, data, requests>>

(* record_loop again, now without a dataset: skipped, or the time is over.   *)
ResetEnds ==
  /\ At("resetting", "rested")
  /\ events' = Clear({"exit_early"})
  /\ UNCHANGED <<phase, session, data, requests>>

(* Mutant: the stop is looked for only after an episode was saved.           *)
AfterResetOn ==
  /\ At("rested", "begin")
  /\ events' = Clear({"exit_early"})
  /\ UNCHANGED <<phase, session, data, requests>>

AfterReset ==
  /\ At("rested", IF events["stop_recording"] THEN "complete" ELSE "begin")
  /\ events' = Clear({"exit_early"})
  /\ UNCHANGED <<phase, session, data, requests>>

Complete ==
  /\ At("complete", "finalize")
  /\ phase' = "completed"
  /\ UNCHANGED <<events, session, data, requests>>

(* Mutant: without the outer try an exception leaves at once.                *)
TakeFailsUnclosed ==
  /\ worker \in {"begin", "arm", "recording", "review", "saving",
                "resetting"}
  /\ worker' = "failed"
  /\ failing' = TRUE
  /\ UNCHANGED <<phase, events, session, buffer, kept, dataset, bus, requests>>

(* A motor, a camera, an encoder or the disk raises.                         *)
TakeFails ==
  /\ worker \in {"begin", "arm", "recording", "review", "saving",
                "resetting"}
  /\ worker' = "finalize"
  /\ failing' = TRUE
  /\ UNCHANGED <<phase, events, session, buffer, kept, dataset, bus, requests>>

-----------------------------------------------------------------------------
(* The teardown, and what the worker leaves behind.                          *)

Finalize ==
  /\ At("finalize", "disconnect")
  /\ \/ dataset' = "final" /\ UNCHANGED failing
     \/ dataset' = "broken" /\ failing' = TRUE
  /\ UNCHANGED <<phase, events, session, buffer, kept, bus, requests>>

Disconnect ==
  /\ At("disconnect", IF failing THEN "failed" ELSE "push")
  /\ bus' = FALSE
  /\ UNCHANGED <<phase, events, session, failing, buffer, kept, dataset,
                 requests>>

(* push_to_hub, if asked for, and the return to recording_worker.            *)
Push ==
  /\ \/ At("push", "ending") /\ info' = [result |-> "success", saved |-> saved]
     \/ At("push", "failed") /\ UNCHANGED info
  /\ UNCHANGED <<phase, events, active, given, saved, sessions, data, requests>>

(* Mutant: the counters are reset before the failure is noted.               *)
NoteFailureLate ==
  /\ At("failed", "ending")
  /\ phase' = "error"
  /\ info' = [result |-> "error", saved |-> 0]
  /\ UNCHANGED <<events, active, given, saved, sessions, data, requests>>

NoteFailure ==
  /\ At("failed", "ending")
  /\ phase' = "error"
  /\ info' = [result |-> "error", saved |-> saved]
  /\ UNCHANGED <<events, active, given, saved, sessions, data, requests>>

NotePhase ==
  /\ At("ending", "clearing")
  /\ phase' = IF phase # "error" THEN "completed" ELSE phase
  /\ UNCHANGED <<events, session, data, requests>>

ClearActive ==
  /\ At("clearing", "none")
  /\ active' = FALSE /\ saved' = 0
  /\ UNCHANGED <<phase, events, given, info, sessions, data, requests>>

-----------------------------------------------------------------------------
Handler(r) == HandlerWrites(r) \/ HandlerDies(r) \/ HandlerReplies(r)

Start == ClaimRecording \/ LaunchWorker \/ LaunchFails

Setup == CreateDataset \/ CreateFails \/ ConnectDevices \/ ConnectFails

(* The loop, without the frames: a take ends after its time limit.           *)
Loop ==
  \/ BeginTake \/ Arm \/ TakeExits \/ TakeTimesOut \/ Decide
  \/ DiscardTake \/ KeepTake \/ SaveEpisode \/ CountEpisode
  \/ BeginReset \/ ResetEnds \/ AfterReset \/ Complete

Teardown ==
  Finalize \/ Disconnect \/ Push \/ NoteFailure \/ NotePhase \/ ClearActive

Next ==
  \/ \E r \in Requests : Press(r) \/ Handler(r)
  \/ Start \/ Setup \/ Loop \/ Frame \/ TakeFails \/ Teardown

Spec == Init /\ [][Next]_vars

(* Both threads run, and both loops of LeRobot have a time limit.            *)
FairSpec ==
  /\ Spec
  /\ \A r \in Requests : WF_vars(Handler(r))
  /\ WF_vars(LaunchWorker) /\ WF_vars(Setup) /\ WF_vars(Teardown)
  /\ WF_vars(Loop) /\ WF_vars(Frame) /\ WF_vars(worker = "saving" /\ TakeFails)

-----------------------------------------------------------------------------
Worker == {"none", "claimed", "create", "connect", "begin", "arm",
           "recording", "decide", "review", "again", "saving", "saved",
           "next", "resetting", "rested", "complete", "finalize",
           "disconnect", "push", "failed", "ending", "clearing"}

(* The types; the flag is up for exactly as long as the worker is about, and *)
(* no more episodes are kept than were asked for.                            *)
TypeOK ==
  /\ active \in BOOLEAN /\ given \in BOOLEAN
  /\ phase \in Phases
  /\ events \in [Flags -> BOOLEAN]
  /\ saved \in 0..NumEpisodes /\ kept \in 0..NumEpisodes
  /\ info \in [result : {"none", "success", "error"}, saved : 0..NumEpisodes]
  /\ worker \in Worker
  /\ active <=> worker # "none"
  /\ failing \in BOOLEAN /\ buffer \in BOOLEAN /\ bus \in BOOLEAN
  /\ dataset \in {"none", "open", "final", "broken"}
  /\ req \in [Requests -> [op : {"none", "stop", "exit", "rerecord"},
                           next : 0..4, episode : 0..(NumEpisodes + 1),
                           of : 0..MaxSessions]]
  /\ presses \in 0..MaxPresses
  /\ sessions \in 0..MaxSessions
  /\ stopped \in BOOLEAN
  /\ promised \subseteq 0..(NumEpisodes + 1)

(* However a session ends, its devices are free for the next one and its     *)
(* dataset has been closed (record.py:676-678, 898-912).                     *)
NothingLeftOpen == ~active => ~bus /\ dataset # "open"

(* What a finished session tells about its episodes is what is in the        *)
(* dataset: "Episodes already saved survive the failure" (record.py:321-329).*)
ReportCountsKept == info.result # "none" => info.saved = kept

(* Once a stop has been answered no further take gets any frames: whatever   *)
(* the worker was about to do, exit_early or stop_recording reaches it.      *)
StopEndsRecording ==
  [][stopped /\ stopped' => (buffer' => buffer)]_vars

(* A session that was told to stop ends.                                     *)
StopHonoured == stopped ~> ~active

(* The session in detail is a session as the pages know it: phases come in   *)
(* order, episodes one at a time, nothing changes after the flag is down but *)
(* the phase, which a late stop may still overwrite.                         *)
Service == INSTANCE RecordingService WITH LateStops <- TRUE
ImplementsService == Service!ServiceSpec

(* Recording.tsx:322: "Episode ${backendStatus.current_episode} will be      *)
(* re-recorded."                                                             *)
RerecordHonoured == \A n \in promised : kept < n

(* Recording.tsx:602: "The session will end and you'll be taken to the       *)
(* upload page", which the page does on session_ended (record.py:412).       *)
EndIsReported ==
  (info.result # "none" /\ ~active) ~> (phase \in {"completed", "error"} \/ active)

=============================================================================
