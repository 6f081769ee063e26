------------------------ MODULE RecordingSessionProofs ------------------------
(***************************************************************************)
(* Theorems about RecordingSession, for any number of episodes, requests,  *)
(* presses and sessions.                                                   *)
(***************************************************************************)
EXTENDS RecordingSession, TLAPS

(* No more is kept than was asked for; the counter runs one behind between   *)
(* the save and its count; nothing is reported before the session is over.   *)
CountInv ==
  /\ worker # "none" => kept = IF worker = "saved" THEN saved + 1 ELSE saved
  /\ worker \in Worker \ {"none", "complete", "finalize", "disconnect",
                          "push", "failed", "ending", "clearing"}
       => saved < NumEpisodes
  /\ info.result # "none" =>
       info.saved = kept /\ worker \in {"none", "ending", "clearing"}

(* Where devices and dataset may be open.                                    *)
OpenInv ==
  /\ bus => worker \in Worker \ {"none", "claimed", "create", "push",
                                 "failed", "ending", "clearing"}
  /\ dataset = "open" =>
       worker \in Worker \ {"none", "claimed", "create", "disconnect",
                            "push", "failed", "ending", "clearing"}

(* The phase belongs to the position of the worker, or a stop has been       *)
(* written over it, maybe one of the session before.                         *)
PhaseInv ==
  /\ worker = "claimed" => phase \in {"preparing", "stopping"} /\ ~given
  /\ worker \in {"create", "connect"} => phase \in {"preparing", "stopping"}
  /\ worker = "begin" => phase \in {"preparing", "resetting", "stopping"}
  /\ worker \in {"arm", "recording", "decide", "review", "again", "saving",
                 "saved", "next"}
       => phase \in {"recording", "stopping"}
  /\ worker \in {"resetting", "rested"} => phase \in {"resetting", "stopping"}
  /\ worker = "clearing" => phase \in {"completed", "error", "stopping"}

(* A stop request has written `n` of its writes in this session.             *)
StopWrote(r, n) ==
  req[r].op = "stop" /\ req[r].of = sessions /\ req[r].next > n

(* A stop on its way to a new take reaches it: once exit_early is written,   *)
(* it is up wherever the worker may still record, since the worker does not  *)
(* turn back after stop_recording.                                           *)
Ends ==
  /\ events["stop_recording"]
  /\ worker \in {"create", "connect", "begin", "arm", "recording"}
       => events["exit_early"]

StopInv ==
  /\ \A r \in Requests :
       /\ req[r].of <= sessions
       /\ req[r].op # "none" /\ req[r].of = sessions => worker # "claimed"
       /\ StopWrote(r, 1) => events["stop_recording"]
       /\ StopWrote(r, 2) => Ends
  /\ stopped => Ends /\ worker # "claimed"

IInv == TypeOK /\ CountInv /\ OpenInv /\ PhaseInv /\ StopInv

-----------------------------------------------------------------------------
(* A server that has just started.                                           *)
LEMMA InitIInv == Init => IInv
<1> SUFFICES ASSUME Init PROVE IInv
  OBVIOUS
<1> USE RecordingAssumption DEF Init
<1>1. TypeOK
  <2>1. events \in [Flags -> BOOLEAN]
    OBVIOUS
  <2>2. info \in [result : {"none", "success", "error"},
                  saved : 0..NumEpisodes]
    OBVIOUS
  <2>3. req \in [Requests -> [op : {"none", "stop", "exit", "rerecord"},
                              next : 0..4, episode : 0..(NumEpisodes + 1),
                              of : 0..MaxSessions]]
    BY DEF NoRequest
  <2>4. /\ active = FALSE /\ worker = "none" /\ phase = "preparing"
        /\ worker \in Worker /\ phase \in Phases
    BY DEF Phases, Worker
  <2>5. /\ given \in BOOLEAN /\ stopped \in BOOLEAN
        /\ failing \in BOOLEAN /\ buffer \in BOOLEAN /\ bus \in BOOLEAN
        /\ dataset \in {"none", "open", "final", "broken"}
    OBVIOUS
  <2>6. /\ saved \in 0..NumEpisodes /\ kept \in 0..NumEpisodes
        /\ presses \in 0..MaxPresses /\ sessions \in 0..MaxSessions
        /\ promised \subseteq 0..(NumEpisodes + 1)
    OBVIOUS
  <2> HIDE DEF Init
  <2> QED  BY <2>1, <2>2, <2>3, <2>4, <2>5, <2>6 DEF TypeOK
<1>2. CountInv /\ OpenInv /\ PhaseInv
  BY DEF CountInv, OpenInv, PhaseInv, Worker
<1>3. StopInv
  BY DEF StopInv, StopWrote, Ends, NoRequest
<1> QED  BY <1>1, <1>2, <1>3 DEF IInv

(* One episode is counted for each one kept.                                 *)
LEMMA CountStep == TypeOK /\ CountInv /\ [Next]_vars => CountInv'
<1> SUFFICES ASSUME TypeOK, CountInv, [Next]_vars
             PROVE  CountInv'
  OBVIOUS
<1> USE RecordingAssumption DEF TypeOK, CountInv, Worker, At
<1>1. CASE Start
  BY <1>1 DEF Start, ClaimRecording, LaunchWorker, LaunchFails, data
<1>2. CASE Setup
  BY <1>2 DEF Setup, CreateDataset, CreateFails, ConnectDevices, ConnectFails,
              session
<1>3. CASE Loop
  BY <1>3 DEF Loop, BeginTake, Arm, TakeExits, TakeTimesOut, Decide,
              DiscardTake, KeepTake, SaveEpisode, CountEpisode, BeginReset,
              ResetEnds, AfterReset, Complete, session, data
<1>4. CASE Frame \/ TakeFails
  BY <1>4 DEF Frame, TakeFails, session
<1>5. CASE Teardown
  BY <1>5 DEF Teardown, Finalize, Disconnect, Push, NoteFailure, NotePhase,
              ClearActive, session, data
<1>6. ASSUME NEW r \in Requests, Press(r) \/ Handler(r)
      PROVE  CountInv'
  BY <1>6 DEF Press, Handler, HandlerWrites, HandlerDies, HandlerReplies,
              session, data
<1>7. CASE UNCHANGED vars
  BY <1>7 DEF vars
<1> QED  BY <1>1, <1>2, <1>3, <1>4, <1>5, <1>6, <1>7 DEF Next

(* Every way out of a position with open devices leads to Disconnect.        *)
LEMMA OpenStep == TypeOK /\ OpenInv /\ [Next]_vars => OpenInv'
<1> SUFFICES ASSUME TypeOK, OpenInv, [Next]_vars
             PROVE  OpenInv'
  OBVIOUS
<1> USE DEF TypeOK, OpenInv, Worker, At
<1>1. CASE Start
  BY <1>1 DEF Start, ClaimRecording, LaunchWorker, LaunchFails, data
<1>2. CASE Setup
  BY <1>2 DEF Setup, CreateDataset, CreateFails, ConnectDevices, ConnectFails
<1>3. CASE Loop
  BY <1>3 DEF Loop, BeginTake, Arm, TakeExits, TakeTimesOut, Decide,
              DiscardTake, KeepTake, SaveEpisode, CountEpisode, BeginReset,
              ResetEnds, AfterReset, Complete, data
<1>4. CASE Frame \/ TakeFails
  BY <1>4 DEF Frame, TakeFails
<1>5. CASE Teardown
  BY <1>5 DEF Teardown, Finalize, Disconnect, Push, NoteFailure, NotePhase,
              ClearActive, data
<1>6. ASSUME NEW r \in Requests, Press(r) \/ Handler(r)
      PROVE  OpenInv'
  BY <1>6 DEF Press, Handler, HandlerWrites, HandlerDies, HandlerReplies, data
<1>7. CASE UNCHANGED vars
  BY <1>7 DEF vars
<1> QED  BY <1>1, <1>2, <1>3, <1>4, <1>5, <1>6, <1>7 DEF Next

(* A handler only ever writes that the session is stopping.                  *)
LEMMA PhaseStep == PhaseInv /\ [Next]_vars => PhaseInv'
<1> SUFFICES ASSUME PhaseInv, [Next]_vars
             PROVE  PhaseInv'
  OBVIOUS
<1> USE DEF PhaseInv, At
<1>1. CASE Start
  BY <1>1 DEF Start, ClaimRecording, LaunchWorker, LaunchFails
<1>2. CASE Setup
  BY <1>2 DEF Setup, CreateDataset, CreateFails, ConnectDevices, ConnectFails,
              session
<1>3. CASE Loop
  <2>1. CASE BeginTake \/ BeginReset \/ Complete
    BY <2>1 DEF BeginTake, BeginReset, Complete
  <2>2. CASE Arm \/ TakeExits \/ TakeTimesOut \/ Decide
    BY <2>2 DEF Arm, TakeExits, TakeTimesOut, Decide
  <2>3. CASE DiscardTake \/ KeepTake \/ SaveEpisode \/ CountEpisode
    BY <2>3 DEF DiscardTake, KeepTake, SaveEpisode, CountEpisode
  <2>4. CASE ResetEnds \/ AfterReset
    BY <2>4 DEF ResetEnds, AfterReset
  <2> QED  BY <1>3, <2>1, <2>2, <2>3, <2>4 DEF Loop
<1>4. CASE Frame \/ TakeFails
  BY <1>4 DEF Frame, TakeFails, session
<1>5. CASE Teardown
  BY <1>5 DEF Teardown, Finalize, Disconnect, Push, NoteFailure, NotePhase,
              ClearActive, session
<1>6. ASSUME NEW r \in Requests, Press(r) \/ Handler(r)
      PROVE  PhaseInv'
  BY <1>6 DEF Press, Handler, HandlerWrites, HandlerDies, HandlerReplies,
              session
<1>7. CASE UNCHANGED vars
  BY <1>7 DEF vars
<1> QED  BY <1>1, <1>2, <1>3, <1>4, <1>5, <1>6, <1>7 DEF Next

(* No step of the worker takes a stop back.                                  *)
LEMMA StopStep == TypeOK /\ PhaseInv /\ StopInv /\ [Next]_vars => StopInv'
<1> SUFFICES ASSUME TypeOK, PhaseInv, StopInv, [Next]_vars
             PROVE  StopInv'
  OBVIOUS
<1> USE DEF StopInv, StopWrote, Ends, At
<1>1. CASE Start
  BY <1>1 DEF Start, ClaimRecording, LaunchWorker, LaunchFails, data, requests,
              TypeOK
<1>2. CASE Setup
  BY <1>2 DEF Setup, CreateDataset, CreateFails, ConnectDevices, ConnectFails,
              session, requests
<1>3. CASE Loop
  <2>1. /\ UNCHANGED <<req, sessions, stopped>> /\ worker' # "claimed"
        /\ worker' \in {"create", "connect", "begin", "arm", "recording"}
             => \/ worker \in {"begin", "arm"}
                \/ worker = "rested" /\ ~events["stop_recording"]
    BY <1>3 DEF Loop, BeginTake, Arm, TakeExits, TakeTimesOut, Decide,
                DiscardTake, KeepTake, SaveEpisode, CountEpisode, BeginReset,
                ResetEnds, AfterReset, Complete, session, requests
  <2>2. /\ events'["stop_recording"] = events["stop_recording"]
        /\ worker \in {"begin", "arm"}
             => events'["exit_early"] = events["exit_early"]
    <3> USE DEF TypeOK, Flags, Clear
    <3>1. CASE BeginTake \/ KeepTake \/ SaveEpisode \/ CountEpisode
                 \/ TakeTimesOut \/ Complete
      BY <3>1 DEF BeginTake, KeepTake, SaveEpisode, CountEpisode,
                  TakeTimesOut, Complete
    <3>2. CASE Arm \/ TakeExits \/ Decide \/ DiscardTake
      BY <3>2 DEF Arm, TakeExits, Decide, DiscardTake
    <3>3. CASE BeginReset \/ ResetEnds \/ AfterReset
      BY <3>3 DEF BeginReset, ResetEnds, AfterReset
    <3> QED  BY <1>3, <3>1, <3>2, <3>3 DEF Loop
  <2> QED  BY <2>1, <2>2
<1>4. CASE Frame \/ TakeFails
  BY <1>4 DEF Frame, TakeFails, session, requests
<1>5. CASE Teardown
  BY <1>5 DEF Teardown, Finalize, Disconnect, Push, NoteFailure, NotePhase,
              ClearActive, session, requests
<1>6. ASSUME NEW r \in Requests, Press(r)
      PROVE  StopInv'
  BY <1>6 DEF Press, session, data, TypeOK, NoRequest, PhaseInv
<1>7. ASSUME NEW r \in Requests, HandlerWrites(r)
      PROVE  StopInv'
  <2> DEFINE f == NextWrite(r)
  <2>1. /\ req[r].op = "stop" /\ req[r].next = 1 => f = "stop_recording"
        /\ req[r].op = "stop" /\ req[r].next = 2 => f = "exit_early"
        /\ req[r].next \in 1..3 \/ req[r].next = 0
    BY <1>7 DEF HandlerWrites, NextWrite, Pending, WritesOf, TypeOK
  <2>2. /\ UNCHANGED <<sessions, worker, stopped>>
        /\ req' = [req EXCEPT ![r].next = @ + 1]
        /\ \/ f = "phase" /\ events' = events
           \/ f # "phase" /\ events' = [events EXCEPT ![f] = TRUE]
    BY <1>7 DEF HandlerWrites, session
  <2>3. \A g \in Flags : events[g] => events'[g]
    BY <2>2 DEF TypeOK
  <2>4. /\ f = "stop_recording" => events'["stop_recording"]
        /\ f = "exit_early" => events'["exit_early"]
    BY <2>2 DEF TypeOK, Flags
  <2>5. Ends => Ends'
    BY <2>2, <2>3 DEF Flags
  <2>6. \A q \in Requests :
          /\ req'[q].op = req[q].op /\ req'[q].of = req[q].of
          /\ q # r => req'[q].next = req[q].next
          /\ q = r => req'[q].next = req[q].next + 1
    BY <2>2 DEF TypeOK
  <2> HIDE DEF f
  <2> QED  BY <2>1, <2>2, <2>3, <2>4, <2>5, <2>6 DEF Flags, TypeOK
<1>8. ASSUME NEW r \in Requests, HandlerDies(r) \/ HandlerReplies(r)
      PROVE  StopInv'
  <2>1. /\ UNCHANGED <<sessions, worker, events>>
        /\ req' = [req EXCEPT ![r] = NoRequest]
    BY <1>8 DEF HandlerDies, HandlerReplies, session
  <2>2. stopped' => stopped \/ (StopWrote(r, 2) /\ req[r].op # "none")
    <3>1. req[r].op = "stop" /\ ~Pending(r) => req[r].next > 2
      BY DEF Pending, WritesOf, TypeOK
    <3>2. ASSUME HandlerReplies(r), stopped', ~stopped
          PROVE  /\ ~Pending(r) /\ req[r].of = sessions
                 /\ req[r].op = "stop"
      BY <3>2 DEF HandlerReplies
    <3>3. HandlerDies(r) => stopped' = stopped
      BY DEF HandlerDies
    <3> QED  BY <1>8, <3>1, <3>2, <3>3 DEF StopWrote
  <2>3. /\ \A q \in Requests \ {r} : req'[q] = req[q]
        /\ req'[r].op = "none" /\ req'[r].of = 0
    BY <2>1 DEF TypeOK, NoRequest
  <2> QED  BY <2>1, <2>2, <2>3 DEF TypeOK
<1>9. CASE UNCHANGED vars
  BY <1>9 DEF vars
<1> QED
  BY <1>1, <1>2, <1>3, <1>4, <1>5, <1>6, <1>7, <1>8, <1>9 DEF Next, Handler

(* The parts of TypeOK.                                                      *)
ScalarsOK ==
  /\ active \in BOOLEAN /\ given \in BOOLEAN
  /\ phase \in Phases
  /\ saved \in 0..NumEpisodes /\ kept \in 0..NumEpisodes
  /\ worker \in Worker
  /\ failing \in BOOLEAN /\ buffer \in BOOLEAN /\ bus \in BOOLEAN
  /\ dataset \in {"none", "open", "final", "broken"}
ActiveOK == active <=> worker # "none"
RequestsOK ==
  req \in [Requests -> [op : {"none", "stop", "exit", "rerecord"},
                        next : 0..4, episode : 0..(NumEpisodes + 1),
                        of : 0..MaxSessions]]
HistoryOK ==
  /\ presses \in 0..MaxPresses
  /\ sessions \in 0..MaxSessions
  /\ stopped \in BOOLEAN
  /\ promised \subseteq 0..(NumEpisodes + 1)
InfoOK ==
  info \in [result : {"none", "success", "error"}, saved : 0..NumEpisodes]

(* The events stay flags.                                                    *)
LEMMA EventsStep ==
  events \in [Flags -> BOOLEAN] /\ [Next]_vars
    => events' \in [Flags -> BOOLEAN]
<1> SUFFICES ASSUME events \in [Flags -> BOOLEAN], [Next]_vars
             PROVE  events' \in [Flags -> BOOLEAN]
  OBVIOUS
<1>1. CASE UNCHANGED events
  BY <1>1
<1>2. CASE \E fs \in SUBSET Flags : events' = Clear(fs)
  BY <1>2 DEF Clear
<1>3. CASE \E f \in Flags : events' = [events EXCEPT ![f] = TRUE]
  BY <1>3
<1>4. CASE LaunchWorker
  BY <1>4 DEF LaunchWorker
<1>5. CASE Loop
  <2> USE <1>2 DEF Flags
  <2>1. CASE BeginTake \/ TakeTimesOut \/ KeepTake \/ SaveEpisode
               \/ CountEpisode \/ Complete
    BY <2>1, <1>1 DEF BeginTake, TakeTimesOut, KeepTake, SaveEpisode,
                      CountEpisode, Complete
  <2>2. CASE Arm
    BY <2>2, {"triggered"} \in SUBSET Flags DEF Arm
  <2>3. CASE TakeExits \/ BeginReset \/ ResetEnds \/ AfterReset
    BY <2>3, {"exit_early"} \in SUBSET Flags
    DEF TakeExits, BeginReset, ResetEnds, AfterReset
  <2>4. CASE DiscardTake
    BY <2>4, {"rerecord_episode", "exit_early"} \in SUBSET Flags
    DEF DiscardTake
  <2>5. CASE Decide
    BY <2>5, <1>3, {"triggered"} \in SUBSET Flags DEF Decide
  <2> QED  BY <1>5, <2>1, <2>2, <2>3, <2>4, <2>5 DEF Loop
<1>6. ASSUME NEW r \in Requests, HandlerWrites(r)
      PROVE  events' \in [Flags -> BOOLEAN]
  BY <1>6, <1>1 DEF HandlerWrites
<1> QED
  BY <1>1, <1>4, <1>5, <1>6
  DEF Next, Start, ClaimRecording, LaunchFails, Setup, CreateDataset,
      CreateFails, ConnectDevices, ConnectFails, Frame, TakeFails, Teardown,
      Finalize, Disconnect, Push, NoteFailure, NotePhase, ClearActive, Press,
      Handler, HandlerDies, HandlerReplies, vars

(* A report has a result and a number of episodes.                           *)
LEMMA InfoStep ==
  ScalarsOK /\ InfoOK /\ [Next]_vars => InfoOK'
<1> SUFFICES ASSUME ScalarsOK, InfoOK, [Next]_vars
             PROVE  InfoOK'
  OBVIOUS
<1> USE RecordingAssumption DEF InfoOK
<1>1. CASE UNCHANGED info
  BY <1>1
<1>2. CASE ClaimRecording \/ Push \/ NoteFailure
  BY <1>2 DEF ClaimRecording, Push, NoteFailure, ScalarsOK
<1> QED
  BY <1>1, <1>2
  DEF Next, Start, LaunchWorker, LaunchFails, Setup, CreateDataset,
      CreateFails, ConnectDevices, ConnectFails, Loop, BeginTake, Arm,
      TakeExits, TakeTimesOut, Decide, DiscardTake, KeepTake, SaveEpisode,
      CountEpisode, BeginReset, ResetEnds, AfterReset, Complete, Frame,
      TakeFails, Teardown, Finalize, Disconnect, NotePhase, ClearActive, Press,
      Handler, HandlerWrites, HandlerDies, HandlerReplies, vars, session

(* A request never has more writes behind it than its handler makes.         *)
LEMMA RequestsStep ==
  ScalarsOK /\ RequestsOK /\ HistoryOK /\ [Next]_vars => RequestsOK'
<1> SUFFICES ASSUME ScalarsOK, RequestsOK, HistoryOK, [Next]_vars
             PROVE  RequestsOK'
  OBVIOUS
<1> USE RecordingAssumption DEF RequestsOK
<1>1. CASE UNCHANGED req
  BY <1>1
<1>2. ASSUME NEW r \in Requests, Press(r)
      PROVE  RequestsOK'
  BY <1>2 DEF Press, ScalarsOK, HistoryOK
<1>3. ASSUME NEW r \in Requests, HandlerWrites(r)
      PROVE  RequestsOK'
  <2>1. Pending(r)
        /\ req' = [req EXCEPT ![r].next = req[r].next + 1]
        /\ UNCHANGED sessions
    BY <1>3 DEF HandlerWrites, session
  <2>2. Len(WritesOf(req[r].op)) <= 3
    BY <2>1 DEF Pending, WritesOf
  <2>3. req[r].next \in 0..4 /\ req[r].next <= 3
    BY <2>1, <2>2 DEF Pending, WritesOf
  <2> QED  BY <2>1, <2>3
<1>4. ASSUME NEW r \in Requests, HandlerDies(r) \/ HandlerReplies(r)
      PROVE  RequestsOK'
  BY <1>4 DEF HandlerDies, HandlerReplies, NoRequest
<1> QED
  BY <1>1, <1>2, <1>3, <1>4
  DEF Next, Start, ClaimRecording, LaunchWorker, LaunchFails, Setup,
      CreateDataset, CreateFails, ConnectDevices, ConnectFails, Loop, BeginTake,
      Arm,
      TakeExits, TakeTimesOut, Decide, DiscardTake, KeepTake, SaveEpisode,
      CountEpisode,
      BeginReset, ResetEnds, AfterReset, Complete, Frame, TakeFails, Teardown,
      Finalize, Disconnect, Push, NoteFailure, NotePhase, ClearActive,
      Handler, vars, requests

(* Presses, sessions, and what has been answered.                            *)
LEMMA HistoryStep ==
  ScalarsOK /\ RequestsOK /\ HistoryOK /\ [Next]_vars => HistoryOK'
<1> SUFFICES ASSUME ScalarsOK, RequestsOK, HistoryOK, [Next]_vars
             PROVE  HistoryOK'
  OBVIOUS
<1> USE RecordingAssumption DEF HistoryOK
<1>1. CASE UNCHANGED <<presses, sessions, stopped, promised>>
  BY <1>1
<1>2. CASE ClaimRecording
  <2>1. /\ presses' = presses /\ stopped' = FALSE /\ promised' = {}
        /\ sessions < MaxSessions /\ sessions' = sessions + 1
    BY <1>2 DEF ClaimRecording
  <2>2. promised' \subseteq 0..(NumEpisodes + 1)
    BY <2>1
  <2>3. sessions' \in 0..MaxSessions
    BY <2>1
  <2> QED  BY <2>1, <2>2, <2>3
<1>3. CASE DiscardTake
  <2>1. /\ UNCHANGED <<presses, sessions, stopped>>
        /\ promised' \subseteq promised
    BY <1>3 DEF DiscardTake, session
  <2>2. promised' \subseteq 0..(NumEpisodes + 1)
    BY <2>1
  <2> QED  BY <2>1, <2>2
<1>4. ASSUME NEW r \in Requests, Press(r)
      PROVE  HistoryOK'
  BY <1>4 DEF Press, session
<1>5. ASSUME NEW r \in Requests, HandlerReplies(r)
      PROVE  HistoryOK'
  BY <1>5 DEF HandlerReplies, RequestsOK, session
<1> QED
  BY <1>1, <1>2, <1>3, <1>4, <1>5
  DEF Next, Start, LaunchWorker, LaunchFails, Setup, CreateDataset,
      CreateFails, ConnectDevices, ConnectFails, Loop, BeginTake, Arm,
      TakeExits, TakeTimesOut, Decide, KeepTake, SaveEpisode, CountEpisode,
      BeginReset, ResetEnds, AfterReset, Complete, Frame, TakeFails, Teardown,
      Finalize, Disconnect, Push, NoteFailure, NotePhase, ClearActive,
      Handler, HandlerWrites, HandlerDies, vars, session, requests

(* The flag is up for as long as the worker is about.                        *)
LEMMA ActiveStep ==
  ScalarsOK /\ ActiveOK /\ [Next]_vars => ActiveOK'
<1> SUFFICES ASSUME ScalarsOK, ActiveOK, [Next]_vars
             PROVE  ActiveOK'
  OBVIOUS
<1> USE DEF ActiveOK, At
<1>1. CASE UNCHANGED active /\ (worker' = "none" <=> worker = "none")
  BY <1>1
<1>2. CASE Start
  BY <1>2 DEF Start, ClaimRecording, LaunchWorker, LaunchFails
<1>3. CASE Setup \/ Loop \/ Frame \/ TakeFails
  BY <1>3, <1>1
  DEF Setup, CreateDataset, CreateFails, ConnectDevices, ConnectFails, Loop,
      BeginTake, Arm, TakeExits, TakeTimesOut, Decide, DiscardTake, KeepTake,
      SaveEpisode, CountEpisode, BeginReset, ResetEnds, AfterReset, Complete,
      Frame, TakeFails, session
<1>4. CASE Teardown
  BY <1>4, <1>1
  DEF Teardown, Finalize, Disconnect, Push, NoteFailure, NotePhase,
      ClearActive, session
<1>5. ASSUME NEW r \in Requests, Press(r) \/ Handler(r)
      PROVE  ActiveOK'
  BY <1>5, <1>1
  DEF Press, Handler, HandlerWrites, HandlerDies, HandlerReplies, session
<1>6. CASE UNCHANGED vars
  BY <1>6 DEF vars
<1> QED  BY <1>2, <1>3, <1>4, <1>5, <1>6 DEF Next

(* Flag, phase, counters and positions.                                      *)
LEMMA ScalarsStep ==
  ScalarsOK /\ CountInv /\ [Next]_vars => ScalarsOK'
<1> SUFFICES ASSUME ScalarsOK, CountInv, [Next]_vars
             PROVE  ScalarsOK'
  OBVIOUS
<1> USE RecordingAssumption DEF ScalarsOK
<1>1. saved' \in 0..NumEpisodes /\ kept' \in 0..NumEpisodes
  <2>1. CASE UNCHANGED <<saved, kept>>
    BY <2>1
  <2>2. CASE ClaimRecording \/ ClearActive
    BY <2>2 DEF ClaimRecording, ClearActive, data
  <2>3. CASE SaveEpisode
    BY <2>3 DEF SaveEpisode, CountInv, At, Worker, session
  <2>4. CASE CountEpisode
    BY <2>4 DEF CountEpisode, CountInv, At, Worker, data
  <2> QED
    BY <2>1, <2>2, <2>3, <2>4
    DEF Next, Start, LaunchWorker, LaunchFails, Setup, CreateDataset,
        CreateFails, ConnectDevices, ConnectFails, Loop, BeginTake, Arm,
        TakeExits, TakeTimesOut, Decide, DiscardTake, KeepTake, BeginReset,
        ResetEnds, AfterReset, Complete, Frame, TakeFails, Teardown, Finalize,
        Disconnect, Push, NoteFailure, NotePhase, Press, Handler,
        HandlerWrites, HandlerDies, HandlerReplies, vars, session, data
<1>2. worker' \in Worker
  <2>1. CASE UNCHANGED worker
    BY <2>1
  <2>2. CASE Start \/ Setup
    BY <2>2 DEF Start, ClaimRecording, LaunchWorker, LaunchFails, Setup,
                CreateDataset, CreateFails, ConnectDevices, ConnectFails, At,
                Worker
  <2>3. CASE Loop
    BY <2>3 DEF Loop, BeginTake, Arm, TakeExits, TakeTimesOut, Decide,
                DiscardTake, KeepTake, SaveEpisode, CountEpisode, BeginReset,
                ResetEnds, AfterReset, Complete, At, Worker
  <2>4. CASE TakeFails \/ Teardown
    BY <2>4 DEF TakeFails, Teardown, Finalize, Disconnect, Push, NoteFailure,
                NotePhase, ClearActive, At, Worker
  <2> QED
    BY <2>1, <2>2, <2>3, <2>4
    DEF Next, Frame, Press, Handler, HandlerWrites, HandlerDies,
        HandlerReplies, vars
<1>3. phase' \in Phases
  <2>1. CASE UNCHANGED phase
    BY <2>1
  <2>2. CASE phase' \in Phases
    BY <2>2
  <2> QED
    BY <2>1, <2>2
    DEF Next, Start, ClaimRecording, LaunchWorker, LaunchFails, Setup,
        CreateDataset, CreateFails, ConnectDevices, ConnectFails, Loop,
        BeginTake, Arm, TakeExits, TakeTimesOut, Decide, DiscardTake, KeepTake,
        SaveEpisode, CountEpisode, BeginReset, ResetEnds, AfterReset, Complete,
        Frame, TakeFails, Teardown, Finalize, Disconnect, Push, NoteFailure,
        NotePhase, ClearActive, Press, Handler, HandlerWrites, HandlerDies,
        HandlerReplies, vars, Phases
<1>4. active' \in BOOLEAN /\ given' \in BOOLEAN
  BY DEF Next, Start, ClaimRecording, LaunchWorker, LaunchFails, Setup,
        CreateDataset, CreateFails, ConnectDevices, ConnectFails, Loop,
        BeginTake, Arm, TakeExits, TakeTimesOut, Decide, DiscardTake, KeepTake,
        SaveEpisode, CountEpisode, BeginReset, ResetEnds, AfterReset, Complete,
        Frame, TakeFails, Teardown, Finalize, Disconnect, Push, NoteFailure,
        NotePhase, ClearActive, Press, Handler, HandlerWrites, HandlerDies,
        HandlerReplies, vars, session
<1>5. /\ failing' \in BOOLEAN /\ buffer' \in BOOLEAN /\ bus' \in BOOLEAN
      /\ dataset' \in {"none", "open", "final", "broken"}
  BY DEF Next, Start, ClaimRecording, LaunchWorker, LaunchFails, Setup,
        CreateDataset, CreateFails, ConnectDevices, ConnectFails, Loop,
        BeginTake, Arm, TakeExits, TakeTimesOut, Decide, DiscardTake, KeepTake,
        SaveEpisode, CountEpisode, BeginReset, ResetEnds, AfterReset, Complete,
        Frame, TakeFails, Teardown, Finalize, Disconnect, Push, NoteFailure,
        NotePhase, ClearActive, Press, Handler, HandlerWrites, HandlerDies,
        HandlerReplies, vars, data
<1> QED  BY <1>1, <1>2, <1>3, <1>4, <1>5

(* The types, part by part.                                                  *)
LEMMA TypeStep == TypeOK /\ CountInv /\ [Next]_vars => TypeOK'
BY EventsStep, InfoStep, RequestsStep, HistoryStep, ScalarsStep, ActiveStep
DEF TypeOK, ScalarsOK, ActiveOK, RequestsOK, HistoryOK, InfoOK

(* What the theorems rest on.                                                *)
LEMMA Inductive == Spec => []IInv
<1>1. IInv /\ [Next]_vars => IInv'
  BY TypeStep, CountStep, OpenStep, PhaseStep, StopStep DEF IInv
<1> QED  BY InitIInv, <1>1, PTL DEF Spec

-----------------------------------------------------------------------------
(* The types, for any number of episodes, requests and sessions; they        *)
(* include that the flag is up for as long as the worker is about.           *)
THEOREM TypeCorrect == Spec => []TypeOK
BY Inductive, PTL DEF IInv

(* However a session ends, no bus is open and its dataset has been closed.   *)
THEOREM DevicesReleased == Spec => []NothingLeftOpen
<1>1. IInv => NothingLeftOpen
  BY DEF IInv, TypeOK, OpenInv, NothingLeftOpen
<1> QED  BY Inductive, <1>1, PTL

(* What is reported of a session is the number of its episodes on disk.      *)
THEOREM ReportsCountKept == Spec => []ReportCountsKept
<1>1. IInv => ReportCountsKept
  BY DEF IInv, CountInv, ReportCountsKept
<1> QED  BY Inductive, <1>1, PTL

(* After the answer to a stop no new take gets frames.                       *)
THEOREM StopsEndRecording == Spec => StopEndsRecording
<1>1. IInv /\ [Next]_vars => [stopped /\ stopped' => (buffer' => buffer)]_vars
  <2> SUFFICES ASSUME IInv, Next, stopped, buffer'
               PROVE  buffer
    OBVIOUS
  <2>1. ~Frame
    BY DEF IInv, StopInv, Ends, Frame
  <2> QED
    BY <2>1
    DEF Next, Start, ClaimRecording, LaunchWorker, LaunchFails, Setup,
        CreateDataset, CreateFails, ConnectDevices, ConnectFails, Loop,
        BeginTake, Arm, TakeExits, TakeTimesOut, Decide, DiscardTake, KeepTake,
        SaveEpisode, CountEpisode, BeginReset, ResetEnds, AfterReset, Complete,
        TakeFails, Teardown, Finalize, Disconnect, Push, NoteFailure,
        NotePhase, ClearActive, Press, Handler, HandlerWrites, HandlerDies,
        HandlerReplies, data
<1> QED  BY Inductive, <1>1, PTL DEF Spec, StopEndsRecording

(* Every step of the session is a step of RecordingService, or none.         *)
LEMMA ServiceStep ==
  IInv /\ [Next]_vars => [Service!ServiceNext]_(Service!service)
<1> SUFFICES ASSUME IInv, [Next]_vars
             PROVE  \/ Service!ServiceNext
                    \/ UNCHANGED <<active, phase, kept>>
  BY DEF Service!service
<1> USE DEF IInv, At
<1>1. CASE Start
  <2>1. CASE ClaimRecording
    BY <2>1 DEF ClaimRecording, TypeOK, data, Service!ServiceNext,
                Service!BeginSession
  <2>2. CASE LaunchWorker
    BY <2>2 DEF LaunchWorker, data
  <2>3. CASE LaunchFails
    <3>1. active /\ active' = FALSE /\ UNCHANGED <<phase, kept>>
          /\ phase \in {"preparing", "stopping"}
      BY <2>3 DEF LaunchFails, TypeOK, PhaseInv, data
    <3> QED
      BY <3>1 DEF Service!ServiceNext, Service!EndSession,
                  Service!AbortSession
  <2> QED  BY <1>1, <2>1, <2>2, <2>3 DEF Start
<1>2. CASE Setup
  BY <1>2 DEF Setup, CreateDataset, CreateFails, ConnectDevices, ConnectFails,
              session
<1>3. CASE Loop
  <2>1. CASE BeginTake \/ BeginReset \/ Complete
    BY <2>1 DEF BeginTake, BeginReset, Complete, TypeOK, PhaseInv, session,
                data, Service!ServiceNext, Service!ChangePhase,
                Service!Phases
  <2>2. CASE SaveEpisode
    BY <2>2 DEF SaveEpisode, TypeOK, CountInv, Worker, session,
                Service!ServiceNext, Service!KeepEpisode
  <2>3. CASE ~(BeginTake \/ BeginReset \/ Complete \/ SaveEpisode)
    BY <1>3, <2>3
    DEF Loop, Arm, TakeExits, TakeTimesOut, Decide, DiscardTake, KeepTake,
        CountEpisode, ResetEnds, AfterReset, session, data
  <2> QED  BY <2>1, <2>2, <2>3
<1>4. CASE Frame \/ TakeFails
  BY <1>4 DEF Frame, TakeFails, session
<1>5. CASE Teardown
  <2>1. CASE Finalize \/ Disconnect \/ Push
    BY <2>1 DEF Finalize, Disconnect, Push, session, data
  <2>2. CASE NoteFailure \/ NotePhase
    BY <2>2 DEF NoteFailure, NotePhase, TypeOK, session, data,
                Service!ServiceNext, Service!ChangePhase, Service!Phases
  <2>3. CASE ClearActive
    BY <2>3 DEF ClearActive, TypeOK, PhaseInv, data, Service!ServiceNext,
                Service!EndSession
  <2> QED  BY <1>5, <2>1, <2>2, <2>3 DEF Teardown
<1>6. ASSUME NEW r \in Requests, Press(r) \/ HandlerDies(r)
                                   \/ HandlerReplies(r)
      PROVE  UNCHANGED <<active, phase, kept>>
  BY <1>6 DEF Press, HandlerDies, HandlerReplies, session, data
<1>7. ASSUME NEW r \in Requests, HandlerWrites(r)
      PROVE  \/ Service!ServiceNext
             \/ UNCHANGED <<active, phase, kept>>
  <2>1. UNCHANGED <<active, kept>>
        /\ (UNCHANGED phase \/ phase' = "stopping")
    BY <1>7 DEF HandlerWrites, session, data
  <2> QED
    BY <2>1 DEF TypeOK, Service!ServiceNext, Service!ChangePhase,
                Service!StopLate, Service!Phases
<1>8. CASE UNCHANGED vars
  BY <1>8 DEF vars
<1> QED
  BY <1>1, <1>2, <1>3, <1>4, <1>5, <1>6, <1>7, <1>8 DEF Next, Handler

(* The session in detail is a session as RecordingService promises it to     *)
(* the pages, for any number of episodes, requests and sessions.             *)
THEOREM ServiceImplemented == Spec => ImplementsService
<1>1. Init => Service!ServiceInit
  BY DEF Init, Service!ServiceInit
<1> QED
  BY <1>1, Inductive, ServiceStep, PTL
  DEF Spec, ImplementsService, Service!ServiceSpec

=============================================================================
