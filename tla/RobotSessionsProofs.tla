------------------------- MODULE RobotSessionsProofs -------------------------
(***************************************************************************)
(* Theorems about RobotSessions, for any number of clients whose requests  *)
(* overlap at every step, and any number of sessions.                      *)
(***************************************************************************)
EXTENDS RobotSessions, FiniteSetTheorems, TLAPS

(* The parts of TypeOK.                                                      *)
Request ==
  [op : {"none", "start", "stop"}, mode : Modes,
   at : {"idle", "lock", "check", "launch", "spawn", "publish", "join", "ask",
         "kill", "reset"},
   unread : Seq(Modes), of : 0..MaxSessions]
RequestOK == req \in [Clients -> Request]
SessionOK ==
  /\ kind \in [Sessions -> Modes]
  /\ life \in [Sessions -> Life]
GlobalsOK ==
  /\ flag \in [Modes -> BOOLEAN]
  /\ thread \in 0..MaxSessions
  /\ proc \in 0..MaxSessions
  /\ events \in 0..MaxSessions
  /\ stopAsked \subseteq Sessions
  /\ watching \in BOOLEAN
  /\ group \in Groups
GuardOK ==
  /\ guard \in [Modes -> Clients \cup {NoClient}]
  /\ \A m \in Modes, c \in Clients :
       guard[m] = c <=> req[c].mode = m /\ req[c].at = "check"

(* What a session has behind it that runs, or ran, in a worker.              *)
Ran(s) == life[s] \in Life \ {"unused", "starting", "open"}

(* A request and the session it is about: a start owns its session until it  *)
(* hands it over; what is killed or polled is a rollout that was launched.   *)
OwnerInv ==
  /\ \A c \in Clients :
       /\ req[c].at = "launch" =>
            /\ req[c].of \in Sessions /\ kind[req[c].of] = req[c].mode
            /\ life[req[c].of] = "starting"
       /\ req[c].at = "spawn" =>
            /\ req[c].of \in Sessions /\ kind[req[c].of] = req[c].mode
            /\ life[req[c].of] = "open"
       /\ req[c].at \in {"publish", "kill"} =>
            /\ req[c].of \in Sessions /\ kind[req[c].of] = "rollout"
            /\ Ran(req[c].of)
  /\ \A c, d \in Clients :
       /\ req[c].at \in {"launch", "spawn"}
       /\ req[d].at \in {"launch", "spawn"}
       /\ req[c].of = req[d].of
       => c = d
  /\ proc # 0 => kind[proc] = "rollout" /\ Ran(proc)

Recording(s) == kind[s] = "record" /\ life[s] \notin {"unused", "gone"}

(* Whoever has looked at the flag of recordings under their lock and found   *)
(* it down may rely on that: only the holder of the lock puts it up, and it  *)
(* is up for as long as there is a recording.                                *)
RecordInv ==
  /\ \A s \in Sessions : Recording(s) => flag["record"]
  /\ \A s, t \in Sessions : Recording(s) /\ Recording(t) => s = t
  /\ \A c \in Clients :
       (/\ req[c].mode = "record" /\ req[c].at = "check"
        /\ req[c].unread # ReadOrder["record"]) => ~flag["record"]

IInv == TypeOK /\ OwnerInv /\ RecordInv

Live(s) == life[s] \notin {"unused", "gone"}

(* The stop that took the flag of a session down waits for its worker.       *)
Joins(c, s) ==
  kind[s] = "teleop" /\ At(c, "stop", "teleop", "join") /\ req[c].of = s

(* What holds when c is the only client: there is at most one session, the   *)
(* next start sees it or c itself is waiting for it, and the globals that a  *)
(* stop reads name it.                                                       *)
Sole(c) ==
  /\ \A d \in Clients \ {c} : req[d].at = "idle"
  /\ \A s, t \in Sessions : Live(s) /\ Live(t) => s = t
  /\ \A s \in Sessions : Live(s) =>
       /\ flag[kind[s]] \/ Joins(c, s)
       /\ ~Ran(s) => req[c].at \in {"launch", "spawn"} /\ req[c].of = s
       /\ kind[s] = "teleop" /\ Ran(s) => thread = s
       /\ kind[s] = "rollout" =>
            /\ life[s] \in {"starting", "preparing", "driving"}
            /\ \/ proc = s
               \/ req[c].at \in {"launch", "publish"} /\ req[c].of = s
  /\ req[c].at = "check" =>
       \A m \in Modes :
         flag[m] => \E i \in 1..Len(req[c].unread) : req[c].unread[i] = m
  /\ proc # 0 => flag["rollout"]
  /\ req[c].at = "launch" /\ req[c].mode = "rollout" => proc = 0
  /\ req[c].at = "publish" => proc = 0 /\ flag["rollout"]
  /\ req[c].at = "join" => thread = req[c].of
  /\ req[c].at = "kill" => proc \in {0, req[c].of}
  /\ req[c].at = "reset" =>
       \A s \in Sessions : kind[s] = "rollout" => ~Live(s)

SoleInv == \A c \in Clients : group.clients = {c} => Sole(c)

-----------------------------------------------------------------------------
(* A step is one of a request, of the poll, of a session, or none.           *)
LEMMA Steps ==
  ASSUME SessionsAssumption, group \in Groups, [Next]_vars
  PROVE  \/ \E c \in Clients : NewRequest(c) \/ Continues(c) \/ Locks(c)
         \/ PollRollout
         \/ \E s \in Sessions : Works(s) \/ Leaves(s)
         \/ UNCHANGED <<flag, guard, req, kind, life, thread, proc, events,
                        stopAsked>>
BY DEF Next, ServerStep, vars, server, SessionsAssumption

(* What a start claims is a session.                                         *)
LEMMA ClaimsSession ==
  ASSUME SessionsAssumption, group \in Groups
  PROVE  1..group.sessions \subseteq Sessions
<1>1. group.sessions \in 0..MaxSessions
  BY DEF SessionsAssumption
<1> QED  BY <1>1 DEF SessionsAssumption, Sessions

(* The requests stay requests.                                               *)
LEMMA RequestStep ==
  RequestOK /\ GlobalsOK /\ [Next]_vars => RequestOK'
<1> SUFFICES ASSUME RequestOK, GlobalsOK, [Next]_vars
             PROVE  RequestOK'
  OBVIOUS
<1> USE SessionsAssumption DEF RequestOK
<1>1. CASE UNCHANGED req
  BY <1>1
<1>2. ASSUME NEW c \in Clients, Replies(c)
      PROVE  RequestOK'
  <2>1. NoRequest.unread \in Seq(Modes)
    BY DEF NoRequest
  <2> QED  BY <1>2, <2>1 DEF Replies, NoRequest, Modes, Request
<1>3. ASSUME NEW c \in Clients, StartRequest(c)
      PROVE  RequestOK'
  <2>1. PICK m \in Modes :
          req' = [req EXCEPT ![c] = [NoRequest EXCEPT
                    !.op = "start", !.mode = m, !.at = "lock"]]
    BY <1>3 DEF StartRequest
  <2>2. [NoRequest EXCEPT !.op = "start", !.mode = m, !.at = "lock"]
          \in Request
    <3>1. NoRequest \in Request
      BY DEF NoRequest, Request, Modes
    <3> QED  BY <3>1 DEF Request
  <2> QED  BY <2>1, <2>2
<1>4. ASSUME NEW c \in Clients, StopTeleop(c) \/ StopRecording(c)
                                \/ StopRollout(c)
      PROVE  RequestOK'
  <2>1. PICK m \in {"teleop", "record", "rollout"},
             at \in {"join", "ask", "kill"}, s \in 0..MaxSessions :
          Stops(c, m, at, s)
    BY <1>4 DEF StopTeleop, StopRecording, StopRollout, GlobalsOK
  <2>2. NoRequest.unread \in Seq(Modes)
    BY DEF NoRequest
  <2> QED  BY <2>1, <2>2 DEF Stops, NoRequest, Modes, Request
<1>5. ASSUME NEW c \in Clients, TakeLock(c)
      PROVE  RequestOK'
  <2>1. req[c].mode \in Modes
    BY DEF Request
  <2>2. /\ ReadOrder["teleop"] \in Seq(Modes)
        /\ ReadOrder["record"] \in Seq(Modes)
        /\ ReadOrder["rollout"] \in Seq(Modes)
    BY DEF ReadOrder, Modes
  <2>3. ReadOrder[req[c].mode] \in Seq(Modes)
    BY <2>1, <2>2 DEF Modes
  <2> HIDE DEF ReadOrder
  <2>4. [req[c] EXCEPT !.at = "check", !.unread = ReadOrder[req[c].mode]]
          \in Request
    BY <2>3 DEF Request
  <2>5. req' = [req EXCEPT ![c] =
                 [req[c] EXCEPT !.at = "check",
                                !.unread = ReadOrder[req[c].mode]]]
    BY <1>5 DEF TakeLock
  <2> QED  BY <2>4, <2>5
<1>6. ASSUME NEW c \in Clients, ReadFlag(c)
      PROVE  RequestOK'
  <2>1. Tail(req[c].unread) \in Seq(Modes)
    BY <1>6 DEF ReadFlag, Request
  <2> QED  BY <1>6, <2>1 DEF ReadFlag, Request
<1>7. ASSUME NEW c \in Clients, Claim(c)
      PROVE  RequestOK'
  <2>1. PICK s \in Sessions :
          req' = [req EXCEPT ![c].at = "launch", ![c].of = s]
    BY <1>7, ClaimsSession DEF Claim, GlobalsOK
  <2>2. [req[c] EXCEPT !.at = "launch", !.of = s] \in Request
    <3>1. req[c] \in Request /\ s \in 0..MaxSessions
      BY DEF Sessions
    <3> QED  BY <3>1 DEF Request
  <2>3. req' = [req EXCEPT ![c] = [req[c] EXCEPT !.at = "launch", !.of = s]]
    BY <2>1
  <2> QED  BY <2>2, <2>3
<1>8. ASSUME NEW c \in Clients, NEW at \in {"spawn", "publish", "reset"},
             GoesTo(c, at)
      PROVE  RequestOK'
  BY <1>8 DEF GoesTo, Request
<1> QED
  BY Steps, <1>1, <1>2, <1>3, <1>4, <1>5, <1>6, <1>7, <1>8
  DEF GlobalsOK, NewRequest, Continues, Locks, Refuse, StartFails, ConnectArms,
      SpawnTeleop, SpawnRecorder, SpawnRollout, JoinEnds, AskRecorder,
      KillRollout, PublishRollout, ResetRollout, PollRollout, Works, Leaves,
      Opens, LeavesWhenTold, Disconnects, ClearsFlag, RolloutExits

(* Sessions have modes and lives.                                            *)
LEMMA SessionStep ==
  RequestOK /\ SessionOK /\ GlobalsOK /\ [Next]_vars => SessionOK'
<1> SUFFICES ASSUME RequestOK, SessionOK, GlobalsOK, [Next]_vars
             PROVE  SessionOK'
  OBVIOUS
<1> USE SessionsAssumption DEF SessionOK
<1>1. CASE UNCHANGED <<kind, life>>
  BY <1>1
<1>2. ASSUME NEW s, NEW l \in Life, Becomes(s, l), UNCHANGED kind
      PROVE  SessionOK'
  BY <1>2 DEF Becomes
<1>3. ASSUME NEW c \in Clients, Claim(c)
      PROVE  SessionOK'
  BY <1>3 DEF Claim, Becomes, RequestOK, Request, Life
<1> QED
  BY Steps, <1>1, <1>2, <1>3
  DEF GlobalsOK, Life, NewRequest, Continues, Locks, StartRequest, StopTeleop,
      StopRecording, StopRollout, TakeLock, ReadFlag, Refuse, StartFails,
      ConnectArms, SpawnTeleop, SpawnRecorder, SpawnRollout, JoinEnds,
      AskRecorder, KillRollout, PublishRollout, ResetRollout, PollRollout,
      Works, Leaves, Opens, LeavesWhenTold, Disconnects, ClearsFlag,
      RolloutExits

(* The globals stay what they are.                                           *)
LEMMA GlobalsStep ==
  RequestOK /\ GlobalsOK /\ [Next]_vars => GlobalsOK'
<1> SUFFICES ASSUME RequestOK, GlobalsOK, [Next]_vars
             PROVE  GlobalsOK'
  OBVIOUS
<1> USE SessionsAssumption
<1>0. group' \in Groups /\ watching' \in BOOLEAN
  BY DEF GlobalsOK, Next, PageOpens, PageLeaves, vars
<1>1. \A c \in Clients : req[c].of \in 0..MaxSessions /\ req[c].mode \in Modes
  BY DEF RequestOK, Request
<1>2. flag' \in [Modes -> BOOLEAN]
  <2>1. CASE UNCHANGED flag
    BY <2>1 DEF GlobalsOK
  <2>2. CASE \E m, b \in BOOLEAN : flag' = [flag EXCEPT ![m] = b]
    BY <2>2 DEF GlobalsOK
  <2> QED
    BY Steps, <2>1, <2>2
    DEF GlobalsOK, NewRequest, Continues, Locks, StartRequest, StopTeleop,
        StopRecording, StopRollout, TakeLock, ReadFlag, Refuse, Claim,
        StartFails, ConnectArms, SpawnTeleop, SpawnRecorder, SpawnRollout,
        JoinEnds, AskRecorder, KillRollout, PublishRollout, ResetRollout,
        PollRollout, Works, Leaves, Opens, LeavesWhenTold, Disconnects,
        ClearsFlag, RolloutExits
<1>3. /\ thread' \in 0..MaxSessions /\ proc' \in 0..MaxSessions
      /\ events' \in 0..MaxSessions
  <2>1. CASE UNCHANGED <<thread, proc, events>>
    BY <2>1 DEF GlobalsOK
  <2>2. ASSUME NEW c \in Clients,
               \/ Claim(c) \/ SpawnTeleop(c) \/ SpawnRecorder(c)
               \/ JoinEnds(c) \/ PublishRollout(c) \/ ResetRollout(c)
        PROVE  /\ thread' \in 0..MaxSessions /\ proc' \in 0..MaxSessions
               /\ events' \in 0..MaxSessions
    BY <2>2, <1>1 DEF GlobalsOK, Claim, SpawnTeleop, SpawnRecorder, JoinEnds,
                      PublishRollout, ResetRollout, SessionsAssumption
  <2>3. CASE PollRollout
    BY <2>3 DEF GlobalsOK, PollRollout, SessionsAssumption
  <2> QED
    BY Steps, <2>1, <2>2, <2>3
    DEF GlobalsOK, NewRequest, Continues, Locks, StartRequest, StopTeleop,
        StopRecording, StopRollout, TakeLock, ReadFlag, Refuse, StartFails,
        ConnectArms, SpawnRollout, AskRecorder, KillRollout, Works, Leaves,
        Opens, LeavesWhenTold, Disconnects, ClearsFlag, RolloutExits
<1>4. stopAsked' \subseteq Sessions
  <2>1. CASE UNCHANGED stopAsked
    BY <2>1 DEF GlobalsOK
  <2>2. ASSUME NEW c \in Clients, AskRecorder(c)
        PROVE  stopAsked' \subseteq Sessions
    BY <2>2 DEF AskRecorder, GlobalsOK, Sessions, SessionsAssumption
  <2> QED
    BY Steps, <2>1, <2>2
    DEF GlobalsOK, NewRequest, Continues, Locks, StartRequest, StopTeleop,
        StopRecording, StopRollout, TakeLock, ReadFlag, Refuse, Claim,
        StartFails, ConnectArms, SpawnTeleop, SpawnRecorder, SpawnRollout,
        JoinEnds, KillRollout, PublishRollout, ResetRollout, PollRollout,
        Works, Leaves, Opens, LeavesWhenTold, Disconnects, ClearsFlag,
        RolloutExits
<1> QED  BY <1>0, <1>2, <1>3, <1>4 DEF GlobalsOK

(* A lock is held by the start that is between its two flag tests and its    *)
(* claim, and by nobody else.                                                *)
LEMMA GuardStep ==
  RequestOK /\ GlobalsOK /\ GuardOK /\ [Next]_vars => GuardOK'
<1> SUFFICES ASSUME RequestOK, GlobalsOK, GuardOK, [Next]_vars
             PROVE  GuardOK'
  OBVIOUS
<1> USE SessionsAssumption DEF GuardOK
<1>1. CASE UNCHANGED <<guard, req>>
  BY <1>1
<1>2. ASSUME NEW c \in Clients, NEW r, req' = [req EXCEPT ![c] = r],
             req[c].at # "check", r.at # "check", UNCHANGED guard
      PROVE  GuardOK'
  BY <1>2 DEF RequestOK
<1>3. ASSUME NEW c \in Clients, NEW r, req' = [req EXCEPT ![c] = r],
             req[c].at = "check", r.at # "check",
             guard' = [guard EXCEPT ![req[c].mode] = NoClient]
      PROVE  GuardOK'
  <2>1. req[c].mode \in Modes
    BY DEF RequestOK, Request
  <2> QED  BY <1>3, <2>1 DEF RequestOK, SessionsAssumption
<1>4. ASSUME NEW c \in Clients, TakeLock(c)
      PROVE  GuardOK'
  <2>1. req[c].mode \in Modes /\ req \in [Clients -> Request]
    BY DEF RequestOK, Request
  <2>2. /\ req'[c].at = "check" /\ req'[c].mode = req[c].mode
        /\ req[c].at = "lock"
        /\ \A d \in Clients \ {c} : req'[d] = req[d]
        /\ guard[req[c].mode] = NoClient
        /\ guard' = [guard EXCEPT ![req[c].mode] = c]
    BY <1>4, <2>1 DEF TakeLock, Request
  <2> QED  BY <2>1, <2>2 DEF SessionsAssumption
<1>5. ASSUME NEW c \in Clients, ReadFlag(c)
      PROVE  GuardOK'
  <2>1. req \in [Clients -> Request]
    BY DEF RequestOK
  <2>2. /\ req'[c].at = req[c].at /\ req'[c].mode = req[c].mode
        /\ \A d \in Clients \ {c} : req'[d] = req[d]
        /\ guard' = guard
    BY <1>5, <2>1 DEF ReadFlag, Request
  <2> QED  BY <2>2
<1>6. ASSUME NEW c \in Clients, Refuse(c)
      PROVE  GuardOK'
  <2>1. /\ req' = [req EXCEPT ![c] = NoRequest] /\ req[c].at = "check"
        /\ guard' = [guard EXCEPT ![req[c].mode] = NoClient]
    BY <1>6 DEF Refuse, Replies
  <2>2. NoRequest.at # "check"
    BY DEF NoRequest
  <2> QED  BY <2>1, <2>2, <1>3
<1>7. ASSUME NEW c \in Clients, Claim(c)
      PROVE  GuardOK'
  <2>1. PICK s : req' = [req EXCEPT ![c].at = "launch", ![c].of = s]
    BY <1>7 DEF Claim
  <2>2. req' = [req EXCEPT ![c] = [req[c] EXCEPT !.at = "launch", !.of = s]]
    <3>1. req \in [Clients -> Request]
      BY DEF RequestOK
    <3> HIDE DEF GuardOK
    <3> QED  BY <2>1, <3>1
  <2>3. [req[c] EXCEPT !.at = "launch", !.of = s].at = "launch"
    <3>1. req[c] \in Request
      BY DEF RequestOK
    <3> QED  BY <3>1 DEF Request
  <2> QED  BY <1>3, <1>7, <2>2, <2>3 DEF Claim
<1>8. ASSUME NEW c \in Clients, NewRequest(c)
      PROVE  GuardOK'
  <2>1. Idle(c) /\ UNCHANGED guard
    BY <1>8 DEF NewRequest, StartRequest, StopTeleop, StopRecording,
                StopRollout, Stops
  <2>2. CASE StartRequest(c)
    <3>1. PICK m \in Modes :
            req' = [req EXCEPT ![c] = [NoRequest EXCEPT
                      !.op = "start", !.mode = m, !.at = "lock"]]
      BY <2>2 DEF StartRequest
    <3>2. [NoRequest EXCEPT !.op = "start", !.mode = m,
                            !.at = "lock"].at # "check"
      BY DEF NoRequest
    <3> QED  BY <2>1, <3>1, <3>2, <1>2 DEF Idle, NoRequest
  <2>3. CASE StopTeleop(c) \/ StopRecording(c) \/ StopRollout(c)
    <3>1. PICK m \in Modes, at \in {"join", "ask", "kill"},
               s \in {thread, 0, proc} :
            Stops(c, m, at, s)
      BY <2>3 DEF StopTeleop, StopRecording, StopRollout, Modes
    <3>2. [NoRequest EXCEPT !.op = "stop", !.mode = m, !.at = at,
                            !.of = s].at # "check"
      BY DEF NoRequest
    <3> QED  BY <2>1, <3>1, <3>2, <1>2 DEF Stops, Idle, NoRequest
  <2> QED  BY <1>8, <2>2, <2>3 DEF NewRequest
<1>9. ASSUME NEW c \in Clients, Replies(c), UNCHANGED guard,
             req[c].at # "check"
      PROVE  GuardOK'
  BY <1>9, <1>2 DEF Replies, NoRequest
<1>10. ASSUME NEW c \in Clients, NEW at \in {"spawn", "publish", "reset"},
              GoesTo(c, at), UNCHANGED guard, req[c].at # "check"
       PROVE  GuardOK'
  <2>1. req' = [req EXCEPT ![c] = [req[c] EXCEPT !.at = at]]
        /\ [req[c] EXCEPT !.at = at].at = at
    BY <1>10 DEF GoesTo, RequestOK, Request
  <2> QED  BY <1>2, <1>10, <2>1
<1> QED
  BY Steps, <1>1, <1>4, <1>5, <1>6, <1>7, <1>8, <1>9, <1>10
  DEF GlobalsOK, Continues, Locks, At, StartFails, ConnectArms, SpawnTeleop,
      SpawnRecorder, SpawnRollout, JoinEnds, AskRecorder, KillRollout,
      PublishRollout, ResetRollout, PollRollout, Works, Leaves, Opens,
      LeavesWhenTold, Disconnects, ClearsFlag, RolloutExits

(* Only its start touches a session before it runs, and only launched        *)
(* rollouts are killed or polled.                                            *)
LEMMA OwnerStep ==
  RequestOK /\ SessionOK /\ GlobalsOK /\ OwnerInv /\ [Next]_vars => OwnerInv'
<1> SUFFICES ASSUME RequestOK, SessionOK, GlobalsOK, OwnerInv, [Next]_vars
             PROVE  OwnerInv'
  OBVIOUS
<1> USE SessionsAssumption DEF OwnerInv, Ran
<1>0. req \in [Clients -> Request]
  BY DEF RequestOK
<1>1. CASE UNCHANGED <<kind, life, req>> /\ proc' \in {0, proc}
  BY <1>1
<1>2. ASSUME NEW c \in Clients, NEW r, req' = [req EXCEPT ![c] = r],
             r.at \notin {"launch", "spawn", "publish", "kill"},
             UNCHANGED <<kind, life>>, proc' \in {0, proc}
      PROVE  OwnerInv'
  BY <1>0, <1>2
<1>3. ASSUME NEW c \in Clients, StartRequest(c) \/ StopTeleop(c)
                                \/ StopRecording(c)
      PROVE  OwnerInv'
  <2>1. PICK r : /\ req' = [req EXCEPT ![c] = r]
                 /\ r.at \in {"lock", "join", "ask"}
    <3>1. CASE StartRequest(c)
      <4>1. PICK m \in Modes :
              req' = [req EXCEPT ![c] = [NoRequest EXCEPT
                        !.op = "start", !.mode = m, !.at = "lock"]]
        BY <3>1 DEF StartRequest
      <4>2. [NoRequest EXCEPT !.op = "start", !.mode = m,
                              !.at = "lock"].at = "lock"
        BY DEF NoRequest
      <4> QED  BY <4>1, <4>2
    <3>2. CASE StopTeleop(c) \/ StopRecording(c)
      <4>1. PICK m \in Modes, at \in {"join", "ask"}, s \in {0, thread} :
              Stops(c, m, at, s)
        BY <3>2 DEF StopTeleop, StopRecording, Modes
      <4>2. [NoRequest EXCEPT !.op = "stop", !.mode = m, !.at = at,
                              !.of = s].at = at
        BY DEF NoRequest
      <4> QED  BY <4>1, <4>2 DEF Stops
    <3> QED  BY <1>3, <3>1, <3>2
  <2>2. UNCHANGED <<kind, life, proc>>
    BY <1>3 DEF StartRequest, StopTeleop, StopRecording
  <2> QED  BY <1>2, <2>1, <2>2
<1>4. ASSUME NEW c \in Clients, Replies(c), UNCHANGED <<kind, life>>,
             proc' \in {0, proc}
      PROVE  OwnerInv'
  <2>1. NoRequest.at = "idle"
    BY DEF NoRequest
  <2> QED  BY <1>2, <1>4, <2>1 DEF Replies
<1>5. ASSUME NEW c \in Clients, TakeLock(c) \/ ReadFlag(c)
      PROVE  OwnerInv'
  <2>1. /\ req'[c].at = "check" /\ \A d \in Clients \ {c} : req'[d] = req[d]
        /\ UNCHANGED <<kind, life, proc>>
    BY <1>0, <1>5 DEF TakeLock, ReadFlag, Request
  <2> QED  BY <2>1
<1>6. ASSUME NEW c \in Clients, StopRollout(c)
      PROVE  OwnerInv'
  <2>1. /\ req' = [req EXCEPT ![c] = [NoRequest EXCEPT !.op = "stop",
                     !.mode = "rollout", !.at = "kill", !.of = proc]]
        /\ proc # 0 /\ proc \in 0..MaxSessions
        /\ UNCHANGED <<kind, life, proc>>
    BY <1>6 DEF StopRollout, Stops, GlobalsOK
  <2>2. /\ req'[c].at = "kill" /\ req'[c].of = proc
        /\ \A d \in Clients \ {c} : req'[d] = req[d]
    BY <1>0, <2>1 DEF NoRequest
  <2> QED  BY <2>1, <2>2 DEF Sessions
<1>7. ASSUME NEW c \in Clients, Claim(c)
      PROVE  OwnerInv'
  <2>1. PICK s \in Sessions :
          /\ life[s] = "unused" /\ Becomes(s, "starting")
          /\ kind' = [kind EXCEPT ![s] = req[c].mode]
          /\ req' = [req EXCEPT ![c].at = "launch", ![c].of = s]
          /\ UNCHANGED proc
    BY <1>7, ClaimsSession DEF Claim, GlobalsOK
  <2>2. /\ req'[c].at = "launch" /\ req'[c].of = s
        /\ req'[c].mode = req[c].mode
        /\ \A d \in Clients \ {c} : req'[d] = req[d]
    BY <1>0, <2>1 DEF Request
  <2>3. /\ kind'[s] = req[c].mode /\ life'[s] = "starting"
        /\ \A t \in Sessions \ {s} : kind'[t] = kind[t] /\ life'[t] = life[t]
    BY <2>1 DEF SessionOK, Becomes
  <2>4. proc # 0 => proc \in Sessions \ {s}
    BY <2>1 DEF GlobalsOK, Sessions
  <2>5. \A d \in Clients \ {c} :
          req[d].at \in {"launch", "spawn"} => req[d].of # s
    BY <2>1
  <2>6. \A d, e \in Clients :
          /\ req'[d].at \in {"launch", "spawn"}
          /\ req'[e].at \in {"launch", "spawn"}
          /\ req'[d].of = req'[e].of
          => d = e
    BY <2>2, <2>5
  <2>7. proc' # 0 => kind'[proc'] = "rollout" /\ Ran(proc)'
    BY <2>1, <2>3, <2>4
  <2>8. ASSUME NEW d \in Clients
        PROVE  /\ req'[d].at = "launch" =>
                    /\ req'[d].of \in Sessions
                    /\ kind'[req'[d].of] = req'[d].mode
                    /\ life'[req'[d].of] = "starting"
               /\ req'[d].at = "spawn" =>
                    /\ req'[d].of \in Sessions
                    /\ kind'[req'[d].of] = req'[d].mode
                    /\ life'[req'[d].of] = "open"
               /\ req'[d].at \in {"publish", "kill"} =>
                    /\ req'[d].of \in Sessions
                    /\ kind'[req'[d].of] = "rollout"
                    /\ Ran(req[d].of)'
    <3>1. CASE d = c
      BY <3>1, <2>2, <2>3
    <3>2. CASE d # c
      <4>1. req'[d] = req[d]
        BY <3>2, <2>2
      <4>2. req[d].at \in {"launch", "spawn", "publish", "kill"}
              => req[d].of \in Sessions \ {s}
        BY <2>1
      <4> QED  BY <4>1, <4>2, <2>3
    <3> QED  BY <3>1, <3>2
  <2> QED  BY <2>6, <2>7, <2>8
<1>8. ASSUME NEW c \in Clients, NEW s \in Sessions, NEW l \in Life,
             life' = [life EXCEPT ![s] = l], UNCHANGED <<kind, proc>>,
             l \notin {"unused", "starting", "open"},
             \A d \in Clients \ {c} : req'[d] = req[d],
             \/ req[c].at \in {"launch", "spawn"} /\ req[c].of = s
             \/ Ran(s),
             \/ req'[c].at \notin {"launch", "spawn", "publish", "kill"}
             \/ /\ req'[c].at = "publish" /\ req'[c].of = s
                /\ kind[s] = "rollout"
      PROVE  OwnerInv'
  <2>1. /\ life'[s] = l /\ \A t \in Sessions \ {s} : life'[t] = life[t]
    BY <1>8 DEF SessionOK
  <2>2. proc # 0 => proc \in Sessions
    BY DEF GlobalsOK, Sessions
  <2> QED  BY <1>8, <2>1, <2>2
<1>9. ASSUME NEW c \in Clients,
             StartFails(c) \/ SpawnTeleop(c) \/ SpawnRecorder(c)
      PROVE  OwnerInv'
  <2>1. /\ req[c].at \in {"launch", "spawn"} /\ Replies(c)
        /\ UNCHANGED <<kind, proc>>
        /\ req[c].of \in Sessions
    BY <1>9 DEF StartFails, SpawnTeleop, SpawnRecorder, At
  <2>2. /\ req'[c].at = "idle"
        /\ \A d \in Clients \ {c} : req'[d] = req[d]
    BY <1>0, <2>1 DEF Replies, NoRequest
  <2>3. PICK l \in {"gone", "driving", "preparing"} : Becomes(req[c].of, l)
    BY <1>9 DEF StartFails, SpawnTeleop, SpawnRecorder
  <2>4. life' = [life EXCEPT ![req[c].of] = l] /\ l \in Life
    BY <2>3 DEF Becomes, Life
  <2> QED  BY <1>8, <2>1, <2>2, <2>3, <2>4
<1>10. ASSUME NEW c \in Clients, SpawnRollout(c)
       PROVE  OwnerInv'
  <2>1. /\ req[c].at = "launch" /\ req[c].mode = "rollout"
        /\ Becomes(req[c].of, "preparing")
        /\ UNCHANGED <<kind, proc>>
    BY <1>10 DEF SpawnRollout, At
  <2>2. /\ req'[c].at = "publish" /\ req'[c].of = req[c].of
        /\ \A d \in Clients \ {c} : req'[d] = req[d]
    BY <1>0, <1>10 DEF SpawnRollout, GoesTo, Request
  <2> QED  BY <1>8, <2>1, <2>2 DEF Becomes, Life
<1>11. ASSUME NEW c \in Clients, KillRollout(c)
       PROVE  OwnerInv'
  <2>1. /\ req[c].at = "kill" /\ Becomes(req[c].of, "gone")
        /\ UNCHANGED <<kind, proc>>
    BY <1>11 DEF KillRollout, At
  <2>2. /\ req'[c].at = "reset"
        /\ \A d \in Clients \ {c} : req'[d] = req[d]
    BY <1>0, <1>11 DEF KillRollout, GoesTo, Request
  <2> QED  BY <1>8, <2>1, <2>2 DEF Becomes, Life
<1>12. ASSUME NEW c \in Clients, ConnectArms(c)
       PROVE  OwnerInv'
  <2>1. /\ req[c].at = "launch" /\ req[c].of \in Sessions
        /\ life' = [life EXCEPT ![req[c].of] = "open"]
        /\ UNCHANGED <<kind, proc>>
    BY <1>12 DEF ConnectArms, At, Becomes
  <2>2. /\ req'[c].at = "spawn" /\ req'[c].of = req[c].of
        /\ req'[c].mode = req[c].mode
        /\ \A d \in Clients \ {c} : req'[d] = req[d]
    BY <1>0, <1>12 DEF ConnectArms, GoesTo, Request
  <2>3. /\ life'[req[c].of] = "open"
        /\ \A t \in Sessions \ {req[c].of} : life'[t] = life[t]
    BY <2>1 DEF SessionOK
  <2>4. proc # 0 => proc \in Sessions
    BY DEF GlobalsOK, Sessions
  <2> QED  BY <2>1, <2>2, <2>3, <2>4
<1>13. ASSUME NEW c \in Clients, PublishRollout(c)
       PROVE  OwnerInv'
  <2>1. /\ req[c].at = "publish" /\ Replies(c) /\ proc' = req[c].of
        /\ UNCHANGED <<kind, life>>
    BY <1>13 DEF PublishRollout, At
  <2>2. /\ req'[c].at = "idle"
        /\ \A d \in Clients \ {c} : req'[d] = req[d]
    BY <1>0, <2>1 DEF Replies, NoRequest
  <2> QED  BY <2>1, <2>2
<1>14. ASSUME NEW s \in Sessions, Works(s) \/ Leaves(s)
       PROVE  OwnerInv'
  <2>1. /\ Ran(s) /\ UNCHANGED <<kind, proc, req>>
        /\ \E l \in {"driving", "closing", "closed", "gone"} : Becomes(s, l)
    BY <1>14 DEF Works, Opens, LeavesWhenTold, Disconnects, ClearsFlag,
                 RolloutExits, Leaves, Life
  <2>2. /\ life'[s] \in Life \ {"unused", "starting", "open"}
        /\ \A t \in Sessions \ {s} : life'[t] = life[t]
    BY <2>1 DEF SessionOK, Becomes, Life
  <2>3. proc # 0 => proc \in Sessions
    BY DEF GlobalsOK, Sessions
  <2> QED  BY <2>1, <2>2, <2>3
<1> QED
  BY Steps, <1>1, <1>3, <1>4, <1>5, <1>6, <1>7, <1>9, <1>10, <1>11, <1>12,
     <1>13, <1>14
  DEF GlobalsOK, NewRequest, Continues, Locks, Refuse, JoinEnds, AskRecorder,
      ResetRollout, PollRollout

(* A claim finds no recording, since it has read the flag under the lock     *)
(* that every other claim of a recording needs; and who takes the flag down  *)
(* ends the one recording there is.                                          *)
LEMMA RecordStep ==
  RequestOK /\ SessionOK /\ GlobalsOK /\ GuardOK /\ OwnerInv /\ RecordInv
    /\ [Next]_vars => RecordInv'
<1> SUFFICES ASSUME RequestOK, SessionOK, GlobalsOK, GuardOK, OwnerInv,
                    RecordInv, [Next]_vars
             PROVE  RecordInv'
  OBVIOUS
<1> USE SessionsAssumption DEF RecordInv, Recording
<1>0. /\ req \in [Clients -> Request] /\ flag \in [Modes -> BOOLEAN]
      /\ "record" \in Modes
  BY DEF RequestOK, GlobalsOK, Modes
<1>1. CASE UNCHANGED <<flag, kind, life, req>>
  BY <1>1
<1>2. ASSUME NEW c \in Clients, \A d \in Clients \ {c} : req'[d] = req[d],
             req'[c].at # "check",
             flag'["record"] = flag["record"],
             \A s \in Sessions : Recording(s)' => Recording(s)
      PROVE  RecordInv'
  BY <1>2
<1>3. ASSUME NEW c \in Clients, NewRequest(c)
      PROVE  RecordInv'
  <2>1. /\ UNCHANGED <<kind, life>> /\ flag'["record"] = flag["record"]
        /\ \A d \in Clients \ {c} : req'[d] = req[d]
    BY <1>0, <1>3 DEF NewRequest, StartRequest, StopTeleop, StopRecording,
                      StopRollout, Stops, Modes
  <2>2. req'[c].at # "check"
    <3>1. CASE StartRequest(c)
      <4>1. PICK m \in Modes :
              req' = [req EXCEPT ![c] = [NoRequest EXCEPT
                        !.op = "start", !.mode = m, !.at = "lock"]]
        BY <3>1 DEF StartRequest
      <4> QED  BY <1>0, <4>1 DEF NoRequest
    <3>2. CASE StopTeleop(c) \/ StopRecording(c) \/ StopRollout(c)
      <4>1. PICK m \in Modes, at \in {"join", "ask", "kill"},
                 s \in {0, thread, proc} : Stops(c, m, at, s)
        BY <3>2 DEF StopTeleop, StopRecording, StopRollout, Modes
      <4> QED  BY <1>0, <4>1 DEF Stops, NoRequest
    <3> QED  BY <1>3, <3>1, <3>2 DEF NewRequest
  <2> QED  BY <1>2, <2>1, <2>2
<1>4. ASSUME NEW c \in Clients, TakeLock(c)
      PROVE  RecordInv'
  <2>1. /\ \A d \in Clients \ {c} : req'[d] = req[d]
        /\ req'[c].mode = req[c].mode
        /\ req'[c].unread = ReadOrder[req[c].mode]
        /\ UNCHANGED <<flag, kind, life>>
    BY <1>0, <1>4 DEF TakeLock, Request
  <2> HIDE DEF ReadOrder
  <2> QED  BY <2>1
<1>5. ASSUME NEW c \in Clients, ReadFlag(c)
      PROVE  RecordInv'
  <2>1. /\ \A d \in Clients \ {c} : req'[d] = req[d]
        /\ req'[c].mode = req[c].mode /\ req[c].at = "check"
        /\ ~flag[Head(req[c].unread)]
        /\ UNCHANGED <<flag, kind, life>>
    BY <1>0, <1>5 DEF ReadFlag, Request
  <2>2. Head(ReadOrder["record"]) = "record"
    BY DEF ReadOrder
  <2> HIDE DEF ReadOrder
  <2>3. req[c].mode = "record" => ~flag["record"]
    BY <2>1, <2>2
  <2> QED  BY <2>1, <2>3
<1>6. ASSUME NEW c \in Clients, Claim(c)
      PROVE  RecordInv'
  <2>1. PICK s \in Sessions :
          /\ life[s] = "unused" /\ Becomes(s, "starting")
          /\ kind' = [kind EXCEPT ![s] = req[c].mode]
          /\ req' = [req EXCEPT ![c].at = "launch", ![c].of = s]
          /\ flag' = [flag EXCEPT ![req[c].mode] = TRUE]
    BY <1>6, ClaimsSession DEF Claim, GlobalsOK
  <2>2. /\ req'[c].at = "launch" /\ req[c].mode \in Modes
        /\ req[c].at = "check" /\ req[c].unread = <<>>
        /\ \A d \in Clients \ {c} : req'[d] = req[d]
    BY <1>0, <1>6, <2>1 DEF Claim, Request
  <2>3. /\ kind'[s] = req[c].mode /\ life'[s] = "starting"
        /\ \A t \in Sessions \ {s} : kind'[t] = kind[t] /\ life'[t] = life[t]
    BY <2>1 DEF SessionOK, Becomes
  <2>4. CASE req[c].mode = "record"
    <3>1. ~flag["record"]
      <4>1. ReadOrder["record"] # <<>>
        BY DEF ReadOrder
      <4> QED  BY <2>2, <2>4, <4>1
    <3>2. \A t \in Sessions : ~Recording(t)
      BY <3>1
    <3>3. \A d \in Clients \ {c} :
            ~(req[d].mode = "record" /\ req[d].at = "check")
      BY <2>2, <2>4, <1>0 DEF GuardOK
    <3>4. flag'["record"]
      BY <1>0, <2>1, <2>4
    <3>5. \A t \in Sessions : Recording(t)' => t = s
      BY <2>3, <3>2
    <3> HIDE DEF Recording
    <3> QED  BY <2>2, <3>3, <3>4, <3>5
  <2>5. CASE req[c].mode # "record"
    <3>1. flag'["record"] = flag["record"]
      BY <1>0, <2>1, <2>5
    <3>2. \A t \in Sessions : Recording(t)' => Recording(t)
      BY <2>3, <2>5
    <3> QED  BY <1>2, <2>2, <3>1, <3>2
  <2> QED  BY <2>4, <2>5
<1>7. ASSUME NEW s \in Sessions, life' = [life EXCEPT ![s] = "gone"],
             flag' = [flag EXCEPT ![kind[s]] = FALSE], UNCHANGED kind,
             life[s] \notin {"unused", "gone"},
             \A c \in Clients : req'[c] = req[c] \/ req'[c].at # "check"
      PROVE  RecordInv'
  <2>1. \A t \in Sessions : Recording(t)' => Recording(t) /\ t # s
    BY <1>7 DEF SessionOK
  <2>2. kind[s] # "record" => flag'["record"] = flag["record"]
    BY <1>0, <1>7
  <2>3. kind[s] = "record" => ~flag'["record"]
    BY <1>0, <1>7
  <2>4. CASE kind[s] = "record"
    <3>1. \A t \in Sessions : ~Recording(t)'
      BY <1>7, <2>1, <2>4
    <3> HIDE DEF Recording
    <3> QED  BY <2>3, <2>4, <3>1
  <2>5. CASE kind[s] # "record"
    BY <1>7, <2>1, <2>2, <2>5
  <2> QED  BY <2>4, <2>5
<1>8. ASSUME NEW c \in Clients, StartFails(c)
      PROVE  RecordInv'
  <2>1. /\ req[c].of \in Sessions /\ kind[req[c].of] = req[c].mode
        /\ life[req[c].of] \in {"starting", "open"}
        /\ life' = [life EXCEPT ![req[c].of] = "gone"]
        /\ flag' = [flag EXCEPT ![req[c].mode] = FALSE] /\ UNCHANGED kind
    BY <1>8 DEF StartFails, OwnerInv, Becomes
  <2>2. /\ req'[c].at = "idle"
        /\ \A d \in Clients \ {c} : req'[d] = req[d]
    BY <1>0, <1>8 DEF StartFails, Replies, NoRequest
  <2> QED  BY <1>7, <2>1, <2>2
<1>9. ASSUME NEW c \in Clients, NEW s \in Sessions, NEW l \in Life,
             life' = [life EXCEPT ![s] = l], UNCHANGED <<flag, kind>>,
             \A d \in Clients \ {c} : req'[d] = req[d],
             req'[c].at # "check", life[s] \notin {"unused", "gone"}
      PROVE  RecordInv'
  <2>1. \A t \in Sessions : Recording(t)' => Recording(t)
    BY <1>9 DEF SessionOK
  <2> QED  BY <1>2, <1>9, <2>1
<1>10. ASSUME NEW c \in Clients,
              \/ ConnectArms(c) \/ SpawnTeleop(c) \/ SpawnRecorder(c)
              \/ SpawnRollout(c)
       PROVE  RecordInv'
  <2>1. PICK l \in {"open", "driving", "preparing"} : Becomes(req[c].of, l)
    BY <1>10 DEF ConnectArms, SpawnTeleop, SpawnRecorder, SpawnRollout
  <2>2. /\ req[c].of \in Sessions /\ life[req[c].of] \in {"starting", "open"}
        /\ UNCHANGED <<flag, kind>>
    BY <1>10 DEF ConnectArms, SpawnTeleop, SpawnRecorder, SpawnRollout,
                 OwnerInv, At
  <2>3. /\ \A d \in Clients \ {c} : req'[d] = req[d]
        /\ req'[c].at # "check"
    BY <1>0, <1>10 DEF ConnectArms, SpawnTeleop, SpawnRecorder, SpawnRollout,
                       GoesTo, Replies, NoRequest, Request
  <2> QED  BY <1>9, <2>1, <2>2, <2>3 DEF Becomes, Life
<1>11. ASSUME NEW c \in Clients,
              \/ Refuse(c) \/ JoinEnds(c) \/ AskRecorder(c)
              \/ PublishRollout(c) \/ ResetRollout(c)
       PROVE  RecordInv'
  <2>1. /\ UNCHANGED <<kind, life>> /\ flag'["record"] = flag["record"]
    BY <1>0, <1>11 DEF Refuse, JoinEnds, AskRecorder, PublishRollout,
                       ResetRollout
  <2>2. /\ \A d \in Clients \ {c} : req'[d] = req[d]
        /\ req'[c].at # "check"
    BY <1>0, <1>11 DEF Refuse, JoinEnds, AskRecorder, PublishRollout,
                       ResetRollout, Replies, NoRequest
  <2> QED  BY <1>2, <2>1, <2>2
<1>12. ASSUME NEW c \in Clients, KillRollout(c)
       PROVE  RecordInv'
  <2>1. /\ req[c].of \in Sessions /\ kind[req[c].of] = "rollout"
        /\ life' = [life EXCEPT ![req[c].of] = "gone"]
        /\ UNCHANGED <<flag, kind>>
    BY <1>12 DEF KillRollout, At, OwnerInv, Becomes
  <2>2. /\ \A d \in Clients \ {c} : req'[d] = req[d]
        /\ req'[c].at # "check"
    BY <1>0, <1>12 DEF KillRollout, GoesTo, Request
  <2>3. \A t \in Sessions : Recording(t)' => Recording(t)
    BY <2>1 DEF SessionOK
  <2> QED  BY <1>2, <2>1, <2>2, <2>3
<1>13. CASE PollRollout
  BY <1>0, <1>13 DEF PollRollout
<1>14. ASSUME NEW s \in Sessions, ClearsFlag(s)
       PROVE  RecordInv'
  BY <1>7, <1>14 DEF ClearsFlag, Becomes
<1>15. ASSUME NEW s \in Sessions,
              \/ Opens(s) \/ LeavesWhenTold(s) \/ Disconnects(s) \/ Leaves(s)
              \/ RolloutExits(s)
       PROVE  RecordInv'
  <2>1. /\ life[s] \in {"preparing", "driving", "closing"}
        /\ \E l \in Life : Becomes(s, l)
        /\ UNCHANGED <<flag, kind, req>>
    BY <1>15 DEF Opens, LeavesWhenTold, Disconnects, Leaves, RolloutExits,
                 Life
  <2>2. \A t \in Sessions : Recording(t)' => Recording(t)
    BY <2>1 DEF SessionOK, Becomes
  <2> QED  BY <2>1, <2>2
<1> QED
  BY Steps, <1>1, <1>3, <1>4, <1>5, <1>6, <1>8, <1>10, <1>11, <1>12, <1>13,
     <1>14, <1>15
  DEF GlobalsOK, Continues, Locks, Works

-----------------------------------------------------------------------------
(* Before the first request.                                                 *)
LEMMA InitIInv == Init => IInv
<1> SUFFICES ASSUME Init PROVE IInv
  OBVIOUS
<1> USE SessionsAssumption DEF Init
<1>1. RequestOK
  BY DEF RequestOK, Request, NoRequest, Modes
<1>2. SessionOK
  BY DEF SessionOK, Modes, Life
<1>6. GlobalsOK
  <2>1. 0 \in 0..MaxSessions
    OBVIOUS
  <2>2. flag \in [Modes -> BOOLEAN] /\ watching \in BOOLEAN
    OBVIOUS
  <2> QED  BY <2>1, <2>2 DEF GlobalsOK
<1>3. GuardOK
  BY DEF GuardOK, NoRequest
<1>4. TypeOK
  BY <1>1, <1>2, <1>3, <1>6
  DEF TypeOK, RequestOK, Request, SessionOK, GlobalsOK, GuardOK
<1>5. OwnerInv /\ RecordInv
  BY DEF OwnerInv, RecordInv, Recording, NoRequest
<1> QED  BY <1>4, <1>5 DEF IInv

(* What the theorems rest on.                                                *)
LEMMA Inductive == Spec => []IInv
<1>1. IInv /\ [Next]_vars => IInv'
  <2> SUFFICES ASSUME TypeOK, OwnerInv, RecordInv, [Next]_vars
               PROVE  IInv'
    BY DEF IInv
  <2>1. RequestOK /\ SessionOK /\ GlobalsOK /\ GuardOK
    BY DEF TypeOK, RequestOK, Request, SessionOK, GlobalsOK, GuardOK
  <2>2. RequestOK' /\ SessionOK' /\ GlobalsOK' /\ GuardOK'
    BY <2>1, RequestStep, SessionStep, GlobalsStep, GuardStep
  <2>3. TypeOK'
    BY <2>2 DEF TypeOK, RequestOK, Request, SessionOK, GlobalsOK, GuardOK
  <2> QED  BY <2>1, <2>3, OwnerStep, RecordStep DEF IInv
<1> QED  BY InitIInv, <1>1, PTL DEF Spec

(* The types, whatever requests overlap; they include that the lock of a     *)
(* mode is held by exactly the start that is between its test and its claim. *)
THEOREM TypeCorrect == Spec => []TypeOK
BY Inductive, PTL DEF IInv

(* However many clients send overlapping requests, there is never a second   *)
(* recording.                                                                *)
THEOREM RecordingsExclusive == Spec => []OneRecordingAtATime
<1>1. IInv => OneRecordingAtATime
  <2> SUFFICES ASSUME IInv PROVE OneRecordingAtATime
    OBVIOUS
  <2> DEFINE R == {s \in Sessions :
                     kind[s] = "record" /\ life[s] \notin {"unused", "gone"}}
  <2>1. \A s, t \in R : s = t
    BY DEF IInv, RecordInv, Recording
  <2>2. CASE R = {}
    BY <2>2, FS_EmptySet DEF OneRecordingAtATime
  <2>3. CASE R # {}
    <3>1. PICK s : R = {s}
      BY <2>1, <2>3
    <3> QED  BY <3>1, FS_Singleton DEF OneRecordingAtATime
  <2> QED  BY <2>2, <2>3
<1> QED  BY Inductive, <1>1, PTL

-----------------------------------------------------------------------------
(* One client.                                                               *)

(* The only client takes every step of a request.                            *)
LEMMA SoleActs ==
  ASSUME NEW c \in Clients, group.clients = {c}, Sole(c), NEW d \in Clients,
         Continues(d) \/ Locks(d)
  PROVE  d = c
<1> SUFFICES ASSUME req[d].at = "idle" PROVE FALSE
  BY DEF Sole
<1> QED
  BY DEF Continues, Locks, ReadFlag, Refuse, Claim, StartFails, ConnectArms,
         SpawnTeleop, SpawnRecorder, SpawnRollout, JoinEnds, AskRecorder,
         KillRollout, TakeLock, PublishRollout, ResetRollout, At

(* A new request starts from rest: all sessions there are run by themselves. *)
LEMMA SoleStart ==
  ASSUME RequestOK, SessionOK, GlobalsOK, OwnerInv, SessionsAssumption,
         NEW c \in Clients, Sole(c), NewRequest(c)
  PROVE  Sole(c)'
<1>0. /\ req \in [Clients -> Request] /\ flag \in [Modes -> BOOLEAN]
      /\ req[c].at = "idle"
  <2>1. Idle(c)
    BY DEF NewRequest, StartRequest, StopTeleop, StopRecording, StopRollout,
           Stops
  <2> QED  BY <2>1 DEF RequestOK, GlobalsOK, Idle, NoRequest
<1>1. /\ UNCHANGED <<kind, life, thread, proc>>
      /\ \A m \in Modes \ {"teleop"} : flag'[m] = flag[m]
      /\ \A d \in Clients \ {c} : req'[d] = req[d]
  BY <1>0 DEF NewRequest, StartRequest, StopTeleop, StopRecording,
              StopRollout, Stops
<1>2. \A s \in Sessions : Live(s) => Ran(s) /\ flag[kind[s]]
  BY <1>0 DEF Sole, Joins, At
<1>3. CASE StartRequest(c)
  <2>1. PICK m \in Modes :
          req' = [req EXCEPT ![c] = [NoRequest EXCEPT
                    !.op = "start", !.mode = m, !.at = "lock"]]
    BY <1>3 DEF StartRequest
  <2>2. req'[c].at = "lock" /\ flag' = flag
    BY <1>0, <1>3, <2>1 DEF NoRequest, StartRequest
  <2> QED  BY <1>0, <1>1, <1>2, <2>2 DEF Sole, Live, Joins, At, Ran
<1>4. CASE StopTeleop(c)
  <2>1. /\ req'[c].at = "join" /\ req'[c].op = "stop"
        /\ req'[c].mode = "teleop" /\ req'[c].of = thread
    BY <1>0, <1>4 DEF StopTeleop, Stops, NoRequest
  <2>2. \A s \in Sessions : Live(s) => flag'[kind[s]] \/ Joins(c, s)'
    BY <1>0, <1>1, <1>2, <2>1 DEF Sole, Joins, At, SessionOK
  <2>3. proc # 0 => flag'["rollout"]
    BY <1>1 DEF Sole, Modes
  <2> QED  BY <1>0, <1>1, <1>2, <2>1, <2>2, <2>3 DEF Sole, Live, Ran
<1>5. CASE StopRecording(c) \/ StopRollout(c)
  <2>1. /\ req'[c].at \in {"ask", "kill"} /\ flag' = flag
        /\ req'[c].at = "kill" => req'[c].of = proc
    <3>1. CASE StopRecording(c)
      BY <1>0, <3>1 DEF StopRecording, Stops, NoRequest
    <3>2. CASE StopRollout(c)
      BY <1>0, <3>2 DEF StopRollout, Stops, NoRequest
    <3> QED  BY <1>5, <3>1, <3>2
  <2> QED  BY <1>0, <1>1, <1>2, <2>1 DEF Sole, Live, Joins, At, Ran
<1> QED  BY <1>3, <1>4, <1>5 DEF NewRequest

(* The start handlers: what it has read stays as it was, so the claim finds  *)
(* no session.                                                               *)
LEMMA SoleStarts ==
  ASSUME RequestOK, SessionOK, GlobalsOK, OwnerInv, SessionsAssumption,
         NEW c \in Clients, group.clients = {c}, Sole(c),
         TakeLock(c) \/ ReadFlag(c) \/ Refuse(c) \/ Claim(c)
  PROVE  Sole(c)'
<1>0. /\ req \in [Clients -> Request] /\ flag \in [Modes -> BOOLEAN]
      /\ req[c].at \in {"lock", "check"}
  BY DEF RequestOK, GlobalsOK, TakeLock, ReadFlag, Refuse, Claim
<1>1. /\ \A d \in Clients \ {c} : req'[d] = req[d]
      /\ UNCHANGED <<thread, proc>>
  BY <1>0 DEF TakeLock, ReadFlag, Refuse, Claim, Replies
<1>2. \A s \in Sessions : Live(s) => Ran(s) /\ flag[kind[s]]
  BY <1>0 DEF Sole, Joins, At
<1>3. CASE TakeLock(c)
  <2>1. /\ req'[c].at = "check" /\ req'[c].unread = ReadOrder[req[c].mode]
        /\ req[c].mode \in Modes
        /\ UNCHANGED <<kind, life, flag>>
    BY <1>0, <1>3 DEF TakeLock, Request
  <2>2. \A m, n \in Modes : \E i \in 1..Len(ReadOrder[n]) :
          ReadOrder[n][i] = m
    <3>1. \A n \in Modes : Len(ReadOrder[n]) = 3
      BY DEF ReadOrder, Modes
    <3>2. \A m, n \in Modes : \E i \in {1, 2, 3} : ReadOrder[n][i] = m
      BY DEF ReadOrder, Modes
    <3> HIDE DEF ReadOrder
    <3> QED  BY <3>1, <3>2
  <2>3. \A m \in Modes : \E i \in 1..Len(req'[c].unread) :
          req'[c].unread[i] = m
    BY <2>1, <2>2
  <2> QED  BY <1>0, <1>1, <1>2, <2>1, <2>3 DEF Sole, Live, Ran
<1>4. CASE ReadFlag(c)
  <2>1. /\ req'[c].at = "check" /\ req'[c].unread = Tail(req[c].unread)
        /\ req[c].unread \in Seq(Modes) /\ req[c].unread # <<>>
        /\ ~flag[Head(req[c].unread)] /\ req[c].at = "check"
        /\ UNCHANGED <<kind, life, flag>>
    BY <1>0, <1>4 DEF ReadFlag, Request
  <2>2. ASSUME NEW m \in Modes, flag[m]
        PROVE  \E i \in 1..Len(req'[c].unread) : req'[c].unread[i] = m
    <3>1. PICK i \in 1..Len(req[c].unread) : req[c].unread[i] = m
      BY <2>1, <2>2 DEF Sole
    <3>2. i # 1
      BY <2>1, <2>2, <3>1
    <3>3. /\ i - 1 \in 1..Len(req'[c].unread)
          /\ req'[c].unread[i - 1] = req[c].unread[i]
      BY <2>1, <3>1, <3>2
    <3> QED  BY <3>1, <3>3
  <2> QED  BY <1>0, <1>1, <1>2, <2>1, <2>2 DEF Sole, Live, Ran
<1>5. CASE Refuse(c)
  <2>1. req'[c].at = "idle" /\ UNCHANGED <<kind, life, flag>>
    BY <1>0, <1>5 DEF Refuse, Replies, NoRequest
  <2> QED  BY <1>0, <1>1, <1>2, <2>1 DEF Sole, Live, Ran
<1>6. CASE Claim(c)
  <2>1. PICK s \in Sessions :
          /\ life[s] = "unused" /\ Becomes(s, "starting")
          /\ kind' = [kind EXCEPT ![s] = req[c].mode]
          /\ req' = [req EXCEPT ![c].at = "launch", ![c].of = s]
          /\ flag' = [flag EXCEPT ![req[c].mode] = TRUE]
    BY <1>6, ClaimsSession DEF Claim, GlobalsOK
  <2>2. /\ req[c].mode \in Modes /\ req[c].at = "check"
        /\ req[c].unread = <<>>
        /\ req'[c].at = "launch" /\ req'[c].of = s
        /\ req'[c].mode = req[c].mode
    <3>1. req'[c] = [req[c] EXCEPT !.at = "launch", !.of = s]
      BY <1>0, <2>1
    <3>2. req[c] \in Request /\ req[c].at = "check" /\ req[c].unread = <<>>
      BY <1>0, <1>6 DEF Claim
    <3> QED  BY <3>1, <3>2 DEF Request
  <2>3. \A m \in Modes : ~flag[m]
    BY <2>2 DEF Sole
  <2>4. \A t \in Sessions : ~Live(t)
    BY <1>2, <2>3 DEF SessionOK
  <2>5. /\ kind'[s] = req[c].mode /\ life'[s] = "starting"
        /\ \A t \in Sessions \ {s} : kind'[t] = kind[t] /\ life'[t] = life[t]
    BY <2>1 DEF SessionOK, Becomes
  <2>6. flag'[req[c].mode] /\ proc = 0
    BY <1>0, <2>1, <2>2, <2>3 DEF Sole, Modes
  <2>7. \A t \in Sessions : Live(t)' => t = s
    BY <2>4, <2>5 DEF Live
  <2>8. ~Ran(s)'
    BY <2>5 DEF Ran
  <2> QED
    BY <1>1, <2>2, <2>5, <2>6, <2>7, <2>8 DEF Sole
<1> QED  BY <1>3, <1>4, <1>5, <1>6

(* The rest of a start: the session is the client's until it runs.           *)
LEMMA SoleLaunches ==
  ASSUME RequestOK, SessionOK, GlobalsOK, OwnerInv, SessionsAssumption,
         NEW c \in Clients, group.clients = {c}, Sole(c),
         \/ StartFails(c) \/ ConnectArms(c) \/ SpawnTeleop(c)
         \/ SpawnRecorder(c) \/ SpawnRollout(c) \/ PublishRollout(c)
  PROVE  Sole(c)'
<1>s. PICK s : s = req[c].of
  OBVIOUS
<1>0. /\ req \in [Clients -> Request] /\ flag \in [Modes -> BOOLEAN]
      /\ req[c].at \in {"launch", "spawn", "publish"}
      /\ s \in Sessions /\ UNCHANGED kind
      /\ req[c].mode \in Modes
  BY <1>s DEF RequestOK, GlobalsOK, OwnerInv, Request, StartFails, ConnectArms,
         SpawnTeleop, SpawnRecorder, SpawnRollout, PublishRollout, At
<1>1. \A d \in Clients \ {c} : req'[d] = req[d]
  BY <1>0 DEF StartFails, ConnectArms, SpawnTeleop, SpawnRecorder,
              SpawnRollout, PublishRollout, Replies, GoesTo
<1>2. req[c].at # "publish" =>
        /\ Live(s) /\ ~Ran(s) /\ kind[s] = req[c].mode
        /\ \A t \in Sessions : Live(t) => t = s
  BY <1>s, <1>0 DEF OwnerInv, Sole, Live, Ran
<1>3. \A t \in Sessions : Live(t) => flag[kind[t]]
  BY <1>0 DEF Sole, Joins, At
<1>4. CASE StartFails(c)
  <2>1. /\ req'[c].at = "idle" /\ life' = [life EXCEPT ![s] = "gone"]
        /\ UNCHANGED <<thread, proc>> /\ req[c].at # "publish"
        /\ flag' = [flag EXCEPT ![req[c].mode] = FALSE]
    BY <1>s, <1>0, <1>4 DEF StartFails, Replies, NoRequest, Becomes
  <2>2. \A t \in Sessions : ~Live(t)'
    BY <1>0, <1>2, <2>1 DEF Live, SessionOK
  <2>3. proc # 0 => flag'["rollout"]
    <3>1. CASE proc # 0
      <4>1. req[c].at = "launch" => req[c].mode # "rollout"
        BY <3>1 DEF Sole
      <4>2. req[c].at = "spawn" => req[c].mode # "rollout"
        BY DEF Sole, OwnerInv, Live
      <4> QED
        BY <1>0, <2>1, <3>1, <4>1, <4>2 DEF Sole, Modes
    <3> QED  BY <3>1
  <2> QED  BY <1>1, <2>1, <2>2, <2>3 DEF Sole
<1>5. CASE ConnectArms(c)
  <2>1. /\ req'[c].at = "spawn" /\ req'[c].of = s
        /\ req[c].mode = "teleop" /\ req[c].at = "launch"
        /\ life' = [life EXCEPT ![s] = "open"]
        /\ UNCHANGED <<flag, thread, proc>>
    BY <1>s, <1>0, <1>5 DEF ConnectArms, At, GoesTo, Becomes, Request
  <2>2. \A t \in Sessions : Live(t)' => t = s
    BY <1>0, <1>2, <2>1 DEF Live, SessionOK
  <2>3. ~Ran(s)' /\ kind[s] = "teleop" /\ flag[kind[s]]
    BY <1>0, <1>2, <1>3, <2>1 DEF Ran, SessionOK
  <2> QED  BY <1>0, <1>1, <2>1, <2>2, <2>3 DEF Sole
<1>6. CASE SpawnTeleop(c)
  <2>1. /\ req'[c].at = "idle" /\ thread' = s
        /\ req[c].mode = "teleop" /\ req[c].at = "spawn"
        /\ life' = [life EXCEPT ![s] = "driving"]
        /\ UNCHANGED <<flag, proc>>
    BY <1>s, <1>0, <1>6 DEF SpawnTeleop, At, Replies, NoRequest, Becomes
  <2>2. \A t \in Sessions : Live(t)' => t = s
    BY <1>0, <1>2, <2>1 DEF Live, SessionOK
  <2>3. Ran(s)' /\ kind[s] = "teleop" /\ flag[kind[s]]
    BY <1>0, <1>2, <1>3, <2>1 DEF Ran, SessionOK, Life
  <2> QED  BY <1>0, <1>1, <2>1, <2>2, <2>3 DEF Sole
<1>7. CASE SpawnRecorder(c)
  <2>1. /\ req'[c].at = "idle"
        /\ req[c].mode = "record" /\ req[c].at = "launch"
        /\ life' = [life EXCEPT ![s] = "preparing"]
        /\ UNCHANGED <<flag, proc, thread>>
    BY <1>s, <1>0, <1>7 DEF SpawnRecorder, At, Replies, NoRequest, Becomes
  <2>2. \A t \in Sessions : Live(t)' => t = s
    BY <1>0, <1>2, <2>1 DEF Live, SessionOK
  <2>3. Ran(s)' /\ kind[s] = "record" /\ flag[kind[s]]
    BY <1>0, <1>2, <1>3, <2>1 DEF Ran, SessionOK, Life
  <2> QED  BY <1>0, <1>1, <2>1, <2>2, <2>3 DEF Sole
<1>8. CASE SpawnRollout(c)
  <2>1. /\ req'[c].at = "publish" /\ req'[c].of = s
        /\ req[c].mode = "rollout" /\ req[c].at = "launch"
        /\ life' = [life EXCEPT ![s] = "preparing"]
        /\ UNCHANGED <<flag, proc, thread>>
    BY <1>s, <1>0, <1>8 DEF SpawnRollout, At, GoesTo, Request, Becomes
  <2>2. \A t \in Sessions : Live(t)' => t = s
    BY <1>0, <1>2, <2>1 DEF Live, SessionOK
  <2>3. /\ Ran(s)' /\ life'[s] = "preparing" /\ kind[s] = "rollout"
        /\ flag[kind[s]]
    BY <1>0, <1>2, <1>3, <2>1 DEF Ran, SessionOK, Life
  <2>4. proc = 0
    BY <2>1 DEF Sole
  <2> QED  BY <1>0, <1>1, <2>1, <2>2, <2>3, <2>4 DEF Sole
<1>9. CASE PublishRollout(c)
  <2>1. /\ req'[c].at = "idle" /\ req[c].at = "publish" /\ proc' = s
        /\ UNCHANGED <<flag, life, thread>>
    BY <1>s, <1>0, <1>9 DEF PublishRollout, At, Replies, NoRequest
  <2>2. \A t \in Sessions : Live(t) /\ kind[t] = "rollout" => t = s
    BY <1>s, <2>1 DEF Sole, Sessions
  <2>3. \A t \in Sessions : Live(t) => Ran(t)
    BY <2>1 DEF Sole
  <2>4. flag["rollout"]
    BY <2>1 DEF Sole
  <2> QED  BY <1>0, <1>1, <1>3, <2>1, <2>2, <2>3, <2>4 DEF Sole, Live, Ran
<1> QED  BY <1>4, <1>5, <1>6, <1>7, <1>8, <1>9

(* The stop handlers: a stop ends the one session there is.                  *)
LEMMA SoleStops ==
  ASSUME RequestOK, SessionOK, GlobalsOK, OwnerInv, SessionsAssumption,
         ~SlowWorkers, NEW c \in Clients, group.clients = {c}, Sole(c),
         \/ JoinEnds(c) \/ AskRecorder(c) \/ KillRollout(c)
         \/ ResetRollout(c)
  PROVE  Sole(c)'
<1>0. /\ req \in [Clients -> Request] /\ flag \in [Modes -> BOOLEAN]
      /\ req[c].at \in {"join", "ask", "kill", "reset"} /\ UNCHANGED kind
  BY DEF RequestOK, GlobalsOK, JoinEnds, AskRecorder, KillRollout,
         ResetRollout, At
<1>1. \A d \in Clients \ {c} : req'[d] = req[d]
  BY <1>0 DEF JoinEnds, AskRecorder, KillRollout, ResetRollout, Replies,
              GoesTo
<1>2. \A s \in Sessions : Live(s) => Ran(s)
  BY <1>0 DEF Sole
<1>3. CASE JoinEnds(c)
  <2>1. /\ req'[c].at = "idle" /\ req[c].at = "join" /\ thread' = 0
        /\ req[c].of # 0 => ~Live(req[c].of)
        /\ UNCHANGED <<flag, life, proc>>
    BY <1>0, <1>3 DEF JoinEnds, At, Replies, NoRequest, Live
  <2>2. \A s \in Sessions : Live(s) => flag[kind[s]] /\ kind[s] # "teleop"
    BY <1>2, <2>1 DEF Sole, Joins, Sessions
  <2> QED  BY <1>0, <1>1, <1>2, <2>1, <2>2 DEF Sole, Live, Ran
<1>4. CASE AskRecorder(c)
  <2>1. /\ req'[c].at = "idle" /\ req[c].at = "ask"
        /\ UNCHANGED <<flag, life, proc, thread>>
    BY <1>0, <1>4 DEF AskRecorder, At, Replies, NoRequest
  <2>2. \A s \in Sessions : Live(s) => flag[kind[s]]
    BY <2>1 DEF Sole, Joins, At
  <2> QED  BY <1>0, <1>1, <1>2, <2>1, <2>2 DEF Sole, Live, Ran
<1>5. CASE KillRollout(c)
  <2>1. /\ req'[c].at = "reset" /\ req[c].at = "kill"
        /\ req[c].of \in Sessions /\ kind[req[c].of] = "rollout"
        /\ life' = [life EXCEPT ![req[c].of] = "gone"]
        /\ UNCHANGED <<flag, proc, thread>>
    BY <1>0, <1>5 DEF KillRollout, At, GoesTo, Becomes, OwnerInv, Request
  <2>2. \A s \in Sessions :
          /\ Live(s) => flag[kind[s]]
          /\ Live(s) /\ kind[s] = "rollout" => s = req[c].of
    BY <2>1 DEF Sole, Joins, At, Sessions
  <2>3. \A s \in Sessions :
          Live(s)' => Live(s) /\ s # req[c].of /\ life'[s] = life[s]
    BY <2>1 DEF Live, SessionOK
  <2>4. \A s \in Sessions : Live(s)' => Ran(s)'
    BY <1>2, <2>3 DEF Ran
  <2> QED  BY <1>0, <1>1, <2>1, <2>2, <2>3, <2>4 DEF Sole
<1>6. CASE ResetRollout(c)
  <2>1. /\ req'[c].at = "idle" /\ req[c].at = "reset" /\ proc' = 0
        /\ flag' = [flag EXCEPT !["rollout"] = FALSE]
        /\ UNCHANGED <<life, thread>>
    BY <1>0, <1>6 DEF ResetRollout, At, Replies, NoRequest
  <2>2. \A s \in Sessions : Live(s) => flag[kind[s]] /\ kind[s] # "rollout"
    BY <2>1 DEF Sole, Joins, At
  <2>3. \A s \in Sessions : Live(s) => flag'[kind[s]]
    BY <1>0, <2>1, <2>2 DEF SessionOK
  <2> QED  BY <1>0, <1>1, <1>2, <2>1, <2>2, <2>3 DEF Sole, Live, Ran
<1> QED  BY <1>3, <1>4, <1>5, <1>6

(* A session that takes a step by itself stays the one there is, and its     *)
(* flag goes down only as it ends.                                           *)
LEMMA SoleWorks ==
  ASSUME RequestOK, SessionOK, GlobalsOK, OwnerInv, SessionsAssumption,
         NEW c \in Clients, Sole(c),
         \/ PollRollout
         \/ \E s \in Sessions : Works(s) \/ Leaves(s)
  PROVE  Sole(c)'
<1>0. /\ UNCHANGED <<req, kind, thread>> /\ flag \in [Modes -> BOOLEAN]
      /\ "rollout" \in Modes
  BY DEF PollRollout, Works, Leaves, Opens, LeavesWhenTold, Disconnects,
         ClearsFlag, RolloutExits, GlobalsOK, Modes
<1>1. CASE PollRollout
  <2>1. /\ proc # 0 /\ life[proc] = "gone" /\ proc' = 0
        /\ flag' = [flag EXCEPT !["rollout"] = FALSE]
        /\ UNCHANGED life
    BY <1>1 DEF PollRollout
  <2>2. ~(req[c].at = "launch" /\ req[c].mode = "rollout")
    BY <2>1 DEF Sole
  <2>3. req[c].at # "publish"
    BY <2>1 DEF Sole
  <2>4. \A s \in Sessions : Live(s) => kind[s] # "rollout"
    BY <2>1, <2>2, <2>3 DEF Sole, Live, OwnerInv
  <2>5. \A s \in Sessions : Live(s) /\ flag[kind[s]] => flag'[kind[s]]
    BY <1>0, <2>1, <2>4 DEF SessionOK
  <2>6. \A m \in Modes : flag'[m] => flag[m]
    BY <1>0, <2>1
  <2> QED
    BY <1>0, <2>1, <2>2, <2>3, <2>4, <2>5, <2>6
    DEF Sole, Live, Ran, Joins, At
<1>2. ASSUME NEW s \in Sessions, Works(s) \/ Leaves(s)
      PROVE  Sole(c)'
  <2>1. PICK l \in Life : Becomes(s, l)
    BY <1>2 DEF Works, Leaves, Opens, LeavesWhenTold, Disconnects,
                ClearsFlag, RolloutExits, Life
  <2>2. /\ life'[s] = l /\ \A t \in Sessions \ {s} : life'[t] = life[t]
        /\ UNCHANGED proc
        /\ Live(s) /\ Ran(s)
    BY <1>2, <2>1 DEF Works, Leaves, Opens, LeavesWhenTold, Disconnects,
                      ClearsFlag, RolloutExits, Becomes, Live, Ran, Life,
                      SessionOK
  <2>3. \A t \in Sessions \ {s} : ~Live(t) /\ ~Live(t)'
    BY <2>2 DEF Sole, Live
  <2>4. CASE l = "gone"
    <3>1. \A t \in Sessions : ~Live(t)'
      BY <2>2, <2>3, <2>4 DEF Live
    <3>2. kind[s] = "rollout" => flag' = flag
      BY <1>2, <2>2
      DEF Works, Leaves, Opens, LeavesWhenTold, Disconnects, ClearsFlag,
          RolloutExits, Sole
    <3>3. \/ flag' = flag
          \/ flag' = [flag EXCEPT ![kind[s]] = FALSE]
      BY <1>2 DEF Works, Leaves, Opens, LeavesWhenTold, Disconnects,
                  ClearsFlag, RolloutExits
    <3>4. /\ \A m \in Modes : flag'[m] => flag[m]
          /\ flag'["rollout"] = flag["rollout"]
      BY <1>0, <3>2, <3>3 DEF SessionOK
    <3> QED  BY <1>0, <2>2, <3>1, <3>4 DEF Sole
  <2>5. CASE l # "gone"
    <3>1. /\ flag' = flag /\ l \in {"driving", "closing", "closed"}
          /\ kind[s] = "rollout" => l = "driving"
      <4>1. flag' = flag /\ Becomes(s, l)
        BY <1>2, <2>1, <2>5, <2>2
        DEF Works, Leaves, Opens, LeavesWhenTold, Disconnects, ClearsFlag,
            RolloutExits, Becomes, SessionOK
      <4> QED
        BY <1>2, <2>2, <2>5, <4>1
        DEF Works, Leaves, Opens, LeavesWhenTold, Disconnects, ClearsFlag,
            RolloutExits, Becomes, SessionOK, Sole
    <3>2. Live(s)' /\ Ran(s)'
      BY <2>2, <3>1 DEF Live, Ran, Life
    <3> QED
      BY <1>0, <2>2, <2>3, <3>1, <3>2 DEF Sole, Joins, At
  <2> QED  BY <2>4, <2>5
<1> QED  BY <1>1, <1>2

(* With one client there is at most one session, and a start sees it.        *)
LEMMA SoleStep ==
  TypeOK /\ OwnerInv /\ SoleInv /\ ~SlowWorkers /\ [Next]_vars => SoleInv'
<1> SUFFICES ASSUME TypeOK, OwnerInv, SoleInv, ~SlowWorkers, [Next]_vars,
                    NEW c \in Clients, group'.clients = {c}
             PROVE  Sole(c)'
  BY DEF SoleInv
<1> USE SessionsAssumption
<1>1. RequestOK /\ SessionOK /\ GlobalsOK
  BY DEF TypeOK, RequestOK, Request, SessionOK, GlobalsOK
<1>2. group.clients = {c} /\ Sole(c)
  BY DEF SoleInv, Next, vars
<1>3. CASE UNCHANGED server
  BY <1>2, <1>3 DEF server, Sole, Live, Ran, Joins, At
<1>4. ASSUME NEW d \in Clients, Continues(d) \/ Locks(d) PROVE d = c
  BY <1>2, <1>4, SoleActs
<1>5. \/ NewRequest(c) \/ Continues(c) \/ Locks(c) \/ PollRollout
      \/ \E s \in Sessions : Works(s) \/ Leaves(s)
      \/ UNCHANGED server
  BY <1>2, <1>4 DEF Next, ServerStep, vars
<1> QED
  BY <1>1, <1>2, <1>3, <1>5, SoleStart, SoleStarts, SoleLaunches, SoleStops,
     SoleWorks
  DEF Continues, Locks

LEMMA SoleInductive ==
  ASSUME ~SlowWorkers
  PROVE  Spec => []SoleInv
<1>1. Init => SoleInv
  BY SessionsAssumption DEF Init, SoleInv, Sole, Live, NoRequest, Modes
<1>2. IInv /\ SoleInv /\ [Next]_vars => SoleInv'
  BY SoleStep DEF IInv
<1> QED  BY Inductive, <1>1, <1>2, PTL DEF Spec

(* One client is a set with one element.                                     *)
LEMMA AloneClient ==
  TypeOK /\ Alone => \E c \in Clients : group.clients = {c}
<1> SUFFICES ASSUME TypeOK, Alone
             PROVE  \E c \in Clients : group.clients = {c}
  OBVIOUS
<1>1. group.clients \subseteq Clients /\ IsFiniteSet(group.clients)
  BY SessionsAssumption, FS_Subset DEF TypeOK, SessionsAssumption
<1>2. PICK c : group.clients = {c}
  BY <1>1, FS_Singleton DEF Alone
<1> QED  BY <1>1, <1>2

(* A client that awaits every reply never gets two sessions onto the bus,    *)
(* of whatever modes, provided a stop of teleoperation sees its worker end.  *)
THEOREM BusIsExclusive ==
  ASSUME ~SlowWorkers
  PROVE  Spec => []BusExclusive
<1>1. IInv /\ SoleInv => BusExclusive
  <2> SUFFICES ASSUME IInv, SoleInv, Alone PROVE Cardinality(OnBus) <= 1
    BY DEF BusExclusive
  <2>1. PICK c \in Clients : Sole(c)
    BY AloneClient DEF IInv, SoleInv
  <2>2. \A s, t \in OnBus : s = t
    BY <2>1 DEF Sole, OnBus, Live
  <2>3. CASE OnBus = {}
    BY <2>3, FS_EmptySet
  <2>4. CASE OnBus # {}
    <3>1. PICK s \in OnBus : TRUE
      BY <2>4
    <3>2. OnBus = {s}
      BY <2>2, <3>1
    <3>3. Cardinality({s}) = 1
      BY FS_Singleton
    <3> QED  BY <3>2, <3>3
  <2> QED  BY <2>3, <2>4
<1> QED  BY Inductive, SoleInductive, <1>1, PTL

(* Whoever is on the bus is seen by the next start, or waited for.           *)
THEOREM FlagCovers ==
  ASSUME ~SlowWorkers
  PROVE  Spec => []FlagCoversBus
<1>1. IInv /\ SoleInv => FlagCoversBus
  <2> SUFFICES ASSUME IInv, SoleInv, Alone, NEW s \in OnBus
               PROVE  \/ flag[kind[s]]
                      \/ \E d \in Clients : req[d].op = "stop"
                                              /\ req[d].of = s
    BY DEF FlagCoversBus
  <2>1. PICK c \in Clients : Sole(c)
    BY AloneClient DEF IInv, SoleInv
  <2> QED  BY <2>1 DEF Sole, OnBus, Live, Joins, At
<1> QED  BY Inductive, SoleInductive, <1>1, PTL

=============================================================================
