-------------------------- MODULE CalibrationProofs --------------------------
(***************************************************************************)
(* Theorems about Calibration, for any number of runs, visits, cameras and *)
(* requests under way.                                                     *)
(***************************************************************************)
EXTENDS Calibration, SubsequencesProofs

-----------------------------------------------------------------------------
(* Types.                                                                    *)
Statuses ==
  {"idle", "connecting", "recording", "stopping", "completed", "error"}
Seen == [status : Statuses, active : BOOLEAN]
Camera == [device : Devices \cup {NoDevice}, index : Int, options : {0, 1}]
Found == [index : Int, device : Devices \cup {NoDevice}]
Record == [port : [Sides -> Ports], config : SUBSET Sides, cams : Seq(Camera)]
Ops == {"start", "stop", "complete", "status", "load", "robot", "save", "cams",
        "cameras", "detect", "keep", "hold"}
Request ==
  [op : Ops, at : {"sent", "claim", "spawn", "join", "write", "answered"},
   visit : Nat, side : Sides, port : Ports, ok : BOOLEAN, seen : Seen,
   copy : Record, cams : Seq(Camera), devices : SUBSET Devices,
   found : SUBSET Found]
CardState == [on : BOOLEAN, list : Seq(Camera), avail : SUBSET Found,
          loading : BOOLEAN, pick : Int, due : SUBSET Seq(Camera),
          scans : Nat, edits : Nat]
Places == {"unused", "connect", "homing", "ranges", "moving", "write",
           "record", "merge", "done", "cancel", "failed", "finally", "gone"}

StatusOK ==
  /\ active \in BOOLEAN /\ status \in Statuses
  /\ device \in 0..MaxRuns
RunsOK ==
  /\ run \in 0..MaxRuns /\ thread \in 0..MaxRuns
  /\ request \in [Runs -> [side : Sides, port : Ports]]
  /\ pc \in [Runs -> Places]
RecordsOK == record \in Record /\ copy \in [Runs -> Record]
CallsOK == calls \in Seq(Request)
CardOK ==
  /\ max \in Bounds /\ plugged \subseteq Devices /\ moves \in Nat
  /\ cam \in CardState
PageOK ==
  /\ visits \in Nat /\ visit \in Nat /\ shown \in Seen
  /\ polling \in BOOLEAN /\ activeRef \in BOOLEAN
FormOK ==
  /\ side \in Sides /\ port \in Ports /\ robot \subseteq Record
  /\ dialog \in [step : {"closed", "detecting", "error", "success"},
                 cancelled : BOOLEAN, side : Sides]
(* A worker, or a start about to make one, is preceded by its claim.         *)
ClaimedInv ==
  /\ \A r \in Runs : pc[r] # "unused" => run # 0
  /\ \A i \in DOMAIN calls : calls[i].at = "spawn" => run # 0
Types ==
  /\ StatusOK /\ RunsOK /\ RecordsOK /\ CallsOK /\ CardOK /\ PageOK /\ FormOK
  /\ ClaimedInv

-----------------------------------------------------------------------------
(* The device.                                                               *)
Unclaimed == {i \in DOMAIN calls : /\ calls[i].op = "start"
                                   /\ calls[i].at # "answered"}
DeviceInv ==
  /\ \A i \in Unclaimed :
       /\ i = 1 /\ Workers = {}
       /\ calls[i].at = "spawn" => active
       /\ \A j \in DOMAIN calls : calls[j].at # "join"
  /\ \A i \in DOMAIN calls :
       /\ calls[i].at \in {"claim", "spawn"} => calls[i].op = "start"
       /\ calls[i].at = "join" => calls[i].op = "stop"
  /\ \A r \in Workers : thread = r /\ (pc[r] # "finally" => active)
  /\ DeviceReleased

-----------------------------------------------------------------------------
(* The ports.                                                                *)
Own(rec) == \A s \in Sides : rec.port[s] \in {NoPort, s}

OwnInv ==
  /\ Own(record) /\ \A r \in Runs : Own(copy[r])
  /\ \A r \in robot : Own(r)
  /\ \A i \in DOMAIN calls :
       /\ Own(calls[i].copy)
       /\ calls[i].op \in {"start", "save", "keep", "hold"} =>
            calls[i].port = calls[i].side
  /\ \A r \in 1..run : request[r].port = request[r].side
  /\ port \in {NoPort, side}
DialogInv ==
  ~dialog.cancelled =>
    /\ side = dialog.side /\ ~polling /\ visit # 0
    /\ \A i \in DOMAIN calls :
         /\ calls[i].op \notin {"start", "status", "load", "robot"}
         /\ calls[i].op \in {"detect", "keep", "hold"} =>
              calls[i].side = side
LoadInv ==
  visit # 0 /\ robot = {} =>
    \E i \in DOMAIN calls : calls[i].op = "load" /\ calls[i].visit = visit
ClosedInv == dialog.cancelled <=> dialog.step = "closed"
WriterInv ==
  \A i \in DOMAIN calls :
    /\ calls[i].at = "write" => calls[i].op \in {"save", "cams"}
    /\ calls[i].at = "join" => calls[i].op = "stop"
PortInv == OwnInv /\ DialogInv /\ LoadInv /\ ClosedInv /\ WriterInv

-----------------------------------------------------------------------------
(* The cameras.                                                              *)
SerialInv ==
  /\ max.runs = 0 =>
       /\ Workers = {}
       /\ \A i \in DOMAIN calls : calls[i].op # "start"
  /\ (Workers # {} \/ \E i \in DOMAIN calls : calls[i].op = "start") =>
       /\ cam.due = {}
       /\ \A i \in DOMAIN calls : calls[i].op \notin {"cams", "cameras"}

Loads(i) == calls[i].op = "load" /\ calls[i].visit = visit
Loading == \E i \in DOMAIN calls : Loads(i)
(* Who writes the file has read what is there, or brings new cameras.        *)
WriteInv ==
  /\ \A i \in DOMAIN calls :
       /\ calls[i].at = "write" =>
            /\ \A j \in 1..(i - 1) : calls[j].at \in {"join", "answered"}
            /\ calls[i].copy.cams = IF calls[i].op = "cams"
                                    THEN calls[i].cams ELSE record.cams
       /\ calls[i].op = "cams" => calls[i].at # "answered"
       /\ calls[i].op = "load" => calls[i].visit <= visits
  /\ visit <= visits
  /\ \A r \in Runs : pc[r] = "merge" => copy[r].cams = record.cams
(* The list of the page goes to the file, in order.                          *)
ShutInv ==
  /\ visit = 0 => ~cam.on /\ cam.due = {}
  /\ cam.due \in {{}, {cam.list}}
LoadFirst ==
  visit # 0 => \A i \in DOMAIN calls : Loads(i) =>
    /\ ~cam.on /\ cam.due = {}
    /\ \A j \in DOMAIN calls : calls[j].op = "cams" =>
         j < i /\ calls[i].at = "sent"
    /\ \A j \in DOMAIN calls : Loads(j) => j = i
    /\ calls[i].at = "answered" => calls[i].copy.cams = record.cams
ListGoes ==
  visit # 0 /\ ~Loading /\ cam.due = {} =>
    \/ /\ \A i \in DOMAIN calls : calls[i].op # "cams"
       /\ record.cams = cam.list
    \/ \E i \in DOMAIN calls :
         /\ calls[i].op = "cams" /\ calls[i].cams = cam.list
         /\ \A j \in DOMAIN calls : calls[j].op = "cams" => j <= i
ListInv == ShutInv /\ LoadFirst /\ ListGoes
(* What OpenCV and the browser would say now.                                *)
Now == {[index |-> Index(d), device |-> d] : d \in plugged}
Enumerates(i) == calls[i].op = "cameras"
Asking(i) == Enumerates(i) /\ calls[i].at = "sent"
EnumerateInv ==
  \A i \in DOMAIN calls : Enumerates(i) =>
    cam.on /\ calls[i].at \in {"sent", "answered"}
(* The newest enumeration saw every cable.                                   *)
AskedInv ==
  \A i \in DOMAIN calls :
    /\ Asking(i) /\ \A j \in DOMAIN calls : Asking(j) => j <= i
    => calls[i].devices = plugged
FoundInv ==
  \A i \in DOMAIN calls :
    /\ Enumerates(i)
    /\ \A j \in DOMAIN calls :
         Enumerates(j) => calls[j].at = "answered" /\ j <= i
    => calls[i].found \subseteq Now
RightNow(list, found) ==
  \A k \in DOMAIN list : \A f \in found :
    f.device = list[k].device => list[k].index = Index(list[k].device)
ShownInv ==
  (cam.on /\ \A i \in DOMAIN calls : ~Enumerates(i)) =>
    cam.avail \subseteq Now /\ RightNow(cam.list, cam.avail)
IndexInv == EnumerateInv /\ AskedInv /\ FoundInv /\ ShownInv
CamInv == SerialInv /\ WriteInv /\ ListInv /\ IndexInv

-----------------------------------------------------------------------------
(* What an action does to the requests under way.                            *)
Left(K, N) == calls' \in Seq(Request) /\ Derived(calls', calls, K, N)
Sent(c) == Left(DOMAIN calls, {c})
Kept(K) == Left(K, {})
Moved(i, c) == Left(DOMAIN calls \ {i}, {c})
Put(i, c) ==
  /\ calls' \in Seq(Request) /\ Len(calls') = Len(calls)
  /\ calls'[i] = c /\ \A j \in DOMAIN calls \ {i} : calls'[j] = calls[j]

(* A robot that nobody has configured has a record.                          *)
LEMMA EmptyRecordOK == EmptyRecord \in Record
<1>1. <<>> \in Seq(Camera)
  OBVIOUS
<1> QED  BY <1>1 DEF EmptyRecord, Record, Ports

(* What a page sends is a request.                                           *)
LEMMA CallOK ==
  ASSUME NEW op \in Ops, NEW v \in Nat, NEW s \in Sides, NEW p \in Ports
  PROVE  Call(op, v, s, p) \in Request
<1>1. <<>> \in Seq(Camera)
  OBVIOUS
<1>2. [status |-> "idle", active |-> FALSE] \in Seen
  BY DEF Seen, Statuses
<1> QED  BY <1>1, <1>2, EmptyRecordOK DEF Call, Request

(* What is under way is a request, at a position of the sequence.            *)
LEMMA Typed ==
  ASSUME CallsOK, NEW i \in DOMAIN calls
  PROVE  calls[i] \in Request /\ i \in 1..Len(calls)
BY DEF CallsOK

(* Append adds one request at the end.                                       *)
LEMMA AppendSends ==
  ASSUME CallsOK, NEW c \in Request, calls' = Append(calls, c)
  PROVE  Sent(c)
<1>1. Derived(calls, calls, DOMAIN calls, {})
  BY WholeDerived DEF CallsOK
<1> QED  BY <1>1, AppendDerived DEF CallsOK, Sent, Left

(* RemoveAt keeps all but one.                                               *)
LEMMA RemoveAtKeeps ==
  ASSUME CallsOK, NEW i \in DOMAIN calls, calls' = RemoveAt(calls, i)
  PROVE  Kept(DOMAIN calls \ {i})
BY RemoveAtDerived DEF CallsOK, Kept, Left

(* One is taken out, another is put at the end.                              *)
LEMMA AppendMoves ==
  ASSUME CallsOK, NEW i \in DOMAIN calls, NEW c \in Request,
         calls' = Append(RemoveAt(calls, i), c)
  PROVE  Moved(i, c)
<1> DEFINE t == RemoveAt(calls, i)
<1>1. t \in Seq(Request) /\ Derived(t, calls, DOMAIN calls \ {i}, {})
  BY RemoveAtDerived DEF CallsOK
<1> QED  BY <1>1, AppendDerived DEF CallsOK, Moved, Left

(* An answer goes to the end, whatever it was the answer to.                 *)
LEMMA AnsweredMoves ==
  ASSUME CallsOK, NEW i \in DOMAIN calls, NEW c \in Request,
         calls' = Answered(i, c)
  PROVE  Moved(i, [c EXCEPT !.at = "answered"])
<1>1. [c EXCEPT !.at = "answered"] \in Request
  BY DEF Request
<1> QED  BY <1>1, AppendMoves DEF Answered

(* A request that goes on in its place leaves the others alone.              *)
LEMMA ExceptPuts ==
  ASSUME CallsOK, NEW i \in DOMAIN calls, NEW c \in Request,
         calls' = [calls EXCEPT ![i] = c]
  PROVE  Put(i, c)
BY DEF CallsOK, Put

(* Subsequence keeps the requests at the chosen positions.                   *)
LEMMA SubsequenceKeeps ==
  ASSUME CallsOK, NEW K \in SUBSET DOMAIN calls,
         calls' = Subsequence(calls, K)
  PROVE  Kept(K)
BY SubsequenceDerived DEF CallsOK, Kept, Left

(* A property of single requests, given as a set.                            *)
LEMMA DerivedIn ==
  ASSUME NEW P, NEW t, NEW s, NEW K, NEW N, Derived(t, s, K, N),
         \A i \in K : s[i] \in P, N \subseteq P
  PROVE  \A k \in 1..Len(t) : t[k] \in P
BY DEF Derived, From

(* What the server does to them, ...                                         *)
LEMMA ServerEffects ==
  ASSUME CallsOK, StatusOK, RecordsOK, NEW i \in DOMAIN calls
  PROVE
    /\ StartChecks(i) =>
         IF active
         THEN Moved(i, [calls[i] EXCEPT !.ok = FALSE, !.at = "answered"])
         ELSE Put(i, [calls[i] EXCEPT !.at = "claim"])
    /\ StartClaims(i) => Put(i, [calls[i] EXCEPT !.at = "spawn"])
    /\ StartSpawns(i) =>
         Moved(i, [calls[i] EXCEPT !.ok = TRUE, !.at = "answered"])
    /\ StepCompletes(i) \/ StopRefused(i) \/ StopFinishes(i) =>
         Kept(DOMAIN calls \ {i})
    /\ StopAsks(i) => Put(i, [calls[i] EXCEPT !.at = "join"])
    /\ ReportsStatus(i) =>
         Moved(i, [calls[i] EXCEPT
                     !.seen = [status |-> status, active |-> active],
                     !.at = "answered"])
    /\ ReportsRecord(i) =>
         Moved(i, [calls[i] EXCEPT !.copy = record, !.at = "answered"])
    /\ ReadsRecord(i) =>
         Put(i, [calls[i] EXCEPT !.at = "write", !.copy =
                   IF calls[i].op = "cams"
                   THEN [record EXCEPT !.cams = calls[i].cams]
                   ELSE [record EXCEPT !.port[calls[i].side] =
                           calls[i].port]])
    /\ SavesRecord(i) =>
         IF calls[i].op = "save"
         THEN Moved(i, [calls[i] EXCEPT !.ok = TRUE, !.at = "answered"])
         ELSE Kept(DOMAIN calls \ {i})
<1>0. calls[i] \in Request
  BY Typed
<1>1. \A ok \in BOOLEAN :
        Answers(i, ok) =>
          Moved(i, [calls[i] EXCEPT !.ok = ok, !.at = "answered"])
  <2> TAKE ok \in BOOLEAN
  <2>1. [calls[i] EXCEPT !.ok = ok] \in Request
    BY <1>0 DEF Request
  <2> QED  BY <2>1, AnsweredMoves DEF Answers
<1>2. \A at \in {"claim", "spawn", "join"} :
        Proceeds(i, at) => Put(i, [calls[i] EXCEPT !.at = at])
  <2> TAKE at \in {"claim", "spawn", "join"}
  <2>1. [calls[i] EXCEPT !.at = at] \in Request
    BY <1>0 DEF Request
  <2> QED  BY <2>1, ExceptPuts DEF Proceeds
<1>3. Replies(i) => Kept(DOMAIN calls \ {i})
  BY RemoveAtKeeps DEF Replies
<1>4. ReportsStatus(i) =>
        Moved(i, [calls[i] EXCEPT
                    !.seen = [status |-> status, active |-> active],
                    !.at = "answered"])
  <2>1. [calls[i] EXCEPT !.seen = [status |-> status, active |-> active]]
          \in Request
    BY <1>0 DEF Request, Seen, StatusOK
  <2> QED  BY <2>1, AnsweredMoves DEF ReportsStatus
<1>5. ReportsRecord(i) =>
        Moved(i, [calls[i] EXCEPT !.copy = record, !.at = "answered"])
  <2>1. [calls[i] EXCEPT !.copy = record] \in Request
    BY <1>0 DEF Request, RecordsOK
  <2> QED  BY <2>1, AnsweredMoves DEF ReportsRecord
<1>6. ReadsRecord(i) =>
        Put(i, [calls[i] EXCEPT !.at = "write", !.copy =
                  IF calls[i].op = "cams"
                  THEN [record EXCEPT !.cams = calls[i].cams]
                  ELSE [record EXCEPT !.port[calls[i].side] =
                          calls[i].port]])
  <2> DEFINE rec == IF calls[i].op = "cams"
                    THEN [record EXCEPT !.cams = calls[i].cams]
                    ELSE [record EXCEPT !.port[calls[i].side] = calls[i].port]
  <2>1. rec \in Record
    BY <1>0 DEF Request, RecordsOK, Record
  <2> HIDE DEF rec
  <2>2. [calls[i] EXCEPT !.at = "write", !.copy = rec] \in Request
    BY <1>0, <2>1 DEF Request
  <2>3. ReadsRecord(i) =>
          calls' = [calls EXCEPT ![i] =
                      [calls[i] EXCEPT !.at = "write", !.copy = rec]]
    BY <1>0 DEF ReadsRecord, rec, CallsOK
  <2>4. ReadsRecord(i) =>
          Put(i, [calls[i] EXCEPT !.at = "write", !.copy = rec])
    BY <2>2, <2>3, ExceptPuts
  <2> QED  BY <2>4 DEF rec
<1> QED
  BY <1>1, <1>2, <1>3, <1>4, <1>5, <1>6
  DEF StartChecks, StartClaims, StartSpawns, StepCompletes, StopRefused,
      StopFinishes, StopAsks, SavesRecord, StatusOK

(* ... the user and the interval, ...                                        *)
LEMMA UserEffects ==
  ASSUME CallsOK, PageOK, FormOK
  PROVE
    /\ Mount => Sent(Call("load", visits + 1, "teleop", NoPort))
    /\ \A stop \in BOOLEAN : LeavesPage(stop) =>
         Left({i \in DOMAIN calls : calls[i].op \notin {"detect", "cameras"}},
              IF stop THEN {Call("stop", 0, "teleop", NoPort)} ELSE {})
    /\ Poll => Sent(Call("status", visit, "teleop", NoPort))
    /\ ClickStart => Sent(Call("start", visit, side, port))
    /\ ClickCancel => Sent(Call("stop", visit, "teleop", NoPort))
    /\ ClickSave => Sent(Call("complete", visit, "teleop", NoPort))
    /\ TypePort => \/ UNCHANGED calls
                   \/ Sent(Call("save", visit, side, side))
    /\ OpenDialog => Sent(Call("detect", visit, side, NoPort))
    /\ CloseDialog => Kept({i \in DOMAIN calls : calls[i].op # "detect"})
    /\ RetryDetection => Sent(Call("detect", visit, dialog.side, NoPort))
<1>0. /\ visit \in Nat /\ visits + 1 \in Nat
      /\ side \in Sides /\ port \in Ports
      /\ NoPort \in Ports /\ "teleop" \in Sides /\ side \in Ports
      /\ dialog.side \in Sides
  BY DEF PageOK, FormOK, Ports, Sides
<1>1. \A op \in Ops, s \in Sides, p \in Ports :
        Sends(op, s, p) => Sent(Call(op, visit, s, p))
  BY <1>0, CallOK, AppendSends DEF Sends
<1>2. Mount => Sent(Call("load", visits + 1, "teleop", NoPort))
  BY <1>0, CallOK, AppendSends DEF Mount, Ops
<1>3. \A ops : calls' = Without(ops) =>
                 Kept({i \in DOMAIN calls : calls[i].op \notin ops})
  BY SubsequenceKeeps DEF Without
<1>4. ASSUME NEW stop \in BOOLEAN, LeavesPage(stop)
      PROVE  Left({i \in DOMAIN calls :
                     calls[i].op \notin {"detect", "cameras"}},
                  IF stop THEN {Call("stop", 0, "teleop", NoPort)} ELSE {})
  <2> DEFINE K == {i \in DOMAIN calls :
                     calls[i].op \notin {"detect", "cameras"}}
             kept == Subsequence(calls, K)
             c == Call("stop", 0, "teleop", NoPort)
  <2>1. kept \in Seq(Request) /\ Derived(kept, calls, K, {})
    BY SubsequenceDerived DEF CallsOK
  <2>2. calls' = IF stop THEN Append(kept, c) ELSE kept
    BY <1>4 DEF LeavesPage, Without
  <2>3. c \in Request /\ K \in SUBSET DOMAIN calls
    BY <1>0, CallOK DEF Ops
  <2> HIDE DEF K, kept, c
  <2>4. CASE stop
    <3>1. Append(kept, c) \in Seq(Request)
          /\ Derived(Append(kept, c), calls, K, {c})
      BY <2>1, <2>3, AppendDerived DEF CallsOK
    <3> QED  BY <2>2, <2>4, <3>1 DEF Left, K, c
  <2>5. CASE ~stop
    BY <2>1, <2>2, <2>5 DEF Left, K
  <2> QED  BY <2>4, <2>5
<1>5. CloseDialog => Kept({i \in DOMAIN calls : calls[i].op # "detect"})
  <2>1. {i \in DOMAIN calls : calls[i].op \notin {"detect"}}
          = {i \in DOMAIN calls : calls[i].op # "detect"}
    OBVIOUS
  <2> QED  BY <1>3, <2>1 DEF CloseDialog
<1>6. TypePort => UNCHANGED calls \/ Sends("save", side, side)
  BY DEF TypePort, Persists
<1> QED
  BY <1>0, <1>1, <1>2, <1>4, <1>5, <1>6
  DEF Poll, ClickStart, ClickCancel, ClickSave, OpenDialog, RetryDetection, Ops

(* ... the answers, ...                                                      *)
LEMMA AnswerEffects ==
  ASSUME CallsOK, PageOK, FormOK, NEW i \in DOMAIN calls
  PROVE
    /\ PortDetected(i) =>
         Put(i, [calls[i] EXCEPT !.op = "keep", !.port = calls[i].side])
    /\ DetectionFails(i) => Kept(DOMAIN calls \ {i})
    /\ PortKept(i) => IF dialog.cancelled THEN Kept(DOMAIN calls \ {i})
                      ELSE Put(i, [calls[i] EXCEPT !.op = "hold"])
    /\ HandsPortOver(i) =>
         IF dialog.cancelled THEN Kept(DOMAIN calls \ {i})
         ELSE \E N \in SUBSET {Call("save", visit, calls[i].side,
                                     calls[i].port)} :
                Left({j \in DOMAIN calls \ {i} : calls[j].op # "detect"}, N)
    /\ AnswerIsLate(i) \/ StartAnswered(i) \/ RecordAnswered(i)
         \/ SaveAnswered(i) => Kept(DOMAIN calls \ {i})
    /\ StatusAnswered(i) =>
         \/ Kept(DOMAIN calls \ {i})
         \/ Moved(i, Call("robot", visit, "teleop", NoPort))
<1>0. /\ visit \in Nat /\ NoPort \in Ports /\ "teleop" \in Sides
      /\ calls[i] \in Request
      /\ calls[i].side \in Sides /\ calls[i].port \in Ports
      /\ calls[i].side \in Ports
  BY Typed DEF PageOK, Ports, Sides, Request
<1>1. calls' = RemoveAt(calls, i) => Kept(DOMAIN calls \ {i})
  BY RemoveAtKeeps
<1>2. PortDetected(i) =>
        Put(i, [calls[i] EXCEPT !.op = "keep", !.port = calls[i].side])
  <2>1. [calls[i] EXCEPT !.op = "keep", !.port = calls[i].side] \in Request
    BY <1>0 DEF Request, Ops
  <2>2. PortDetected(i) =>
          calls' = [calls EXCEPT ![i] = [calls[i] EXCEPT !.op = "keep",
                                           !.port = calls[i].side]]
    BY <1>0 DEF PortDetected, CallsOK
  <2> QED  BY <2>1, <2>2, ExceptPuts
<1>3. calls' = [calls EXCEPT ![i].op = "hold"] =>
        Put(i, [calls[i] EXCEPT !.op = "hold"])
  <2>1. [calls[i] EXCEPT !.op = "hold"] \in Request
    BY <1>0 DEF Request, Ops
  <2> QED  BY <2>1, ExceptPuts
<1>4. ASSUME HandsPortOver(i), ~dialog.cancelled
      PROVE  \E N \in SUBSET {Call("save", visit, calls[i].side,
                                   calls[i].port)} :
               Left({j \in DOMAIN calls \ {i} : calls[j].op # "detect"}, N)
  <2> DEFINE K == {j \in DOMAIN calls \ {i} : calls[j].op # "detect"}
             others == Subsequence(calls, K)
             c == Call("save", visit, calls[i].side, calls[i].port)
  <2>1. others \in Seq(Request) /\ Derived(others, calls, K, {})
    BY SubsequenceDerived DEF CallsOK
  <2>2. calls' = Append(others, c) \/ calls' = others
    BY <1>4 DEF HandsPortOver
  <2>3. c \in Request /\ K \in SUBSET DOMAIN calls
    BY <1>0, CallOK DEF Ops
  <2> HIDE DEF K, others, c
  <2>4. /\ Append(others, c) \in Seq(Request)
        /\ Derived(Append(others, c), calls, K, {c})
    BY <2>1, <2>3, AppendDerived DEF CallsOK
  <2>5. Left(K, {}) \/ Left(K, {c})
    BY <2>1, <2>2, <2>4 DEF Left
  <2> QED  BY <2>5 DEF K, c
<1>5. StatusAnswered(i) =>
        \/ Kept(DOMAIN calls \ {i})
        \/ Moved(i, Call("robot", visit, "teleop", NoPort))
  <2>1. Call("robot", visit, "teleop", NoPort) \in Request
    BY <1>0, CallOK DEF Ops
  <2>2. StatusAnswered(i) =>
          \/ calls' = RemoveAt(calls, i)
          \/ calls' = Append(RemoveAt(calls, i),
                             Call("robot", visit, "teleop", NoPort))
    BY DEF StatusAnswered
  <2> QED  BY <1>1, <2>1, <2>2, AppendMoves
<1> QED
  BY <1>1, <1>2, <1>3, <1>4, <1>5
  DEF DetectionFails, PortKept, HandsPortOver, AnswerIsLate, StartAnswered,
      RecordAnswered, RecordArrives, SaveAnswered

(* ... and the cameras.                                                      *)
LEMMA EnumerationOK ==
  ASSUME NEW devices \in SUBSET Devices
  PROVE  Enumeration(devices) \in Request
<1>1. Call("cameras", 0, "teleop", NoPort) \in Request
  BY CallOK DEF Ops, Sides, Ports
<1> QED  BY <1>1 DEF Enumeration, Request

(* The rank of a camera is a number.                                         *)
LEMMA IndexOK ==
  ASSUME CamerasAssumption, plugged \subseteq Devices, NEW d
  PROVE  Index(d) \in Nat
<1>1. IsFiniteSet(Devices)
  BY FS_Interval DEF Devices, CamerasAssumption
<1>2. IsFiniteSet({e \in plugged : e < d})
  BY <1>1, FS_Subset
<1> QED  BY <1>2, FS_CardinalityType DEF Index

(* The lists that the server may answer with.                                *)
FoundBy(i) ==
  {{[index |-> Index(d),
     device |-> IF d \in calls[i].devices THEN d ELSE NoDevice] :
       d \in opened} : opened \in SUBSET plugged}
Saving(list) == [Call("cams", 0, "teleop", NoPort) EXCEPT !.cams = list]

(* What the form, its timer, the cables and the list of the server do.       *)
LEMMA CameraEffects ==
  ASSUME CallsOK, CardOK, CamerasAssumption
  PROVE
    /\ TurnOn \/ Rescan => Sent(Enumeration(plugged))
    /\ TurnOff => Kept({i \in DOMAIN calls : calls[i].op # "cameras"})
    /\ \A d \in Devices : DeviceChanges(d) =>
         /\ plugged' \subseteq Devices
         /\ IF cam.on THEN Sent(Enumeration(plugged')) ELSE UNCHANGED calls
    /\ SavesCameras => cam.due # {} /\
         Sent(Saving(CHOOSE list \in cam.due : TRUE))
    /\ \A i \in DOMAIN calls :
         /\ ListsCameras(i) =>
              \E found \in FoundBy(i) :
                /\ Moved(i, [calls[i] EXCEPT !.found = found,
                                             !.at = "answered"])
                /\ found \subseteq Found
         /\ CamerasListed(i) => Kept(DOMAIN calls \ {i})
<1>1. TurnOn \/ Rescan => Sent(Enumeration(plugged))
  BY EnumerationOK, AppendSends DEF TurnOn, Rescan, CardOK
<1>2. TurnOff => Kept({i \in DOMAIN calls : calls[i].op # "cameras"})
  <2>1. {i \in DOMAIN calls : calls[i].op \notin {"cameras"}}
          = {i \in DOMAIN calls : calls[i].op # "cameras"}
    OBVIOUS
  <2> QED  BY <2>1, SubsequenceKeeps DEF TurnOff, Without
<1>3. ASSUME NEW d \in Devices, DeviceChanges(d)
      PROVE  /\ plugged' \subseteq Devices
             /\ IF cam.on THEN Sent(Enumeration(plugged'))
                ELSE UNCHANGED calls
  <2>1. plugged' \subseteq Devices
    BY <1>3 DEF DeviceChanges, CardOK
  <2> QED  BY <1>3, <2>1, EnumerationOK, AppendSends DEF DeviceChanges
<1>4. ASSUME SavesCameras
      PROVE  cam.due # {} /\ Sent(Saving(CHOOSE list \in cam.due : TRUE))
  <2>1. PICK list : list = CHOOSE l \in cam.due : TRUE
    OBVIOUS
  <2>2. cam.due # {} /\ list \in Seq(Camera)
    BY <1>4, <2>1 DEF SavesCameras, CardOK, CardState
  <2>3. Call("cams", 0, "teleop", NoPort) \in Request
    BY CallOK DEF Ops, Sides, Ports
  <2>4. Saving(list) \in Request
    BY <2>2, <2>3 DEF Saving, Request
  <2>5. calls' = Append(calls, Saving(list))
    BY <1>4, <2>1 DEF SavesCameras, Saving
  <2> QED  BY <2>1, <2>2, <2>4, <2>5, AppendSends
<1>5. ASSUME NEW i \in DOMAIN calls, ListsCameras(i)
      PROVE  \E found \in FoundBy(i) :
               /\ Moved(i, [calls[i] EXCEPT !.found = found,
                                            !.at = "answered"])
               /\ found \subseteq Found
  <2>1. \A d \in plugged : Index(d) \in Nat /\ d \in Devices
    BY IndexOK DEF CardOK
  <2>2. \A found \in FoundBy(i) : found \subseteq Found
    BY <2>1 DEF FoundBy, Found
  <2>3. PICK found \in FoundBy(i) :
          calls' = Answered(i, [calls[i] EXCEPT !.found = found])
    BY <1>5 DEF ListsCameras, FoundBy
  <2>4. found \in SUBSET Found /\ calls[i] \in Request
    BY <2>2, Typed
  <2>5. [calls[i] EXCEPT !.found = found] \in Request
    BY <2>4 DEF Request
  <2> QED  BY <2>2, <2>3, <2>5, AnsweredMoves
<1>6. ASSUME NEW i \in DOMAIN calls, CamerasListed(i)
      PROVE  Kept(DOMAIN calls \ {i})
  BY <1>6, RemoveAtKeeps DEF CamerasListed
<1> QED  BY <1>1, <1>2, <1>3, <1>4, <1>5, <1>6

-----------------------------------------------------------------------------
(* Every step is one of the server, of a worker, or one that leaves both     *)
(* alone.                                                                    *)
LEMMA ManagerSteps ==
  ASSUME [Next]_vars
  PROVE  \/ /\ \/ \E i \in DOMAIN calls : Handles(i)
               \/ \E r \in Runs : Works(r)
            /\ UNCHANGED <<card, page, form>>
         \/ UNCHANGED <<manager, record>>
BY ZenonT(40)
   DEF Next, vars, User, Mount, Leave, LeavesPage, ClickStart, ClickCancel,
       ClickSave, PickSide, TypePort, OpenDialog, CloseDialog, RetryDetection,
       Poll, Card, Handled, Server, Answer, AnswerIsLate, StartAnswered,
       StatusAnswered, RecordAnswered, RecordArrives, SaveAnswered, Detects,
       PortDetected, DetectionFails, PortKept, HandsPortOver, CamerasAsked,
       CamerasCome, Worker

(* Every step keeps the types of the status, ...                             *)
LEMMA StatusStep ==
  ASSUME StatusOK, RunsOK, [Next]_vars
  PROVE  StatusOK'
<1> USE DEF StatusOK, Statuses
<1>1. CASE UNCHANGED <<active, status, device>>
  BY <1>1
<1>2. ASSUME NEW i \in DOMAIN calls, Handles(i) PROVE StatusOK'
  <2>1. \/ UNCHANGED <<active, status, device>>
        \/ StartClaims(i) \/ StopAsks(i) \/ StopFinishes(i)
    BY <1>2 DEF Handles, StartChecks, StartSpawns, StepCompletes, StopRefused,
                ReportsStatus, ReportsRecord, ReadsRecord, SavesRecord,
                manager
  <2>2. CASE StartClaims(i)
    BY <2>2 DEF StartClaims
  <2>3. CASE StopAsks(i)
    BY <2>3 DEF StopAsks
  <2>4. CASE StopFinishes(i)
    <3>1. 0 \in 0..MaxRuns
      BY ManagerAssumption
    <3> QED  BY <2>4, <3>1 DEF StopFinishes
  <2> QED  BY <1>1, <2>1, <2>2, <2>3, <2>4
<1>3. ASSUME NEW r \in Runs, Works(r) PROVE StatusOK'
  <2>0. MaxRuns \in Nat /\ r \in 0..MaxRuns /\ 0 \in 0..MaxRuns
    BY ManagerAssumption DEF Runs
  <2>1. \/ UNCHANGED <<active, status, device>>
        \/ Connects(r) \/ StartsRanges(r) \/ Finishes(r) \/ Ends(r)
    BY <1>3 DEF Works, Advances, Homes, EndsRanges, WritesCalibration,
                ReadsForWriteBack, WritesBack, Fails
  <2>2. CASE Connects(r)
    BY <2>0, <2>2 DEF Connects
  <2>3. CASE StartsRanges(r)
    BY <2>3 DEF StartsRanges
  <2>4. CASE Finishes(r)
    <3>1. \E s \in {"completed", "error"} : CleansUp(s)
      BY <2>4 DEF Finishes
    <3> QED  BY <2>0, <3>1 DEF CleansUp
  <2>5. CASE Ends(r)
    <3>1. CleansUp("idle") \/ UNCHANGED <<active, status, device>>
      BY <2>5 DEF Ends
    <3> QED  BY <1>1, <2>0, <3>1 DEF CleansUp
  <2> QED  BY <1>1, <2>1, <2>2, <2>3, <2>4, <2>5
<1> QED  BY <1>1, <1>2, <1>3, ManagerSteps DEF manager

(* ... of the runs, ...                                                      *)
LEMMA RunsStep ==
  ASSUME CallsOK, RunsOK, [Next]_vars
  PROVE  RunsOK'
<1> USE DEF RunsOK, Runs
<1>0. MaxRuns \in Nat /\ run \in Nat
  BY ManagerAssumption
<1>1. CASE UNCHANGED <<manager, record>>
  BY <1>1 DEF manager
<1>2. ASSUME NEW i \in DOMAIN calls, Handles(i) PROVE RunsOK'
  <2>1. CASE StartClaims(i)
    <3>1. calls[i].side \in Sides /\ calls[i].port \in Ports
      BY Typed DEF Request
    <3>2. run + 1 \in 0..MaxRuns
      BY <1>0, <2>1 DEF StartClaims
    <3> QED  BY <2>1, <3>1, <3>2 DEF StartClaims
  <2>2. CASE StartSpawns(i)
    BY <2>2 DEF StartSpawns, Places
  <2> QED
    BY <1>2, <2>1, <2>2
    DEF Handles, StartChecks, StepCompletes, StopRefused, StopAsks,
        StopFinishes, ReportsStatus, ReportsRecord, ReadsRecord,
        SavesRecord, manager
<1>3. ASSUME NEW r \in Runs, Works(r) PROVE RunsOK'
  <2>1. UNCHANGED <<run, thread, request>>
    BY <1>3 DEF Works, Advances, Connects, Homes, StartsRanges, EndsRanges,
                WritesCalibration, ReadsForWriteBack, WritesBack, Finishes,
                Ends, Fails
  <2>2. \E to \in Places : pc' = [pc EXCEPT ![r] = to]
    BY <1>3 DEF Works, Advances, Connects, Homes, StartsRanges, EndsRanges,
                WritesCalibration, ReadsForWriteBack, WritesBack, Finishes,
                Ends, Fails, Onward, Moves, Places
  <2> QED  BY <2>1, <2>2
<1> QED  BY <1>1, <1>2, <1>3, ManagerSteps

(* ... of the records, on disk and in the hands of the workers, ...          *)
LEMMA RecordsStep ==
  ASSUME CallsOK, RunsOK, RecordsOK, ClaimedInv, [Next]_vars
  PROVE  RecordsOK'
<1> USE DEF RecordsOK
<1>1. CASE UNCHANGED <<manager, record>>
  BY <1>1 DEF manager
<1>2. ASSUME NEW i \in DOMAIN calls, Handles(i) PROVE RecordsOK'
  <2>1. calls[i].copy \in Record
    BY Typed DEF Request
  <2> QED
    BY <1>2, <2>1
    DEF Handles, StartChecks, StartClaims, StartSpawns, StepCompletes,
        StopRefused, StopAsks, StopFinishes, ReportsStatus, ReportsRecord,
        ReadsRecord, SavesRecord, manager
<1>3. ASSUME NEW r \in Runs, Works(r) PROVE RecordsOK'
  <2>1. CASE ReadsForWriteBack(r)
    <3>1. run \in Runs
      BY <2>1, ManagerAssumption
      DEF ReadsForWriteBack, Moves, ClaimedInv, RunsOK, Runs
    <3>2. request[run].side \in Sides /\ request[run].port \in Ports
      BY <3>1 DEF RunsOK
    <3>3. [record EXCEPT !.port[request[run].side] = request[run].port,
                         !.config = @ \cup {request[run].side}] \in Record
      BY <3>2 DEF Record
    <3> QED  BY <2>1, <3>3 DEF ReadsForWriteBack
  <2>2. CASE WritesBack(r)
    BY <2>2, EmptyRecordOK DEF WritesBack
  <2> QED
    BY <1>3, <2>1, <2>2
    DEF Works, Advances, Connects, Homes, StartsRanges, EndsRanges,
        WritesCalibration, Finishes, Ends, Fails
<1> QED  BY <1>1, <1>2, <1>3, ManagerSteps

(* ... of the requests under way.                                            *)
LEMMA CallsStep ==
  ASSUME CallsOK, StatusOK, RecordsOK, CardOK, PageOK, FormOK, [Next]_vars
  PROVE  CallsOK'
<1> DEFINE typed == calls' \in Seq(Request)
<1>1. CASE UNCHANGED calls
  BY <1>1 DEF CallsOK
<1>2. ASSUME NEW i \in DOMAIN calls, Handled(i) PROVE typed
  <2> USE DEF Left, Kept, Moved, Put
  <2>1. CASE Handles(i)
    BY Zenon, <2>1, ServerEffects DEF Handles
  <2>2. CASE Answer(i) \/ Detects(i)
    BY <2>2, AnswerEffects DEF Answer, Detects
  <2>3. CASE ListsCameras(i) \/ CamerasListed(i)
    BY <2>3, CameraEffects, CamerasAssumption
  <2> QED  BY <1>2, <2>1, <2>2, <2>3 DEF Handled, Server, CamerasCome,
                                        CamerasAsked
<1>3. ASSUME User \/ Poll PROVE typed
  <2>1. CASE \E s \in Sides : PickSide(s)
    BY <1>1, <2>1 DEF PickSide, CallsOK
  <2>2. CASE Leave
    <3>1. activeRef \in BOOLEAN
      BY DEF PageOK
    <3> QED  BY <2>2, <3>1, UserEffects DEF Leave, Left
  <2>3. CASE TypePort
    BY <1>1, <2>3, UserEffects DEF Left, Sent, CallsOK
  <2> QED
    BY <1>3, <2>1, <2>2, <2>3, UserEffects DEF User, Left, Sent, Kept
<1>4. ASSUME Card PROVE typed
  <2>1. CASE CardUser
    <3>1. \/ UNCHANGED calls \/ TurnOn \/ TurnOff \/ Rescan
      BY <2>1 DEF CardUser, AddCamera, PickCamera, RemoveCamera, UpdateCamera,
                  Edits
    <3> QED
      BY <3>1, CameraEffects, CamerasAssumption
      DEF Left, Sent, Kept, CallsOK
  <2>2. CASE SavesCameras
    BY <2>2, CameraEffects, CamerasAssumption DEF Left, Sent
  <2>3. CASE \E d \in Devices : DeviceChanges(d)
    BY <2>3, CameraEffects, CamerasAssumption DEF Left, Sent, CallsOK
  <2> QED  BY <1>4, <2>1, <2>2, <2>3 DEF Card
<1>5. ASSUME NEW r \in Runs, Works(r) PROVE UNCHANGED calls
  BY <1>5 DEF Works, Advances, Connects, Homes, StartsRanges, EndsRanges,
              WritesCalibration, ReadsForWriteBack, WritesBack, Finishes,
              Ends, Fails
<1>6. CallsOK' <=> typed
  BY DEF CallsOK
<1> QED
  BY <1>1, <1>2, <1>3, <1>4, <1>5, <1>6 DEF Next, vars, Worker

(* A camera that takes the index of its device stays one.                    *)
LEMMA RemappedOK ==
  ASSUME NEW c \in Camera, NEW found \in SUBSET Found
  PROVE  /\ Remapped(c, found) \in Camera
         /\ Remapped(c, found).device = c.device
<1> DEFINE now == {f \in found : f.device # NoDevice /\ f.device = c.device}
<1>1. CASE now = {}
  BY <1>1 DEF Remapped
<1>2. CASE now # {}
  <2>1. PICK f : f = CHOOSE g \in now : TRUE
    OBVIOUS
  <2>2. f \in Found
    BY <1>2, <2>1
  <2>3. Remapped(c, found) = [c EXCEPT !.index = f.index]
    BY <1>2, <2>1 DEF Remapped
  <2> QED  BY <2>2, <2>3 DEF Camera, Found
<1> QED  BY <1>1, <1>2

(* A list of which every camera took its index is a list of cameras.         *)
LEMMA ListedOK ==
  ASSUME CallsOK, CardOK, NEW i \in DOMAIN calls
  PROVE  /\ Listed(i) \in Seq(Camera) /\ Len(Listed(i)) = Len(cam.list)
         /\ \A k \in DOMAIN cam.list :
              Listed(i)[k] = Remapped(cam.list[k], calls[i].found)
<1>1. calls[i].found \in SUBSET Found
  BY Typed DEF Request
<1>2. cam.list \in Seq(Camera)
  BY DEF CardOK, CardState
<1>3. \A k \in 1..Len(cam.list) :
        Remapped(cam.list[k], calls[i].found) \in Camera
  BY <1>1, <1>2, RemappedOK
<1> QED  BY <1>2, <1>3 DEF Listed

(* Who changes the card.                                                     *)
LEMMA CardChanges ==
  ASSUME [Next]_vars
  PROVE  \/ UNCHANGED card \/ LeavesPage(activeRef)
         \/ MayEditCameras /\ CardUser
         \/ SavesCameras \/ \E d \in Devices : DeviceChanges(d)
         \/ \E i \in DOMAIN calls : RecordAnswered(i) \/ CamerasListed(i)
BY DEF Next, vars, User, Mount, Leave, ClickStart, ClickCancel, ClickSave,
       PickSide, TypePort, OpenDialog, CloseDialog, RetryDetection, Poll,
       Card, Handled, Server, Answer, AnswerIsLate, StartAnswered,
       StatusAnswered, SaveAnswered, Detects, PortDetected, DetectionFails,
       PortKept, HandsPortOver, CamerasAsked, CamerasCome, Worker,
       ListsCameras

(* Every step keeps the types of the card, ...                               *)
LEMMA CardStep ==
  ASSUME CallsOK, CardOK, [Next]_vars
  PROVE  CardOK'
<1> USE DEF CardOK
<1>0. /\ cam \in CardState /\ cam.list \in Seq(Camera)
      /\ max \in Bounds /\ NoCard \in CardState
      /\ cam.scans + 1 \in Nat /\ cam.edits + 1 \in Nat /\ NoIndex \in Int
  <2>1. <<>> \in Seq(Camera)
    OBVIOUS
  <2> QED  BY <2>1 DEF CardState, NoCard, NoIndex
<1>1. CASE UNCHANGED card
  BY <1>1 DEF card
<1>2. CASE LeavesPage(activeRef)
  BY <1>0, <1>2 DEF LeavesPage, CardState
<1>3. ASSUME NEW list \in Seq(Camera) PROVE Changed(list) \in CardState
  BY <1>0 DEF Changed, CardState
<1>4. ASSUME NEW i \in DOMAIN calls, RecordAnswered(i) PROVE CardOK'
  <2>1. calls[i].copy.cams \in Seq(Camera)
    BY Typed DEF Request, Record
  <2>2. [cam EXCEPT !.list = calls[i].copy.cams] \in CardState
    BY <1>0, <2>1 DEF CardState
  <2> QED  BY <1>0, <1>4, <2>2 DEF RecordAnswered, RecordArrives
<1>5. ASSUME NEW i \in DOMAIN calls, CamerasListed(i) PROVE CardOK'
  <2>1. calls[i].found \subseteq Found
    BY Typed DEF Request
  <2>2. Changed(Listed(i)) \in CardState
    BY <1>3, ListedOK
  <2>3. PICK next \in CardState :
          cam' = [next EXCEPT !.avail = calls[i].found, !.loading = FALSE]
    BY <1>0, <1>5, <2>2 DEF CamerasListed
  <2>4. cam' \in CardState
    BY <2>1, <2>3 DEF CardState
  <2> QED  BY <1>0, <1>5, <2>4 DEF CamerasListed
<1>6. ASSUME CardUser PROVE CardOK'
  <2>1. CASE TurnOn \/ TurnOff \/ Rescan
    <3>1. [cam EXCEPT !.on = TRUE, !.loading = TRUE, !.scans = @ + 1]
            \in CardState
      BY <1>0 DEF CardState
    <3>2. [cam EXCEPT !.on = FALSE, !.avail = {}, !.loading = FALSE,
                      !.pick = NoIndex] \in CardState
      BY <1>0 DEF CardState, NoIndex
    <3>3. [cam EXCEPT !.loading = TRUE, !.scans = @ + 1] \in CardState
      BY <1>0 DEF CardState
    <3> QED  BY <1>0, <2>1, <3>1, <3>2, <3>3 DEF TurnOn, TurnOff, Rescan
  <2>2. ASSUME NEW list \in Seq(Camera), Edits(list) PROVE CardOK'
    <3>1. [Changed(list) EXCEPT !.edits = @ + 1] \in CardState
      BY <1>0 DEF Changed, CardState
    <3> QED  BY <1>0, <2>2, <3>1 DEF Edits
  <2>3. ASSUME NEW k \in DOMAIN cam.list, RemoveCamera(k) PROVE CardOK'
    <3>1. RemoveAt(cam.list, k) \in Seq(Camera)
      BY <1>0, RemoveAtElements
    <3> QED  BY <2>2, <2>3, <3>1 DEF RemoveCamera
  <2>4. ASSUME NEW k \in DOMAIN cam.list, UpdateCamera(k) PROVE CardOK'
    <3>1. [cam.list[k] EXCEPT !.options = 1 - @] \in Camera
      <4>1. cam.list[k] \in Camera
        BY <1>0
      <4> QED  BY <4>1 DEF Camera
    <3>2. [cam.list EXCEPT ![k].options = 1 - @] \in Seq(Camera)
      BY <1>0, <3>1
    <3> QED  BY <2>2, <2>4, <3>2 DEF UpdateCamera
  <2>5. ASSUME NEW c \in cam.avail, PickCamera(c) PROVE CardOK'
    <3>1. c.index \in Int
      BY <1>0 DEF CardState, Found
    <3> QED  BY <1>0, <2>5, <3>1 DEF PickCamera, CardState
  <2>6. CASE AddCamera
    <3>1. PICK c \in cam.avail :
            /\ cam' = [Changed(Append(cam.list,
                                [device |-> c.device, index |-> c.index,
                                 options |-> 0]))
                         EXCEPT !.pick = NoIndex, !.edits = @ + 1]
            /\ UNCHANGED <<max, plugged, moves>>
      BY <2>6 DEF AddCamera
    <3>2. c \in Found
      BY <1>0 DEF CardState
    <3>3. [device |-> c.device, index |-> c.index, options |-> 0] \in Camera
      BY <3>2 DEF Found, Camera
    <3>4. PICK list \in Seq(Camera) :
            cam' = [Changed(list) EXCEPT !.pick = NoIndex, !.edits = @ + 1]
      <4>1. Append(cam.list, [device |-> c.device, index |-> c.index,
                              options |-> 0]) \in Seq(Camera)
        BY <1>0, <3>3
      <4> QED  BY <3>1, <4>1
    <3>5. [Changed(list) EXCEPT !.pick = NoIndex, !.edits = @ + 1]
            \in CardState
      BY <1>0 DEF Changed, CardState, NoIndex
    <3> QED  BY <1>0, <3>1, <3>4, <3>5
  <2> QED  BY <1>6, <2>1, <2>3, <2>4, <2>5, <2>6 DEF CardUser
<1>7. ASSUME NEW d \in Devices, DeviceChanges(d) PROVE CardOK'
  <2>1. [cam EXCEPT !.loading = TRUE] \in CardState
    BY <1>0 DEF CardState
  <2>2. plugged' \subseteq Devices /\ moves' \in Nat /\ UNCHANGED max
    BY <1>7 DEF DeviceChanges
  <2>3. cam' \in CardState
    BY <1>0, <1>7, <2>1 DEF DeviceChanges
  <2> QED  BY <1>0, <2>2, <2>3
<1>8. CASE SavesCameras
  BY Zenon, <1>0, <1>8 DEF SavesCameras, CardState
<1> QED  BY <1>1, <1>2, <1>4, <1>5, <1>6, <1>7, <1>8, CardChanges

(* Who changes the page.                                                     *)
LEMMA PageChanges ==
  ASSUME [Next]_vars
  PROVE  \/ UNCHANGED page \/ Mount \/ LeavesPage(activeRef) \/ ClickStart
         \/ \E i \in DOMAIN calls : StartAnswered(i) \/ StatusAnswered(i)
BY ZenonT(40)
   DEF Next, vars, User, Leave, ClickCancel, ClickSave, PickSide, TypePort,
         OpenDialog, CloseDialog, RetryDetection, Poll, Card, Handled, Server,
         Answer, AnswerIsLate, RecordAnswered, RecordArrives, SaveAnswered,
         Detects, PortDetected, DetectionFails, PortKept, HandsPortOver,
         CamerasAsked, CamerasCome, Worker, page

(* ... of the page, ...                                                      *)
LEMMA PageStep ==
  ASSUME CallsOK, PageOK, [Next]_vars
  PROVE  PageOK'
<1> USE DEF PageOK, page
<1>0. Nothing \in Seen /\ visits + 1 \in Nat /\ 0 \in Nat
  BY DEF Nothing, Seen, Statuses
<1>1. CASE UNCHANGED page
  BY <1>1
<1>2. CASE Mount
  BY <1>0, <1>2 DEF Mount
<1>3. CASE LeavesPage(activeRef)
  BY <1>0, <1>3 DEF LeavesPage
<1>4. CASE ClickStart
  BY <1>4 DEF ClickStart
<1>5. ASSUME NEW i \in DOMAIN calls, StartAnswered(i) PROVE PageOK'
  BY <1>5 DEF StartAnswered
<1>6. ASSUME NEW i \in DOMAIN calls, StatusAnswered(i) PROVE PageOK'
  <2>1. calls[i].seen \in Seen /\ calls[i].seen.active \in BOOLEAN
    BY Typed DEF Request, Seen
  <2>2. polling' \in BOOLEAN /\ activeRef' \in BOOLEAN /\ shown' \in Seen
    BY <1>6, <2>1 DEF StatusAnswered
  <2> QED  BY <1>6, <2>2 DEF StatusAnswered
<1> QED  BY <1>1, <1>2, <1>3, <1>4, <1>5, <1>6, PageChanges

(* ... and of its form.                                                      *)
LEMMA FormStep ==
  ASSUME CallsOK, FormOK, [Next]_vars
  PROVE  FormOK'
<1> USE DEF FormOK, form
<1>0. \A r \in Record, s \in Sides : r.port[s] \in Ports
  BY DEF Record
<1>10. NoDialog \in [step : {"closed", "detecting", "error", "success"},
                     cancelled : BOOLEAN, side : Sides]
  BY DEF NoDialog, Sides
<1>1. CASE UNCHANGED form
  BY <1>1
<1>2. CASE LeavesPage(activeRef)
  BY <1>2 DEF LeavesPage, FreshForm, NoDialog, Sides, Ports
<1>3. ASSUME NEW s \in Sides, PickSide(s) PROVE FormOK'
  <2>1. (CHOOSE r \in robot : TRUE) \in Record \/ robot = {}
    OBVIOUS
  <2>2. port' \in Ports
    BY <1>0, <1>3, <2>1 DEF PickSide
  <2> QED  BY <1>3, <2>2 DEF PickSide
<1>4. CASE TypePort
  BY <1>4 DEF TypePort, Ports
<1>5. CASE OpenDialog \/ CloseDialog \/ RetryDetection
  <2>1. [dialog EXCEPT !.step = "detecting", !.cancelled = FALSE]
          \in [step : {"closed", "detecting", "error", "success"},
               cancelled : BOOLEAN, side : Sides]
    OBVIOUS
  <2>2. [step |-> "detecting", cancelled |-> FALSE, side |-> side]
          \in [step : {"closed", "detecting", "error", "success"},
               cancelled : BOOLEAN, side : Sides]
    OBVIOUS
  <2> QED
    BY <1>5, <1>10, <2>1, <2>2 DEF OpenDialog, CloseDialog, RetryDetection
<1>6. ASSUME NEW i \in DOMAIN calls, Detects(i) PROVE FormOK'
  <2>1. calls[i].port \in Ports
    BY Typed DEF Request
  <2>2. \A to \in {"closed", "detecting", "error", "success"} :
          [dialog EXCEPT !.step = to]
            \in [step : {"closed", "detecting", "error", "success"},
                 cancelled : BOOLEAN, side : Sides]
    OBVIOUS
  <2>3. CASE PortDetected(i)
    BY <2>3 DEF PortDetected
  <2>4. CASE DetectionFails(i) \/ PortKept(i)
    BY <2>2, <2>4 DEF DetectionFails, PortKept
  <2>5. CASE HandsPortOver(i)
    BY <2>1, <2>5, <1>10 DEF HandsPortOver
  <2> QED  BY <1>6, <2>3, <2>4, <2>5 DEF Detects
<1>7. ASSUME NEW i \in DOMAIN calls, RecordAnswered(i) PROVE FormOK'
  <2>1. calls[i].copy \in Record /\ NextSide(calls[i].copy) \in Sides
    BY Typed DEF Request, NextSide, Sides
  <2> QED  BY <1>0, <1>7, <2>1 DEF RecordAnswered, RecordArrives
<1>8. ASSUME NEW i \in DOMAIN calls, SaveAnswered(i) PROVE FormOK'
  <2>1. calls[i].copy \in Record
    BY Typed DEF Request
  <2> QED  BY <1>8, <2>1 DEF SaveAnswered
<1>9. \/ UNCHANGED form \/ LeavesPage(activeRef)
      \/ \E s \in Sides : PickSide(s)
      \/ TypePort \/ OpenDialog \/ CloseDialog \/ RetryDetection
      \/ \E i \in DOMAIN calls :
           Detects(i) \/ RecordAnswered(i) \/ SaveAnswered(i)
  BY DEF Next, vars, User, Mount, Leave, ClickStart, ClickCancel, ClickSave,
         Poll, Card, Handled, Server, Answer, AnswerIsLate, StartAnswered,
         StatusAnswered, CamerasAsked, CamerasCome, Worker
<1> QED  BY <1>1, <1>2, <1>3, <1>4, <1>5, <1>6, <1>7, <1>8, <1>9

-----------------------------------------------------------------------------
(* What becomes of request i in a step that goes on with it, ...             *)
Becomes(i, e) ==
  \/ StartChecks(i) /\ active
     /\ e = [calls[i] EXCEPT !.ok = FALSE, !.at = "answered"]
  \/ StartChecks(i) /\ ~active /\ e = [calls[i] EXCEPT !.at = "claim"]
  \/ StartClaims(i) /\ e = [calls[i] EXCEPT !.at = "spawn"]
  \/ StartSpawns(i)
     /\ e = [calls[i] EXCEPT !.ok = TRUE, !.at = "answered"]
  \/ StopAsks(i) /\ e = [calls[i] EXCEPT !.at = "join"]
  \/ ReportsStatus(i)
     /\ e = [calls[i] EXCEPT
               !.seen = [status |-> status, active |-> active],
               !.at = "answered"]
  \/ ReportsRecord(i)
     /\ e = [calls[i] EXCEPT !.copy = record, !.at = "answered"]
  \/ ReadsRecord(i)
     /\ e = [calls[i] EXCEPT !.at = "write", !.copy =
               IF calls[i].op = "cams"
               THEN [record EXCEPT !.cams = calls[i].cams]
               ELSE [record EXCEPT !.port[calls[i].side] = calls[i].port]]
  \/ SavesRecord(i) /\ calls[i].op = "save"
     /\ e = [calls[i] EXCEPT !.ok = TRUE, !.at = "answered"]
  \/ PortDetected(i)
     /\ e = [calls[i] EXCEPT !.op = "keep", !.port = calls[i].side]
  \/ PortKept(i) /\ ~dialog.cancelled /\ e = [calls[i] EXCEPT !.op = "hold"]
  \/ ListsCameras(i)
     /\ \E found \in FoundBy(i) :
          e = [calls[i] EXCEPT !.found = found, !.at = "answered"]

(* ... which removes it, ...                                                 *)
Drops(i) ==
  \/ StepCompletes(i) \/ StopRefused(i) \/ StopFinishes(i)
  \/ SavesRecord(i) /\ calls[i].op # "save"
  \/ AnswerIsLate(i) \/ StartAnswered(i) \/ StatusAnswered(i)
  \/ RecordAnswered(i) \/ SaveAnswered(i)
  \/ DetectionFails(i) \/ CamerasListed(i)
  \/ (PortKept(i) \/ HandsPortOver(i)) /\ dialog.cancelled

(* ... and what a step sends.                                                *)
Sending(e) ==
  \/ Mount /\ e = Call("load", visits + 1, "teleop", NoPort)
  \/ LeavesPage(activeRef) /\ activeRef
     /\ e = Call("stop", 0, "teleop", NoPort)
  \/ Poll /\ e = Call("status", visit, "teleop", NoPort)
  \/ ClickStart /\ e = Call("start", visit, side, port)
  \/ ClickCancel /\ e = Call("stop", visit, "teleop", NoPort)
  \/ ClickSave /\ e = Call("complete", visit, "teleop", NoPort)
  \/ TypePort /\ e = Call("save", visit, side, side)
  \/ OpenDialog /\ e = Call("detect", visit, side, NoPort)
  \/ RetryDetection /\ e = Call("detect", visit, dialog.side, NoPort)
  \/ \E i \in DOMAIN calls :
       \/ HandsPortOver(i) /\ ~dialog.cancelled
          /\ e = Call("save", visit, calls[i].side, calls[i].port)
       \/ StatusAnswered(i) /\ e = Call("robot", visit, "teleop", NoPort)
  \/ MayEditCameras /\ (TurnOn \/ Rescan) /\ e = Enumeration(plugged)
  \/ (\E d \in Devices : DeviceChanges(d)) /\ e = Enumeration(plugged')
  \/ SavesCameras /\ e = Saving(CHOOSE list \in cam.due : TRUE)

(* Requests that a step takes back.                                          *)
Cancels(i) ==
  \/ LeavesPage(activeRef) /\ calls[i].op \in {"detect", "cameras"}
  \/ CloseDialog /\ calls[i].op = "detect"
  \/ TurnOff /\ calls[i].op = "cameras"
  \/ \E j \in DOMAIN calls :
       /\ HandsPortOver(j) /\ ~dialog.cancelled
       /\ i = j \/ calls[i].op = "detect"

GoesOn(i, e) ==
  Becomes(i, e) /\ (Put(i, e) \/ (e.at = "answered" /\ Moved(i, e)))
LeavesAndSends(K, N) ==
  /\ Left(K, N)
  /\ \A i \in DOMAIN calls \ K : Drops(i) \/ Cancels(i)
  /\ \A e \in N : Sending(e)

(* A step leaves the requests alone, goes on with one of them, or lets some  *)
(* go and perhaps sends a new one.                                           *)
LEMMA Shape ==
  ASSUME Types, [Next]_vars
  PROVE  \/ UNCHANGED calls
         \/ \E i \in DOMAIN calls : \E e : GoesOn(i, e)
         \/ \E K \in SUBSET DOMAIN calls : \E N : LeavesAndSends(K, N)
<1> DEFINE goal == \/ UNCHANGED calls
                   \/ \E i \in DOMAIN calls : \E e : GoesOn(i, e)
                   \/ \E K \in SUBSET DOMAIN calls :
                        \E N : LeavesAndSends(K, N)
<1> HIDE DEF goal
<1>0. /\ CallsOK /\ StatusOK /\ RecordsOK /\ CardOK /\ PageOK /\ FormOK
      /\ activeRef \in BOOLEAN
  BY DEF Types, PageOK
<1>1. ASSUME NEW i \in DOMAIN calls, NEW e, Becomes(i, e),
             Put(i, e) \/ (e.at = "answered" /\ Moved(i, e))
      PROVE  goal
  BY <1>1 DEF GoesOn, goal
<1>2. ASSUME NEW K \in SUBSET DOMAIN calls, NEW N, Left(K, N),
             \A i \in DOMAIN calls \ K : Drops(i) \/ Cancels(i),
             \A e \in N : Sending(e)
      PROVE  goal
  BY <1>2 DEF LeavesAndSends, goal
<1>3. ASSUME NEW i \in DOMAIN calls, Drops(i), Kept(DOMAIN calls \ {i})
      PROVE  goal
  BY <1>2, <1>3 DEF Kept
<1>4. ASSUME NEW e, Sending(e), Sent(e) PROVE goal
  BY <1>2, <1>4 DEF Sent
<1>5. ASSUME NEW i \in DOMAIN calls, Handles(i) PROVE goal
  <2>0. calls[i] \in Request
    BY <1>0, Typed
  <2>1. CASE StartChecks(i)
    <3>1. CASE active
      <4> DEFINE e == [calls[i] EXCEPT !.ok = FALSE, !.at = "answered"]
      <4>1. e.at = "answered" /\ Moved(i, e) /\ Becomes(i, e)
        BY Zenon, <1>0, <2>0, <2>1, <3>1, ServerEffects DEF Becomes, Request
      <4> QED  BY Zenon, <1>1, <4>1
    <3>2. CASE ~active
      <4> DEFINE e == [calls[i] EXCEPT !.at = "claim"]
      <4>1. Put(i, e) /\ Becomes(i, e)
        BY Zenon, <1>0, <2>1, <3>2, ServerEffects DEF Becomes
      <4> QED  BY Zenon, <1>1, <4>1
    <3> QED  BY <3>1, <3>2
  <2>2. CASE StartClaims(i)
    <3> DEFINE e == [calls[i] EXCEPT !.at = "spawn"]
    <3>1. Put(i, e) /\ Becomes(i, e)
      BY Zenon, <1>0, <2>2, ServerEffects DEF Becomes
    <3> QED  BY Zenon, <1>1, <3>1
  <2>3. CASE StartSpawns(i)
    <3> DEFINE e == [calls[i] EXCEPT !.ok = TRUE, !.at = "answered"]
    <3>1. e.at = "answered" /\ Moved(i, e) /\ Becomes(i, e)
      BY ZenonT(40), <1>0, <2>0, <2>3, ServerEffects DEF Becomes, Request
    <3> QED  BY Zenon, <1>1, <3>1
  <2>4. CASE StepCompletes(i) \/ StopRefused(i) \/ StopFinishes(i)
    BY Zenon, <1>0, <1>3, <2>4, ServerEffects DEF Drops
  <2>5. CASE StopAsks(i)
    <3> DEFINE e == [calls[i] EXCEPT !.at = "join"]
    <3>1. Put(i, e) /\ Becomes(i, e)
      BY Zenon, <1>0, <2>5, ServerEffects DEF Becomes
    <3> QED  BY Zenon, <1>1, <3>1
  <2>6. CASE ReportsStatus(i)
    <3> DEFINE e == [calls[i] EXCEPT
                      !.seen = [status |-> status, active |-> active],
                      !.at = "answered"]
    <3>1. e.at = "answered" /\ Moved(i, e) /\ Becomes(i, e)
      BY Zenon, <1>0, <2>0, <2>6, ServerEffects DEF Becomes, Request
    <3> QED  BY Zenon, <1>1, <3>1
  <2>7. CASE ReportsRecord(i)
    <3> DEFINE e == [calls[i] EXCEPT !.copy = record, !.at = "answered"]
    <3>1. e.at = "answered" /\ Moved(i, e) /\ Becomes(i, e)
      BY Zenon, <1>0, <2>0, <2>7, ServerEffects DEF Becomes, Request
    <3> QED  BY Zenon, <1>1, <3>1
  <2>8. CASE ReadsRecord(i)
    <3> DEFINE e == [calls[i] EXCEPT !.at = "write", !.copy =
                       IF calls[i].op = "cams"
                       THEN [record EXCEPT !.cams = calls[i].cams]
                       ELSE [record EXCEPT !.port[calls[i].side] =
                               calls[i].port]]
    <3>1. Put(i, e) /\ Becomes(i, e)
      BY ZenonT(40), <1>0, <2>8, ServerEffects DEF Becomes
    <3> QED  BY Zenon, <1>1, <3>1
  <2>9. CASE SavesRecord(i)
    <3>1. CASE calls[i].op = "save"
      <4> DEFINE e == [calls[i] EXCEPT !.ok = TRUE, !.at = "answered"]
      <4>1. e.at = "answered" /\ Moved(i, e) /\ Becomes(i, e)
        BY Zenon, <1>0, <2>0, <2>9, <3>1, ServerEffects DEF Becomes, Request
      <4> QED  BY <1>1, <4>1
    <3> QED  BY ZenonT(40), <1>0, <1>3, <2>9, <3>1, ServerEffects DEF Drops
  <2> QED  BY <1>5, <2>1, <2>2, <2>3, <2>4, <2>5, <2>6, <2>7, <2>8, <2>9
           DEF Handles
<1>6. ASSUME NEW i \in DOMAIN calls, Answer(i) PROVE goal
  <2>1. CASE StatusAnswered(i)
    <3> DEFINE e == Call("robot", visit, "teleop", NoPort)
    <3>1. Kept(DOMAIN calls \ {i}) \/ Moved(i, e)
      BY <1>0, <2>1, AnswerEffects
    <3>2. Drops(i) /\ Sending(e)
      BY <2>1 DEF Drops, Sending
    <3>3. CASE Moved(i, e)
      BY <1>2, <3>2, <3>3 DEF Moved
    <3> QED  BY <1>3, <3>1, <3>2, <3>3
  <2> QED
    BY <1>0, <1>3, <1>6, <2>1, AnswerEffects DEF Answer, Drops
<1>7. ASSUME NEW i \in DOMAIN calls, Detects(i) PROVE goal
  <2>1. CASE PortDetected(i)
    <3> DEFINE e == [calls[i] EXCEPT !.op = "keep", !.port = calls[i].side]
    <3>1. Put(i, e) /\ Becomes(i, e)
      BY <1>0, <2>1, AnswerEffects DEF Becomes
    <3> QED  BY <1>1, <3>1
  <2>2. CASE DetectionFails(i)
    BY <1>0, <1>3, <2>2, AnswerEffects DEF Drops
  <2>3. CASE dialog.cancelled /\ (PortKept(i) \/ HandsPortOver(i))
    BY <1>0, <1>3, <2>3, AnswerEffects DEF Drops
  <2>4. CASE ~dialog.cancelled /\ PortKept(i)
    <3> DEFINE e == [calls[i] EXCEPT !.op = "hold"]
    <3>1. Put(i, e) /\ Becomes(i, e)
      BY <1>0, <2>4, AnswerEffects DEF Becomes
    <3> QED  BY <1>1, <3>1
  <2>5. CASE ~dialog.cancelled /\ HandsPortOver(i)
    <3> DEFINE K == {j \in DOMAIN calls \ {i} : calls[j].op # "detect"}
               e == Call("save", visit, calls[i].side, calls[i].port)
    <3>1. PICK N \in SUBSET {e} : Left(K, N)
      BY <1>0, <2>5, AnswerEffects
    <3>2. Sending(e)
      BY <2>5 DEF Sending
    <3>3. \A j \in DOMAIN calls \ K : Cancels(j)
      BY <2>5 DEF Cancels
    <3>4. \A x \in N : Sending(x)
      BY <3>1, <3>2
    <3> HIDE DEF e
    <3> QED  BY <1>2, <3>1, <3>3, <3>4
  <2> QED  BY <1>7, <2>1, <2>2, <2>3, <2>4, <2>5 DEF Detects
<1>8. ASSUME NEW i \in DOMAIN calls, ListsCameras(i) \/ CamerasListed(i)
      PROVE  goal
  <2>1. CASE ListsCameras(i)
    <3>1. calls[i] \in Request
      BY <1>0, Typed
    <3>4. PICK found \in FoundBy(i) :
            Moved(i, [calls[i] EXCEPT !.found = found, !.at = "answered"])
      BY <1>0, <2>1, CameraEffects, CamerasAssumption
    <3> DEFINE e == [calls[i] EXCEPT !.found = found, !.at = "answered"]
    <3>2. e.at = "answered"
      BY <3>1 DEF Request
    <3>3. Moved(i, e) /\ Becomes(i, e)
      BY <2>1, <3>4 DEF Becomes
    <3> HIDE DEF e
    <3> QED  BY <1>1, <3>2, <3>3
  <2>2. CASE CamerasListed(i)
    BY <1>0, <1>3, <2>2, CameraEffects, CamerasAssumption DEF Drops
  <2> QED  BY <1>8, <2>1, <2>2
<1>9. ASSUME User \/ Poll PROVE goal
  <2>1. CASE \E s \in Sides : PickSide(s)
    BY <2>1 DEF PickSide, goal
  <2>2. CASE Leave
    <3> DEFINE K == {i \in DOMAIN calls :
                       calls[i].op \notin {"detect", "cameras"}}
               e == Call("stop", 0, "teleop", NoPort)
               N == IF activeRef THEN {e} ELSE {}
    <3>1. LeavesPage(activeRef)
      BY <2>2 DEF Leave
    <3>2. Left(K, N)
      BY <1>0, <3>1, UserEffects
    <3>3. \A x \in N : Sending(x)
      BY <3>1 DEF Sending
    <3>4. \A i \in DOMAIN calls \ K : Cancels(i)
      BY <3>1 DEF Cancels
    <3>5. K \in SUBSET DOMAIN calls
      OBVIOUS
    <3> HIDE DEF K, N
    <3> QED  BY <1>2, <3>2, <3>3, <3>4, <3>5
  <2>3. CASE TypePort
    <3>1. Sending(Call("save", visit, side, side))
      BY <2>3 DEF Sending
    <3> QED  BY <1>0, <1>4, <2>3, <3>1, UserEffects DEF goal
  <2>4. CASE CloseDialog
    <3> DEFINE K == {i \in DOMAIN calls : calls[i].op # "detect"}
    <3>1. Left(K, {})
      BY <1>0, <2>4, UserEffects DEF Kept
    <3>2. \A i \in DOMAIN calls \ K : Cancels(i)
      BY <2>4 DEF Cancels
    <3> QED  BY <1>2, <3>1, <3>2
  <2>5. CASE Mount \/ Poll \/ ClickStart \/ ClickCancel \/ ClickSave
             \/ OpenDialog \/ RetryDetection
    <3>1. PICK e : Sending(e) /\ Sent(e)
      BY <1>0, <2>5, UserEffects DEF Sending
    <3> QED  BY <1>4, <3>1
  <2> QED  BY <1>9, <2>1, <2>2, <2>3, <2>4, <2>5 DEF User
<1>10. ASSUME Card PROVE goal
  <2>1. CASE MayEditCameras /\ (TurnOn \/ Rescan)
    <3>1. Sending(Enumeration(plugged)) /\ Sent(Enumeration(plugged))
      BY <1>0, <2>1, CameraEffects, CamerasAssumption DEF Sending
    <3> QED  BY <1>4, <3>1
  <2>2. CASE TurnOff
    <3> DEFINE K == {i \in DOMAIN calls : calls[i].op # "cameras"}
    <3>1. Left(K, {})
      BY <1>0, <2>2, CameraEffects, CamerasAssumption DEF Kept
    <3>2. \A i \in DOMAIN calls \ K : Cancels(i)
      BY <2>2 DEF Cancels
    <3> QED  BY <1>2, <3>1, <3>2
  <2>3. ASSUME NEW d \in Devices, DeviceChanges(d) PROVE goal
    <3>1. Sending(Enumeration(plugged'))
      BY <2>3 DEF Sending
    <3>2. Sent(Enumeration(plugged')) \/ UNCHANGED calls
      BY <1>0, <2>3, CameraEffects, CamerasAssumption
    <3> QED  BY <1>4, <3>1, <3>2 DEF goal
  <2>4. CASE SavesCameras
    <3>1. PICK e : e = Saving(CHOOSE list \in cam.due : TRUE)
      OBVIOUS
    <3>2. Sending(e) /\ Sent(e)
      BY <1>0, <2>4, <3>1, CameraEffects, CamerasAssumption DEF Sending
    <3> QED  BY <1>4, <3>2
  <2>5. \/ UNCHANGED calls \/ TurnOff \/ SavesCameras
        \/ MayEditCameras /\ (TurnOn \/ Rescan)
        \/ \E d \in Devices : DeviceChanges(d)
    BY <1>10 DEF Card, CardUser, AddCamera, PickCamera, RemoveCamera,
                 UpdateCamera, Edits
  <2> QED  BY <2>1, <2>2, <2>3, <2>4, <2>5 DEF goal
<1>11. ASSUME NEW r \in Runs, Works(r) PROVE UNCHANGED calls
  BY <1>11 DEF Works, Advances, Connects, Homes, StartsRanges, EndsRanges,
               WritesCalibration, ReadsForWriteBack, WritesBack, Finishes,
               Ends, Fails
<1>12. UNCHANGED calls => goal
  BY DEF goal
<1>13. ASSUME NEW i \in DOMAIN calls, Handled(i) PROVE goal
  BY <1>5, <1>6, <1>7, <1>8, <1>13
  DEF Handled, Server, CamerasCome, CamerasAsked
<1>14. goal
  BY <1>9, <1>10, <1>11, <1>12, <1>13 DEF Next, vars, Worker
<1> QED  BY <1>14 DEF goal

(* Where a request comes from.                                               *)
LEMMA Origin ==
  ASSUME Types, [Next]_vars, NEW k \in DOMAIN calls'
  PROVE  \/ \E i \in DOMAIN calls : calls'[k] = calls[i]
         \/ \E i \in DOMAIN calls : Becomes(i, calls'[k])
         \/ Sending(calls'[k])
<1>0. CallsOK
  BY DEF Types
<1>1. CASE UNCHANGED calls
  BY <1>1
<1>2. ASSUME NEW K \in SUBSET DOMAIN calls, NEW N, Left(K, N)
      PROVE  (\E i \in K : calls'[k] = calls[i]) \/ calls'[k] \in N
  <2>1. DOMAIN calls' = 1..Len(calls')
    BY <1>2 DEF Left
  <2> QED  BY <1>2, <2>1 DEF Left, Derived, From
<1>3. ASSUME NEW i \in DOMAIN calls, NEW e, GoesOn(i, e)
      PROVE  (\E j \in DOMAIN calls : calls'[k] = calls[j]) \/ calls'[k] = e
  <2>1. CASE Put(i, e)
    BY <1>0, <2>1 DEF Put, CallsOK
  <2>2. CASE Moved(i, e)
    BY <1>2, <2>2 DEF Moved
  <2> QED  BY <1>3, <2>1, <2>2 DEF GoesOn
<1>4. ASSUME NEW i \in DOMAIN calls, NEW e, GoesOn(i, e)
      PROVE  \/ \E j \in DOMAIN calls : calls'[k] = calls[j]
             \/ Becomes(i, calls'[k])
  BY <1>3, <1>4 DEF GoesOn
<1>5. ASSUME NEW K \in SUBSET DOMAIN calls, NEW N, LeavesAndSends(K, N)
      PROVE  \/ \E j \in DOMAIN calls : calls'[k] = calls[j]
             \/ Sending(calls'[k])
  BY <1>2, <1>5 DEF LeavesAndSends
<1> QED  BY <1>1, <1>4, <1>5, Shape

(* What goes on keeps its visit and its side, and mostly its operation.      *)
LEMMA Becoming ==
  ASSUME CallsOK, NEW i \in DOMAIN calls, NEW e, Becomes(i, e)
  PROVE  /\ e.visit = calls[i].visit /\ e.side = calls[i].side
         /\ e.cams = calls[i].cams /\ e.devices = calls[i].devices
         /\ \/ e.copy = calls[i].copy
            \/ ReportsRecord(i) /\ e.copy = record
            \/ ReadsRecord(i) /\ e.copy =
                 IF calls[i].op = "cams"
                 THEN [record EXCEPT !.cams = calls[i].cams]
                 ELSE [record EXCEPT !.port[calls[i].side] = calls[i].port]
         /\ \/ e.found = calls[i].found
            \/ ListsCameras(i) /\ e.found \in FoundBy(i)
         /\ PortDetected(i) => e.port = calls[i].side
         /\ ~PortDetected(i) => e.port = calls[i].port
         /\ PortDetected(i) => e.op = "keep" /\ e.at = calls[i].at
         /\ PortKept(i) => e.op = "hold" /\ e.at = calls[i].at
         /\ ~PortDetected(i) /\ ~PortKept(i) =>
              /\ e.op = calls[i].op
              /\ e.at \in {"answered", "claim", "spawn", "join", "write"}
              /\ e.at = "claim" => StartChecks(i) /\ ~active
              /\ e.at = "spawn" => StartClaims(i)
              /\ e.at = "join" => StopAsks(i)
              /\ e.at = "write" => ReadsRecord(i)
<1>1. calls[i] \in Request
  BY Typed
<1>2. ASSUME PortDetected(i) \/ PortKept(i)
      PROVE  \/ PortDetected(i)
                /\ e = [calls[i] EXCEPT !.op = "keep", !.port = calls[i].side]
             \/ PortKept(i) /\ e = [calls[i] EXCEPT !.op = "hold"]
  <2>1. CASE PortDetected(i)
    BY <2>1 DEF Becomes, StartChecks, StartClaims, StartSpawns, StopAsks,
                ReportsStatus, ReportsRecord, ReadsRecord, SavesRecord,
                PortDetected, PortKept, ListsCameras, Begins
  <2>2. CASE PortKept(i)
    BY <2>2 DEF Becomes, StartChecks, StartClaims, StartSpawns, StopAsks,
                ReportsStatus, ReportsRecord, ReadsRecord, SavesRecord,
                PortDetected, PortKept, ListsCameras, Begins
  <2> QED  BY <1>2, <2>1, <2>2
<1>3. ~(PortDetected(i) /\ PortKept(i))
  BY DEF PortDetected, PortKept, Begins
<1>4. CASE PortDetected(i) \/ PortKept(i)
  <2>1. CASE e = [calls[i] EXCEPT !.op = "keep", !.port = calls[i].side]
             /\ PortDetected(i)
    BY <1>1, <1>3, <2>1 DEF Request
  <2>2. CASE e = [calls[i] EXCEPT !.op = "hold"] /\ PortKept(i)
    BY <1>1, <1>3, <2>2 DEF Request
  <2> QED  BY <1>2, <1>4, <2>1, <2>2
<1>5. CASE ~PortDetected(i) /\ ~PortKept(i)
  <2> DEFINE same == /\ e.visit = calls[i].visit /\ e.side = calls[i].side
                     /\ e.cams = calls[i].cams
                     /\ e.devices = calls[i].devices /\ e.op = calls[i].op
                     /\ e.port = calls[i].port
             copied == e.copy = calls[i].copy
             found == e.found = calls[i].found
             read == IF calls[i].op = "cams"
                     THEN [record EXCEPT !.cams = calls[i].cams]
                     ELSE [record EXCEPT !.port[calls[i].side] = calls[i].port]
  <2>1. CASE /\ StartChecks(i) /\ active
             /\ e = [calls[i] EXCEPT !.ok = FALSE, !.at = "answered"]
    <3>1. same /\ copied /\ found /\ e.at = "answered"
      BY <1>1, <2>1 DEF Request
    <3> QED  BY <1>5, <2>1, <3>1
  <2>2. CASE StartChecks(i) /\ ~active /\ e = [calls[i] EXCEPT !.at = "claim"]
    <3>1. same /\ copied /\ found /\ e.at = "claim"
      BY <1>1, <2>2 DEF Request
    <3> QED  BY <1>5, <2>2, <3>1
  <2>3. CASE StartClaims(i) /\ e = [calls[i] EXCEPT !.at = "spawn"]
    <3>1. same /\ copied /\ found /\ e.at = "spawn"
      BY <1>1, <2>3 DEF Request
    <3> QED  BY <1>5, <2>3, <3>1
  <2>4. CASE StopAsks(i) /\ e = [calls[i] EXCEPT !.at = "join"]
    <3>1. same /\ copied /\ found /\ e.at = "join"
      BY <1>1, <2>4 DEF Request
    <3> QED  BY <1>5, <2>4, <3>1
  <2>5. CASE e = [calls[i] EXCEPT !.ok = TRUE, !.at = "answered"]
    <3>1. same /\ copied /\ found /\ e.at = "answered"
      BY <1>1, <2>5 DEF Request
    <3> QED  BY <1>5, <2>5, <3>1
  <2>6. CASE e = [calls[i] EXCEPT
                    !.seen = [status |-> status, active |-> active],
                    !.at = "answered"]
    <3>1. same /\ copied /\ found /\ e.at = "answered"
      BY <1>1, <2>6 DEF Request
    <3> QED  BY <1>5, <2>6, <3>1
  <2>7. CASE /\ ReportsRecord(i)
             /\ e = [calls[i] EXCEPT !.copy = record, !.at = "answered"]
    <3>1. same /\ found /\ e.copy = record /\ e.at = "answered"
      BY <1>1, <2>7 DEF Request
    <3> QED  BY <1>5, <2>7, <3>1
  <2>8. CASE /\ ReadsRecord(i)
             /\ e = [calls[i] EXCEPT !.at = "write", !.copy = read]
    <3> HIDE DEF read
    <3>1. same /\ found /\ e.copy = read /\ e.at = "write"
      BY <1>1, <2>8 DEF Request
    <3> USE DEF read
    <3> QED  BY <1>5, <2>8, <3>1
  <2>9. CASE /\ ListsCameras(i)
             /\ \E list \in FoundBy(i) :
                  e = [calls[i] EXCEPT !.found = list, !.at = "answered"]
    <3>1. same /\ copied /\ e.found \in FoundBy(i) /\ e.at = "answered"
      BY <1>1, <2>9 DEF Request
    <3> QED  BY <1>5, <2>9, <3>1
  <2> QED
    BY <1>5, <2>1, <2>2, <2>3, <2>4, <2>5, <2>6, <2>7, <2>8, <2>9
    DEF Becomes
<1> QED  BY <1>4, <1>5

(* The part of it that most proofs need.                                     *)
LEMMA BecomesOK ==
  ASSUME CallsOK, NEW i \in DOMAIN calls, NEW e, Becomes(i, e)
  PROVE  /\ e.visit = calls[i].visit /\ e.side = calls[i].side
         /\ e.cams = calls[i].cams /\ e.devices = calls[i].devices
         /\ PortDetected(i) => e.port = calls[i].side
         /\ ~PortDetected(i) => e.port = calls[i].port
         /\ PortDetected(i) => e.op = "keep" /\ e.at = calls[i].at
         /\ PortKept(i) => e.op = "hold" /\ e.at = calls[i].at
         /\ ~PortDetected(i) /\ ~PortKept(i) =>
              /\ e.op = calls[i].op
              /\ e.at \in {"answered", "claim", "spawn", "join", "write"}
              /\ e.at = "claim" => StartChecks(i) /\ ~active
              /\ e.at = "spawn" => StartClaims(i)
              /\ e.at = "join" => StopAsks(i)
              /\ e.at = "write" => ReadsRecord(i)
BY ZenonT(40), Becoming

(* What it brings along.                                                     *)
LEMMA BecomesWith ==
  ASSUME CallsOK, NEW i \in DOMAIN calls, NEW e, Becomes(i, e)
  PROVE  /\ \/ e.copy = calls[i].copy
            \/ ReportsRecord(i) /\ e.copy = record
            \/ ReadsRecord(i) /\ e.copy =
                 IF calls[i].op = "cams"
                 THEN [record EXCEPT !.cams = calls[i].cams]
                 ELSE [record EXCEPT !.port[calls[i].side] = calls[i].port]
         /\ \/ e.found = calls[i].found
            \/ ListsCameras(i) /\ e.found \in FoundBy(i)
BY Becoming

(* What is sent is sent without an answer, a start by a click.               *)
LEMMA SendingOK ==
  ASSUME NEW e, Sending(e)
  PROVE  /\ e.at = "sent" /\ e.found = {} /\ e.copy = EmptyRecord
         /\ e.op = "start" =>
              ClickStart /\ e = Call("start", visit, side, port)
BY DEF Sending, Call, Enumeration, Saving

(* Where a request goes.                                                     *)
LEMMA Stays ==
  ASSUME Types, [Next]_vars, NEW i \in DOMAIN calls
  PROVE  \/ Drops(i) \/ Cancels(i)
         \/ \E k \in DOMAIN calls' :
              calls'[k] = calls[i] \/ Becomes(i, calls'[k])
<1>0. CallsOK
  BY DEF Types
<1>1. CASE UNCHANGED calls
  BY <1>1
<1>2. ASSUME NEW K \in SUBSET DOMAIN calls, NEW N, Left(K, N)
      PROVE  /\ i \in K => \E k \in DOMAIN calls' : calls'[k] = calls[i]
             /\ \A x \in N : \E k \in DOMAIN calls' : calls'[k] = x
  <2>1. DOMAIN calls' = 1..Len(calls') /\ i # Len(calls) + 1
        /\ \A j \in K : j # Len(calls) + 1
    BY <1>0, <1>2 DEF Left, CallsOK
  <2>2. PICK f : From(f, calls', calls, K, N)
    BY <1>2 DEF Left, Derived
  <2>3. ASSUME i \in K PROVE \E k \in DOMAIN calls' : calls'[k] = calls[i]
    <3>1. PICK k \in 1..Len(calls') : f[k] = i
      BY <2>2, <2>3 DEF From
    <3>2. calls'[k] = calls[i]
      BY <2>1, <2>2, <3>1 DEF From
    <3> QED  BY <2>1, <3>1, <3>2
  <2> QED  BY <2>1, <2>2, <2>3 DEF From
<1>3. ASSUME NEW j \in DOMAIN calls, NEW e, GoesOn(j, e)
      PROVE  \E k \in DOMAIN calls' :
               calls'[k] = calls[i] \/ Becomes(i, calls'[k])
  <2>1. CASE Put(j, e)
    <3>1. i \in DOMAIN calls' /\ calls'[i] = IF i = j THEN e ELSE calls[i]
      BY <1>0, <2>1 DEF Put, CallsOK
    <3> QED  BY <1>3, <3>1 DEF GoesOn
  <2>2. CASE Moved(j, e)
    <3>1. Left(DOMAIN calls \ {j}, {e})
      BY <2>2 DEF Moved
    <3>2. PICK k \in DOMAIN calls' :
            calls'[k] = IF i = j THEN e ELSE calls[i]
      BY <1>2, <3>1
    <3> QED  BY <1>3, <3>2 DEF GoesOn
  <2> QED  BY <1>3, <2>1, <2>2 DEF GoesOn
<1>4. ASSUME NEW K \in SUBSET DOMAIN calls, NEW N, LeavesAndSends(K, N)
      PROVE  \/ Drops(i) \/ Cancels(i)
             \/ \E k \in DOMAIN calls' : calls'[k] = calls[i]
  BY <1>2, <1>4 DEF LeavesAndSends
<1> QED  BY <1>1, <1>3, <1>4, Shape

(* A worker is preceded by its claim.                                        *)
LEMMA ClaimedStep ==
  ASSUME Types, [Next]_vars
  PROVE  ClaimedInv'
<1>0. /\ CallsOK /\ ClaimedInv /\ run \in Nat
      /\ \A r \in Runs : r # 0
  BY ManagerAssumption DEF Types, RunsOK, Runs
<1>1. run # 0 => run' # 0
  <2>1. run' = run \/ run' = run + 1
    <3>1. CASE \E i \in DOMAIN calls : Handles(i)
      BY <3>1 DEF Handles, StartChecks, StartClaims, StartSpawns,
                  StepCompletes, StopRefused, StopAsks, StopFinishes,
                  ReportsStatus, ReportsRecord, ReadsRecord, SavesRecord,
                  manager
    <3>2. CASE \E r \in Runs : Works(r)
      BY <3>2 DEF Works, Advances, Connects, Homes, StartsRanges, EndsRanges,
                  WritesCalibration, ReadsForWriteBack, WritesBack, Finishes,
                  Ends, Fails
    <3> QED  BY <3>1, <3>2, ManagerSteps DEF manager
  <2> QED  BY <1>0, <2>1
<1>2. ASSUME NEW r \in Runs, pc'[r] # "unused" PROVE run' # 0
  <2>1. CASE pc' = pc
    BY <1>0, <1>1, <1>2, <2>1 DEF ClaimedInv
  <2>2. ASSUME NEW i \in DOMAIN calls, StartSpawns(i) PROVE run' # 0
    BY <1>0, <1>1, <2>2 DEF StartSpawns, ClaimedInv
  <2>3. ASSUME NEW q \in Runs, Works(q) PROVE run' # 0
    <3>1. pc[q] # "unused"
      BY <2>3 DEF Works, Advances, Connects, Homes, StartsRanges, EndsRanges,
                  WritesCalibration, ReadsForWriteBack, WritesBack, Finishes,
                  Ends, Fails, Onward, Moves
    <3> QED  BY <1>0, <1>1, <3>1 DEF ClaimedInv
  <2>4. ASSUME NEW i \in DOMAIN calls, Handles(i)
        PROVE  StartSpawns(i) \/ pc' = pc
    BY <2>4 DEF Handles, StartChecks, StartClaims, StepCompletes, StopRefused,
                StopAsks, StopFinishes, ReportsStatus, ReportsRecord,
                ReadsRecord, SavesRecord, manager
  <2> QED  BY <2>1, <2>2, <2>3, <2>4, ManagerSteps DEF manager
<1>3. ASSUME NEW k \in DOMAIN calls', calls'[k].at = "spawn" PROVE run' # 0
  <2>1. ASSUME NEW i \in DOMAIN calls, calls[i].at = "spawn" PROVE run' # 0
    BY <1>0, <1>1, <2>1 DEF ClaimedInv
  <2>2. ASSUME NEW i \in DOMAIN calls, Becomes(i, calls'[k]) PROVE run' # 0
    <3>1. CASE StartClaims(i)
      BY <1>0, <3>1 DEF StartClaims
    <3> QED  BY <1>0, <1>3, <2>1, <2>2, <3>1, BecomesOK
  <2>3. ~Sending(calls'[k])
    BY <1>3, SendingOK
  <2> QED  BY <1>3, <2>1, <2>2, <2>3, Origin
<1> QED  BY <1>2, <1>3 DEF ClaimedInv

(* The types hold at the beginning ...                                       *)
LEMMA TypesInit == Init => Types
<1> SUFFICES ASSUME Init PROVE Types
  OBVIOUS
<1>1. <<>> \in Seq(Request) /\ <<>> \in Seq(Camera)
  OBVIOUS
<1>2. StatusOK /\ RunsOK /\ CallsOK /\ ClaimedInv
  <2>1. 0 \in 0..MaxRuns
    BY ManagerAssumption
  <2>2. StatusOK /\ CallsOK
    BY <1>1, <2>1 DEF Init, ManagerInit, StatusOK, CallsOK, Statuses
  <2>5. ClaimedInv
    BY DEF Init, ManagerInit, ClaimedInv
  <2>3. [side |-> "teleop", port |-> NoPort] \in [side : Sides, port : Ports]
    BY DEF Sides, Ports
  <2>4. RunsOK
    BY <2>1, <2>3 DEF Init, ManagerInit, RunsOK, Places
  <2> QED  BY <2>2, <2>4, <2>5
<1>3. RecordsOK
  <2>1. record \in Record
    <3>1. CASE record = EmptyRecord
      BY <3>1, EmptyRecordOK
    <3>2. ASSUME NEW d \in plugged, NEW k \in 0..(MaxDevices - 1),
                 record = [EmptyRecord EXCEPT !.cams =
                             <<[device |-> d, index |-> k, options |-> 0]>>]
          PROVE  record \in Record
      <4>1. d \in Devices
        BY DEF Init
      <4>2. [device |-> d, index |-> k, options |-> 0] \in Camera
        BY <4>1 DEF Camera
      <4>3. <<[device |-> d, index |-> k, options |-> 0]>> \in Seq(Camera)
        BY <4>2
      <4> QED  BY <3>2, <4>3, EmptyRecordOK DEF Record
    <3> QED  BY <3>1, <3>2 DEF Init
  <2>2. copy = [r \in Runs |-> EmptyRecord]
    BY DEF Init, ManagerInit
  <2> QED  BY <2>1, <2>2, EmptyRecordOK DEF RecordsOK
<1>4. CardOK
  <2>1. NoCard \in CardState
    BY <1>1 DEF CardState, NoCard, NoIndex
  <2> QED  BY <2>1 DEF Init, CardOK
<1>5. PageOK
  BY DEF Init, PageOK, Nothing, Seen, Statuses
<1>6. FormOK
  BY DEF Init, FormOK, NoDialog, Sides, Ports
<1> QED  BY <1>2, <1>3, <1>4, <1>5, <1>6 DEF Types

(* ... and every step keeps them.                                            *)
LEMMA TypesStep ==
  ASSUME Types, [Next]_vars
  PROVE  Types'
BY StatusStep, RunsStep, RecordsStep, CallsStep, CardStep, PageStep, FormStep,
   ClaimedStep DEF Types

(* The state of the manager, of the page and of its cards is well-formed.    *)
THEOREM TypesCorrect == Spec => []Types
<1>1. Types /\ [Next]_vars => Types'
  BY TypesStep
<1> QED  BY <1>1, TypesInit, PTL DEF Spec

-----------------------------------------------------------------------------
(* Who changes what a run is told apart by.                                  *)
LEMMA ManagerChanges ==
  ASSUME [Next]_vars
  PROVE  \/ UNCHANGED <<active, device, thread, pc>>
         \/ \E i \in DOMAIN calls :
              StartClaims(i) \/ StartSpawns(i) \/ StopFinishes(i)
         \/ \E r \in Runs : Works(r) /\ UNCHANGED <<calls, thread>>
<1>1. ASSUME NEW i \in DOMAIN calls, Handles(i)
      PROVE  \/ UNCHANGED <<active, device, thread, pc>>
             \/ StartClaims(i) \/ StartSpawns(i) \/ StopFinishes(i)
  BY <1>1 DEF Handles, StartChecks, StepCompletes, StopRefused, StopAsks,
              ReportsStatus, ReportsRecord, ReadsRecord, SavesRecord, manager
<1>2. ASSUME NEW r \in Runs, Works(r) PROVE UNCHANGED <<calls, thread>>
  BY <1>2 DEF Works, Advances, Connects, Homes, StartsRanges, EndsRanges,
              WritesCalibration, ReadsForWriteBack, WritesBack, Finishes,
              Ends, Fails
<1> QED  BY <1>1, <1>2, ManagerSteps DEF manager

(* A worker that moves is one that is there, and it leaves by the same ways. *)
LEMMA WorkerChanges ==
  ASSUME RunsOK, NEW r \in Runs, Works(r)
  PROVE  /\ r \in Workers /\ Workers' \subseteq Workers
         /\ active' # active => pc'[r] \in {"finally", "gone"}
         /\ \/ device' = device \/ device' = 0
            \/ device' = r /\ active' = active
         /\ active' = active \/ device' = 0
         /\ pc'[r] # "finally" /\ pc'[r] # "gone" =>
              pc[r] # "finally" /\ active' = active
         /\ device' = r /\ device' # device => pc[r] # "finally"
<1> USE DEF Workers, RunsOK
<1>0. r # 0
  BY ManagerAssumption DEF Runs
<1>1. CASE Ends(r)
  BY <1>0, <1>1 DEF Ends, Moves, CleansUp
<1>2. CASE Finishes(r)
  BY <1>2 DEF Finishes, Moves, CleansUp
<1>3. CASE Connects(r)
  BY <1>3 DEF Connects, Onward, Moves
<1>4. CASE Fails(r)
  BY <1>4 DEF Fails
<1>5. CASE Homes(r) \/ StartsRanges(r) \/ EndsRanges(r)
           \/ WritesCalibration(r) \/ ReadsForWriteBack(r) \/ WritesBack(r)
  BY <1>5 DEF Homes, StartsRanges, EndsRanges, WritesCalibration,
              ReadsForWriteBack, WritesBack, Onward, Moves
<1> QED  BY <1>1, <1>2, <1>3, <1>4, <1>5 DEF Works, Advances

(* The first request of a list stays the first while it stays.               *)
LEMMA FirstStays ==
  ASSUME CallsOK, NEW K \in SUBSET DOMAIN calls, NEW N, Left(K, N),
         NEW k \in DOMAIN calls', NEW P, \A i \in K : calls[i] \in P => i = 1,
         calls'[k] \in P, calls'[k] \notin N
  PROVE  k = 1 /\ 1 \in K /\ calls'[k] = calls[1]
<1>1. DOMAIN calls' = 1..Len(calls') /\ DOMAIN calls = 1..Len(calls)
      /\ Len(calls') \in Nat /\ Len(calls) \in Nat
  BY DEF Left, CallsOK
<1>2. PICK f : From(f, calls', calls, K, N)
  BY DEF Left, Derived
<1>3. f[k] \in K /\ calls'[k] = calls[f[k]]
  BY <1>1, <1>2 DEF From
<1>4. f[k] = 1
  BY <1>3
<1>5. k = 1
  <2>1. SUFFICES ASSUME k > 1 PROVE FALSE
    BY <1>1
  <2>2. 1 \in 1..Len(calls') /\ f[1] < f[k]
    BY <1>1, <1>2, <2>1 DEF From
  <2>3. f[1] \in K \cup {Len(calls) + 1}
    BY <1>2, <2>2 DEF From
  <2> QED  BY <1>1, <1>4, <2>2, <2>3
<1> QED  BY <1>3, <1>4, <1>5

(* A start that has not made its worker is the oldest request: it comes      *)
(* from the same start, or from a click while nothing was under way.         *)
LEMMA UnclaimedFrom ==
  ASSUME Types, DeviceInv, OneClick, [Next]_vars, NEW k \in Unclaimed'
  PROVE  /\ k = 1
         /\ \/ /\ 1 \in Unclaimed
               /\ \/ calls'[1] = calls[1]
                  \/ StartChecks(1) /\ calls'[1].at = "claim"
                  \/ StartClaims(1) /\ calls'[1].at = "spawn"
            \/ /\ ClickStart /\ calls = <<>>
               /\ DOMAIN calls' = {1} /\ calls'[1].at = "sent"
<1>0. /\ CallsOK /\ k \in DOMAIN calls'
      /\ calls'[k].op = "start" /\ calls'[k].at # "answered"
      /\ \A i \in Unclaimed : i = 1
  BY DEF Types, Unclaimed, DeviceInv
<1>1. CASE UNCHANGED calls
  BY <1>0, <1>1 DEF Unclaimed
<1> DEFINE P == {c \in Request : c.op = "start" /\ c.at # "answered"}
<1>2. \A i \in DOMAIN calls : calls[i] \in P => i = 1 /\ 1 \in Unclaimed
  BY <1>0 DEF Unclaimed
<1>3. CallsOK'
  BY TypesStep DEF Types
<1>4. calls'[k] \in P
  BY <1>0, <1>3 DEF CallsOK
<1> HIDE DEF P
<1>5. ASSUME NEW i \in DOMAIN calls, NEW e, GoesOn(i, e)
      PROVE  /\ k = 1 /\ 1 \in Unclaimed
             /\ \/ calls'[1] = calls[1]
                \/ StartChecks(1) /\ calls'[1].at = "claim"
                \/ StartClaims(1) /\ calls'[1].at = "spawn"
  <2>1. CASE Moved(i, e) /\ e.at = "answered"
    <3>1. Left(DOMAIN calls \ {i}, {e})
      BY <2>1 DEF Moved
    <3>2. calls'[k] \notin {e}
      BY <1>0, <2>1
    <3>3. k = 1 /\ 1 \in DOMAIN calls /\ calls'[k] = calls[1]
      BY <1>0, <1>2, <1>4, <3>1, <3>2, FirstStays
    <3> QED  BY <1>2, <1>4, <3>3
  <2>2. CASE Put(i, e) /\ k # i
    <3>1. k \in DOMAIN calls /\ calls'[k] = calls[k]
      BY <1>0, <2>2 DEF Put, CallsOK
    <3> QED  BY <1>2, <1>4, <3>1
  <2>3. CASE Put(i, e) /\ k = i
    <3>1. calls'[k] = e /\ Becomes(i, e)
      BY <1>5, <2>3 DEF Put, GoesOn
    <3>2. ~PortDetected(i) /\ ~PortKept(i)
      BY <1>0, <3>1, BecomesOK
    <3>3. calls[i].op = "start"
      BY <1>0, <3>1, <3>2, BecomesOK
    <3>4. \/ StartChecks(i) /\ e.at = "claim"
          \/ StartClaims(i) /\ e.at = "spawn"
      <4>1. ~StopAsks(i) /\ ~ReadsRecord(i)
        BY <3>3 DEF StopAsks, ReadsRecord, Begins
      <4>2. e.at # "answered"
        BY <1>0, <3>1
      <4> QED  BY <1>0, <3>1, <3>2, <4>1, <4>2, BecomesOK
    <3>5. calls[i].at # "answered"
      BY <3>4 DEF StartChecks, StartClaims, Begins
    <3>6. i = 1 /\ 1 \in Unclaimed
      BY <1>0, <3>3, <3>5 DEF Unclaimed
    <3> QED  BY <2>3, <3>1, <3>4, <3>6
  <2> QED  BY <1>5, <2>1, <2>2, <2>3 DEF GoesOn
<1>6. ASSUME NEW K \in SUBSET DOMAIN calls, NEW N, LeavesAndSends(K, N)
      PROVE  /\ k = 1
             /\ \/ 1 \in Unclaimed /\ calls'[1] = calls[1]
                \/ /\ ClickStart /\ calls = <<>>
                   /\ DOMAIN calls' = {1} /\ calls'[1].at = "sent"
  <2>1. CASE calls'[k] \notin N
    <3>1. k = 1 /\ 1 \in K /\ calls'[k] = calls[1]
      BY <1>0, <1>2, <1>4, <1>6, <2>1, FirstStays DEF LeavesAndSends
    <3> QED  BY <1>2, <1>4, <3>1
  <2>2. CASE calls'[k] \in N
    <3>1. ClickStart /\ calls'[k].at = "sent"
      BY <1>0, <1>6, <2>2, SendingOK DEF LeavesAndSends
    <3>2. calls = <<>> /\ calls' = <<Call("start", visit, side, port)>>
      BY <3>1 DEF ClickStart, Settled, Sends
    <3>3. DOMAIN calls' = {1}
      BY <3>2
    <3> QED  BY <1>0, <3>1, <3>2, <3>3
  <2> QED  BY <2>1, <2>2
<1> QED  BY <1>0, <1>1, <1>5, <1>6, Shape

(* With an unclaimed start under way nothing behind it begins.               *)
LEMMA FirstHolds ==
  ASSUME CallsOK, DeviceInv, ~Overtaking, 1 \in Unclaimed,
         NEW i \in DOMAIN calls, i # 1, NEW op
  PROVE  ~Begins(i, op)
<1>1. 1 \in 1..(i - 1)
  BY DEF CallsOK
<1>2. calls[1].at # "join" /\ calls[1].at # "answered"
  BY DEF Unclaimed, DeviceInv
<1> QED  BY <1>1, <1>2 DEF Begins

(* The invariant of the device: one run at a time, and whoever holds the     *)
(* device is active.                                                         *)
LEMMA DeviceStep ==
  ASSUME Types, DeviceInv, ~Overtaking, ~SlowDevices, OneClick, [Next]_vars
  PROVE  DeviceInv'
<1>0. /\ CallsOK /\ RunsOK /\ ClaimedInv
      /\ \A r \in Runs : r # 0
  BY ManagerAssumption DEF Types, Runs
<1>1. ASSUME NEW i \in DOMAIN calls, StartClaims(i)
      PROVE  i \in Unclaimed /\ i = 1 /\ Workers = {}
  BY <1>1 DEF StartClaims, Unclaimed, DeviceInv
<1>2. ASSUME NEW i \in DOMAIN calls, StartSpawns(i)
      PROVE  i \in Unclaimed /\ i = 1 /\ Workers = {} /\ active
  BY <1>2 DEF StartSpawns, Unclaimed, DeviceInv
<1>3. ASSUME NEW i \in DOMAIN calls, StopFinishes(i)
      PROVE  Unclaimed = {} /\ Workers = {}
  <2>1. Unclaimed = {}
    BY <1>3 DEF StopFinishes, DeviceInv
  <2>2. \A r \in Workers : r = thread /\ r # 0 /\ pc[r] # "gone"
    BY <1>0 DEF DeviceInv, Workers
  <2> QED  BY <1>3, <2>1, <2>2 DEF StopFinishes
<1>4. ASSUME NEW r \in Runs, Works(r)
      PROVE  Unclaimed = {} /\ r \in Workers /\ thread = r
  BY <1>0, <1>4, WorkerChanges DEF DeviceInv
<1>5. ASSUME NEW k \in DOMAIN calls'
      PROVE  /\ calls'[k].at \in {"claim", "spawn"} => calls'[k].op = "start"
             /\ calls'[k].at = "join" => calls'[k].op = "stop"
  <2>1. CASE \E i \in DOMAIN calls : calls'[k] = calls[i]
    BY <2>1 DEF DeviceInv
  <2>2. ASSUME NEW i \in DOMAIN calls, Becomes(i, calls'[k])
        PROVE  /\ calls'[k].at \in {"claim", "spawn"} =>
                    calls'[k].op = "start"
               /\ calls'[k].at = "join" => calls'[k].op = "stop"
    <3>1. CASE PortDetected(i) \/ PortKept(i)
      <4>1. calls[i].op \in {"detect", "keep"}
        BY <3>1 DEF PortDetected, PortKept, Begins
      <4>2. calls'[k].at = calls[i].at
        BY <1>0, <2>2, <3>1, BecomesOK
      <4> QED  BY <4>1, <4>2 DEF DeviceInv
    <3>2. CASE ~PortDetected(i) /\ ~PortKept(i)
      <4>1. /\ calls'[k].op = calls[i].op
            /\ calls'[k].at = "claim" => StartChecks(i)
            /\ calls'[k].at = "spawn" => StartClaims(i)
            /\ calls'[k].at = "join" => StopAsks(i)
        BY <1>0, <2>2, <3>2, BecomesOK
      <4> QED  BY <4>1 DEF StartChecks, StartClaims, StopAsks, Begins
    <3> QED  BY <3>1, <3>2
  <2>3. CASE Sending(calls'[k])
    BY <2>3, SendingOK
  <2> QED  BY <2>1, <2>2, <2>3, Origin
<1>6. ASSUME NEW r \in Workers'
      PROVE  thread' = r /\ (pc'[r] # "finally" => active')
  <2>1. CASE UNCHANGED <<active, device, thread, pc>>
    BY <1>6, <2>1 DEF Workers, DeviceInv
  <2>2. ASSUME NEW i \in DOMAIN calls, StartClaims(i) \/ StopFinishes(i)
        PROVE  FALSE
    <3>1. Workers = {} /\ pc' = pc
      BY <1>1, <1>3, <2>2 DEF StartClaims, StopFinishes
    <3> QED  BY <1>6, <3>1 DEF Workers
  <2>3. ASSUME NEW i \in DOMAIN calls, StartSpawns(i)
        PROVE  thread' = r /\ active'
    BY <1>0, <1>2, <1>6, <2>3 DEF StartSpawns, Workers, RunsOK
  <2>4. ASSUME NEW q \in Runs, Works(q), UNCHANGED thread
        PROVE  thread' = r /\ (pc'[r] # "finally" => active')
    <3>1. r \in Workers /\ r = q /\ thread = r
      BY <1>0, <1>4, <1>6, <2>4, WorkerChanges DEF DeviceInv
    <3>2. pc'[r] # "gone"
      BY <1>6 DEF Workers
    <3>3. pc'[r] # "finally" => pc[r] # "finally" /\ active' = active
      BY <1>0, <2>4, <3>1, <3>2, WorkerChanges
    <3> QED  BY <2>4, <3>1, <3>3 DEF DeviceInv
  <2> QED  BY <2>1, <2>2, <2>3, <2>4, ManagerChanges
<1>7. DeviceReleased'
  <2>1. CASE UNCHANGED <<active, device, thread, pc>>
    BY <2>1 DEF DeviceInv, DeviceReleased
  <2>2. ASSUME NEW i \in DOMAIN calls,
               StartClaims(i) \/ StartSpawns(i) \/ StopFinishes(i)
        PROVE  device' # 0 => active'
    BY <1>2, <2>2
    DEF StartClaims, StartSpawns, StopFinishes, DeviceInv, DeviceReleased
  <2>3. ASSUME NEW r \in Runs, Works(r) PROVE device' # 0 => active'
    <3>1. \/ device' = 0 \/ (device' = device /\ active' = active)
          \/ (device' = r /\ active' = active /\ pc[r] # "finally")
      BY <1>0, <2>3, WorkerChanges
    <3> QED  BY <1>4, <2>3, <3>1 DEF DeviceInv, DeviceReleased
  <2> QED  BY <2>1, <2>2, <2>3, ManagerChanges DEF DeviceReleased
<1>8. ASSUME NEW k \in Unclaimed'
      PROVE  /\ k = 1 /\ Workers' = {}
             /\ calls'[k].at = "spawn" => active'
             /\ \A j \in DOMAIN calls' : calls'[j].at # "join"
  <2>1. CASE ClickStart /\ calls = <<>> /\ DOMAIN calls' = {1}
             /\ calls'[1].at = "sent" /\ k = 1
    <3>1. Workers = {} /\ pc' = pc
      BY <2>1 DEF ClickStart, Settled, manager
    <3> QED  BY <2>1, <3>1 DEF Workers
  <2>2. CASE /\ 1 \in Unclaimed /\ k = 1
             /\ \/ calls'[1] = calls[1]
                \/ StartChecks(1) /\ calls'[1].at = "claim"
                \/ StartClaims(1) /\ calls'[1].at = "spawn"
    <3>0. Workers = {} /\ 1 \in DOMAIN calls
          /\ (calls[1].at = "spawn" => active)
      BY <2>2 DEF DeviceInv, Unclaimed
    <3>1. ASSUME NEW j \in DOMAIN calls', calls'[j].at = "join" PROVE FALSE
      <4>1. ~Sending(calls'[j])
        BY <3>1, SendingOK
      <4>2. \A i \in DOMAIN calls : calls'[j] # calls[i]
        BY <2>2, <3>1 DEF DeviceInv
      <4>3. PICK i \in DOMAIN calls : Becomes(i, calls'[j])
        BY <4>1, <4>2, Origin
      <4>4. ~PortDetected(i) /\ ~PortKept(i)
        <5>1. calls[i].at # "join"
          BY <2>2 DEF DeviceInv
        <5> QED  BY <1>0, <3>1, <4>3, <5>1, BecomesOK
      <4>5. StopAsks(i)
        BY <1>0, <3>1, <4>3, <4>4, BecomesOK
      <4>6. Begins(i, "stop") /\ calls[i].op = "stop" /\ i # 1
        BY <2>2, <4>5 DEF StopAsks, Begins, Unclaimed
      <4> QED  BY <1>0, <2>2, <4>6, FirstHolds
    <3>2. ASSUME NEW i \in DOMAIN calls, StartSpawns(i) PROVE FALSE
      <4>1. i = 1
        BY SMTT(30), <1>2, <3>2
      <4> DEFINE e == [calls[1] EXCEPT !.ok = TRUE, !.at = "answered"]
                 P == {c \in Request : c.op = "start" /\ c.at # "answered"}
      <4>2. Moved(1, e)
        BY Zenon, <1>0, <3>2, <4>1, ServerEffects DEF Types
      <4>3. calls[1] \in Request
        BY <1>0, <3>0, Typed
      <4>4. e.at = "answered"
        BY <4>3 DEF Request
      <4>5. Left(DOMAIN calls \ {1}, {e})
        BY <4>2 DEF Moved
      <4>6. calls'[k] \in P /\ k \in DOMAIN calls'
        BY <4>5 DEF Unclaimed, Left
      <4>7. calls'[k] \notin {e}
        BY <4>4, <4>6
      <4>8. \A j \in DOMAIN calls \ {1} : calls[j] \in P => j = 1
        BY DEF DeviceInv, Unclaimed
      <4> HIDE DEF e, P
      <4>9. 1 \in DOMAIN calls \ {1}
        BY <1>0, <4>5, <4>6, <4>7, <4>8, FirstStays
      <4> QED  BY <4>9
    <3>3. ASSUME NEW i \in DOMAIN calls, StopFinishes(i) PROVE FALSE
      BY <1>3, <2>2, <3>3
    <3>4. ASSUME NEW r \in Runs, Works(r) PROVE FALSE
      BY <1>4, <3>0, <3>4
    <3>5. CASE UNCHANGED <<active, device, thread, pc>>
      <4>1. calls'[k].at = "spawn" => active'
        <5>1. CASE StartClaims(1)
          BY <5>1 DEF StartClaims
        <5> QED  BY <2>2, <3>0, <3>5, <5>1
      <4> QED  BY <2>2, <3>0, <3>1, <3>5, <4>1 DEF Workers
    <3>6. ASSUME NEW i \in DOMAIN calls, StartClaims(i)
          PROVE  active' /\ Workers' = {}
      BY <3>0, <3>6 DEF StartClaims, Workers
    <3> QED
      BY <2>2, <3>1, <3>2, <3>3, <3>4, <3>5, <3>6, ManagerChanges
  <2> QED  BY <2>1, <2>2, UnclaimedFrom
<1> QED  BY <1>5, <1>6, <1>7, <1>8 DEF DeviceInv

(* The device is never held by a manager that says it is idle, when requests *)
(* are handled and answered in turn, a stop outlasts its worker and the user *)
(* clicks on start once for a calibration.                                   *)
THEOREM DeviceIsReleased ==
  ASSUME ~Overtaking, ~SlowDevices, OneClick
  PROVE  Spec => []DeviceReleased
<1>1. Init => DeviceInv
  BY DEF Init, ManagerInit, DeviceInv, Unclaimed, Workers, DeviceReleased
<1>2. Types /\ DeviceInv /\ [Next]_vars => DeviceInv'
  BY DeviceStep
<1>3. DeviceInv => DeviceReleased
  BY DEF DeviceInv
<1> QED  BY <1>1, <1>2, <1>3, TypesCorrect, PTL DEF Spec

-----------------------------------------------------------------------------
(* The ports, whatever overlaps: only a user who waits is assumed.           *)

(* Every request that carries a port carries that of its side, and every     *)
(* copy of the record has each arm at its own port.                          *)
LEMMA OwnCalls ==
  ASSUME Types, PortInv, [Next]_vars, NEW k \in DOMAIN calls'
  PROVE  /\ Own(calls'[k].copy)
         /\ calls'[k].op \in {"start", "save", "keep", "hold"} =>
              calls'[k].port = calls'[k].side
<1>0. CallsOK /\ PageOK /\ FormOK /\ RecordsOK /\ OwnInv
  BY DEF Types, PortInv
<1>1. \A i \in DOMAIN calls :
        /\ Own(calls[i].copy)
        /\ calls[i].op \in {"start", "save", "keep", "hold"} =>
             calls[i].port = calls[i].side
  BY <1>0 DEF OwnInv
<1>2. ASSUME NEW i \in DOMAIN calls, Becomes(i, calls'[k])
      PROVE  /\ Own(calls'[k].copy)
             /\ calls'[k].op \in {"start", "save", "keep", "hold"} =>
                  calls'[k].port = calls'[k].side
  <2>1. Own(calls'[k].copy)
    <3>1. CASE ReadsRecord(i)
      <4>1. calls[i].op = "cams" \/ calls[i].port = calls[i].side
        BY <1>1, <3>1 DEF ReadsRecord, Begins
      <4>2. Own([record EXCEPT !.cams = calls[i].cams])
        BY <1>0 DEF OwnInv, Own, RecordsOK, Record
      <4>3. calls[i].port = calls[i].side =>
              Own([record EXCEPT !.port[calls[i].side] = calls[i].port])
        BY <1>0 DEF OwnInv, Own, RecordsOK, Record
      <4> QED  BY <1>0, <1>1, <1>2, <4>1, <4>2, <4>3, BecomesWith DEF OwnInv
    <3> QED  BY <1>0, <1>1, <1>2, <3>1, BecomesWith DEF OwnInv
  <2>2. CASE PortDetected(i)
    <3>1. /\ calls'[k].port = calls[i].side
          /\ calls'[k].side = calls[i].side
      BY <1>0, <1>2, <2>2, BecomesOK
    <3> QED  BY <2>1, <3>1
  <2>3. CASE PortKept(i) /\ ~PortDetected(i)
    <3>1. calls[i].port = calls[i].side
      BY <1>1, <2>3 DEF PortKept
    <3> QED  BY <1>0, <1>2, <2>1, <2>3, <3>1, BecomesOK
  <2>4. CASE ~PortKept(i) /\ ~PortDetected(i)
    <3>1. /\ calls'[k].port = calls[i].port
          /\ calls'[k].side = calls[i].side /\ calls'[k].op = calls[i].op
      BY <1>0, <1>2, <2>4, BecomesOK
    <3> QED  BY <1>1, <2>1, <3>1
  <2> QED  BY <2>2, <2>3, <2>4
<1>3. ASSUME Sending(calls'[k])
      PROVE  /\ Own(calls'[k].copy)
             /\ calls'[k].op \in {"start", "save", "keep", "hold"} =>
                  calls'[k].port = calls'[k].side
  <2>1. Own(calls'[k].copy)
    BY <1>3, SendingOK DEF Own, EmptyRecord
  <2>2. CASE calls'[k].op = "start"
    <3>1. ClickStart /\ calls'[k] = Call("start", visit, side, port)
      BY <1>3, <2>2, SendingOK
    <3>2. port = side
      BY <1>0, <3>1 DEF ClickStart, StartOffered, OwnInv
    <3> QED  BY <2>1, <3>1, <3>2 DEF Call
  <2>3. ASSUME calls'[k].op \in {"save", "keep", "hold"}
        PROVE  calls'[k].port = calls'[k].side
    <3>1. \/ calls'[k] = Call("save", visit, side, side)
          \/ \E i \in DOMAIN calls :
               /\ HandsPortOver(i)
               /\ calls'[k] = Call("save", visit, calls[i].side,
                                   calls[i].port)
      BY <1>3, <2>3 DEF Sending, Call, Enumeration, Saving
    <3>2. \A i \in DOMAIN calls :
            HandsPortOver(i) => calls[i].port = calls[i].side
      BY <1>1 DEF HandsPortOver
    <3> QED  BY <3>1, <3>2 DEF Call
  <2> QED  BY <2>1, <2>2, <2>3
<1> QED  BY <1>1, <1>2, <1>3, Origin

(* So have the record on disk and the copies of the workers, and every run   *)
(* that was claimed.                                                         *)
LEMMA OwnRecords ==
  ASSUME Types, PortInv, [Next]_vars
  PROVE  /\ Own(record') /\ \A r \in Runs : Own(copy'[r])
         /\ \A r \in 1..run' : request'[r].port = request'[r].side
<1>0. CallsOK /\ RunsOK /\ RecordsOK /\ ClaimedInv /\ OwnInv
      /\ Own(EmptyRecord) /\ run \in Nat /\ MaxRuns \in Nat
  BY ManagerAssumption DEF Types, PortInv, RunsOK, Own, EmptyRecord
<1>1. CASE UNCHANGED <<manager, record>>
  BY <1>0, <1>1 DEF manager, OwnInv
<1>2. ASSUME NEW i \in DOMAIN calls, Handles(i)
      PROVE  /\ Own(record') /\ \A r \in Runs : Own(copy'[r])
             /\ \A r \in 1..run' : request'[r].port = request'[r].side
  <2>1. CASE SavesRecord(i)
    BY <1>0, <2>1 DEF SavesRecord, manager, OwnInv
  <2>2. CASE StartClaims(i)
    <3>1. calls[i].port = calls[i].side /\ run + 1 \in Runs
      BY <1>0, <2>2 DEF StartClaims, OwnInv, Runs
    <3> QED  BY <1>0, <2>2, <3>1 DEF StartClaims, OwnInv, RunsOK
  <2>3. CASE UNCHANGED <<record, copy, run, request>>
    BY <1>0, <2>3 DEF OwnInv
  <2> QED
    BY <1>2, <2>1, <2>2, <2>3
    DEF Handles, StartChecks, StartSpawns, StepCompletes, StopRefused,
        StopAsks, StopFinishes, ReportsStatus, ReportsRecord, ReadsRecord,
        manager
<1>3. ASSUME NEW r \in Runs, Works(r)
      PROVE  /\ Own(record') /\ \A q \in Runs : Own(copy'[q])
             /\ \A q \in 1..run' : request'[q].port = request'[q].side
  <2>1. UNCHANGED <<run, request>>
    BY <1>3 DEF Works, Advances, Connects, Homes, StartsRanges, EndsRanges,
                WritesCalibration, ReadsForWriteBack, WritesBack, Finishes,
                Ends, Fails
  <2>2. CASE ReadsForWriteBack(r)
    <3> DEFINE of == request[run]
    <3>1. run \in 1..run
      BY <1>0, <2>2 DEF ReadsForWriteBack, Moves, ClaimedInv
    <3>2. of.port = of.side /\ of.side \in Sides
      BY <1>0, <3>1 DEF OwnInv, RunsOK, Runs
    <3>3. Own([record EXCEPT !.port[of.side] = of.port,
                             !.config = @ \cup {of.side}])
      BY <1>0, <3>2 DEF OwnInv, Own, RecordsOK, Record
    <3> HIDE DEF of
    <3>4. copy' = [copy EXCEPT ![r] =
                     [record EXCEPT !.port[of.side] = of.port,
                                    !.config = @ \cup {of.side}]]
          /\ record' = record
      BY <2>2 DEF ReadsForWriteBack, of
    <3> QED  BY <1>0, <2>1, <3>3, <3>4 DEF OwnInv, RecordsOK
  <2>3. CASE WritesBack(r)
    BY <1>0, <2>1, <2>3 DEF WritesBack, OwnInv, RecordsOK
  <2>4. CASE UNCHANGED <<record, copy>>
    BY SMTT(30), <1>0, <2>1, <2>4 DEF OwnInv
  <2> QED
    BY <1>3, <2>2, <2>3, <2>4
    DEF Works, Advances, Connects, Homes, StartsRanges, EndsRanges,
        WritesCalibration, Finishes, Ends, Fails
<1> QED  BY <1>1, <1>2, <1>3, ManagerSteps

(* What an action does to the form, action by action.                        *)
LEMMA FormChanges ==
  ASSUME [Next]_vars
  PROVE  \/ UNCHANGED form \/ LeavesPage(activeRef)
         \/ \E s \in Sides : PickSide(s)
         \/ TypePort \/ OpenDialog \/ CloseDialog \/ RetryDetection
         \/ \E i \in DOMAIN calls :
              \/ DetectionFails(i) \/ PortKept(i) \/ HandsPortOver(i)
              \/ RecordAnswered(i) \/ SaveAnswered(i)
BY DEF Next, vars, User, Mount, Leave, ClickStart, ClickCancel, ClickSave,
       Poll, Card, Handled, Server, Answer, AnswerIsLate, StartAnswered,
       StatusAnswered, CamerasAsked, CamerasCome, Worker, Detects,
       PortDetected

(* So have the copy of the page and the port it shows.                       *)
LEMMA OwnForm ==
  ASSUME Types, PortInv, Patient, [Next]_vars
  PROVE  /\ \A r \in robot' : Own(r)
         /\ port' \in {NoPort, side'}
<1>0. CallsOK /\ FormOK /\ OwnInv
  BY DEF Types, PortInv
<1>1. CASE UNCHANGED form
  BY <1>0, <1>1 DEF form, OwnInv
<1>2. CASE LeavesPage(activeRef)
  BY <1>2 DEF LeavesPage, FreshForm
<1>3. ASSUME NEW s \in Sides, PickSide(s)
      PROVE  UNCHANGED robot /\ port' \in {NoPort, side'}
  <2>1. robot # {}
    BY <1>3 DEF PickSide, MayEdit, Uncovered, Settled, PortInv, LoadInv
  <2>2. PICK r : r = CHOOSE q \in robot : TRUE
    OBVIOUS
  <2>3. r \in robot /\ port' = r.port[s] /\ side' = s /\ robot' = robot
    BY <1>3, <2>1, <2>2 DEF PickSide
  <2> QED  BY <1>0, <2>3 DEF OwnInv, Own
<1>4. CASE TypePort
  BY <1>0, <1>4 DEF TypePort, OwnInv
<1>5. CASE OpenDialog \/ CloseDialog \/ RetryDetection
  BY <1>0, <1>5 DEF OpenDialog, CloseDialog, RetryDetection, OwnInv
<1>6. ASSUME NEW i \in DOMAIN calls,
             DetectionFails(i) \/ PortKept(i) \/ HandsPortOver(i)
      PROVE  UNCHANGED robot /\ port' \in {NoPort, side'}
  <2>1. CASE DetectionFails(i) \/ PortKept(i)
    BY <1>0, <2>1 DEF DetectionFails, PortKept, form, OwnInv
  <2>2. CASE HandsPortOver(i)
    <3>1. calls[i].port = calls[i].side
      BY <1>0, <2>2 DEF HandsPortOver, OwnInv
    <3>2. ~dialog.cancelled => calls[i].side = side
      BY <2>2 DEF HandsPortOver, PortInv, DialogInv
    <3> QED  BY <1>0, <2>2, <3>1, <3>2 DEF HandsPortOver, form, OwnInv
  <2> QED  BY <1>6, <2>1, <2>2
<1>7. ASSUME NEW i \in DOMAIN calls, RecordAnswered(i)
      PROVE  robot' = {calls[i].copy} /\ port' \in {NoPort, side'}
  <2>1. Own(calls[i].copy) /\ NextSide(calls[i].copy) \in Sides
    BY <1>0 DEF OwnInv, NextSide, Sides
  <2> QED  BY <1>7, <2>1 DEF RecordAnswered, RecordArrives, Own
<1>8. ASSUME NEW i \in DOMAIN calls, SaveAnswered(i)
      PROVE  robot' = {calls[i].copy} /\ port' \in {NoPort, side'}
  BY <1>0, <1>8 DEF SaveAnswered, OwnInv
<1>9. \A i \in DOMAIN calls : Own(calls[i].copy)
  BY <1>0 DEF OwnInv
<1>10. \A r \in robot : Own(r)
  BY <1>0 DEF OwnInv
<1>11. CASE TypePort \/ OpenDialog \/ CloseDialog \/ RetryDetection
  <2>1. robot' = robot
    BY <1>11 DEF TypePort, OpenDialog, CloseDialog, RetryDetection
  <2> QED  BY <1>4, <1>5, <1>10, <1>11, <2>1
<1> QED
  BY <1>1, <1>2, <1>3, <1>6, <1>7, <1>8, <1>9, <1>10, <1>11, FormChanges

(* While the dialog is open nothing changes the side below it.               *)
LEMMA DialogStep ==
  ASSUME Types, PortInv, Patient, [Next]_vars
  PROVE  DialogInv'
<1>0. /\ CallsOK /\ FormOK /\ PageOK /\ DialogInv /\ ClosedInv
      /\ polling \in BOOLEAN /\ visit \in Nat
  BY DEF Types, PortInv, PageOK
<1>1. SUFFICES ASSUME ~dialog'.cancelled PROVE DialogInv'
  BY DEF DialogInv
<1>2. CASE OpenDialog
  <2>1. /\ calls' = <<Call("detect", visit, side, NoPort)>>
        /\ dialog'.side = side /\ side' = side /\ visit' = visit
        /\ ~polling' /\ visit # 0
    BY <1>2 DEF OpenDialog, MayEdit, Uncovered, Settled, Sends, page
  <2>2. \A i \in DOMAIN calls' :
          calls'[i].op = "detect" /\ calls'[i].side = side
    BY <2>1 DEF Call
  <2> QED  BY <2>1, <2>2 DEF DialogInv
<1>3. CASE ~OpenDialog
  <2>1. ~dialog.cancelled /\ dialog'.side = dialog.side
        /\ (side' = side /\ ~LeavesPage(activeRef))
    <3>1. CASE UNCHANGED form
      BY <1>1, <3>1 DEF form, LeavesPage, FreshForm, NoDialog
    <3>2. CASE LeavesPage(activeRef) \/ CloseDialog
      BY <1>1, <3>2 DEF LeavesPage, FreshForm, CloseDialog, NoDialog
    <3>3. ASSUME ~dialog.cancelled
          PROVE  /\ \A s \in Sides : ~PickSide(s)
                 /\ ~TypePort
                 /\ \A i \in DOMAIN calls : ~RecordAnswered(i)
      BY <1>0, <3>3
      DEF PickSide, TypePort, MayEdit, Uncovered, RecordAnswered,
          RecordArrives, Arrives, DialogInv, ClosedInv
    <3>4. CASE (\E s \in Sides : PickSide(s)) \/ TypePort
      BY <1>1, <3>3, <3>4 DEF PickSide, TypePort
    <3>5. CASE RetryDetection
      BY <1>0, <3>5
      DEF RetryDetection, RetryOffered, ClosedInv, FormOK, LeavesPage,
          FreshForm, NoDialog
    <3>6. ASSUME NEW i \in DOMAIN calls,
                 DetectionFails(i) \/ PortKept(i) \/ HandsPortOver(i)
          PROVE  /\ ~dialog.cancelled /\ dialog'.side = dialog.side
                 /\ side' = side /\ ~LeavesPage(activeRef)
      BY <1>0, <1>1, <3>6
      DEF DetectionFails, PortKept, HandsPortOver, form, FormOK, NoDialog,
          LeavesPage, FreshForm
    <3>7. ASSUME NEW i \in DOMAIN calls, RecordAnswered(i) PROVE FALSE
      BY <1>1, <3>3, <3>7 DEF RecordAnswered, RecordArrives
    <3>8. ASSUME NEW i \in DOMAIN calls, SaveAnswered(i)
          PROVE  /\ ~dialog.cancelled /\ dialog'.side = dialog.side
                 /\ side' = side /\ ~LeavesPage(activeRef)
      BY <1>1, <3>8 DEF SaveAnswered, LeavesPage, FreshForm, NoDialog
    <3> QED
      BY <1>3, <3>1, <3>2, <3>4, <3>5, <3>6, <3>7, <3>8, FormChanges
  <2>2. /\ side = dialog.side /\ ~polling /\ visit # 0
        /\ dialog.step # "closed"
        /\ \A i \in DOMAIN calls :
             /\ calls[i].op \notin {"start", "status", "load", "robot"}
             /\ calls[i].op \in {"detect", "keep", "hold"} =>
                  calls[i].side = side
    BY <1>0, <2>1 DEF DialogInv, ClosedInv
  <2>3. visit' = visit /\ ~polling'
    <3>1. \A i \in DOMAIN calls : ~StartAnswered(i) /\ ~StatusAnswered(i)
      BY <2>2 DEF StartAnswered, StatusAnswered, Arrives
    <3>2. ~Mount /\ ~ClickStart
      BY <2>2 DEF Mount, ClickStart, StartOffered, Uncovered
    <3> QED  BY <2>1, <2>2, <3>1, <3>2, PageChanges DEF page
  <2>4. ASSUME NEW k \in DOMAIN calls'
        PROVE  /\ calls'[k].op \notin {"start", "status", "load", "robot"}
               /\ calls'[k].op \in {"detect", "keep", "hold"} =>
                    calls'[k].side = side
    <3>1. ASSUME NEW i \in DOMAIN calls, Becomes(i, calls'[k])
          PROVE  /\ calls'[k].op \notin {"start", "status", "load", "robot"}
                 /\ calls'[k].op \in {"detect", "keep", "hold"} =>
                      calls'[k].side = side
      <4>1. calls'[k].side = calls[i].side
        BY <1>0, <3>1, BecomesOK
      <4>2. \/ calls'[k].op = calls[i].op
            \/ PortDetected(i) /\ calls'[k].op = "keep"
            \/ PortKept(i) /\ calls'[k].op = "hold"
        BY <1>0, <3>1, BecomesOK
      <4>3. PortDetected(i) => calls[i].op = "detect"
        BY DEF PortDetected, Begins
      <4>4. PortKept(i) => calls[i].op = "keep"
        BY DEF PortKept
      <4> QED  BY <2>2, <4>1, <4>2, <4>3, <4>4
    <3>2. ASSUME Sending(calls'[k])
          PROVE  /\ calls'[k].op \notin {"start", "status", "load", "robot"}
                 /\ calls'[k].op \in {"detect", "keep", "hold"} =>
                      calls'[k].side = side
      <4>1. ~Mount /\ ~Poll /\ ~ClickStart
            /\ \A i \in DOMAIN calls : ~StatusAnswered(i)
        BY <2>2 DEF Mount, Poll, ClickStart, StartOffered, Uncovered,
                    StatusAnswered, Arrives
      <4> QED
        BY <1>3, <2>2, <3>2, <4>1 DEF Sending, Call, Enumeration, Saving
    <3> QED  BY <2>2, <3>1, <3>2, Origin
  <2> QED  BY <2>1, <2>2, <2>3, <2>4 DEF DialogInv
<1> QED  BY <1>2, <1>3

(* A page without a copy of the record waits for one.                        *)
LEMMA LoadStep ==
  ASSUME Types, PortInv, [Next]_vars
  PROVE  LoadInv'
<1>0. CallsOK /\ LoadInv /\ visits \in Nat
  BY DEF Types, PortInv, PageOK
<1>1. SUFFICES ASSUME visit' # 0, robot' = {}
               PROVE  \E k \in DOMAIN calls' :
                        calls'[k].op = "load" /\ calls'[k].visit = visit'
  BY DEF LoadInv
<1>2. CASE Mount
  <2> DEFINE k == Len(calls) + 1
  <2>1. k \in DOMAIN calls'
        /\ calls'[k] = Call("load", visits + 1, "teleop", NoPort)
    BY <1>0, <1>2 DEF Mount, CallsOK
  <2>2. visit' = visits + 1
    BY <1>2 DEF Mount
  <2> QED  BY <2>1, <2>2 DEF Call
<1>3. CASE ~Mount
  <2>1. visit' = visit /\ (robot' = robot \/ robot' # {})
        /\ ~LeavesPage(activeRef)
    BY Zenon, <1>1, <1>3
    DEF Next, vars, User, Leave, LeavesPage, ClickStart, ClickCancel,
        ClickSave, PickSide, TypePort, OpenDialog, CloseDialog,
        RetryDetection, Poll, Card, Handled, Server, Answer, AnswerIsLate,
        StartAnswered, StatusAnswered, RecordAnswered, RecordArrives,
        SaveAnswered, Detects, PortDetected, DetectionFails, PortKept,
        HandsPortOver, CamerasAsked, CamerasCome, Worker, page, form
  <2>2. PICK i \in DOMAIN calls :
          calls[i].op = "load" /\ calls[i].visit = visit
    BY <1>0, <1>1, <2>1 DEF LoadInv
  <2>3. ~Drops(i)
    <3>1. ~RecordAnswered(i) /\ ~AnswerIsLate(i)
      BY <1>1, <2>1, <2>2
      DEF RecordAnswered, RecordArrives, AnswerIsLate, ForThisVisit
    <3>2. ~SavesRecord(i)
      BY <2>2 DEF SavesRecord, PortInv, WriterInv
    <3> QED
      BY <2>2, <3>1, <3>2
      DEF Drops, StepCompletes, StopRefused, StopFinishes, SavesRecord,
          StartAnswered, StatusAnswered, SaveAnswered, DetectionFails,
          CamerasListed, PortKept, HandsPortOver, Arrives, Begins
  <2>4. ~Cancels(i)
    BY <2>2 DEF Cancels, HandsPortOver
  <2>5. PICK k \in DOMAIN calls' :
          calls'[k] = calls[i] \/ Becomes(i, calls'[k])
    BY <2>3, <2>4, Stays
  <2>6. ~PortDetected(i) /\ ~PortKept(i)
    BY <2>2 DEF PortDetected, PortKept, Begins
  <2>7. calls'[k].op = "load" /\ calls'[k].visit = visit
    BY <1>0, <2>2, <2>5, <2>6, BecomesOK
  <2> QED  BY SMTT(30), <2>1, <2>7
<1> QED  BY <1>2, <1>3

(* Only a save is in the middle of a file, only a stop waits.                *)
LEMMA WriterStep ==
  ASSUME Types, PortInv, [Next]_vars
  PROVE  WriterInv'
<1>0. CallsOK /\ WriterInv
  BY DEF Types, PortInv
<1> DEFINE ok(c) == /\ c.at = "write" => c.op \in {"save", "cams"}
                    /\ c.at = "join" => c.op = "stop"
<1>1. \A i \in DOMAIN calls : ok(calls[i])
  BY <1>0 DEF WriterInv
<1>2. ASSUME NEW i \in DOMAIN calls, NEW e, Becomes(i, e) PROVE ok(e)
  <2>1. CASE PortDetected(i) \/ PortKept(i)
    <3>1. calls[i].op \in {"detect", "keep"}
      BY <2>1 DEF PortDetected, PortKept, Begins
    <3>2. e.at = calls[i].at
      BY <1>0, <1>2, <2>1, BecomesOK
    <3> QED  BY <1>1, <3>1, <3>2
  <2>2. CASE ~PortDetected(i) /\ ~PortKept(i)
    <3>1. /\ e.at = "write" => ReadsRecord(i)
          /\ e.at = "join" => StopAsks(i)
          /\ e.op = calls[i].op
      BY <1>0, <1>2, <2>2, BecomesOK
    <3> QED  BY <3>1 DEF ReadsRecord, StopAsks, Begins
  <2> QED  BY <2>1, <2>2
<1>3. ASSUME NEW e, Sending(e) PROVE ok(e)
  BY <1>3, SendingOK
<1> HIDE DEF ok
<1>4. \A k \in DOMAIN calls' : ok(calls'[k])
  BY <1>1, <1>2, <1>3, Origin
<1> QED  BY <1>4 DEF WriterInv, ok

(* The dialog is cancelled when it is closed, and only then.                 *)
LEMMA ClosedStep ==
  ASSUME Types, PortInv, [Next]_vars
  PROVE  ClosedInv'
<1>0. FormOK /\ ClosedInv
  BY DEF Types, PortInv
<1> USE DEF ClosedInv, FormOK
<1>1. CASE UNCHANGED dialog
  BY <1>0, <1>1
<1>2. CASE dialog' = NoDialog
  BY <1>2 DEF NoDialog
<1>3. CASE OpenDialog
  BY <1>3 DEF OpenDialog
<1>6. CASE RetryDetection
  <2>1. dialog'.step = "detecting" /\ dialog'.cancelled = FALSE
    BY <1>0, <1>6 DEF RetryDetection
  <2> QED  BY <2>1
<1>4. ASSUME NEW i \in DOMAIN calls, DetectionFails(i) \/ PortKept(i)
      PROVE  ClosedInv'
  BY <1>0, <1>4 DEF DetectionFails, PortKept, form
<1>5. ASSUME NEW i \in DOMAIN calls, HandsPortOver(i)
      PROVE  UNCHANGED dialog \/ dialog' = NoDialog
  BY <1>5 DEF HandsPortOver, form
<1> QED
  BY <1>1, <1>2, <1>3, <1>4, <1>5, <1>6, FormChanges
  DEF LeavesPage, FreshForm, PickSide, TypePort, CloseDialog, RecordAnswered,
      RecordArrives, SaveAnswered, form

(* The invariant of the ports: a user who edits the form only when nothing   *)
(* is under way finds the port of the side shown, and sends it along.        *)
THEOREM PortsHold ==
  ASSUME Patient
  PROVE  Spec => []PortInv
<1>1. Init => PortInv
  <2> SUFFICES ASSUME Init PROVE PortInv
    OBVIOUS
  <2>2. Own(EmptyRecord) /\ \A cams : Own([EmptyRecord EXCEPT !.cams = cams])
    BY DEF Own, EmptyRecord
  <2>3. Own(record)
    BY <2>2 DEF Init
  <2>4. \A r \in 1..run : request[r].port = request[r].side
    BY DEF Init, ManagerInit
  <2>5. OwnInv
    BY <2>2, <2>3, <2>4 DEF Init, ManagerInit, OwnInv
  <2> QED
    BY <2>5 DEF Init, ManagerInit, PortInv, DialogInv, LoadInv, ClosedInv,
                WriterInv, NoDialog
<1>2. Types /\ PortInv /\ [Next]_vars => PortInv'
  <2> SUFFICES ASSUME Types, PortInv, [Next]_vars PROVE PortInv'
    OBVIOUS
  <2>2. OwnInv'
    BY OwnCalls, OwnRecords, OwnForm DEF OwnInv
  <2> QED
    BY <2>2, DialogStep, LoadStep, WriterStep, ClosedStep DEF PortInv
<1> QED  BY <1>1, <1>2, TypesCorrect, PTL DEF Spec

(* A user who waits for what was begun calibrates every arm through its own  *)
(* port, in whatever order requests and answers arrive.                      *)
THEOREM OwnArmIsCalibrated ==
  ASSUME Patient
  PROVE  Spec => []CalibratesOwnArm
<1>1. PortInv => CalibratesOwnArm
  BY DEF PortInv, OwnInv, CalibratesOwnArm
<1> QED  BY <1>1, PortsHold, PTL

-----------------------------------------------------------------------------
(* The cameras, when requests are handled and answered in turn and no cable  *)
(* moves in the instances with calibrations.                                 *)

InTurn ==
  /\ ~Overtaking /\ Patient /\ OneClick
  /\ \A b \in Bounds : b.runs = 0 \/ b.moves = 0

Busy == Workers # {} \/ \E i \in DOMAIN calls : calls[i].op = "start"

(* Nobody calibrates without having clicked on start.                        *)
LEMMA BusyFrom ==
  ASSUME Types, [Next]_vars, Busy'
  PROVE  Busy \/ ClickStart
<1>0. CallsOK /\ RunsOK
  BY DEF Types
<1>1. ASSUME NEW k \in DOMAIN calls', calls'[k].op = "start"
      PROVE  Busy \/ ClickStart
  <2>1. CASE Sending(calls'[k])
    BY <1>1, <2>1, SendingOK
  <2>2. ASSUME NEW i \in DOMAIN calls,
               calls'[k] = calls[i] \/ Becomes(i, calls'[k])
        PROVE  calls[i].op = "start"
    BY <1>0, <1>1, <2>2, BecomesOK
  <2> QED  BY <2>1, <2>2, Origin DEF Busy
<1>2. ASSUME NEW r \in Workers' PROVE Busy
  <2>1. CASE pc' = pc
    BY <1>2, <2>1 DEF Workers, Busy
  <2>2. ASSUME NEW i \in DOMAIN calls, StartSpawns(i) PROVE Busy
    BY <2>2 DEF StartSpawns, Busy
  <2>3. ASSUME NEW q \in Runs, Works(q) PROVE Busy
    BY <1>0, <2>3, WorkerChanges DEF Busy
  <2>4. \A i \in DOMAIN calls : StartClaims(i) \/ StopFinishes(i) => pc' = pc
    BY DEF StartClaims, StopFinishes
  <2> QED  BY <2>1, <2>2, <2>3, <2>4, ManagerChanges
<1> QED  BY <1>1, <1>2 DEF Busy

(* While a run is on or about to start, nobody saves cameras.                *)
LEMMA SerialStep ==
  ASSUME Types, SerialInv, InTurn, [Next]_vars
  PROVE  SerialInv'
<1>0. /\ CallsOK /\ RunsOK /\ CardOK /\ run \in Nat /\ max \in Bounds
      /\ max.runs \in Nat /\ max.moves \in Nat /\ moves \in Nat
      /\ Busy => max.runs # 0
      /\ Busy => /\ cam.due = {}
                 /\ \A i \in DOMAIN calls :
                      calls[i].op \notin {"cams", "cameras"}
  BY SMTT(30), CamerasAssumption, ManagerAssumption
  DEF Types, SerialInv, Busy, RunsOK, CardOK
<1>1. max' = max
  BY CardChanges
  DEF card, LeavesPage, CardUser, TurnOn, TurnOff, Rescan, AddCamera,
      PickCamera, RemoveCamera, UpdateCamera, Edits, SavesCameras,
      DeviceChanges, RecordAnswered, RecordArrives, CamerasListed
<1>2. ASSUME ClickStart
      PROVE  /\ max.runs # 0 /\ cam'.due = {}
             /\ \A k \in DOMAIN calls' : calls'[k].op = "start"
  <2>1. Pending("start") \in Nat
    <3>1. IsFiniteSet(DOMAIN calls)
      BY <1>0, FS_Interval DEF CallsOK
    <3>2. IsFiniteSet({i \in DOMAIN calls : calls[i].op = "start"})
      BY <3>1, FS_Subset
    <3> QED  BY <3>2, FS_CardinalityType DEF Pending
  <2>2. max.runs # 0
    BY <1>0, <1>2, <2>1 DEF ClickStart
  <2>3. calls = <<>> /\ cam.due = {}
    BY <1>2 DEF ClickStart, Settled, InTurn
  <2>4. calls' = <<Call("start", visit, side, port)>>
    BY <1>2, <2>3 DEF ClickStart, Sends
  <2> QED  BY <1>2, <2>2, <2>3, <2>4 DEF ClickStart, card, Call
<1>3. ASSUME Busy
      PROVE  /\ cam'.due = {}
             /\ \A k \in DOMAIN calls' :
                  calls'[k].op \notin {"cams", "cameras"}
  <2>1. ~MayEditCameras /\ ~SavesCameras
        /\ \A i \in DOMAIN calls : ~CamerasListed(i)
    BY <1>0, <1>3
    DEF InTurn, MayEditCameras, Busy, SavesCameras, CamerasListed
  <2>2. \A d \in Devices : ~DeviceChanges(d)
    BY <1>0, <1>3 DEF InTurn, DeviceChanges
  <2>3. cam'.due = {}
    <3>1. CASE UNCHANGED card
      BY <1>0, <1>3, <3>1 DEF card
    <3>2. CASE LeavesPage(activeRef)
      BY <3>2 DEF LeavesPage, NoCard
    <3>3. ASSUME NEW i \in DOMAIN calls, RecordAnswered(i)
          PROVE  cam'.due = {}
      <4>1. cam \in CardState
        BY <1>0 DEF CardOK
      <4>2. cam'.due = cam.due
        BY <3>3, <4>1 DEF RecordAnswered, RecordArrives, CardState
      <4> QED  BY <1>0, <1>3, <4>2
    <3> QED  BY <2>1, <2>2, <3>1, <3>2, <3>3, CardChanges
  <2>4. ASSUME NEW k \in DOMAIN calls', Sending(calls'[k])
        PROVE  calls'[k].op \notin {"cams", "cameras"}
    BY <2>1, <2>2, <2>4 DEF Sending, Call
  <2>5. ASSUME NEW k \in DOMAIN calls', NEW i \in DOMAIN calls,
               calls'[k] = calls[i] \/ Becomes(i, calls'[k])
        PROVE  calls'[k].op \notin {"cams", "cameras"}
    <3>1. calls'[k].op \in {calls[i].op, "keep", "hold"}
      BY <1>0, <2>5, BecomesOK
    <3> QED  BY <1>0, <1>3, <3>1
  <2> QED  BY <2>3, <2>4, <2>5, Origin
<1>4. Busy' => max'.runs # 0
  BY <1>0, <1>1, <1>2, BusyFrom
<1>5. Busy' => /\ cam'.due = {}
               /\ \A k \in DOMAIN calls' :
                    calls'[k].op \notin {"cams", "cameras"}
  BY <1>2, <1>3, BusyFrom
<1> QED  BY <1>4, <1>5 DEF SerialInv, Busy

(* The order in which requests are under way: f tells where each was.        *)
Order(f) ==
  /\ f \in [DOMAIN calls' -> DOMAIN calls \cup {Len(calls) + 1}]
  /\ \A k, l \in DOMAIN calls' : k < l => f[k] < f[l]
  /\ \A k \in DOMAIN calls' :
       \/ /\ f[k] \in DOMAIN calls
          /\ calls'[k] = calls[f[k]] \/ Becomes(f[k], calls'[k])
       \/ /\ f[k] = Len(calls) + 1
          /\ \/ Sending(calls'[k])
             \/ /\ calls'[k].at = "answered"
                /\ \E i \in DOMAIN calls : Becomes(i, calls'[k])

(* Requests do not overtake each other, but for those answered.              *)
LEMMA Ordered ==
  ASSUME Types, [Next]_vars
  PROVE  \E f : Order(f)
<1>0. CallsOK
  BY DEF Types
<1>1. CASE UNCHANGED calls
  <2> DEFINE f == [k \in DOMAIN calls' |-> k]
  <2>1. Order(f)
    BY <1>1 DEF Order
  <2> QED  BY <2>1
<1>2. ASSUME NEW K \in SUBSET DOMAIN calls, NEW N, Left(K, N)
      PROVE  \E f :
               /\ f \in [DOMAIN calls' -> DOMAIN calls \cup {Len(calls) + 1}]
               /\ \A k, l \in DOMAIN calls' : k < l => f[k] < f[l]
               /\ \A k \in DOMAIN calls' :
                    \/ f[k] \in DOMAIN calls /\ calls'[k] = calls[f[k]]
                    \/ f[k] = Len(calls) + 1 /\ calls'[k] \in N
  <2>1. DOMAIN calls' = 1..Len(calls')
    BY <1>2 DEF Left
  <2>2. PICK f : From(f, calls', calls, K, N)
    BY <1>2 DEF Left, Derived
  <2> QED  BY <2>1, <2>2 DEF From
<1>3. ASSUME NEW i \in DOMAIN calls, NEW e, GoesOn(i, e)
      PROVE  \E f : Order(f)
  <2>1. CASE Put(i, e)
    <3> DEFINE f == [k \in DOMAIN calls' |-> k]
    <3>1. DOMAIN calls' = DOMAIN calls
      BY <1>0, <2>1 DEF Put, CallsOK
    <3>2. \A k \in DOMAIN calls' :
            calls'[k] = calls[k] \/ (k = i /\ calls'[k] = e)
      BY <2>1, <3>1 DEF Put
    <3>3. Order(f)
      BY <1>3, <3>1, <3>2 DEF Order, GoesOn
    <3> QED  BY <3>3
  <2>2. CASE Moved(i, e) /\ e.at = "answered"
    <3>1. Left(DOMAIN calls \ {i}, {e})
      BY <2>2 DEF Moved
    <3>2. PICK f :
            /\ f \in [DOMAIN calls' -> DOMAIN calls \cup {Len(calls) + 1}]
            /\ \A k, l \in DOMAIN calls' : k < l => f[k] < f[l]
            /\ \A k \in DOMAIN calls' :
                 \/ f[k] \in DOMAIN calls /\ calls'[k] = calls[f[k]]
                 \/ f[k] = Len(calls) + 1 /\ calls'[k] \in {e}
      BY <1>2, <3>1
    <3>3. Order(f)
      BY <1>3, <2>2, <3>2 DEF Order, GoesOn
    <3> QED  BY <3>3
  <2> QED  BY <1>3, <2>1, <2>2 DEF GoesOn
<1>4. ASSUME NEW K \in SUBSET DOMAIN calls, NEW N, LeavesAndSends(K, N)
      PROVE  \E f : Order(f)
  BY <1>2, <1>4 DEF LeavesAndSends, Order
<1> QED  BY <1>1, <1>3, <1>4, Shape

(* Few steps go on with a request for the cameras or the record of a visit.  *)
LEMMA BecomesOf ==
  ASSUME NEW i \in DOMAIN calls, NEW e, Becomes(i, e)
  PROVE  /\ calls[i].op = "cams" => ReadsRecord(i)
         /\ calls[i].op = "load" => ReportsRecord(i)
         /\ calls[i].op = "cameras" => ListsCameras(i)
         /\ calls[i].at \in {"join", "answered"} => PortKept(i)
<1>1. CASE calls[i].at \in {"join", "answered"}
  BY <1>1 DEF Becomes, StartChecks, StartClaims, StartSpawns, StopAsks,
              ReportsStatus, ReportsRecord, ReadsRecord, SavesRecord,
              PortDetected, PortKept, ListsCameras, Begins
<1>2. /\ calls[i].op = "cams" => ReadsRecord(i)
      /\ calls[i].op = "load" => ReportsRecord(i)
      /\ calls[i].op = "cameras" => ListsCameras(i)
  BY DEF Becomes, StartChecks, StartClaims, StartSpawns, StopAsks,
         ReportsStatus, ReportsRecord, ReadsRecord, SavesRecord,
         PortDetected, PortKept, ListsCameras, Begins
<1> QED  BY <1>1, <1>2

(* And what these steps make of it.                                          *)
LEMMA BecomesBy ==
  ASSUME CallsOK, NEW i \in DOMAIN calls, NEW e, Becomes(i, e)
  PROVE  /\ ReadsRecord(i) =>
              /\ e.at = "write"
              /\ e.copy = IF calls[i].op = "cams"
                          THEN [record EXCEPT !.cams = calls[i].cams]
                          ELSE [record EXCEPT !.port[calls[i].side] =
                                  calls[i].port]
         /\ ReportsRecord(i) => e.at = "answered" /\ e.copy = record
         /\ ListsCameras(i) => e.at = "answered" /\ e.found \in FoundBy(i)
<1>0. calls[i] \in Request
  BY Typed
<1>1. ASSUME ReadsRecord(i)
      PROVE  e = [calls[i] EXCEPT !.at = "write", !.copy =
                    IF calls[i].op = "cams"
                    THEN [record EXCEPT !.cams = calls[i].cams]
                    ELSE [record EXCEPT !.port[calls[i].side] =
                            calls[i].port]]
  <2>1. calls[i].op \in {"save", "cams"} /\ calls[i].at = "sent"
    BY <1>1 DEF ReadsRecord, Begins
  <2> QED
    BY <2>1
    DEF Becomes, StartChecks, StartClaims, StartSpawns, StopAsks,
        ReportsStatus, ReportsRecord, SavesRecord, PortDetected, PortKept,
        ListsCameras, Begins
<1>2. ASSUME ReportsRecord(i)
      PROVE  e = [calls[i] EXCEPT !.copy = record, !.at = "answered"]
  <2>1. calls[i].op \in {"load", "robot"} /\ calls[i].at = "sent"
    BY <1>2 DEF ReportsRecord, Begins
  <2> QED
    BY <2>1
    DEF Becomes, StartChecks, StartClaims, StartSpawns, StopAsks,
        ReportsStatus, ReadsRecord, SavesRecord, PortDetected, PortKept,
        ListsCameras, Begins
<1>3. ASSUME ListsCameras(i)
      PROVE  \E found \in FoundBy(i) :
               e = [calls[i] EXCEPT !.found = found, !.at = "answered"]
  <2>1. calls[i].op = "cameras" /\ calls[i].at = "sent"
    BY <1>3 DEF ListsCameras, Begins
  <2> QED
    BY <2>1
    DEF Becomes, StartChecks, StartClaims, StartSpawns, StopAsks,
        ReportsStatus, ReportsRecord, ReadsRecord, SavesRecord, PortDetected,
        PortKept, Begins
<1> QED  BY <1>0, <1>1, <1>2, <1>3 DEF Request

(* The cameras on disk are those that the page has sent.                     *)
LEMMA RecordCams ==
  ASSUME Types, PortInv, SerialInv, WriteInv, [Next]_vars
  PROVE  \/ record'.cams = record.cams
         \/ \E i \in DOMAIN calls :
              /\ SavesRecord(i) /\ calls[i].op = "cams"
              /\ record'.cams = calls[i].cams /\ Workers = {}
              /\ UNCHANGED <<card, page, form>>
<1>1. ASSUME NEW i \in DOMAIN calls, SavesRecord(i)
      PROVE  \/ record'.cams = record.cams
             \/ /\ calls[i].op = "cams" /\ record'.cams = calls[i].cams
                /\ Workers = {}
  <2>1. calls[i].at = "write" /\ record' = calls[i].copy
    BY <1>1 DEF SavesRecord
  <2> QED  BY <2>1 DEF WriteInv, SerialInv
<1>2. ASSUME NEW i \in DOMAIN calls, Handles(i)
      PROVE  SavesRecord(i) \/ record' = record
  BY <1>2 DEF Handles, StartChecks, StartClaims, StartSpawns, StepCompletes,
              StopRefused, StopAsks, StopFinishes, ReportsStatus,
              ReportsRecord, ReadsRecord
<1>3. ASSUME NEW r \in Runs, Works(r) PROVE record'.cams = record.cams
  <2>1. CASE WritesBack(r)
    BY <2>1 DEF WritesBack, Moves, WriteInv
  <2> QED
    BY <1>3, <2>1
    DEF Works, Advances, Connects, Homes, StartsRanges, EndsRanges,
        WritesCalibration, ReadsForWriteBack, Finishes, Ends, Fails
<1> QED  BY <1>1, <1>2, <1>3, ManagerSteps

(* The invariant of the writers.                                             *)
LEMMA WriteStep ==
  ASSUME Types, PortInv, SerialInv, WriteInv, InTurn, [Next]_vars
  PROVE  WriteInv'
<1>0. /\ CallsOK /\ RunsOK /\ RecordsOK /\ PageOK /\ WriterInv
      /\ visits \in Nat /\ visit \in Nat /\ record \in Record
      /\ ~Overtaking
  BY DEF Types, PortInv, PageOK, RecordsOK, InTurn
<1>1. visits \in {visits', visits' - 1} /\ visit' <= visits'
      /\ (Mount => visits' = visits + 1) /\ visits' \in Nat
  <2>1. CASE Mount
    BY <1>0, <2>1 DEF Mount
  <2>2. CASE visits' = visits /\ (visit' = visit \/ visit' = 0) /\ ~Mount
    BY <1>0, <2>2 DEF WriteInv
  <2>3. Mount => visits' # visits
    BY <1>0 DEF Mount
  <2>4. ~Mount => visits' = visits /\ (visit' = visit \/ visit' = 0)
    BY PageChanges
    DEF LeavesPage, ClickStart, StartAnswered, StatusAnswered, page
  <2> QED  BY <2>1, <2>2, <2>4
<1>2. ASSUME NEW i \in DOMAIN calls, NEW e, Becomes(i, e), e.at = "write"
      PROVE  ReadsRecord(i) /\ e.op = calls[i].op
  <2>1. CASE PortDetected(i) \/ PortKept(i)
    <3>1. calls[i].op \in {"detect", "keep"}
      BY <2>1 DEF PortDetected, PortKept, Begins
    <3>2. calls[i].at = "write"
      BY <1>0, <1>2, <2>1, BecomesOK
    <3> QED  BY <1>0, <3>1, <3>2 DEF WriterInv
  <2> QED  BY <1>0, <1>2, <2>1, BecomesOK
<1>3. ASSUME NEW i \in DOMAIN calls, NEW e, Becomes(i, e),
             calls[i].at \in {"join", "answered"}
      PROVE  e.at = calls[i].at
  BY <1>0, <1>3, BecomesOK, BecomesOf
<1>4. ASSUME NEW k \in DOMAIN calls', calls'[k].at = "write",
             NEW l \in 1..(k - 1)
      PROVE  calls'[l].at \in {"join", "answered"}
  <2>1. CallsOK'
    BY TypesStep DEF Types
  <2>2. l \in DOMAIN calls' /\ l < k
    BY <2>1 DEF CallsOK
  <2>3. PICK f : Order(f)
    BY Ordered
  <2>4. /\ f[k] \in DOMAIN calls
        /\ calls'[k] = calls[f[k]] \/ Becomes(f[k], calls'[k])
    BY <1>4, <2>3, SendingOK DEF Order
  <2>5. f[l] \in 1..(f[k] - 1) /\ f[l] \in DOMAIN calls
    <3>1. f[l] < f[k] /\ f[l] \in DOMAIN calls \cup {Len(calls) + 1}
      BY <2>2, <2>3 DEF Order
    <3> QED  BY <1>0, <2>4, <3>1 DEF CallsOK
  <2>6. calls[f[l]].at \in {"join", "answered"}
    <3>1. CASE calls'[k] = calls[f[k]]
      BY <1>4, <2>4, <2>5, <3>1 DEF WriteInv
    <3>2. CASE Becomes(f[k], calls'[k])
      BY <1>0, <1>2, <1>4, <2>4, <2>5, <3>2 DEF ReadsRecord, Begins
    <3> QED  BY <2>4, <3>1, <3>2
  <2>7. calls'[l] = calls[f[l]] \/ Becomes(f[l], calls'[l])
    <3>1. f[l] # Len(calls) + 1
      BY <1>0, <2>5 DEF CallsOK
    <3> QED  BY <2>2, <2>3, <3>1 DEF Order
  <2> QED  BY <1>3, <2>5, <2>6, <2>7
<1>5. ASSUME NEW k \in DOMAIN calls', calls'[k].at = "write"
      PROVE  calls'[k].copy.cams = IF calls'[k].op = "cams"
                                   THEN calls'[k].cams ELSE record'.cams
  <2>1. ASSUME NEW i \in DOMAIN calls, calls'[k] = calls[i]
        PROVE  calls'[k].copy.cams = IF calls'[k].op = "cams"
                                     THEN calls'[k].cams ELSE record'.cams
    <3>1. calls[i].copy.cams = IF calls[i].op = "cams"
                               THEN calls[i].cams ELSE record.cams
      BY <1>5, <2>1 DEF WriteInv
    <3>2. ASSUME NEW j \in DOMAIN calls, SavesRecord(j), calls[j].op = "cams",
                 calls[i].op # "cams"
          PROVE  FALSE
      <4>1. calls[j].at = "write" /\ calls[i].at = "write" /\ i # j
        BY <1>5, <2>1, <3>2 DEF SavesRecord
      <4>2. i \in 1..(j - 1) \/ j \in 1..(i - 1)
        BY <1>0, <4>1 DEF CallsOK
      <4> QED  BY <4>1, <4>2 DEF WriteInv
    <3> QED  BY <2>1, <3>1, <3>2, RecordCams
  <2>2. ASSUME NEW i \in DOMAIN calls, Becomes(i, calls'[k])
        PROVE  calls'[k].copy.cams = IF calls'[k].op = "cams"
                                     THEN calls'[k].cams ELSE record'.cams
    <3>1. ReadsRecord(i) /\ calls'[k].op = calls[i].op
      BY <1>2, <1>5, <2>2
    <3>2. calls'[k].cams = calls[i].cams /\ record' = record
      BY <1>0, <2>2, <3>1, BecomesOK DEF ReadsRecord
    <3>3. calls'[k].copy = IF calls[i].op = "cams"
                           THEN [record EXCEPT !.cams = calls[i].cams]
                           ELSE [record EXCEPT !.port[calls[i].side] =
                                   calls[i].port]
      BY <1>0, <2>2, <3>1, BecomesBy
    <3> QED  BY <1>0, <3>1, <3>2, <3>3 DEF Record
  <2> QED  BY <1>5, <2>1, <2>2, Origin, SendingOK
<1>6. ASSUME NEW k \in DOMAIN calls'
      PROVE  /\ calls'[k].op = "cams" => calls'[k].at # "answered"
             /\ calls'[k].op = "load" => calls'[k].visit <= visits'
  <2>1. ASSUME NEW i \in DOMAIN calls, calls'[k] = calls[i]
        PROVE  /\ calls'[k].op = "cams" => calls'[k].at # "answered"
               /\ calls'[k].op = "load" => calls'[k].visit <= visits'
    <3>1. calls[i].visit \in Nat
      BY <1>0, Typed DEF Request
    <3> QED  BY <1>0, <1>1, <2>1, <3>1 DEF WriteInv
  <2>2. ASSUME NEW i \in DOMAIN calls, Becomes(i, calls'[k])
        PROVE  /\ calls'[k].op = "cams" => calls'[k].at # "answered"
               /\ calls'[k].op = "load" => calls'[k].visit <= visits'
    <3>1. calls'[k].visit = calls[i].visit
          /\ calls'[k].op \in {calls[i].op, "keep", "hold"}
      BY <1>0, <2>2, BecomesOK
    <3>2. calls'[k].op = "cams" => ReadsRecord(i) /\ calls[i].op = "cams"
      BY <2>2, <3>1, BecomesOf
    <3>3. ReadsRecord(i) => calls'[k].at = "write"
      BY <1>0, <2>2, BecomesBy
    <3>4. calls'[k].op = "load" => calls[i].op = "load"
      BY <3>1
    <3>5. calls[i].visit \in Nat
      BY <1>0, Typed DEF Request
    <3>6. calls[i].op = "load" => calls[i].visit <= visits
      BY DEF WriteInv
    <3>7. calls[i].op = "load" => calls[i].visit <= visits'
      BY <1>0, <1>1, <3>5, <3>6
    <3> QED  BY <3>1, <3>2, <3>3, <3>4, <3>7
  <2>3. CASE Sending(calls'[k])
    <3>1. calls'[k].at = "sent"
      BY <2>3, SendingOK
    <3>2. calls'[k].op = "load" => Mount /\ calls'[k].visit = visits + 1
      BY <2>3 DEF Sending, Call, Enumeration, Saving
    <3> QED  BY <1>0, <1>1, <3>1, <3>2
  <2> QED  BY <2>1, <2>2, <2>3, Origin
<1>7. ASSUME NEW r \in Runs, pc'[r] = "merge"
      PROVE  copy'[r].cams = record'.cams
  <2>1. ASSUME pc[r] = "merge", copy'[r] = copy[r]
        PROVE  copy'[r].cams = record'.cams
    <3>1. r \in Workers
      BY <2>1 DEF Workers
    <3> QED  BY <2>1, <3>1, RecordCams DEF WriteInv
  <2>2. CASE UNCHANGED <<pc, copy>>
    BY <1>7, <2>1, <2>2
  <2>3. ASSUME NEW i \in DOMAIN calls, Handles(i)
        PROVE  UNCHANGED copy /\ (pc' = pc \/ StartSpawns(i))
    BY <2>3 DEF Handles, StartChecks, StartClaims, StartSpawns, StepCompletes,
                StopRefused, StopAsks, StopFinishes, ReportsStatus,
                ReportsRecord, ReadsRecord, SavesRecord, manager
  <2>4. ASSUME NEW i \in DOMAIN calls, StartSpawns(i), UNCHANGED copy
        PROVE  copy'[r].cams = record'.cams
    <3>1. pc[r] = "merge"
      BY <1>0, <1>7, <2>4 DEF StartSpawns, RunsOK
    <3> QED  BY <2>1, <2>4, <3>1
  <2>5. ASSUME NEW q \in Runs, Works(q) PROVE copy'[r].cams = record'.cams
    <3>1. CASE ReadsForWriteBack(q) /\ q = r
      <4> DEFINE of == request[run]
      <4>1. copy'[r] = [record EXCEPT !.port[of.side] = of.port,
                                      !.config = @ \cup {of.side}]
        BY <1>0, <3>1 DEF ReadsForWriteBack, RecordsOK
      <4>2. record' = record
        BY <3>1 DEF ReadsForWriteBack
      <4> QED  BY <1>0, <4>1, <4>2 DEF Record
    <3>2. CASE ~(ReadsForWriteBack(q) /\ q = r)
      <4>1. pc[r] = "merge" /\ copy'[r] = copy[r]
        BY <1>0, <1>7, <2>5, <3>2
        DEF Works, Advances, Connects, Homes, StartsRanges, EndsRanges,
            WritesCalibration, ReadsForWriteBack, WritesBack, Finishes,
            Ends, Fails, Onward, Moves, RunsOK, RecordsOK
      <4> QED  BY <2>1, <4>1
    <3> QED  BY <3>1, <3>2
  <2> QED  BY <2>2, <2>3, <2>4, <2>5, ManagerSteps DEF manager
<1> QED  BY <1>1, <1>4, <1>5, <1>6, <1>7 DEF WriteInv

(* Requests of a kind Q stay as they are, in their order, but for a save     *)
(* that goes on.                                                             *)
Alike(a, b) ==
  /\ a.op = b.op /\ a.visit = b.visit /\ a.cams = b.cams
  /\ a.devices = b.devices /\ a.found = b.found
  /\ a.op # "cams" => a.at = b.at /\ a.copy = b.copy
Tracks(f, Q) ==
  /\ f \in [DOMAIN calls' -> Int]
  /\ \A k, l \in DOMAIN calls' : k < l => f[k] < f[l]
  /\ \A k \in DOMAIN calls' : calls'[k] \in Q =>
       f[k] \in DOMAIN calls /\ calls[f[k]] \in Q
       /\ Alike(calls'[k], calls[f[k]])
  /\ \A i \in DOMAIN calls : calls[i] \in Q =>
       \E k \in DOMAIN calls' : f[k] = i /\ calls'[k] \in Q
Same(Q) == \E f : Tracks(f, Q)

(* A step that drops and sends nothing of the kind leaves it the same.       *)
LEMMA SameFrom ==
  ASSUME Types, [Next]_vars, NEW Q \in SUBSET Request,
         \A i \in DOMAIN calls : calls[i] \in Q => ~Drops(i) /\ ~Cancels(i),
         \A i \in DOMAIN calls : \A e \in Request : Becomes(i, e) =>
           /\ e \in Q <=> calls[i] \in Q
           /\ e \in Q => Alike(e, calls[i]) /\ e.at # "answered",
         \A e \in Q : ~Sending(e)
  PROVE  Same(Q)
<1>0. CallsOK /\ CallsOK'
  BY TypesStep DEF Types
<1>1. DOMAIN calls = 1..Len(calls) /\ DOMAIN calls' = 1..Len(calls')
      /\ Len(calls) \in Nat /\ Len(calls') \in Nat
      /\ \A k \in DOMAIN calls' : calls'[k] \in Request
  BY <1>0 DEF CallsOK
<1>2. CASE UNCHANGED calls
  <2> DEFINE f == [k \in DOMAIN calls' |-> k]
  <2>1. Tracks(f, Q)
    BY <1>1, <1>2 DEF Tracks, Alike
  <2> QED  BY <2>1 DEF Same
<1>3. ASSUME NEW K \in SUBSET DOMAIN calls, NEW N, Left(K, N),
             \A k \in DOMAIN calls' : calls'[k] \in N => calls'[k] \notin Q,
             \A i \in DOMAIN calls \ K : calls[i] \notin Q
      PROVE  Same(Q)
  <2>1. PICK f : From(f, calls', calls, K, N)
    BY <1>3 DEF Left, Derived
  <2>2. f \in [DOMAIN calls' -> Int]
    BY <1>1, <2>1 DEF From
  <2>3. \A k \in DOMAIN calls' : calls'[k] \in Q =>
          f[k] \in K /\ calls'[k] = calls[f[k]]
    BY <1>1, <1>3, <2>1 DEF From
  <2>4. \A i \in K : \E k \in DOMAIN calls' :
          f[k] = i /\ calls'[k] = calls[i]
    <3> TAKE i \in K
    <3>1. PICK k \in DOMAIN calls' : f[k] = i
      BY <1>1, <2>1 DEF From
    <3>2. i # Len(calls) + 1
      BY <1>1
    <3> QED  BY <1>1, <2>1, <3>1, <3>2 DEF From
  <2>5. \A k, l \in DOMAIN calls' : k < l => f[k] < f[l]
    BY <1>1, <2>1 DEF From
  <2>6. Tracks(f, Q)
    BY <1>3, <2>2, <2>3, <2>4, <2>5 DEF Tracks, Alike
  <2> QED  BY <2>6 DEF Same
<1>4. ASSUME NEW i \in DOMAIN calls, NEW e, GoesOn(i, e) PROVE Same(Q)
  <2>1. CASE Put(i, e)
    <3> DEFINE f == [k \in DOMAIN calls' |-> k]
    <3>1. DOMAIN calls' = DOMAIN calls /\ calls'[i] = e
          /\ \A k \in DOMAIN calls \ {i} : calls'[k] = calls[k]
      BY <1>0, <2>1 DEF Put, CallsOK
    <3>2. e \in Request /\ Becomes(i, e)
      BY <1>1, <1>4, <3>1 DEF GoesOn
    <3>3. \A k \in DOMAIN calls' :
            /\ calls'[k] \in Q <=> calls[k] \in Q
            /\ calls'[k] \in Q => Alike(calls'[k], calls[k])
      BY <3>1, <3>2 DEF Alike
    <3>4. Tracks(f, Q)
      BY <1>1, <3>1, <3>3 DEF Tracks
    <3> QED  BY <3>4 DEF Same
  <2>2. CASE Moved(i, e) /\ e.at = "answered"
    <3>1. Left(DOMAIN calls \ {i}, {e})
      BY <2>2 DEF Moved
    <3>2. PICK k \in DOMAIN calls' : calls'[k] = e
      BY <1>1, <3>1 DEF Left, Derived, From
    <3>3. e \notin Q /\ calls[i] \notin Q
      BY <1>1, <1>4, <2>2, <3>2 DEF GoesOn
    <3> QED  BY <1>3, <3>1, <3>3
  <2> QED  BY <1>4, <2>1, <2>2 DEF GoesOn
<1>5. ASSUME NEW K \in SUBSET DOMAIN calls, NEW N, LeavesAndSends(K, N)
      PROVE  Same(Q)
  BY <1>3, <1>5 DEF LeavesAndSends
<1> QED  BY <1>2, <1>4, <1>5, Shape

ForList == {c \in Request : \/ c.op = "cams"
                            \/ c.op = "load" /\ c.visit = visit}
ForIndex == {c \in Request : c.op = "cameras"}

(* Enumerations stay the same unless a step is about one, ...                *)
LEMMA SameForIndex ==
  ASSUME Types, [Next]_vars,
         \A i \in DOMAIN calls : calls[i].op = "cameras" =>
           ~CamerasListed(i) /\ ~Cancels(i) /\ ~ListsCameras(i),
         \A e \in ForIndex : ~Sending(e),
         \A i \in DOMAIN calls :
           calls[i].op = "cameras" => calls[i].at # "write"
  PROVE  Same(ForIndex)
<1>0. CallsOK /\ ForIndex \in SUBSET Request
  BY DEF Types, ForIndex
<1>1. \A i \in DOMAIN calls : calls[i].op = "cameras" => ~Drops(i)
  BY DEF Drops, StepCompletes, StopRefused, StopFinishes, SavesRecord,
         AnswerIsLate, StartAnswered, StatusAnswered, RecordAnswered,
         RecordArrives, SaveAnswered, DetectionFails, PortKept,
         HandsPortOver, Arrives, Begins
<1>2. ASSUME NEW i \in DOMAIN calls, NEW e \in Request, Becomes(i, e)
      PROVE  e \notin ForIndex /\ calls[i] \notin ForIndex
  <2>1. calls[i].op # "cameras"
    BY <1>2, BecomesOf
  <2>2. e.op \in {calls[i].op, "keep", "hold"}
    BY <1>0, <1>2, BecomesOK
  <2> QED  BY <2>1, <2>2 DEF ForIndex
<1>3. \A i \in DOMAIN calls : calls[i] \in ForIndex =>
        ~Drops(i) /\ ~Cancels(i)
  BY <1>1 DEF ForIndex
<1> QED  BY <1>0, <1>2, <1>3, SameFrom

(* ... and so do lists under way and the record of the visit.                *)
LEMMA SameForList ==
  ASSUME Types, PortInv, [Next]_vars, visit # 0,
         \A i \in DOMAIN calls : calls[i].op = "cams" => ~SavesRecord(i),
         \A i \in DOMAIN calls : Loads(i) =>
           ~RecordAnswered(i) /\ ~ReportsRecord(i),
         ~Mount, ~SavesCameras
  PROVE  Same(ForList)
<1>0. CallsOK /\ ForList \in SUBSET Request /\ WriterInv
  BY DEF Types, ForList, PortInv
<1>1. ASSUME NEW i \in DOMAIN calls, calls[i] \in ForList
      PROVE  ~Drops(i) /\ ~Cancels(i)
  <2>1. calls[i].op = "cams" \/ Loads(i)
    BY <1>1 DEF ForList, Loads
  <2>2. ~Cancels(i)
    BY <2>1 DEF Cancels, HandsPortOver, Loads
  <2>3. ~SavesRecord(i)
    BY <1>0, <2>1 DEF SavesRecord, WriterInv, Loads
  <2>4. ~RecordAnswered(i) /\ ~AnswerIsLate(i)
    BY <2>1 DEF RecordAnswered, RecordArrives, AnswerIsLate, Arrives, Loads,
                ForThisVisit
  <2>5. ~Drops(i)
    BY <2>1, <2>3, <2>4
    DEF Drops, StepCompletes, StopRefused, StopFinishes, StartAnswered,
        StatusAnswered, SaveAnswered, DetectionFails, CamerasListed,
        PortKept, HandsPortOver, Arrives, Begins, Loads
  <2> QED  BY <2>2, <2>5
<1>2. ASSUME NEW i \in DOMAIN calls, NEW e \in Request, Becomes(i, e)
      PROVE  /\ e \in ForList <=> calls[i] \in ForList
             /\ e \in ForList => Alike(e, calls[i]) /\ e.at # "answered"
  <2>0. calls[i] \in Request
    BY <1>0, Typed
  <2>1. /\ e.visit = calls[i].visit /\ e.cams = calls[i].cams
        /\ e.devices = calls[i].devices
    BY <1>0, <1>2, BecomesOK
  <2>2. CASE calls[i].op = "cams"
    <3>1. ReadsRecord(i)
      BY <1>2, <2>2, BecomesOf
    <3>2. ~PortDetected(i) /\ ~PortKept(i) /\ ~ListsCameras(i)
      BY <2>2 DEF PortDetected, PortKept, ListsCameras, Begins
    <3>3. e.at = "write"
      BY <1>0, <1>2, <3>1, BecomesBy
    <3>4. e.op = "cams"
      BY <1>0, <1>2, <2>2, <3>2, BecomesOK
    <3>5. e.found = calls[i].found
      BY <1>0, <1>2, <3>2, BecomesWith
    <3> QED  BY <2>0, <2>1, <2>2, <3>3, <3>4, <3>5 DEF ForList, Alike
  <2>3. CASE calls[i].op = "load"
    <3>1. ~Loads(i)
      BY <1>2, <2>3, BecomesOf
    <3>2. ~PortDetected(i) /\ ~PortKept(i)
      BY <2>3 DEF PortDetected, PortKept, Begins
    <3>3. e.op = "load"
      BY <1>0, <1>2, <2>3, <3>2, BecomesOK
    <3> QED  BY <2>1, <2>3, <3>1, <3>3 DEF ForList, Loads
  <2>4. CASE calls[i].op \notin {"cams", "load"}
    <3>1. e.op \in {calls[i].op, "keep", "hold"}
      BY <1>0, <1>2, BecomesOK
    <3> QED  BY <2>4, <3>1 DEF ForList
  <2> QED  BY <2>2, <2>3, <2>4
<1>3. \A e \in ForList : ~Sending(e)
  BY DEF ForList, Sending, Call, Enumeration
<1> QED  BY <1>0, <1>1, <1>2, <1>3, SameFrom

(* Nothing that concerns the list but the card.                              *)
LEMMA SameList ==
  ASSUME Types, LoadFirst, ListGoes, [Next]_vars, visit # 0, visit' = visit,
         Same(ForList), record'.cams = record.cams,
         Loading => /\ cam'.on = cam.on /\ cam'.due = cam.due,
         \/ cam'.due = {cam'.list}
         \/ cam'.due = cam.due /\ cam'.list = cam.list
  PROVE  LoadFirst' /\ ListGoes'
<1>0. CallsOK /\ CallsOK'
  BY TypesStep DEF Types
<1>1. /\ \A i \in DOMAIN calls : calls[i] \in Request /\ i \in Int
      /\ \A k \in DOMAIN calls' : calls'[k] \in Request /\ k \in Int
  BY <1>0 DEF CallsOK
<1>2. PICK f : Tracks(f, ForList)
  BY DEF Same
<1>3. \A k \in DOMAIN calls' : calls'[k].op = "cams" =>
        /\ f[k] \in DOMAIN calls /\ calls[f[k]].op = "cams"
        /\ calls'[k].cams = calls[f[k]].cams
  BY <1>1, <1>2 DEF Tracks, ForList, Alike
<1>4. \A k \in DOMAIN calls' : Loads(k)' =>
        /\ f[k] \in DOMAIN calls /\ Loads(f[k])
        /\ calls'[k].at = calls[f[k]].at /\ calls'[k].copy = calls[f[k]].copy
  <2> TAKE k \in DOMAIN calls'
  <2> HAVE Loads(k)'
  <2>1. calls'[k] \in ForList /\ calls'[k].op = "load"
        /\ calls'[k].visit = visit
    BY <1>1 DEF ForList, Loads
  <2>2. f[k] \in DOMAIN calls /\ Alike(calls'[k], calls[f[k]])
    BY <1>2, <2>1 DEF Tracks
  <2> QED  BY <2>1, <2>2 DEF Alike, Loads
<1>5. \A i \in DOMAIN calls : calls[i].op = "cams" =>
        \E k \in DOMAIN calls' : /\ f[k] = i /\ calls'[k].op = "cams"
                                 /\ calls'[k].cams = calls[i].cams
  <2> TAKE i \in DOMAIN calls
  <2> HAVE calls[i].op = "cams"
  <2>1. calls[i] \in ForList
    BY <1>1 DEF ForList
  <2>2. PICK k \in DOMAIN calls' : f[k] = i /\ calls'[k] \in ForList
    BY <1>2, <2>1 DEF Tracks
  <2>3. Alike(calls'[k], calls[i])
    BY <1>2, <2>2 DEF Tracks
  <2> QED  BY <2>2, <2>3 DEF Alike
<1>6. Loading => Loading'
  <2> HAVE Loading
  <2>1. PICK i \in DOMAIN calls : Loads(i)
    BY DEF Loading
  <2>2. calls[i] \in ForList
    BY <1>1, <2>1 DEF ForList, Loads
  <2>3. PICK k \in DOMAIN calls' : f[k] = i /\ calls'[k] \in ForList
    BY <1>2, <2>2 DEF Tracks
  <2>4. Alike(calls'[k], calls[i])
    BY <1>2, <2>3 DEF Tracks
  <2>5. Loads(k)'
    BY <2>1, <2>4 DEF Alike, Loads
  <2> QED  BY <2>5 DEF Loading
<1>7. /\ f \in [DOMAIN calls' -> Int]
      /\ \A k, l \in DOMAIN calls' : k < l => f[k] < f[l]
  BY <1>2 DEF Tracks
<1>8. /\ \A k, l \in DOMAIN calls' : f[l] <= f[k] => l <= k
      /\ \A k, l \in DOMAIN calls' : f[l] = f[k] => l = k
  BY <1>1, <1>7
<1>9. LoadFirst'
  <2> SUFFICES ASSUME NEW k \in DOMAIN calls', Loads(k)'
               PROVE  /\ ~cam'.on /\ cam'.due = {}
                      /\ \A l \in DOMAIN calls' : calls'[l].op = "cams" =>
                           l < k /\ calls'[k].at = "sent"
                      /\ \A l \in DOMAIN calls' : Loads(l)' => l = k
                      /\ calls'[k].at = "answered" =>
                           calls'[k].copy.cams = record'.cams
    BY DEF LoadFirst
  <2>1. f[k] \in DOMAIN calls /\ Loads(f[k])
        /\ calls'[k].at = calls[f[k]].at /\ calls'[k].copy = calls[f[k]].copy
    BY <1>4
  <2>2. /\ ~cam.on /\ cam.due = {}
        /\ \A j \in DOMAIN calls : calls[j].op = "cams" =>
             j < f[k] /\ calls[f[k]].at = "sent"
        /\ \A j \in DOMAIN calls : Loads(j) => j = f[k]
        /\ calls[f[k]].at = "answered" =>
             calls[f[k]].copy.cams = record.cams
    BY <2>1 DEF LoadFirst
  <2>3. Loading
    BY <2>1 DEF Loading
  <2>4. ASSUME NEW l \in DOMAIN calls', calls'[l].op = "cams"
        PROVE  l < k /\ calls'[k].at = "sent"
    <3>1. f[l] \in DOMAIN calls /\ calls[f[l]].op = "cams"
      BY <1>3, <2>4
    <3>2. f[l] < f[k] /\ calls[f[k]].at = "sent"
      BY <2>2, <3>1
    <3>3. ~(k <= l)
      BY <1>1, <1>7, <3>2
    <3> QED  BY <1>1, <2>1, <3>2, <3>3
  <2>5. \A l \in DOMAIN calls' : Loads(l)' => l = k
    BY <1>4, <1>8, <2>2
  <2> QED  BY <2>1, <2>2, <2>3, <2>4, <2>5
<1>10. ListGoes'
  <2> SUFFICES ASSUME ~Loading', cam'.due = {}
               PROVE  \/ /\ \A k \in DOMAIN calls' : calls'[k].op # "cams"
                         /\ record'.cams = cam'.list
                      \/ \E k \in DOMAIN calls' :
                           /\ calls'[k].op = "cams"
                           /\ calls'[k].cams = cam'.list
                           /\ \A l \in DOMAIN calls' :
                                calls'[l].op = "cams" => l <= k
    BY DEF ListGoes
  <2>1. ~Loading /\ cam.due = {} /\ cam'.list = cam.list
    BY <1>6
  <2>2. CASE /\ \A i \in DOMAIN calls : calls[i].op # "cams"
             /\ record.cams = cam.list
    BY <1>3, <2>1, <2>2
  <2>3. ASSUME NEW i \in DOMAIN calls,
               calls[i].op = "cams", calls[i].cams = cam.list,
               \A j \in DOMAIN calls : calls[j].op = "cams" => j <= i
        PROVE  \E k \in DOMAIN calls' :
                 /\ calls'[k].op = "cams" /\ calls'[k].cams = cam'.list
                 /\ \A l \in DOMAIN calls' : calls'[l].op = "cams" => l <= k
    <3>1. PICK k \in DOMAIN calls' : /\ f[k] = i /\ calls'[k].op = "cams"
                                     /\ calls'[k].cams = calls[i].cams
      BY <1>5, <2>3
    <3>2. \A l \in DOMAIN calls' : calls'[l].op = "cams" => l <= k
      BY <1>3, <1>8, <2>3, <3>1
    <3> QED  BY <2>1, <2>3, <3>1, <3>2
  <2> QED  BY <2>1, <2>2, <2>3 DEF ListGoes
<1> QED  BY <1>9, <1>10

(* Where the requests come from that are left, position by position.         *)
Comes(f, K, N) ==
  /\ f \in [DOMAIN calls' -> Int]
  /\ \A k, l \in DOMAIN calls' : k < l => f[k] < f[l]
  /\ \A k, l \in DOMAIN calls' : f[l] <= f[k] => l <= k
  /\ \A k \in DOMAIN calls' :
       \/ f[k] \in K /\ calls'[k] = calls[f[k]]
       \/ f[k] = Len(calls) + 1 /\ calls'[k] \in N
  /\ \A i \in K : \E k \in DOMAIN calls' : f[k] = i /\ calls'[k] = calls[i]
  /\ \A x \in N :
       \E k \in DOMAIN calls' : f[k] = Len(calls) + 1 /\ calls'[k] = x

(* Left, with the map from every position to the one before.                 *)
LEMMA LeftComes ==
  ASSUME CallsOK, NEW K \in SUBSET DOMAIN calls, NEW N, Left(K, N)
  PROVE  \E f : Comes(f, K, N)
<1>1. /\ DOMAIN calls' = 1..Len(calls') /\ Len(calls') \in Nat
      /\ DOMAIN calls = 1..Len(calls) /\ Len(calls) \in Nat
  BY DEF Left, CallsOK
<1>2. PICK f : From(f, calls', calls, K, N)
  BY DEF Left, Derived
<1>3. f \in [DOMAIN calls' -> Int]
  BY <1>1, <1>2 DEF From
<1>4. \A k, l \in DOMAIN calls' : k < l => f[k] < f[l]
  BY <1>1, <1>2 DEF From
<1>5. \A k, l \in DOMAIN calls' : f[l] <= f[k] => l <= k
  BY <1>1, <1>3, <1>4
<1>6. \A k \in DOMAIN calls' :
        \/ f[k] \in K /\ calls'[k] = calls[f[k]]
        \/ f[k] = Len(calls) + 1 /\ calls'[k] \in N
  BY <1>1, <1>2 DEF From
<1>7. \A i \in K : \E k \in DOMAIN calls' : f[k] = i /\ calls'[k] = calls[i]
  <2> TAKE i \in K
  <2>1. PICK k \in DOMAIN calls' : f[k] = i
    BY <1>1, <1>2 DEF From
  <2>2. i # Len(calls) + 1
    BY <1>1
  <2> QED  BY <1>6, <2>1, <2>2
<1>8. \A x \in N :
        \E k \in DOMAIN calls' : f[k] = Len(calls) + 1 /\ calls'[k] = x
  BY <1>1, <1>2 DEF From
<1> QED  BY <1>3, <1>4, <1>5, <1>6, <1>7, <1>8 DEF Comes

(* The record is asked for by a new visit, which has no other such request.  *)
LEMMA ListMount ==
  ASSUME Types, WriteInv, ShutInv, Mount
  PROVE  LoadFirst' /\ ListGoes'
<1> DEFINE new == Call("load", visits + 1, "teleop", NoPort)
<1>0. /\ CallsOK /\ visits \in Nat /\ DOMAIN calls = 1..Len(calls)
      /\ Len(calls) \in Nat
      /\ "load" \in Ops /\ "teleop" \in Sides /\ NoPort \in Ports
  BY DEF Types, PageOK, CallsOK, Ops, Sides, Ports
<1>1. /\ visit = 0 /\ visit' = visits + 1 /\ cam' = cam
      /\ calls' = Append(calls, new)
  BY DEF Mount, card
<1>2. new \in Request
  BY <1>0, CallOK
<1>3. /\ new.op = "load" /\ new.at = "sent" /\ new.visit = visits + 1
  BY DEF Call
<1> HIDE DEF new
<1>4. PICK f : Comes(f, DOMAIN calls, {new})
  BY <1>0, <1>1, <1>2, AppendSends, LeftComes DEF Sent
<1>5. ~cam'.on /\ cam'.due = {}
  BY <1>1 DEF ShutInv
<1>6. \A k \in DOMAIN calls' : Loads(k)' =>
        f[k] = Len(calls) + 1 /\ calls'[k] = new
  <2> SUFFICES ASSUME NEW k \in DOMAIN calls', Loads(k)',
                      f[k] \in DOMAIN calls, calls'[k] = calls[f[k]]
               PROVE  FALSE
    BY <1>4 DEF Comes
  <2>1. calls[f[k]].op = "load" /\ calls[f[k]].visit = visits + 1
    BY <1>1 DEF Loads
  <2> QED  BY <1>0, <2>1 DEF WriteInv
<1>7. LoadFirst'
  <2> SUFFICES ASSUME NEW k \in DOMAIN calls', Loads(k)'
               PROVE  /\ \A l \in DOMAIN calls' : calls'[l].op = "cams" =>
                           l < k /\ calls'[k].at = "sent"
                      /\ \A l \in DOMAIN calls' : Loads(l)' => l = k
                      /\ calls'[k].at # "answered"
    BY <1>5 DEF LoadFirst
  <2>1. f[k] = Len(calls) + 1 /\ calls'[k] = new
    BY <1>6
  <2>2. DOMAIN calls' \subseteq Int
    BY <1>0, <1>1, <1>2 DEF CallsOK
  <2>3. \A l \in DOMAIN calls' : f[l] <= f[k]
    BY <1>0, <1>4, <2>1 DEF Comes
  <2>4. \A l \in DOMAIN calls' : l <= k
    BY <1>4, <2>3 DEF Comes
  <2>5. \A l \in DOMAIN calls' : calls'[l].op = "cams" => l < k
    BY <1>3, <2>1, <2>2, <2>4
  <2>6. \A l \in DOMAIN calls' : Loads(l)' => l <= k /\ k <= l
    BY <1>0, <1>4, <1>6, <2>1, <2>4 DEF Comes
  <2> QED  BY <1>3, <2>1, <2>2, <2>5, <2>6
<1>8. Loading'
  <2>1. PICK k \in DOMAIN calls' : calls'[k] = new
    BY <1>4 DEF Comes
  <2> QED  BY <1>1, <1>3, <2>1 DEF Loading, Loads
<1> QED  BY <1>7, <1>8 DEF ListGoes

(* The timer sends the list of the form.                                     *)
LEMMA ListSent ==
  ASSUME Types, ShutInv, LoadFirst, SavesCameras, visit # 0, visit' = visit
  PROVE  LoadFirst' /\ ListGoes'
<1> DEFINE new == Saving(CHOOSE list \in cam.due : TRUE)
<1>0. /\ CallsOK /\ CardOK /\ DOMAIN calls = 1..Len(calls)
      /\ Len(calls) \in Nat /\ cam \in CardState
  BY DEF Types, CallsOK, CardOK
<1>1. Left(DOMAIN calls, {new})
  BY <1>0, CamerasAssumption, CameraEffects DEF Sent
<1>2. cam.due = {cam.list}
  BY DEF SavesCameras, ShutInv
<1>3. new.op = "cams" /\ new.cams = cam.list
  <2>1. (CHOOSE list \in cam.due : TRUE) = cam.list
    BY <1>2
  <2> QED  BY <2>1 DEF Saving, Call
<1> HIDE DEF new
<1>4. cam'.list = cam.list
  BY <1>0 DEF SavesCameras, CardState
<1>5. PICK f : Comes(f, DOMAIN calls, {new})
  BY <1>0, <1>1, LeftComes
<1>6. ~Loading
  BY <1>2 DEF LoadFirst, Loading
<1>7. ~Loading'
  <2> SUFFICES ASSUME NEW k \in DOMAIN calls', Loads(k)' PROVE FALSE
    BY DEF Loading
  <2>1. calls'[k].op = "load" /\ calls'[k].visit = visit
    BY DEF Loads
  <2>2. f[k] \in DOMAIN calls /\ calls'[k] = calls[f[k]]
    BY <1>3, <1>5, <2>1 DEF Comes
  <2> QED  BY <1>6, <2>1, <2>2 DEF Loading, Loads
<1>8. \E k \in DOMAIN calls' :
        /\ calls'[k].op = "cams" /\ calls'[k].cams = cam'.list
        /\ \A l \in DOMAIN calls' : calls'[l].op = "cams" => l <= k
  <2>1. PICK k \in DOMAIN calls' : f[k] = Len(calls) + 1 /\ calls'[k] = new
    BY <1>5 DEF Comes
  <2>2. \A l \in DOMAIN calls' : f[l] <= f[k]
    BY <1>0, <1>5, <2>1 DEF Comes
  <2>3. \A l \in DOMAIN calls' : l <= k
    BY <1>5, <2>2 DEF Comes
  <2> QED  BY <1>3, <1>4, <2>1, <2>3
<1>9. LoadFirst'
  BY <1>7 DEF LoadFirst, Loading
<1>10. ListGoes'
  BY <1>8 DEF ListGoes
<1> QED  BY <1>9, <1>10

(* The list has reached the file; nothing was sent before it that has not.   *)
LEMMA ListSaved ==
  ASSUME Types, PortInv, WriteInv, LoadFirst, ListGoes, visit # 0,
         NEW i \in DOMAIN calls, SavesRecord(i), calls[i].op = "cams",
         record'.cams = calls[i].cams, visit' = visit, cam' = cam
  PROVE  LoadFirst' /\ ListGoes'
<1>0. /\ CallsOK /\ WriterInv /\ DOMAIN calls = 1..Len(calls)
      /\ Len(calls) \in Nat
  BY DEF Types, CallsOK, PortInv
<1>1. visit' = visit /\ cam' = cam
  OBVIOUS
<1>2. Left(DOMAIN calls \ {i}, {})
  BY <1>0, RemoveAtKeeps DEF SavesRecord, Replies, Kept
<1>3. PICK f : Comes(f, DOMAIN calls \ {i}, {})
  BY <1>0, <1>2, LeftComes
<1>4. \A j \in 1..(i - 1) : calls[j].op # "cams"
  BY <1>0 DEF WriteInv, WriterInv, SavesRecord
<1>5. \A k \in DOMAIN calls' :
        f[k] \in DOMAIN calls \ {i} /\ calls'[k] = calls[f[k]]
  BY <1>3 DEF Comes
<1>6. LoadFirst'
  <2> SUFFICES ASSUME NEW k \in DOMAIN calls', Loads(k)'
               PROVE  /\ ~cam'.on /\ cam'.due = {}
                      /\ \A l \in DOMAIN calls' : calls'[l].op = "cams" =>
                           l < k /\ calls'[k].at = "sent"
                      /\ \A l \in DOMAIN calls' : Loads(l)' => l = k
                      /\ calls'[k].at # "answered"
    BY DEF LoadFirst
  <2>1. f[k] \in DOMAIN calls /\ Loads(f[k]) /\ calls'[k] = calls[f[k]]
    BY <1>1, <1>5 DEF Loads
  <2>2. /\ ~cam.on /\ cam.due = {} /\ calls[f[k]].at = "sent"
        /\ \A j \in DOMAIN calls : calls[j].op = "cams" => j < f[k]
        /\ \A j \in DOMAIN calls : Loads(j) => j = f[k]
    BY <2>1 DEF LoadFirst
  <2>3. DOMAIN calls' \subseteq Int
    BY <1>2 DEF Left
  <2>4. ASSUME NEW l \in DOMAIN calls', calls'[l].op = "cams" PROVE l < k
    <3>1. f[l] < f[k]
      BY <1>5, <2>2, <2>4
    <3>2. l # k /\ f[l] <= f[k]
      BY <1>0, <1>5, <2>1, <3>1
    <3> QED  BY <1>3, <2>3, <3>2 DEF Comes
  <2>5. ASSUME NEW l \in DOMAIN calls', Loads(l)' PROVE l = k
    <3>1. f[l] = f[k]
      BY <1>1, <1>5, <2>2, <2>5 DEF Loads
    <3>2. f[l] <= f[k] /\ f[k] <= f[l]
      BY <1>0, <2>1, <3>1
    <3> QED  BY <1>3, <2>3, <3>2 DEF Comes
  <2> QED  BY <1>1, <2>1, <2>2, <2>4, <2>5
<1>7. ASSUME ~Loading', cam'.due = {}
      PROVE  \/ /\ \A k \in DOMAIN calls' : calls'[k].op # "cams"
                /\ record'.cams = cam'.list
             \/ \E k \in DOMAIN calls' :
                  /\ calls'[k].op = "cams" /\ calls'[k].cams = cam'.list
                  /\ \A l \in DOMAIN calls' : calls'[l].op = "cams" => l <= k
  <2>1. ~Loading
    <3> SUFFICES ASSUME NEW j \in DOMAIN calls, Loads(j) PROVE Loading'
      BY <1>7 DEF Loading
    <3>1. j # i
      BY DEF Loads
    <3>2. PICK k \in DOMAIN calls' : calls'[k] = calls[j]
      BY <1>3, <3>1 DEF Comes
    <3> QED  BY <1>1, <3>2 DEF Loading, Loads
  <2>2. PICK j \in DOMAIN calls :
          /\ calls[j].op = "cams" /\ calls[j].cams = cam.list
          /\ \A l \in DOMAIN calls : calls[l].op = "cams" => l <= j
    BY <1>1, <1>7, <2>1 DEF ListGoes
  <2>3. CASE j = i
    <3>1. \A l \in DOMAIN calls \ {i} : calls[l].op # "cams"
      BY <1>0, <1>4, <2>2, <2>3
    <3> QED  BY <1>1, <1>5, <2>2, <2>3, <3>1
  <2>4. CASE j # i
    <3>1. PICK k \in DOMAIN calls' : f[k] = j /\ calls'[k] = calls[j]
      BY <1>3, <2>4 DEF Comes
    <3>2. \A l \in DOMAIN calls' : calls'[l].op = "cams" => f[l] <= f[k]
      BY <1>5, <2>2, <3>1
    <3>3. \A l \in DOMAIN calls' : calls'[l].op = "cams" => l <= k
      BY <1>3, <3>2 DEF Comes
    <3> QED  BY <1>1, <2>2, <3>1, <3>3
  <2> QED  BY <2>3, <2>4
<1>8. ListGoes'
  BY <1>7 DEF ListGoes
<1> QED  BY <1>6, <1>8

(* The server reads the record for a visit after all that was sent before.   *)
LEMMA ListRead ==
  ASSUME Types, PortInv, WriteInv, LoadFirst, InTurn, visit # 0,
         NEW i \in DOMAIN calls, ReportsRecord(i), Loads(i),
         visit' = visit, cam' = cam
  PROVE  LoadFirst' /\ ListGoes'
<1> DEFINE c == [calls[i] EXCEPT !.copy = record, !.at = "answered"]
<1>0. /\ CallsOK /\ DOMAIN calls = 1..Len(calls) /\ Len(calls) \in Nat
      /\ record \in Record /\ calls[i] \in Request
      /\ WriterInv
  BY Typed DEF Types, CallsOK, RecordsOK, PortInv
<1>1. visit' = visit /\ cam' = cam /\ record' = record
  BY DEF ReportsRecord
<1>2. Left(DOMAIN calls \ {i}, {c})
  <2>1. [calls[i] EXCEPT !.copy = record] \in Request
    BY <1>0 DEF Request
  <2>2. c = [[calls[i] EXCEPT !.copy = record] EXCEPT !.at = "answered"]
    BY <1>0 DEF Request
  <2> QED  BY <1>0, <2>1, <2>2, AnsweredMoves DEF ReportsRecord, Moved
<1>3. c.op = "load" /\ c.visit = visit /\ c.copy = record
  BY <1>0 DEF Request, Loads
<1> HIDE DEF c
<1>4. PICK f : Comes(f, DOMAIN calls \ {i}, {c})
  BY <1>0, <1>2, LeftComes
<1>5. /\ \A j \in DOMAIN calls : calls[j].op # "cams"
      /\ \A j \in DOMAIN calls : Loads(j) => j = i
      /\ ~cam.on /\ cam.due = {}
  <2>1. /\ \A j \in DOMAIN calls : calls[j].op = "cams" => j < i
        /\ \A j \in DOMAIN calls : Loads(j) => j = i
        /\ ~cam.on /\ cam.due = {}
    BY DEF LoadFirst
  <2>2. \A j \in 1..(i - 1) : calls[j].at \in {"join", "answered"}
    BY DEF ReportsRecord, Begins, InTurn
  <2>3. \A j \in 1..(i - 1) : calls[j].op # "cams"
    BY <1>0, <2>2 DEF WriteInv, WriterInv
  <2> QED  BY <1>0, <2>1, <2>3
<1>6. \A k \in DOMAIN calls' :
        \/ f[k] \in DOMAIN calls \ {i} /\ calls'[k] = calls[f[k]]
        \/ f[k] = Len(calls) + 1 /\ calls'[k] = c
  BY <1>4 DEF Comes
<1>7. \A k \in DOMAIN calls' : Loads(k)' =>
        f[k] = Len(calls) + 1 /\ calls'[k] = c
  BY <1>1, <1>5, <1>6 DEF Loads
<1>8. \A k \in DOMAIN calls' : calls'[k].op # "cams"
  BY <1>3, <1>5, <1>6
<1>9. LoadFirst'
  <2>1. DOMAIN calls' \subseteq Int
    BY <1>2 DEF Left
  <2>2. ASSUME NEW k \in DOMAIN calls', NEW l \in DOMAIN calls',
               Loads(k)', Loads(l)'
        PROVE  l = k
    <3>1. f[l] <= f[k] /\ f[k] <= f[l]
      BY <1>0, <1>7, <2>2
    <3> QED  BY <1>4, <2>1, <3>1 DEF Comes
  <2> QED  BY <1>1, <1>3, <1>5, <1>7, <1>8, <2>2 DEF LoadFirst
<1>10. Loading'
  <2>1. PICK k \in DOMAIN calls' : calls'[k] = c
    BY <1>4 DEF Comes
  <2> QED  BY <1>1, <1>3, <2>1 DEF Loading, Loads
<1> QED  BY <1>9, <1>10 DEF ListGoes

(* The record of the visit brings the list.                                  *)
LEMMA ListCame ==
  ASSUME Types, WriteInv, LoadFirst, NEW i \in DOMAIN calls,
         RecordAnswered(i), Loads(i)
  PROVE  LoadFirst' /\ ListGoes'
<1>0. /\ CallsOK /\ CardOK /\ cam \in CardState
  BY DEF Types, CardOK
<1>1. /\ visit' = visit /\ visit # 0 /\ record' = record
      /\ cam' = [cam EXCEPT !.list = calls[i].copy.cams]
      /\ calls[i].at = "answered"
  BY DEF RecordAnswered, RecordArrives, ForThisVisit, page, Loads, Arrives,
         Arrived
<1>2. Left(DOMAIN calls \ {i}, {})
  BY <1>0, RemoveAtKeeps DEF RecordAnswered, RecordArrives, Kept
<1>3. PICK f : Comes(f, DOMAIN calls \ {i}, {})
  BY <1>0, <1>2, LeftComes
<1>4. \A k \in DOMAIN calls' :
        f[k] \in DOMAIN calls \ {i} /\ calls'[k] = calls[f[k]]
  BY <1>3 DEF Comes
<1>5. /\ \A j \in DOMAIN calls : calls[j].op # "cams"
      /\ \A j \in DOMAIN calls : Loads(j) => j = i
      /\ calls[i].copy.cams = record.cams
  BY <1>1 DEF LoadFirst
<1>6. cam'.list = record'.cams
  BY <1>0, <1>1, <1>5 DEF CardState
<1>7. \A k \in DOMAIN calls' : ~Loads(k)' /\ calls'[k].op # "cams"
  BY <1>1, <1>4, <1>5 DEF Loads
<1> QED  BY <1>6, <1>7 DEF LoadFirst, ListGoes

(* What a step does to the list, the timer and the switch of the form.       *)
LEMMA CardMoves ==
  ASSUME Types, [Next]_vars, ~LeavesPage(activeRef)
  PROVE  /\ \/ MayEditCameras /\ CardUser
            \/ cam'.on = cam.on
         /\ \/ MayEditCameras /\ CardUser
            \/ SavesCameras \/ \E i \in DOMAIN calls : CamerasListed(i)
            \/ cam'.due = cam.due
         /\ \/ SavesCameras /\ cam'.due = {}
            \/ \E i \in DOMAIN calls : /\ RecordAnswered(i) /\ Loads(i)
                                       /\ visit # 0 /\ cam'.due = cam.due
            \/ cam'.due = {cam'.list}
            \/ cam'.due = cam.due /\ cam'.list = cam.list
<1>0. CallsOK /\ CardOK /\ cam \in CardState
  BY DEF Types, CardOK
<1> DEFINE good == \/ cam'.due = {cam'.list}
                   \/ cam'.due = cam.due /\ cam'.list = cam.list
<1>1. CASE UNCHANGED card
  BY <1>1 DEF card
<1>2. CASE SavesCameras
  <2>1. cam'.due = {} /\ cam'.on = cam.on
    BY <1>0, <1>2 DEF SavesCameras, CardState
  <2> QED  BY <1>2, <2>1
<1>3. ASSUME NEW d \in Devices, DeviceChanges(d)
      PROVE  cam'.on = cam.on /\ cam'.due = cam.due /\ cam'.list = cam.list
  BY <1>0, <1>3 DEF DeviceChanges, CardState
<1>4. ASSUME NEW i \in DOMAIN calls, RecordAnswered(i)
      PROVE  /\ cam'.on = cam.on /\ cam'.due = cam.due
             /\ cam'.list = cam.list \/ (Loads(i) /\ visit # 0)
  <2>1. /\ visit # 0 /\ calls[i].visit = visit
        /\ cam' = IF calls[i].op = "load"
                  THEN [cam EXCEPT !.list = calls[i].copy.cams] ELSE cam
    BY <1>4 DEF RecordAnswered, RecordArrives, ForThisVisit
  <2> QED  BY <1>0, <2>1 DEF CardState, Loads
<1>5. ASSUME NEW i \in DOMAIN calls, CamerasListed(i)
      PROVE  good /\ cam'.on = cam.on
  <2>1. CASE Listed(i) = cam.list
    <3>1. cam' = [cam EXCEPT !.avail = calls[i].found, !.loading = FALSE]
      BY <1>5, <2>1 DEF CamerasListed
    <3> QED  BY <1>0, <3>1 DEF CardState
  <2>2. CASE Listed(i) # cam.list
    <3>1. PICK list : list = Listed(i)
      OBVIOUS
    <3>2. cam' = [[cam EXCEPT !.list = list, !.due = {list}]
                    EXCEPT !.avail = calls[i].found, !.loading = FALSE]
      BY <1>5, <2>2, <3>1 DEF CamerasListed, Changed
    <3> QED  BY <1>0, <3>2 DEF CardState
  <2> QED  BY <2>1, <2>2
<1>6. ASSUME CardUser PROVE good
  <2>1. CASE TurnOn \/ TurnOff \/ Rescan
    BY <1>0, <2>1 DEF TurnOn, TurnOff, Rescan, CardState
  <2>2. ASSUME NEW list, Edits(list) PROVE good
    BY <1>0, <2>2 DEF Edits, Changed, CardState
  <2>3. ASSUME NEW c \in cam.avail, PickCamera(c) PROVE good
    BY <1>0, <2>3 DEF PickCamera, CardState
  <2>4. CASE AddCamera
    <3>1. PICK list :
            cam' = [Changed(list) EXCEPT !.pick = NoIndex, !.edits = @ + 1]
      BY <2>4 DEF AddCamera
    <3> QED  BY <1>0, <3>1 DEF Changed, CardState
  <2> QED
    BY <1>6, <2>1, <2>2, <2>3, <2>4 DEF CardUser, RemoveCamera, UpdateCamera
<1>7. CASE MayEditCameras /\ CardUser
  BY <1>6, <1>7
<1>8. CASE \E i \in DOMAIN calls : RecordAnswered(i)
  BY <1>4, <1>8
<1>9. CASE \E i \in DOMAIN calls : CamerasListed(i)
  BY <1>5, <1>9
<1>10. CASE \E d \in Devices : DeviceChanges(d)
  BY <1>3, <1>10
<1> HIDE DEF good
<1> QED  BY <1>1, <1>2, <1>7, <1>8, <1>9, <1>10, CardChanges

(* Nobody leaves or enters the page but by leaving and by mounting it.       *)
LEMMA VisitChanges ==
  ASSUME [Next]_vars
  PROVE  Mount \/ LeavesPage(activeRef) \/ visit' = visit
BY PageChanges DEF ClickStart, StartAnswered, StatusAnswered, page

(* A page that is gone has no cameras on, and the timer has the newest       *)
(* list.                                                                     *)
LEMMA ShutStep ==
  ASSUME Types, ShutInv, LoadFirst, EnumerateInv, [Next]_vars
  PROVE  ShutInv'
<1>0. cam \in CardState
  BY DEF Types, CardOK
<1>1. CASE LeavesPage(activeRef)
  <2>1. ~cam'.on /\ cam'.due = {}
    BY <1>1 DEF LeavesPage, NoCard
  <2> QED  BY <2>1 DEF ShutInv
<1>2. CASE ~LeavesPage(activeRef)
  <2>1. cam'.due \in {{}, {cam'.list}}
    <3>1. ASSUME NEW i \in DOMAIN calls, Loads(i), visit # 0
          PROVE  cam.due = {}
      BY <3>1 DEF LoadFirst
    <3> QED  BY <1>2, <3>1, CardMoves DEF ShutInv
  <2>2. ASSUME visit' = 0 PROVE ~cam'.on /\ cam'.due = {}
    <3>1. visit = 0
      <4>1. Mount => visit' # 0
        BY DEF Mount, Types, PageOK
      <4> QED  BY <1>2, <2>2, <4>1, VisitChanges
    <3>2. ~MayEditCameras
      BY <3>1 DEF MayEditCameras, Uncovered
    <3>3. ~cam.on /\ cam.due = {}
      BY <3>1 DEF ShutInv
    <3>4. cam'.on = cam.on
      BY <1>2, <3>2, CardMoves
    <3>5. \A i \in DOMAIN calls : ~CamerasListed(i)
      BY <3>3 DEF CamerasListed, EnumerateInv, Enumerates
    <3>6. cam'.due = {}
      BY <1>2, <3>2, <3>3, <3>5, CardMoves DEF SavesCameras
    <3> QED  BY <3>3, <3>4, <3>6
  <2> QED  BY <2>1, <2>2 DEF ShutInv
<1> QED  BY <1>1, <1>2

(* A step that goes on with a list or a load leaves the card alone.          *)
LEMMA CardQuiet ==
  ASSUME Types, [Next]_vars, NEW i \in DOMAIN calls,
         calls[i].op \in {"cams", "load"}, ~RecordAnswered(i),
         ~LeavesPage(activeRef),
         \A k \in DOMAIN calls' : calls'[k] # calls[i]
  PROVE  cam' = cam
<1>0. CallsOK /\ CardOK /\ CamerasAssumption /\ calls' # calls
  BY CamerasAssumption DEF Types
<1>1. ASSUME NEW K \in SUBSET DOMAIN calls, NEW N, Left(K, N)
      PROVE  i \notin K
  <2>1. PICK f : Comes(f, K, N)
    BY <1>0, <1>1, LeftComes
  <2> QED  BY <2>1 DEF Comes
<1>2. \A j \in DOMAIN calls : j # i => ~Kept(DOMAIN calls \ {j})
  BY <1>1 DEF Kept
<1>3. \A c : ~Sent(c)
  BY <1>1 DEF Sent
<1>4. \A j \in DOMAIN calls : ~RecordAnswered(j)
  BY <1>0, <1>2, RemoveAtKeeps DEF RecordAnswered, RecordArrives
<1>5. \A j \in DOMAIN calls : ~CamerasListed(j)
  <2>1. ~CamerasListed(i)
    BY DEF CamerasListed
  <2> QED  BY <1>0, <1>2, <2>1, CameraEffects
<1>6. ~SavesCameras /\ ~TurnOn /\ ~Rescan /\ ~TurnOff
  <2>1. ~Kept({j \in DOMAIN calls : calls[j].op # "cameras"})
    BY <1>1 DEF Kept
  <2> QED  BY <1>0, <1>3, <2>1, CameraEffects
<1>7. \A d \in Devices : ~DeviceChanges(d)
  BY <1>0, <1>3, CameraEffects DEF DeviceChanges
<1>8. ~CardUser
  BY <1>0, <1>6 DEF CardUser, AddCamera, PickCamera, RemoveCamera,
                    UpdateCamera, Edits
<1> QED  BY <1>4, <1>5, <1>6, <1>7, <1>8, CardChanges DEF card

(* The invariant of the list.                                                *)
LEMMA ListStep ==
  ASSUME Types, PortInv, SerialInv, WriteInv, ListInv, EnumerateInv, InTurn,
         [Next]_vars
  PROVE  ListInv'
<1>0. /\ ShutInv /\ LoadFirst /\ ListGoes /\ ShutInv' /\ CallsOK
      /\ WriterInv /\ DOMAIN calls = 1..Len(calls) /\ Len(calls) \in Nat
  BY ShutStep DEF ListInv, Types, PortInv, CallsOK
<1>1. CASE visit' = 0
  BY <1>0, <1>1 DEF ListInv, LoadFirst, ListGoes
<1>2. CASE Mount
  BY <1>0, <1>2, ListMount DEF ListInv
<1>3. ASSUME visit # 0, visit' = visit, ~LeavesPage(activeRef)
      PROVE  ListInv'
  <2>0. ~Mount
    BY <1>3 DEF Mount
  <2>1. CASE SavesCameras
    BY <1>0, <1>3, <2>1, ListSent DEF ListInv
  <2>2. ASSUME NEW i \in DOMAIN calls, SavesRecord(i), calls[i].op = "cams"
        PROVE  ListInv'
    <3>1. record'.cams = calls[i].cams
      BY <2>2 DEF WriteInv, SavesRecord
    <3>2. \A j \in DOMAIN calls \ {i} : calls[j].at # "write"
      BY <1>0, <2>2 DEF WriteInv, SavesRecord
    <3>3. PICK f : Comes(f, DOMAIN calls \ {i}, {})
      BY <1>0, <2>2, RemoveAtKeeps, LeftComes DEF SavesRecord, Replies, Kept
    <3>4. \A k \in DOMAIN calls' : calls'[k] # calls[i]
      BY <2>2, <3>2, <3>3 DEF Comes, SavesRecord
    <3>5. ~RecordAnswered(i)
      BY <2>2 DEF RecordAnswered, RecordArrives, Arrives
    <3>6. cam' = cam
      BY <1>3, <2>2, <3>4, <3>5, CardQuiet
    <3> QED  BY <1>0, <1>3, <2>2, <3>1, <3>6, ListSaved DEF ListInv
  <2>3. ASSUME NEW i \in DOMAIN calls, ReportsRecord(i), Loads(i)
        PROVE  ListInv'
    <3>0. calls[i] \in Request /\ record \in Record /\ calls[i].at = "sent"
      BY <1>0, <2>3, Typed DEF Types, RecordsOK, ReportsRecord, Begins
    <3>1. [calls[i] EXCEPT !.copy = record] \in Request
      BY <3>0 DEF Request
    <3>2. PICK c : /\ c.at = "answered"
                   /\ Left(DOMAIN calls \ {i}, {c})
      <4>1. PICK b \in Request : b = [calls[i] EXCEPT !.copy = record]
        BY <3>1
      <4>2. calls' = Answered(i, b)
        BY <2>3, <4>1 DEF ReportsRecord
      <4>3. Moved(i, [b EXCEPT !.at = "answered"])
        BY <1>0, <4>2, AnsweredMoves
      <4>4. [b EXCEPT !.at = "answered"].at = "answered"
        BY DEF Request
      <4> QED  BY <4>3, <4>4 DEF Moved
    <3>3. PICK f : Comes(f, DOMAIN calls \ {i}, {c})
      BY <1>0, <3>2, LeftComes
    <3>4. \A j \in DOMAIN calls \ {i} : ~Loads(j)
      BY <1>0, <1>3, <2>3 DEF LoadFirst
    <3>5. \A k \in DOMAIN calls' : calls'[k] # calls[i]
      BY <2>3, <3>0, <3>2, <3>3, <3>4 DEF Comes, Loads
    <3>6. ~RecordAnswered(i)
      BY <3>0 DEF RecordAnswered, RecordArrives, Arrives, Arrived
    <3>7. cam' = cam
      BY <1>3, <2>3, <3>5, <3>6, CardQuiet DEF Loads
    <3> QED  BY <1>0, <1>3, <2>3, <3>7, ListRead DEF ListInv
  <2>4. ASSUME NEW i \in DOMAIN calls, RecordAnswered(i), Loads(i)
        PROVE  ListInv'
    BY <1>0, <2>4, ListCame DEF ListInv
  <2>5. ASSUME ~SavesCameras,
               \A i \in DOMAIN calls : calls[i].op = "cams" => ~SavesRecord(i),
               \A i \in DOMAIN calls : Loads(i) =>
                 ~RecordAnswered(i) /\ ~ReportsRecord(i)
        PROVE  ListInv'
    <3>1. Same(ForList)
      BY <1>3, <2>0, <2>5, SameForList
    <3>2. record'.cams = record.cams
      BY <2>5, RecordCams
    <3>3. ASSUME Loading PROVE cam'.on = cam.on /\ cam'.due = cam.due
      <4>1. PICK i \in DOMAIN calls : Loads(i)
        BY <3>3 DEF Loading
      <4>2. ~MayEditCameras
        BY <4>1 DEF MayEditCameras, InTurn, Loads
      <4>3. ~cam.on
        BY <1>0, <1>3, <4>1 DEF LoadFirst
      <4>4. \A j \in DOMAIN calls : ~CamerasListed(j)
        BY <4>3 DEF CamerasListed, EnumerateInv, Enumerates
      <4> QED  BY <1>3, <2>5, <4>2, <4>4, CardMoves
    <3>4. \/ cam'.due = {cam'.list}
          \/ cam'.due = cam.due /\ cam'.list = cam.list
      BY <1>3, <2>5, CardMoves
    <3>5. LoadFirst' /\ ListGoes'
      BY <1>0, <1>3, <3>1, <3>2, <3>3, <3>4, SameList
    <3> QED  BY <1>0, <3>5 DEF ListInv
  <2> QED  BY <2>1, <2>2, <2>3, <2>4, <2>5
<1> QED  BY <1>1, <1>2, <1>3, VisitChanges DEF LeavesPage

(* A camera that is plugged in takes the index it has now.                   *)
LEMMA RemappedNow ==
  ASSUME plugged \subseteq Devices, CamerasAssumption, NEW c \in Camera,
         NEW found \in SUBSET Now
  PROVE  /\ Remapped(c, found).device = c.device
         /\ \A f \in found : f.device = c.device =>
              Remapped(c, found).index = Index(c.device)
<1> DEFINE now == {f \in found : f.device # NoDevice /\ f.device = c.device}
<1>1. \A f \in now : f.index = Index(c.device)
  BY DEF Now
<1>2. ASSUME NEW f \in found, f.device = c.device PROVE now # {}
  BY <1>2 DEF Devices, NoDevice, CamerasAssumption, Now
<1>3. CASE now = {}
  <2>1. Remapped(c, found) = c
    BY <1>3 DEF Remapped
  <2> QED  BY <1>2, <1>3, <2>1
<1>4. CASE now # {}
  <2>1. PICK f \in now : f = CHOOSE g \in now : TRUE
    BY <1>4
  <2>2. Remapped(c, found) = [c EXCEPT !.index = f.index]
    BY <1>4, <2>1 DEF Remapped
  <2> QED  BY <1>1, <2>1, <2>2 DEF Camera
<1> QED  BY <1>3, <1>4

(* Whoever is sent last to look sees every cable.                            *)
LEMMA IndexAsked ==
  ASSUME CallsOK, EnumerateInv, cam'.on,
         Left(DOMAIN calls, {Enumeration(plugged')})
  PROVE  IndexInv'
<1> DEFINE new == Enumeration(plugged')
<1>0. DOMAIN calls = 1..Len(calls) /\ Len(calls) \in Nat
      /\ DOMAIN calls' \subseteq Int
  BY DEF CallsOK, Left
<1>1. new.op = "cameras" /\ new.at = "sent" /\ new.devices = plugged'
  BY DEF Enumeration, Call
<1> HIDE DEF new
<1>2. PICK f : Comes(f, DOMAIN calls, {new})
  BY LeftComes DEF new
<1>3. PICK n \in DOMAIN calls' : f[n] = Len(calls) + 1 /\ calls'[n] = new
  BY <1>2 DEF Comes
<1>4. \A k \in DOMAIN calls' : f[k] <= f[n]
  BY <1>0, <1>2, <1>3 DEF Comes
<1>5. \A k \in DOMAIN calls' : k <= n
  BY <1>2, <1>4 DEF Comes
<1>6. EnumerateInv'
  <2> SUFFICES ASSUME NEW k \in DOMAIN calls', calls'[k].op = "cameras"
               PROVE  calls'[k].at \in {"sent", "answered"}
    BY DEF EnumerateInv, Enumerates
  <2>1. \/ f[k] \in DOMAIN calls /\ calls'[k] = calls[f[k]]
        \/ calls'[k] = new
    BY <1>2 DEF Comes
  <2> QED  BY <1>1, <2>1 DEF EnumerateInv, Enumerates
<1>7. AskedInv'
  <2> SUFFICES ASSUME NEW k \in DOMAIN calls',
                      \A l \in DOMAIN calls' : Asking(l)' => l <= k
               PROVE  calls'[k].devices = plugged'
    BY DEF AskedInv
  <2>1. Asking(n)'
    BY <1>1, <1>3 DEF Asking, Enumerates
  <2>2. k = n
    BY <1>0, <1>5, <2>1
  <2> QED  BY <1>1, <1>3, <2>2
<1>8. FoundInv'
  BY <1>1, <1>3 DEF FoundInv, Enumerates
<1>9. ShownInv'
  BY <1>1, <1>3 DEF ShownInv, Enumerates
<1> QED  BY <1>6, <1>7, <1>8, <1>9 DEF IndexInv

(* The server lists the cameras for the oldest that asks.                    *)
LEMMA IndexTold ==
  ASSUME Types, InTurn, EnumerateInv, AskedInv, FoundInv,
         NEW i \in DOMAIN calls, ListsCameras(i)
  PROVE  IndexInv'
<1>0. /\ CallsOK /\ CardOK /\ DOMAIN calls = 1..Len(calls)
      /\ Len(calls) \in Nat /\ calls[i] \in Request /\ CamerasAssumption
      /\ cam' = cam /\ plugged' = plugged
      /\ calls[i].op = "cameras" /\ calls[i].at = "sent" /\ cam.on
      /\ \A j \in 1..(i - 1) : calls[j].at \in {"join", "answered"}
  BY Typed, CamerasAssumption
  DEF Types, CallsOK, ListsCameras, card, Begins, InTurn, EnumerateInv,
      Enumerates
<1>12. PICK list \in FoundBy(i) :
         Moved(i, [calls[i] EXCEPT !.found = list, !.at = "answered"])
  BY <1>0, CameraEffects
<1> DEFINE c == [calls[i] EXCEPT !.found = list, !.at = "answered"]
<1>1. Left(DOMAIN calls \ {i}, {c})
  BY <1>12 DEF Moved
<1>2. c.op = "cameras" /\ c.at = "answered" /\ c.found = list
  BY <1>0 DEF Request
<1> HIDE DEF c
<1>3. PICK f : Comes(f, DOMAIN calls \ {i}, {c})
  BY <1>0, <1>1, LeftComes
<1>4. DOMAIN calls' \subseteq Int
  BY <1>1 DEF Left
<1>5. PICK n \in DOMAIN calls' : f[n] = Len(calls) + 1 /\ calls'[n] = c
  BY <1>3 DEF Comes
<1>6. \A k \in DOMAIN calls' :
        \/ f[k] \in DOMAIN calls \ {i} /\ calls'[k] = calls[f[k]]
        \/ f[k] = Len(calls) + 1 /\ calls'[k] = c
  BY <1>3 DEF Comes
<1>7. \A k \in DOMAIN calls' : k <= n
  <2>1. \A k \in DOMAIN calls' : f[k] <= f[n]
    BY <1>0, <1>5, <1>6
  <2> QED  BY <1>3, <2>1 DEF Comes
<1>8. EnumerateInv'
  BY <1>0, <1>2, <1>6 DEF EnumerateInv, Enumerates
<1>9. AskedInv'
  <2> SUFFICES ASSUME NEW k \in DOMAIN calls', Asking(k)',
                      \A l \in DOMAIN calls' : Asking(l)' => l <= k
               PROVE  calls'[k].devices = plugged
    BY <1>0 DEF AskedInv
  <2>1. f[k] \in DOMAIN calls \ {i} /\ calls'[k] = calls[f[k]]
    BY <1>2, <1>6 DEF Asking
  <2>2. Asking(f[k])
    BY <2>1 DEF Asking, Enumerates
  <2>3. ASSUME NEW j \in DOMAIN calls, Asking(j) PROVE j <= f[k]
    <3>1. CASE j = i
      <4>1. ~(f[k] < i)
        BY <1>0, <2>1, <2>2 DEF Asking
      <4> QED  BY <1>0, <2>1, <3>1, <4>1
    <3>2. CASE j # i
      <4>1. PICK l \in DOMAIN calls' : f[l] = j /\ calls'[l] = calls[j]
        BY <1>3, <3>2 DEF Comes
      <4>2. l <= k
        BY <2>3, <4>1 DEF Asking, Enumerates
      <4>3. l = k \/ f[l] < f[k]
        BY <1>3, <1>4, <4>2 DEF Comes
      <4> QED  BY <1>0, <2>1, <4>1, <4>3
    <3> QED  BY <3>1, <3>2
  <2> QED  BY <2>1, <2>2, <2>3 DEF AskedInv
<1>10. FoundInv'
  <2> SUFFICES ASSUME NEW k \in DOMAIN calls',
                      \A l \in DOMAIN calls' : Enumerates(l)' =>
                        calls'[l].at = "answered" /\ l <= k
               PROVE  calls'[k].found \subseteq Now
    <3>1. Now' = Now
      BY <1>0 DEF Now, Index
    <3> QED  BY <3>1 DEF FoundInv
  <2>1. k = n
    BY <1>2, <1>4, <1>5, <1>7 DEF Enumerates
  <2>2. \A j \in DOMAIN calls : Asking(j) => j = i
    <3> SUFFICES ASSUME NEW j \in DOMAIN calls \ {i}, Asking(j) PROVE FALSE
      OBVIOUS
    <3>1. PICK l \in DOMAIN calls' : calls'[l] = calls[j]
      BY <1>3 DEF Comes
    <3> QED  BY <3>1 DEF Asking, Enumerates
  <2>3. calls[i].devices = plugged
    <3>1. Asking(i) /\ \A j \in DOMAIN calls : Asking(j) => j <= i
      BY <1>0, <2>2 DEF Asking, Enumerates
    <3> QED  BY <3>1 DEF AskedInv
  <2>4. list \subseteq Now
    BY <1>12, <2>3 DEF FoundBy, Now
  <2> QED  BY <1>2, <1>5, <2>1, <2>4
<1>11. ShownInv'
  BY <1>2, <1>5 DEF ShownInv, Enumerates
<1> QED  BY <1>8, <1>9, <1>10, <1>11 DEF IndexInv

(* The newest list brings the index that every camera has now.               *)
LEMMA IndexCome ==
  ASSUME Types, InTurn, EnumerateInv, AskedInv, FoundInv,
         NEW i \in DOMAIN calls, CamerasListed(i)
  PROVE  IndexInv'
<1>0. /\ CallsOK /\ CardOK /\ DOMAIN calls = 1..Len(calls)
      /\ Len(calls) \in Nat /\ cam \in CardState /\ plugged \subseteq Devices
      /\ plugged' = plugged /\ CamerasAssumption
      /\ calls[i].op = "cameras" /\ calls[i].at = "answered" /\ cam.on
      /\ \A j \in 1..(i - 1) : calls[j].at # "answered"
  BY CamerasAssumption
  DEF Types, CallsOK, CardOK, CamerasListed, Arrived, InTurn, EnumerateInv,
      Enumerates
<1>1. Left(DOMAIN calls \ {i}, {})
  BY <1>0, CameraEffects DEF Kept
<1>2. PICK f : Comes(f, DOMAIN calls \ {i}, {})
  BY <1>0, <1>1, LeftComes
<1>3. DOMAIN calls' \subseteq Int
  BY <1>1 DEF Left
<1>4. \A k \in DOMAIN calls' :
        f[k] \in DOMAIN calls \ {i} /\ calls'[k] = calls[f[k]]
  BY <1>2 DEF Comes
<1>5. \A j \in DOMAIN calls \ {i} :
        \E k \in DOMAIN calls' : f[k] = j /\ calls'[k] = calls[j]
  BY <1>2 DEF Comes
<1>6. \A k, l \in DOMAIN calls' : l <= k => f[l] <= f[k]
  <2>1. f \in [DOMAIN calls' -> Int]
        /\ \A k, l \in DOMAIN calls' : k < l => f[k] < f[l]
    BY <1>2 DEF Comes
  <2> QED  BY <1>3, <2>1
<1>7. /\ cam'.on = cam.on /\ cam'.avail = calls[i].found
      /\ cam'.list = Listed(i)
  <2>1. PICK list : list = Listed(i)
    OBVIOUS
  <2>2. cam' = [(IF list = cam.list THEN cam
                 ELSE [cam EXCEPT !.list = list, !.due = {list}])
                  EXCEPT !.avail = calls[i].found, !.loading = FALSE]
    BY <2>1 DEF CamerasListed, Changed
  <2>3. CASE list = cam.list
    BY <1>0, <2>1, <2>2, <2>3 DEF CardState
  <2>4. CASE list # cam.list
    BY <1>0, <2>1, <2>2, <2>4 DEF CardState
  <2> QED  BY <2>3, <2>4
<1>8. EnumerateInv'
  BY <1>0, <1>4, <1>7 DEF EnumerateInv, Enumerates
<1>9. AskedInv'
  <2> SUFFICES ASSUME NEW k \in DOMAIN calls', Asking(k)',
                      \A l \in DOMAIN calls' : Asking(l)' => l <= k
               PROVE  calls'[k].devices = plugged
    BY <1>0 DEF AskedInv
  <2>1. f[k] \in DOMAIN calls /\ calls'[k] = calls[f[k]]
    BY <1>4
  <2>2. Asking(f[k])
    BY <2>1 DEF Asking, Enumerates
  <2>3. ASSUME NEW j \in DOMAIN calls, Asking(j) PROVE j <= f[k]
    <3>1. j # i
      BY <1>0, <2>3 DEF Asking
    <3>2. PICK l \in DOMAIN calls' : f[l] = j /\ calls'[l] = calls[j]
      BY <1>5, <3>1
    <3>3. l <= k
      BY <2>3, <3>2 DEF Asking, Enumerates
    <3> QED  BY <1>6, <3>2, <3>3
  <2> QED  BY <2>1, <2>2, <2>3 DEF AskedInv
<1>10. Now' = Now
  BY <1>0 DEF Now, Index
<1>11. FoundInv'
  <2> SUFFICES ASSUME NEW k \in DOMAIN calls', Enumerates(k)',
                      \A l \in DOMAIN calls' : Enumerates(l)' =>
                        calls'[l].at = "answered" /\ l <= k
               PROVE  calls'[k].found \subseteq Now
    BY <1>10 DEF FoundInv
  <2>1. f[k] \in DOMAIN calls \ {i} /\ calls'[k] = calls[f[k]]
        /\ calls'[k].at = "answered"
    BY <1>4
  <2>2. Enumerates(f[k])
    BY <2>1 DEF Enumerates
  <2>3. ASSUME NEW j \in DOMAIN calls, Enumerates(j)
        PROVE  calls[j].at = "answered" /\ j <= f[k]
    <3>1. CASE j = i
      <4>1. ~(f[k] < i)
        BY <1>0, <2>1
      <4> QED  BY <1>0, <2>1, <3>1, <4>1
    <3>2. CASE j # i
      <4>1. PICK l \in DOMAIN calls' : f[l] = j /\ calls'[l] = calls[j]
        BY <1>5, <3>2
      <4>2. l <= k /\ calls'[l].at = "answered"
        BY <2>3, <4>1 DEF Enumerates
      <4> QED  BY <1>6, <4>1, <4>2
    <3> QED  BY <3>1, <3>2
  <2> QED  BY <2>1, <2>2, <2>3 DEF FoundInv
<1>12. ASSUME \A k \in DOMAIN calls' : ~Enumerates(k)'
       PROVE  /\ cam'.avail \subseteq Now
              /\ \A k \in DOMAIN cam'.list : \A g \in cam'.avail :
                   g.device = cam'.list[k].device =>
                     cam'.list[k].index = Index(cam'.list[k].device)
  <2>1. \A j \in DOMAIN calls \ {i} : ~Enumerates(j)
    BY <1>5, <1>12 DEF Enumerates
  <2>2. calls[i].found \subseteq Now
    <3>1. \A j \in DOMAIN calls :
            Enumerates(j) => calls[j].at = "answered" /\ j <= i
      BY <1>0, <2>1
    <3> QED  BY <1>0, <3>1 DEF FoundInv, Enumerates
  <2>3. DOMAIN cam'.list = DOMAIN cam.list
    BY <1>7 DEF Listed
  <2>4. ASSUME NEW k \in DOMAIN cam.list
        PROVE  /\ cam.list[k] \in Camera
               /\ cam'.list[k] = Remapped(cam.list[k], calls[i].found)
    <3>1. Listed(i)[k] = Remapped(cam.list[k], calls[i].found)
      BY DEF Listed
    <3>2. cam.list[k] \in Camera
      BY <1>0 DEF CardState
    <3> QED  BY <1>7, <3>1, <3>2
  <2> QED  BY <1>0, <1>7, <2>2, <2>3, <2>4, RemappedNow
<1>13. ShownInv'
  <2>1. \A d : Index(d)' = Index(d)
    BY <1>0 DEF Index
  <2> QED  BY <1>0, <1>10, <1>12, <2>1 DEF ShownInv, RightNow
<1> QED  BY <1>8, <1>9, <1>11, <1>13 DEF IndexInv

(* Nobody looks when the cameras are off.                                    *)
LEMMA IndexOff ==
  ASSUME ~cam'.on, \A k \in DOMAIN calls' : calls'[k].op # "cameras"
  PROVE  IndexInv'
BY DEF IndexInv, EnumerateInv, AskedInv, FoundInv, ShownInv, Asking,
       Enumerates

(* Nobody looks, and no cable moves.                                         *)
LEMMA IndexSame ==
  ASSUME Types, [Next]_vars, EnumerateInv, AskedInv, FoundInv, Same(ForIndex),
         plugged' = plugged, cam'.on = cam.on
  PROVE  /\ EnumerateInv' /\ AskedInv' /\ FoundInv'
         /\ (\A k \in DOMAIN calls' : ~Enumerates(k)') =>
               \A i \in DOMAIN calls : ~Enumerates(i)
<1>0. CallsOK /\ CallsOK'
  BY TypesStep DEF Types
<1>1. /\ \A i \in DOMAIN calls : calls[i] \in Request /\ i \in Int
      /\ \A k \in DOMAIN calls' : calls'[k] \in Request /\ k \in Int
  BY <1>0 DEF CallsOK
<1>2. PICK f : Tracks(f, ForIndex)
  BY DEF Same
<1>3. \A k \in DOMAIN calls' : Enumerates(k)' =>
        /\ f[k] \in DOMAIN calls /\ Enumerates(f[k])
        /\ calls'[k].at = calls[f[k]].at
        /\ calls'[k].devices = calls[f[k]].devices
        /\ calls'[k].found = calls[f[k]].found
  <2> TAKE k \in DOMAIN calls'
  <2> HAVE Enumerates(k)'
  <2>1. calls'[k] \in ForIndex /\ calls'[k].op = "cameras"
    BY <1>1 DEF ForIndex, Enumerates
  <2>2. f[k] \in DOMAIN calls /\ Alike(calls'[k], calls[f[k]])
    BY <1>2, <2>1 DEF Tracks
  <2> QED  BY <2>1, <2>2 DEF Alike, Enumerates
<1>4. \A i \in DOMAIN calls : Enumerates(i) =>
        \E k \in DOMAIN calls' : /\ f[k] = i /\ Enumerates(k)'
                                 /\ calls'[k].at = calls[i].at
  <2> TAKE i \in DOMAIN calls
  <2> HAVE Enumerates(i)
  <2>1. calls[i] \in ForIndex /\ calls[i].op = "cameras"
    BY <1>1 DEF ForIndex, Enumerates
  <2>2. PICK k \in DOMAIN calls' : f[k] = i /\ calls'[k] \in ForIndex
    BY <1>2, <2>1 DEF Tracks
  <2>3. Alike(calls'[k], calls[i])
    BY <1>2, <2>2 DEF Tracks
  <2> QED  BY <2>1, <2>2, <2>3 DEF Alike, Enumerates
<1>5. \A k, l \in DOMAIN calls' : l <= k => f[l] <= f[k]
  <2>1. f \in [DOMAIN calls' -> Int]
        /\ \A k, l \in DOMAIN calls' : k < l => f[k] < f[l]
    BY <1>2 DEF Tracks
  <2> QED  BY <1>1, <2>1
<1>6. EnumerateInv'
  BY <1>3 DEF EnumerateInv
<1>7. AskedInv'
  <2> SUFFICES ASSUME NEW k \in DOMAIN calls', Asking(k)',
                      \A l \in DOMAIN calls' : Asking(l)' => l <= k
               PROVE  calls'[k].devices = plugged
    BY DEF AskedInv
  <2>1. /\ f[k] \in DOMAIN calls /\ Asking(f[k])
        /\ calls'[k].devices = calls[f[k]].devices
    BY <1>3 DEF Asking
  <2>2. ASSUME NEW j \in DOMAIN calls, Asking(j) PROVE j <= f[k]
    <3>1. PICK l \in DOMAIN calls' : f[l] = j /\ Asking(l)'
      BY <1>4, <2>2 DEF Asking
    <3> QED  BY <1>5, <3>1
  <2> QED  BY <2>1, <2>2 DEF AskedInv
<1>8. FoundInv'
  <2> SUFFICES ASSUME NEW k \in DOMAIN calls', Enumerates(k)',
                      \A l \in DOMAIN calls' : Enumerates(l)' =>
                        calls'[l].at = "answered" /\ l <= k
               PROVE  calls'[k].found \subseteq Now
    <3>1. Now' = Now
      BY DEF Now, Index
    <3> QED  BY <3>1 DEF FoundInv
  <2>1. /\ f[k] \in DOMAIN calls /\ Enumerates(f[k])
        /\ calls'[k].found = calls[f[k]].found
    BY <1>3
  <2>2. ASSUME NEW j \in DOMAIN calls, Enumerates(j)
        PROVE  calls[j].at = "answered" /\ j <= f[k]
    <3>1. PICK l \in DOMAIN calls' : /\ f[l] = j /\ Enumerates(l)'
                                     /\ calls'[l].at = calls[j].at
      BY <1>4, <2>2
    <3>2. calls'[l].at = "answered" /\ l <= k
      BY <3>1
    <3> QED  BY <1>5, <3>1, <3>2
  <2> QED  BY <2>1, <2>2 DEF FoundInv
<1> QED  BY <1>4, <1>6, <1>7, <1>8

(* What the user adds, removes or sets keeps the index that it has now.      *)
LEMMA EditsRight ==
  ASSUME cam \in CardState, cam.avail \subseteq Now,
         RightNow(cam.list, cam.avail),
         \/ AddCamera \/ \E c \in cam.avail : PickCamera(c)
         \/ \E k \in DOMAIN cam.list : RemoveCamera(k) \/ UpdateCamera(k)
  PROVE  /\ cam'.avail = cam.avail /\ cam'.on = cam.on
         /\ RightNow(cam'.list, cam'.avail)
<1>0. /\ cam.list \in Seq(Camera) /\ Len(cam.list) \in Nat
      /\ DOMAIN cam.list = 1..Len(cam.list)
  BY DEF CardState
<1>1. ASSUME NEW list, Edits(list)
      PROVE  cam'.avail = cam.avail /\ cam'.on = cam.on /\ cam'.list = list
  BY <1>1 DEF Edits, Changed, CardState
<1>2. ASSUME NEW c \in cam.avail, PickCamera(c)
      PROVE  /\ cam'.avail = cam.avail /\ cam'.on = cam.on
             /\ cam'.list = cam.list
  BY <1>2 DEF PickCamera, CardState
<1>3. CASE AddCamera
  <2>1. PICK c \in cam.avail :
          cam' = [Changed(Append(cam.list, [device |-> c.device,
                                            index |-> c.index, options |-> 0]))
                    EXCEPT !.pick = NoIndex, !.edits = @ + 1]
    BY <1>3 DEF AddCamera
  <2> DEFINE list == Append(cam.list, [device |-> c.device,
                                       index |-> c.index, options |-> 0])
  <2>2. cam'.avail = cam.avail /\ cam'.on = cam.on /\ cam'.list = list
    BY <2>1 DEF Changed, CardState
  <2>3. c.index = Index(c.device)
    BY <2>1 DEF Now
  <2>4. ASSUME NEW k \in DOMAIN list, NEW f \in cam.avail,
               f.device = list[k].device
        PROVE  list[k].index = Index(list[k].device)
    <3>1. CASE k \in DOMAIN cam.list
      <4>1. list[k] = cam.list[k]
        BY <1>0, <2>1, <3>1
      <4> QED  BY <2>4, <3>1, <4>1 DEF RightNow
    <3>2. CASE k \notin DOMAIN cam.list
      <4>1. list[k] = [device |-> c.device, index |-> c.index, options |-> 0]
        BY <1>0, <2>1, <2>4, <3>2
      <4> QED  BY <2>3, <4>1
    <3> QED  BY <3>1, <3>2
  <2> QED  BY <2>2, <2>4 DEF RightNow
<1>4. ASSUME NEW k \in DOMAIN cam.list, RemoveCamera(k)
      PROVE  /\ cam'.avail = cam.avail /\ cam'.on = cam.on
             /\ RightNow(cam'.list, cam'.avail)
  <2>1. cam'.avail = cam.avail /\ cam'.on = cam.on
        /\ cam'.list = RemoveAt(cam.list, k)
    BY <1>1, <1>4 DEF RemoveCamera
  <2>2. /\ RemoveAt(cam.list, k) \in Seq(Camera)
        /\ Len(RemoveAt(cam.list, k)) = Len(cam.list) - 1
        /\ \A l \in 1..(Len(cam.list) - 1) :
             RemoveAt(cam.list, k)[l] = IF l < k THEN cam.list[l]
                                        ELSE cam.list[l + 1]
    BY <1>0, RemoveAtElements
  <2>3. ASSUME NEW l \in DOMAIN cam'.list
        PROVE  \E j \in DOMAIN cam.list : cam'.list[l] = cam.list[j]
    <3>1. l \in 1..(Len(cam.list) - 1)
      BY <2>1, <2>2
    <3>2. l \in DOMAIN cam.list /\ l + 1 \in DOMAIN cam.list
      BY <1>0, <3>1
    <3> QED  BY <2>1, <2>2, <3>1, <3>2
  <2> QED  BY <2>1, <2>3 DEF RightNow
<1>5. ASSUME NEW k \in DOMAIN cam.list, UpdateCamera(k)
      PROVE  /\ cam'.avail = cam.avail /\ cam'.on = cam.on
             /\ RightNow(cam'.list, cam'.avail)
  <2>1. cam'.avail = cam.avail /\ cam'.on = cam.on
        /\ cam'.list = [cam.list EXCEPT ![k].options = 1 - @]
    BY <1>1, <1>5 DEF UpdateCamera
  <2>2. ASSUME NEW l \in DOMAIN cam.list
        PROVE  /\ cam'.list[l].device = cam.list[l].device
               /\ cam'.list[l].index = cam.list[l].index
    <3>1. cam.list[l] \in Camera
      BY <1>0
    <3>2. cam'.list[l] = IF l = k THEN [cam.list[k] EXCEPT !.options = 1 - @]
                         ELSE cam.list[l]
      BY <1>0, <2>1
    <3> QED  BY <3>1, <3>2 DEF Camera
  <2>3. DOMAIN cam'.list = DOMAIN cam.list
    BY <2>1
  <2> QED  BY <2>1, <2>2, <2>3 DEF RightNow
<1> QED  BY <1>2, <1>3, <1>4, <1>5

(* The invariant of the index.                                               *)
LEMMA IndexStep ==
  ASSUME Types, LoadFirst, IndexInv, InTurn, [Next]_vars
  PROVE  IndexInv'
<1>0. /\ CallsOK /\ CardOK /\ PageOK /\ FormOK /\ CamerasAssumption
      /\ cam \in CardState
      /\ EnumerateInv /\ AskedInv /\ FoundInv /\ ShownInv
      /\ CallsOK' /\ CardOK' /\ plugged' \subseteq Devices
  BY TypesStep, CamerasAssumption DEF IndexInv, Types, CardOK
<1>1. ASSUME NEW i \in DOMAIN calls, ListsCameras(i) PROVE IndexInv'
  BY <1>0, <1>1, IndexTold
<1>2. ASSUME NEW i \in DOMAIN calls, CamerasListed(i) PROVE IndexInv'
  BY <1>0, <1>2, IndexCome
<1>3. CASE TurnOn \/ Rescan
  <2>1. cam'.on /\ plugged' = plugged
    BY <1>0, <1>3 DEF TurnOn, Rescan, CardState
  <2>2. Left(DOMAIN calls, {Enumeration(plugged')})
    BY <1>0, <1>3, <2>1, CameraEffects DEF Sent
  <2> QED  BY <1>0, <2>1, <2>2, IndexAsked
<1>4. ASSUME NEW d \in Devices, DeviceChanges(d) PROVE IndexInv'
  <2>1. CASE cam.on
    <3>1. cam'.on
      BY <1>0, <1>4, <2>1 DEF DeviceChanges, CardState
    <3>2. Left(DOMAIN calls, {Enumeration(plugged')})
      BY <1>0, <1>4, <2>1, CameraEffects DEF Sent
    <3> QED  BY <1>0, <3>1, <3>2, IndexAsked
  <2>2. CASE ~cam.on
    <3>1. cam' = cam /\ calls' = calls
      BY <1>4, <2>2 DEF DeviceChanges
    <3> QED  BY <1>0, <2>2, <3>1, IndexOff DEF EnumerateInv, Enumerates
  <2> QED  BY <2>1, <2>2
<1>5. CASE TurnOff
  <2>1. ~cam'.on
    BY <1>0, <1>5 DEF TurnOff, CardState
  <2>2. PICK f : Comes(f, {i \in DOMAIN calls : calls[i].op # "cameras"}, {})
    BY <1>0, <1>5, CameraEffects, LeftComes DEF Kept
  <2> QED  BY <2>1, <2>2, IndexOff DEF Comes
<1>6. CASE LeavesPage(activeRef)
  <2>1. ~cam'.on
    BY <1>6 DEF LeavesPage, NoCard
  <2> DEFINE K == {i \in DOMAIN calls :
                     calls[i].op \notin {"detect", "cameras"}}
             N == IF activeRef THEN {Call("stop", 0, "teleop", NoPort)} ELSE {}
  <2>2. Left(K, N)
    BY <1>0, <1>6, UserEffects DEF PageOK
  <2>3. PICK f : Comes(f, K, N)
    BY <1>0, <2>2, LeftComes
  <2>4. \A e \in N : e.op # "cameras"
    BY DEF Call
  <2>5. \A i \in K : calls[i].op # "cameras"
    OBVIOUS
  <2> HIDE DEF K, N
  <2> QED  BY <2>1, <2>3, <2>4, <2>5, IndexOff DEF Comes
<1>7. ASSUME ~TurnOn, ~Rescan, ~TurnOff, ~LeavesPage(activeRef),
             \A d \in Devices : ~DeviceChanges(d),
             \A i \in DOMAIN calls : ~ListsCameras(i) /\ ~CamerasListed(i)
      PROVE  IndexInv'
  <2>1. Same(ForIndex)
    <3>1. \A i \in DOMAIN calls : calls[i].op = "cameras" =>
            ~CamerasListed(i) /\ ~Cancels(i) /\ ~ListsCameras(i)
      BY <1>7 DEF Cancels, HandsPortOver
    <3>2. \A e \in ForIndex : ~Sending(e)
      BY <1>7 DEF ForIndex, Sending, Call, Saving
    <3>3. \A i \in DOMAIN calls :
            calls[i].op = "cameras" => calls[i].at # "write"
      BY <1>0 DEF EnumerateInv, Enumerates
    <3> QED  BY <3>1, <3>2, <3>3, SameForIndex
  <2>2. /\ plugged' = plugged /\ cam'.on = cam.on
        /\ cam.on /\ cam.avail \subseteq Now /\ RightNow(cam.list, cam.avail)
           =>
             cam'.avail \subseteq Now /\ RightNow(cam'.list, cam'.avail)
    <3>1. CASE UNCHANGED card
      BY <3>1 DEF card
    <3>2. CASE CardUser
      <4>1. \/ AddCamera \/ \E c \in cam.avail : PickCamera(c)
            \/ \E k \in DOMAIN cam.list : RemoveCamera(k) \/ UpdateCamera(k)
        BY SMTT(30), <1>7, <3>2 DEF CardUser
      <4>2. plugged' = plugged
        BY <4>1 DEF AddCamera, PickCamera, RemoveCamera, UpdateCamera, Edits
      <4>3. cam'.on = cam.on
        BY Zenon, <1>0, <4>1
        DEF AddCamera, PickCamera, RemoveCamera, UpdateCamera, Edits,
            Changed, CardState
      <4> QED  BY <1>0, <4>1, <4>2, <4>3, EditsRight
    <3>3. CASE SavesCameras
      BY <1>0, <3>3 DEF SavesCameras, CardState
    <3>4. ASSUME NEW i \in DOMAIN calls, RecordAnswered(i)
          PROVE  /\ plugged' = plugged /\ cam'.on = cam.on
                 /\ cam.on => cam' = cam
      <4>1. /\ visit # 0 /\ calls[i].visit = visit /\ plugged' = plugged
            /\ cam' = IF calls[i].op = "load"
                      THEN [cam EXCEPT !.list = calls[i].copy.cams] ELSE cam
        BY <3>4 DEF RecordAnswered, RecordArrives, ForThisVisit
      <4>2. calls[i].op = "load" => ~cam.on
        BY <4>1 DEF LoadFirst, Loads
      <4> QED  BY <1>0, <4>1, <4>2 DEF CardState
    <3> QED  BY <1>7, <3>1, <3>2, <3>3, <3>4, CardChanges
  <2>3. /\ EnumerateInv' /\ AskedInv' /\ FoundInv'
        /\ (\A k \in DOMAIN calls' : ~Enumerates(k)') =>
              \A i \in DOMAIN calls : ~Enumerates(i)
    BY <1>0, <2>1, <2>2, IndexSame
  <2>4. ShownInv'
    <3>1. Now' = Now /\ \A d : Index(d)' = Index(d)
      BY <2>2 DEF Now, Index
    <3>2. (cam'.on /\ \A k \in DOMAIN calls' : ~Enumerates(k)') =>
            cam'.avail \subseteq Now /\ RightNow(cam'.list, cam'.avail)
      BY <1>0, <2>2, <2>3 DEF ShownInv
    <3> QED  BY <2>2, <3>1, <3>2 DEF ShownInv, RightNow
  <2> QED  BY <2>3, <2>4 DEF IndexInv
<1> QED  BY <1>1, <1>2, <1>3, <1>4, <1>5, <1>6, <1>7

(* CamerasKept: when nothing is under way, the robot's record has the list   *)
(* that the user chose, and every camera on the page's list has the index   *)
(* by which OpenCV finds it now.                                             *)
THEOREM CamerasAreKept ==
  ASSUME InTurn
  PROVE  Spec => []CamerasKept
<1>1. Init => CamInv
  <2> SUFFICES ASSUME Init PROVE CamInv
    OBVIOUS
  <2>1. /\ calls = <<>> /\ Workers = {} /\ visit = 0 /\ visits = 0
        /\ cam = NoCard /\ \A r \in Runs : pc[r] = "unused"
    BY DEF Init, ManagerInit, Workers
  <2>2. DOMAIN calls = {}
    BY <2>1
  <2>3. SerialInv /\ WriteInv
    BY <2>1, <2>2 DEF SerialInv, WriteInv
  <2>4. ListInv
    BY <2>1, <2>2 DEF ListInv, ShutInv, LoadFirst, ListGoes, NoCard
  <2>5. IndexInv
    BY <2>1, <2>2
    DEF IndexInv, EnumerateInv, AskedInv, FoundInv, ShownInv, NoCard
  <2> QED  BY <2>3, <2>4, <2>5 DEF CamInv
<1>2. Types /\ PortInv /\ CamInv /\ [Next]_vars => CamInv'
  <2> SUFFICES ASSUME Types, PortInv, CamInv, [Next]_vars PROVE CamInv'
    OBVIOUS
  <2>1. SerialInv' /\ WriteInv'
    BY SerialStep, WriteStep DEF CamInv
  <2>2. ListInv'
    BY ListStep DEF CamInv, IndexInv
  <2>3. IndexInv'
    BY IndexStep DEF CamInv, ListInv
  <2> QED  BY <2>1, <2>2, <2>3 DEF CamInv
<1>3. CamInv => CamerasKept
  <2> SUFFICES ASSUME CamInv, visit # 0, cam.due = {},
                      \A i \in DOMAIN calls :
                        calls[i].op \notin {"load", "cams", "cameras"}
               PROVE  /\ record.cams = cam.list
                      /\ cam.on => \A c \in ToSet(cam.list), f \in cam.avail :
                           f.device = c.device => c.index = Index(c.device)
    BY DEF CamerasKept
  <2>1. record.cams = cam.list
    BY DEF CamInv, ListInv, ListGoes, Loading, Loads
  <2>2. cam.on => RightNow(cam.list, cam.avail)
    BY DEF CamInv, IndexInv, ShownInv, Enumerates
  <2> QED  BY <2>1, <2>2 DEF RightNow, ToSet
<1>4. Spec => []PortInv
  BY PortsHold DEF InTurn
<1> QED  BY <1>1, <1>2, <1>3, <1>4, TypesCorrect, PTL DEF Spec

=============================================================================
