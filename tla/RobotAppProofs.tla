--------------------------- MODULE RobotAppProofs ---------------------------
(***************************************************************************)
(* Theorems about RobotApp, for any robots, number of clicks and of        *)
(* requests under way.                                                     *)
(***************************************************************************)
EXTENDS RobotApp, SubsequencesProofs

-----------------------------------------------------------------------------
(* Types.                                                                    *)
Names == Robots \cup {NoRobot}
Conditions == [Robots -> {"none", "new", "clean"}]
Status == [active : BOOLEAN, phase : Phases \cup {"none"}, kept : Nat,
           session : Nat, robots : Conditions]

LandingState ==
  [at : {"landing"}, robots : Conditions, selected : Names,
   dialog : {"closed", "open", "paused"}, filled : BOOLEAN, index : {0, 1}]
TeleopState == [at : {"teleop"}, stopped : BOOLEAN, feeds : BOOLEAN]
RecordingState ==
  [at : {"recording"}, index : {0, 1}, started : BOOLEAN, own : Nat,
   shown : Status, hoped : Phases \cup {"none"}, confirm : BOOLEAN]
UploadState ==
  [at : {"upload"}, dataset : Nat, own : Nat, onHub : BOOLEAN,
   loaded : BOOLEAN, busy : SUBSET {"upload", "discard"}, uploaded : BOOLEAN,
   confirm : BOOLEAN]
Pages ==
  LandingState \cup TeleopState \cup RecordingState \cup UploadState
    \cup {Elsewhere}

(* What each request is about.                                               *)
Exits == {"leave", "back", "hide"}
Ops == {"list", "create", "delete", "move-arm", "stop-teleop", "record",
        "wait", "cameras", "status", "exit", "rerecord", "stop", "info",
        "upload", "discard"}
Args(op) ==
  CASE op = "list" -> {NoRobot}
    [] op \in {"create", "delete", "move-arm"} -> Robots
    [] op = "stop-teleop" -> Exits
    [] op \in {"record", "wait", "cameras"} -> {0, 1}
    [] OTHER -> Nat
AnyArg == Nat \cup Names \cup Exits
AnyCall ==
  [op : Ops, arg : AnyArg, mount : Nat, at : {"sent", "waiting", "answered"},
   ok : BOOLEAN, seen : Status \cup {"nothing"}]
Request ==
  {c \in AnyCall :
     /\ c.arg \in Args(c.op)
     /\ c.at = "answered" /\ c.op # "cameras" => c.seen \in Status}

ServerOK ==
  /\ active \in BOOLEAN /\ phase \in Phases /\ kept \in Nat
  /\ driving \in BOOLEAN /\ session \in Nat /\ robots \in Conditions
  /\ disk \subseteq Nat
TabOK ==
  /\ mount \in Nat \ {0} /\ page \in Pages /\ stored \in Names
  /\ notice \in BOOLEAN /\ clicks \in Nat
StreamsOK ==
  /\ streams \in [mine : {0} \cup StreamIds, asked : SUBSET StreamIds,
                  live : SUBSET StreamIds, retry : BOOLEAN, failed : BOOLEAN]
  /\ streams.retry => streams.mine # 0
(* The requests of the mounted page are of its kind.                         *)
OpsOf(at) ==
  CASE at = "landing" ->
         {"list", "create", "delete", "move-arm", "cameras", "wait"}
    [] at = "teleop" -> {"stop-teleop"}
    [] at = "recording" -> {"record", "status", "exit", "rerecord", "stop"}
    [] at = "upload" -> {"info", "upload", "discard"}
    [] OTHER -> {}
Heard(m, at) == {c \in Request : c.mount = m => c.op \in OpsOf(at)}
Mine == Heard(mount, page.at)
CallsOK == calls \in Seq(Mine)
Types == ServerOK /\ TabOK /\ CallsOK /\ StreamsOK /\ index \in {0, 1}

-----------------------------------------------------------------------------
(* The streams.  A preview runs only where it is shown, and what it has      *)
(* asked for, waits to ask for again, failed to get or has is one of these.  *)
Showing ==
  \/ page.at = "landing" /\ page.dialog = "open"
  \/ page.at = "teleop" /\ page.feeds
StreamInv ==
  /\ streams.mine # 0 => Showing
  /\ streams.live \subseteq {streams.mine} \ {0}
  /\ streams.mine \in streams.asked =>
       ~streams.retry /\ ~streams.failed /\ streams.live = {}
  /\ streams.retry \/ streams.failed =>
       streams.mine # 0 /\ streams.live = {}
  /\ ~(streams.retry /\ streams.failed)

-----------------------------------------------------------------------------
(* Requests and pages are well-formed.                                       *)

(* A request as it is sent.                                                  *)
LEMMA CallOK ==
  ASSUME NEW op \in Ops, NEW arg \in Args(op), NEW of \in Nat
  PROVE  Call(op, arg, of) \in Request /\ Call(op, arg, of).mount = of
<1>1. Args(op) \subseteq AnyArg
  BY DEF Args, AnyArg, Names, Exits
<1> QED  BY <1>1 DEF Call, Request, AnyCall

(* A request under way.                                                      *)
LEMMA Typed ==
  ASSUME CallsOK, NEW i \in DOMAIN calls
  PROVE  /\ Len(calls) \in Nat /\ DOMAIN calls = 1..Len(calls)
         /\ i \in 1..Len(calls) /\ calls[i] \in Mine /\ calls[i] \in Request
         /\ calls \in Seq(Request)
<1>1. \A j \in 1..Len(calls) : calls[j] \in Mine
  BY DEF CallsOK
<1>2. \A j \in 1..Len(calls) : calls[j] \in Request
  BY <1>1 DEF Mine, Heard
<1> QED  BY <1>1, <1>2 DEF CallsOK

(* The requests that stay when one is answered.                              *)
LEMMA RestOK ==
  ASSUME CallsOK, NEW i \in DOMAIN calls
  PROVE  Rest(i) \in Seq(Mine) /\ Rest(i) \in Seq(Request)
BY Typed, RemoveAtElements DEF Rest, CallsOK

(* An answer is to the request that was sent, ...                            *)
LEMMA AnsweredOK ==
  ASSUME NEW c \in Mine, NEW ok \in BOOLEAN, NEW seen \in Status
  PROVE  [c EXCEPT !.at = "answered", !.ok = ok, !.seen = seen] \in Mine
BY DEF Mine, Heard, Request, AnyCall

(* ... and joins the others.                                                 *)
LEMMA AnswersOK ==
  ASSUME CallsOK, NEW i \in DOMAIN calls, NEW ok \in BOOLEAN,
         NEW seen \in Status, Answers(i, ok, seen)
  PROVE  calls' \in Seq(Mine)
<1>1. RemoveAt(calls, i) \in Seq(Mine)
  BY RestOK DEF Rest
<1>2. [calls[i] EXCEPT !.at = "answered", !.ok = ok, !.seen = seen] \in Mine
  BY Typed, AnsweredOK
<1> QED  BY <1>1, <1>2 DEF Answers

(* What the mounted page sends.                                              *)
LEMMA SendsOK ==
  ASSUME CallsOK, TabOK, NEW op \in OpsOf(page.at), NEW arg \in Args(op)
  PROVE  Sent(op, arg) \in Seq(Mine)
<1>1. op \in Ops
  BY DEF OpsOf, Ops
<1>2. Call(op, arg, mount) \in Mine
  BY <1>1, CallOK DEF Mine, Heard, TabOK, Call
<1> QED  BY <1>2 DEF Sent, CallsOK

(* What a page shows before any answer.                                      *)
LEMMA NoStatusOK ==
  NoStatus \in Status
BY DEF NoStatus, Status, Conditions, Phases

(* There is always a number that no callback has.                            *)
LEMMA FreshMountOK ==
  ASSUME NEW cs \in Seq(Request)
  PROVE  /\ FreshMount(cs) \in Nat \ {0}
         /\ \A i \in DOMAIN cs : cs[i].mount # FreshMount(cs)
<1> DEFINE n == Len(cs)
           Used == {cs[i].mount : i \in 1..n}
           Least(m) == /\ \A j \in DOMAIN cs : cs[j].mount # m
                        /\ \A k \in 1..(m - 1) :
                            \E i \in DOMAIN cs : cs[i].mount = k
           Unused == 1..(n + 1) \ Used
<1>1. n \in Nat /\ DOMAIN cs = 1..n
  OBVIOUS
<1>2. IsFiniteSet(Used) /\ Cardinality(Used) <= n
  <2>1. IsFiniteSet(1..n) /\ Cardinality(1..n) = n
    BY <1>1, FS_Interval
  <2> DEFINE f == [i \in 1..n |-> cs[i].mount]
  <2>2. f \in Surjection(1..n, Used)
    BY DEF Surjection
  <2> QED  BY <2>1, <2>2, FS_Surjection
<1>3. PICK u \in Unused : TRUE
  <2>1. IsFiniteSet(1..(n + 1)) /\ Cardinality(1..(n + 1)) = n + 1
    BY <1>1, FS_Interval
  <2>2. ASSUME Unused = {} PROVE FALSE
    <3>1. 1..(n + 1) \subseteq Used
      BY <2>2
    <3>2. Cardinality(1..(n + 1)) <= Cardinality(Used)
      BY <1>2, <3>1, FS_Subset
    <3>3. Cardinality(Used) \in Nat
      BY <1>2, FS_CardinalityType
    <3> HIDE DEF Used
    <3> QED  BY <1>1, <1>2, <2>1, <3>2, <3>3
  <2> QED  BY <2>2
<1>4. PICK l \in Unused : \A k \in Unused : l <= k
  <2> DEFINE S == 1..(n + 1)
             T == {1..k : k \in Unused}
  <2>1. IsWellFoundedOn(StrictSubsetOrdering(S), SUBSET S)
    <3>1. IsFiniteSet(S)
      BY <1>1, FS_Interval
    <3> QED
      BY <3>1, FS_StrictSubsetOrderingWellFounded, FS_FiniteSubsetsOfFinite
  <2>2. T \subseteq SUBSET S /\ T # {}
    BY <1>1, <1>3
  <2>3. PICK x \in T : \A y \in T : <<y, x>> \notin StrictSubsetOrdering(S)
    <3> HIDE DEF S, T
    <3> QED  BY <2>1, <2>2, WFMin
  <2>4. PICK k \in Unused : x = 1..k
    BY <2>3
  <2>5. ASSUME NEW j \in Unused, j < k PROVE FALSE
    <3>1. 1..j \in SUBSET S /\ 1..k \in SUBSET S /\ 1..j \subseteq 1..k
      BY <1>1, <2>5
    <3>2. k \in 1..k /\ k \notin 1..j
      BY <1>1, <2>5
    <3>3. <<1..j, 1..k>> \in StrictSubsetOrdering(S)
      BY <3>1, <3>2 DEF StrictSubsetOrdering
    <3> QED  BY <2>3, <2>4, <3>3
  <2>6. \A j \in Unused : k <= j
    BY <1>1, <2>5
  <2> QED  BY <2>6
<1>5. l \in 1..(n + 1) /\ Least(l)
  <2>1. ASSUME NEW k \in 1..(l - 1) PROVE \E i \in DOMAIN cs : cs[i].mount = k
    <3>1. k \in 1..(n + 1) /\ ~(l <= k)
      BY <1>1, <1>4, <2>1
    <3>2. k \in Used
      BY <1>4, <3>1
    <3> QED  BY <1>1, <3>2
  <2>2. \A i \in DOMAIN cs : cs[i].mount # l
    BY <1>1, <1>4
  <2> QED  BY <1>4, <2>1, <2>2
<1>6. FreshMount(cs) \in 1..(n + 1) /\ Least(FreshMount(cs))
  <2>1. FreshMount(cs) = CHOOSE m \in 1..(n + 1) : Least(m)
    BY DEF FreshMount
  <2> QED  BY <1>5, <2>1
<1> QED  BY <1>1, <1>6

(* What a page sends when it is mounted.                                     *)
LEMMA FirstCallsOK ==
  ASSUME NEW p \in Pages, NEW m \in Nat
  PROVE  FirstCalls(p, m) \in Seq(Heard(m, p.at))
<1>1. CASE p \in LandingState
  <2>1. Call("list", NoRobot, m) \in Request
    BY CallOK DEF Ops, Args
  <2>2. Call("list", NoRobot, m) \in Heard(m, p.at)
    BY <1>1, <2>1 DEF LandingState, Heard, OpsOf, Call
  <2>3. FirstCalls(p, m) = <<Call("list", NoRobot, m)>>
    BY <1>1 DEF FirstCalls, LandingState
  <2> QED  BY <2>2, <2>3
<1>2. CASE p \in TeleopState
  BY <1>2 DEF FirstCalls, TeleopState
<1>3. CASE p \in RecordingState
  <2>1. Call("record", p.index, m) \in Request
    BY <1>3, CallOK DEF RecordingState, Ops, Args
  <2>2. Call("record", p.index, m) \in Heard(m, p.at)
    BY <1>3, <2>1 DEF RecordingState, Heard, OpsOf, Call
  <2>3. FirstCalls(p, m) = <<Call("record", p.index, m)>>
    BY <1>3 DEF FirstCalls, RecordingState
  <2> QED  BY <2>2, <2>3
<1>4. CASE p \in UploadState
  <2>1. Call("info", p.dataset, m) \in Request
    BY <1>4, CallOK DEF UploadState, Ops, Args
  <2>2. Call("info", p.dataset, m) \in Heard(m, p.at)
    BY <1>4, <2>1 DEF UploadState, Heard, OpsOf, Call
  <2>3. FirstCalls(p, m) = <<Call("info", p.dataset, m)>>
    BY <1>4 DEF FirstCalls, UploadState
  <2> QED  BY <2>2, <2>3
<1>5. CASE p = Elsewhere
  BY <1>5 DEF FirstCalls, Elsewhere
<1> QED  BY <1>1, <1>2, <1>3, <1>4, <1>5 DEF Pages

(* What the page that goes away leaves under way.                            *)
LEMMA UnmountedOK ==
  ASSUME TabOK, NEW cs \in Seq(Request)
  PROVE  Unmounted(cs) \in Seq(Request)
<1>1. Call("stop-teleop", "leave", mount) \in Request
  BY CallOK DEF TabOK, Ops, Args, Exits
<1> QED  BY <1>1 DEF Unmounted

(* Where one can go.                                                         *)
LEMMA PagesOK ==
  /\ stored \in Names => Landing \in Pages
  /\ Teleop \in Pages /\ Elsewhere \in Pages
  /\ \A k \in {0, 1} : Recording(k) \in Pages
  /\ \A d, own \in Nat, onHub \in BOOLEAN : Upload(d, own, onHub) \in Pages
<1>1. stored \in Names => Landing \in LandingState
  BY NoStatusOK DEF Landing, LandingState, Status
<1>2. Teleop \in TeleopState
  BY DEF Teleop, TeleopState
<1>3. \A k \in {0, 1} : Recording(k) \in RecordingState
  BY NoStatusOK DEF Recording, RecordingState
<1>4. \A d, own \in Nat, onHub \in BOOLEAN :
        Upload(d, own, onHub) \in UploadState
  BY DEF Upload, UploadState
<1> QED  BY <1>1, <1>2, <1>3, <1>4 DEF Pages

(* navigate(): the new page has a number of its own, so no answer under way  *)
(* is its.                                                                   *)
LEMMA OpensOK ==
  ASSUME TabOK, StreamsOK, NEW p \in Pages, NEW cs \in Seq(Request),
         Opens(p, cs)
  PROVE  /\ mount' \in Nat \ {0} /\ page' = p /\ CallsOK' /\ StreamsOK'
         /\ streams' = Dropped
<1> DEFINE u == Unmounted(cs)
           m == FreshMount(u)
           T == Heard(m, p.at)
<1>1. u \in Seq(Request)
  BY UnmountedOK
<1>2. m \in Nat \ {0} /\ \A i \in DOMAIN u : u[i].mount # m
  BY <1>1, FreshMountOK
<1>3. FirstCalls(p, m) \in Seq(T)
  BY <1>2, FirstCallsOK
<1>4. u \in Seq(T)
  <2>1. \A i \in 1..Len(u) : u[i] \in T
    BY <1>1, <1>2 DEF Heard
  <2> QED  BY <1>1, <2>1
<1>5. /\ mount' = m /\ page' = p /\ calls' = u \o FirstCalls(p, m)
      /\ streams' = Dropped
  BY DEF Opens
<1>6. calls' \in Seq(T)
  <2> HIDE DEF u, m, T
  <2> QED  BY <1>3, <1>4, <1>5
<1>7. Mine' = T
  BY <1>5 DEF Mine
<1> QED  BY <1>2, <1>5, <1>6, <1>7 DEF CallsOK, StreamsOK, Dropped

(* navigate("/").                                                            *)
LEMMA GoesHomeOK ==
  ASSUME TabOK, StreamsOK, NEW cs \in Seq(Mine), cs \in Seq(Request),
         GoesHome(cs)
  PROVE  /\ mount' \in Nat \ {0} /\ page' \in Pages /\ CallsOK' /\ StreamsOK'
         /\ \/ page' = Landing /\ streams' = Dropped
            \/ UNCHANGED <<mount, page, streams>>
<1>1. CASE page.at = "landing"
  BY <1>1 DEF GoesHome, TabOK, StreamsOK, CallsOK, Mine
<1>2. CASE page.at # "landing"
  BY <1>2, OpensOK, PagesOK DEF GoesHome, TabOK
<1> QED  BY <1>1, <1>2

(* Whichever page they are for.                                              *)
LEMMA CallsTyped ==
  CallsOK => calls \in Seq(Request)
<1> SUFFICES ASSUME CallsOK PROVE calls \in Seq(Request)
  OBVIOUS
<1>1. \A j \in 1..Len(calls) : calls[j] \in Request
  BY DEF CallsOK, Mine, Heard
<1> QED  BY <1>1 DEF CallsOK

(* As long as the page stays, so do the requests it may hear of.             *)
LEMMA MineStays ==
  ASSUME mount' = mount, page'.at = page.at
  PROVE  Mine' = Mine
BY DEF Mine

(* A step of a page that stays, which changes nothing on the server.         *)
LEMMA PageStepTypes ==
  ASSUME Types, UNCHANGED server, mount' = mount, page' \in Pages,
         page'.at = page.at, stored' \in Names, notice' \in BOOLEAN,
         clicks' \in Nat, calls' \in Seq(Mine), StreamsOK', index' \in {0, 1}
  PROVE  Types'
<1>1. ServerOK'
  BY DEF Types, ServerOK, server, service
<1>2. TabOK'
  BY DEF Types, TabOK
<1>3. CallsOK'
  BY MineStays DEF CallsOK
<1> QED  BY <1>1, <1>2, <1>3 DEF Types

(* The name of a page determines its fields.                                 *)
LEMMA PageIs ==
  ASSUME page \in Pages
  PROVE  /\ page.at = "landing" => page \in LandingState
         /\ page.at = "teleop" => page \in TeleopState
         /\ page.at = "recording" => page \in RecordingState
         /\ page.at = "upload" => page \in UploadState
         /\ page.at = "elsewhere" => page = Elsewhere
BY DEF Pages, LandingState, TeleopState, RecordingState, UploadState, Elsewhere

(* An answer to the mounted page is one to its own kind of request.          *)
LEMMA HeardHere ==
  ASSUME CallsOK, NEW i \in DOMAIN calls, ForThisMount(i)
  PROVE  calls[i].op \in OpsOf(page.at)
BY Typed DEF Mine, Heard, ForThisMount

(* A preview asks for a stream under a number that is free.                  *)
LEMMA AsksOK ==
  ASSUME NEW st \in [mine : {0} \cup StreamIds, asked : SUBSET StreamIds,
                     live : SUBSET StreamIds, retry : BOOLEAN,
                     failed : BOOLEAN], Asks(st)
  PROVE  /\ StreamsOK'
         /\ \E n \in Fresh(st) :
              streams' = [st EXCEPT !.mine = n, !.asked = @ \cup {n},
                                    !.retry = FALSE, !.failed = FALSE]
<1> DEFINE n == CHOOSE k \in Fresh(st) : \A j \in Fresh(st) : k <= j
<1>1. Fresh(st) \subseteq {1, 2} /\ Fresh(st) # {}
  BY DEF Asks, Fresh, StreamIds
<1>2. \E k \in Fresh(st) : \A j \in Fresh(st) : k <= j
  BY <1>1
<1>3. n \in Fresh(st) /\ n \in StreamIds
  BY <1>1, <1>2 DEF StreamIds
<1>4. streams' = [st EXCEPT !.mine = n, !.asked = @ \cup {n},
                            !.retry = FALSE, !.failed = FALSE]
  BY DEF Asks
<1> QED  BY <1>3, <1>4 DEF StreamsOK

-----------------------------------------------------------------------------
(* Every step keeps the types.                                               *)

(* The landing page: its user, ...                                           *)
LEMMA LandingUserTypes ==
  ASSUME Types, LandingUser
  PROVE  Types'
<1>0. /\ ServerOK /\ TabOK /\ CallsOK /\ StreamsOK /\ index \in {0, 1}
      /\ page \in Pages
  BY DEF Types, TabOK
<1>1. ASSUME NEW r \in Robots, SelectRobot(r) PROVE Types'
  <2>1. page' \in LandingState /\ page'.at = page.at /\ stored' \in Names
    BY <1>0, <1>1, PageIs
    DEF SelectRobot, MaySelect, Chooses, Uncovered, OnLanding, LandingState,
        Names
  <2> QED
    BY <1>0, <1>1, <2>1, MineStays
    DEF SelectRobot, Types, ServerOK, server, service, TabOK, CallsOK,
        StreamsOK, cameras, Pages
<1>2. ASSUME NEW r \in Robots, CreateRobot(r) PROVE Types'
  <2>1. Sent("create", r) \in Seq(Mine)
    BY <1>0, <1>2, SendsOK
    DEF CreateRobot, MayCreate, Chooses, Uncovered, OnLanding, OpsOf, Args
  <2> QED
    BY <1>0, <1>2, <2>1, MineStays
    DEF CreateRobot, Sends, Types, ServerOK, server, service, TabOK, tab,
        CallsOK, StreamsOK, cameras
<1>3. ASSUME NEW r \in Robots, Calibrate(r) PROVE Types'
  BY <1>0, <1>3, MineStays
  DEF Calibrate, Types, ServerOK, Conditions, service, TabOK, tab, CallsOK,
      StreamsOK, cameras
<1>4. ASSUME NEW d \in disk, NEW onHub \in BOOLEAN, PickDataset(d, onHub)
      PROVE  Types'
  <2>1. Upload(d, d, onHub) \in Pages
    BY <1>0, PagesOK DEF ServerOK
  <2>2. /\ mount' \in Nat \ {0} /\ page' \in Pages /\ CallsOK' /\ StreamsOK'
    BY <1>0, <1>4, <2>1, OpensOK, CallsTyped DEF PickDataset
  <2> QED
    BY <1>0, <1>4, <2>2
    DEF PickDataset, Types, ServerOK, server, service, TabOK
<1>5. ASSUME DeleteRobot \/ ClickTeleop PROVE Types'
  <2>1. page.at = "landing" /\ page.selected \in Robots
    BY <1>0, <1>5, PageIs
    DEF DeleteRobot, DeleteOffered, ClickTeleop, TeleopOffered, Clean, Known,
        Uncovered, OnLanding, LandingState, Names
  <2>2. /\ Sent("delete", page.selected) \in Seq(Mine)
        /\ Sent("move-arm", page.selected) \in Seq(Mine)
    BY <1>0, <2>1, SendsOK DEF OpsOf, Args
  <2> QED
    BY <1>0, <1>5, <2>2, MineStays
    DEF DeleteRobot, ClickTeleop, Sends, Types, ServerOK, server, service,
        TabOK, tab, CallsOK, StreamsOK, cameras
<1>6. ASSUME GoElsewhere PROVE Types'
  <2>1. /\ mount' \in Nat \ {0} /\ page' \in Pages /\ CallsOK' /\ StreamsOK'
    BY <1>0, <1>6, PagesOK, OpensOK, CallsTyped DEF GoElsewhere
  <2> QED
    BY <1>0, <1>6, <2>1
    DEF GoElsewhere, Types, ServerOK, server, service, TabOK
<1>7. ASSUME OpenDialog PROVE Types'
  <2>1. page.at = "landing" /\ page \in LandingState
    BY <1>0, <1>7, PageIs DEF OpenDialog, Uncovered, OnLanding
  <2>2. page' \in LandingState /\ page'.at = page.at
    BY <1>7, <2>1 DEF OpenDialog, LandingState
  <2>3. Sent("cameras", 0) \in Seq(Mine)
    BY <1>0, <2>1, SendsOK DEF OpsOf, Args
  <2>4. StreamsOK'
    BY <1>0, <1>7, AsksOK DEF OpenDialog, StreamsOK
  <2> QED
    BY <1>0, <1>7, <2>2, <2>3, <2>4, MineStays
    DEF OpenDialog, Sends, Types, ServerOK, server, service, TabOK, CallsOK,
        Pages
<1>8. ASSUME CloseDialog \/ FillRecording PROVE Types'
  <2>1. page' \in LandingState /\ page'.at = page.at
    BY <1>0, <1>8, PageIs
    DEF CloseDialog, FillRecording, OnLanding, LandingState
  <2>2. StreamsOK'
    BY <1>0, <1>8
    DEF CloseDialog, FillRecording, Dropped, StreamsOK, cameras
  <2> QED
    BY <1>0, <1>8, <2>1, <2>2, MineStays
    DEF CloseDialog, FillRecording, Types, ServerOK, server, service, TabOK,
        CallsOK, Pages, cameras
<1>9. ASSUME ClickRecord PROVE Types'
  <2>1. page.at = "landing" /\ page \in LandingState
    BY <1>0, <1>9, PageIs DEF ClickRecord, CanRecord, OnLanding
  <2>2. page' \in LandingState /\ page'.at = page.at
    BY <1>9, <2>1 DEF ClickRecord, LandingState
  <2>3. Append(calls, Pause) \in Seq(Mine)
    <3>1. Call("wait", page.index, mount) \in Request
      BY <1>0, <2>1, CallOK DEF Ops, Args, LandingState, TabOK
    <3>2. [NoStatus EXCEPT !.session = session] \in Status
      BY <1>0 DEF NoStatus, Status, ServerOK, Conditions
    <3>3. Pause \in Mine
      <4> DEFINE c == Call("wait", page.index, mount)
      <4>1. c.op = "wait" /\ c \in Request /\ c \in AnyCall
        BY <3>1 DEF Call, Request
      <4>2. Pause = [c EXCEPT !.at = "waiting",
                       !.seen = [NoStatus EXCEPT !.session = session]]
        BY DEF Pause
      <4> HIDE DEF c
      <4>3. /\ Pause \in AnyCall /\ Pause.op = c.op /\ Pause.arg = c.arg
            /\ Pause.at = "waiting"
        BY <3>2, <4>1, <4>2 DEF AnyCall
      <4> QED
        BY <2>1, <4>1, <4>3 DEF Mine, Heard, Request, OpsOf
    <3> QED  BY <1>0, <3>3 DEF CallsOK
  <2>4. StreamsOK'
    BY <1>0, <1>9 DEF ClickRecord, Dropped, StreamsOK
  <2> QED
    BY <1>0, <1>9, <2>2, <2>3, <2>4, MineStays
    DEF ClickRecord, Types, ServerOK, server, service, TabOK, CallsOK, Pages
<1> QED
  BY <1>1, <1>2, <1>3, <1>4, <1>5, <1>6, <1>7, <1>8, <1>9
  DEF LandingUser, Configure, OpenTraining

(* ... and its answers.                                                      *)
LEMMA LandingCallbackTypes ==
  ASSUME Types, NEW i \in DOMAIN calls, LandingCallback(i)
  PROVE  Types'
<1>0. /\ ServerOK /\ TabOK /\ CallsOK /\ StreamsOK /\ index \in {0, 1}
      /\ page \in Pages
      /\ Rest(i) \in Seq(Mine) /\ Rest(i) \in Seq(Request)
      /\ calls[i] \in Request
  BY RestOK, Typed DEF Types, TabOK
<1>1. ASSUME ForThisMount(i), calls[i].op \in OpsOf("landing"),
             calls[i].op \notin {"cameras"}
      PROVE  page.at = "landing" /\ page \in LandingState
  BY <1>0, <1>1, HeardHere, PageIs
  DEF OpsOf, Pages, LandingState, TeleopState, RecordingState, UploadState,
      Elsewhere
<1>2. ASSUME ListArrives(i) PROVE Types'
  <2>1. calls[i].op = "list" /\ calls[i].seen \in Status
    BY <1>0, <1>2 DEF ListArrives, Arrives, Request
  <2>2. CASE ForThisMount(i)
    <3>1. page.at = "landing" /\ page \in LandingState
      BY <1>1, <2>1, <2>2 DEF OpsOf
    <3>2. page' \in LandingState /\ stored' \in Names
      <4> DEFINE list == calls[i].seen.robots
                 keeps == /\ page.selected # NoRobot
                          /\ list[page.selected] # "none"
                 who == IF keeps THEN page.selected ELSE NoRobot
      <4>1. /\ page' = [page EXCEPT !.robots = list, !.selected = who]
            /\ stored' = page'.selected
        BY <1>2, <2>2, <3>1 DEF ListArrives, LandingState
      <4>2. list \in Conditions /\ who \in Names
        BY <2>1, <3>1 DEF Status, LandingState, Names
      <4> HIDE DEF list, who
      <4> QED  BY <3>1, <4>1, <4>2 DEF LandingState
    <3>3. /\ UNCHANGED <<server, mount, notice, clicks, cameras>>
          /\ calls' = Rest(i)
      BY <1>2 DEF ListArrives
    <3>4. page' \in Pages /\ page'.at = page.at
      BY <3>1, <3>2 DEF Pages, LandingState
    <3>5. StreamsOK' /\ index' \in {0, 1}
      BY <1>0, <3>3 DEF StreamsOK, cameras
    <3>6. notice' \in BOOLEAN /\ clicks' \in Nat
      BY <1>0, <3>3 DEF TabOK
    <3> QED
      BY <1>0, <3>2, <3>3, <3>4, <3>5, <3>6, PageStepTypes
  <2>3. CASE ~ForThisMount(i)
    BY <1>0, <1>2, <2>3, MineStays
    DEF ListArrives, Types, ServerOK, server, service, TabOK, CallsOK,
        StreamsOK, cameras
  <2> QED  BY <2>2, <2>3
<1>3. ASSUME CreateArrives(i) \/ DeleteArrives(i) PROVE Types'
  <2>1. calls[i].op \in {"create", "delete"} /\ calls[i].arg \in Robots
    BY <1>0, <1>3 DEF CreateArrives, DeleteArrives, Arrives, Request, Args
  <2>2. CASE ForThisMount(i) /\ calls[i].ok
    <3>1. page.at = "landing" /\ page \in LandingState
      BY <1>1, <2>1, <2>2 DEF OpsOf
    <3>2. page' \in LandingState /\ stored' \in Names
      <4>1. CASE CreateArrives(i)
        <5> DEFINE who == calls[i].arg
        <5>1. page' = [page EXCEPT !.robots[who] = "new", !.selected = who]
              /\ stored' = who
          BY <2>2, <4>1 DEF CreateArrives
        <5>2. who \in Names /\ who \in Robots
          BY <2>1 DEF Names
        <5> HIDE DEF who
        <5> QED  BY <3>1, <5>1, <5>2 DEF LandingState, Conditions
      <4>2. CASE DeleteArrives(i)
        <5> DEFINE who == IF page.selected = calls[i].arg THEN NoRobot
                          ELSE page.selected
        <5>1. page' = [page EXCEPT !.robots[calls[i].arg] = "none",
                                   !.selected = who]
              /\ stored' = page'.selected
          BY <2>2, <3>1, <4>2 DEF DeleteArrives, LandingState
        <5>2. who \in Names
          BY <3>1 DEF LandingState, Names
        <5> HIDE DEF who
        <5> QED  BY <2>1, <3>1, <5>1, <5>2 DEF LandingState, Conditions
      <4> QED  BY <1>3, <4>1, <4>2
    <3> QED
      BY <1>0, <1>3, <3>1, <3>2, MineStays
      DEF CreateArrives, DeleteArrives, Types, ServerOK, server, service,
          TabOK, CallsOK, StreamsOK, cameras, Pages, LandingState
  <2>3. CASE ~(ForThisMount(i) /\ calls[i].ok)
    BY <1>0, <1>3, <2>3, MineStays
    DEF CreateArrives, DeleteArrives, Types, ServerOK, server, service,
        TabOK, CallsOK, StreamsOK, cameras
  <2> QED  BY <2>2, <2>3
<1>4. ASSUME TeleopStarted(i) \/ WaitOver(i) PROVE Types'
  <2>1. calls[i].op = "wait" => Recording(calls[i].arg) \in Pages
    BY <1>0, PagesOK DEF Request, Args
  <2>2. \/ /\ calls' = Rest(i) /\ UNCHANGED <<mount, page, streams>>
        \/ \E p \in Pages : Opens(p, Rest(i))
    BY <1>4, <2>1, PagesOK DEF TeleopStarted, WaitOver, TimerRuns
  <2>3. mount' \in Nat \ {0} /\ page' \in Pages /\ CallsOK' /\ StreamsOK'
    BY <1>0, <2>2, OpensOK, MineStays DEF CallsOK, StreamsOK, TabOK
  <2> QED
    BY <1>0, <1>4, <2>3
    DEF TeleopStarted, WaitOver, Types, ServerOK, server, service, TabOK
<1>5. ASSUME CamerasArrive(i) PROVE Types'
  <2>1. calls[i].op = "cameras" /\ calls[i].arg \in {0, 1}
    BY <1>0, <1>5 DEF CamerasArrive, Arrives, Request, Args
  <2>2. page' \in Pages /\ page'.at = page.at
    <3>1. CASE ForThisMount(i) /\ page.dialog # "closed"
      <4>1. page \in LandingState
        BY <1>0, <2>1, <3>1, HeardHere, PageIs
        DEF OpsOf, Pages, LandingState, TeleopState, RecordingState,
            UploadState, Elsewhere
      <4> QED
        BY <1>5, <2>1, <3>1, <4>1 DEF CamerasArrive, LandingState, Pages
    <3> QED  BY <1>0, <1>5, <3>1 DEF CamerasArrive
  <2> QED
    BY <1>0, <1>5, <2>2, MineStays
    DEF CamerasArrive, Types, ServerOK, server, service, TabOK, CallsOK,
        StreamsOK, cameras
<1> QED
  BY <1>2, <1>3, <1>4, <1>5 DEF LandingCallback

(* Teleoperation.                                                            *)
LEMMA TeleopTypes ==
  ASSUME Types,
         TeleopUser \/ NoticeShows \/ \E i \in DOMAIN calls : TeleopCallback(i)
  PROVE  Types'
<1>0. /\ ServerOK /\ TabOK /\ CallsOK /\ StreamsOK /\ index \in {0, 1}
      /\ page \in Pages /\ calls \in Seq(Request)
  BY CallsTyped DEF Types, TabOK
<1>1. ASSUME ClickBack \/ LeaveTeleop PROVE Types'
  <2>1. page.at = "teleop" /\ page \in TeleopState
    BY <1>0, <1>1, PageIs DEF ClickBack, LeaveTeleop, OnTeleop
  <2>2. CASE Opens(Landing, calls)
    <3>1. mount' \in Nat \ {0} /\ page' \in Pages /\ CallsOK' /\ StreamsOK'
      BY <1>0, <2>2, OpensOK, PagesOK DEF TabOK
    <3> QED
      BY <1>0, <1>1, <3>1
      DEF ClickBack, LeaveTeleop, Types, ServerOK, server, service, TabOK
  <2>3. CASE ~Opens(Landing, calls)
    <3>1. Sent("stop-teleop", "back") \in Seq(Mine)
      BY <1>0, <2>1, SendsOK DEF OpsOf, Args, Exits
    <3>2. page' \in TeleopState /\ page'.at = page.at /\ mount' = mount
          /\ calls' = Sent("stop-teleop", "back") /\ UNCHANGED streams
      BY <1>1, <2>1, <2>3
      DEF ClickBack, LeaveTeleop, TeleopState, Sends
    <3> QED
      BY <1>0, <1>1, <3>1, <3>2, MineStays
      DEF ClickBack, LeaveTeleop, Types, ServerOK, server, service, TabOK,
          CallsOK, StreamsOK, Pages
  <2> QED  BY <2>2, <2>3
<1>2. ASSUME NEW p \in {Teleop, Landing}, Reload(p) PROVE Types'
  <2>1. p \in Pages
    BY <1>0, PagesOK DEF TabOK
  <2> DEFINE m == FreshMount(calls)
             T == Heard(m, p.at)
             K == {i \in DOMAIN calls : calls[i].at = "sent"}
             unread == Subsequence(calls, K)
  <2>2. m \in Nat \ {0}
    BY <1>0, FreshMountOK
  <2>3. unread \in Seq(Request)
    BY <1>0, SubsequenceDerived
  <2>4. Outliving \in Seq(T)
    <3>1. Outliving = [k \in DOMAIN unread |-> [unread[k] EXCEPT !.mount = 0]]
      BY DEF Outliving
    <3>2. ASSUME NEW k \in DOMAIN unread
          PROVE  [unread[k] EXCEPT !.mount = 0] \in T
      <4>1. unread[k] \in Request
        BY <2>3
      <4> QED  BY <2>2, <4>1 DEF Heard, Request, AnyCall
    <3>3. DOMAIN unread = 1..Len(unread) /\ Len(unread) \in Nat
      BY <2>3
    <3> HIDE DEF unread, T
    <3> QED  BY <3>1, <3>2, <3>3
  <2>5. Call("stop-teleop", "hide", 0) \in T
    <3>1. Call("stop-teleop", "hide", 0) \in Request
      BY CallOK DEF Ops, Args, Exits
    <3> QED  BY <2>2, <3>1 DEF Heard, Call
  <2>6. FirstCalls(p, m) \in Seq(T)
    BY <2>1, <2>2, FirstCallsOK
  <2>7. /\ mount' = m /\ page' = p
        /\ calls' = Append(Outliving, Call("stop-teleop", "hide", 0))
                      \o FirstCalls(p, m)
        /\ streams' = NoStreams /\ notice' = TRUE
    BY <1>2 DEF Reload
  <2>8. calls' \in Seq(T)
    <3> HIDE DEF m, T
    <3> QED  BY <2>4, <2>5, <2>6, <2>7
  <2>9. Mine' = T
    BY <2>7 DEF Mine
  <2>10. StreamsOK'
    BY <2>7 DEF StreamsOK, NoStreams, StreamIds
  <2> QED
    BY <1>0, <1>2, <2>1, <2>2, <2>7, <2>8, <2>9, <2>10
    DEF Reload, Types, ServerOK, server, service, TabOK, CallsOK
<1>3. ASSUME NEW i \in DOMAIN calls, StopArrives(i) PROVE Types'
  <2>1. Rest(i) \in Seq(Mine) /\ Rest(i) \in Seq(Request)
    BY <1>0, RestOK
  <2>2. mount' \in Nat \ {0} /\ page' \in Pages /\ CallsOK' /\ StreamsOK'
    BY <1>0, <1>3, <2>1, GoesHomeOK, MineStays
    DEF StopArrives, TabOK, CallsOK, StreamsOK
  <2> QED
    BY <1>0, <1>3, <2>2
    DEF StopArrives, Types, ServerOK, server, service, TabOK
<1>4. ASSUME NEW i \in DOMAIN calls, AnswerLost(i) PROVE Types'
  <2>1. calls' = Rest(i) /\ UNCHANGED <<server, tab, cameras>>
    BY <1>4 DEF AnswerLost
  <2>2. Rest(i) \in Seq(Mine)
    BY <1>0, RestOK
  <2>3. /\ mount' = mount /\ page' = page /\ stored' \in Names
        /\ notice' \in BOOLEAN /\ clicks' \in Nat
    BY <1>0, <2>1 DEF TabOK, tab
  <2>4. StreamsOK' /\ index' \in {0, 1}
    BY <1>0, <2>1 DEF StreamsOK, cameras
  <2> QED
    BY <1>0, <2>1, <2>2, <2>3, <2>4, PageStepTypes
<1>5. ASSUME NoticeShows PROVE Types'
  BY <1>0, <1>5, MineStays
  DEF NoticeShows, Types, ServerOK, server, service, TabOK, CallsOK,
      StreamsOK, cameras
<1>6. ASSUME NEW on \in BOOLEAN, SwitchFeeds(on) PROVE Types'
  <2>1. page' \in TeleopState /\ page'.at = page.at
    BY <1>0, <1>6, PageIs DEF SwitchFeeds, OnTeleop, TeleopState
  <2>2. StreamsOK'
    BY <1>0, <1>6, AsksOK DEF SwitchFeeds, StreamsOK, Dropped
  <2> QED
    BY <1>0, <1>6, <2>1, <2>2, MineStays
    DEF SwitchFeeds, Types, ServerOK, server, service, TabOK, CallsOK, Pages
<1>7. ASSUME RetryFeeds PROVE Types'
  <2>1. Dropped \in [mine : {0} \cup StreamIds, asked : SUBSET StreamIds,
                     live : SUBSET StreamIds, retry : BOOLEAN,
                     failed : BOOLEAN]
    BY <1>0 DEF StreamsOK, Dropped
  <2>2. StreamsOK'
    BY <1>7, <2>1, AsksOK DEF RetryFeeds
  <2> QED
    BY <1>0, <1>7, <2>2, MineStays
    DEF RetryFeeds, Types, ServerOK, server, service, TabOK, tab, CallsOK
<1> QED
  BY <1>1, <1>2, <1>3, <1>4, <1>5, <1>6, <1>7 DEF TeleopUser, TeleopCallback

(* The recording page.                                                       *)
LEMMA RecordingTypes ==
  ASSUME Types,
         RecordingUser \/ Poll \/ \E i \in DOMAIN calls : RecordingCallback(i)
  PROVE  Types'
<1>0. /\ ServerOK /\ TabOK /\ CallsOK /\ StreamsOK /\ index \in {0, 1}
      /\ page \in Pages /\ calls \in Seq(Request)
  BY CallsTyped DEF Types, TabOK
<1>1. ASSUME NEW i \in DOMAIN calls, ForThisMount(i),
             calls[i].op \in OpsOf("recording")
      PROVE  page.at = "recording" /\ page \in RecordingState
  BY <1>0, <1>1, HeardHere, PageIs
  DEF OpsOf, Pages, LandingState, TeleopState, RecordingState, UploadState,
      Elsewhere
<1>2. \A i \in DOMAIN calls :
        Rest(i) \in Seq(Mine) /\ Rest(i) \in Seq(Request)
        /\ calls[i] \in Request
  BY <1>0, RestOK, Typed
<1>3. ASSUME Poll PROVE Types'
  <2>1. page.at = "recording" /\ page \in RecordingState
    BY <1>0, <1>3, PageIs DEF Poll, OnRecording
  <2>2. Sent("status", page.own) \in Seq(Mine)
    BY <1>0, <2>1, SendsOK DEF OpsOf, Args, RecordingState
  <2> QED
    BY <1>0, <1>3, <2>2, MineStays
    DEF Poll, Types, ServerOK, server, service, TabOK, tab, CallsOK,
        StreamsOK, cameras
<1>4. ASSUME NEW i \in DOMAIN calls, RecordArrives(i) PROVE Types'
  <2>1. calls[i].op = "record" /\ calls[i].seen \in Status
    BY <1>2, <1>4 DEF RecordArrives, Arrives, Request
  <2>2. CASE ~calls[i].ok
    <3>1. GoesHome(Rest(i))
      BY <1>4, <2>2 DEF RecordArrives
    <3>2. mount' \in Nat \ {0} /\ page' \in Pages /\ CallsOK' /\ StreamsOK'
      BY <1>0, <1>2, <3>1, GoesHomeOK
    <3> QED
      BY <1>0, <1>4, <3>2
      DEF RecordArrives, Types, ServerOK, server, service, TabOK
  <2>3. CASE calls[i].ok
    <3>1. page' \in Pages /\ page'.at = page.at
      <4>1. CASE ForThisMount(i)
        <5>1. page \in RecordingState
          BY <1>1, <2>1, <4>1 DEF OpsOf
        <5>2. page' = [page EXCEPT !.started = TRUE, !.index = 0,
                                   !.own = calls[i].seen.session]
          BY <1>4, <2>3, <4>1 DEF RecordArrives
        <5>3. calls[i].seen.session \in Nat
          BY <2>1 DEF Status
        <5>4. page' \in RecordingState
          BY <5>1, <5>2, <5>3 DEF RecordingState
        <5> QED  BY <5>1, <5>4 DEF RecordingState, Pages
      <4>2. CASE ~ForThisMount(i)
        BY <1>0, <1>4, <2>3, <4>2 DEF RecordArrives
      <4> QED  BY <4>1, <4>2
    <3>2. /\ calls' = Rest(i)
          /\ UNCHANGED <<server, mount, stored, notice, clicks, index>>
          /\ UNCHANGED streams
      BY <1>4, <2>3 DEF RecordArrives
    <3>3. Rest(i) \in Seq(Mine)
      BY <1>0, RestOK
    <3>4. /\ stored' \in Names /\ notice' \in BOOLEAN /\ clicks' \in Nat
          /\ StreamsOK' /\ index' \in {0, 1}
      BY <1>0, <3>2 DEF TabOK, StreamsOK
    <3> QED
      BY <1>0, <3>1, <3>2, <3>3, <3>4, PageStepTypes
  <2> QED  BY <2>2, <2>3
<1>5. ASSUME NEW i \in DOMAIN calls, StatusArrives(i) PROVE Types'
  <2>1. /\ calls[i].op = "status" /\ calls[i].seen \in Status
        /\ calls[i].arg \in Nat
    BY <1>2, <1>5 DEF StatusArrives, FollowsStatus, Arrives, Request, Args
  <2>2. CASE ~SessionEnded(calls[i].seen)
    <3>1. page' \in Pages /\ page'.at = page.at
      <4>1. CASE ForThisMount(i)
        <5>1. page \in RecordingState
          BY <1>1, <2>1, <4>1 DEF OpsOf
        <5> DEFINE s == calls[i].seen
                   hope == IF page.hoped = s.phase THEN "none" ELSE page.hoped
        <5>2. page' = [page EXCEPT !.shown = s, !.hoped = hope]
          BY <1>5, <2>2, <4>1, <5>1
          DEF StatusArrives, FollowsStatus, RecordingState
        <5>3. hope \in Phases \cup {"none"}
          BY <5>1 DEF RecordingState
        <5> HIDE DEF hope
        <5>4. page' \in RecordingState
          BY <2>1, <5>1, <5>2, <5>3 DEF RecordingState
        <5> QED  BY <5>1, <5>4 DEF RecordingState, Pages
      <4>2. CASE ~ForThisMount(i)
        BY <1>0, <1>5, <2>2, <4>2 DEF StatusArrives, FollowsStatus
      <4> QED  BY <4>1, <4>2
    <3>2. /\ calls' = Rest(i)
          /\ UNCHANGED <<server, mount, stored, notice, clicks, index>>
          /\ UNCHANGED streams
      BY <1>5, <2>2 DEF StatusArrives, FollowsStatus
    <3>3. Rest(i) \in Seq(Mine)
      BY <1>2
    <3>4. /\ stored' \in Names /\ notice' \in BOOLEAN /\ clicks' \in Nat
          /\ StreamsOK' /\ index' \in {0, 1}
      BY <1>0, <3>2 DEF TabOK, StreamsOK
    <3> QED
      BY <1>0, <3>1, <3>2, <3>3, <3>4, PageStepTypes
  <2>3. CASE SessionEnded(calls[i].seen)
    <3>1. \/ GoesHome(Rest(i))
          \/ GoesToUpload(calls[i].seen.session, calls[i].arg, Rest(i))
      BY <1>5, <2>3 DEF StatusArrives, FollowsStatus
    <3>2. mount' \in Nat \ {0} /\ page' \in Pages /\ CallsOK' /\ StreamsOK'
      <4>1. CASE GoesHome(Rest(i))
        BY <1>0, <1>2, <4>1, GoesHomeOK
      <4> DEFINE d == calls[i].seen.session
      <4>2. d \in Nat
        BY <2>1 DEF Status
      <4>3. CASE GoesToUpload(d, calls[i].arg, Rest(i)) /\ page.at # "upload"
        <5>1. Upload(d, calls[i].arg, FALSE) \in Pages
          BY <2>1, <4>2, PagesOK
        <5> QED
          BY <1>0, <1>2, <4>3, <5>1, OpensOK DEF GoesToUpload
      <4>4. CASE GoesToUpload(d, calls[i].arg, Rest(i)) /\ page.at = "upload"
        <5>1. page \in UploadState
          BY <1>0, <4>4, PageIs
        <5>2. page' \in UploadState /\ page'.at = page.at
          BY <2>1, <4>2, <4>4, <5>1 DEF GoesToUpload, UploadState
        <5>3. Call("info", d, mount) \in Request
          BY <1>0, <4>2, CallOK DEF TabOK, Ops, Args
        <5>4. Call("info", d, mount) \in Mine
          BY <4>4, <5>3 DEF Mine, Heard, OpsOf, Call
        <5>5. calls' \in Seq(Mine)
          BY <1>2, <4>4, <5>4 DEF GoesToUpload
        <5> QED
          BY <1>0, <4>4, <5>2, <5>5, MineStays
          DEF GoesToUpload, TabOK, CallsOK, StreamsOK, Pages
      <4> QED  BY <3>1, <4>1, <4>3, <4>4
    <3> QED
      BY <1>0, <1>5, <3>2
      DEF StatusArrives, FollowsStatus, Types, ServerOK, server, service,
          TabOK
  <2> QED  BY <2>2, <2>3
<1>6. ASSUME NEW i \in DOMAIN calls, ExitArrives(i) PROVE Types'
  <2>1. calls[i].op = "exit"
    BY <1>6 DEF ExitArrives, Arrives
  <2>2. page' \in Pages /\ page'.at = page.at
    <3>1. CASE ForThisMount(i)
      <4>1. page \in RecordingState
        BY <1>1, <2>1, <3>1 DEF OpsOf
      <4> QED  BY <1>6, <3>1, <4>1 DEF ExitArrives, RecordingState, Pages
    <3> QED  BY <1>0, <1>6, <3>1 DEF ExitArrives
  <2> QED
    BY <1>0, <1>2, <1>6, <2>2, MineStays
    DEF ExitArrives, Types, ServerOK, server, service, TabOK, CallsOK,
        StreamsOK, cameras
<1>7. ASSUME NEW i \in DOMAIN calls, ToastArrives(i) PROVE Types'
  BY <1>0, <1>2, <1>7, MineStays
  DEF ToastArrives, Types, ServerOK, server, service, TabOK, tab, CallsOK,
      StreamsOK, cameras
<1>8. ASSUME LeaveRecording PROVE Types'
  <2>1. mount' \in Nat \ {0} /\ page' \in Pages /\ CallsOK' /\ StreamsOK'
    BY <1>0, <1>8, OpensOK, PagesOK DEF LeaveRecording, TabOK
  <2> QED
    BY <1>0, <1>8, <2>1
    DEF LeaveRecording, Types, ServerOK, server, service, TabOK
<1>9. ASSUME \/ ClickAdvance \/ ClickRerecord \/ AskStop
             \/ \E yes \in BOOLEAN : AnswerStop(yes)
      PROVE  Types'
  <2>1. page.at = "recording" /\ page \in RecordingState
    BY <1>0, <1>9, PageIs
    DEF ClickAdvance, ClickRerecord, AskStop, AnswerStop, Asking, Free,
        Connected, OnRecording
  <2>2. /\ Sent("exit", 0) \in Seq(Mine) /\ Sent("rerecord", 0) \in Seq(Mine)
        /\ Sent("stop", 0) \in Seq(Mine)
    BY <1>0, <2>1, SendsOK DEF OpsOf, Args
  <2>3. calls' \in Seq(Mine) /\ UNCHANGED <<mount, streams>>
    BY <1>0, <1>9, <2>2
    DEF ClickAdvance, ClickRerecord, AskStop, AnswerStop, Sends, CallsOK,
        tab, cameras
  <2>4. page' \in RecordingState
    <3>1. After(CurrentPhase) \in Phases
      BY DEF After, Phases
    <3> QED
      BY <1>9, <2>1, <3>1
      DEF ClickAdvance, ClickRerecord, AskStop, AnswerStop, RecordingState,
          tab
  <2>5. page'.at = page.at
    BY <2>1, <2>4 DEF RecordingState
  <2> QED
    BY <1>0, <1>9, <2>3, <2>4, <2>5, MineStays
    DEF ClickAdvance, ClickRerecord, AskStop, AnswerStop, Types, ServerOK,
        server, service, TabOK, tab, CallsOK, StreamsOK, Pages, cameras
<1> QED
  BY <1>3, <1>4, <1>5, <1>6, <1>7, <1>8, <1>9
  DEF RecordingUser, RecordingCallback

(* The upload page.                                                          *)
LEMMA UploadTypes ==
  ASSUME Types,
         UploadUser \/ \E i \in DOMAIN calls : UploadCallback(i)
  PROVE  Types'
<1>0. /\ ServerOK /\ TabOK /\ CallsOK /\ StreamsOK /\ index \in {0, 1}
      /\ page \in Pages /\ calls \in Seq(Request)
  BY CallsTyped DEF Types, TabOK
<1>1. ASSUME NEW i \in DOMAIN calls, ForThisMount(i),
             calls[i].op \in OpsOf("upload")
      PROVE  page.at = "upload" /\ page \in UploadState
  BY <1>0, <1>1, HeardHere, PageIs
  DEF OpsOf, Pages, LandingState, TeleopState, RecordingState, UploadState,
      Elsewhere
<1>2. \A i \in DOMAIN calls :
        Rest(i) \in Seq(Mine) /\ Rest(i) \in Seq(Request)
        /\ calls[i] \in Request
  BY <1>0, RestOK, Typed
<1>3. ASSUME NEW i \in DOMAIN calls, InfoArrives(i) \/ UploadArrives(i)
      PROVE  Types'
  <2>1. calls[i].op \in {"info", "upload"} /\ calls[i].ok \in BOOLEAN
    BY <1>2, <1>3 DEF InfoArrives, UploadArrives, Arrives, Request, AnyCall
  <2>2. page' \in Pages /\ page'.at = page.at
    <3>1. CASE ForThisMount(i)
      <4>1. page \in UploadState
        BY <1>1, <2>1, <3>1 DEF OpsOf
      <4>2. CASE InfoArrives(i)
        <5>1. page' = [page EXCEPT !.loaded = TRUE]
          BY <3>1, <4>2 DEF InfoArrives
        <5> QED  BY <4>1, <5>1 DEF UploadState, Pages
      <4>3. CASE UploadArrives(i)
        <5>1. page' = [page EXCEPT !.busy = @ \ {"upload"},
                                   !.uploaded = @ \/ calls[i].ok]
          BY <3>1, <4>3 DEF UploadArrives
        <5>2. page.uploaded \/ calls[i].ok \in BOOLEAN
          BY <2>1, <4>1 DEF UploadState
        <5> QED  BY <4>1, <5>1, <5>2 DEF UploadState, Pages
      <4> QED  BY <1>3, <4>2, <4>3
    <3>2. CASE ~ForThisMount(i)
      BY <1>0, <1>3, <3>2 DEF InfoArrives, UploadArrives
    <3> QED  BY <3>1, <3>2
  <2> QED
    BY <1>0, <1>2, <1>3, <2>2, MineStays
    DEF InfoArrives, UploadArrives, Types, ServerOK, server, service, TabOK,
        CallsOK, StreamsOK, cameras
<1>4. ASSUME NEW i \in DOMAIN calls, DiscardArrives(i) PROVE Types'
  <2>1. calls[i].op = "discard"
    BY <1>4 DEF DiscardArrives, Arrives
  <2>2. CASE calls[i].ok
    <3>1. GoesHome(Rest(i))
      BY <1>4, <2>2 DEF DiscardArrives
    <3>2. mount' \in Nat \ {0} /\ page' \in Pages /\ CallsOK' /\ StreamsOK'
      BY <1>0, <1>2, <3>1, GoesHomeOK
    <3> QED
      BY <1>0, <1>4, <3>2
      DEF DiscardArrives, Types, ServerOK, server, service, TabOK
  <2>3. CASE ~calls[i].ok
    <3>1. page' \in Pages /\ page'.at = page.at
      <4>1. CASE ForThisMount(i)
        <5>1. page \in UploadState
          BY <1>1, <2>1, <4>1 DEF OpsOf
        <5>2. page' = [page EXCEPT !.busy = @ \ {"discard"},
                                   !.confirm = FALSE]
          BY <1>4, <2>3, <4>1 DEF DiscardArrives
        <5> QED  BY <5>1, <5>2 DEF UploadState, Pages
      <4>2. CASE ~ForThisMount(i)
        BY <1>0, <1>4, <2>3, <4>2 DEF DiscardArrives
      <4> QED  BY <4>1, <4>2
    <3> QED
      BY <1>0, <1>2, <1>4, <2>3, <3>1, MineStays
      DEF DiscardArrives, Types, ServerOK, server, service, TabOK, CallsOK,
          StreamsOK
  <2> QED  BY <2>2, <2>3
<1>5. ASSUME LeaveUpload \/ GoToTraining PROVE Types'
  <2>1. mount' \in Nat \ {0} /\ page' \in Pages /\ CallsOK' /\ StreamsOK'
    BY <1>0, <1>5, OpensOK, PagesOK DEF LeaveUpload, GoToTraining, TabOK
  <2> QED
    BY <1>0, <1>5, <2>1
    DEF LeaveUpload, GoToTraining, Types, ServerOK, server, service, TabOK
<1>6. ASSUME \/ ClickUpload \/ AskDelete
             \/ \E yes \in BOOLEAN : AnswerDelete(yes)
      PROVE  Types'
  <2>1. page.at = "upload" /\ page \in UploadState
    BY <1>0, <1>6, PageIs
    DEF ClickUpload, UploadOffered, AskDelete, AnswerDelete, DeleteAsked,
        OnUpload
  <2>2. /\ Sent("upload", page.dataset) \in Seq(Mine)
        /\ Sent("discard", page.dataset) \in Seq(Mine)
    BY <1>0, <2>1, SendsOK DEF OpsOf, Args, UploadState
  <2>3. calls' \in Seq(Mine)
    BY <1>0, <1>6, <2>2
    DEF ClickUpload, AskDelete, AnswerDelete, Sends, CallsOK
  <2>4. page' \in UploadState
    <3>1. \/ page' = [page EXCEPT !.busy = @ \cup {"upload"}]
          \/ page' = [page EXCEPT !.confirm = TRUE]
          \/ page' = [page EXCEPT !.confirm = FALSE,
                                  !.busy = @ \cup {"discard"}]
          \/ page' = [page EXCEPT !.confirm = FALSE]
      BY <1>6 DEF ClickUpload, AskDelete, AnswerDelete
    <3>2. \A b \in SUBSET {"upload", "discard"}, yes \in BOOLEAN :
            [page EXCEPT !.confirm = yes, !.busy = b] \in UploadState
      BY <2>1 DEF UploadState
    <3>3. \E b \in SUBSET {"upload", "discard"}, yes \in BOOLEAN :
            page' = [page EXCEPT !.confirm = yes, !.busy = b]
      <4>1. /\ page.busy \in SUBSET {"upload", "discard"}
            /\ page.confirm \in BOOLEAN
        BY <2>1 DEF UploadState
      <4>2. CASE page' = [page EXCEPT !.busy = @ \cup {"upload"}]
        <5>1. page' = [page EXCEPT !.confirm = page.confirm,
                                   !.busy = page.busy \cup {"upload"}]
          BY <2>1, <4>2 DEF UploadState
        <5> QED  BY <4>1, <5>1
      <4>3. CASE page' = [page EXCEPT !.confirm = TRUE]
        <5>1. page' = [page EXCEPT !.confirm = TRUE, !.busy = page.busy]
          BY <2>1, <4>3 DEF UploadState
        <5> QED  BY <4>1, <5>1
      <4>4. CASE page' = [page EXCEPT !.confirm = FALSE,
                                      !.busy = @ \cup {"discard"}]
        <5>1. page' = [page EXCEPT !.confirm = FALSE,
                                   !.busy = page.busy \cup {"discard"}]
          BY <4>4
        <5> QED  BY <4>1, <5>1
      <4>5. CASE page' = [page EXCEPT !.confirm = FALSE]
        <5>1. page' = [page EXCEPT !.confirm = FALSE, !.busy = page.busy]
          BY <2>1, <4>5 DEF UploadState
        <5> QED  BY <4>1, <5>1
      <4> QED  BY <3>1, <4>2, <4>3, <4>4, <4>5
    <3> QED  BY <3>2, <3>3
  <2>5. page'.at = page.at
    BY <2>1, <2>4 DEF UploadState
  <2> QED
    BY <1>0, <1>6, <2>3, <2>4, <2>5, MineStays
    DEF ClickUpload, AskDelete, AnswerDelete, Types, ServerOK, server,
        service, TabOK, CallsOK, StreamsOK, Pages, cameras
<1> QED
  BY <1>3, <1>4, <1>5, <1>6 DEF UploadUser, UploadCallback, SkipUpload

(* The server.                                                               *)
LEMMA ServerTypes ==
  ASSUME Types, Server
  PROVE  Types'
<1>0. /\ ServerOK /\ TabOK /\ CallsOK /\ StreamsOK /\ index \in {0, 1}
      /\ page \in Pages /\ calls \in Seq(Request)
      /\ NoStatus \in Status
      /\ \A i \in DOMAIN calls : calls[i] \in Request
  BY CallsTyped, Typed, NoStatusOK DEF Types, TabOK
<1>1. ASSUME NEW i \in DOMAIN calls,
             ListsRobots(i) \/ ReportsStatus(i)
      PROVE  Types'
  <2>1. /\ [NoStatus EXCEPT !.robots = robots] \in Status
        /\ [NoStatus EXCEPT !.active = active, !.phase = phase, !.kept = kept,
                            !.session = session] \in Status
    BY <1>0 DEF Status, ServerOK
  <2>2. calls' \in Seq(Mine)
    BY <1>0, <1>1, <2>1, AnswersOK DEF ListsRobots, ReportsStatus
  <2> QED
    BY <1>0, <1>1, <2>2, MineStays
    DEF ListsRobots, ReportsStatus, Types, ServerOK, server, service, TabOK,
        tab, CallsOK, StreamsOK, cameras
<1>2. ASSUME NEW i \in DOMAIN calls, CreatesRobot(i) \/ DeletesRobot(i)
      PROVE  Types'
  <2>1. calls' \in Seq(Mine)
    BY <1>0, <1>2, AnswersOK DEF CreatesRobot, DeletesRobot
  <2>2. robots' \in Conditions
    BY <1>0, <1>2 DEF CreatesRobot, DeletesRobot, ServerOK, Conditions
  <2> QED
    BY <1>0, <1>2, <2>1, <2>2, MineStays
    DEF CreatesRobot, DeletesRobot, Types, ServerOK, service, TabOK, tab,
        CallsOK, StreamsOK, cameras
<1>3. ASSUME NEW i \in DOMAIN calls, StartsTeleop(i) \/ StopsTeleop(i)
      PROVE  Types'
  <2>1. calls' \in Seq(Mine)
    BY <1>0, <1>3, AnswersOK DEF StartsTeleop, StopsTeleop, ServerOK
  <2> QED
    BY <1>0, <1>3, <2>1, MineStays
    DEF StartsTeleop, StopsTeleop, Types, ServerOK, service, TabOK, tab,
        CallsOK, StreamsOK, cameras
<1>4. ASSUME NEW i \in DOMAIN calls, StartsRecording(i) PROVE Types'
  <2>1. session' \in Nat
    <3>1. session' = session + 1 \/ session' = session
      BY <1>4 DEF StartsRecording, service
    <3> QED  BY <1>0, <3>1 DEF ServerOK
  <2>2. [NoStatus EXCEPT !.session = session'] \in Status
    BY <1>0, <2>1 DEF Status
  <2>3. calls' \in Seq(Mine)
    BY <1>0, <1>4, <2>2, AnswersOK DEF StartsRecording
  <2>4. active' \in BOOLEAN /\ phase' \in Phases /\ kept' \in Nat
    <3>1. \/ active' = TRUE /\ phase' = "preparing" /\ kept' = 0
          \/ active' = FALSE /\ phase' = "preparing" /\ kept' = 0
          \/ active' = active /\ phase' = phase /\ kept' = kept
      BY <1>4 DEF StartsRecording, StartFails, BeginSession, service
    <3>2. active' \in BOOLEAN
      BY <1>0, <3>1 DEF ServerOK
    <3>3. phase' \in Phases
      BY <1>0, <3>1 DEF ServerOK, Phases
    <3>4. kept' \in Nat
      BY <1>0, <3>1 DEF ServerOK
    <3> QED  BY <3>2, <3>3, <3>4
  <2> QED
    BY <1>0, <1>4, <2>1, <2>3, <2>4, MineStays
    DEF StartsRecording, tab, Types, ServerOK, TabOK, CallsOK, StreamsOK, cameras
<1>5. ASSUME NEW i \in DOMAIN calls, TakesEvent(i) \/ StopsRecording(i)
      PROVE  Types'
  <2>1. calls' \in Seq(Mine)
    BY <1>0, <1>5, AnswersOK DEF TakesEvent, StopsRecording, ServerOK
  <2>2. active' \in BOOLEAN /\ phase' \in Phases /\ kept' \in Nat
    <3>1. \/ UNCHANGED <<active, phase, kept>>
          \/ phase' = "stopping" /\ UNCHANGED <<active, kept>>
      BY <1>5
      DEF TakesEvent, StopsRecording, ChangePhase, server, service
    <3> QED  BY <1>0, <3>1 DEF ServerOK, Phases
  <2> QED
    BY <1>0, <1>5, <2>1, <2>2, MineStays
    DEF TakesEvent, StopsRecording, Types, ServerOK, server, TabOK, tab,
        CallsOK, StreamsOK, cameras
<1>6. ASSUME NEW i \in DOMAIN calls,
             ReadsInfo(i) \/ UploadsDataset(i) \/ DeletesDataset(i)
      PROVE  Types'
  <2>1. \E ok \in BOOLEAN : Answers(i, ok, NoStatus)
    <3>1. (calls[i].arg \in disk) \in BOOLEAN
      OBVIOUS
    <3> QED
      BY <1>6, <3>1 DEF ReadsInfo, UploadsDataset, DeletesDataset
  <2>2. calls' \in Seq(Mine)
    BY <1>0, <2>1, AnswersOK
  <2> QED
    BY <1>0, <1>6, <2>2, MineStays
    DEF ReadsInfo, UploadsDataset, DeletesDataset, Types, ServerOK, server,
        service, TabOK, tab, CallsOK, StreamsOK, cameras
<1>7. ASSUME NEW i \in DOMAIN calls, ListsCameras(i) PROVE Types'
  <2>0. PICK found \in BOOLEAN :
          calls' = Append(Rest(i), [calls[i] EXCEPT !.at = "answered",
                                      !.ok = found,
                                      !.arg = IF found THEN index ELSE @])
    BY <1>7 DEF ListsCameras
  <2> DEFINE k == IF found THEN index ELSE calls[i].arg
             c == [calls[i] EXCEPT !.at = "answered", !.ok = found, !.arg = k]
  <2>1. c \in Mine
    <3>1. calls[i].op = "cameras" /\ calls[i] \in Mine
      BY <1>0, <1>7, Typed DEF ListsCameras, Begins
    <3>2. k \in AnyArg /\ k \in Args("cameras")
      BY <1>0, <3>1 DEF AnyArg, Args, Mine, Heard, Request
    <3> HIDE DEF k
    <3>3. c \in AnyCall /\ c.op = "cameras" /\ c.arg = k
          /\ c.mount = calls[i].mount
      BY <2>0, <3>1, <3>2 DEF Mine, Heard, Request, AnyCall
    <3> QED  BY <3>1, <3>2, <3>3 DEF Mine, Heard, Request
  <2>2. calls' = Append(Rest(i), c)
    BY <1>0, <2>0 DEF Request, AnyCall
  <2>3. calls' \in Seq(Mine)
    BY <1>0, <2>1, <2>2, RestOK
  <2> QED
    BY <1>0, <1>7, <2>3, MineStays
    DEF ListsCameras, Types, ServerOK, server, service, TabOK, tab, CallsOK,
        StreamsOK, cameras
<1>8. ASSUME SessionGoesOn PROVE Types'
  <2>1. active' \in BOOLEAN /\ phase' \in Phases /\ kept' \in Nat
    <3>1. CASE KeepEpisode
      BY <1>0, <3>1 DEF KeepEpisode, ServerOK
    <3>4. CASE EndSession
      BY <1>0, <3>4 DEF EndSession, ServerOK
    <3>2. ASSUME NEW to \in {"recording", "resetting", "completed", "error"},
                 ChangePhase(to)
          PROVE  /\ active' \in BOOLEAN /\ phase' \in Phases
                 /\ kept' \in Nat
      <4>1. to \in Phases
        BY DEF Phases
      <4> QED  BY <1>0, <3>2, <4>1 DEF ChangePhase, ServerOK
    <3> QED  BY <1>8, <3>1, <3>2, <3>4 DEF SessionGoesOn
  <2> QED
    BY <1>0, <1>8, <2>1, MineStays
    DEF SessionGoesOn, Types, ServerOK, TabOK, tab, CallsOK, StreamsOK,
        cameras
<1>9. ASSUME TeleopBreaks PROVE Types'
  BY <1>0, <1>9, MineStays
  DEF TeleopBreaks, Types, ServerOK, service, TabOK, tab, CallsOK, StreamsOK,
      cameras
<1>10. ASSUME NEW i \in DOMAIN calls, ConnectionFails(i) PROVE Types'
  <2>1. calls' \in Seq(Mine)
    BY <1>0, <1>10, AnswersOK DEF ConnectionFails
  <2> QED
    BY <1>0, <1>10, <2>1, MineStays
    DEF ConnectionFails, Types, ServerOK, server, service, TabOK, tab,
        CallsOK, StreamsOK, cameras
<1> QED
  BY <1>1, <1>2, <1>3, <1>4, <1>5, <1>6, <1>7, <1>8, <1>9, <1>10
  DEF Server, Serves

(* The cables and the camera.                                                *)
LEMMA CableTypes ==
  ASSUME Types, \/ \E k \in {0, 1} : DeviceChanges(k)
                \/ Streams \/ ComeBack
  PROVE  Types'
<1>0. /\ ServerOK /\ TabOK /\ CallsOK /\ StreamsOK /\ index \in {0, 1}
      /\ page \in Pages /\ calls \in Seq(Request)
  BY CallsTyped DEF Types, TabOK
<1>1. ASSUME NEW k \in {0, 1}, DeviceChanges(k) PROVE Types'
  <2>1. calls' \in Seq(Mine)
    <3>1. CASE OnLanding
      <4>1. Sent("cameras", 0) \in Seq(Mine)
        BY <1>0, <3>1, SendsOK DEF OnLanding, OpsOf, Args
      <4> QED  BY <1>0, <1>1, <4>1 DEF DeviceChanges, Sends, CallsOK
    <3>2. CASE ~OnLanding
      BY <1>0, <1>1, <3>2 DEF DeviceChanges, CallsOK
    <3> QED  BY <3>1, <3>2
  <2>2. StreamsOK'
    BY <1>0, <1>1, AsksOK DEF DeviceChanges, StreamsOK
  <2>3. /\ UNCHANGED <<server, mount, page, stored, notice, clicks>>
        /\ index' = k
    BY <1>1 DEF DeviceChanges, tab
  <2>4. /\ mount' = mount /\ page' = page /\ stored' \in Names
        /\ notice' \in BOOLEAN /\ clicks' \in Nat
    BY <1>0, <2>3 DEF TabOK
  <2> QED
    BY <1>0, <2>1, <2>2, <2>3, <2>4, PageStepTypes
<1>2. ASSUME Streams PROVE Types'
  <2>1. StreamsOK'
    <3>1. ASSUME NEW n \in StreamIds, StreamComes(n) PROVE StreamsOK'
      <4>1. \/ streams' = [streams EXCEPT !.asked = @ \ {n}]
            \/ streams' = [streams EXCEPT !.asked = @ \ {n},
                                          !.live = @ \cup {n}]
        BY <3>1 DEF StreamComes
      <4>2. /\ streams.asked \ {n} \in SUBSET StreamIds
            /\ streams.live \cup {n} \in SUBSET StreamIds
        BY <1>0 DEF StreamsOK
      <4> HIDE DEF StreamIds
      <4> QED  BY <1>0, <4>1, <4>2 DEF StreamsOK
    <3>2. ASSUME NEW n \in StreamIds, StreamRefused(n) PROVE StreamsOK'
      <4> DEFINE rest == streams.asked \ {n}
      <4>1. rest \in SUBSET StreamIds /\ n # 0
        BY <1>0 DEF StreamsOK, StreamIds
      <4>2. \/ streams' = [streams EXCEPT !.asked = rest]
            \/ /\ streams' = [streams EXCEPT !.asked = rest, !.retry = TRUE]
               /\ n = streams.mine
            \/ streams' = [streams EXCEPT !.asked = rest, !.failed = TRUE]
        BY <1>0, <3>2 DEF StreamRefused, StreamsOK
      <4> HIDE DEF rest
      <4> QED  BY <1>0, <4>1, <4>2 DEF StreamsOK
    <3>3. CASE RetryStream
      <4>1. /\ streams.mine \in {0} \cup StreamIds
            /\ streams' = [streams EXCEPT !.retry = FALSE,
                                          !.asked = @ \cup {streams.mine}]
        BY <1>0, <3>3 DEF RetryStream, StreamsOK
      <4>2. streams.mine \in StreamIds
        BY <1>0, <3>3 DEF RetryStream, StreamsOK
      <4> QED  BY <1>0, <4>1, <4>2 DEF StreamsOK
    <3> QED  BY <1>2, <3>1, <3>2, <3>3 DEF Streams
  <2> QED
    BY <1>0, <1>2, <2>1, MineStays
    DEF Streams, StreamComes, StreamRefused, RetryStream, Types, ServerOK,
        server, service, TabOK, tab, CallsOK
<1>3. ASSUME ComeBack PROVE Types'
  <2>1. mount' \in Nat \ {0} /\ page' \in Pages /\ CallsOK' /\ StreamsOK'
    BY <1>0, <1>3, OpensOK, PagesOK DEF ComeBack, TabOK
  <2> QED
    BY <1>0, <1>3, <2>1
    DEF ComeBack, Types, ServerOK, server, service, TabOK
<1> QED  BY <1>1, <1>2, <1>3

(* Types hold at first, ...                                                  *)
LEMMA TypesInit ==
  Init => Types
<1> SUFFICES ASSUME Init PROVE Types
  OBVIOUS
<1>1. page \in LandingState /\ page.at = "landing" /\ stored = NoRobot
  BY NoStatusOK DEF Init, LandingState, Status, Names
<1>2. calls \in Seq(Mine)
  <2>1. FirstCalls(page, 1) \in Seq(Heard(1, page.at))
    BY <1>1, FirstCallsOK DEF Pages
  <2> QED
    BY <1>1, <2>1 DEF Init, FirstCalls, Mine
<1>3. ServerOK
  BY DEF Init, ServiceInit, ServerOK, Phases, Conditions
<1>4. StreamsOK
  BY DEF Init, NoStreams, StreamsOK
<1>5. TabOK /\ index \in {0, 1}
  <2>1. mount = 1 /\ notice = FALSE /\ clicks = 0 /\ index = 0
    BY DEF Init
  <2>2. notice \in BOOLEAN
    BY <2>1
  <2>3. mount \in Nat \ {0} /\ clicks \in Nat /\ index \in {0, 1}
    BY <2>1
  <2>4. page \in Pages /\ stored \in Names
    BY <1>1 DEF Pages, Names
  <2> QED  BY <2>2, <2>3, <2>4 DEF TabOK
<1> QED  BY <1>2, <1>3, <1>4, <1>5 DEF Types, CallsOK

(* ... and after every step.                                                 *)
LEMMA TypesStep ==
  ASSUME Types, [Next]_vars
  PROVE  Types'
<1>1. CASE UNCHANGED vars
  BY <1>1
  DEF vars, Types, ServerOK, server, service, TabOK, tab, CallsOK, Mine,
      StreamsOK, cameras
<1>2. CASE Next
  BY <1>2, LandingUserTypes, LandingCallbackTypes, TeleopTypes,
     RecordingTypes, UploadTypes, ServerTypes, CableTypes
  DEF Next, User, Callback, Browser
<1> QED  BY <1>1, <1>2

(* Only the dialog's requests for cameras touch what it knows of them, and   *)
(* the start of a session clears it.                                         *)
LEMMA ListedStep ==
  ASSUME [Next]_vars
  PROVE  \/ listed' = listed
         \/ OpenDialog /\ listed' = FALSE
         \/ \E i \in DOMAIN calls : CamerasArrive(i) /\ listed' = calls[i].ok
         \/ \E i \in DOMAIN calls :
              StartsRecording(i) /\ listed' = (listed /\ Pending("wait"))
<1>1. CASE UNCHANGED vars
  BY <1>1 DEF vars, cameras
<1>2. CASE LandingUser
  <2>1. OpenDialog \/ listed' = listed
    BY <1>2
    DEF LandingUser, SelectRobot, CreateRobot, Calibrate, PickDataset,
        DeleteRobot, ClickTeleop, Configure, GoElsewhere, OpenTraining,
        CloseDialog, FillRecording, ClickRecord, cameras
  <2> QED  BY <2>1 DEF OpenDialog
<1>3. ASSUME NEW i \in DOMAIN calls, LandingCallback(i)
      PROVE  listed' = listed \/ (CamerasArrive(i) /\ listed' = calls[i].ok)
  <2>1. CamerasArrive(i) \/ listed' = listed
    BY <1>3
    DEF LandingCallback, ListArrives, CreateArrives, DeleteArrives,
        TeleopStarted, WaitOver, cameras
  <2> QED  BY <2>1 DEF CamerasArrive
<1>4. ASSUME TeleopUser \/ \E i \in DOMAIN calls : TeleopCallback(i)
      PROVE  listed' = listed
  BY <1>4
  DEF TeleopUser, ClickBack, LeaveTeleop, Reload, SwitchFeeds, RetryFeeds,
      TeleopCallback, StopArrives, AnswerLost, cameras
<1>5. ASSUME RecordingUser \/ \E i \in DOMAIN calls : RecordingCallback(i)
      PROVE  listed' = listed
  BY <1>5
  DEF RecordingUser, ClickAdvance, ClickRerecord, AskStop, LeaveRecording,
      AnswerStop, RecordingCallback, RecordArrives, StatusArrives,
      FollowsStatus, ExitArrives, ToastArrives, cameras
<1>6. ASSUME UploadUser \/ \E i \in DOMAIN calls : UploadCallback(i)
      PROVE  listed' = listed
  BY <1>6
  DEF UploadUser, ClickUpload, AskDelete, LeaveUpload, SkipUpload,
      GoToTraining, AnswerDelete, UploadCallback, InfoArrives, UploadArrives,
      DiscardArrives, cameras
<1>7. ASSUME \/ ComeBack \/ Browser
             \/ \E k \in {0, 1} : DeviceChanges(k)
      PROVE  listed' = listed
  BY <1>7
  DEF ComeBack, Browser, DeviceChanges, Streams, StreamComes, StreamRefused,
      RetryStream, NoticeShows, Poll, cameras
<1>8. ASSUME Server
      PROVE  \/ listed' = listed
             \/ \E i \in DOMAIN calls :
                  StartsRecording(i) /\ listed' = (listed /\ Pending("wait"))
  BY <1>8
  DEF Server, Serves, ListsRobots, ReportsStatus, CreatesRobot, DeletesRobot,
      StartsTeleop, StopsTeleop, StartsRecording, TakesEvent, StopsRecording,
      ReadsInfo, UploadsDataset, DeletesDataset, ListsCameras,
      ConnectionFails, SessionGoesOn, TeleopBreaks, cameras
<1> QED
  BY <1>1, <1>2, <1>3, <1>4, <1>5, <1>6, <1>7, <1>8 DEF Next, User, Callback

(* Page, server, streams and requests stay well-formed, and every answer     *)
(* that a page hears is to a request of its own kind.                        *)
THEOREM TypesCorrect == Spec => [](Types /\ listed \in BOOLEAN)
<1>1. Init => Types /\ listed \in BOOLEAN
  BY TypesInit DEF Init
<1>2. Types /\ listed \in BOOLEAN /\ [Next]_vars
        => (Types /\ listed \in BOOLEAN)'
  <2> SUFFICES ASSUME Types, listed \in BOOLEAN, [Next]_vars
               PROVE  (Types /\ listed \in BOOLEAN)'
    OBVIOUS
  <2>1. \A i \in DOMAIN calls : calls[i].ok \in BOOLEAN
    BY Typed DEF Types, Request, AnyCall
  <2> QED  BY <2>1, TypesStep, ListedStep
<1> QED  BY <1>1, <1>2, PTL DEF Spec

-----------------------------------------------------------------------------
(* Every step keeps the streams in order.                                    *)

(* The cleanup of a preview leaves no stream of its own.                     *)
LEMMA DroppedInv ==
  ASSUME StreamsOK, StreamInv, streams' = Dropped
  PROVE  StreamInv'
<1>1. /\ Dropped.mine = 0 /\ Dropped.live = {} /\ 0 \notin Dropped.asked
      /\ ~Dropped.retry /\ ~Dropped.failed
  BY DEF StreamsOK, StreamInv, Dropped, StreamIds
<1> QED  BY <1>1 DEF StreamInv

(* A step that leaves the streams and their preview alone.                   *)
LEMMA StaysInv ==
  ASSUME StreamInv, streams' = streams, Showing => Showing'
  PROVE  StreamInv'
BY DEF StreamInv

(* A page that is left drops its preview, ...                                *)
LEMMA OpensInv ==
  ASSUME StreamsOK, StreamInv, NEW p, NEW cs, Opens(p, cs)
  PROVE  StreamInv'
BY DroppedInv DEF Opens

(* ... on the way home as well.                                              *)
LEMMA GoesHomeInv ==
  ASSUME StreamsOK, StreamInv, NEW cs, GoesHome(cs)
  PROVE  StreamInv'
<1>1. CASE page.at = "landing"
  BY <1>1, StaysInv DEF GoesHome, Showing
<1>2. CASE page.at # "landing"
  BY <1>2, OpensInv DEF GoesHome
<1> QED  BY <1>1, <1>2

(* A stream is asked for when none runs and a preview is there.              *)
LEMMA AsksInv ==
  ASSUME NEW st \in [mine : {0} \cup StreamIds, asked : SUBSET StreamIds,
                     live : SUBSET StreamIds, retry : BOOLEAN,
                     failed : BOOLEAN],
         Asks(st), st.live = {}, Showing'
  PROVE  StreamInv'
<1>1. PICK n \in Fresh(st) :
        streams' = [st EXCEPT !.mine = n, !.asked = @ \cup {n},
                              !.retry = FALSE, !.failed = FALSE]
  BY AsksOK
<1>2. /\ streams'.mine = n /\ streams'.live = {}
      /\ streams'.retry = FALSE /\ streams'.failed = FALSE
  BY <1>1
<1> QED  BY <1>2 DEF StreamInv

(* Without a preview nothing runs.                                           *)
LEMMA HiddenInv ==
  ASSUME StreamsOK, StreamInv, ~Showing
  PROVE  /\ streams.mine = 0 /\ streams.live = {}
         /\ streams' = streams => StreamInv'
<1>1. streams.mine = 0 /\ streams.live = {}
  BY DEF StreamInv
<1>2. ASSUME streams' = streams PROVE StreamInv'
  BY <1>1, <1>2 DEF StreamInv
<1> QED  BY <1>1, <1>2

(* The landing page: the dialog opens, closes, or hands the cameras over.    *)
LEMMA LandingStreams ==
  ASSUME Types, StreamInv,
         LandingUser \/ \E i \in DOMAIN calls : LandingCallback(i)
  PROVE  StreamInv'
<1>0. TabOK /\ CallsOK /\ StreamsOK /\ page \in Pages
  BY DEF Types, TabOK
<1>1. ASSUME NEW r \in Robots, SelectRobot(r) PROVE StreamInv'
  <2>1. ~Showing
    BY <1>1
    DEF SelectRobot, MaySelect, Chooses, Uncovered, OnLanding, Showing
  <2> QED  BY <1>0, <1>1, <2>1, HiddenInv DEF SelectRobot, cameras
<1>2. ASSUME \/ \E r \in Robots : CreateRobot(r) \/ Calibrate(r)
             \/ DeleteRobot \/ ClickTeleop
      PROVE  StreamInv'
  BY <1>2, StaysInv
  DEF CreateRobot, Calibrate, DeleteRobot, ClickTeleop, tab, cameras, Showing
<1>3. ASSUME \/ \E d \in disk, onHub \in BOOLEAN : PickDataset(d, onHub)
             \/ GoElsewhere
      PROVE  StreamInv'
  BY <1>0, <1>3, OpensInv DEF PickDataset, GoElsewhere
<1>4. ASSUME OpenDialog PROVE StreamInv'
  <2>1. ~Showing /\ page \in LandingState
    BY <1>0, <1>4, PageIs DEF OpenDialog, Uncovered, OnLanding, Showing
  <2>2. CASE Known
    <3>1. Asks(streams) /\ Showing'
      BY <1>4, <2>1, <2>2 DEF OpenDialog, LandingState, Showing
    <3> QED  BY <1>0, <2>1, <3>1, HiddenInv, AsksInv DEF StreamsOK
  <2>3. CASE ~Known
    BY <1>0, <1>4, <2>1, <2>3, HiddenInv DEF OpenDialog
  <2> QED  BY <2>2, <2>3
<1>5. ASSUME CloseDialog \/ ClickRecord PROVE StreamInv'
  BY <1>0, <1>5, DroppedInv DEF CloseDialog, ClickRecord
<1>6. ASSUME FillRecording PROVE StreamInv'
  <2>1. page \in LandingState /\ page' = [page EXCEPT !.filled = TRUE]
    BY <1>0, <1>6, PageIs DEF FillRecording, OnLanding
  <2>2. Showing => Showing'
    BY <2>1 DEF LandingState, Showing
  <2> QED  BY <1>6, <2>2, StaysInv DEF FillRecording, cameras
<1>7. ASSUME NEW i \in DOMAIN calls, TeleopStarted(i) \/ WaitOver(i)
      PROVE  StreamInv'
  <2>1. CASE UNCHANGED <<page, streams>>
    BY <2>1, StaysInv DEF Showing
  <2>2. CASE \E p : Opens(p, Rest(i))
    BY <1>0, <2>2, OpensInv
  <2> QED  BY <1>7, <2>1, <2>2 DEF TeleopStarted, WaitOver
<1>8. ASSUME NEW i \in DOMAIN calls,
             \/ ListArrives(i) \/ CreateArrives(i)
             \/ DeleteArrives(i) \/ CamerasArrive(i)
      PROVE  StreamInv'
  <2>1. /\ calls[i].op \in {"list", "create", "delete", "cameras"}
        /\ streams' = streams
    BY <1>8
    DEF ListArrives, CreateArrives, DeleteArrives, CamerasArrive, Arrives,
        cameras
  <2>2. CASE page' = page
    BY <2>1, <2>2, StaysInv DEF Showing
  <2>3. CASE page' # page
    <3>1. ForThisMount(i)
      BY <1>8, <2>3
      DEF ListArrives, CreateArrives, DeleteArrives, CamerasArrive
    <3>2. page \in LandingState
      BY <1>0, <2>1, <3>1, HeardHere, PageIs
      DEF OpsOf, Pages, LandingState, TeleopState, RecordingState,
          UploadState, Elsewhere
    <3>3. page'.at = page.at /\ page'.dialog = page.dialog
      <4>1. CASE ListArrives(i)
        BY <2>3, <3>2, <4>1 DEF ListArrives, LandingState
      <4>2. CASE CreateArrives(i)
        BY <2>3, <3>2, <4>2 DEF CreateArrives, LandingState
      <4>3. CASE DeleteArrives(i)
        BY <2>3, <3>2, <4>3 DEF DeleteArrives, LandingState
      <4>4. CASE CamerasArrive(i)
        BY <2>3, <3>2, <4>4 DEF CamerasArrive, LandingState
      <4> QED  BY <1>8, <4>1, <4>2, <4>3, <4>4
    <3> QED  BY <2>1, <3>2, <3>3, StaysInv DEF Showing, LandingState
  <2> QED  BY <2>2, <2>3
<1> QED
  BY <1>1, <1>2, <1>3, <1>4, <1>5, <1>6, <1>7, <1>8
  DEF LandingUser, LandingCallback, Configure, OpenTraining

(* Teleoperation: the switch and the retry button of its feeds.              *)
LEMMA TeleopStreams ==
  ASSUME Types, StreamInv,
         TeleopUser \/ NoticeShows \/ \E i \in DOMAIN calls : TeleopCallback(i)
  PROVE  StreamInv'
<1>0. TabOK /\ CallsOK /\ StreamsOK /\ page \in Pages
  BY DEF Types, TabOK
<1>1. ASSUME ClickBack \/ LeaveTeleop PROVE StreamInv'
  <2>1. CASE Opens(Landing, calls)
    BY <1>0, <2>1, OpensInv
  <2>2. CASE ~Opens(Landing, calls)
    <3>1. page \in TeleopState
      BY <1>0, <1>1, PageIs DEF ClickBack, LeaveTeleop, OnTeleop
    <3>2. page' = [page EXCEPT !.stopped = TRUE] /\ streams' = streams
      BY <1>1, <2>2 DEF ClickBack, LeaveTeleop
    <3>3. Showing => Showing'
      BY <3>1, <3>2 DEF TeleopState, Showing
    <3> QED  BY <3>2, <3>3, StaysInv
  <2> QED  BY <2>1, <2>2
<1>2. ASSUME NEW p, Reload(p) PROVE StreamInv'
  BY <1>2 DEF Reload, NoStreams, StreamInv
<1>3. ASSUME NEW i \in DOMAIN calls, StopArrives(i) PROVE StreamInv'
  <2>1. CASE GoesHome(Rest(i))
    BY <1>0, <2>1, GoesHomeInv
  <2>2. CASE UNCHANGED <<page, streams>>
    BY <2>2, StaysInv DEF Showing
  <2> QED  BY <1>3, <2>1, <2>2 DEF StopArrives
<1>4. ASSUME NoticeShows \/ \E i \in DOMAIN calls : AnswerLost(i)
      PROVE  StreamInv'
  BY <1>4, StaysInv DEF NoticeShows, AnswerLost, tab, cameras, Showing
<1>5. ASSUME SwitchFeeds(TRUE) PROVE StreamInv'
  <2>1. page \in TeleopState /\ page.feeds # TRUE
    BY <1>0, <1>5, PageIs DEF SwitchFeeds, OnTeleop
  <2>2. ~Showing /\ Showing'
    BY <1>5, <2>1 DEF SwitchFeeds, TeleopState, Showing
  <2> QED
    BY <1>0, <1>5, <2>2, HiddenInv, AsksInv DEF SwitchFeeds, StreamsOK
<1>6. ASSUME SwitchFeeds(FALSE) PROVE StreamInv'
  BY <1>0, <1>6, DroppedInv DEF SwitchFeeds
<1>7. ASSUME RetryFeeds PROVE StreamInv'
  <2>1. /\ Dropped \in [mine : {0} \cup StreamIds, asked : SUBSET StreamIds,
                        live : SUBSET StreamIds, retry : BOOLEAN,
                        failed : BOOLEAN]
        /\ Dropped.live = {}
    BY <1>0 DEF StreamsOK, Dropped, StreamInv
  <2>2. Asks(Dropped) /\ Showing'
    BY <1>7 DEF RetryFeeds, Feeding, OnTeleop, Showing, tab
  <2> QED  BY <2>1, <2>2, AsksInv
<1> QED
  BY <1>1, <1>2, <1>3, <1>4, <1>5, <1>6, <1>7 DEF TeleopUser, TeleopCallback

(* The recording page has no preview.                                        *)
LEMMA RecordingStreams ==
  ASSUME Types, StreamInv,
         RecordingUser \/ Poll \/ \E i \in DOMAIN calls : RecordingCallback(i)
  PROVE  StreamInv'
<1>0. TabOK /\ CallsOK /\ StreamsOK /\ page \in Pages
  BY DEF Types, TabOK
<1>1. ASSUME Poll \/ ClickRerecord \/ \E i \in DOMAIN calls : ToastArrives(i)
      PROVE  StreamInv'
  BY <1>1, StaysInv
  DEF Poll, ClickRerecord, ToastArrives, tab, cameras, Showing
<1>2. ASSUME \/ ClickAdvance \/ AskStop
             \/ \E yes \in BOOLEAN : AnswerStop(yes)
      PROVE  StreamInv'
  <2>1. ~Showing /\ streams' = streams
    BY <1>2
    DEF ClickAdvance, AskStop, AnswerStop, Asking, Free, Connected,
        OnRecording, cameras, Showing
  <2> QED  BY <1>0, <2>1, HiddenInv
<1>3. ASSUME LeaveRecording PROVE StreamInv'
  BY <1>0, <1>3, OpensInv DEF LeaveRecording
<1>4. ASSUME NEW i \in DOMAIN calls, ForThisMount(i),
             calls[i].op \in OpsOf("recording")
      PROVE  ~Showing
  BY <1>0, <1>4, HeardHere, PageIs
  DEF OpsOf, Pages, LandingState, TeleopState, RecordingState, UploadState,
      Elsewhere, Showing
<1>5. ASSUME NEW i \in DOMAIN calls,
             RecordArrives(i) \/ StatusArrives(i) \/ ExitArrives(i)
      PROVE  StreamInv'
  <2>1. calls[i].op \in OpsOf("recording")
    BY <1>5
    DEF RecordArrives, StatusArrives, FollowsStatus, ExitArrives, Arrives,
        OpsOf
  <2>2. CASE GoesHome(Rest(i))
    BY <1>0, <2>2, GoesHomeInv
  <2>3. CASE \E d, own : GoesToUpload(d, own, Rest(i))
    <3>1. CASE page.at = "upload"
      <4>1. ~Showing /\ streams' = streams
        BY <2>3, <3>1 DEF GoesToUpload, Showing
      <4> QED  BY <1>0, <4>1, HiddenInv
    <3>2. CASE page.at # "upload"
      BY <1>0, <2>3, <3>2, OpensInv DEF GoesToUpload
    <3> QED  BY <3>1, <3>2
  <2>4. CASE UNCHANGED <<page, streams>>
    BY <2>4, StaysInv DEF Showing
  <2>5. CASE ForThisMount(i) /\ streams' = streams
    BY <1>0, <1>4, <2>1, <2>5, HiddenInv
  <2>6. CASE ExitArrives(i)
    BY <2>4, <2>5, <2>6 DEF ExitArrives, cameras
  <2>7. CASE RecordArrives(i)
    BY <2>2, <2>4, <2>5, <2>7 DEF RecordArrives
  <2>8. CASE StatusArrives(i)
    BY <2>2, <2>3, <2>4, <2>5, <2>8 DEF StatusArrives, FollowsStatus
  <2> QED  BY <1>5, <2>6, <2>7, <2>8
<1> QED
  BY <1>1, <1>2, <1>3, <1>5 DEF RecordingUser, RecordingCallback

(* Neither has the upload page.                                              *)
LEMMA UploadStreams ==
  ASSUME Types, StreamInv,
         UploadUser \/ \E i \in DOMAIN calls : UploadCallback(i)
  PROVE  StreamInv'
<1>0. TabOK /\ CallsOK /\ StreamsOK /\ page \in Pages
  BY DEF Types, TabOK
<1>1. ASSUME \/ ClickUpload \/ AskDelete
             \/ \E yes \in BOOLEAN : AnswerDelete(yes)
      PROVE  StreamInv'
  <2>1. ~Showing /\ streams' = streams
    BY <1>1
    DEF ClickUpload, UploadOffered, AskDelete, AnswerDelete, DeleteAsked,
        OnUpload, cameras, Showing
  <2> QED  BY <1>0, <2>1, HiddenInv
<1>2. ASSUME LeaveUpload \/ GoToTraining PROVE StreamInv'
  BY <1>0, <1>2, OpensInv DEF LeaveUpload, GoToTraining
<1>3. ASSUME NEW i \in DOMAIN calls, UploadCallback(i) PROVE StreamInv'
  <2>1. calls[i].op \in OpsOf("upload")
    BY <1>3
    DEF UploadCallback, InfoArrives, UploadArrives, DiscardArrives, Arrives,
        OpsOf
  <2>2. CASE GoesHome(Rest(i))
    BY <1>0, <2>2, GoesHomeInv
  <2>3. CASE UNCHANGED <<page, streams>>
    BY <2>3, StaysInv DEF Showing
  <2>4. CASE ForThisMount(i) /\ streams' = streams
    <3>1. ~Showing
      BY <1>0, <2>1, <2>4, HeardHere, PageIs
      DEF OpsOf, Pages, LandingState, TeleopState, RecordingState,
          UploadState, Elsewhere, Showing
    <3> QED  BY <1>0, <2>4, <3>1, HiddenInv
  <2> QED
    BY <1>3, <2>2, <2>3, <2>4
    DEF UploadCallback, InfoArrives, UploadArrives, DiscardArrives, cameras
<1> QED  BY <1>1, <1>2, <1>3 DEF UploadUser, SkipUpload

(* The server does not touch the browser's cameras.                          *)
LEMMA ServerStreams ==
  ASSUME Types, StreamInv, Server
  PROVE  StreamInv'
<1>1. page' = page /\ streams' = streams
  BY
  DEF Server, Serves, ListsRobots, ReportsStatus, CreatesRobot, DeletesRobot,
      StartsTeleop, StopsTeleop, StartsRecording, TakesEvent, StopsRecording,
      ReadsInfo, UploadsDataset, DeletesDataset, ListsCameras,
      ConnectionFails, SessionGoesOn, TeleopBreaks, tab, cameras
<1> QED  BY <1>1, StaysInv DEF Showing

(* A cable, and what the browser answers to getUserMedia.                    *)
LEMMA CableStreams ==
  ASSUME Types, StreamInv,
         \/ \E k \in {0, 1} : DeviceChanges(k)
         \/ Streams \/ ComeBack
  PROVE  StreamInv'
<1>0. TabOK /\ CallsOK /\ StreamsOK /\ page \in Pages
  BY DEF Types, TabOK
<1>1. ASSUME NEW k \in {0, 1}, DeviceChanges(k) PROVE StreamInv'
  <2>1. page' = page
    BY <1>1 DEF DeviceChanges, tab
  <2>2. CASE streams.failed
    <3>1. Asks(streams) /\ streams.live = {} /\ Showing'
      BY <1>1, <2>1, <2>2 DEF DeviceChanges, StreamInv, Showing
    <3> QED  BY <1>0, <3>1, AsksInv DEF StreamsOK
  <2>3. CASE ~streams.failed
    BY <1>1, <2>1, <2>3, StaysInv DEF DeviceChanges, Showing
  <2> QED  BY <2>2, <2>3
<1>2. ASSUME Streams PROVE StreamInv'
  <2>1. Showing' = Showing
    BY <1>2
    DEF Streams, StreamComes, StreamRefused, RetryStream, tab, Showing
  <2>2. ASSUME NEW n \in StreamIds, StreamComes(n) PROVE StreamInv'
    <3>1. CASE n = streams.mine
      <4>1. streams' = [streams EXCEPT !.asked = @ \ {n},
                                       !.live = @ \cup {n}]
        BY <2>2, <3>1 DEF StreamComes
      <4>2. /\ streams.live = {} /\ ~streams.retry /\ ~streams.failed
            /\ n # 0
        BY <2>2, <3>1 DEF StreamComes, StreamInv, StreamIds
      <4>3. /\ streams'.mine = n /\ streams'.live = {n}
            /\ n \notin streams'.asked
            /\ streams'.retry = streams.retry
            /\ streams'.failed = streams.failed
        BY <1>0, <3>1, <4>1, <4>2 DEF StreamsOK
      <4> QED  BY <2>1, <3>1, <4>2, <4>3 DEF StreamInv
    <3>2. CASE n # streams.mine
      <4>1. streams' = [streams EXCEPT !.asked = @ \ {n}]
        BY <1>0, <2>2, <3>2 DEF StreamComes, StreamsOK
      <4> QED  BY <1>0, <2>1, <4>1 DEF StreamInv, StreamsOK
    <3> QED  BY <3>1, <3>2
  <2>3. ASSUME NEW n \in StreamIds, StreamRefused(n) PROVE StreamInv'
    <3> DEFINE gone == [streams EXCEPT !.asked = @ \ {n}]
    <3>1. /\ gone.mine = streams.mine /\ gone.live = streams.live
          /\ gone.retry = streams.retry /\ gone.failed = streams.failed
          /\ gone.asked = streams.asked \ {n}
          /\ DOMAIN gone = DOMAIN streams
      BY <1>0 DEF StreamsOK
    <3>2. CASE n # streams.mine
      <4>1. streams' = gone
        BY <2>3, <3>2 DEF StreamRefused
      <4> HIDE DEF gone
      <4> QED  BY <2>1, <3>1, <4>1 DEF StreamInv
    <3>3. CASE n = streams.mine
      <4>1. /\ streams.live = {} /\ ~streams.retry /\ ~streams.failed
            /\ n # 0
        BY <2>3, <3>3 DEF StreamRefused, StreamInv, StreamIds
      <4>2. \/ streams' = [gone EXCEPT !.retry = TRUE]
            \/ streams' = [gone EXCEPT !.failed = TRUE]
        BY <2>3, <3>3 DEF StreamRefused
      <4>3. /\ streams'.mine = n /\ streams'.live = {}
            /\ n \notin streams'.asked
            /\ ~(streams'.retry /\ streams'.failed)
        <5>1. streams \in [mine : {0} \cup StreamIds, asked : SUBSET StreamIds,
                           live : SUBSET StreamIds, retry : BOOLEAN,
                           failed : BOOLEAN]
          BY <1>0 DEF StreamsOK
        <5>2. /\ gone.mine = n /\ gone.live = {}
              /\ gone.asked = streams.asked \ {n}
              /\ ~gone.retry /\ ~gone.failed
          BY <3>3, <4>1, <5>1
        <5>3. gone \in [mine : {0} \cup StreamIds, asked : SUBSET StreamIds,
                        live : SUBSET StreamIds, retry : BOOLEAN,
                        failed : BOOLEAN]
          BY <5>1
        <5> HIDE DEF gone
        <5>4. CASE streams' = [gone EXCEPT !.retry = TRUE]
          BY <5>2, <5>3, <5>4
        <5>5. CASE streams' = [gone EXCEPT !.failed = TRUE]
          BY <5>2, <5>3, <5>5
        <5> QED  BY <4>2, <5>4, <5>5
      <4> QED  BY <2>1, <3>3, <4>1, <4>3 DEF StreamInv
    <3> QED  BY <3>2, <3>3
  <2>4. ASSUME RetryStream PROVE StreamInv'
    <3>1. streams' = [streams EXCEPT !.retry = FALSE,
                                     !.asked = @ \cup {streams.mine}]
      BY <2>4 DEF RetryStream
    <3>2. /\ streams.live = {} /\ ~streams.failed /\ streams.mine # 0
      BY <2>4 DEF RetryStream, StreamInv
    <3>3. /\ streams'.mine = streams.mine /\ streams'.live = {}
          /\ ~streams'.retry /\ ~streams'.failed
      BY <1>0, <3>1, <3>2 DEF StreamsOK
    <3> QED  BY <2>1, <3>2, <3>3 DEF StreamInv
  <2>5. RetryStream \/ \E n \in StreamIds : StreamComes(n) \/ StreamRefused(n)
    BY <1>2 DEF Streams
  <2> QED  BY <2>2, <2>3, <2>4, <2>5
<1>3. ASSUME ComeBack PROVE StreamInv'
  BY <1>0, <1>3, OpensInv DEF ComeBack
<1> QED  BY <1>1, <1>2, <1>3

(* What the hook holds, on every page.                                       *)
LEMMA StreamsKept == Spec => []StreamInv
<1>1. Init => StreamInv
  BY DEF Init, NoStreams, StreamInv
<1>2. Types /\ StreamInv /\ [Next]_vars => StreamInv'
  <2> SUFFICES ASSUME Types, StreamInv, [Next]_vars PROVE StreamInv'
    OBVIOUS
  <2>1. CASE UNCHANGED vars
    BY <2>1, StaysInv DEF vars, tab, cameras, Showing
  <2>2. CASE Next
    BY <2>2, LandingStreams, TeleopStreams, RecordingStreams, UploadStreams,
       ServerStreams, CableStreams
    DEF Next, User, Callback, Browser
  <2> QED  BY <2>1, <2>2
<1> QED
  BY <1>1, <1>2, TypesCorrect, PTL DEF Spec

(* No stream outlives the preview it was for: what a preview is granted      *)
(* after its cleanup is stopped at once (useCameraStream.ts: cancelledRef),  *)
(* and a new request is made only when nothing runs.  Requests, plugging and *)
(* clicks may come in any order, an impatient user's too.                    *)
THEOREM StreamsAreOwned == Spec => []StreamsOwned
<1>1. StreamInv => StreamsOwned
  BY DEF StreamInv, StreamsOwned
<1> QED
  BY <1>1, StreamsKept, PTL

-----------------------------------------------------------------------------
(* The session that the upload page is about.                                *)

(* A recording that has been asked for has not begun.                        *)
Waits(cs, j) == cs[j].op = "record" /\ cs[j].at = "sent"
NoneWaits(cs) == \A j \in DOMAIN cs : ~Waits(cs, j)

(* A status request of a page that has begun a session (its number is not 0) *)
(* is about the newest session n, which none before it in line replaces; its *)
(* answer is about that session.                                             *)
StatusInv(cs, n) ==
  \A i \in DOMAIN cs : cs[i].op = "status" =>
    /\ cs[i].at = "sent" /\ cs[i].arg # 0 =>
         /\ cs[i].arg = n
         /\ \A j \in DOMAIN cs : j < i => ~Waits(cs, j)
    /\ cs[i].at = "answered" /\ cs[i].arg # 0 =>
         cs[i].seen.session = cs[i].arg
(* The recording that the page of mount m has asked for is the last one.     *)
RecordInv(cs, m, n) ==
  \A i \in DOMAIN cs : cs[i].op = "record" /\ cs[i].mount = m =>
    /\ cs[i].at = "sent" => \A j \in DOMAIN cs : i < j => ~Waits(cs, j)
    /\ cs[i].at = "answered" /\ cs[i].ok /\ cs[i].seen.session # 0 =>
         cs[i].seen.session = n /\ NoneWaits(cs)
OwnInv(p, cs, n) ==
  /\ p.at = "upload" /\ p.own # 0 => p.dataset = p.own
  /\ p.at = "recording" /\ p.started /\ p.own # 0 =>
       p.own = n /\ NoneWaits(cs)
SessionInv ==
  /\ OwnInv(page, calls, session)
  /\ StatusInv(calls, session) /\ RecordInv(calls, mount, session)

(* A step that leaves the page's session alone.                              *)
OwnStays ==
  /\ mount' = mount /\ session' = session /\ page'.at = page.at
  /\ page.at = "upload" =>
       page'.dataset = page.dataset /\ page'.own = page.own
  /\ page.at = "recording" =>
       page'.started = page.started /\ page'.own = page.own

(* Requests that end leave the others in order.                              *)
LEMMA KeptOrder ==
  ASSUME NEW s \in Seq(Request), NEW t \in Seq(Request),
         NEW K \in SUBSET DOMAIN s, Derived(t, s, K, {}), NEW m, NEW n
  PROVE  /\ NoneWaits(s) => NoneWaits(t)
         /\ StatusInv(s, n) => StatusInv(t, n)
         /\ RecordInv(s, m, n) => RecordInv(t, m, n)
<1>1. PICK f : From(f, t, s, K, {})
  BY DEF Derived
<1>2. /\ \A k \in DOMAIN t : f[k] \in DOMAIN s /\ t[k] = s[f[k]]
      /\ \A k, l \in DOMAIN t : k < l => f[k] < f[l]
  BY <1>1 DEF From
<1>3. NoneWaits(s) => NoneWaits(t)
  BY <1>2 DEF NoneWaits, Waits
<1>4. StatusInv(s, n) => StatusInv(t, n)
  <2> SUFFICES ASSUME StatusInv(s, n), NEW i \in DOMAIN t,
                      t[i].op = "status"
               PROVE  /\ t[i].at = "sent" /\ t[i].arg # 0 =>
                           /\ t[i].arg = n
                           /\ \A j \in DOMAIN t : j < i => ~Waits(t, j)
                      /\ t[i].at = "answered" /\ t[i].arg # 0 =>
                           t[i].seen.session = t[i].arg
    BY DEF StatusInv
  <2>1. f[i] \in DOMAIN s /\ t[i] = s[f[i]] /\ s[f[i]].op = "status"
    BY <1>2
  <2>2. \A j \in DOMAIN t : Waits(t, j) => Waits(s, f[j])
    BY <1>2 DEF Waits
  <2> QED  BY <1>2, <2>1, <2>2 DEF StatusInv
<1>5. RecordInv(s, m, n) => RecordInv(t, m, n)
  <2> SUFFICES ASSUME RecordInv(s, m, n), NEW i \in DOMAIN t,
                      t[i].op = "record", t[i].mount = m
               PROVE  /\ t[i].at = "sent" =>
                           \A j \in DOMAIN t : i < j => ~Waits(t, j)
                      /\ t[i].at = "answered" /\ t[i].ok
                           /\ t[i].seen.session # 0 =>
                           t[i].seen.session = n /\ NoneWaits(t)
    BY DEF RecordInv
  <2>1. f[i] \in DOMAIN s /\ t[i] = s[f[i]]
    BY <1>2
  <2>2. \A j \in DOMAIN t : Waits(t, j) => Waits(s, f[j])
    BY <1>2 DEF Waits
  <2>3. /\ s[f[i]].at = "sent" => \A j \in DOMAIN s : f[i] < j => ~Waits(s, j)
        /\ s[f[i]].at = "answered" /\ s[f[i]].ok
             /\ s[f[i]].seen.session # 0 =>
             s[f[i]].seen.session = n /\ NoneWaits(s)
    BY <2>1 DEF RecordInv
  <2> QED  BY <1>2, <1>3, <2>1, <2>2, <2>3
<1> QED  BY <1>3, <1>4, <1>5

(* One request more.                                                         *)
LEMMA OneMore ==
  ASSUME NEW s \in Seq(Request), NEW x, NEW m, NEW n
  PROVE
    LET t == Append(s, x) IN
    /\ NoneWaits(s) /\ ~(x.op = "record" /\ x.at = "sent") => NoneWaits(t)
    /\ StatusInv(s, n)
         /\ (x.op = "status" /\ x.arg # 0 =>
               /\ x.at = "sent" => x.arg = n /\ NoneWaits(s)
               /\ x.at = "answered" => x.seen.session = x.arg)
       => StatusInv(t, n)
    /\ RecordInv(s, m, n) /\ ~(x.op = "record" /\ x.at = "sent")
         /\ (x.op = "record" /\ x.mount = m /\ x.at = "answered" /\ x.ok
               /\ x.seen.session # 0 => x.seen.session = n /\ NoneWaits(s))
       => RecordInv(t, m, n)
    /\ (\A i \in DOMAIN s : s[i].mount # m) /\ x.at = "sent"
       => RecordInv(t, m, n)
<1> DEFINE t == Append(s, x)
           e == Len(s) + 1
<1>1. /\ DOMAIN s = 1..Len(s) /\ Len(s) \in Nat /\ DOMAIN t = 1..e
      /\ t[e] = x /\ \A k \in DOMAIN s : t[k] = s[k]
  <2>1. s \in Seq(Request \cup {x})
    OBVIOUS
  <2> QED  BY <2>1, AppendProperties
<1>2. \A k \in DOMAIN t : k \in DOMAIN s \/ k = e
  BY <1>1
<1>3. /\ \A k \in DOMAIN s : k \in DOMAIN t /\ k < e
      /\ \A k \in DOMAIN t : ~(e < k)
  BY <1>1
<1> HIDE DEF t, e
<1>4. NoneWaits(s) /\ ~(x.op = "record" /\ x.at = "sent") => NoneWaits(t)
  BY <1>1, <1>2 DEF NoneWaits, Waits
<1>5. ASSUME StatusInv(s, n),
             x.op = "status" /\ x.arg # 0 =>
               /\ x.at = "sent" => x.arg = n /\ NoneWaits(s)
               /\ x.at = "answered" => x.seen.session = x.arg
      PROVE  StatusInv(t, n)
  <2>1. \A i \in DOMAIN s, j \in DOMAIN t : j < i => j \in DOMAIN s
    BY <1>1, <1>2
  <2> QED
    BY <1>1, <1>2, <1>3, <1>5, <2>1 DEF StatusInv, NoneWaits, Waits
<1>6. ASSUME RecordInv(s, m, n), ~(x.op = "record" /\ x.at = "sent"),
             x.op = "record" /\ x.mount = m /\ x.at = "answered" /\ x.ok
               /\ x.seen.session # 0 => x.seen.session = n /\ NoneWaits(s)
      PROVE  RecordInv(t, m, n)
  BY <1>1, <1>2, <1>3, <1>4, <1>6 DEF RecordInv, Waits
<1>7. ASSUME \A i \in DOMAIN s : s[i].mount # m, x.at = "sent"
      PROVE  RecordInv(t, m, n)
  BY <1>1, <1>2, <1>3, <1>7 DEF RecordInv, Waits
<1> QED  BY <1>4, <1>5, <1>6, <1>7 DEF t

(* An answer takes its request out of the line.                              *)
LEMMA RestKept ==
  ASSUME CallsOK, NEW i \in DOMAIN calls, NEW m, NEW n
  PROVE  /\ Rest(i) \in Seq(Request)
         /\ NoneWaits(calls) => NoneWaits(Rest(i))
         /\ StatusInv(calls, n) => StatusInv(Rest(i), n)
         /\ RecordInv(calls, m, n) => RecordInv(Rest(i), m, n)
<1>1. calls \in Seq(Request) /\ i \in 1..Len(calls)
  BY Typed
<1>2. /\ Rest(i) \in Seq(Request)
      /\ Derived(Rest(i), calls, DOMAIN calls \ {i}, {})
  BY <1>1, RemoveAtDerived DEF Rest
<1> QED  BY <1>1, <1>2, KeptOrder

(* A step that has to do neither with statuses nor with recordings.          *)
LEMMA QuietStep ==
  ASSUME CallsOK, SessionInv, OwnStays,
         \/ calls' = calls
         \/ \E i \in DOMAIN calls : calls' = Rest(i)
         \/ \E x : /\ x.op \notin {"record", "status"}
                   /\ \/ calls' = Append(calls, x)
                      \/ \E i \in DOMAIN calls : calls' = Append(Rest(i), x)
  PROVE  SessionInv'
<1> DEFINE Fine(cs) == /\ cs \in Seq(Request)
                       /\ NoneWaits(calls) => NoneWaits(cs)
                       /\ StatusInv(cs, session)
                       /\ RecordInv(cs, mount, session)
<1>1. Fine(calls)
  BY CallsTyped DEF SessionInv
<1>2. \A i \in DOMAIN calls : Fine(Rest(i))
  BY RestKept DEF SessionInv
<1>3. /\ NoneWaits(calls) => NoneWaits(calls')
      /\ StatusInv(calls', session) /\ RecordInv(calls', mount, session)
  <2>1. ASSUME NEW cs, Fine(cs), NEW x, x.op \notin {"record", "status"}
        PROVE  /\ NoneWaits(cs) => NoneWaits(Append(cs, x))
               /\ StatusInv(Append(cs, x), session)
               /\ RecordInv(Append(cs, x), mount, session)
    BY <2>1, OneMore
  <2> HIDE DEF Fine
  <2>2. \A cs : Fine(cs) => /\ NoneWaits(calls) => NoneWaits(cs)
                            /\ StatusInv(cs, session)
                            /\ RecordInv(cs, mount, session)
    BY DEF Fine
  <2> QED  BY <1>1, <1>2, <2>1, <2>2
<1>4. OwnInv(page', calls', session)
  BY <1>3 DEF OwnStays, OwnInv, SessionInv
<1> QED  BY <1>3, <1>4 DEF SessionInv, OwnStays

(* The first request of a page.                                              *)
LEMMA FirstCallOne ==
  ASSUME NEW p \in Pages, NEW m \in Nat
  PROVE  \/ FirstCalls(p, m) = <<>>
         \/ \E x \in Request :
              /\ FirstCalls(p, m) = <<x>>
              /\ x.at = "sent" /\ x.op \in {"list", "record", "info"}
<1>1. CASE p \in LandingState
  <2>1. Call("list", NoRobot, m) \in Request
    BY CallOK DEF Ops, Args
  <2>2. FirstCalls(p, m) = <<Call("list", NoRobot, m)>>
    BY <1>1 DEF FirstCalls, LandingState
  <2> QED  BY <2>1, <2>2 DEF Call
<1>2. CASE p \in RecordingState
  <2>1. Call("record", p.index, m) \in Request
    BY <1>2, CallOK DEF RecordingState, Ops, Args
  <2>2. FirstCalls(p, m) = <<Call("record", p.index, m)>>
    BY <1>2 DEF FirstCalls, RecordingState
  <2> QED  BY <2>1, <2>2 DEF Call
<1>3. CASE p \in UploadState
  <2>1. Call("info", p.dataset, m) \in Request
    BY <1>3, CallOK DEF UploadState, Ops, Args
  <2>2. FirstCalls(p, m) = <<Call("info", p.dataset, m)>>
    BY <1>3 DEF FirstCalls, UploadState
  <2> QED  BY <2>1, <2>2 DEF Call
<1>4. CASE p \in TeleopState \/ p = Elsewhere
  BY <1>4 DEF FirstCalls, TeleopState, Elsewhere
<1> QED  BY <1>1, <1>2, <1>3, <1>4 DEF Pages

(* A new page has not begun a session, or is about the one it was given.     *)
LEMMA OpensOwn ==
  ASSUME TabOK, NEW p \in Pages, NEW cs \in Seq(Request), Opens(p, cs),
         session' = session, StatusInv(cs, session),
         p.at = "upload" /\ p.own # 0 => p.dataset = p.own,
         p.at = "recording" => ~p.started
  PROVE  SessionInv'
<1> DEFINE u == Unmounted(cs)
           m == FreshMount(u)
<1>1. u \in Seq(Request)
  BY UnmountedOK
<1>2. m \in Nat /\ \A i \in DOMAIN u : u[i].mount # m
  BY <1>1, FreshMountOK
<1>3. StatusInv(u, session)
  <2>1. CASE u = cs
    BY <2>1
  <2>2. CASE u = Append(cs, Call("stop-teleop", "leave", mount))
    <3>1. Call("stop-teleop", "leave", mount).op = "stop-teleop"
      BY DEF Call
    <3> HIDE DEF u
    <3> QED  BY <2>2, <3>1, OneMore
  <2> QED  BY <2>1, <2>2 DEF Unmounted
<1>4. mount' = m /\ page' = p /\ calls' = u \o FirstCalls(p, m)
  BY DEF Opens
<1> HIDE DEF u, m
<1>5. StatusInv(calls', session) /\ RecordInv(calls', m, session)
  <2>1. CASE FirstCalls(p, m) = <<>>
    <3>1. calls' = u
      BY <1>1, <1>4, <2>1
    <3> QED  BY <1>2, <1>3, <3>1 DEF RecordInv
  <2>2. ASSUME NEW x \in Request, FirstCalls(p, m) = <<x>>,
               x.at = "sent", x.op \in {"list", "record", "info"}
        PROVE  StatusInv(calls', session) /\ RecordInv(calls', m, session)
    <3>1. calls' = Append(u, x)
      BY <1>1, <1>4, <2>2
    <3> QED  BY <1>1, <1>2, <1>3, <2>2, <3>1, OneMore
  <2> QED  BY <1>2, <2>1, <2>2, FirstCallOne
<1>6. OwnInv(page', calls', session)
  BY <1>4 DEF OwnInv
<1> QED  BY <1>4, <1>5, <1>6 DEF SessionInv

(* The pages one may be sent to.                                             *)
LEMMA PagesOwn ==
  /\ Landing.at = "landing" /\ Teleop.at = "teleop"
  /\ Elsewhere.at = "elsewhere"
  /\ \A k : Recording(k).at = "recording" /\ ~Recording(k).started
  /\ \A d, own, onHub : /\ Upload(d, own, onHub).at = "upload"
                        /\ Upload(d, own, onHub).dataset = d
                        /\ Upload(d, own, onHub).own = own
BY DEF Landing, Teleop, Elsewhere, Recording, Upload

(* Back on the landing page.                                                 *)
LEMMA GoesHomeOwn ==
  ASSUME Types, SessionInv, NEW i \in DOMAIN calls, GoesHome(Rest(i)),
         session' = session
  PROVE  SessionInv'
<1>1. TabOK /\ CallsOK
  BY DEF Types
<1>2. CASE page.at = "landing"
  BY <1>1, <1>2, QuietStep DEF GoesHome, OwnStays
<1>3. CASE page.at # "landing"
  <2>1. Opens(Landing, Rest(i)) /\ Landing \in Pages
    BY <1>1, <1>3, PagesOK DEF GoesHome, TabOK
  <2>2. Rest(i) \in Seq(Request) /\ StatusInv(Rest(i), session)
    BY <1>1, RestKept DEF SessionInv
  <2> QED  BY <1>1, <2>1, <2>2, PagesOwn, OpensOwn
<1> QED  BY <1>2, <1>3

(* A request of the page, about something else.                              *)
LEMMA SendsOwn ==
  ASSUME CallsOK, SessionInv, OwnStays,
         NEW op, NEW arg, op \notin {"record", "status"}, Sends(op, arg)
  PROVE  SessionInv'
<1>1. calls' = Append(calls, Call(op, arg, mount))
  BY DEF Sends, Sent
<1>2. Call(op, arg, mount).op \notin {"record", "status"}
  BY DEF Call
<1> QED  BY <1>1, <1>2, QuietStep

(* The landing page and its dialogs.                                         *)
LEMMA LandingOwn ==
  ASSUME Types, SessionInv,
         LandingUser \/ \E i \in DOMAIN calls : LandingCallback(i)
  PROVE  SessionInv'
<1>0. /\ TabOK /\ CallsOK /\ ServerOK /\ page \in Pages
      /\ calls \in Seq(Request) /\ StatusInv(calls, session)
  BY CallsTyped DEF Types, TabOK, SessionInv
<1>1. ASSUME \/ \E r \in Robots : SelectRobot(r)
             \/ CloseDialog \/ FillRecording
      PROVE  SessionInv'
  <2>1. page \in LandingState /\ page.at = "landing"
    BY <1>0, <1>1, PageIs
    DEF SelectRobot, MaySelect, Chooses, Uncovered, CloseDialog,
        FillRecording, OnLanding
  <2>2. page'.at = "landing"
    BY <1>1, <2>1 DEF SelectRobot, CloseDialog, FillRecording, LandingState
  <2>3. calls' = calls /\ OwnStays
    BY <1>1, <2>1, <2>2
    DEF SelectRobot, CloseDialog, FillRecording, OwnStays, server
  <2> QED  BY <1>0, <2>3, QuietStep
<1>2. ASSUME \/ \E r \in Robots : CreateRobot(r) \/ Calibrate(r)
             \/ DeleteRobot \/ ClickTeleop
      PROVE  SessionInv'
  <2>1. OwnStays
    BY <1>2
    DEF CreateRobot, Calibrate, DeleteRobot, ClickTeleop, server, tab,
        OwnStays
  <2>2. CASE calls' = calls
    BY <1>0, <2>1, <2>2, QuietStep
  <2>3. CASE \E op \in {"create", "delete", "move-arm"} :
                \E arg : Sends(op, arg)
    BY <1>0, <2>1, <2>3, SendsOwn
  <2> QED
    BY <1>2, <2>2, <2>3 DEF CreateRobot, Calibrate, DeleteRobot, ClickTeleop
<1>3. ASSUME NEW d \in disk, NEW onHub \in BOOLEAN, PickDataset(d, onHub)
      PROVE  SessionInv'
  <2>1. Upload(d, d, onHub) \in Pages
    BY <1>0, PagesOK DEF ServerOK
  <2> QED
    BY <1>0, <1>3, <2>1, PagesOwn, OpensOwn DEF PickDataset, server
<1>4. ASSUME GoElsewhere PROVE SessionInv'
  BY <1>0, <1>4, PagesOK, PagesOwn, OpensOwn DEF GoElsewhere, server
<1>5. ASSUME OpenDialog \/ ClickRecord PROVE SessionInv'
  <2>1. page \in LandingState /\ page.at = "landing"
    BY <1>0, <1>5, PageIs
    DEF OpenDialog, Uncovered, ClickRecord, CanRecord, OnLanding
  <2>2. page'.at = "landing"
    BY <1>5, <2>1 DEF OpenDialog, ClickRecord, LandingState
  <2>3. OwnStays
    BY <1>5, <2>1, <2>2 DEF OpenDialog, ClickRecord, OwnStays, server
  <2>4. CASE OpenDialog
    BY <1>0, <2>3, <2>4, SendsOwn DEF OpenDialog
  <2>5. CASE ClickRecord
    <3>1. Pause.op = "wait"
      BY DEF Pause, Call
    <3> QED  BY <1>0, <2>3, <2>5, <3>1, QuietStep DEF ClickRecord
  <2> QED  BY <1>5, <2>4, <2>5
<1>6. ASSUME NEW i \in DOMAIN calls, TeleopStarted(i) \/ WaitOver(i)
      PROVE  SessionInv'
  <2>0. calls[i] \in Request /\ session' = session
    BY <1>0, <1>6, Typed DEF TeleopStarted, WaitOver, server
  <2>1. CASE calls' = Rest(i) /\ UNCHANGED <<mount, page>>
    BY <1>0, <2>0, <2>1, QuietStep DEF OwnStays
  <2>2. ASSUME NEW p \in Pages, Opens(p, Rest(i)),
               p.at = "upload" => p.dataset = p.own,
               p.at = "recording" => ~p.started
        PROVE  SessionInv'
    BY <1>0, <2>0, <2>2, RestKept, OpensOwn DEF SessionInv
  <2>3. CASE TeleopStarted(i)
    BY <2>1, <2>2, <2>3, PagesOK, PagesOwn DEF TeleopStarted
  <2>4. CASE WaitOver(i)
    <3>1. Recording(calls[i].arg) \in Pages
      BY <2>0, <2>4, PagesOK DEF WaitOver, TimerRuns, Request, Args
    <3> QED  BY <2>1, <2>2, <2>4, <3>1, PagesOwn DEF WaitOver
  <2> QED  BY <1>6, <2>3, <2>4
<1>7. ASSUME NEW i \in DOMAIN calls,
             \/ ListArrives(i) \/ CreateArrives(i)
             \/ DeleteArrives(i) \/ CamerasArrive(i)
      PROVE  SessionInv'
  <2>1. /\ calls[i].op \in {"list", "create", "delete", "cameras"}
        /\ calls' = Rest(i) /\ mount' = mount /\ session' = session
    BY <1>7
    DEF ListArrives, CreateArrives, DeleteArrives, CamerasArrive, Arrives,
        server
  <2>2. CASE page' = page
    BY <1>0, <2>1, <2>2, QuietStep DEF OwnStays
  <2>3. CASE page' # page
    <3>1. ForThisMount(i)
      BY <1>7, <2>3
      DEF ListArrives, CreateArrives, DeleteArrives, CamerasArrive
    <3>2. page \in LandingState
      BY <1>0, <2>1, <3>1, HeardHere, PageIs
      DEF OpsOf, Pages, LandingState, TeleopState, RecordingState,
          UploadState, Elsewhere
    <3>3. page'.at = page.at
      <4>1. CASE ListArrives(i)
        BY <2>3, <3>2, <4>1 DEF ListArrives, LandingState
      <4>2. CASE CreateArrives(i)
        BY <2>3, <3>2, <4>2 DEF CreateArrives, LandingState
      <4>3. CASE DeleteArrives(i)
        BY <2>3, <3>2, <4>3 DEF DeleteArrives, LandingState
      <4>4. CASE CamerasArrive(i)
        BY <2>3, <3>2, <4>4 DEF CamerasArrive, LandingState
      <4> QED  BY <1>7, <4>1, <4>2, <4>3, <4>4
    <3>4. OwnStays
      BY <2>1, <3>2, <3>3 DEF OwnStays, LandingState
    <3> QED  BY <1>0, <2>1, <3>4, QuietStep
  <2> QED  BY <2>2, <2>3
<1> QED
  BY <1>1, <1>2, <1>3, <1>4, <1>5, <1>6, <1>7
  DEF LandingUser, LandingCallback, Configure, OpenTraining

(* The teleoperation page.                                                   *)
LEMMA TeleopOwn ==
  ASSUME Types, SessionInv,
         TeleopUser \/ NoticeShows \/ \E i \in DOMAIN calls : TeleopCallback(i)
  PROVE  SessionInv'
<1>0. /\ TabOK /\ CallsOK /\ page \in Pages
      /\ calls \in Seq(Request) /\ StatusInv(calls, session)
  BY CallsTyped DEF Types, TabOK, SessionInv
<1>1. ASSUME ClickBack \/ LeaveTeleop PROVE SessionInv'
  <2>0. session' = session
    BY <1>1 DEF ClickBack, LeaveTeleop, server
  <2>1. CASE Opens(Landing, calls)
    BY <1>0, <2>0, <2>1, PagesOK, PagesOwn, OpensOwn DEF TabOK
  <2>2. CASE ~Opens(Landing, calls)
    <3>1. page \in TeleopState
      BY <1>0, <1>1, PageIs DEF ClickBack, LeaveTeleop, OnTeleop
    <3>2. /\ page' = [page EXCEPT !.stopped = TRUE] /\ mount' = mount
          /\ Sends("stop-teleop", "back")
      BY <1>1, <2>2 DEF ClickBack, LeaveTeleop
    <3>3. OwnStays
      BY <2>0, <3>1, <3>2 DEF TeleopState, OwnStays
    <3> QED  BY <1>0, <3>2, <3>3, SendsOwn
  <2> QED  BY <2>1, <2>2
<1>2. ASSUME NEW p \in {Teleop, Landing}, Reload(p) PROVE SessionInv'
  <2> DEFINE K == {i \in DOMAIN calls : calls[i].at = "sent"}
             unread == Subsequence(calls, K)
             m == FreshMount(calls)
             hide == Call("stop-teleop", "hide", 0)
  <2>1. /\ mount' = m /\ page' = p /\ session' = session
        /\ calls' = Append(Outliving, hide) \o FirstCalls(p, m)
    BY <1>2 DEF Reload, server
  <2>2. m \in Nat \ {0} /\ p \in Pages /\ p.at \in {"teleop", "landing"}
    BY <1>0, FreshMountOK, PagesOK, PagesOwn DEF TabOK
  <2>3. unread \in Seq(Request) /\ Derived(unread, calls, K, {})
    BY <1>0, SubsequenceDerived
  <2>4. StatusInv(unread, session)
    BY <1>0, <2>3, KeptOrder
  <2> HIDE DEF unread, m
  <2>5. /\ Outliving \in Seq(Request) /\ DOMAIN Outliving = DOMAIN unread
        /\ \A k \in DOMAIN unread :
             Outliving[k] = [unread[k] EXCEPT !.mount = 0]
    <3>1. Outliving = [k \in DOMAIN unread |-> [unread[k] EXCEPT !.mount = 0]]
      BY DEF Outliving, unread
    <3>2. \A k \in DOMAIN unread : [unread[k] EXCEPT !.mount = 0] \in Request
      BY <2>3 DEF Request, AnyCall
    <3>3. DOMAIN unread = 1..Len(unread) /\ Len(unread) \in Nat
      BY <2>3
    <3> QED  BY <3>1, <3>2, <3>3
  <2>6. StatusInv(Outliving, session) /\ \A k \in DOMAIN Outliving :
          Outliving[k].mount = 0
    <3>1. \A k \in DOMAIN unread :
            /\ Outliving[k].op = unread[k].op
            /\ Outliving[k].at = unread[k].at
            /\ Outliving[k].arg = unread[k].arg
            /\ Outliving[k].seen = unread[k].seen
            /\ Outliving[k].mount = 0
      BY <2>3, <2>5 DEF Request, AnyCall
    <3> QED  BY <2>4, <2>5, <3>1 DEF StatusInv, Waits
  <2> DEFINE v == Append(Outliving, hide)
  <2>7. hide \in Request /\ hide.op = "stop-teleop" /\ hide.mount = 0
    BY CallOK DEF Ops, Args, Exits, Call
  <2>8. /\ v \in Seq(Request) /\ StatusInv(v, session)
        /\ \A k \in DOMAIN v : v[k].mount # m
    <3> HIDE DEF hide
    <3>1. StatusInv(v, session)
      BY <2>5, <2>6, <2>7, OneMore
    <3>2. v \in Seq(Request) /\ \A k \in DOMAIN v : v[k].mount = 0
      BY <2>5, <2>6, <2>7
    <3> QED  BY <2>2, <3>1, <3>2
  <2> HIDE DEF v, hide
  <2>9. StatusInv(calls', session) /\ RecordInv(calls', m, session)
    <3>1. CASE FirstCalls(p, m) = <<>>
      <4>1. calls' = v
        BY <2>1, <2>8, <3>1 DEF v
      <4> QED  BY <2>8, <4>1 DEF RecordInv
    <3>2. ASSUME NEW x \in Request, FirstCalls(p, m) = <<x>>,
                 x.at = "sent", x.op \in {"list", "record", "info"}
          PROVE  StatusInv(calls', session) /\ RecordInv(calls', m, session)
      <4>1. calls' = Append(v, x)
        BY <2>1, <2>8, <3>2 DEF v
      <4> QED  BY <2>8, <3>2, <4>1, OneMore
    <3> QED  BY <2>2, <3>1, <3>2, FirstCallOne
  <2>10. OwnInv(page', calls', session)
    BY <2>1, <2>2 DEF OwnInv
  <2> QED  BY <2>1, <2>9, <2>10 DEF SessionInv
<1>3. ASSUME NEW i \in DOMAIN calls, StopArrives(i) PROVE SessionInv'
  <2>0. session' = session
    BY <1>3 DEF StopArrives, server
  <2>1. CASE GoesHome(Rest(i))
    BY <2>0, <2>1, GoesHomeOwn
  <2>2. CASE calls' = Rest(i) /\ UNCHANGED <<mount, page>>
    BY <1>0, <2>0, <2>2, QuietStep DEF OwnStays
  <2> QED  BY <1>3, <2>1, <2>2 DEF StopArrives
<1>4. ASSUME NoticeShows \/ RetryFeeds \/ \E i \in DOMAIN calls : AnswerLost(i)
      PROVE  SessionInv'
  BY <1>0, <1>4, QuietStep
  DEF NoticeShows, RetryFeeds, AnswerLost, server, tab, OwnStays
<1>5. ASSUME NEW on \in BOOLEAN, SwitchFeeds(on) PROVE SessionInv'
  <2>1. page \in TeleopState
    BY <1>0, <1>5, PageIs DEF SwitchFeeds, OnTeleop
  <2>2. OwnStays /\ calls' = calls
    BY <1>5, <2>1 DEF SwitchFeeds, TeleopState, OwnStays, server
  <2> QED  BY <1>0, <2>2, QuietStep
<1> QED
  BY <1>1, <1>2, <1>3, <1>4, <1>5 DEF TeleopUser, TeleopCallback

(* The recording page, which hands its session over to the upload page.      *)
LEMMA RecordingOwn ==
  ASSUME Types, SessionInv,
         RecordingUser \/ Poll \/ \E i \in DOMAIN calls : RecordingCallback(i)
  PROVE  SessionInv'
<1>0. /\ TabOK /\ CallsOK /\ page \in Pages
      /\ calls \in Seq(Request) /\ StatusInv(calls, session)
  BY CallsTyped DEF Types, TabOK, SessionInv
<1>1. ASSUME NEW i \in DOMAIN calls, ForThisMount(i),
             calls[i].op \in OpsOf("recording")
      PROVE  page.at = "recording" /\ page \in RecordingState
  BY <1>0, <1>1, HeardHere, PageIs
  DEF OpsOf, Pages, LandingState, TeleopState, RecordingState, UploadState,
      Elsewhere
<1>2. ASSUME Poll PROVE SessionInv'
  <2> DEFINE x == Call("status", page.own, mount)
  <2>1. /\ calls' = Append(calls, x)
        /\ page' = page /\ mount' = mount /\ session' = session
    BY <1>2 DEF Poll, Sent, server, tab
  <2>2. page.own # 0 => page.own = session /\ NoneWaits(calls)
    BY <1>2 DEF Poll, OnRecording, SessionInv, OwnInv
  <2>3. x.op = "status" /\ x.at = "sent" /\ x.arg = page.own
    BY DEF Call
  <2> HIDE DEF x
  <2>4. /\ NoneWaits(calls) => NoneWaits(calls')
        /\ StatusInv(calls', session) /\ RecordInv(calls', mount, session)
    BY <1>0, <2>1, <2>2, <2>3, OneMore DEF SessionInv
  <2> QED  BY <2>1, <2>2, <2>4 DEF SessionInv, OwnInv
<1>3. ASSUME \/ ClickAdvance \/ AskStop \/ ClickRerecord
             \/ \E yes \in BOOLEAN : AnswerStop(yes)
      PROVE  SessionInv'
  <2>1. page \in RecordingState
    BY <1>0, <1>3, PageIs
    DEF ClickAdvance, AskStop, ClickRerecord, AnswerStop, Asking, Free,
        Connected, OnRecording
  <2>2. \/ page' = page
        \/ page' = [page EXCEPT !.hoped = After(CurrentPhase)]
        \/ page' = [page EXCEPT !.confirm = TRUE]
        \/ page' = [page EXCEPT !.confirm = FALSE]
    BY <1>3 DEF ClickAdvance, AskStop, ClickRerecord, AnswerStop, tab
  <2>3. mount' = mount /\ session' = session
    BY <1>3
    DEF ClickAdvance, AskStop, ClickRerecord, AnswerStop, server, tab
  <2>4. OwnStays
    BY <2>1, <2>2, <2>3 DEF RecordingState, OwnStays
  <2>5. \/ calls' = calls
        \/ \E op \in {"exit", "rerecord", "stop"} : Sends(op, 0)
    BY <1>3 DEF ClickAdvance, AskStop, ClickRerecord, AnswerStop
  <2> QED  BY <1>0, <2>4, <2>5, QuietStep, SendsOwn
<1>4. ASSUME LeaveRecording PROVE SessionInv'
  BY <1>0, <1>4, PagesOK, PagesOwn, OpensOwn DEF LeaveRecording, TabOK, server
<1>5. ASSUME NEW i \in DOMAIN calls, RecordArrives(i) PROVE SessionInv'
  <2>0. /\ session' = session /\ calls[i].op = "record"
        /\ calls[i].at = "answered" /\ "record" \in OpsOf("recording")
    BY <1>5 DEF RecordArrives, Arrives, server, OpsOf
  <2>1. CASE ~calls[i].ok
    BY <1>5, <2>0, <2>1, GoesHomeOwn DEF RecordArrives
  <2>2. CASE calls[i].ok /\ ~ForThisMount(i)
    BY <1>0, <1>5, <2>0, <2>2, QuietStep DEF RecordArrives, OwnStays
  <2>3. CASE calls[i].ok /\ ForThisMount(i)
    <3>1. page \in RecordingState
      BY <1>1, <2>0, <2>3
    <3>2. /\ calls' = Rest(i) /\ mount' = mount
          /\ page' = [page EXCEPT !.started = TRUE, !.index = 0,
                                  !.own = calls[i].seen.session]
      BY <1>5, <2>3 DEF RecordArrives
    <3>3. calls[i].seen.session # 0 =>
            calls[i].seen.session = session /\ NoneWaits(calls)
      BY <2>0, <2>3 DEF SessionInv, RecordInv, ForThisMount
    <3>4. page'.at = "recording" /\ page'.own = calls[i].seen.session
      BY <3>1, <3>2 DEF RecordingState
    <3>5. /\ NoneWaits(calls) => NoneWaits(calls')
          /\ StatusInv(calls', session) /\ RecordInv(calls', mount, session)
      BY <1>0, <3>2, <3>3, RestKept DEF SessionInv
    <3> QED  BY <2>0, <3>2, <3>3, <3>4, <3>5 DEF SessionInv, OwnInv
  <2> QED  BY <2>1, <2>2, <2>3
<1>6. ASSUME NEW i \in DOMAIN calls, StatusArrives(i) PROVE SessionInv'
  <2> DEFINE s == calls[i].seen
  <2>0. /\ session' = session /\ calls[i].op = "status"
        /\ calls[i].at = "answered" /\ "status" \in OpsOf("recording")
    BY <1>6 DEF StatusArrives, FollowsStatus, Arrives, server, OpsOf
  <2>1. CASE ~SessionEnded(s)
    <3>1. /\ calls' = Rest(i) /\ mount' = mount
          /\ page' = IF ~ForThisMount(i) THEN page
                     ELSE [page EXCEPT !.shown = s,
                             !.hoped = IF @ = s.phase THEN "none" ELSE @]
      BY <1>6, <2>1 DEF StatusArrives, FollowsStatus
    <3>2. CASE ~ForThisMount(i)
      BY <1>0, <2>0, <3>1, <3>2, QuietStep DEF OwnStays
    <3>3. CASE ForThisMount(i)
      <4>1. page \in RecordingState
        BY <1>1, <2>0, <3>3
      <4>2. OwnStays
        BY <2>0, <3>1, <3>3, <4>1 DEF RecordingState, OwnStays
      <4> QED  BY <1>0, <3>1, <4>2, QuietStep
    <3> QED  BY <3>2, <3>3
  <2>2. CASE SessionEnded(s)
    <3>1. GoesHome(Rest(i)) \/ GoesToUpload(s.session, calls[i].arg, Rest(i))
      BY <1>6, <2>2 DEF StatusArrives, FollowsStatus
    <3>2. CASE GoesHome(Rest(i))
      BY <2>0, <3>2, GoesHomeOwn
    <3> DEFINE d == s.session
               o == calls[i].arg
    <3>3. (o # 0 => d = o) /\ o \in Nat /\ d \in Nat
      <4>1. o # 0 => d = o
        BY <1>0, <2>0 DEF StatusInv
      <4>2. calls[i] \in Request
        BY <1>0, Typed
      <4>3. s \in Status
        BY <2>0, <4>2 DEF Request
      <4> QED  BY <2>0, <4>1, <4>2, <4>3 DEF Request, Args, Status
    <3> HIDE DEF d, o
    <3>4. CASE GoesToUpload(d, o, Rest(i)) /\ page.at = "upload"
      <4>1. /\ page' = [page EXCEPT !.dataset = d, !.own = o]
            /\ calls' = Append(Rest(i), Call("info", d, mount))
            /\ mount' = mount
        BY <3>4 DEF GoesToUpload
      <4>2. page \in UploadState
        BY <1>0, <3>4, PageIs
      <4>3. page'.at = "upload" /\ page'.dataset = d /\ page'.own = o
        BY <4>1, <4>2 DEF UploadState
      <4>4. Call("info", d, mount).op = "info"
        BY DEF Call
      <4>5. /\ Rest(i) \in Seq(Request) /\ StatusInv(Rest(i), session)
            /\ RecordInv(Rest(i), mount, session)
        BY <1>0, RestKept DEF SessionInv
      <4>6. StatusInv(calls', session) /\ RecordInv(calls', mount, session)
        BY <4>1, <4>4, <4>5, OneMore
      <4> QED  BY <2>0, <3>3, <4>1, <4>3, <4>6 DEF SessionInv, OwnInv
    <3>5. CASE GoesToUpload(d, o, Rest(i)) /\ page.at # "upload"
      <4>1. Opens(Upload(d, o, FALSE), Rest(i))
        BY <3>5 DEF GoesToUpload
      <4>2. Upload(d, o, FALSE) \in Pages
        BY <3>3, PagesOK
      <4>3. Rest(i) \in Seq(Request) /\ StatusInv(Rest(i), session)
        BY <1>0, RestKept
      <4>4. /\ Upload(d, o, FALSE).at = "upload"
            /\ Upload(d, o, FALSE).dataset = d
            /\ Upload(d, o, FALSE).own = o
        BY DEF Upload
      <4> QED  BY <1>0, <2>0, <3>3, <4>1, <4>2, <4>3, <4>4, OpensOwn
    <3> QED  BY <3>1, <3>2, <3>4, <3>5 DEF d, o
  <2> QED  BY <2>1, <2>2
<1>7. ASSUME NEW i \in DOMAIN calls, ExitArrives(i) PROVE SessionInv'
  <2>1. /\ calls[i].op \in OpsOf("recording") /\ calls' = Rest(i)
        /\ mount' = mount /\ session' = session
    BY <1>7 DEF ExitArrives, Arrives, OpsOf, server
  <2>2. CASE page' = page
    BY <1>0, <2>1, <2>2, QuietStep DEF OwnStays
  <2>3. CASE page' # page
    <3>1. ForThisMount(i) /\ page' = [page EXCEPT !.hoped = "none"]
      BY <1>7, <2>3 DEF ExitArrives
    <3>2. page \in RecordingState
      BY <1>1, <2>1, <3>1
    <3>3. OwnStays
      BY <2>1, <3>1, <3>2 DEF RecordingState, OwnStays
    <3> QED  BY <1>0, <2>1, <3>3, QuietStep
  <2> QED  BY <2>2, <2>3
<1>8. ASSUME NEW i \in DOMAIN calls, ToastArrives(i) PROVE SessionInv'
  BY <1>0, <1>8, QuietStep DEF ToastArrives, server, tab, OwnStays
<1> QED
  BY <1>2, <1>3, <1>4, <1>5, <1>6, <1>7, <1>8
  DEF RecordingUser, RecordingCallback

(* The upload page.                                                          *)
LEMMA UploadOwn ==
  ASSUME Types, SessionInv,
         UploadUser \/ \E i \in DOMAIN calls : UploadCallback(i)
  PROVE  SessionInv'
<1>0. /\ TabOK /\ CallsOK /\ page \in Pages
      /\ calls \in Seq(Request) /\ StatusInv(calls, session)
  BY CallsTyped DEF Types, TabOK, SessionInv
<1>1. ASSUME \/ ClickUpload \/ AskDelete
             \/ \E yes \in BOOLEAN : AnswerDelete(yes)
      PROVE  SessionInv'
  <2>1. page \in UploadState
    BY <1>0, <1>1, PageIs
    DEF ClickUpload, UploadOffered, AskDelete, AnswerDelete, DeleteAsked,
        OnUpload
  <2>2. \/ page' = [page EXCEPT !.busy = @ \cup {"upload"}]
        \/ page' = [page EXCEPT !.confirm = TRUE]
        \/ page' = [page EXCEPT !.confirm = FALSE, !.busy = @ \cup {"discard"}]
        \/ page' = [page EXCEPT !.confirm = FALSE]
    BY <1>1 DEF ClickUpload, AskDelete, AnswerDelete
  <2>3. mount' = mount /\ session' = session
    BY <1>1 DEF ClickUpload, AskDelete, AnswerDelete, server
  <2>4. OwnStays
    BY <2>1, <2>2, <2>3 DEF UploadState, OwnStays
  <2>5. \/ calls' = calls
        \/ \E op \in {"upload", "discard"} : \E arg : Sends(op, arg)
    BY <1>1 DEF ClickUpload, AskDelete, AnswerDelete
  <2> QED  BY <1>0, <2>4, <2>5, QuietStep, SendsOwn
<1>2. ASSUME LeaveUpload \/ GoToTraining PROVE SessionInv'
  BY <1>0, <1>2, PagesOK, PagesOwn, OpensOwn
  DEF LeaveUpload, GoToTraining, TabOK, server
<1>3. ASSUME NEW i \in DOMAIN calls, UploadCallback(i) PROVE SessionInv'
  <2>1. calls[i].op \in OpsOf("upload") /\ session' = session
    BY <1>3
    DEF UploadCallback, InfoArrives, UploadArrives, DiscardArrives, Arrives,
        OpsOf, server
  <2>2. CASE GoesHome(Rest(i))
    BY <2>1, <2>2, GoesHomeOwn
  <2>3. CASE calls' = Rest(i) /\ mount' = mount /\ page' = page
    BY <1>0, <2>1, <2>3, QuietStep DEF OwnStays
  <2>4. CASE /\ ForThisMount(i) /\ calls' = Rest(i) /\ mount' = mount
             /\ \/ page' = [page EXCEPT !.loaded = TRUE]
                \/ page' = [page EXCEPT !.busy = @ \ {"upload"},
                              !.uploaded = @ \/ calls[i].ok]
                \/ page' = [page EXCEPT !.busy = @ \ {"discard"},
                              !.confirm = FALSE]
    <3>1. page \in UploadState
      BY <1>0, <2>1, <2>4, HeardHere, PageIs
      DEF OpsOf, Pages, LandingState, TeleopState, RecordingState,
          UploadState, Elsewhere
    <3>2. OwnStays
      BY <2>1, <2>4, <3>1 DEF UploadState, OwnStays
    <3> QED  BY <1>0, <2>4, <3>2, QuietStep
  <2>5. CASE InfoArrives(i)
    BY <2>3, <2>4, <2>5 DEF InfoArrives
  <2>6. CASE UploadArrives(i)
    BY <2>3, <2>4, <2>6 DEF UploadArrives
  <2>7. CASE DiscardArrives(i)
    BY <2>2, <2>3, <2>4, <2>7 DEF DiscardArrives
  <2> QED  BY <1>3, <2>5, <2>6, <2>7 DEF UploadCallback
<1> QED  BY <1>1, <1>2, <1>3 DEF UploadUser, SkipUpload

(* The server: requests are handled in the order in which they were sent.    *)
LEMMA ServerOwn ==
  ASSUME ~Overtaking, Types, SessionInv, Server
  PROVE  SessionInv'
<1>0. /\ TabOK /\ CallsOK /\ ServerOK /\ calls \in Seq(Request)
      /\ StatusInv(calls, session) /\ RecordInv(calls, mount, session)
      /\ OwnInv(page, calls, session)
  BY CallsTyped DEF Types, SessionInv
<1>1. \A i \in DOMAIN calls : calls[i] \in Request
  BY <1>0, Typed
<1>2. ASSUME NEW i \in DOMAIN calls, NEW ok, NEW seen, Answers(i, ok, seen)
      PROVE  /\ calls' = Append(Rest(i), [calls[i] EXCEPT !.at = "answered",
                                            !.ok = ok, !.seen = seen])
             /\ [calls[i] EXCEPT !.at = "answered", !.ok = ok,
                                 !.seen = seen].op = calls[i].op
  BY <1>1, <1>2 DEF Answers, Rest, Request, AnyCall
<1>3. ASSUME NEW i \in DOMAIN calls,
             \/ ListsRobots(i) \/ CreatesRobot(i) \/ DeletesRobot(i)
             \/ StartsTeleop(i) \/ StopsTeleop(i) \/ TakesEvent(i)
             \/ StopsRecording(i) \/ ReadsInfo(i) \/ UploadsDataset(i)
             \/ DeletesDataset(i)
      PROVE  SessionInv'
  <2>1. OwnStays
    BY <1>3
    DEF ListsRobots, CreatesRobot, DeletesRobot, StartsTeleop, StopsTeleop,
        TakesEvent, StopsRecording, ReadsInfo, UploadsDataset,
        DeletesDataset, server, tab, OwnStays
  <2>2. /\ calls[i].op \notin {"record", "status"}
        /\ \E ok, seen : Answers(i, ok, seen)
    BY <1>3
    DEF ListsRobots, CreatesRobot, DeletesRobot, StartsTeleop, StopsTeleop,
        TakesEvent, StopsRecording, ReadsInfo, UploadsDataset,
        DeletesDataset, Begins
  <2> QED  BY <1>0, <1>2, <2>1, <2>2, QuietStep
<1>4. ASSUME NEW i \in DOMAIN calls, ListsCameras(i) PROVE SessionInv'
  <2> DEFINE x(found) == [calls[i] EXCEPT !.at = "answered", !.ok = found,
                            !.arg = IF found THEN index ELSE @]
  <2>1. PICK found \in BOOLEAN : calls' = Append(Rest(i), x(found))
    BY <1>4 DEF ListsCameras
  <2>2. x(found).op = "cameras" /\ OwnStays
    BY <1>1, <1>4
    DEF ListsCameras, Begins, Request, AnyCall, OwnStays, server, tab
  <2> HIDE DEF x
  <2> QED  BY <1>0, <2>1, <2>2, QuietStep
<1>5. ASSUME SessionGoesOn \/ TeleopBreaks PROVE SessionInv'
  BY <1>0, <1>5, QuietStep DEF SessionGoesOn, TeleopBreaks, tab, OwnStays
<1>6. ASSUME NEW i \in DOMAIN calls, ReportsStatus(i) PROVE SessionInv'
  <2> DEFINE s == [NoStatus EXCEPT !.active = active, !.phase = phase,
                     !.kept = kept, !.session = session]
             x == [calls[i] EXCEPT !.at = "answered", !.ok = TRUE, !.seen = s]
  <2>1. /\ calls[i].op = "status" /\ calls[i].at = "sent"
        /\ Answers(i, TRUE, s)
        /\ page' = page /\ mount' = mount /\ session' = session
    BY <1>6 DEF ReportsStatus, Begins, server, tab
  <2>2. calls' = Append(Rest(i), x)
    BY <1>2, <2>1
  <2>3. s.session = session
    BY DEF NoStatus
  <2>4. /\ x.op = "status" /\ x.at = "answered" /\ x.seen = s
        /\ x.arg = calls[i].arg
    BY <1>1, <2>1 DEF Request, AnyCall
  <2>5. calls[i].arg # 0 => calls[i].arg = session
    BY <1>0, <2>1 DEF StatusInv
  <2> HIDE DEF s, x
  <2>6. /\ Rest(i) \in Seq(Request) /\ StatusInv(Rest(i), session)
        /\ RecordInv(Rest(i), mount, session)
        /\ NoneWaits(calls) => NoneWaits(Rest(i))
    BY <1>0, RestKept
  <2>7. /\ StatusInv(calls', session) /\ RecordInv(calls', mount, session)
        /\ NoneWaits(calls) => NoneWaits(calls')
    BY <2>2, <2>3, <2>4, <2>5, <2>6, OneMore
  <2> QED  BY <1>0, <2>1, <2>7 DEF SessionInv, OwnInv
<1>7. ASSUME NEW i \in DOMAIN calls, StartsRecording(i) PROVE SessionInv'
  <2>1. /\ calls[i].op = "record" /\ calls[i].at = "sent" /\ Waits(calls, i)
        /\ \A j \in 1..(i - 1) : calls[j].at # "sent"
        /\ page' = page /\ mount' = mount
    BY <1>7 DEF StartsRecording, tab, Begins, Waits
  <2>2. DOMAIN calls = 1..Len(calls) /\ Len(calls) \in Nat
    BY <1>0
  <2>3. \A j \in DOMAIN calls : j < i => calls[j].at # "sent"
    BY <2>1, <2>2
  <2>4. ~(page.at = "recording" /\ page.started /\ page.own # 0)
    BY <1>0, <2>1 DEF OwnInv, NoneWaits
  <2>5. OwnInv(page', calls', session')
    BY <1>0, <2>1, <2>4 DEF OwnInv
  <2>6. CASE session' = session /\ Answers(i, TRUE, NoStatus)
    <3> DEFINE x == [calls[i] EXCEPT !.at = "answered", !.ok = TRUE,
                                     !.seen = NoStatus]
    <3>2. calls' = Append(Rest(i), x)
      BY <1>2, <2>6
    <3>5. x.op = "record" /\ x.at = "answered" /\ x.seen.session = 0
      <4>1. x.op = calls[i].op
        BY <1>2, <2>6
      <4>2. calls[i] \in AnyCall
        BY <1>1 DEF Request
      <4>3. x.at = "answered" /\ x.seen = NoStatus
        BY <4>2 DEF AnyCall
      <4> QED  BY <2>1, <4>1, <4>3 DEF NoStatus
    <3> HIDE DEF x
    <3>3. /\ Rest(i) \in Seq(Request) /\ StatusInv(Rest(i), session)
          /\ RecordInv(Rest(i), mount, session)
      BY <1>0, RestKept
    <3>4. StatusInv(calls', session) /\ RecordInv(calls', mount, session)
      BY <3>2, <3>3, <3>5, OneMore
    <3> QED  BY <2>1, <2>5, <2>6, <3>4 DEF SessionInv
  <2>7. CASE session' = session + 1
             /\ Answers(i, TRUE, [NoStatus EXCEPT !.session = session'])
    <3> DEFINE s == [NoStatus EXCEPT !.session = session']
               x == [calls[i] EXCEPT !.at = "answered", !.ok = TRUE,
                                     !.seen = s]
    <3>1. /\ calls' = Append(Rest(i), x) /\ x.op = "record"
          /\ x.at = "answered" /\ x.seen = s /\ x.mount = calls[i].mount
      <4>1. calls' = Append(Rest(i), x) /\ x.op = calls[i].op
        BY <1>2, <2>7
      <4>2. calls[i] \in AnyCall
        BY <1>1 DEF Request
      <4> HIDE DEF s
      <4>3. x.at = "answered" /\ x.seen = s /\ x.mount = calls[i].mount
        BY <4>2 DEF AnyCall
      <4> QED  BY <2>1, <4>1, <4>3
    <3>2. s.session = session'
      BY DEF NoStatus
    <3> HIDE DEF s, x
    (* No status request is under way, behind it or before it.               *)
    <3>3. \A j \in DOMAIN calls :
            calls[j].op = "status" /\ calls[j].arg # 0
              => calls[j].at # "sent"
      <4> SUFFICES ASSUME NEW j \in DOMAIN calls, calls[j].op = "status",
                          calls[j].arg # 0, calls[j].at = "sent"
                   PROVE  FALSE
        OBVIOUS
      <4>1. ~(j < i) /\ j # i
        BY <2>1, <2>3
      <4>2. i < j
        BY <2>2, <4>1
      <4> QED  BY <1>0, <2>1, <4>2 DEF StatusInv
    <3>4. StatusInv(calls, session')
      BY <1>0, <3>3 DEF StatusInv
    (* No other recording that this page asked for has been answered.        *)
    <3>5. RecordInv(calls, mount, session')
      BY <1>0, <2>1 DEF RecordInv, NoneWaits
    <3>6. calls[i].mount = mount => NoneWaits(Rest(i))
      <4> SUFFICES ASSUME calls[i].mount = mount PROVE NoneWaits(Rest(i))
        OBVIOUS
      <4>1. \A j \in DOMAIN calls : j # i => ~Waits(calls, j)
        <5>1. \A j \in DOMAIN calls : i < j => ~Waits(calls, j)
          BY <1>0, <2>1 DEF RecordInv
        <5>2. \A j \in DOMAIN calls : j < i => ~Waits(calls, j)
          BY <2>3 DEF Waits
        <5> QED  BY <2>2, <5>1, <5>2
      <4>2. PICK f : From(f, Rest(i), calls, DOMAIN calls \ {i}, {})
        BY <1>0, <2>2, RemoveAtDerived DEF Rest, Derived
      <4>3. Rest(i) \in Seq(Request)
        BY <1>0, RestKept
      <4> QED  BY <4>1, <4>2, <4>3 DEF From, NoneWaits, Waits
    <3>7. /\ Rest(i) \in Seq(Request) /\ StatusInv(Rest(i), session')
          /\ RecordInv(Rest(i), mount, session')
      BY <1>0, <3>4, <3>5, RestKept
    <3>8. StatusInv(calls', session') /\ RecordInv(calls', mount, session')
      BY <3>1, <3>2, <3>6, <3>7, OneMore
    <3> QED  BY <2>1, <2>5, <3>8 DEF SessionInv
  <2> QED  BY <1>7, <2>6, <2>7 DEF StartsRecording
<1>8. ASSUME NEW i \in DOMAIN calls, ConnectionFails(i) PROVE SessionInv'
  <2> DEFINE x == [calls[i] EXCEPT !.at = "answered", !.ok = FALSE,
                                   !.seen = NoStatus]
  <2>1. /\ calls[i].op \in {"record", "exit"} /\ page' = page
        /\ mount' = mount /\ session' = session
        /\ Answers(i, FALSE, NoStatus)
    BY <1>8 DEF ConnectionFails, Begins, server, tab
  <2>2. calls' = Append(Rest(i), x)
    BY <1>2, <2>1
  <2>3. x.op \in {"record", "exit"} /\ x.at = "answered" /\ ~x.ok
    <3>1. x.op = calls[i].op
      BY <1>2, <2>1
    <3>2. calls[i] \in AnyCall
      BY <1>1 DEF Request
    <3> QED  BY <2>1, <3>1, <3>2 DEF AnyCall
  <2> HIDE DEF x
  <2>4. /\ Rest(i) \in Seq(Request) /\ StatusInv(Rest(i), session)
        /\ RecordInv(Rest(i), mount, session)
        /\ NoneWaits(calls) => NoneWaits(Rest(i))
    BY <1>0, RestKept
  <2>5. /\ StatusInv(calls', session) /\ RecordInv(calls', mount, session)
        /\ NoneWaits(calls) => NoneWaits(calls')
    BY <2>2, <2>3, <2>4, OneMore
  <2> QED  BY <1>0, <2>1, <2>5 DEF SessionInv, OwnInv
<1> QED
  BY <1>3, <1>4, <1>5, <1>6, <1>7, <1>8 DEF Server, Serves

(* The cables and the camera.                                                *)
LEMMA CableOwn ==
  ASSUME Types, SessionInv,
         \/ \E k \in {0, 1} : DeviceChanges(k)
         \/ Streams \/ ComeBack
  PROVE  SessionInv'
<1>0. /\ TabOK /\ CallsOK /\ calls \in Seq(Request)
      /\ StatusInv(calls, session)
  BY CallsTyped DEF Types, SessionInv
<1>1. ASSUME NEW k \in {0, 1}, DeviceChanges(k) PROVE SessionInv'
  <2>1. /\ UNCHANGED <<server, tab>>
        /\ calls' = calls \/ Sends("cameras", 0)
    BY <1>1 DEF DeviceChanges
  <2>2. OwnStays
    BY <2>1 DEF OwnStays, server, tab
  <2> QED  BY <1>0, <2>1, <2>2, QuietStep, SendsOwn
<1>2. ASSUME Streams PROVE SessionInv'
  BY <1>0, <1>2, QuietStep
  DEF Streams, StreamComes, StreamRefused, RetryStream, OwnStays, server, tab
<1>3. ASSUME ComeBack PROVE SessionInv'
  <2>1. Opens(Landing, calls) /\ session' = session
    BY <1>3 DEF ComeBack, server
  <2>2. Landing \in Pages
    BY <1>0, PagesOK DEF TabOK
  <2> QED  BY <1>0, <2>1, <2>2, PagesOwn, OpensOwn
<1> QED  BY <1>1, <1>2, <1>3

(* Every step keeps the sessions that pages and requests are about.          *)
LEMMA SessionKept ==
  ASSUME ~Overtaking
  PROVE  Spec => []SessionInv
<1>1. Init => SessionInv
  <2> SUFFICES ASSUME Init PROVE SessionInv
    OBVIOUS
  <2>1. page.at = "landing" /\ calls = <<Call("list", NoRobot, 1)>>
    BY DEF Init
  <2>2. \A i \in DOMAIN calls : calls[i].op = "list"
    BY <2>1 DEF Call
  <2> QED  BY <2>1, <2>2 DEF SessionInv, OwnInv, StatusInv, RecordInv
<1>2. Types /\ SessionInv /\ [Next]_vars => SessionInv'
  <2> SUFFICES ASSUME Types, SessionInv, [Next]_vars PROVE SessionInv'
    OBVIOUS
  <2>1. CASE UNCHANGED vars
    BY <2>1, QuietStep DEF vars, server, tab, OwnStays, Types
  <2>2. CASE Next
    BY <2>2, LandingOwn, TeleopOwn, RecordingOwn, UploadOwn, ServerOwn,
       CableOwn
    DEF Next, User, Callback, Browser
  <2> QED  BY <2>1, <2>2
<1> QED  BY <1>1, <1>2, TypesCorrect, PTL DEF Spec

(* The upload page is about the session that its recording page began:       *)
(* Recording.tsx takes the name from the server's status, which goes on to   *)
(* the next session, but no status of a started page can be of another one   *)
(* as long as requests are handled in their order.  Neither patience nor a   *)
(* limit on clicks is needed.                                                *)
THEOREM UploadsAreOwn ==
  ASSUME ~Overtaking
  PROVE  Spec => []UploadsOwn
<1>1. SessionInv => UploadsOwn
  BY DEF SessionInv, OwnInv, UploadsOwn
<1> QED  BY <1>1, SessionKept, PTL

-----------------------------------------------------------------------------
(* What is under way when requests are handled in their order.               *)

(* What a page asks for when it is mounted.                                  *)
FirstOp(at) ==
  CASE at = "landing" -> "list" [] at = "recording" -> "record"
    [] OTHER -> "none"
IsFirst(p, c, m) == c.op = FirstOp(p.at) /\ c.mount = m

(* When that has been answered, the answers to earlier pages have all come:  *)
(* but for timers, only requests of the mounted page are under way.          *)
Flushed(p, cs, m) ==
  \A j \in DOMAIN cs : cs[j].at # "waiting" =>
    cs[j].mount = m /\ ~IsFirst(p, cs[j], m)
(* Until then the requests sent after it, and when it has been handled the   *)
(* answers that come after its own, are of the mounted page.                 *)
FirstAt(p, cs, m, i) ==
  /\ IsFirst(p, cs[i], m)
  /\ \A j \in DOMAIN cs : IsFirst(p, cs[j], m) => j = i
  /\ cs[i].at = "sent" =>
       \A j \in DOMAIN cs : i < j /\ cs[j].at = "sent" => cs[j].mount = m
  /\ cs[i].at = "answered" =>
       \A j \in DOMAIN cs :
         cs[j].at = "sent" \/ (i < j /\ cs[j].at = "answered")
           => cs[j].mount = m
  /\ cs[i].at # "waiting"
FlushInv(p, cs, m) ==
  p.at \in {"landing", "recording"} =>
    \/ Flushed(p, cs, m)
    \/ /\ p.at = "recording" => ~p.started
       /\ \E i \in DOMAIN cs : FirstAt(p, cs, m, i)
(* Timers, and only they, are waiting.                                       *)
WaitsInv(cs) ==
  \A i \in DOMAIN cs : cs[i].at = "waiting" <=> cs[i].op = "wait"

(* What a step may do to the requests: the page stays and sends one, hears   *)
(* an answer or a timer, or the server answers, in the order of the line; or *)
(* another page is mounted.                                                  *)
PageStays ==
  /\ mount' = mount /\ page'.at = page.at
  /\ page.at = "recording" =>
       page'.started = page.started /\ page'.own = page.own
(* A request that the page sends once it is mounted.                         *)
OwnCall(x) ==
  /\ x \in Request /\ x.mount = mount /\ x.op # FirstOp(page.at)
  /\ x.op = "status" => page.started /\ x.arg = page.own
  /\ x.op = "wait" => x.seen.session = session
  /\ x.at = IF x.op = "wait" THEN "waiting" ELSE "sent"
(* A timer fires, or the first of the answers is heard.                      *)
Ends(i) ==
  \/ calls[i].op = "wait"
  \/ /\ calls[i].at = "answered"
     /\ \/ calls[i].mount = 0
        \/ \A j \in DOMAIN calls : j < i => calls[j].at # "answered"
(* What the server, or the lack of one, does with a request.                 *)
Handles(i) == Serves(i) \/ ListsCameras(i) \/ ConnectionFails(i)
(* The server handles the first request that has not been handled.           *)
Answer(i, x) ==
  /\ calls[i].at = "sent"
  /\ \A j \in DOMAIN calls : j < i => calls[j].at # "sent"
  /\ x \in Request /\ x.at = "answered"
  /\ x.op = calls[i].op /\ x.mount = calls[i].mount
  /\ x.op # "cameras" => x.arg = calls[i].arg
(* One step.                                                                 *)
Move ==
  \/ PageStays /\ calls' = calls
  \/ PageStays /\ \E x : OwnCall(x) /\ calls' = Append(calls, x)
  \/ PageStays /\ \E i \in DOMAIN calls : Ends(i) /\ calls' = Rest(i)
  \/ PageStays /\ \E i \in DOMAIN calls : \E x :
                    /\ Handles(i)
                    /\ Answer(i, x) /\ calls' = Append(Rest(i), x)
  \/ PageStays /\ page.at = "upload" /\ \E i \in DOMAIN calls : \E x :
                    /\ Ends(i) /\ OwnCall(x)
                    /\ calls' = Append(Rest(i), x)
  \/ \E i \in DOMAIN calls :
       /\ Arrives(i, "record") /\ ForThisMount(i) /\ calls' = Rest(i)
       /\ mount' = mount /\ page'.at = page.at
  \/ \E p \in Pages :
       /\ p.at = "recording" => ~p.started
       /\ p.at = "landing" => p = Landing
       /\ Opens(p, calls) \/ \E i \in DOMAIN calls : Opens(p, Rest(i))
  \/ Reload(Teleop) \/ Reload(Landing)

(* A line without one of its requests: where each of the others was.         *)
LEMMA RestFrom ==
  ASSUME CallsOK, NEW i \in DOMAIN calls
  PROVE  /\ Rest(i) \in Seq(Request)
         /\ \E f :
              /\ \A k \in DOMAIN Rest(i) :
                   /\ f[k] \in DOMAIN calls /\ f[k] # i
                   /\ Rest(i)[k] = calls[f[k]]
              /\ \A k, l \in DOMAIN Rest(i) : k < l => f[k] < f[l]
              /\ \A j \in DOMAIN calls :
                   j # i => \E k \in DOMAIN Rest(i) : f[k] = j
              /\ \A k, l \in DOMAIN Rest(i) : f[k] = f[l] => k = l
<1>1. calls \in Seq(Request) /\ i \in 1..Len(calls)
  BY Typed
<1>2. /\ Rest(i) \in Seq(Request)
      /\ Derived(Rest(i), calls, DOMAIN calls \ {i}, {})
  BY <1>1, RemoveAtDerived DEF Rest
<1>3. PICK f : From(f, Rest(i), calls, DOMAIN calls \ {i}, {})
  BY <1>2 DEF Derived
<1>4. DOMAIN Rest(i) = 1..Len(Rest(i)) /\ Len(Rest(i)) \in Nat
  BY <1>2
<1>5. \A k, l \in DOMAIN Rest(i) : k < l => f[k] < f[l]
  BY <1>3, <1>4 DEF From
<1>6. \A k \in DOMAIN Rest(i) :
        /\ f[k] \in DOMAIN calls /\ f[k] # i /\ Rest(i)[k] = calls[f[k]]
  BY <1>3, <1>4 DEF From
<1>7. \A j \in DOMAIN calls : j # i => \E k \in DOMAIN Rest(i) : f[k] = j
  BY <1>3, <1>4 DEF From
<1>8. \A k, l \in DOMAIN Rest(i) : f[k] = f[l] => k = l
  <2>1. \A k \in DOMAIN Rest(i) : f[k] \in Int
    BY <1>1, <1>6
  <2> QED  BY <1>4, <1>5, <2>1
<1> QED  BY <1>2, <1>5, <1>6, <1>7, <1>8

(* Each of its requests was there.                                           *)
LEMMA RestIn ==
  ASSUME CallsOK, NEW i \in DOMAIN calls
  PROVE  /\ Rest(i) \in Seq(Request)
         /\ \A k \in DOMAIN Rest(i) :
              \E j \in DOMAIN calls : Rest(i)[k] = calls[j]
<1>1. PICK f :
        /\ \A k \in DOMAIN Rest(i) :
             f[k] \in DOMAIN calls /\ f[k] # i /\ Rest(i)[k] = calls[f[k]]
        /\ \A k, l \in DOMAIN Rest(i) : k < l => f[k] < f[l]
        /\ \A j \in DOMAIN calls :
             j # i => \E k \in DOMAIN Rest(i) : f[k] = j
        /\ \A k, l \in DOMAIN Rest(i) : f[k] = f[l] => k = l
  BY RestFrom
<1>2. ASSUME NEW k \in DOMAIN Rest(i)
      PROVE  \E j \in DOMAIN calls : Rest(i)[k] = calls[j]
  BY <1>1
<1> QED  BY <1>2, RestFrom

(* A line with one request more.                                             *)
LEMMA OneMoreAt ==
  ASSUME NEW cs \in Seq(Request), NEW x \in Request
  PROVE  LET t == Append(cs, x)
             e == Len(cs) + 1 IN
         /\ t \in Seq(Request) /\ DOMAIN t = DOMAIN cs \cup {e}
         /\ e \in Int /\ DOMAIN cs \subseteq Int
         /\ t[e] = x /\ \A k \in DOMAIN cs : t[k] = cs[k] /\ k < e
BY AppendProperties

(* Requests that are not the page's first one come and go.                   *)
LEMMA FlushLess ==
  ASSUME CallsOK, NEW i \in DOMAIN calls, FlushInv(page, calls, mount),
         PageStays, ~IsFirst(page, calls[i], mount)
  PROVE  FlushInv(page', Rest(i), mount)
<1>1. PICK f :
        /\ \A k \in DOMAIN Rest(i) :
             f[k] \in DOMAIN calls /\ f[k] # i /\ Rest(i)[k] = calls[f[k]]
        /\ \A k, l \in DOMAIN Rest(i) : k < l => f[k] < f[l]
        /\ \A j \in DOMAIN calls : j # i => \E k \in DOMAIN Rest(i) : f[k] = j
        /\ \A k, l \in DOMAIN Rest(i) : f[k] = f[l] => k = l
  BY RestFrom
<1>2. \A c : IsFirst(page', c, mount) <=> IsFirst(page, c, mount)
  BY DEF PageStays, IsFirst
<1>3. CASE Flushed(page, calls, mount)
  BY <1>1, <1>2, <1>3 DEF Flushed, FlushInv
<1>4. ASSUME NEW g \in DOMAIN calls, FirstAt(page, calls, mount, g)
      PROVE  \E h \in DOMAIN Rest(i) : FirstAt(page', Rest(i), mount, h)
  <2>1. PICK h \in DOMAIN Rest(i) : f[h] = g
    BY <1>1, <1>4 DEF FirstAt
  <2>2. FirstAt(page', Rest(i), mount, h)
    BY <1>1, <1>2, <1>4, <2>1 DEF FirstAt
  <2> QED  BY <2>2
<1>5. CASE /\ page.at = "recording" => ~page.started
           /\ \E g \in DOMAIN calls : FirstAt(page, calls, mount, g)
  BY <1>4, <1>5 DEF FlushInv, PageStays
<1> QED  BY <1>3, <1>5 DEF FlushInv, PageStays

(* The mounted page sends one more request, not its first.                   *)
LEMMA FlushMore ==
  ASSUME NEW cs \in Seq(Request), NEW x \in Request, NEW p, NEW m,
         FlushInv(p, cs, m), x.mount = m, ~IsFirst(p, x, m)
  PROVE  FlushInv(p, Append(cs, x), m)
<1> DEFINE t == Append(cs, x)
           e == Len(cs) + 1
<1>1. /\ DOMAIN t = DOMAIN cs \cup {e} /\ e \in Int /\ DOMAIN cs \subseteq Int
      /\ t[e] = x /\ \A k \in DOMAIN cs : t[k] = cs[k] /\ k < e
  BY OneMoreAt
<1> HIDE DEF t, e
<1>2. Flushed(p, cs, m) => Flushed(p, t, m)
  BY <1>1 DEF Flushed
<1>3. ASSUME NEW g \in DOMAIN cs, FirstAt(p, cs, m, g)
      PROVE  FirstAt(p, t, m, g)
  BY <1>1, <1>3 DEF FirstAt
<1>4. FlushInv(p, t, m)
  BY <1>1, <1>2, <1>3 DEF FlushInv
<1> QED  BY <1>4 DEF t

(* The page's first request is the last one that was sent.                   *)
LEMMA FlushFresh ==
  ASSUME NEW u \in Seq(Request), NEW x \in Request, NEW p, NEW m,
         \A i \in DOMAIN u : u[i].mount # m,
         x.at = "sent", IsFirst(p, x, m), p.at = "recording" => ~p.started
  PROVE  FlushInv(p, Append(u, x), m)
<1> DEFINE t == Append(u, x)
           e == Len(u) + 1
<1>1. /\ DOMAIN t = DOMAIN u \cup {e} /\ e \in Int /\ DOMAIN u \subseteq Int
      /\ t[e] = x /\ \A k \in DOMAIN u : t[k] = u[k] /\ k < e
  BY OneMoreAt
<1> HIDE DEF t, e
<1>2. FirstAt(p, t, m, e)
  BY <1>1 DEF FirstAt, IsFirst
<1>3. FlushInv(p, t, m)
  BY <1>1, <1>2 DEF FlushInv
<1> QED  BY <1>3 DEF t

(* The answer to a request goes to the end of the line.                      *)
LEMMA FlushAnswer ==
  ASSUME CallsOK, NEW i \in DOMAIN calls, NEW x, Answer(i, x),
         FlushInv(page, calls, mount), PageStays
  PROVE  FlushInv(page', Append(Rest(i), x), mount)
<1>1. x \in Request /\ Rest(i) \in Seq(Request)
  BY RestFrom DEF Answer
<1>2. IsFirst(page, x, mount) <=> IsFirst(page, calls[i], mount)
  BY DEF Answer, IsFirst
<1>3. \A c : IsFirst(page', c, mount) <=> IsFirst(page, c, mount)
  BY DEF PageStays, IsFirst
<1>4. CASE ~IsFirst(page, calls[i], mount)
  <2>1. FlushInv(page', Rest(i), mount)
    BY <1>4, FlushLess
  <2>2. CASE x.mount = mount
    BY <1>1, <1>2, <1>3, <1>4, <2>1, <2>2, FlushMore
  <2>3. CASE x.mount # mount /\ page.at \in {"landing", "recording"}
    <3>1. calls[i].mount # mount /\ calls[i].at = "sent"
      BY <2>3 DEF Answer
    <3>2. ~Flushed(page, calls, mount)
      BY <3>1 DEF Flushed
    <3>3. PICK g \in DOMAIN calls : FirstAt(page, calls, mount, g)
      BY <2>3, <3>2 DEF FlushInv
    <3>4. page.at = "recording" => ~page.started
      BY <2>3, <3>2 DEF FlushInv
    <3>5. calls[g].at = "sent"
      <4>1. calls[g].at # "answered"
        BY <3>1, <3>3 DEF FirstAt
      <4>2. calls[g].at \in {"sent", "waiting", "answered"}
        BY Typed DEF Request, AnyCall
      <4> QED  BY <3>3, <4>1, <4>2 DEF FirstAt
    <3>6. PICK f :
            /\ \A k \in DOMAIN Rest(i) :
                 f[k] \in DOMAIN calls /\ f[k] # i /\ Rest(i)[k] = calls[f[k]]
            /\ \A k, l \in DOMAIN Rest(i) : k < l => f[k] < f[l]
            /\ \A j \in DOMAIN calls :
                 j # i => \E k \in DOMAIN Rest(i) : f[k] = j
            /\ \A k, l \in DOMAIN Rest(i) : f[k] = f[l] => k = l
      BY RestFrom
    <3>7. PICK h \in DOMAIN Rest(i) : f[h] = g
      BY <1>4, <3>3, <3>6 DEF FirstAt
    <3> DEFINE t == Append(Rest(i), x)
               e == Len(Rest(i)) + 1
    <3>8. /\ DOMAIN t = DOMAIN Rest(i) \cup {e} /\ e \in Int
          /\ DOMAIN Rest(i) \subseteq Int
          /\ t[e] = x /\ \A k \in DOMAIN Rest(i) : t[k] = Rest(i)[k] /\ k < e
      BY <1>1, OneMoreAt
    <3> HIDE DEF t, e
    <3>9. FirstAt(page', t, mount, h)
      <4>1. x.at = "answered" /\ ~IsFirst(page', x, mount)
        BY <1>2, <1>3, <1>4 DEF Answer
      <4>2. t[h] = calls[g]
        BY <3>6, <3>7, <3>8
      <4>3. \A j \in DOMAIN t : j = e \/ (j \in DOMAIN Rest(i)
              /\ t[j] = calls[f[j]] /\ f[j] \in DOMAIN calls)
        BY <3>6, <3>8
      <4>4. \A j \in DOMAIN t : IsFirst(page', t[j], mount) => j = h
        BY <1>3, <3>3, <3>6, <3>7, <3>8, <4>1, <4>3 DEF FirstAt
      <4>5. \A j \in DOMAIN t : h < j /\ t[j].at = "sent" => t[j].mount = mount
        BY <3>3, <3>5, <3>6, <3>7, <3>8, <4>1, <4>3 DEF FirstAt
      <4> QED  BY <1>3, <3>3, <3>5, <3>8, <4>2, <4>4, <4>5 DEF FirstAt
    <3>10. FlushInv(page', t, mount)
      BY <3>4, <3>8, <3>9 DEF FlushInv, PageStays
    <3> QED  BY <3>10 DEF t
  <2>4. CASE page.at \notin {"landing", "recording"}
    BY <2>4 DEF FlushInv, PageStays
  <2> QED  BY <2>2, <2>3, <2>4
<1>5. CASE /\ IsFirst(page, calls[i], mount)
           /\ page.at \in {"landing", "recording"}
  <2>1. ~Flushed(page, calls, mount)
    BY <1>5 DEF Flushed, Answer
  <2>2. /\ FirstAt(page, calls, mount, i)
        /\ page.at = "recording" => ~page.started
    BY <1>5, <2>1 DEF FlushInv, FirstAt
  <2>3. PICK f :
          /\ \A k \in DOMAIN Rest(i) :
               f[k] \in DOMAIN calls /\ f[k] # i /\ Rest(i)[k] = calls[f[k]]
          /\ \A k, l \in DOMAIN Rest(i) : k < l => f[k] < f[l]
          /\ \A j \in DOMAIN calls :
               j # i => \E k \in DOMAIN Rest(i) : f[k] = j
          /\ \A k, l \in DOMAIN Rest(i) : f[k] = f[l] => k = l
    BY RestFrom
  <2> DEFINE t == Append(Rest(i), x)
             e == Len(Rest(i)) + 1
  <2>4. /\ DOMAIN t = DOMAIN Rest(i) \cup {e} /\ e \in Int
        /\ DOMAIN Rest(i) \subseteq Int
        /\ t[e] = x /\ \A k \in DOMAIN Rest(i) : t[k] = Rest(i)[k] /\ k < e
    BY <1>1, OneMoreAt
  <2> HIDE DEF t, e
  <2>5. \A j \in DOMAIN calls : calls[j].at = "sent" => calls[j].mount = mount
    <3>1. DOMAIN calls \subseteq Int
      BY Typed
    <3>2. \A j \in DOMAIN calls : calls[j].at = "sent" => j = i \/ i < j
      BY <3>1 DEF Answer
    <3> QED  BY <1>5, <2>2, <3>2 DEF FirstAt, IsFirst, Answer
  <2>6. FirstAt(page', t, mount, e)
    <3>1. x.at = "answered" /\ IsFirst(page', x, mount)
      BY <1>2, <1>3, <1>5 DEF Answer
    <3>2. \A j \in DOMAIN t : IsFirst(page', t[j], mount) => j = e
      BY <1>3, <2>2, <2>3, <2>4 DEF FirstAt
    <3>3. \A j \in DOMAIN t : t[j].at = "sent" => t[j].mount = mount
      BY <2>3, <2>4, <2>5, <3>1
    <3>4. \A j \in DOMAIN t : ~(e < j)
      BY <2>4
    <3> QED  BY <2>4, <3>1, <3>2, <3>3, <3>4 DEF FirstAt
  <2>7. FlushInv(page', t, mount)
    BY <2>2, <2>4, <2>6 DEF FlushInv, PageStays
  <2> QED  BY <2>7 DEF t
<1>6. CASE page.at \notin {"landing", "recording"}
  BY <1>6 DEF FlushInv, PageStays
<1> QED  BY <1>4, <1>5, <1>6

(* When the page's first request is heard of, the line is flushed.           *)
LEMMA FlushEnds ==
  ASSUME CallsOK, NEW i \in DOMAIN calls, FlushInv(page, calls, mount),
         Ends(i), IsFirst(page, calls[i], mount), mount # 0,
         page.at \in {"landing", "recording"}
  PROVE  /\ calls[i].at = "answered" /\ FirstAt(page, calls, mount, i)
         /\ page.at = "recording" => ~page.started
         /\ Flushed(page, Rest(i), mount)
<1>1. /\ calls[i].at = "answered" /\ calls[i].mount = mount
      /\ \A j \in DOMAIN calls : j < i => calls[j].at # "answered"
  BY DEF Ends, IsFirst, FirstOp
<1>2. ~Flushed(page, calls, mount)
  BY <1>1 DEF Flushed
<1>3. /\ FirstAt(page, calls, mount, i)
      /\ page.at = "recording" => ~page.started
  BY <1>2 DEF FlushInv, FirstAt
<1>4. DOMAIN calls \subseteq Int
  BY Typed
<1>5. \A j \in DOMAIN calls :
        j # i /\ calls[j].at # "waiting" =>
          calls[j].mount = mount /\ ~IsFirst(page, calls[j], mount)
  <2> TAKE j \in DOMAIN calls
  <2>1. calls[j].at \in {"sent", "waiting", "answered"}
    BY Typed DEF Request, AnyCall
  <2> QED  BY <1>1, <1>3, <1>4, <2>1 DEF FirstAt
<1>6. PICK f : \A k \in DOMAIN Rest(i) :
        f[k] \in DOMAIN calls /\ f[k] # i /\ Rest(i)[k] = calls[f[k]]
  BY RestFrom
<1> QED  BY <1>1, <1>3, <1>5, <1>6 DEF Flushed

(* The line when a page has been mounted: what stays under way, a stop if    *)
(* teleoperation is left, and the page's first request x.                    *)
FirstCall(p, m, x) ==
  \/ p.at = "landing" /\ x = Call("list", NoRobot, m)
  \/ p.at = "recording" /\ x = Call("record", p.index, m)
  \/ p.at = "upload" /\ x = Call("info", p.dataset, m)
Line(p, m, u, cs) ==
  /\ u \in Seq(Request) /\ \A i \in DOMAIN u : u[i].mount # m
  /\ \/ p.at \in {"teleop", "elsewhere"} /\ cs = u
     \/ \E x \in Request : FirstCall(p, m, x) /\ cs = Append(u, x)

(* When a page is mounted nothing of its own is under way but what it asks   *)
(* for at once.                                                              *)
LEMMA LineOK ==
  ASSUME NEW p \in Pages, NEW m \in Nat \ {0}, NEW u \in Seq(Request),
         \A i \in DOMAIN u : u[i].mount # m
  PROVE  Line(p, m, u, u \o FirstCalls(p, m))
<1>1. FirstCalls(p, m) \in Seq(Request)
  <2>1. FirstCalls(p, m) \in Seq(Heard(m, p.at))
    BY FirstCallsOK
  <2> QED  BY <2>1 DEF Heard
<1>2. CASE p \in LandingState
  <2> DEFINE x == Call("list", NoRobot, m)
  <2>1. FirstCalls(p, m) = <<x>> /\ p.at = "landing"
    BY <1>2 DEF FirstCalls, LandingState
  <2> HIDE DEF x
  <2>2. x \in Request /\ u \o FirstCalls(p, m) = Append(u, x)
    BY <1>1, <2>1
  <2>3. FirstCall(p, m, x)
    BY <2>1 DEF FirstCall, x
  <2> QED  BY <2>2, <2>3 DEF Line
<1>3. CASE p \in RecordingState
  <2> DEFINE x == Call("record", p.index, m)
  <2>1. FirstCalls(p, m) = <<x>> /\ p.at = "recording"
    BY <1>3 DEF FirstCalls, RecordingState
  <2> HIDE DEF x
  <2>2. x \in Request /\ u \o FirstCalls(p, m) = Append(u, x)
    BY <1>1, <2>1
  <2>3. FirstCall(p, m, x)
    BY <2>1 DEF FirstCall, x
  <2> QED  BY <2>2, <2>3 DEF Line
<1>4. CASE p \in UploadState
  <2> DEFINE x == Call("info", p.dataset, m)
  <2>1. FirstCalls(p, m) = <<x>> /\ p.at = "upload"
    BY <1>4 DEF FirstCalls, UploadState
  <2> HIDE DEF x
  <2>2. x \in Request /\ u \o FirstCalls(p, m) = Append(u, x)
    BY <1>1, <2>1
  <2>3. FirstCall(p, m, x)
    BY <2>1 DEF FirstCall, x
  <2> QED  BY <2>2, <2>3 DEF Line
<1>5. CASE p \in TeleopState \/ p = Elsewhere
  <2>1. FirstCalls(p, m) = <<>> /\ p.at \in {"teleop", "elsewhere"}
    BY <1>5 DEF FirstCalls, TeleopState, Elsewhere
  <2>2. u \o FirstCalls(p, m) = u
    BY <2>1
  <2> QED  BY <2>1, <2>2 DEF Line
<1> QED  BY <1>2, <1>3, <1>4, <1>5 DEF Pages

(* That is what mounting a page does to the requests.                        *)
LEMMA OpensLine ==
  ASSUME TabOK, NEW p \in Pages, NEW cs \in Seq(Request), Opens(p, cs)
  PROVE  /\ mount' \in Nat \ {0} /\ page' = p /\ streams' = Dropped
         /\ Line(p, mount', Unmounted(cs), calls')
<1>1. Unmounted(cs) \in Seq(Request)
  BY UnmountedOK
<1>2. mount' = FreshMount(Unmounted(cs)) /\ page' = p /\ streams' = Dropped
      /\ calls' = Unmounted(cs) \o FirstCalls(p, mount')
  BY DEF Opens
<1>3. mount' \in Nat \ {0} /\
      \A i \in DOMAIN Unmounted(cs) : Unmounted(cs)[i].mount # mount'
  BY <1>1, <1>2, FreshMountOK
<1> QED  BY <1>1, <1>2, <1>3, LineOK

(* What is left when another page is mounted.                                *)
LEMMA UnmountedElements ==
  ASSUME TabOK, NEW cs \in Seq(Request), NEW k \in DOMAIN Unmounted(cs)
  PROVE  \/ k \in DOMAIN cs /\ Unmounted(cs)[k] = cs[k]
         \/ /\ Unmounted(cs)[k].op = "stop-teleop"
            /\ Unmounted(cs)[k].at = "sent"
            /\ page.at = "teleop"
<1> DEFINE x == Call("stop-teleop", "leave", mount)
<1>1. x \in Request /\ x.op = "stop-teleop" /\ x.at = "sent"
  <2>1. x \in Request
    BY CallOK DEF TabOK, Ops, Args, Exits
  <2> QED  BY <2>1 DEF Call
<1> HIDE DEF x
<1>2. CASE Unmounted(cs) = cs
  BY <1>2
<1>3. CASE Unmounted(cs) = Append(cs, x) /\ page.at = "teleop"
  BY <1>1, <1>3, OneMoreAt
<1> QED  BY <1>2, <1>3 DEF Unmounted, x

(* The line when the tab has been reloaded.                                  *)
LEMMA ReloadLine ==
  ASSUME Types, NEW p \in {Teleop, Landing}, Reload(p)
  PROVE  /\ p \in Pages /\ mount' \in Nat \ {0} /\ page' = p
         /\ streams' = NoStreams
         /\ \E u : /\ Line(p, mount', u, calls')
                   /\ \A k \in DOMAIN u :
                        /\ u[k].at = "sent" /\ u[k].mount = 0
                        /\ \/ u[k].op = "stop-teleop"
                           \/ \E j \in DOMAIN calls :
                                /\ calls[j].at = "sent"
                                /\ u[k].op = calls[j].op
<1> DEFINE K == {i \in DOMAIN calls : calls[i].at = "sent"}
           unread == Subsequence(calls, K)
           hide == Call("stop-teleop", "hide", 0)
           u == Append(Outliving, hide)
<1>0. TabOK /\ CallsOK /\ calls \in Seq(Request)
  BY CallsTyped DEF Types
<1>1. /\ mount' = FreshMount(calls) /\ page' = p /\ streams' = NoStreams
      /\ calls' = u \o FirstCalls(p, mount')
  BY DEF Reload
<1>2. mount' \in Nat \ {0} /\ p \in Pages
  BY <1>0, <1>1, FreshMountOK, PagesOK DEF TabOK
<1>3. unread \in Seq(Request) /\ Derived(unread, calls, K, {})
  BY <1>0, SubsequenceDerived
<1>4. \A k \in DOMAIN unread : unread[k] \in Request /\
        \E j \in K : unread[k] = calls[j]
  <2>1. PICK f : From(f, unread, calls, K, {})
    BY <1>3 DEF Derived
  <2>2. DOMAIN unread = 1..Len(unread)
    BY <1>3
  <2>3. \A k \in DOMAIN unread : f[k] \in K /\ unread[k] = calls[f[k]]
    <3> HIDE DEF unread, K
    <3> QED  BY <2>1, <2>2 DEF From
  <2>4. \A k \in DOMAIN unread : unread[k] \in Request
    <3> HIDE DEF unread
    <3> QED  BY <1>3
  <2> QED  BY <2>3, <2>4
<1> HIDE DEF unread
<1>5. /\ Outliving \in Seq(Request) /\ DOMAIN Outliving = DOMAIN unread
      /\ \A k \in DOMAIN unread :
           Outliving[k] = [unread[k] EXCEPT !.mount = 0]
  <2>1. Outliving = [k \in DOMAIN unread |-> [unread[k] EXCEPT !.mount = 0]]
    BY DEF Outliving, unread
  <2>2. \A k \in DOMAIN unread : [unread[k] EXCEPT !.mount = 0] \in Request
    BY <1>4 DEF Request, AnyCall
  <2>3. DOMAIN unread = 1..Len(unread) /\ Len(unread) \in Nat
    BY <1>3
  <2> QED  BY <2>1, <2>2, <2>3
<1>6. \A k \in DOMAIN Outliving :
        /\ Outliving[k].at = "sent" /\ Outliving[k].mount = 0
        /\ \E j \in DOMAIN calls :
             calls[j].at = "sent" /\ Outliving[k].op = calls[j].op
  <2> TAKE k \in DOMAIN Outliving
  <2>1. PICK j \in K : unread[k] = calls[j]
    BY <1>4, <1>5
  <2>2. unread[k] \in AnyCall /\ Outliving[k] = [unread[k] EXCEPT !.mount = 0]
    BY <1>4, <1>5 DEF Request
  <2>3. Outliving[k].at = unread[k].at /\ Outliving[k].mount = 0
        /\ Outliving[k].op = unread[k].op
    BY <2>2 DEF AnyCall
  <2> QED  BY <2>1, <2>3
<1>7. hide \in Request /\ hide.op = "stop-teleop" /\ hide.mount = 0
      /\ hide.at = "sent"
  BY CallOK DEF Ops, Args, Exits, Call
<1> HIDE DEF hide
<1>8. /\ u \in Seq(Request)
      /\ \A k \in DOMAIN u :
           \/ k \in DOMAIN Outliving /\ u[k] = Outliving[k]
           \/ u[k] = hide
  BY <1>5, <1>7, OneMoreAt
<1> HIDE DEF u
<1>9. \A k \in DOMAIN u : u[k].mount = 0
  BY <1>6, <1>7, <1>8
<1>10. Line(p, mount', u, calls')
  BY <1>1, <1>2, <1>8, <1>9, LineOK
<1> QED  BY <1>1, <1>2, <1>6, <1>7, <1>8, <1>10

(* A page that is mounted finds the line in order.                           *)
LEMMA LineFlush ==
  ASSUME NEW p \in Pages, NEW m \in Nat \ {0}, NEW u, NEW cs,
         Line(p, m, u, cs), p.at = "recording" => ~p.started
  PROVE  /\ FlushInv(p, cs, m)
         /\ WaitsInv(u) => WaitsInv(cs)
<1>1. CASE p.at \in {"teleop", "elsewhere"} /\ cs = u
  BY <1>1 DEF FlushInv
<1>2. ASSUME NEW x \in Request, FirstCall(p, m, x), cs = Append(u, x)
      PROVE  /\ FlushInv(p, cs, m)
             /\ WaitsInv(u) => WaitsInv(cs)
  <2>1. u \in Seq(Request) /\ \A i \in DOMAIN u : u[i].mount # m
    BY DEF Line
  <2>2. /\ x.at = "sent" /\ x.mount = m
        /\ x.op \in {"list", "record", "info"}
        /\ p.at = "landing" => x.op = "list"
        /\ p.at = "recording" => x.op = "record"
    BY <1>2 DEF FirstCall, Call
  <2>3. p.at \in {"landing", "recording"} => IsFirst(p, x, m)
    BY <2>2 DEF IsFirst, FirstOp
  <2>4. p.at \in {"landing", "recording"} => FlushInv(p, Append(u, x), m)
    BY <2>1, <2>2, <2>3, FlushFresh
  <2>5. FlushInv(p, cs, m)
    BY <1>2, <2>4 DEF FlushInv
  <2>6. WaitsInv(u) => WaitsInv(cs)
    BY <1>2, <2>1, <2>2, OneMoreAt DEF WaitsInv
  <2> QED  BY <2>5, <2>6
<1> QED  BY <1>1, <1>2 DEF Line

(* Every move leaves it in order.                                            *)
LEMMA MoveFlush ==
  ASSUME ~Overtaking, Types, Move, FlushInv(page, calls, mount),
         WaitsInv(calls)
  PROVE  FlushInv(page', calls', mount') /\ WaitsInv(calls')
<1>0. TabOK /\ CallsOK /\ calls \in Seq(Request) /\ mount \in Nat \ {0}
  BY CallsTyped DEF Types, TabOK
<1>1. ASSUME NEW i \in DOMAIN calls
      PROVE  Rest(i) \in Seq(Request) /\ WaitsInv(Rest(i))
  <2>1. PICK f : \A k \in DOMAIN Rest(i) :
          f[k] \in DOMAIN calls /\ Rest(i)[k] = calls[f[k]]
    BY <1>0, RestFrom
  <2>2. WaitsInv(Rest(i))
    BY <2>1 DEF WaitsInv
  <2> QED  BY <1>0, <2>2, RestFrom
<1>2. ASSUME NEW cs \in Seq(Request), NEW x \in Request, WaitsInv(cs),
             x.at = "waiting" <=> x.op = "wait"
      PROVE  WaitsInv(Append(cs, x))
  BY <1>2, OneMoreAt DEF WaitsInv
<1>3. CASE PageStays /\ calls' = calls
  BY <1>3 DEF FlushInv, PageStays, Flushed, FirstAt, IsFirst
<1>4. ASSUME PageStays, NEW x, OwnCall(x), calls' = Append(calls, x)
      PROVE  FlushInv(page', calls', mount') /\ WaitsInv(calls')
  <2>1. FlushInv(page', calls, mount)
    BY <1>4 DEF FlushInv, PageStays, Flushed, FirstAt, IsFirst
  <2>2. ~IsFirst(page', x, mount) /\ x \in Request /\ x.mount = mount
    BY <1>4 DEF OwnCall, IsFirst, PageStays
  <2>3. mount' = mount
    BY <1>4 DEF PageStays
  <2> QED
    BY <1>0, <1>2, <1>4, <2>1, <2>2, <2>3, FlushMore DEF OwnCall
<1>5. ASSUME PageStays, NEW i \in DOMAIN calls, Ends(i), calls' = Rest(i)
      PROVE  FlushInv(page', calls', mount') /\ WaitsInv(calls')
  <2>1. CASE ~IsFirst(page, calls[i], mount)
    BY <1>0, <1>1, <1>5, <2>1, FlushLess DEF PageStays
  <2>2. CASE /\ IsFirst(page, calls[i], mount)
             /\ page.at \in {"landing", "recording"}
    <3>1. Flushed(page, Rest(i), mount)
      BY <1>0, <1>5, <2>2, FlushEnds
    <3>2. Flushed(page', calls', mount')
      BY <1>5, <3>1 DEF Flushed, IsFirst, PageStays
    <3> QED  BY <1>1, <1>5, <3>2 DEF FlushInv
  <2>3. CASE page.at \notin {"landing", "recording"}
    BY <1>1, <1>5, <2>3 DEF FlushInv, PageStays
  <2> QED  BY <2>1, <2>2, <2>3
<1>6. ASSUME PageStays, NEW i \in DOMAIN calls, NEW x, Answer(i, x),
             calls' = Append(Rest(i), x)
      PROVE  FlushInv(page', calls', mount') /\ WaitsInv(calls')
  <2>1. x \in Request /\ x.at = "answered" /\ x.op # "wait"
    BY <1>6 DEF Answer, WaitsInv
  <2>2. mount' = mount
    BY <1>6 DEF PageStays
  <2> QED
    BY <1>0, <1>1, <1>2, <1>6, <2>1, <2>2, FlushAnswer
<1>7. ASSUME PageStays, page.at = "upload", NEW i \in DOMAIN calls, NEW x,
             OwnCall(x), calls' = Append(Rest(i), x)
      PROVE  FlushInv(page', calls', mount') /\ WaitsInv(calls')
  <2>1. FlushInv(page', calls', mount')
    BY <1>7 DEF PageStays, FlushInv
  <2>2. WaitsInv(calls')
    BY <1>1, <1>2, <1>7 DEF OwnCall
  <2> QED  BY <2>1, <2>2
<1>8. ASSUME NEW i \in DOMAIN calls, Arrives(i, "record"), ForThisMount(i),
             calls' = Rest(i), mount' = mount, page'.at = page.at
      PROVE  FlushInv(page', calls', mount') /\ WaitsInv(calls')
  <2>1. page.at = "recording"
    <3>1. calls[i].op = "record" /\ calls[i].op \in OpsOf(page.at)
      BY <1>0, <1>8, HeardHere DEF Arrives
    <3> QED  BY <3>1 DEF OpsOf
  <2>2. IsFirst(page, calls[i], mount) /\ Ends(i)
    <3>1. DOMAIN calls = 1..Len(calls) /\ Len(calls) \in Nat
      BY <1>0
    <3>2. IsFirst(page, calls[i], mount)
      BY <1>8, <2>1 DEF IsFirst, FirstOp, Arrives, ForThisMount
    <3>3. \A j \in DOMAIN calls : j < i => j \in 1..(i - 1)
      BY <3>1
    <3> QED  BY <1>8, <3>2, <3>3 DEF Ends, Arrives
  <2>3. Flushed(page, Rest(i), mount)
    BY <1>0, <2>1, <2>2, FlushEnds
  <2>4. Flushed(page', calls', mount')
    BY <1>8, <2>3 DEF Flushed, IsFirst
  <2> QED  BY <1>1, <1>8, <2>4 DEF FlushInv
<1>9. ASSUME NEW p \in Pages, p.at = "recording" => ~p.started,
             \/ Opens(p, calls)
             \/ \E i \in DOMAIN calls : Opens(p, Rest(i))
      PROVE  FlushInv(page', calls', mount') /\ WaitsInv(calls')
  <2>1. PICK cs \in Seq(Request) : Opens(p, cs) /\ WaitsInv(cs)
    BY <1>0, <1>1, <1>9
  <2>2. /\ Line(p, mount', Unmounted(cs), calls') /\ page' = p
        /\ mount' \in Nat \ {0}
    BY <1>0, <2>1, OpensLine
  <2>3. WaitsInv(Unmounted(cs))
    <3>1. \A k \in DOMAIN Unmounted(cs) :
            \/ k \in DOMAIN cs /\ Unmounted(cs)[k] = cs[k]
            \/ /\ Unmounted(cs)[k].op = "stop-teleop"
               /\ Unmounted(cs)[k].at = "sent"
      BY <1>0, UnmountedElements
    <3> QED  BY <2>1, <3>1 DEF WaitsInv
  <2> QED  BY <1>9, <2>2, <2>3, LineFlush
<1>10. ASSUME NEW p \in {Teleop, Landing}, Reload(p)
       PROVE  FlushInv(page', calls', mount') /\ WaitsInv(calls')
  <2>1. /\ p \in Pages /\ mount' \in Nat \ {0} /\ page' = p
        /\ p.at # "recording"
    BY <1>10, ReloadLine, PagesOwn
  <2>2. PICK u : /\ Line(p, mount', u, calls')
                 /\ \A k \in DOMAIN u :
                      /\ u[k].at = "sent"
                      /\ \/ u[k].op = "stop-teleop"
                         \/ \E j \in DOMAIN calls :
                              calls[j].at = "sent" /\ u[k].op = calls[j].op
    BY <1>10, ReloadLine
  <2>3. WaitsInv(u)
    BY <2>2 DEF WaitsInv
  <2> QED  BY <2>1, <2>2, <2>3, LineFlush
<1> QED
  BY <1>3, <1>4, <1>5, <1>6, <1>7, <1>8, <1>9, <1>10 DEF Move

(* Each part of the system moves in this way.  First what they share: an     *)
(* answer that arrives, a request that is sent.                              *)
LEMMA ArrivesEnds ==
  ASSUME ~Overtaking, CallsOK, NEW i \in DOMAIN calls, NEW op, Arrives(i, op)
  PROVE  Ends(i)
<1>1. DOMAIN calls = 1..Len(calls) /\ Len(calls) \in Nat
  BY Typed
<1>2. \A j \in DOMAIN calls : j < i => j \in 1..(i - 1)
  BY <1>1
<1> QED  BY <1>2 DEF Arrives, Ends

(* Each of the pages' actions is such a move: a request is sent, ...         *)
LEMMA SendsMove ==
  ASSUME Types, NEW op \in OpsOf(page.at), NEW arg \in Args(op),
         op \notin {"list", "record", "wait"}, calls' = Sent(op, arg),
         op = "status" => page.started /\ arg = page.own, PageStays
  PROVE  Move
<1> DEFINE x == Call(op, arg, mount)
<1>1. op \in Ops /\ mount \in Nat
  BY DEF OpsOf, Ops, Types, TabOK
<1>2. x \in Request
  BY <1>1, CallOK
<1>3. x.mount = mount /\ x.op = op /\ x.at = "sent" /\ x.arg = arg
  BY DEF Call
<1> HIDE DEF x
<1>4. op # FirstOp(page.at)
  <2>1. op # "none"
    BY <1>1 DEF Ops
  <2> QED  BY <2>1 DEF FirstOp
<1>5. OwnCall(x)
  BY <1>2, <1>3, <1>4 DEF OwnCall
<1> QED  BY <1>5 DEF Move, Sent, x

(* A step with neither a new page nor a new request.                         *)
LEMMA RestMove ==
  ASSUME PageStays,
         \/ calls' = calls
         \/ \E i \in DOMAIN calls : Ends(i) /\ calls' = Rest(i)
  PROVE  Move
BY DEF Move

(* ... an answer leads to the landing page, ...                              *)
LEMMA GoesHomeMove ==
  ASSUME Types, NEW i \in DOMAIN calls, Ends(i), GoesHome(Rest(i))
  PROVE  Move
<1>1. CASE page.at = "landing"
  <2>1. PageStays /\ calls' = Rest(i)
    BY <1>1 DEF GoesHome, PageStays
  <2> QED  BY <2>1, RestMove
<1>2. CASE page.at # "landing"
  <2>1. Opens(Landing, Rest(i)) /\ Landing \in Pages
        /\ Landing.at # "recording"
    BY <1>2, PagesOK, PagesOwn DEF GoesHome, Types, TabOK
  <2> QED  BY <2>1 DEF Move
<1> QED  BY <1>1, <1>2

(* ... and so on, for everything the landing page does, ...                  *)
LEMMA LandingMove ==
  ASSUME ~Overtaking, Types,
         LandingUser \/ \E i \in DOMAIN calls : LandingCallback(i)
  PROVE  Move
<1>0. /\ TabOK /\ CallsOK /\ ServerOK /\ page \in Pages
      /\ calls \in Seq(Request) /\ mount \in Nat
  BY CallsTyped DEF Types, TabOK
<1>1. ASSUME \/ \E r \in Robots : SelectRobot(r)
             \/ CloseDialog \/ FillRecording
      PROVE  Move
  <2>1. page \in LandingState /\ page.at = "landing"
    BY <1>0, <1>1, PageIs
    DEF SelectRobot, MaySelect, Chooses, Uncovered, CloseDialog,
        FillRecording, OnLanding
  <2>2. page'.at = "landing"
    BY <1>1, <2>1 DEF SelectRobot, CloseDialog, FillRecording, LandingState
  <2>3. calls' = calls /\ PageStays
    BY <1>1, <2>1, <2>2
    DEF SelectRobot, CloseDialog, FillRecording, PageStays
  <2> QED  BY <2>3, RestMove
<1>2. ASSUME NEW r \in Robots, CreateRobot(r) PROVE Move
  <2>1. /\ page.at = "landing" /\ PageStays /\ calls' = Sent("create", r)
    BY <1>2
    DEF CreateRobot, MayCreate, Chooses, Uncovered, OnLanding, Sends, tab,
        PageStays
  <2>2. "create" \in OpsOf(page.at) /\ r \in Args("create")
    BY <2>1 DEF OpsOf, Args
  <2> QED  BY <2>1, <2>2, SendsMove
<1>3. ASSUME NEW op \in {"delete", "move-arm"}, Known, tab' = tab,
             Sends(op, page.selected)
      PROVE  Move
  <2>1. /\ page.at = "landing" /\ PageStays
        /\ calls' = Sent(op, page.selected)
    BY <1>3 DEF Known, OnLanding, Sends, tab, PageStays
  <2>2. page \in LandingState
    BY <1>0, <2>1, PageIs
  <2>3. page.selected \in Robots
    BY <1>3, <2>2 DEF Known, LandingState, Names
  <2>4. op \in OpsOf(page.at) /\ page.selected \in Args(op)
    BY <2>1, <2>3 DEF OpsOf, Args
  <2> QED  BY <2>1, <2>4, SendsMove
<1>4. ASSUME \/ DeleteRobot \/ ClickTeleop PROVE Move
  BY <1>3, <1>4
  DEF DeleteRobot, DeleteOffered, ClickTeleop, TeleopOffered, Clean
<1>5. ASSUME NEW r \in Robots, Calibrate(r) PROVE Move
  BY <1>5, RestMove DEF Calibrate, tab, PageStays
<1>6. ASSUME \/ \E d \in disk, onHub \in BOOLEAN : PickDataset(d, onHub)
             \/ GoElsewhere
      PROVE  Move
  <2>1. \E p \in Pages :
          p.at \notin {"landing", "recording"} /\ Opens(p, calls)
    BY <1>0, <1>6, PagesOK, PagesOwn DEF PickDataset, GoElsewhere, ServerOK
  <2> QED  BY <2>1 DEF Move
<1>7. ASSUME OpenDialog PROVE Move
  <2>1. page \in LandingState /\ page.at = "landing"
    BY <1>0, <1>7, PageIs DEF OpenDialog, Uncovered, OnLanding
  <2>2. /\ mount' = mount /\ calls' = Sent("cameras", 0)
        /\ page' = [page EXCEPT !.dialog = "open", !.index = 0]
    BY <1>7 DEF OpenDialog, Sends
  <2>3. PageStays
    BY <2>1, <2>2 DEF PageStays, LandingState
  <2>4. "cameras" \in OpsOf(page.at) /\ 0 \in Args("cameras")
    BY <2>1 DEF OpsOf, Args
  <2> QED  BY <2>2, <2>3, <2>4, SendsMove
<1>8. ASSUME ClickRecord PROVE Move
  <2>1. page \in LandingState /\ page.at = "landing"
    BY <1>0, <1>8, PageIs DEF ClickRecord, CanRecord, OnLanding
  <2>2. /\ mount' = mount /\ calls' = Append(calls, Pause)
        /\ page' = [page EXCEPT !.dialog = "paused"]
    BY <1>8 DEF ClickRecord
  <2>3. PageStays
    BY <2>1, <2>2 DEF PageStays, LandingState
  <2>4. Pause \in Request
    <3>1. Call("wait", page.index, mount) \in Request
      BY <1>0, <2>1, CallOK DEF Ops, Args, LandingState
    <3>2. [NoStatus EXCEPT !.session = session] \in Status
      BY <1>0, NoStatusOK DEF Status, ServerOK
    <3> QED  BY <3>1, <3>2 DEF Pause, Request, AnyCall
  <2>5. /\ Pause.op = "wait" /\ Pause.at = "waiting" /\ Pause.mount = mount
        /\ Pause.seen.session = session
    BY DEF Pause, Call, NoStatus
  <2>6. OwnCall(Pause)
    BY <2>1, <2>4, <2>5 DEF OwnCall, FirstOp
  <2> QED  BY <2>2, <2>3, <2>6 DEF Move
<1>9. ASSUME NEW i \in DOMAIN calls, TeleopStarted(i) \/ WaitOver(i)
      PROVE  Move
  <2>1. Ends(i) /\ calls[i] \in Request
    BY <1>0, <1>9, ArrivesEnds, Typed
    DEF TeleopStarted, WaitOver, TimerRuns, Ends
  <2>2. CASE calls' = Rest(i) /\ UNCHANGED <<mount, page>>
    BY <2>1, <2>2, RestMove DEF PageStays
  <2>3. CASE Opens(Teleop, Rest(i))
    BY <2>3, PagesOK, PagesOwn DEF Move
  <2>4. CASE WaitOver(i) /\ Opens(Recording(calls[i].arg), Rest(i))
    <3>1. Recording(calls[i].arg) \in Pages
      BY <2>1, <2>4, PagesOK DEF WaitOver, TimerRuns, Request, Args
    <3> QED  BY <2>4, <3>1, PagesOwn DEF Move
  <2> QED  BY <1>9, <2>2, <2>3, <2>4 DEF TeleopStarted, WaitOver
<1>10. ASSUME NEW i \in DOMAIN calls,
              \/ ListArrives(i) \/ CreateArrives(i)
              \/ DeleteArrives(i) \/ CamerasArrive(i)
       PROVE  Move
  <2>1. /\ calls[i].op \in {"list", "create", "delete", "cameras"}
        /\ calls' = Rest(i) /\ mount' = mount
        /\ \E op : Arrives(i, op)
    BY <1>10
    DEF ListArrives, CreateArrives, DeleteArrives, CamerasArrive, Arrives
  <2>2. Ends(i)
    BY <1>0, <2>1, ArrivesEnds
  <2>3. CASE page' = page
    BY <2>1, <2>2, <2>3, RestMove DEF PageStays
  <2>4. CASE page' # page
    <3>1. ForThisMount(i)
      BY <1>10, <2>4
      DEF ListArrives, CreateArrives, DeleteArrives, CamerasArrive
    <3>2. page \in LandingState
      BY <1>0, <2>1, <3>1, HeardHere, PageIs
      DEF OpsOf, Pages, LandingState, TeleopState, RecordingState,
          UploadState, Elsewhere
    <3>3. page'.at = page.at
      <4>1. CASE ListArrives(i)
        BY <2>4, <3>2, <4>1 DEF ListArrives, LandingState
      <4>2. CASE CreateArrives(i)
        BY <2>4, <3>2, <4>2 DEF CreateArrives, LandingState
      <4>3. CASE DeleteArrives(i)
        BY <2>4, <3>2, <4>3 DEF DeleteArrives, LandingState
      <4>4. CASE CamerasArrive(i)
        BY <2>4, <3>2, <4>4 DEF CamerasArrive, LandingState
      <4> QED  BY <1>10, <4>1, <4>2, <4>3, <4>4
    <3>4. PageStays
      BY <2>1, <3>2, <3>3 DEF PageStays, LandingState
    <3> QED  BY <2>1, <2>2, <3>4, RestMove
  <2> QED  BY <2>3, <2>4
<1> QED
  BY <1>1, <1>2, <1>4, <1>5, <1>6, <1>7, <1>8, <1>9, <1>10
  DEF LandingUser, LandingCallback, Configure, OpenTraining

(* ... the teleoperation page, ...                                           *)
LEMMA TeleopMove ==
  ASSUME ~Overtaking, Types,
         TeleopUser \/ NoticeShows \/ \E i \in DOMAIN calls : TeleopCallback(i)
  PROVE  Move
<1>0. TabOK /\ CallsOK /\ page \in Pages /\ Landing \in Pages
  BY PagesOK DEF Types, TabOK
<1>1. ASSUME ClickBack \/ LeaveTeleop PROVE Move
  <2>1. CASE Opens(Landing, calls)
    BY <1>0, <2>1, PagesOwn DEF Move
  <2>2. CASE ~Opens(Landing, calls)
    <3>1. page \in TeleopState
      BY <1>0, <1>1, PageIs DEF ClickBack, LeaveTeleop, OnTeleop
    <3>2. /\ page' = [page EXCEPT !.stopped = TRUE] /\ mount' = mount
          /\ calls' = Sent("stop-teleop", "back")
      BY <1>1, <2>2 DEF ClickBack, LeaveTeleop, Sends
    <3>3. PageStays
      BY <3>1, <3>2 DEF TeleopState, PageStays
    <3>4. "stop-teleop" \in OpsOf(page.at) /\ "back" \in Args("stop-teleop")
      BY <3>1 DEF TeleopState, OpsOf, Args, Exits
    <3> QED  BY <3>2, <3>3, <3>4, SendsMove
  <2> QED  BY <2>1, <2>2
<1>2. ASSUME NEW i \in DOMAIN calls, StopArrives(i) PROVE Move
  <2>1. Ends(i)
    BY <1>0, <1>2, ArrivesEnds DEF StopArrives
  <2>2. CASE GoesHome(Rest(i))
    BY <2>1, <2>2, GoesHomeMove
  <2>3. CASE calls' = Rest(i) /\ UNCHANGED <<mount, page>>
    BY <2>1, <2>3, RestMove DEF PageStays
  <2> QED  BY <1>2, <2>2, <2>3 DEF StopArrives
<1>3. ASSUME NEW i \in DOMAIN calls, AnswerLost(i) PROVE Move
  BY <1>3, RestMove DEF AnswerLost, Ends, PageStays, tab
<1>4. ASSUME NoticeShows \/ RetryFeeds PROVE Move
  BY <1>4, RestMove DEF NoticeShows, RetryFeeds, tab, PageStays
<1>5. ASSUME NEW on \in BOOLEAN, SwitchFeeds(on) PROVE Move
  <2>1. page \in TeleopState
    BY <1>0, <1>5, PageIs DEF SwitchFeeds, OnTeleop
  <2>2. PageStays /\ calls' = calls
    BY <1>5, <2>1 DEF SwitchFeeds, TeleopState, PageStays
  <2> QED  BY <2>2, RestMove
<1>6. ASSUME Reload(Teleop) \/ Reload(Landing) PROVE Move
  BY <1>6 DEF Move
<1> QED
  BY <1>1, <1>2, <1>3, <1>4, <1>5, <1>6 DEF TeleopUser, TeleopCallback

(* ... the recording page, whose polls are about its own session, ...        *)
LEMMA RecordingMove ==
  ASSUME ~Overtaking, Types,
         RecordingUser \/ Poll \/ \E i \in DOMAIN calls : RecordingCallback(i)
  PROVE  Move
<1>0. TabOK /\ CallsOK /\ page \in Pages /\ Landing \in Pages
  BY PagesOK DEF Types, TabOK
<1>1. ASSUME NEW i \in DOMAIN calls, ForThisMount(i),
             calls[i].op \in OpsOf("recording")
      PROVE  page.at = "recording" /\ page \in RecordingState
  BY <1>0, <1>1, HeardHere, PageIs
  DEF OpsOf, Pages, LandingState, TeleopState, RecordingState, UploadState,
      Elsewhere
<1>2. ASSUME Poll PROVE Move
  <2>1. /\ page.at = "recording" /\ page.started /\ PageStays
        /\ calls' = Sent("status", page.own)
    BY <1>2 DEF Poll, OnRecording, tab, PageStays
  <2>2. page \in RecordingState
    BY <1>0, <2>1, PageIs
  <2>3. "status" \in OpsOf(page.at) /\ page.own \in Args("status")
    BY <2>1, <2>2 DEF OpsOf, Args, RecordingState
  <2> QED  BY <2>1, <2>3, SendsMove
<1>3. ASSUME \/ ClickAdvance \/ AskStop \/ ClickRerecord
             \/ \E yes \in BOOLEAN : AnswerStop(yes)
      PROVE  Move
  <2>1. page \in RecordingState /\ page.at = "recording"
    BY <1>0, <1>3, PageIs
    DEF ClickAdvance, AskStop, ClickRerecord, AnswerStop, Asking, Free,
        Connected, OnRecording
  <2>2. \/ page' = page
        \/ page' = [page EXCEPT !.hoped = After(CurrentPhase)]
        \/ page' = [page EXCEPT !.confirm = TRUE]
        \/ page' = [page EXCEPT !.confirm = FALSE]
    BY <1>3 DEF ClickAdvance, AskStop, ClickRerecord, AnswerStop, tab
  <2>3. mount' = mount
    BY <1>3 DEF ClickAdvance, AskStop, ClickRerecord, AnswerStop, tab
  <2>4. PageStays
    BY <2>1, <2>2, <2>3 DEF RecordingState, PageStays
  <2>5. \/ calls' = calls
        \/ \E op \in {"exit", "rerecord", "stop"} : calls' = Sent(op, 0)
    BY <1>3 DEF ClickAdvance, AskStop, ClickRerecord, AnswerStop, Sends
  <2>6. \A op \in {"exit", "rerecord", "stop"} :
          op \in OpsOf(page.at) /\ 0 \in Args(op)
    BY <2>1 DEF OpsOf, Args
  <2> QED  BY <2>4, <2>5, <2>6, SendsMove, RestMove
<1>4. ASSUME LeaveRecording PROVE Move
  BY <1>0, <1>4, PagesOwn DEF LeaveRecording, Move
<1>5. ASSUME NEW i \in DOMAIN calls, RecordArrives(i) PROVE Move
  <2>1. Ends(i) /\ Arrives(i, "record")
    BY <1>0, <1>5, ArrivesEnds DEF RecordArrives
  <2>2. CASE GoesHome(Rest(i))
    BY <2>1, <2>2, GoesHomeMove
  <2>3. CASE /\ calls' = Rest(i) /\ UNCHANGED <<mount, page>>
    BY <2>1, <2>3, RestMove DEF PageStays
  <2>4. CASE /\ calls' = Rest(i) /\ mount' = mount /\ ForThisMount(i)
             /\ page' = [page EXCEPT !.started = TRUE, !.index = 0,
                                     !.own = calls[i].seen.session]
    <3>1. page \in RecordingState
      BY <1>1, <2>1, <2>4 DEF Arrives, OpsOf
    <3>2. page'.at = page.at
      BY <2>4, <3>1 DEF RecordingState
    <3> QED  BY <2>1, <2>4, <3>2 DEF Move
  <2> QED  BY <1>5, <2>2, <2>3, <2>4 DEF RecordArrives
<1>6. ASSUME NEW i \in DOMAIN calls, StatusArrives(i) PROVE Move
  <2> DEFINE s == calls[i].seen
  <2>1. /\ Ends(i) /\ Arrives(i, "status") /\ calls[i] \in Request
    BY <1>0, <1>6, ArrivesEnds, Typed DEF StatusArrives, FollowsStatus
  <2>2. CASE GoesHome(Rest(i))
    BY <2>1, <2>2, GoesHomeMove
  <2>3. CASE /\ calls' = Rest(i) /\ UNCHANGED <<mount, page>>
    BY <2>1, <2>3, RestMove DEF PageStays
  <2>4. CASE /\ ForThisMount(i) /\ calls' = Rest(i) /\ mount' = mount
             /\ page' = [page EXCEPT !.shown = s,
                           !.hoped = IF @ = s.phase THEN "none" ELSE @]
    <3>1. page \in RecordingState
      BY <1>1, <2>1, <2>4 DEF Arrives, OpsOf
    <3>2. PageStays
      BY <2>4, <3>1 DEF PageStays, RecordingState
    <3> QED  BY <2>1, <2>4, <3>2, RestMove
  <2>5. CASE GoesToUpload(s.session, calls[i].arg, Rest(i))
    <3>1. s.session \in Nat /\ calls[i].arg \in Nat
      BY <2>1 DEF Request, Args, Arrives, Status
    <3>2. CASE page.at = "upload"
      <4> DEFINE x == Call("info", s.session, mount)
      <4>1. /\ calls' = Append(Rest(i), x)
            /\ page' = [page EXCEPT !.dataset = s.session,
                                    !.own = calls[i].arg]
            /\ mount' = mount
        BY <2>5, <3>2 DEF GoesToUpload
      <4>2. page \in UploadState
        BY <1>0, <3>2, PageIs
      <4>3. PageStays
        BY <4>1, <4>2 DEF PageStays, UploadState
      <4>4. x \in Request
        BY <1>0, <3>1, CallOK DEF TabOK, Ops, Args
      <4>5. OwnCall(x)
        BY <3>2, <4>4 DEF OwnCall, FirstOp, Call
      <4> QED  BY <2>1, <3>2, <4>1, <4>3, <4>5 DEF Move
    <3>3. CASE page.at # "upload"
      <4>1. Opens(Upload(s.session, calls[i].arg, FALSE), Rest(i))
        BY <2>5, <3>3 DEF GoesToUpload
      <4>2. Upload(s.session, calls[i].arg, FALSE) \in Pages
        BY <3>1, PagesOK
      <4> QED  BY <4>1, <4>2, PagesOwn DEF Move
    <3> QED  BY <3>2, <3>3
  <2>6. \/ GoesHome(Rest(i)) \/ GoesToUpload(s.session, calls[i].arg, Rest(i))
        \/ /\ calls' = Rest(i) /\ mount' = mount
           /\ page' = IF ~ForThisMount(i) THEN page
                      ELSE [page EXCEPT !.shown = s,
                              !.hoped = IF @ = s.phase THEN "none" ELSE @]
    BY <1>6 DEF StatusArrives, FollowsStatus
  <2> HIDE DEF s
  <2> QED  BY <2>2, <2>3, <2>4, <2>5, <2>6
<1>7. ASSUME NEW i \in DOMAIN calls, ExitArrives(i) \/ ToastArrives(i)
      PROVE  Move
  <2>1. Ends(i) /\ calls' = Rest(i) /\ mount' = mount
    BY <1>0, <1>7, ArrivesEnds DEF ExitArrives, ToastArrives, tab
  <2>2. CASE page' = page
    BY <2>1, <2>2, RestMove DEF PageStays
  <2>3. CASE page' # page
    <3>1. /\ ForThisMount(i) /\ calls[i].op = "exit"
          /\ page' = [page EXCEPT !.hoped = "none"]
      BY <1>7, <2>3 DEF ExitArrives, ToastArrives, tab, Arrives
    <3>2. page \in RecordingState
      BY <1>1, <3>1 DEF OpsOf
    <3>3. PageStays
      BY <2>1, <3>1, <3>2 DEF PageStays, RecordingState
    <3> QED  BY <2>1, <3>3, RestMove
  <2> QED  BY <2>2, <2>3
<1> QED
  BY <1>2, <1>3, <1>4, <1>5, <1>6, <1>7 DEF RecordingUser, RecordingCallback

(* ... the upload page, ...                                                  *)
LEMMA UploadMove ==
  ASSUME ~Overtaking, Types,
         UploadUser \/ \E i \in DOMAIN calls : UploadCallback(i)
  PROVE  Move
<1>0. TabOK /\ CallsOK /\ page \in Pages /\ Landing \in Pages
  BY PagesOK DEF Types, TabOK
<1>1. ASSUME \/ ClickUpload \/ AskDelete
             \/ \E yes \in BOOLEAN : AnswerDelete(yes)
      PROVE  Move
  <2>1. page \in UploadState /\ page.at = "upload"
    BY <1>0, <1>1, PageIs
    DEF ClickUpload, UploadOffered, AskDelete, AnswerDelete, DeleteAsked,
        OnUpload
  <2>2. \/ page' = [page EXCEPT !.busy = @ \cup {"upload"}]
        \/ page' = [page EXCEPT !.confirm = TRUE]
        \/ page' = [page EXCEPT !.confirm = FALSE, !.busy = @ \cup {"discard"}]
        \/ page' = [page EXCEPT !.confirm = FALSE]
    BY <1>1 DEF ClickUpload, AskDelete, AnswerDelete
  <2>3. mount' = mount
    BY <1>1 DEF ClickUpload, AskDelete, AnswerDelete
  <2>4. PageStays
    BY <2>1, <2>2, <2>3 DEF UploadState, PageStays
  <2>5. \/ calls' = calls
        \/ \E op \in {"upload", "discard"} : calls' = Sent(op, page.dataset)
    BY <1>1 DEF ClickUpload, AskDelete, AnswerDelete, Sends
  <2>6. \A op \in {"upload", "discard"} :
          op \in OpsOf(page.at) /\ page.dataset \in Args(op)
    BY <2>1 DEF OpsOf, Args, UploadState
  <2> QED  BY <2>4, <2>5, <2>6, SendsMove, RestMove
<1>2. ASSUME LeaveUpload \/ GoToTraining PROVE Move
  <2>1. \E p \in Pages : /\ p.at # "recording" /\ Opens(p, calls)
                         /\ p.at = "landing" => p = Landing
    BY <1>0, <1>2, PagesOK, PagesOwn DEF LeaveUpload, GoToTraining
  <2> QED  BY <2>1 DEF Move
<1>3. ASSUME NEW i \in DOMAIN calls, UploadCallback(i) PROVE Move
  <2>1. calls[i].op \in OpsOf("upload") /\ Ends(i)
    <3>1. \E op \in OpsOf("upload") : Arrives(i, op)
      BY <1>3
      DEF UploadCallback, InfoArrives, UploadArrives, DiscardArrives, OpsOf
    <3> QED  BY <1>0, <3>1, ArrivesEnds DEF Arrives
  <2>2. CASE GoesHome(Rest(i))
    BY <2>1, <2>2, GoesHomeMove
  <2>3. CASE calls' = Rest(i) /\ mount' = mount /\ page' = page
    BY <2>1, <2>3, RestMove DEF PageStays
  <2>4. CASE /\ ForThisMount(i) /\ calls' = Rest(i) /\ mount' = mount
             /\ \/ page' = [page EXCEPT !.loaded = TRUE]
                \/ page' = [page EXCEPT !.busy = @ \ {"upload"},
                              !.uploaded = @ \/ calls[i].ok]
                \/ page' = [page EXCEPT !.busy = @ \ {"discard"},
                              !.confirm = FALSE]
    <3>1. page \in UploadState
      BY <1>0, <2>1, <2>4, HeardHere, PageIs
      DEF OpsOf, Pages, LandingState, TeleopState, RecordingState,
          UploadState, Elsewhere
    <3>2. PageStays
      BY <2>1, <2>4, <3>1 DEF UploadState, PageStays
    <3> QED  BY <2>1, <2>4, <3>2, RestMove
  <2>5. CASE InfoArrives(i)
    BY <2>3, <2>4, <2>5 DEF InfoArrives
  <2>6. CASE UploadArrives(i)
    BY <2>3, <2>4, <2>6 DEF UploadArrives
  <2>7. CASE DiscardArrives(i)
    BY <2>2, <2>3, <2>4, <2>7 DEF DiscardArrives
  <2> QED  BY <1>3, <2>5, <2>6, <2>7 DEF UploadCallback
<1> QED  BY <1>1, <1>2, <1>3 DEF UploadUser, SkipUpload

(* What the server says in answer to a request.                              *)
LEMMA ServesAnswer ==
  ASSUME ~Overtaking, Types, NEW i \in DOMAIN calls,
         Handles(i)
  PROVE  /\ tab' = tab /\ index' = index /\ (listed' => listed)
         /\ \E x : Answer(i, x) /\ calls' = Append(Rest(i), x)
<1>0. /\ ServerOK /\ CallsOK /\ calls[i] \in Request /\ index \in {0, 1}
      /\ DOMAIN calls = 1..Len(calls) /\ Len(calls) \in Nat
      /\ calls[i] \in AnyCall
  BY Typed DEF Types, Request
<1>1. ASSUME NEW op, Begins(i, op)
      PROVE  /\ calls[i].at = "sent" /\ calls[i].op = op
             /\ \A j \in DOMAIN calls : j < i => calls[j].at # "sent"
  <2>1. \A j \in DOMAIN calls : j < i => j \in 1..(i - 1)
    BY <1>0
  <2> QED  BY <1>1, <2>1 DEF Begins
<1>2. ASSUME NEW op, Begins(i, op), NEW ok \in BOOLEAN, NEW seen \in Status,
             Answers(i, ok, seen)
      PROVE  \E x : Answer(i, x) /\ calls' = Append(Rest(i), x)
  <2> DEFINE x == [calls[i] EXCEPT !.at = "answered", !.ok = ok, !.seen = seen]
  <2>1. x \in Request /\ x.op = calls[i].op /\ x.mount = calls[i].mount
        /\ x.at = "answered" /\ x.arg = calls[i].arg
    BY <1>0, <1>2 DEF Request, AnyCall
  <2>2. calls' = Append(Rest(i), x)
    BY <1>2 DEF Answers, Rest
  <2> HIDE DEF x
  <2> QED  BY <1>1, <1>2, <2>1, <2>2 DEF Answer
<1>3. /\ NoStatus \in Status
      /\ [NoStatus EXCEPT !.robots = robots] \in Status
      /\ [NoStatus EXCEPT !.active = active, !.phase = phase,
            !.kept = kept, !.session = session] \in Status
      /\ [NoStatus EXCEPT !.session = session + 1] \in Status
  <2>1. NoStatus \in Status
    BY NoStatusOK
  <2>2. /\ [NoStatus EXCEPT !.robots = robots] \in Status
        /\ [NoStatus EXCEPT !.session = session + 1] \in Status
    BY <1>0, <2>1 DEF ServerOK, Status
  <2>3. [NoStatus EXCEPT !.active = active, !.phase = phase,
           !.kept = kept, !.session = session] \in Status
    BY <1>0, <2>1 DEF ServerOK, Status
  <2> QED  BY <2>1, <2>2, <2>3
<1>4. ASSUME ListsCameras(i)
      PROVE  \E x : Answer(i, x) /\ calls' = Append(Rest(i), x)
  <2>0. calls[i].op = "cameras" /\ Args("cameras") = {0, 1}
        /\ {0, 1} \subseteq AnyArg
    BY <1>4 DEF ListsCameras, Begins, Args, AnyArg
  <2>3. PICK found \in BOOLEAN :
          calls' = Append(Rest(i), [calls[i] EXCEPT !.at = "answered",
                                      !.ok = found,
                                      !.arg = IF found THEN index ELSE @])
    BY <1>4 DEF ListsCameras
  <2> DEFINE k == IF found THEN index ELSE calls[i].arg
             x == [calls[i] EXCEPT !.at = "answered", !.ok = found, !.arg = k]
  <2>4. k \in {0, 1}
    BY <1>0, <2>0 DEF Request
  <2>2. calls' = Append(Rest(i), x) /\ Begins(i, "cameras")
    BY <1>0, <1>4, <2>3 DEF ListsCameras, AnyCall
  <2> HIDE DEF k
  <2>1. x \in Request /\ x.op = calls[i].op /\ x.mount = calls[i].mount
        /\ x.at = "answered"
    BY <1>0, <2>0, <2>3, <2>4 DEF Request, AnyCall
  <2> HIDE DEF x
  <2> QED  BY <1>1, <2>1, <2>2 DEF Answer
<1>5. CASE ListsCameras(i)
  BY <1>4, <1>5 DEF ListsCameras, tab, cameras
<1>6. CASE Serves(i)
  <2>1. \E op : Begins(i, op) /\ \E ok \in BOOLEAN : \E seen \in Status :
          Answers(i, ok, seen)
    <3>1. CASE ListsRobots(i)
      BY <1>3, <3>1 DEF ListsRobots
    <3>2. CASE \/ CreatesRobot(i) \/ DeletesRobot(i) \/ ReadsInfo(i)
               \/ DeletesDataset(i)
      <4>1. \E op : Begins(i, op) /\
              \/ Answers(i, robots[calls[i].arg] = "none", NoStatus)
              \/ Answers(i, robots[calls[i].arg] # "none", NoStatus)
              \/ Answers(i, calls[i].arg \in disk, NoStatus)
        BY <3>2 DEF CreatesRobot, DeletesRobot, ReadsInfo, DeletesDataset
      <4>2. /\ (robots[calls[i].arg] = "none") \in BOOLEAN
            /\ (robots[calls[i].arg] # "none") \in BOOLEAN
            /\ (calls[i].arg \in disk) \in BOOLEAN
        OBVIOUS
      <4> QED  BY <1>3, <4>1, <4>2
    <3>3. CASE \/ StartsTeleop(i) \/ StopsTeleop(i) \/ TakesEvent(i)
               \/ StopsRecording(i)
      BY <1>0, <1>3, <3>3
      DEF StartsTeleop, StopsTeleop, TakesEvent, StopsRecording, ServerOK
    <3>4. CASE StartsRecording(i)
      BY <1>3, <3>4 DEF StartsRecording
    <3>5. CASE ReportsStatus(i)
      BY <1>3, <3>5 DEF ReportsStatus
    <3>6. CASE UploadsDataset(i)
      BY <1>3, <3>6 DEF UploadsDataset
    <3> QED
      BY <1>6, <3>1, <3>2, <3>3, <3>4, <3>5, <3>6 DEF Serves
  <2>2. tab' = tab /\ index' = index /\ (listed' => listed)
    <3>1. ASSUME \/ ListsRobots(i) \/ ReportsStatus(i) \/ TakesEvent(i)
                 \/ ReadsInfo(i) \/ UploadsDataset(i) \/ CreatesRobot(i)
                 \/ DeletesRobot(i) \/ StopsTeleop(i) \/ StopsRecording(i)
                 \/ DeletesDataset(i)
          PROVE  tab' = tab /\ cameras' = cameras
      BY <3>1
      DEF ListsRobots, ReportsStatus, TakesEvent, ReadsInfo, UploadsDataset,
          CreatesRobot, DeletesRobot, StopsTeleop, StopsRecording,
          DeletesDataset
    <3>2. ASSUME cameras' = cameras
          PROVE  index' = index /\ (listed' => listed)
      <4>1. index' = index /\ listed' = listed
        BY <3>2 DEF cameras
      <4> QED  BY <4>1
    <3>3. CASE StartsTeleop(i)
      BY <3>3 DEF StartsTeleop, tab, cameras
    <3>4. CASE StartsRecording(i)
      <4>1. tab' = tab /\ index' = index
        BY <3>4 DEF StartsRecording
      <4>2. listed' = (listed /\ Pending("wait"))
        BY <3>4 DEF StartsRecording
      <4> QED  BY <4>1, <4>2
    <3> QED  BY <1>6, <3>1, <3>2, <3>3, <3>4 DEF Serves
  <2> QED  BY <1>2, <2>1, <2>2
<1>7. CASE ConnectionFails(i)
  BY <1>2, <1>3, <1>7 DEF ConnectionFails, tab, cameras
<1> QED  BY <1>5, <1>6, <1>7 DEF Handles

(* ... the server, ...                                                       *)
LEMMA ServerMove ==
  ASSUME ~Overtaking, Types, Server
  PROVE  Move
<1>1. ASSUME NEW i \in DOMAIN calls, Handles(i)
      PROVE  Move
  <2>1. tab' = tab /\ \E x : Answer(i, x) /\ calls' = Append(Rest(i), x)
    BY <1>1, ServesAnswer
  <2>2. PageStays
    BY <2>1 DEF tab, PageStays
  <2> QED  BY <1>1, <2>1, <2>2 DEF Move
<1>2. ASSUME SessionGoesOn \/ TeleopBreaks PROVE Move
  BY <1>2, RestMove DEF SessionGoesOn, TeleopBreaks, tab, PageStays
<1> QED  BY <1>1, <1>2 DEF Server, Handles

(* ... the cables, the streams and the way back from other pages.            *)
LEMMA CableMove ==
  ASSUME ~Overtaking, Types,
         \/ \E k \in {0, 1} : DeviceChanges(k)
         \/ Streams \/ ComeBack
  PROVE  Move
<1>1. ASSUME NEW k \in {0, 1}, DeviceChanges(k) PROVE Move
  <2>1. PageStays
    BY <1>1 DEF DeviceChanges, tab, PageStays
  <2>2. CASE calls' = calls
    BY <2>1, <2>2, RestMove
  <2>3. CASE calls' # calls
    <3>1. page.at = "landing" /\ calls' = Sent("cameras", 0)
      BY <1>1, <2>3 DEF DeviceChanges, OnLanding, Sends
    <3>2. "cameras" \in OpsOf(page.at) /\ 0 \in Args("cameras")
      BY <3>1 DEF OpsOf, Args
    <3> QED  BY <2>1, <3>1, <3>2, SendsMove
  <2> QED  BY <2>2, <2>3
<1>2. ASSUME Streams PROVE Move
  BY <1>2, RestMove
  DEF Streams, StreamComes, StreamRefused, RetryStream, PageStays, tab
<1>3. ASSUME ComeBack PROVE Move
  <2>1. Opens(Landing, calls) /\ Landing \in Pages /\ Landing.at = "landing"
    BY <1>3, PagesOK, PagesOwn DEF ComeBack, Types, TabOK
  <2> QED  BY <2>1 DEF Move
<1> QED  BY <1>1, <1>2, <1>3

(* Whatever happens, and whoever does it, the line stays in order.           *)
LineInv == FlushInv(page, calls, mount) /\ WaitsInv(calls)

(* Every step of the composition is a move, or leaves the requests alone.    *)
LEMMA StepMove ==
  ASSUME ~Overtaking, Types, [Next]_vars
  PROVE  Move
<1>1. CASE UNCHANGED vars
  BY <1>1, RestMove DEF vars, tab, PageStays
<1>2. CASE Next
  BY <1>2, LandingMove, TeleopMove, RecordingMove, UploadMove, ServerMove,
     CableMove
  DEF Next, User, Callback, Browser
<1> QED  BY <1>1, <1>2

(* The line of requests is in order throughout.                              *)
LEMMA LineInOrder ==
  ASSUME ~Overtaking
  PROVE  Spec => []LineInv
<1>1. Init => LineInv
  <2> SUFFICES ASSUME Init PROVE LineInv
    OBVIOUS
  <2> DEFINE x == Call("list", NoRobot, 1)
  <2>1. page.at = "landing" /\ calls = <<x>> /\ mount = 1
    BY DEF Init
  <2>2. x.op = "list" /\ x.mount = 1 /\ x.at = "sent"
    BY DEF Call
  <2> HIDE DEF x
  <2>3. DOMAIN calls = {1} /\ calls[1] = x
    BY <2>1
  <2>4. FirstAt(page, calls, mount, 1)
    BY <2>1, <2>2, <2>3 DEF FirstAt, IsFirst, FirstOp
  <2> QED  BY <2>1, <2>2, <2>3, <2>4 DEF LineInv, FlushInv, WaitsInv
<1>2. Types /\ LineInv /\ [Next]_vars => LineInv'
  BY StepMove, MoveFlush DEF LineInv
<1> QED  BY <1>1, <1>2, TypesCorrect, PTL DEF Spec

-----------------------------------------------------------------------------
(* The list of robots.                                                       *)

(* What a page does to the list: a robot is created or deleted.              *)
Edit(c) == c.op \in {"create", "delete"}
(* An edit of robot r that succeeded and that the page will hear of.         *)
Done(c, m, r) ==
  Edit(c) /\ c.mount = m /\ c.at = "answered" /\ c.ok /\ c.arg = r
Outcome(op) == IF op = "create" THEN "new" ELSE "none"
(* The page shows of r what the server has, or the last of the edits that it *)
(* has yet to hear of will tell it.                                          *)
Shows(shown, cs, m, rs, r) ==
  \/ shown[r] = rs[r] /\ \A j \in DOMAIN cs : ~Done(cs[j], m, r)
  \/ \E i \in DOMAIN cs :
       /\ Done(cs[i], m, r) /\ rs[r] = Outcome(cs[i].op)
       /\ \A j \in DOMAIN cs : Done(cs[j], m, r) => j <= i
(* The list is being fetched: the page shows none, nobody has edited it, and *)
(* the answer is what the server still has.                                  *)
Fetching(p, cs, m, rs) ==
  \A i \in DOMAIN cs : IsFirst(p, cs[i], m) =>
    /\ p.robots = NoStatus.robots
    /\ \A j \in DOMAIN cs : Edit(cs[j]) => cs[j].mount # m
    /\ cs[i].at = "answered" => cs[i].seen.robots = rs
(* It has been: every robot is shown as it is, and the selected one exists.  *)
Fetched(p, cs, m, rs) ==
  (\A i \in DOMAIN cs : ~IsFirst(p, cs[i], m)) =>
    /\ \A r \in Robots : Shows(p.robots, cs, m, rs, r)
    /\ p.selected # NoRobot => p.robots[p.selected] # "none"
ListInv(p, cs, m, rs) ==
  p.at = "landing" => Fetching(p, cs, m, rs) /\ Fetched(p, cs, m, rs)

(* A request that is not an edit heard of goes ...                           *)
LEMMA ShowsRest ==
  ASSUME CallsOK, NEW i \in DOMAIN calls, NEW shown, NEW m, NEW rs, NEW r,
         Shows(shown, calls, m, rs, r), ~Done(calls[i], m, r)
  PROVE  Shows(shown, Rest(i), m, rs, r)
<1>1. PICK f :
        /\ \A k \in DOMAIN Rest(i) :
             f[k] \in DOMAIN calls /\ f[k] # i /\ Rest(i)[k] = calls[f[k]]
        /\ \A k, l \in DOMAIN Rest(i) : k < l => f[k] < f[l]
        /\ \A j \in DOMAIN calls : j # i => \E k \in DOMAIN Rest(i) : f[k] = j
        /\ \A k, l \in DOMAIN Rest(i) : f[k] = f[l] => k = l
  BY RestFrom
<1>2. DOMAIN Rest(i) \subseteq Int /\ DOMAIN calls \subseteq Int
  <2>1. Rest(i) \in Seq(Request) /\ calls \in Seq(Request)
    BY RestFrom, CallsTyped
  <2> QED  BY <2>1
<1>3. CASE /\ shown[r] = rs[r]
           /\ \A j \in DOMAIN calls : ~Done(calls[j], m, r)
  BY <1>1, <1>3 DEF Shows
<1>4. ASSUME NEW g \in DOMAIN calls, Done(calls[g], m, r),
             rs[r] = Outcome(calls[g].op),
             \A j \in DOMAIN calls : Done(calls[j], m, r) => j <= g
      PROVE  Shows(shown, Rest(i), m, rs, r)
  <2>1. PICK h \in DOMAIN Rest(i) : f[h] = g
    BY <1>1, <1>4
  <2>2. ASSUME NEW j \in DOMAIN Rest(i), Done(Rest(i)[j], m, r)
        PROVE  j <= h
    <3>1. f[j] <= f[h] /\ f[j] \in Int /\ f[h] \in Int
      BY <1>1, <1>2, <1>4, <2>1, <2>2
    <3>2. ~(h < j)
      BY <1>1, <3>1
    <3> QED  BY <1>2, <3>2
  <2> QED  BY <1>1, <1>4, <2>1, <2>2 DEF Shows
<1> QED  BY <1>3, <1>4 DEF Shows

(* ... or comes, ...                                                         *)
LEMMA ShowsMore ==
  ASSUME NEW cs \in Seq(Request), NEW x \in Request, NEW shown, NEW m,
         NEW rs, NEW r, Shows(shown, cs, m, rs, r), ~Done(x, m, r)
  PROVE  Shows(shown, Append(cs, x), m, rs, r)
<1> DEFINE t == Append(cs, x)
           e == Len(cs) + 1
<1>1. /\ DOMAIN t = DOMAIN cs \cup {e} /\ t[e] = x
      /\ \A k \in DOMAIN cs : t[k] = cs[k] /\ k < e
  BY OneMoreAt
<1> HIDE DEF t, e
<1>2. CASE shown[r] = rs[r] /\ \A j \in DOMAIN cs : ~Done(cs[j], m, r)
  <2>1. Shows(shown, t, m, rs, r)
    BY <1>1, <1>2 DEF Shows
  <2> QED  BY <2>1 DEF t
<1>3. ASSUME NEW g \in DOMAIN cs, Done(cs[g], m, r),
             rs[r] = Outcome(cs[g].op),
             \A j \in DOMAIN cs : Done(cs[j], m, r) => j <= g
      PROVE  Shows(shown, Append(cs, x), m, rs, r)
  <2>1. Shows(shown, t, m, rs, r)
    BY <1>1, <1>3 DEF Shows
  <2> QED  BY <2>1 DEF t
<1> QED  BY <1>2, <1>3 DEF Shows

(* ... the server edits r, ...                                               *)
LEMMA ShowsDone ==
  ASSUME NEW cs \in Seq(Request), NEW x \in Request, NEW shown, NEW m,
         NEW rs, NEW r, Done(x, m, r), rs[r] = Outcome(x.op)
  PROVE  Shows(shown, Append(cs, x), m, rs, r)
<1> DEFINE t == Append(cs, x)
           e == Len(cs) + 1
<1>1. /\ DOMAIN t = DOMAIN cs \cup {e} /\ t[e] = x
      /\ e \in Int /\ DOMAIN cs \subseteq Int
      /\ \A k \in DOMAIN cs : t[k] = cs[k] /\ k < e
  BY OneMoreAt
<1> HIDE DEF t, e
<1>2. \A j \in DOMAIN t : j <= e
  BY <1>1
<1>3. Shows(shown, t, m, rs, r)
  BY <1>1, <1>2 DEF Shows
<1> QED  BY <1>3 DEF t

(* ... and the page hears of it: of the oldest edit first.                   *)
LEMMA ShowsHeard ==
  ASSUME CallsOK, NEW i \in DOMAIN calls, NEW shown, NEW shows, NEW m,
         NEW rs, NEW r, Shows(shown, calls, m, rs, r), Done(calls[i], m, r),
         \A j \in DOMAIN calls : j < i => calls[j].at # "answered",
         shows[r] = Outcome(calls[i].op)
  PROVE  Shows(shows, Rest(i), m, rs, r)
<1>1. PICK f :
        /\ \A k \in DOMAIN Rest(i) :
             f[k] \in DOMAIN calls /\ f[k] # i /\ Rest(i)[k] = calls[f[k]]
        /\ \A k, l \in DOMAIN Rest(i) : k < l => f[k] < f[l]
        /\ \A j \in DOMAIN calls : j # i => \E k \in DOMAIN Rest(i) : f[k] = j
        /\ \A k, l \in DOMAIN Rest(i) : f[k] = f[l] => k = l
  BY RestFrom
<1>2. DOMAIN Rest(i) \subseteq Int /\ DOMAIN calls \subseteq Int
  <2>1. Rest(i) \in Seq(Request) /\ calls \in Seq(Request)
    BY RestFrom, CallsTyped
  <2> QED  BY <2>1
<1>3. PICK g \in DOMAIN calls :
        /\ Done(calls[g], m, r) /\ rs[r] = Outcome(calls[g].op)
        /\ \A j \in DOMAIN calls : Done(calls[j], m, r) => j <= g
  BY DEF Shows
<1>4. CASE g = i
  <2>1. \A j \in DOMAIN calls : j # i => ~Done(calls[j], m, r)
    BY <1>2, <1>3, <1>4 DEF Done
  <2> QED  BY <1>1, <1>3, <1>4, <2>1 DEF Shows
<1>5. CASE g # i
  <2>1. PICK h \in DOMAIN Rest(i) : f[h] = g
    BY <1>1, <1>5
  <2>2. ASSUME NEW j \in DOMAIN Rest(i), Done(Rest(i)[j], m, r)
        PROVE  j <= h
    <3>1. f[j] <= f[h] /\ f[j] \in Int /\ f[h] \in Int
      BY <1>1, <1>2, <1>3, <2>1, <2>2
    <3>2. ~(h < j)
      BY <1>1, <3>1
    <3> QED  BY <1>2, <3>2
  <2> QED  BY <1>1, <1>3, <2>1, <2>2 DEF Shows
<1> QED  BY <1>4, <1>5

(* What the page is not told of does not change what it knows.               *)
LEMMA ListRest ==
  ASSUME CallsOK, NEW i \in DOMAIN calls, NEW p, NEW m, NEW rs,
         ListInv(p, calls, m, rs), ~IsFirst(p, calls[i], m),
         \A r \in Robots : ~Done(calls[i], m, r)
  PROVE  ListInv(p, Rest(i), m, rs)
<1> SUFFICES ASSUME p.at = "landing"
             PROVE  Fetching(p, Rest(i), m, rs) /\ Fetched(p, Rest(i), m, rs)
  BY DEF ListInv
<1>1. PICK f :
        /\ \A k \in DOMAIN Rest(i) :
             f[k] \in DOMAIN calls /\ f[k] # i /\ Rest(i)[k] = calls[f[k]]
        /\ \A k, l \in DOMAIN Rest(i) : k < l => f[k] < f[l]
        /\ \A j \in DOMAIN calls : j # i => \E k \in DOMAIN Rest(i) : f[k] = j
        /\ \A k, l \in DOMAIN Rest(i) : f[k] = f[l] => k = l
  BY RestFrom
<1>2. Fetching(p, Rest(i), m, rs)
  BY <1>1 DEF ListInv, Fetching
<1>3. ASSUME \A k \in DOMAIN Rest(i) : ~IsFirst(p, Rest(i)[k], m)
      PROVE  /\ \A r \in Robots : Shows(p.robots, Rest(i), m, rs, r)
             /\ p.selected # NoRobot => p.robots[p.selected] # "none"
  <2>1. \A j \in DOMAIN calls : ~IsFirst(p, calls[j], m)
    BY <1>1, <1>3
  <2>2. /\ \A r \in Robots : Shows(p.robots, calls, m, rs, r)
        /\ p.selected # NoRobot => p.robots[p.selected] # "none"
    BY <2>1 DEF ListInv, Fetched
  <2> QED  BY <2>2, ShowsRest
<1> QED  BY <1>2, <1>3 DEF Fetched

(* One more request, which is neither a fetch nor an edit while one is due.  *)
LEMMA ListMore ==
  ASSUME NEW cs \in Seq(Request), NEW x \in Request, NEW p, NEW m, NEW rs,
         ListInv(p, cs, m, rs), ~IsFirst(p, x, m),
         Edit(x) /\ x.mount = m =>
           \A i \in DOMAIN cs : ~IsFirst(p, cs[i], m),
         \A r \in Robots : ~Done(x, m, r)
  PROVE  ListInv(p, Append(cs, x), m, rs)
<1> DEFINE t == Append(cs, x)
           e == Len(cs) + 1
<1>1. /\ DOMAIN t = DOMAIN cs \cup {e} /\ t[e] = x
      /\ \A k \in DOMAIN cs : t[k] = cs[k] /\ k < e
  BY OneMoreAt
<1> HIDE DEF t, e
<1>2. p.at = "landing" => Fetching(p, t, m, rs)
  BY <1>1 DEF ListInv, Fetching
<1>3. ASSUME p.at = "landing", \A k \in DOMAIN t : ~IsFirst(p, t[k], m)
      PROVE  /\ \A r \in Robots : Shows(p.robots, t, m, rs, r)
             /\ p.selected # NoRobot => p.robots[p.selected] # "none"
  <2>1. \A j \in DOMAIN cs : ~IsFirst(p, cs[j], m)
    BY <1>1, <1>3
  <2>2. /\ \A r \in Robots : Shows(p.robots, cs, m, rs, r)
        /\ p.selected # NoRobot => p.robots[p.selected] # "none"
    BY <1>3, <2>1 DEF ListInv, Fetched
  <2> QED  BY <2>2, ShowsMore DEF t
<1>4. ListInv(p, t, m, rs)
  BY <1>2, <1>3 DEF Fetched, ListInv
<1> QED  BY <1>4 DEF t

(* A change of the page that leaves the list and the selection.              *)
LEMMA ListSame ==
  ASSUME NEW p, NEW q, NEW cs, NEW m, NEW rs, ListInv(p, cs, m, rs),
         q.at = p.at,
         p.at = "landing" => q.robots = p.robots /\ q.selected = p.selected
  PROVE  ListInv(q, cs, m, rs)
<1>1. \A c : IsFirst(q, c, m) <=> IsFirst(p, c, m)
  BY DEF IsFirst
<1> QED  BY <1>1 DEF ListInv, Fetching, Fetched

(* A landing page that is mounted fetches the list.                          *)
LEMMA ListNew ==
  ASSUME Types, Move, page.at # "landing" \/ ~PageStays
  PROVE  ListInv(page', calls', mount', robots')
<1>0. TabOK /\ CallsOK /\ calls \in Seq(Request)
  BY CallsTyped DEF Types
<1>1. ASSUME NEW p, NEW m, NEW u, NEW cs, NEW rs, Line(p, m, u, cs),
             p.at = "landing" => p = Landing
      PROVE  ListInv(p, cs, m, rs)
  <2> SUFFICES ASSUME p.at = "landing" PROVE ListInv(p, cs, m, rs)
    BY DEF ListInv
  <2>1. PICK x \in Request : FirstCall(p, m, x) /\ cs = Append(u, x)
    BY <1>1 DEF Line
  <2>2. x.op = "list" /\ x.mount = m /\ x.at = "sent"
    BY <2>1 DEF FirstCall, Call
  <2>3. u \in Seq(Request) /\ \A k \in DOMAIN u : u[k].mount # m
    BY <1>1 DEF Line
  <2> DEFINE e == Len(u) + 1
  <2>4. /\ DOMAIN cs = DOMAIN u \cup {e} /\ cs[e] = x
        /\ \A k \in DOMAIN u : cs[k] = u[k]
    BY <2>1, <2>3, OneMoreAt
  <2> HIDE DEF e
  <2>5. p.robots = NoStatus.robots
    BY <1>1 DEF Landing
  <2>6. Fetching(p, cs, m, rs)
    BY <2>2, <2>3, <2>4, <2>5 DEF Fetching, IsFirst, Edit
  <2>7. Fetched(p, cs, m, rs)
    BY <2>2, <2>4 DEF Fetched, IsFirst, FirstOp
  <2> QED  BY <2>6, <2>7 DEF ListInv
<1>2. ASSUME page'.at = page.at, page.at # "landing"
      PROVE  ListInv(page', calls', mount', robots')
  BY <1>2 DEF ListInv
<1>3. ASSUME NEW p \in Pages, p.at = "landing" => p = Landing,
             \/ Opens(p, calls)
             \/ \E i \in DOMAIN calls : Opens(p, Rest(i))
      PROVE  ListInv(page', calls', mount', robots')
  <2>1. PICK cs \in Seq(Request) : Opens(p, cs)
    BY <1>0, <1>3, RestFrom
  <2>2. Line(p, mount', Unmounted(cs), calls') /\ page' = p
    BY <1>0, <2>1, OpensLine
  <2> QED  BY <1>1, <1>3, <2>2
<1>4. ASSUME NEW p \in {Teleop, Landing}, Reload(p)
      PROVE  ListInv(page', calls', mount', robots')
  <2>1. PICK u : Line(p, mount', u, calls') /\ page' = p
    BY <1>4, ReloadLine
  <2>2. p.at = "landing" => p = Landing
    BY PagesOwn
  <2> QED  BY <1>1, <2>1, <2>2
<1>5. CASE \/ PageStays
           \/ \E i \in DOMAIN calls : Arrives(i, "record") /\ ForThisMount(i)
                                        /\ page'.at = page.at
  <2>1. page'.at = page.at /\ page.at # "landing"
    <3>1. CASE PageStays
      BY <3>1 DEF PageStays
    <3>2. ASSUME NEW i \in DOMAIN calls, Arrives(i, "record"),
                 ForThisMount(i), page'.at = page.at
          PROVE  page'.at = page.at /\ page.at # "landing"
      <4>1. "record" \in OpsOf(page.at)
        BY <1>0, <3>2, HeardHere DEF Arrives
      <4> QED  BY <3>2, <4>1 DEF OpsOf
    <3> QED  BY <1>5, <3>1, <3>2
  <2> QED  BY <1>2, <2>1
<1> QED  BY <1>3, <1>4, <1>5 DEF Move

(* The server has listed the robots for the page.                            *)
LEMMA ListAnswered ==
  ASSUME CallsOK, NEW i \in DOMAIN calls, NEW x, Answer(i, x),
         ListInv(page, calls, mount, robots), page.at = "landing",
         x.op = "list", x.seen.robots = robots
  PROVE  ListInv(page, Append(Rest(i), x), mount, robots)
<1>0. x \in Request /\ Rest(i) \in Seq(Request)
  BY RestFrom DEF Answer
<1>1. CASE x.mount # mount
  <2>1. ~IsFirst(page, calls[i], mount) /\ ~IsFirst(page, x, mount)
        /\ ~Edit(calls[i]) /\ ~Edit(x)
    BY <1>1 DEF Answer, IsFirst, Edit
  <2>2. ListInv(page, Rest(i), mount, robots)
    BY <2>1, ListRest DEF Done
  <2> QED  BY <1>0, <2>1, <2>2, ListMore DEF Done
<1>2. CASE x.mount = mount
  <2> DEFINE t == Append(Rest(i), x)
             e == Len(Rest(i)) + 1
  <2>1. /\ DOMAIN t = DOMAIN Rest(i) \cup {e} /\ t[e] = x
        /\ \A k \in DOMAIN Rest(i) : t[k] = Rest(i)[k]
    BY <1>0, OneMoreAt
  <2>2. PICK f : \A k \in DOMAIN Rest(i) :
          f[k] \in DOMAIN calls /\ Rest(i)[k] = calls[f[k]]
    BY RestFrom
  <2> HIDE DEF t, e
  <2>3. IsFirst(page, calls[i], mount) /\ IsFirst(page, x, mount) /\ ~Edit(x)
    BY <1>2 DEF Answer, IsFirst, FirstOp, Edit
  <2>4. /\ page.robots = NoStatus.robots
        /\ \A j \in DOMAIN calls : Edit(calls[j]) => calls[j].mount # mount
    BY <2>3 DEF ListInv, Fetching
  <2>5. Fetching(page, t, mount, robots)
    <3>1. \A k \in DOMAIN t : Edit(t[k]) => t[k].mount # mount
      BY <2>1, <2>2, <2>3, <2>4
    <3>2. \A k \in DOMAIN t :
            IsFirst(page, t[k], mount) /\ t[k].at = "answered" =>
              t[k].seen.robots = robots
      BY <2>1, <2>2 DEF ListInv, Fetching
    <3> QED  BY <2>4, <3>1, <3>2 DEF Fetching
  <2>6. Fetched(page, t, mount, robots)
    BY <2>1, <2>3 DEF Fetched
  <2> QED  BY <2>5, <2>6 DEF ListInv, t
<1> QED  BY <1>1, <1>2

(* The server has edited a robot.                                            *)
LEMMA ListEdited ==
  ASSUME Types, LineInv, NEW i \in DOMAIN calls, NEW x, Answer(i, x),
         ListInv(page, calls, mount, robots), page.at = "landing",
         Edit(x), x.ok, NEW r \in Robots, x.arg = r,
         robots' = [robots EXCEPT ![r] = Outcome(x.op)]
  PROVE  ListInv(page, Append(Rest(i), x), mount, robots')
<1> DEFINE t == Append(Rest(i), x)
           e == Len(Rest(i)) + 1
<1>0. /\ CallsOK /\ x \in Request /\ Rest(i) \in Seq(Request)
      /\ robots \in Conditions
      /\ calls[i].at = "sent" /\ Edit(calls[i]) /\ x.at = "answered"
      /\ calls[i].mount = x.mount
  BY RestFrom DEF Answer, Edit, Types, ServerOK
<1>1. /\ DOMAIN t = DOMAIN Rest(i) \cup {e} /\ t[e] = x
      /\ \A k \in DOMAIN Rest(i) : t[k] = Rest(i)[k]
  BY <1>0, OneMoreAt
<1>2. PICK f :
        /\ \A k \in DOMAIN Rest(i) :
             f[k] \in DOMAIN calls /\ f[k] # i /\ Rest(i)[k] = calls[f[k]]
        /\ \A k, l \in DOMAIN Rest(i) : k < l => f[k] < f[l]
        /\ \A j \in DOMAIN calls : j # i => \E k \in DOMAIN Rest(i) : f[k] = j
        /\ \A k, l \in DOMAIN Rest(i) : f[k] = f[l] => k = l
  BY <1>0, RestFrom
<1> HIDE DEF t, e
<1>3. ~IsFirst(page, x, mount) /\ ~IsFirst(page, calls[i], mount)
  BY <1>0 DEF IsFirst, FirstOp, Edit
<1>4. robots'[r] = Outcome(x.op)
      /\ \A q \in Robots : q # r => robots'[q] = robots[q]
  BY <1>0 DEF Conditions
<1>5. CASE Flushed(page, calls, mount)
  <2>1. /\ x.mount = mount
        /\ \A j \in DOMAIN calls : ~IsFirst(page, calls[j], mount)
    <3>1. \A j \in DOMAIN calls : IsFirst(page, calls[j], mount) =>
            calls[j].at # "waiting"
      BY DEF LineInv, WaitsInv, IsFirst, FirstOp
    <3> QED  BY <1>0, <1>5, <3>1 DEF Flushed
  <2>2. /\ \A q \in Robots : Shows(page.robots, calls, mount, robots, q)
        /\ page.selected # NoRobot => page.robots[page.selected] # "none"
    BY <2>1 DEF ListInv, Fetched
  <2>3. ASSUME NEW q \in Robots PROVE Shows(page.robots, t, mount, robots', q)
    <3>1. CASE q = r
      <4>1. Done(x, mount, r)
        BY <1>0, <2>1 DEF Done
      <4> QED  BY <1>0, <1>4, <3>1, <4>1, ShowsDone DEF t
    <3>2. CASE q # r
      <4>1. ~Done(calls[i], mount, q) /\ ~Done(x, mount, q)
        BY <1>0, <3>2 DEF Done
      <4>2. Shows(page.robots, Rest(i), mount, robots, q)
        BY <1>0, <2>2, <4>1, ShowsRest
      <4>3. Shows(page.robots, t, mount, robots, q)
        BY <1>0, <4>1, <4>2, ShowsMore DEF t
      <4> QED  BY <1>4, <3>2, <4>3 DEF Shows
    <3> QED  BY <3>1, <3>2
  <2>4. \A k \in DOMAIN t : ~IsFirst(page, t[k], mount)
    BY <1>1, <1>2, <1>3, <2>1
  <2>5. Fetching(page, t, mount, robots') /\ Fetched(page, t, mount, robots')
    BY <2>2, <2>3, <2>4 DEF Fetching, Fetched
  <2> QED  BY <2>5 DEF ListInv, t
<1>6. ASSUME NEW g \in DOMAIN calls, FirstAt(page, calls, mount, g)
      PROVE  ListInv(page, Append(Rest(i), x), mount, robots')
  <2>1. /\ page.robots = NoStatus.robots
        /\ \A j \in DOMAIN calls : Edit(calls[j]) => calls[j].mount # mount
    BY <1>6 DEF FirstAt, ListInv, Fetching
  <2>2. calls[g].at # "answered"
    BY <1>0, <1>6, <2>1 DEF FirstAt
  <2>3. \A j \in DOMAIN calls : IsFirst(page, calls[j], mount) => j = g
    BY <1>6 DEF FirstAt
  <2>4. PICK h \in DOMAIN Rest(i) : f[h] = g
    BY <1>2, <1>3, <1>6 DEF FirstAt
  <2>5. Fetching(page, t, mount, robots')
    <3>1. \A k \in DOMAIN t : Edit(t[k]) => t[k].mount # mount
      BY <1>0, <1>1, <1>2, <2>1
    <3>2. \A k \in DOMAIN t :
            IsFirst(page, t[k], mount) => t[k].at # "answered"
      BY <1>1, <1>2, <1>3, <2>2, <2>3
    <3> QED  BY <2>1, <3>1, <3>2 DEF Fetching
  <2>6. Fetched(page, t, mount, robots')
    <3>1. IsFirst(page, t[h], mount) /\ h \in DOMAIN t
      BY <1>1, <1>2, <1>6, <2>4 DEF FirstAt
    <3> QED  BY <3>1 DEF Fetched
  <2> QED  BY <2>5, <2>6 DEF ListInv, t
<1> QED  BY <1>5, <1>6 DEF LineInv, FlushInv

(* The server answers: a fetch gets the robots there are, an edit that       *)
(* succeeds is the last so far.                                              *)
LEMMA ServerList ==
  ASSUME ~Overtaking, Types, LineInv, Server, page.at = "landing",
         ListInv(page, calls, mount, robots)
  PROVE  ListInv(page', calls', mount', robots')
<1>0. /\ CallsOK /\ robots \in Conditions
  BY DEF Types, ServerOK
<1>1. ASSUME NEW i \in DOMAIN calls, Handles(i)
      PROVE  ListInv(page', calls', mount', robots')
  <2>1. page' = page /\ mount' = mount
    BY <1>1, ServesAnswer DEF tab
  <2>2. PICK x : Answer(i, x) /\ calls' = Append(Rest(i), x)
    BY <1>1, ServesAnswer
  <2>3. x \in Request /\ Rest(i) \in Seq(Request) /\ calls[i] \in Request
    BY <1>0, <2>2, RestFrom, Typed DEF Answer
  <2>4. ASSUME robots' = robots, x.op # "list", Edit(x) => ~x.ok
        PROVE  ListInv(page', calls', mount', robots')
    <3>1. ~IsFirst(page, calls[i], mount) /\ ~IsFirst(page, x, mount)
      BY <2>2, <2>4 DEF Answer, IsFirst, FirstOp
    <3>2. \A r \in Robots : ~Done(calls[i], mount, r) /\ ~Done(x, mount, r)
      BY <2>2, <2>4 DEF Answer, Done
    <3>3. Edit(x) /\ x.mount = mount =>
            \A k \in DOMAIN Rest(i) : ~IsFirst(page, Rest(i)[k], mount)
      <4> SUFFICES ASSUME Edit(x), x.mount = mount
                   PROVE  \A k \in DOMAIN Rest(i) :
                            ~IsFirst(page, Rest(i)[k], mount)
        OBVIOUS
      <4>1. Edit(calls[i]) /\ calls[i].mount = mount
        BY <2>2 DEF Answer, Edit
      <4>2. \A j \in DOMAIN calls : ~IsFirst(page, calls[j], mount)
        BY <4>1 DEF ListInv, Fetching
      <4>3. PICK f : \A k \in DOMAIN Rest(i) :
              f[k] \in DOMAIN calls /\ Rest(i)[k] = calls[f[k]]
        BY <1>0, RestFrom
      <4> QED  BY <4>2, <4>3
    <3>4. ListInv(page, Rest(i), mount, robots)
      BY <1>0, <3>1, <3>2, ListRest
    <3>5. ListInv(page, calls', mount, robots)
      BY <2>2, <2>3, <3>1, <3>2, <3>3, <3>4, ListMore
    <3> QED  BY <2>1, <2>4, <3>5
  <2>5. ASSUME NEW ok, NEW seen, Answers(i, ok, seen)
        PROVE  x.op = calls[i].op /\ x.ok = ok /\ x.seen = seen
               /\ x.arg = calls[i].arg
    <3> DEFINE y == [calls[i] EXCEPT !.at = "answered", !.ok = ok,
                                     !.seen = seen]
    <3>1. calls' = Append(Rest(i), y)
      BY <2>5 DEF Answers, Rest
    <3> HIDE DEF y
    <3>2. x = y
      <4> DEFINE S == Request \cup {x, y}
      <4>1. Rest(i) \in Seq(S)
        BY <2>3
      <4> HIDE DEF S
      <4>2. \A z \in S : Append(Rest(i), z)[Len(Rest(i)) + 1] = z
        BY <4>1, AppendProperties
      <4>3. x \in S /\ y \in S
        BY DEF S
      <4> QED  BY <2>2, <3>1, <4>2, <4>3
    <3> QED  BY <2>2, <2>3, <3>2 DEF y, Request, AnyCall, Answer
  <2>6. CASE ListsRobots(i)
    <3>1. x.op = "list" /\ x.seen = [NoStatus EXCEPT !.robots = robots]
          /\ robots' = robots
      BY <2>5, <2>6 DEF ListsRobots, Begins, server
    <3>2. x.seen.robots = robots
      BY <3>1, NoStatusOK DEF Status
    <3>3. ListInv(page, calls', mount, robots)
      BY <1>0, <2>2, <3>1, <3>2, ListAnswered
    <3> QED  BY <2>1, <3>1, <3>3
  <2>7. CASE CreatesRobot(i)
    <3>1. /\ x.op = "create" /\ x.arg = calls[i].arg /\ calls[i].op = "create"
          /\ x.ok = (robots[calls[i].arg] = "none")
      BY <2>5, <2>7 DEF CreatesRobot, Begins
    <3>2. calls[i].arg \in Robots
      BY <2>3, <3>1 DEF Request, Args
    <3>3. CASE x.ok
      <4>1. robots' = [robots EXCEPT ![calls[i].arg] = Outcome(x.op)]
            /\ Edit(x)
        BY <2>7, <3>1, <3>3 DEF CreatesRobot, Outcome, Edit
      <4> QED  BY <2>1, <2>2, <3>1, <3>2, <3>3, <4>1, ListEdited
    <3>4. CASE ~x.ok
      BY <2>4, <2>7, <3>1, <3>4 DEF CreatesRobot
    <3> QED  BY <3>3, <3>4
  <2>8. CASE DeletesRobot(i)
    <3>1. /\ x.op = "delete" /\ x.arg = calls[i].arg /\ calls[i].op = "delete"
          /\ x.ok = (robots[calls[i].arg] # "none")
          /\ robots' = [robots EXCEPT ![calls[i].arg] = "none"]
      BY <2>5, <2>8 DEF DeletesRobot, Begins
    <3>2. calls[i].arg \in Robots
      BY <2>3, <3>1 DEF Request, Args
    <3>3. CASE x.ok
      <4>1. robots' = [robots EXCEPT ![calls[i].arg] = Outcome(x.op)]
            /\ Edit(x)
        BY <3>1 DEF Outcome, Edit
      <4> QED  BY <2>1, <2>2, <3>1, <3>2, <3>3, <4>1, ListEdited
    <3>4. CASE ~x.ok
      <4>1. robots[calls[i].arg] = "none"
        BY <3>1, <3>4
      <4>2. robots' = robots
        BY <1>0, <3>1, <3>2, <4>1 DEF Conditions
      <4> QED  BY <2>4, <3>1, <3>4, <4>2
    <3> QED  BY <3>3, <3>4
  <2>9. CASE ~(ListsRobots(i) \/ CreatesRobot(i) \/ DeletesRobot(i))
    <3>1. robots' = robots
      BY <1>1, <2>9
      DEF Handles, Serves, StartsTeleop, StopsTeleop, StartsRecording,
          ReportsStatus, TakesEvent, StopsRecording, ReadsInfo,
          UploadsDataset, DeletesDataset, ListsCameras, ConnectionFails,
          server
    <3>2. calls[i].op \notin {"list", "create", "delete"}
      BY <1>1, <2>9
      DEF Handles, Serves, StartsTeleop, StopsTeleop, StartsRecording,
          ReportsStatus, TakesEvent, StopsRecording, ReadsInfo,
          UploadsDataset, DeletesDataset, ListsCameras, ConnectionFails,
          Begins
    <3>3. x.op # "list" /\ ~Edit(x)
      BY <2>2, <3>2 DEF Answer, Edit
    <3> QED  BY <2>4, <3>1, <3>3
  <2> QED  BY <2>6, <2>7, <2>8, <2>9
<1>2. ASSUME SessionGoesOn \/ TeleopBreaks
      PROVE  ListInv(page', calls', mount', robots')
  BY <1>2 DEF SessionGoesOn, TeleopBreaks, tab
<1> QED  BY <1>1, <1>2 DEF Server, Handles

(* What reaches the landing page from the other parts.                       *)
LEMMA HeardOnLanding ==
  ASSUME Types, page.at = "landing", page'.at = "landing",
         \/ TeleopUser \/ NoticeShows \/ RecordingUser \/ Poll \/ UploadUser
         \/ (\E k \in {0, 1} : DeviceChanges(k)) \/ Streams \/ ComeBack
         \/ \E i \in DOMAIN calls :
              TeleopCallback(i) \/ RecordingCallback(i) \/ UploadCallback(i)
  PROVE  /\ page' = page /\ mount' = mount /\ server' = server
         /\ \/ calls' = calls
            \/ calls' = Sent("cameras", 0)
            \/ \E i \in DOMAIN calls :
                 /\ calls' = Rest(i)
                 /\ \/ calls[i].op \notin OpsOf("landing") \cup {"list"}
                    \/ calls[i].mount # mount
<1>0. TabOK /\ CallsOK /\ mount # 0
  BY DEF Types, TabOK
<1>1. ASSUME NEW i \in DOMAIN calls, ForThisMount(i)
      PROVE  calls[i].op \in OpsOf("landing")
  BY <1>0, <1>1, HeardHere
<1>2. OpsOf("landing") =
        {"list", "create", "delete", "move-arm", "cameras", "wait"}
  BY DEF OpsOf
<1>3. CASE TeleopUser \/ RecordingUser \/ Poll \/ UploadUser \/ ComeBack
  BY <1>3
  DEF TeleopUser, ClickBack, LeaveTeleop, Reload, OnTeleop, SwitchFeeds,
      RetryFeeds, Feeding, RecordingUser, ClickAdvance, ClickRerecord,
      AskStop, LeaveRecording, AnswerStop, Asking, Free, Connected,
      OnRecording, Poll, UploadUser, ClickUpload, AskDelete, LeaveUpload,
      SkipUpload, GoToTraining, TrainingOffered, AnswerDelete, DeleteAsked,
      UploadOffered, OnUpload, ComeBack
<1>4. CASE NoticeShows \/ Streams
  BY <1>4
  DEF NoticeShows, Streams, StreamComes, StreamRefused, RetryStream, tab
<1>5. ASSUME NEW k \in {0, 1}, DeviceChanges(k)
      PROVE  /\ page' = page /\ mount' = mount /\ server' = server
             /\ calls' = calls \/ calls' = Sent("cameras", 0)
  BY <1>5 DEF DeviceChanges, tab, Sends
<1>6. ASSUME NEW i \in DOMAIN calls,
             TeleopCallback(i) \/ RecordingCallback(i) \/ UploadCallback(i)
      PROVE  /\ page' = page /\ mount' = mount /\ server' = server
             /\ calls' = Rest(i)
             /\ \/ calls[i].op \notin OpsOf("landing") \cup {"list"}
                \/ calls[i].mount # mount
  <2>1. GoesHome(Rest(i)) => page' = page /\ mount' = mount /\ calls' = Rest(i)
    BY DEF GoesHome
  <2>2. CASE AnswerLost(i)
    BY <1>0, <2>2 DEF AnswerLost, tab
  <2>3. CASE StopArrives(i) \/ DiscardArrives(i) \/ RecordArrives(i)
    <3>1. calls[i].op \in {"stop-teleop", "discard", "record"}
      BY <2>3 DEF StopArrives, DiscardArrives, RecordArrives, Arrives
    <3>2. ~ForThisMount(i)
      BY <1>1, <1>2, <3>1
    <3>3. page' = page /\ mount' = mount /\ calls' = Rest(i)
      BY <2>1, <2>3, <3>2 DEF StopArrives, DiscardArrives, RecordArrives
    <3>4. server' = server
      BY <2>3 DEF StopArrives, DiscardArrives, RecordArrives
    <3> QED  BY <3>2, <3>3, <3>4 DEF ForThisMount
  <2>4. CASE StatusArrives(i)
    <3>1. ~ForThisMount(i)
      BY <1>1, <1>2, <2>4 DEF StatusArrives, FollowsStatus, Arrives
    <3>2. \A d, own : ~GoesToUpload(d, own, Rest(i))
      <4>1. \A p : Opens(p, Rest(i)) => p.at = "landing"
        BY DEF Opens
      <4> QED  BY <4>1, PagesOwn DEF GoesToUpload
    <3>3. page' = page /\ mount' = mount /\ calls' = Rest(i)
      BY <2>1, <2>4, <3>1, <3>2 DEF StatusArrives, FollowsStatus
    <3>4. server' = server
      BY <2>4 DEF StatusArrives, FollowsStatus
    <3> QED  BY <3>1, <3>3, <3>4 DEF ForThisMount
  <2>5. CASE \/ ExitArrives(i) \/ ToastArrives(i) \/ InfoArrives(i)
             \/ UploadArrives(i)
    <3>1. calls[i].op \in {"exit", "rerecord", "stop", "info", "upload"}
      BY <2>5
      DEF ExitArrives, ToastArrives, InfoArrives, UploadArrives, Arrives
    <3>2. ~ForThisMount(i)
      BY <1>1, <1>2, <3>1
    <3>3. /\ page' = page /\ mount' = mount /\ calls' = Rest(i)
          /\ server' = server
      BY <2>5, <3>2
      DEF ExitArrives, ToastArrives, InfoArrives, UploadArrives, tab
    <3> QED  BY <3>2, <3>3 DEF ForThisMount
  <2> QED
    BY <1>6, <2>2, <2>3, <2>4, <2>5
    DEF TeleopCallback, RecordingCallback, UploadCallback
<1> QED  BY <1>3, <1>4, <1>5, <1>6

(* The landing page itself.                                                  *)
LEMMA LandingList ==
  ASSUME ~Overtaking, Types, LineInv, page.at = "landing", PageStays,
         ListInv(page, calls, mount, robots),
         LandingUser \/ \E i \in DOMAIN calls : LandingCallback(i)
  PROVE  ListInv(page', calls', mount', robots')
<1>0. /\ TabOK /\ CallsOK /\ calls \in Seq(Request) /\ page \in LandingState
      /\ robots \in Conditions /\ mount' = mount /\ page'.at = "landing"
      /\ mount # 0
  BY CallsTyped, PageIs DEF Types, TabOK, ServerOK, PageStays
<1>1. /\ Fetching(page, calls, mount, robots)
      /\ Fetched(page, calls, mount, robots)
  BY DEF ListInv
<1>2. \A c : IsFirst(page, c, mount) => c.op = "list"
  BY DEF IsFirst, FirstOp
(* A request about something else, or sent once the list has come.           *)
<1>3. ASSUME page'.robots = page.robots, page'.selected = page.selected,
             robots' = robots,
             \/ calls' = calls
             \/ \E x \in Request :
                  /\ calls' = Append(calls, x) /\ x.op # "list"
                  /\ x.at # "answered"
                  /\ Edit(x) => \A j \in DOMAIN calls :
                                  ~IsFirst(page, calls[j], mount)
             \/ \E i \in DOMAIN calls :
                  /\ calls' = Rest(i)
                  /\ \/ calls[i].op \notin {"list", "create", "delete"}
                     \/ calls[i].mount # mount
                     \/ Edit(calls[i]) /\ ~calls[i].ok
      PROVE  ListInv(page', calls', mount', robots')
  <2>1. ListInv(page, calls', mount, robots)
    <3>1. ASSUME NEW x \in Request, calls' = Append(calls, x),
                 x.op # "list", x.at # "answered",
                 Edit(x) => \A j \in DOMAIN calls :
                              ~IsFirst(page, calls[j], mount)
          PROVE  ListInv(page, calls', mount, robots)
      BY <1>0, <1>2, <3>1, ListMore DEF Done
    <3>2. ASSUME NEW i \in DOMAIN calls, calls' = Rest(i),
                 \/ calls[i].op \notin {"list", "create", "delete"}
                 \/ calls[i].mount # mount
                 \/ Edit(calls[i]) /\ ~calls[i].ok
          PROVE  ListInv(page, calls', mount, robots)
      BY <1>0, <3>2, ListRest DEF Done, Edit, IsFirst, FirstOp
    <3> QED  BY <1>3, <3>1, <3>2
  <2> QED  BY <1>0, <1>3, <2>1, ListSame
<1>4. ASSUME NEW op \in {"create", "delete", "move-arm", "cameras"},
             NEW arg \in Args(op)
      PROVE  /\ Call(op, arg, mount) \in Request
             /\ Call(op, arg, mount).op = op
             /\ Call(op, arg, mount).at = "sent"
  BY <1>0, CallOK DEF Ops, Call, TabOK
<1>5. ASSUME NEW r \in Robots, SelectRobot(r)
      PROVE  ListInv(page', calls', mount', robots')
  <2>1. /\ page' = [page EXCEPT !.selected = r] /\ page.robots[r] # "none"
        /\ calls' = calls /\ robots' = robots
        /\ \A j \in DOMAIN calls : calls[j].op # "list"
    BY <1>5 DEF SelectRobot, MaySelect, Chooses, Pending, server
  <2>2. page'.robots = page.robots /\ page'.selected = r
    BY <1>0, <2>1 DEF LandingState
  <2>3. Fetching(page', calls, mount, robots)
    BY <2>1, <1>0 DEF Fetching, IsFirst, FirstOp
  <2>4. Fetched(page', calls, mount, robots)
    BY <1>1, <1>2, <2>1, <2>2 DEF Fetched
  <2> QED  BY <1>0, <2>1, <2>3, <2>4 DEF ListInv
<1>6. ASSUME NEW r \in Robots, CreateRobot(r)
      PROVE  ListInv(page', calls', mount', robots')
  <2>1. /\ page' = page /\ robots' = robots
        /\ calls' = Append(calls, Call("create", r, mount))
        /\ \A j \in DOMAIN calls : calls[j].op # "list"
    BY <1>6
    DEF CreateRobot, MayCreate, Chooses, Pending, server, tab, Sends, Sent
  <2>2. r \in Args("create")
    BY DEF Args
  <2> QED  BY <1>2, <1>3, <1>4, <2>1, <2>2
<1>7. ASSUME \/ DeleteRobot \/ ClickTeleop
      PROVE  ListInv(page', calls', mount', robots')
  <2>1. PICK op \in {"delete", "move-arm"} :
          /\ page' = page /\ robots' = robots /\ Known
          /\ calls' = Append(calls, Call(op, page.selected, mount))
    BY <1>7
    DEF DeleteRobot, DeleteOffered, ClickTeleop, TeleopOffered, Clean, server,
        tab, Sends, Sent
  <2>2. page.selected \in Robots /\ page.robots[page.selected] # "none"
    BY <1>0, <2>1 DEF Known, LandingState, Names
  <2>3. page.robots # NoStatus.robots
    BY <2>2 DEF NoStatus
  <2>4. \A j \in DOMAIN calls : ~IsFirst(page, calls[j], mount)
    BY <1>1, <2>3 DEF Fetching
  <2>5. page.selected \in Args(op)
    BY <2>2 DEF Args
  <2>6. /\ Call(op, page.selected, mount) \in Request
        /\ Call(op, page.selected, mount).op = op
        /\ Call(op, page.selected, mount).at = "sent"
    BY <1>4, <2>5
  <2> QED  BY <1>3, <2>1, <2>4, <2>6
<1>8. ASSUME NEW r \in Robots, Calibrate(r)
      PROVE  ListInv(page', calls', mount', robots')
  BY <1>8 DEF Calibrate
<1>9. ASSUME \/ \E d \in disk, onHub \in BOOLEAN : PickDataset(d, onHub)
             \/ GoElsewhere
      PROVE  ListInv(page', calls', mount', robots')
  BY <1>0, <1>9, PagesOwn DEF PickDataset, GoElsewhere, Opens
<1>10. ASSUME OpenDialog \/ CloseDialog \/ FillRecording \/ ClickRecord
       PROVE  ListInv(page', calls', mount', robots')
  <2>1. page'.robots = page.robots /\ page'.selected = page.selected
    <3>1. \/ page' = [page EXCEPT !.dialog = "open", !.index = 0]
          \/ page' = [page EXCEPT !.dialog = "closed"]
          \/ page' = [page EXCEPT !.filled = TRUE]
          \/ page' = [page EXCEPT !.dialog = "paused"]
      BY <1>10 DEF OpenDialog, CloseDialog, FillRecording, ClickRecord
    <3> QED  BY <1>0, <3>1 DEF LandingState
  <2>2. robots' = robots
    BY <1>10 DEF OpenDialog, CloseDialog, FillRecording, ClickRecord, server
  <2>3. CASE calls' = calls
    BY <1>3, <2>1, <2>2, <2>3
  <2>4. CASE OpenDialog
    <3>1. calls' = Append(calls, Call("cameras", 0, mount))
      BY <2>4 DEF OpenDialog, Sends, Sent
    <3>2. 0 \in Args("cameras") /\ ~Edit(Call("cameras", 0, mount))
      BY DEF Args, Edit, Call
    <3> QED  BY <1>3, <1>4, <2>1, <2>2, <3>1, <3>2
  <2>5. CASE ClickRecord
    <3>1. calls' = Append(calls, Pause)
      BY <2>5 DEF ClickRecord
    <3>2. Pause \in Request
      <4>1. Call("wait", page.index, mount) \in Request
        BY <1>0, CallOK DEF Ops, Args, LandingState, TabOK
      <4>2. [NoStatus EXCEPT !.session = session] \in Status
        BY NoStatusOK DEF Status, Types, ServerOK
      <4> QED  BY <4>1, <4>2 DEF Pause, Request, AnyCall
    <3>3. Pause.op = "wait" /\ Pause.at = "waiting"
      BY DEF Pause, Call
    <3> QED  BY <1>3, <2>1, <2>2, <3>1, <3>2, <3>3 DEF Edit
  <2> QED  BY <1>10, <2>3, <2>4, <2>5 DEF CloseDialog, FillRecording
<1>11. ASSUME NEW i \in DOMAIN calls, ListArrives(i)
       PROVE  ListInv(page', calls', mount', robots')
  <2>1. calls' = Rest(i) /\ robots' = robots /\ Arrives(i, "list")
    BY <1>11 DEF ListArrives, server
  <2>2. CASE ~ForThisMount(i)
    <3>1. page' = page
      BY <1>11, <2>2 DEF ListArrives
    <3> QED  BY <1>3, <2>1, <2>2, <3>1 DEF ForThisMount
  <2>3. CASE ForThisMount(i)
    <3> DEFINE list == calls[i].seen.robots
               keeps == page.selected # NoRobot /\ list[page.selected] # "none"
    <3>1. IsFirst(page, calls[i], mount) /\ calls[i].at = "answered"
      BY <2>1, <2>3 DEF IsFirst, FirstOp, Arrives, ForThisMount
    <3>2. /\ page' = [page EXCEPT !.robots = list,
                        !.selected = IF keeps THEN @ ELSE NoRobot]
      BY <1>11, <2>3 DEF ListArrives
    <3>3. list = robots
      BY <1>1, <3>1 DEF Fetching
    <3> HIDE DEF list
    <3>4. /\ page'.robots = robots
          /\ page'.selected # NoRobot => robots[page'.selected] # "none"
      BY <1>0, <3>2, <3>3 DEF LandingState
    <3>5. Ends(i)
      BY <1>0, <2>1, ArrivesEnds
    <3>6. Flushed(page, Rest(i), mount)
      BY <1>0, <3>1, <3>5, FlushEnds DEF LineInv
    <3>7. PICK f : \A k \in DOMAIN Rest(i) :
            f[k] \in DOMAIN calls /\ Rest(i)[k] = calls[f[k]]
      BY <1>0, RestFrom
    <3>8. \A j \in DOMAIN calls : Edit(calls[j]) => calls[j].mount # mount
      BY <1>1, <3>1 DEF Fetching
    <3>9. \A k \in DOMAIN Rest(i), r \in Robots : ~Done(Rest(i)[k], mount, r)
      BY <3>7, <3>8 DEF Done
    <3>10. \A k \in DOMAIN Rest(i) : ~IsFirst(page', Rest(i)[k], mount)
      <4>1. \A k \in DOMAIN Rest(i) : ~IsFirst(page, Rest(i)[k], mount)
        BY <1>2, <3>6, <3>7 DEF Flushed, LineInv, WaitsInv
      <4> QED  BY <1>0, <4>1 DEF IsFirst
    <3>11. Fetching(page', calls', mount, robots)
      BY <2>1, <3>10 DEF Fetching
    <3>12. Fetched(page', calls', mount, robots)
      BY <2>1, <3>4, <3>9 DEF Fetched, Shows
    <3> QED  BY <1>0, <2>1, <3>11, <3>12 DEF ListInv
  <2> QED  BY <2>2, <2>3
<1>12. ASSUME NEW i \in DOMAIN calls, CreateArrives(i) \/ DeleteArrives(i)
       PROVE  ListInv(page', calls', mount', robots')
  <2>1. /\ calls' = Rest(i) /\ robots' = robots /\ Edit(calls[i])
        /\ Arrives(i, calls[i].op) /\ calls[i].at = "answered"
    BY <1>12 DEF CreateArrives, DeleteArrives, server, Arrives, Edit
  <2>2. CASE ~(ForThisMount(i) /\ calls[i].ok)
    <3>1. page' = page
      BY <1>12, <2>2 DEF CreateArrives, DeleteArrives
    <3> QED  BY <1>3, <2>1, <2>2, <3>1 DEF ForThisMount
  <2>3. CASE ForThisMount(i) /\ calls[i].ok
    <3> DEFINE r == calls[i].arg
    <3>1. r \in Robots
      BY <1>0, <2>1, Typed DEF Request, Args, Edit
    <3>2. Done(calls[i], mount, r)
      BY <2>1, <2>3 DEF Done, ForThisMount
    <3>3. /\ page'.robots = [page.robots EXCEPT ![r] = Outcome(calls[i].op)]
          /\ \/ page'.selected = r /\ Outcome(calls[i].op) = "new"
             \/ page'.selected = NoRobot
             \/ page'.selected = page.selected /\ page.selected # r
      <4>1. CASE CreateArrives(i)
        <5>1. calls[i].op = "create"
          BY <4>1 DEF CreateArrives, Arrives
        <5>2. page' = [page EXCEPT !.robots[r] = "new", !.selected = r]
          BY <2>3, <4>1 DEF CreateArrives
        <5> HIDE DEF r
        <5> QED  BY <1>0, <5>1, <5>2 DEF LandingState, Outcome
      <4>2. CASE DeleteArrives(i)
        <5>1. calls[i].op = "delete"
          BY <4>2 DEF DeleteArrives, Arrives
        <5>2. page' = [page EXCEPT !.robots[r] = "none",
                         !.selected = IF @ = r THEN NoRobot ELSE @]
          BY <2>3, <4>2 DEF DeleteArrives
        <5> HIDE DEF r
        <5> QED  BY <1>0, <5>1, <5>2 DEF LandingState, Outcome
      <4> QED  BY <1>12, <4>1, <4>2
    <3> HIDE DEF r
    <3>4. \A j \in DOMAIN calls : ~IsFirst(page, calls[j], mount)
      BY <1>1, <3>2 DEF Fetching, Done
    <3>5. /\ \A q \in Robots : Shows(page.robots, calls, mount, robots, q)
          /\ page.selected # NoRobot => page.robots[page.selected] # "none"
      BY <1>1, <3>4 DEF Fetched
    <3>6. \A j \in DOMAIN calls : j < i => calls[j].at # "answered"
      <4>1. Ends(i)
        BY <1>0, <2>1, ArrivesEnds
      <4> QED  BY <1>0, <2>1, <2>3, <4>1 DEF Ends, Edit, ForThisMount
    <3>7. page.robots \in Conditions /\ page.selected \in Names
      BY <1>0 DEF LandingState
    <3>8. /\ page'.robots[r] = Outcome(calls[i].op)
          /\ \A q \in Robots : q # r => page'.robots[q] = page.robots[q]
      BY <3>1, <3>3, <3>7 DEF Conditions
    <3>9. ASSUME NEW q \in Robots
          PROVE  Shows(page'.robots, Rest(i), mount, robots, q)
      <4>1. CASE q = r
        <5>1. Shows(page.robots, calls, mount, robots, r)
          BY <3>1, <3>5
        <5>2. Shows(page'.robots, Rest(i), mount, robots, r)
          BY <1>0, <3>2, <3>6, <3>8, <5>1, ShowsHeard
        <5> QED  BY <4>1, <5>2
      <4>2. CASE q # r
        <5>1. ~Done(calls[i], mount, q)
          BY <3>2, <4>2 DEF Done
        <5>2. Shows(page.robots, Rest(i), mount, robots, q)
          BY <1>0, <3>5, <5>1, ShowsRest
        <5> QED  BY <3>8, <4>2, <5>2 DEF Shows
      <4> QED  BY <4>1, <4>2
    <3>10. page'.selected # NoRobot => page'.robots[page'.selected] # "none"
      <4>1. NoRobot \notin Robots
        BY DeskAssumption
      <4> QED  BY <3>3, <3>5, <3>7, <3>8 DEF Names
    <3>11. PICK f : \A k \in DOMAIN Rest(i) :
             f[k] \in DOMAIN calls /\ Rest(i)[k] = calls[f[k]]
      BY <1>0, RestFrom
    <3>12. \A k \in DOMAIN Rest(i) : ~IsFirst(page', Rest(i)[k], mount)
      BY <1>0, <3>4, <3>11 DEF IsFirst
    <3>13. Fetching(page', calls', mount, robots)
           /\ Fetched(page', calls', mount, robots)
      BY <2>1, <3>9, <3>10, <3>12 DEF Fetching, Fetched
    <3> QED  BY <1>0, <2>1, <3>13 DEF ListInv
  <2> QED  BY <2>2, <2>3
<1>13. ASSUME NEW i \in DOMAIN calls,
              TeleopStarted(i) \/ CamerasArrive(i) \/ WaitOver(i)
       PROVE  ListInv(page', calls', mount', robots')
  <2>1. robots' = robots /\ calls[i].op \notin {"list", "create", "delete"}
    BY <1>13
    DEF TeleopStarted, CamerasArrive, WaitOver, TimerRuns, Arrives, server
  <2>2. calls' = Rest(i)
    <3>1. \A p, cs : Opens(p, cs) => p.at = "landing"
      BY <1>0 DEF Opens
    <3> QED
      BY <1>13, <3>1, PagesOwn DEF TeleopStarted, CamerasArrive, WaitOver
  <2>3. page'.robots = page.robots /\ page'.selected = page.selected
    <3>1. \/ page' = page \/ \E k : page' = [page EXCEPT !.index = k]
          \/ \E p : p.at # "landing" /\ page' = p
      BY <1>13, PagesOwn DEF TeleopStarted, CamerasArrive, WaitOver, Opens
    <3> QED  BY <1>0, <3>1 DEF LandingState
  <2> QED  BY <1>3, <2>1, <2>2, <2>3
<1> QED
  BY <1>5, <1>6, <1>7, <1>8, <1>9, <1>10, <1>11, <1>12, <1>13
  DEF LandingUser, LandingCallback, Configure, OpenTraining

(* The list is kept by every step.                                           *)
LEMMA ListStep ==
  ASSUME ~Overtaking, Types, LineInv, [Next]_vars,
         ListInv(page, calls, mount, robots)
  PROVE  ListInv(page', calls', mount', robots')
<1>0. CallsOK /\ calls \in Seq(Request) /\ mount \in Nat \ {0}
  BY CallsTyped DEF Types, TabOK
<1>1. CASE page.at # "landing" \/ ~PageStays
  BY <1>1, StepMove, ListNew
<1>2. CASE page.at = "landing" /\ PageStays
  <2>1. CASE UNCHANGED vars
    BY <2>1 DEF vars, tab, server
  <2>2. CASE LandingUser \/ \E i \in DOMAIN calls : LandingCallback(i)
    BY <1>2, <2>2, LandingList
  <2>3. CASE Server
    BY <1>2, <2>3, ServerList
  <2>4. CASE \/ TeleopUser \/ NoticeShows \/ RecordingUser \/ Poll
             \/ UploadUser
             \/ (\E k \in {0, 1} : DeviceChanges(k)) \/ Streams \/ ComeBack
             \/ \E i \in DOMAIN calls :
                  \/ TeleopCallback(i) \/ RecordingCallback(i)
                  \/ UploadCallback(i)
    <3>1. /\ page' = page /\ mount' = mount /\ server' = server
          /\ \/ calls' = calls
             \/ calls' = Sent("cameras", 0)
             \/ \E i \in DOMAIN calls :
                  /\ calls' = Rest(i)
                  /\ \/ calls[i].op \notin OpsOf("landing") \cup {"list"}
                     \/ calls[i].mount # mount
      BY <1>2, <2>4, HeardOnLanding DEF PageStays
    <3>2. robots' = robots
      BY <3>1 DEF server
    <3>3. CASE calls' = calls
      BY <3>1, <3>2, <3>3
    <3>4. CASE calls' = Sent("cameras", 0)
      <4> DEFINE x == Call("cameras", 0, mount)
      <4>1. x \in Request /\ x.op = "cameras"
        <5>1. x \in Request
          BY <1>0, CallOK DEF Ops, Args
        <5> QED  BY <5>1 DEF Call
      <4>2. calls' = Append(calls, x)
        BY <3>4 DEF Sent
      <4> HIDE DEF x
      <4>3. ListInv(page, calls', mount, robots)
        BY <1>0, <1>2, <4>1, <4>2, ListMore DEF IsFirst, FirstOp, Edit, Done
      <4> QED  BY <3>1, <3>2, <4>3
    <3>5. ASSUME NEW i \in DOMAIN calls, calls' = Rest(i),
                 \/ calls[i].op \notin OpsOf("landing") \cup {"list"}
                 \/ calls[i].mount # mount
          PROVE  ListInv(page', calls', mount', robots')
      <4>1. ~IsFirst(page, calls[i], mount)
            /\ \A r \in Robots : ~Done(calls[i], mount, r)
        BY <1>2, <3>5 DEF IsFirst, FirstOp, Done, Edit, OpsOf
      <4>2. ListInv(page, calls', mount, robots)
        BY <1>0, <3>5, <4>1, ListRest
      <4> QED  BY <3>1, <3>2, <4>2
    <3> QED  BY <3>1, <3>3, <3>4, <3>5
  <2> QED
    BY <2>1, <2>2, <2>3, <2>4 DEF Next, User, Callback, Browser
<1> QED  BY <1>1, <1>2

(* Once no request about robots is under way, the landing page shows the     *)
(* robots of the server, and the selected one is among them: the page never  *)
(* fetches the list again after its edits, and it misses no edit of a page   *)
(* that was left, as long as requests are handled and heard of in their      *)
(* order.                                                                    *)
THEOREM ListMatches ==
  ASSUME ~Overtaking
  PROVE  Spec => []ListMatchesServer
<1> DEFINE LI == ListInv(page, calls, mount, robots)
<1>1. Init => LI
  <2> SUFFICES ASSUME Init PROVE LI
    OBVIOUS
  <2> DEFINE x == Call("list", NoRobot, 1)
  <2>1. page.at = "landing" /\ calls = <<x>> /\ mount = 1
        /\ page.robots = NoStatus.robots
    BY DEF Init
  <2>2. x.op = "list" /\ x.mount = 1 /\ x.at = "sent"
    BY DEF Call
  <2> HIDE DEF x
  <2>3. DOMAIN calls = {1} /\ calls[1] = x
    BY <2>1
  <2>4. Fetching(page, calls, mount, robots)
    BY <2>1, <2>2, <2>3 DEF Fetching, Edit
  <2>5. Fetched(page, calls, mount, robots)
    BY <2>1, <2>2, <2>3 DEF Fetched, IsFirst, FirstOp
  <2> QED  BY <2>4, <2>5 DEF ListInv
<1>2. Types /\ LineInv /\ LI /\ [Next]_vars => LI'
  BY ListStep
<1>3. Types /\ LI => ListMatchesServer
  <2> SUFFICES ASSUME Types, LI, OnLanding,
                      \A i \in DOMAIN calls :
                        calls[i].op \notin {"list", "create", "delete"}
               PROVE  /\ page.robots = robots
                      /\ page.selected # NoRobot =>
                           robots[page.selected] # "none"
    BY DEF ListMatchesServer
  <2>1. \A i \in DOMAIN calls : ~IsFirst(page, calls[i], mount)
    BY DEF OnLanding, IsFirst, FirstOp
  <2>2. /\ \A r \in Robots : Shows(page.robots, calls, mount, robots, r)
        /\ page.selected # NoRobot => page.robots[page.selected] # "none"
    BY <2>1 DEF ListInv, Fetched, OnLanding
  <2>3. \A r \in Robots : page.robots[r] = robots[r]
    BY <2>2 DEF Shows, Done, Edit
  <2>4. page.robots \in Conditions /\ robots \in Conditions
    <3>1. page \in LandingState
      BY PageIs DEF Types, TabOK, OnLanding
    <3> QED  BY <3>1 DEF LandingState, Types, ServerOK
  <2>5. page.robots = robots
    BY <2>3, <2>4 DEF Conditions
  <2> QED  BY <2>2, <2>5
<1> HIDE DEF LI
<1> QED
  BY <1>1, <1>2, <1>3, TypesCorrect, LineInOrder, PTL DEF Spec

-----------------------------------------------------------------------------
(* What the recording page hears of its session.                             *)

(* A status that is on its way back to the page.                             *)
Answered(c) == c.op = "status" /\ c.at = "answered"
(* Only a page whose session has begun polls, and about that session.        *)
PolledInv(p, cs, m) ==
  p.at = "recording" =>
    \A i \in DOMAIN cs :
      cs[i].op = "status" /\ cs[i].mount = m => p.started /\ cs[i].arg = p.own
(* What it has heard is about the newest session.                            *)
FreshInv(p, cs, m, n) ==
  p.at = "recording" =>
    \A i \in DOMAIN cs :
      Answered(cs[i]) /\ cs[i].mount = m => cs[i].seen.session = n
(* A status says how the newest session ended, unless a start that failed    *)
(* has reset the count since, or is about an earlier one.                    *)
EndedInv(cs, n, on, takes) ==
  \A i \in DOMAIN cs : Answered(cs[i]) =>
    /\ cs[i].seen.session <= n
    /\ cs[i].seen.session = n /\ ~cs[i].seen.active =>
         ~on /\ takes \in {0, cs[i].seen.kept}

(* No answer comes from anywhere but the server, and no timer but from a     *)
(* pause that begins.                                                        *)
LEMMA MoveAnswers ==
  ASSUME Types, Move, NEW k \in DOMAIN calls', calls'[k].at # "sent"
  PROVE  \/ \E j \in DOMAIN calls : calls'[k] = calls[j]
         \/ \E i \in DOMAIN calls : \E x :
              /\ Handles(i)
              /\ Answer(i, x) /\ calls' = Append(Rest(i), x)
              /\ calls'[k] = x
         \/ calls'[k].op = "wait" /\ calls'[k].seen.session = session
<1>0. TabOK /\ CallsOK /\ calls \in Seq(Request)
  BY CallsTyped DEF Types
<1> DEFINE Old == \E j \in DOMAIN calls : calls'[k] = calls[j]
           New == calls'[k].op = "wait" /\ calls'[k].seen.session = session
<1>1. ASSUME NEW i \in DOMAIN calls
      PROVE  /\ Rest(i) \in Seq(Request)
             /\ \A l \in DOMAIN Rest(i) :
                  \E j \in DOMAIN calls : Rest(i)[l] = calls[j]
  BY <1>0, RestIn
<1>2. ASSUME NEW p, NEW m, NEW u, Line(p, m, u, calls')
      PROVE  k \in DOMAIN u /\ calls'[k] = u[k]
  <2>1. CASE calls' = u
    BY <2>1
  <2>2. ASSUME NEW x \in Request, FirstCall(p, m, x), calls' = Append(u, x)
        PROVE  k \in DOMAIN u /\ calls'[k] = u[k]
    <3>1. x.at = "sent"
      BY <2>2 DEF FirstCall, Call
    <3> QED  BY <1>2, <2>2, <3>1, OneMoreAt DEF Line
  <2> QED  BY <1>2, <2>1, <2>2 DEF Line
<1>3. ASSUME NEW x, OwnCall(x), calls' = Append(calls, x)
      PROVE  Old \/ New
  BY <1>0, <1>3, OneMoreAt DEF OwnCall
<1>4. ASSUME NEW i \in DOMAIN calls, NEW x, OwnCall(x),
             calls' = Append(Rest(i), x)
      PROVE  Old \/ New
  <2>1. x \in Request
    BY <1>4 DEF OwnCall
  <2>2. \/ k \in DOMAIN Rest(i) /\ calls'[k] = Rest(i)[k]
        \/ calls'[k] = x
    BY <1>1, <1>4, <2>1, OneMoreAt
  <2> QED  BY <1>1, <1>4, <2>2 DEF OwnCall
<1>5. ASSUME NEW i \in DOMAIN calls, calls' = Rest(i) PROVE Old
  BY <1>1, <1>5
<1>6. ASSUME NEW i \in DOMAIN calls, NEW x, Answer(i, x),
             calls' = Append(Rest(i), x)
      PROVE  Old \/ calls'[k] = x
  <2>1. x \in Request
    BY <1>6 DEF Answer
  <2>2. calls'[k] = x \/ (k \in DOMAIN Rest(i) /\ calls'[k] = Rest(i)[k])
    BY <1>1, <1>6, <2>1, OneMoreAt
  <2> QED  BY <1>1, <2>2
<1>7. ASSUME NEW p \in Pages,
             \/ Opens(p, calls)
             \/ \E i \in DOMAIN calls : Opens(p, Rest(i))
      PROVE  Old
  <2>1. PICK cs \in Seq(Request) :
          /\ Opens(p, cs)
          /\ \A l \in DOMAIN cs : \E j \in DOMAIN calls : cs[l] = calls[j]
    BY <1>0, <1>1, <1>7
  <2>2. Line(p, mount', Unmounted(cs), calls')
    BY <1>0, <2>1, OpensLine
  <2>3. k \in DOMAIN Unmounted(cs) /\ calls'[k] = Unmounted(cs)[k]
    BY <1>2, <2>2
  <2>4. k \in DOMAIN cs /\ calls'[k] = cs[k]
    BY <1>0, <2>3, UnmountedElements
  <2> QED  BY <2>1, <2>4
<1>8. ASSUME NEW p \in {Teleop, Landing}, Reload(p) PROVE Old
  <2>1. PICK u : /\ Line(p, mount', u, calls')
                 /\ \A l \in DOMAIN u : u[l].at = "sent"
    BY <1>8, ReloadLine
  <2> QED  BY <1>2, <2>1
<1>9. calls' = calls => Old
  OBVIOUS
<1> QED  BY <1>3, <1>4, <1>5, <1>6, <1>7, <1>8, <1>9 DEF Move

(* The polls of a recording page begin when its session has begun.           *)
LEMMA MovePolled ==
  ASSUME ~Overtaking, Types, LineInv, Move, PolledInv(page, calls, mount)
  PROVE  PolledInv(page', calls', mount')
<1>0. TabOK /\ CallsOK /\ calls \in Seq(Request) /\ mount \in Nat \ {0}
  BY CallsTyped DEF Types, TabOK
<1> DEFINE Opened ==
      \E p \in Pages : \/ Opens(p, calls)
                       \/ \E i \in DOMAIN calls : Opens(p, Rest(i))
<1> SUFFICES ASSUME page'.at = "recording"
             PROVE  PolledInv(page', calls', mount')
  BY DEF PolledInv
<1>1. ASSUME NEW i \in DOMAIN calls
      PROVE  /\ Rest(i) \in Seq(Request)
             /\ \A l \in DOMAIN Rest(i) :
                  \E j \in DOMAIN calls : Rest(i)[l] = calls[j]
  BY <1>0, RestIn
<1>2. ASSUME NEW i \in DOMAIN calls, Arrives(i, "record"), ForThisMount(i),
             calls' = Rest(i), mount' = mount, page'.at = page.at
      PROVE  PolledInv(page', calls', mount')
  <2>1. page.at = "recording" /\ IsFirst(page, calls[i], mount) /\ Ends(i)
    BY <1>0, <1>2, ArrivesEnds
    DEF IsFirst, FirstOp, ForThisMount, Arrives
  <2>2. ~page.started
    BY <1>0, <2>1, FlushEnds DEF LineInv
  <2>3. \A j \in DOMAIN calls :
          ~(calls[j].op = "status" /\ calls[j].mount = mount)
    BY <2>1, <2>2 DEF PolledInv
  <2> QED  BY <1>1, <1>2, <2>3 DEF PolledInv
<1>3. ASSUME NEW p \in Pages,
             \/ Opens(p, calls)
             \/ \E i \in DOMAIN calls : Opens(p, Rest(i))
      PROVE  PolledInv(page', calls', mount')
  <2>1. PICK cs \in Seq(Request) : Opens(p, cs)
    BY <1>0, <1>1, <1>3
  <2>2. PICK u : Line(p, mount', u, calls')
    BY <1>0, <2>1, OpensLine
  <2>3. \A k \in DOMAIN calls' :
          ~(calls'[k].op = "status" /\ calls'[k].mount = mount')
    <3>1. CASE calls' = u
      BY <2>2, <3>1 DEF Line
    <3>2. ASSUME NEW x \in Request, FirstCall(p, mount', x),
                 calls' = Append(u, x)
          PROVE  \A k \in DOMAIN calls' :
                   ~(calls'[k].op = "status" /\ calls'[k].mount = mount')
      <4>1. x.op # "status" /\ u \in Seq(Request)
        BY <2>2, <3>2 DEF FirstCall, Call, Line
      <4> QED  BY <2>2, <3>2, <4>1, OneMoreAt DEF Line
    <3> QED  BY <2>2, <3>1, <3>2 DEF Line
  <2> QED  BY <2>3 DEF PolledInv
<1>4. ASSUME NEW p \in {Teleop, Landing}, Reload(p)
      PROVE  PolledInv(page', calls', mount')
  BY <1>4, PagesOwn DEF Reload
<1>5. CASE PageStays /\ ~Opened
  <2>1. /\ page.at = "recording" /\ mount' = mount
        /\ page'.started = page.started /\ page'.own = page.own
    BY <1>5 DEF PageStays
  <2> DEFINE Fine(c) == c.op = "status" /\ c.mount = mount =>
                          page.started /\ c.arg = page.own
  <2>2. \A j \in DOMAIN calls : Fine(calls[j])
    BY <2>1 DEF PolledInv
  <2>3. ASSUME NEW cs \in Seq(Request), \A j \in DOMAIN cs : Fine(cs[j]),
               NEW x, calls' = Append(cs, x), x \in Request,
               Fine(x)
        PROVE  \A k \in DOMAIN calls' : Fine(calls'[k])
    BY <2>3, OneMoreAt
  <2>4. \A i \in DOMAIN calls : \A l \in DOMAIN Rest(i) : Fine(Rest(i)[l])
    BY <1>1, <2>2
  <2>5. \A k \in DOMAIN calls' : Fine(calls'[k])
    <3>1. CASE calls' = calls \/ \E i \in DOMAIN calls : calls' = Rest(i)
      BY <2>2, <2>4, <3>1
    <3>2. ASSUME NEW x, OwnCall(x),
                 \/ calls' = Append(calls, x)
                 \/ \E i \in DOMAIN calls : calls' = Append(Rest(i), x)
          PROVE  \A k \in DOMAIN calls' : Fine(calls'[k])
      <4>1. x \in Request /\ Fine(x)
        BY <3>2 DEF OwnCall
      <4> QED  BY <1>0, <1>1, <2>2, <2>3, <2>4, <3>2, <4>1
    <3>3. ASSUME NEW i \in DOMAIN calls, NEW x, Answer(i, x),
                 calls' = Append(Rest(i), x)
          PROVE  \A k \in DOMAIN calls' : Fine(calls'[k])
      <4>1. x \in Request /\ Fine(x)
        BY <2>2, <3>3 DEF Answer
      <4> QED  BY <1>1, <2>3, <2>4, <3>3, <4>1
    <3>4. ~Reload(Teleop) /\ ~Reload(Landing)
      BY <2>1 DEF Reload, OnTeleop
    <3> QED  BY <1>5, <3>1, <3>2, <3>3, <3>4 DEF Move
  <2> QED  BY <2>1, <2>5 DEF PolledInv
<1> QED  BY <1>2, <1>3, <1>4, <1>5 DEF Move

(* Sessions begin one at a time, and what they keep changes while they run.  *)
LEMMA ServiceStep ==
  ASSUME Types, [Next]_vars
  PROVE  \/ /\ UNCHANGED <<active, kept, session>>
            /\ phase' = phase \/ phase' = "stopping"
         \/ active /\ session' = session /\ calls' = calls
         \/ /\ active' = active /\ session' = session
            /\ kept' = 0 /\ phase' = "preparing"
            /\ \E i \in DOMAIN calls : StartsRecording(i)
         \/ /\ session' = session + 1 /\ kept' = 0 /\ phase' = "preparing"
            /\ \E i \in DOMAIN calls : StartsRecording(i)
<1>0. ServerOK
  BY DEF Types
<1>1. CASE UNCHANGED vars
  BY <1>1 DEF vars, server, service
<1>2. CASE LandingUser \/ \E i \in DOMAIN calls : LandingCallback(i)
  <2>1. CASE LandingUser
    BY <1>2, <2>1
    DEF LandingUser, SelectRobot, CreateRobot, Calibrate, PickDataset,
        DeleteRobot, ClickTeleop, Configure, OpenTraining, GoElsewhere,
        OpenDialog, CloseDialog, FillRecording, ClickRecord, server, service
  <2>2. ASSUME NEW i \in DOMAIN calls, LandingCallback(i)
        PROVE  server' = server
    BY <2>2
    DEF LandingCallback, ListArrives, CreateArrives, DeleteArrives,
        TeleopStarted, CamerasArrive, WaitOver
  <2> QED  BY <1>2, <2>1, <2>2 DEF server, service
<1>3. CASE TeleopUser \/ \E i \in DOMAIN calls : TeleopCallback(i)
  BY <1>3
  DEF TeleopUser, TeleopCallback, ClickBack, LeaveTeleop, Reload,
      SwitchFeeds, RetryFeeds, StopArrives, AnswerLost, server, service
<1>4. CASE RecordingUser \/ \E i \in DOMAIN calls : RecordingCallback(i)
  BY <1>4
  DEF RecordingUser, RecordingCallback, ClickAdvance, ClickRerecord, AskStop,
      LeaveRecording, AnswerStop, RecordArrives, StatusArrives,
      FollowsStatus, ExitArrives, ToastArrives, server, service
<1>5. CASE UploadUser \/ \E i \in DOMAIN calls : UploadCallback(i)
  <2>1. ASSUME UploadUser PROVE server' = server
    BY <2>1
    DEF UploadUser, ClickUpload, AskDelete, LeaveUpload, SkipUpload,
        GoToTraining, AnswerDelete
  <2>2. ASSUME NEW i \in DOMAIN calls, UploadCallback(i)
        PROVE  server' = server
    BY <2>2 DEF UploadCallback, InfoArrives, UploadArrives, DiscardArrives
  <2> QED  BY <1>5, <2>1, <2>2 DEF server, service
<1>6. CASE \/ Browser \/ ComeBack
           \/ \E k \in {0, 1} : DeviceChanges(k)
  BY <1>6
  DEF Browser, ComeBack, DeviceChanges, Streams, StreamComes, StreamRefused,
      RetryStream, NoticeShows, Poll, server, service
<1>7. CASE SessionGoesOn \/ TeleopBreaks
  BY <1>7
  DEF SessionGoesOn, TeleopBreaks, ChangePhase, KeepEpisode, EndSession,
      service
<1>8. ASSUME NEW i \in DOMAIN calls, Handles(i)
      PROVE  \/ /\ UNCHANGED <<active, kept, session>>
                /\ phase' = phase \/ phase' = "stopping"
             \/ /\ active' = active /\ session' = session
                /\ kept' = 0 /\ phase' = "preparing" /\ StartsRecording(i)
             \/ /\ session' = session + 1 /\ kept' = 0
                /\ phase' = "preparing" /\ StartsRecording(i)
  <2>1. CASE StartsRecording(i)
    <3>1. \/ BeginSession /\ session' = session + 1
          \/ StartFails /\ session' = session
          \/ UNCHANGED <<service, session>>
      BY <2>1 DEF StartsRecording
    <3>2. ASSUME StartFails
          PROVE  active' = active /\ kept' = 0 /\ phase' = "preparing"
      BY <3>2, <1>0 DEF StartFails, ServerOK
    <3> QED  BY <2>1, <3>1, <3>2 DEF BeginSession, service
  <2>2. CASE \/ StartsTeleop(i) \/ StopsTeleop(i) \/ CreatesRobot(i)
             \/ DeletesRobot(i) \/ DeletesDataset(i)
    BY <2>2
    DEF StartsTeleop, StopsTeleop, CreatesRobot, DeletesRobot,
        DeletesDataset, service
  <2>3. CASE StopsRecording(i)
    BY <2>3 DEF StopsRecording, ChangePhase, service
  <2>4. CASE \/ ListsRobots(i) \/ ReportsStatus(i) \/ TakesEvent(i)
             \/ ReadsInfo(i) \/ UploadsDataset(i) \/ ListsCameras(i)
             \/ ConnectionFails(i)
    BY <2>4
    DEF ListsRobots, ReportsStatus, TakesEvent, ReadsInfo, UploadsDataset,
        ListsCameras, ConnectionFails, server, service
  <2> QED  BY <1>8, <2>1, <2>2, <2>3, <2>4 DEF Serves, Handles
<1> QED
  BY <1>1, <1>2, <1>3, <1>4, <1>5, <1>6, <1>7, <1>8
  DEF Next, User, Callback, Server, Handles

(* An answer to a status request says what the server has.                   *)
LEMMA StatusSays ==
  ASSUME CallsOK, ServerOK, NEW i \in DOMAIN calls, NEW x,
         Handles(i), Answer(i, x),
         calls' = Append(Rest(i), x), x.op = "status"
  PROVE  /\ x.seen.session = session /\ x.seen.active = active
         /\ x.seen.kept = kept /\ x.seen.phase = phase
         /\ UNCHANGED <<active, kept, session>>
<1> DEFINE s == [NoStatus EXCEPT !.active = active, !.phase = phase,
                   !.kept = kept, !.session = session]
           y == [calls[i] EXCEPT !.at = "answered", !.ok = TRUE, !.seen = s]
<1>1. calls[i].op = "status"
  BY DEF Answer
<1>2. ReportsStatus(i)
  BY <1>1
  DEF Handles, Serves, ListsCameras, ConnectionFails, ListsRobots,
      CreatesRobot, DeletesRobot, StartsTeleop, StopsTeleop,
      StartsRecording, TakesEvent, StopsRecording, ReadsInfo,
      UploadsDataset, DeletesDataset, Begins
<1>3. calls' = Append(Rest(i), y) /\ UNCHANGED <<active, kept, session>>
  BY <1>2 DEF ReportsStatus, Answers, Rest, server, service
<1>4. /\ s.session = session /\ s.active = active /\ s.kept = kept
      /\ s.phase = phase /\ s \in Status
  BY NoStatusOK DEF Status, ServerOK
<1>5. y \in Request /\ y.seen = s
  <2> HIDE DEF s
  <2>1. calls[i] \in Request /\ calls[i] \in AnyCall
    BY Typed DEF Request
  <2> QED  BY <1>4, <2>1 DEF Request, AnyCall
<1>6. x = y
  <2> HIDE DEF s, y
  <2>1. Rest(i) \in Seq(Request) /\ x \in Request /\ y \in Request
    BY <1>5, RestFrom DEF Answer
  <2>2. calls'[Len(Rest(i)) + 1] = x
    BY <2>1, OneMoreAt
  <2>3. calls'[Len(Rest(i)) + 1] = y
    BY <1>3, <2>1, OneMoreAt
  <2> QED  BY <2>2, <2>3
<1> HIDE DEF s, y
<1> QED  BY <1>3, <1>4, <1>5, <1>6

(* What the server reports of a session that is over does not change.        *)
LEMMA EndedStep ==
  ASSUME ~Overtaking, Types, EndedInv(calls, session, active, kept),
         [Next]_vars
  PROVE  EndedInv(calls', session', active', kept')
<1>0. CallsOK /\ ServerOK /\ session \in Nat /\ kept \in Nat
  BY DEF Types, ServerOK
<1>1. Move
  BY StepMove
<1> SUFFICES ASSUME NEW k \in DOMAIN calls', Answered(calls'[k])
             PROVE  /\ calls'[k].seen.session <= session'
                    /\ calls'[k].seen.session = session'
                         /\ ~calls'[k].seen.active
                       => ~active' /\ kept' \in {0, calls'[k].seen.kept}
  BY DEF EndedInv
<1>2. ASSUME NEW j \in DOMAIN calls, calls'[k] = calls[j]
      PROVE  /\ calls'[k].seen.session <= session'
             /\ calls'[k].seen.session = session' /\ ~calls'[k].seen.active
                  => ~active' /\ kept' \in {0, calls'[k].seen.kept}
  <2> DEFINE c == calls[j]
  <2>1. /\ c.seen.session <= session
        /\ c.seen.session = session /\ ~c.seen.active =>
             ~active /\ kept \in {0, c.seen.kept}
    BY <1>2 DEF EndedInv
  <2>2. c.seen.session \in Nat
    <3>1. c \in Request
      BY <1>0, Typed
    <3> QED  BY <1>2, <3>1 DEF Answered, Request, Status
  <2>3. calls'[k] = c
    BY <1>2
  <2> HIDE DEF c
  <2>4. CASE UNCHANGED <<active, kept, session>>
    BY <2>1, <2>3, <2>4
  <2>5. CASE active /\ session' = session
    BY <2>1, <2>3, <2>5
  <2>6. CASE session' = session + 1
    BY <1>0, <2>1, <2>2, <2>3, <2>6
  <2>7. CASE active' = active /\ session' = session /\ kept' = 0
    BY <2>1, <2>3, <2>7
  <2> QED  BY <2>4, <2>5, <2>6, <2>7, ServiceStep
<1>3. ASSUME NEW i \in DOMAIN calls, NEW x, Handles(i),
             Answer(i, x), calls' = Append(Rest(i), x), calls'[k] = x
      PROVE  /\ calls'[k].seen.session <= session'
             /\ calls'[k].seen.session = session' /\ ~calls'[k].seen.active
                  => ~active' /\ kept' \in {0, calls'[k].seen.kept}
  <2>1. /\ x.seen.session = session /\ x.seen.active = active
        /\ x.seen.kept = kept /\ UNCHANGED <<active, kept, session>>
    BY <1>0, <1>3, StatusSays DEF Answered
  <2> QED  BY <1>0, <1>3, <2>1
<1>4. calls'[k].at = "answered" /\ calls'[k].op = "status"
  BY DEF Answered
<1> QED  BY <1>1, <1>2, <1>3, <1>4, MoveAnswers

(* While a page follows a session, no other begins: the recordings that were *)
(* asked for before its own have been answered.                              *)
LEMMA FreshStep ==
  ASSUME ~Overtaking, Types, LineInv, PolledInv(page, calls, mount),
         FreshInv(page, calls, mount, session), [Next]_vars
  PROVE  FreshInv(page', calls', mount', session')
<1>0. CallsOK /\ ServerOK
  BY DEF Types
<1>1. Move
  BY StepMove
<1>2. PolledInv(page', calls', mount')
  BY <1>1, MovePolled
<1> SUFFICES ASSUME page'.at = "recording", NEW k \in DOMAIN calls',
                    Answered(calls'[k]), calls'[k].mount = mount'
             PROVE  calls'[k].seen.session = session'
  BY DEF FreshInv
<1>3. page'.started
  BY <1>2 DEF PolledInv, Answered
<1>4. mount' = mount /\ page.at = "recording"
  <2>1. ASSUME NEW p \in Pages, p.at = "recording" => ~p.started,
               \/ Opens(p, calls) \/ \E i \in DOMAIN calls : Opens(p, Rest(i))
        PROVE  FALSE
    BY <1>3, <2>1 DEF Opens
  <2>2. ASSUME NEW p \in {Teleop, Landing}, Reload(p) PROVE FALSE
    BY <2>2, PagesOwn DEF Reload
  <2> QED  BY <1>1, <2>1, <2>2 DEF Move, PageStays
<1>5. ASSUME NEW j \in DOMAIN calls, calls'[k] = calls[j]
      PROVE  calls'[k].seen.session = session'
  <2>1. page.started /\ calls[j].seen.session = session
    BY <1>4, <1>5 DEF PolledInv, FreshInv, Answered
  <2>2. Flushed(page, calls, mount)
    BY <1>4, <2>1 DEF LineInv, FlushInv
  <2>3. \A i \in DOMAIN calls : ~StartsRecording(i)
    BY <1>4, <2>2 DEF Flushed, IsFirst, FirstOp, StartsRecording, Begins
  <2>4. session' = session
    BY <2>3, ServiceStep
  <2> QED  BY <1>5, <2>1, <2>4
<1>6. ASSUME NEW i \in DOMAIN calls, NEW x, Handles(i), Answer(i, x),
             calls' = Append(Rest(i), x), calls'[k] = x
      PROVE  calls'[k].seen.session = session'
  BY <1>0, <1>6, StatusSays DEF Answered
<1>7. calls'[k].at = "answered" /\ calls'[k].op = "status"
  BY DEF Answered
<1> QED  BY <1>1, <1>5, <1>6, <1>7, MoveAnswers

(* From a recording under way, only the end of a session that saved nothing  *)
(* leads home, or the way the user takes.                                    *)
LEMMA HomeFromRecording ==
  ASSUME ~Overtaking, Types, LineInv, FreshInv(page, calls, mount, session),
         EndedInv(calls, session, active, kept),
         page.at = "recording", page.started, page'.at = "landing",
         [Next]_vars
  PROVE  LeaveRecording \/ (~active /\ kept = 0)
<1>0. CallsOK /\ ServerOK /\ page \in RecordingState
  BY PageIs DEF Types, TabOK
<1>1. ASSUME NEW i \in DOMAIN calls, calls[i].at # "waiting"
      PROVE  /\ calls[i].mount = mount
             /\ calls[i].op \in {"status", "exit", "rerecord", "stop"}
  <2>1. Flushed(page, calls, mount)
    BY DEF LineInv, FlushInv
  <2>2. calls[i].mount = mount /\ calls[i].op # "record"
    BY <1>1, <2>1 DEF Flushed, IsFirst, FirstOp
  <2>3. calls[i].op \in OpsOf("recording")
    BY <1>0, <2>2, HeardHere DEF ForThisMount
  <2> QED  BY <2>2, <2>3 DEF OpsOf
<1>2. page' # page
  OBVIOUS
<1>3. CASE RecordingUser
  <2>1. \/ LeaveRecording \/ page' = page
        \/ page' = [page EXCEPT !.hoped = After(CurrentPhase)]
        \/ page' = [page EXCEPT !.confirm = TRUE]
        \/ page' = [page EXCEPT !.confirm = FALSE]
    BY <1>3
    DEF RecordingUser, ClickAdvance, ClickRerecord, AskStop, AnswerStop, tab
  <2> QED  BY <1>0, <2>1 DEF RecordingState
<1>4. ASSUME NEW i \in DOMAIN calls, Callback(i)
      PROVE  ~active /\ kept = 0
  <2>1. \/ calls[i].op = "wait" /\ WaitOver(i)
        \/ AnswerLost(i)
        \/ \E op : Arrives(i, op)
    BY <1>4
    DEF Callback, LandingCallback, TeleopCallback, RecordingCallback,
        UploadCallback, ListArrives, CreateArrives, DeleteArrives,
        TeleopStarted, CamerasArrive, WaitOver, TimerRuns, StopArrives,
        RecordArrives, StatusArrives, FollowsStatus, ExitArrives,
        ToastArrives, InfoArrives, UploadArrives, DiscardArrives
  <2>2. ~WaitOver(i) /\ ~AnswerLost(i)
    BY <1>2 DEF WaitOver, AnswerLost, tab
  <2>3. /\ calls[i].at = "answered" /\ ForThisMount(i)
        /\ calls[i].op \in {"status", "exit", "rerecord", "stop"}
    BY <1>1, <2>1, <2>2 DEF Arrives, ForThisMount
  <2>4. StatusArrives(i) \/ ExitArrives(i) \/ ToastArrives(i)
    BY <1>4, <2>2, <2>3
    DEF Callback, LandingCallback, TeleopCallback, RecordingCallback,
        UploadCallback, ListArrives, CreateArrives, DeleteArrives,
        TeleopStarted, CamerasArrive, StopArrives, RecordArrives,
        InfoArrives, UploadArrives, DiscardArrives, Arrives
  <2>5. StatusArrives(i)
    BY <1>0, <1>2, <2>4 DEF ExitArrives, ToastArrives, tab, RecordingState
  <2> DEFINE s == calls[i].seen
  <2>6. calls[i].op = "status"
    BY <2>5 DEF StatusArrives, FollowsStatus, Arrives
  <2>7. SessionEnded(s) /\ NothingSaved(s)
    <3>1. CASE ~SessionEnded(s)
      <4>1. page' = [page EXCEPT !.shown = s,
                       !.hoped = IF @ = s.phase THEN "none" ELSE @]
        BY <2>3, <2>5, <3>1 DEF StatusArrives, FollowsStatus
      <4> HIDE DEF s
      <4> QED  BY <1>0, <4>1 DEF RecordingState
    <3>2. CASE SessionEnded(s) /\ ~NothingSaved(s)
      <4>1. Opens(Upload(s.session, calls[i].arg, FALSE), Rest(i))
        BY <2>5, <3>2 DEF StatusArrives, FollowsStatus, GoesToUpload
      <4> QED  BY <4>1, PagesOwn DEF Opens
    <3> QED  BY <3>1, <3>2
  <2>8. s.session = session
    BY <2>3, <2>6 DEF FreshInv, Answered, ForThisMount
  <2> QED
    BY <2>3, <2>6, <2>7, <2>8
    DEF EndedInv, Answered, SessionEnded, NothingSaved
<1>5. ~LandingUser /\ ~TeleopUser /\ ~UploadUser /\ ~ComeBack
  BY <1>0, <1>2
  DEF LandingUser, SelectRobot, MaySelect, CreateRobot, MayCreate, Chooses,
      Calibrate, PickDataset, Pickable, DeleteRobot, DeleteOffered,
      ClickTeleop, TeleopOffered, Configure, OpenTraining, GoElsewhere,
      OpenDialog, CloseDialog, FillRecording, ClickRecord, CanRecord,
      Uncovered, OnLanding, tab,
      TeleopUser, ClickBack, LeaveTeleop, Reload, SwitchFeeds, RetryFeeds,
      Feeding, OnTeleop,
      UploadUser, ClickUpload, UploadOffered, AskDelete, LeaveUpload,
      SkipUpload, GoToTraining, TrainingOffered, AnswerDelete, DeleteAsked,
      OnUpload, ComeBack
<1>6. ~Server /\ ~Browser /\ ~\E k \in {0, 1} : DeviceChanges(k)
  <2>1. ~\E k \in {0, 1} : DeviceChanges(k)
    BY <1>2 DEF DeviceChanges, tab
  <2>2. ~Browser
    BY <1>2
    DEF Browser, Streams, StreamComes, StreamRefused, RetryStream,
        NoticeShows, Poll, tab
  <2>3. ~SessionGoesOn /\ ~TeleopBreaks
    BY <1>2 DEF SessionGoesOn, TeleopBreaks, tab
  <2>4. \A i \in DOMAIN calls : ~Handles(i)
    BY <1>2, ServesAnswer DEF tab
  <2> QED  BY <2>1, <2>2, <2>3, <2>4 DEF Server, Handles
<1>7. ~UNCHANGED vars
  BY <1>2 DEF vars, tab
<1> QED  BY <1>3, <1>4, <1>5, <1>6, <1>7 DEF Next, User

(* Nobody is sent home from a recording under way, or from one that saved an *)
(* episode: the answers to earlier pages have all come when a recording has  *)
(* started, and the status that leads home is the last word on its session.  *)
THEOREM NobodyIsBounced ==
  ASSUME ~Overtaking
  PROVE  Spec => NotBounced
<1> DEFINE HI == /\ PolledInv(page, calls, mount)
                 /\ FreshInv(page, calls, mount, session)
                 /\ EndedInv(calls, session, active, kept)
<1>1. Init => HI
  <2> SUFFICES ASSUME Init PROVE HI
    OBVIOUS
  <2>1. page.at = "landing" /\ calls = <<Call("list", NoRobot, 1)>>
    BY DEF Init
  <2>2. \A i \in DOMAIN calls : calls[i].op = "list"
    BY <2>1 DEF Call
  <2> QED  BY <2>1, <2>2 DEF PolledInv, FreshInv, EndedInv, Answered
<1>2. Types /\ LineInv /\ HI /\ [Next]_vars => HI'
  BY StepMove, MovePolled, FreshStep, EndedStep
<1>3. Types /\ LineInv /\ HI /\ [Next]_vars =>
        [page.at = "recording" /\ page.started /\ OnLanding'
           /\ ~LeaveRecording => ~active /\ kept = 0]_vars
  BY HomeFromRecording DEF OnLanding
<1> HIDE DEF HI
<1> QED
  BY <1>1, <1>2, <1>3, TypesCorrect, LineInOrder, SessionKept, PTL
  DEF Spec, NotBounced

-----------------------------------------------------------------------------
(* The cameras, from the click on "Start Recording" to the session.          *)

(* Requests for op are under way; nothing but ops is; one at most is for op. *)
Has(cs, op) == \E i \in DOMAIN cs : cs[i].op = op
OnlyHas(cs, ops) == \A i \in DOMAIN cs : cs[i].op \in ops
Single(cs, op) ==
  \A i, j \in DOMAIN cs : cs[i].op = op /\ cs[j].op = op => i = j

(* What a pause leaves alone.                                                *)
Quiet == {"wait", "list", "info"}

(* If the newest list of cameras has the camera (l), a pause remembers its   *)
(* index, and so does a list that has it.                                    *)
SeenInv(cs, k, l) ==
  \A i \in DOMAIN cs :
    /\ cs[i].op = "wait" /\ l => cs[i].arg = k
    /\ cs[i].op = "cameras" /\ cs[i].at = "answered" /\ cs[i].ok =>
         cs[i].arg = k
(* During a pause a patient user does nothing that sends a request; the page *)
(* that opens may be led on by the status of a session.                      *)
PauseInv(p, cs) ==
  Has(cs, "wait") =>
    \/ p.at = "landing" /\ OnlyHas(cs, Quiet)
    \/ /\ p.at = "recording" /\ ~p.confirm /\ Single(cs, "status")
       /\ OnlyHas(cs, Quiet \cup {"record", "status"})
    \/ p.at = "upload" /\ ~p.confirm /\ OnlyHas(cs, Quiet)
(* The dialog knows the index, or is about to hear of it.                    *)
DialogInv(p, cs, m, k, l) ==
  p.at = "landing" /\ p.dialog # "closed" =>
    /\ \A i \in DOMAIN cs :
         cs[i].op = "wait" \/ (cs[i].op = "cameras" /\ cs[i].mount = m)
    /\ Has(cs, "cameras") \/ (l => p.index = k)
(* The request for a session is the recording page's own.                    *)
AskedInv(p, cs, m, k, l) ==
  /\ \A i \in DOMAIN cs : cs[i].op = "record" =>
       /\ p.at = "recording" /\ ~p.started /\ ~p.confirm
       /\ cs[i].mount = m /\ (l => cs[i].arg = k)
  /\ Has(cs, "record") => OnlyHas(cs, Quiet \cup {"record"})
  /\ Single(cs, "record")
HandInv(p, cs, m, k, l) ==
  /\ SeenInv(cs, k, l) /\ PauseInv(p, cs) /\ DialogInv(p, cs, m, k, l)
  /\ AskedInv(p, cs, m, k, l)

(* Knowing less does no harm.                                                *)
LEMMA HandForgets ==
  ASSUME NEW p, NEW cs, NEW m, NEW k, NEW l, NEW h,
         HandInv(p, cs, m, k, l), h => l
  PROVE  HandInv(p, cs, m, k, h)
<1>1. SeenInv(cs, k, h)
  BY DEF HandInv, SeenInv
<1>2. DialogInv(p, cs, m, k, h)
  BY DEF HandInv, DialogInv
<1>3. AskedInv(p, cs, m, k, h)
  BY DEF HandInv, AskedInv
<1> QED  BY <1>1, <1>2, <1>3 DEF HandInv

(* A change of the page that does not matter here.                           *)
SameView(p, q, cs) ==
  /\ q.at = p.at
  /\ p.at = "landing" /\ q.dialog # "closed" =>
       p.dialog # "closed" /\ (q.index = p.index \/ Has(cs, "cameras"))
  /\ p.at = "recording" => q.started = p.started /\ (q.confirm => p.confirm)
  /\ p.at = "upload" /\ Has(cs, "wait") => (q.confirm => p.confirm)

(* The rest of a page's state does not matter, ...                           *)
LEMMA HandView ==
  ASSUME NEW p, NEW q, NEW cs, NEW m, NEW k, NEW l,
         HandInv(p, cs, m, k, l), SameView(p, q, cs)
  PROVE  HandInv(q, cs, m, k, l)
<1>1. PauseInv(q, cs)
  BY DEF HandInv, SameView, PauseInv
<1>2. DialogInv(q, cs, m, k, l)
  BY DEF HandInv, SameView, DialogInv
<1>3. AskedInv(q, cs, m, k, l)
  BY DEF HandInv, SameView, AskedInv
<1> QED  BY <1>1, <1>2, <1>3 DEF HandInv

(* Something else than the request for a session has ended.                  *)
LEMMA HandRest ==
  ASSUME CallsOK, NEW i \in DOMAIN calls, NEW p, NEW m, NEW k, NEW l,
         HandInv(p, calls, m, k, l), calls[i].op # "record",
         p.at = "landing" /\ p.dialog # "closed" /\ calls[i].op = "cameras"
           => (l => p.index = k)
  PROVE  HandInv(p, Rest(i), m, k, l)
<1>1. PICK f :
        /\ \A a \in DOMAIN Rest(i) :
             f[a] \in DOMAIN calls /\ f[a] # i /\ Rest(i)[a] = calls[f[a]]
        /\ \A a, b \in DOMAIN Rest(i) : a < b => f[a] < f[b]
        /\ \A j \in DOMAIN calls : j # i => \E a \in DOMAIN Rest(i) : f[a] = j
        /\ \A a, b \in DOMAIN Rest(i) : f[a] = f[b] => a = b
  BY RestFrom
<1>2. \A op : op # calls[i].op => (Has(Rest(i), op) <=> Has(calls, op))
  BY <1>1 DEF Has
<1>3. \A op : Has(Rest(i), op) => Has(calls, op)
  BY <1>1 DEF Has
<1>4. \A ops : OnlyHas(calls, ops) => OnlyHas(Rest(i), ops)
  BY <1>1 DEF OnlyHas
<1>5. \A op : Single(calls, op) => Single(Rest(i), op)
  BY <1>1 DEF Single
<1>6. SeenInv(Rest(i), k, l)
  BY <1>1 DEF HandInv, SeenInv
<1>7. PauseInv(p, Rest(i))
  BY <1>3, <1>4, <1>5 DEF HandInv, PauseInv
<1>8. DialogInv(p, Rest(i), m, k, l)
  BY <1>1, <1>2 DEF HandInv, DialogInv
<1>9. AskedInv(p, Rest(i), m, k, l)
  BY <1>1, <1>3, <1>4, <1>5 DEF HandInv, AskedInv
<1> QED  BY <1>6, <1>7, <1>8, <1>9 DEF HandInv

(* A request is sent, of the kinds that are in nobody's way.                 *)
LEMMA HandMore ==
  ASSUME NEW cs \in Seq(Request), NEW x \in Request,
         NEW p, NEW m, NEW k, NEW l, HandInv(p, cs, m, k, l),
         x.op \notin {"record", "wait"}, x.at = "sent",
         Has(cs, "wait") => p.at = "recording" /\ x.op = "status",
         ~Has(cs, "record"),
         p.at = "landing" /\ p.dialog # "closed" =>
           x.op = "cameras" /\ x.mount = m,
         x.op = "status" => ~Has(cs, "status")
  PROVE  HandInv(p, Append(cs, x), m, k, l)
<1> DEFINE t == Append(cs, x)
           e == Len(cs) + 1
<1>1. /\ DOMAIN t = DOMAIN cs \cup {e} /\ e \in Int /\ DOMAIN cs \subseteq Int
      /\ t[e] = x /\ \A j \in DOMAIN cs : t[j] = cs[j] /\ j < e
  BY OneMoreAt
<1> HIDE DEF t, e
<1>2. \A op : Has(t, op) <=> (Has(cs, op) \/ x.op = op)
  BY <1>1 DEF Has
<1>3. \A ops : OnlyHas(t, ops) <=> (OnlyHas(cs, ops) /\ x.op \in ops)
  BY <1>1 DEF OnlyHas
<1>4. \A op : Single(cs, op) /\ (x.op = op => ~Has(cs, op)) => Single(t, op)
  BY <1>1 DEF Single, Has
<1>5. SeenInv(t, k, l)
  BY <1>1 DEF HandInv, SeenInv
<1>6. PauseInv(p, t)
  BY <1>2, <1>3, <1>4 DEF HandInv, PauseInv
<1>7. DialogInv(p, t, m, k, l)
  BY <1>1, <1>2 DEF HandInv, DialogInv
<1>8. AskedInv(p, t, m, k, l)
  BY <1>1, <1>2, <1>4 DEF HandInv, AskedInv
<1>9. HandInv(p, t, m, k, l)
  BY <1>5, <1>6, <1>7, <1>8 DEF HandInv
<1> QED  BY <1>9 DEF t

(* The server answers.                                                       *)
LEMMA HandAnswer ==
  ASSUME CallsOK, WaitsInv(calls), NEW i \in DOMAIN calls, NEW x,
         Answer(i, x), NEW p, NEW m, NEW k, NEW l,
         HandInv(p, calls, m, k, l),
         x.op = "cameras" /\ x.ok => x.arg = k
  PROVE  HandInv(p, Append(Rest(i), x), m, k, l)
<1>0. /\ x \in Request /\ Rest(i) \in Seq(Request)
      /\ x.at = "answered" /\ x.op = calls[i].op /\ x.mount = calls[i].mount
      /\ x.op # "cameras" => x.arg = calls[i].arg
      /\ x.op # "wait" /\ calls[i].at = "sent"
  BY RestFrom DEF Answer, WaitsInv
<1>1. PICK f :
        /\ \A a \in DOMAIN Rest(i) :
             f[a] \in DOMAIN calls /\ f[a] # i /\ Rest(i)[a] = calls[f[a]]
        /\ \A a, b \in DOMAIN Rest(i) : a < b => f[a] < f[b]
        /\ \A j \in DOMAIN calls : j # i => \E a \in DOMAIN Rest(i) : f[a] = j
        /\ \A a, b \in DOMAIN Rest(i) : f[a] = f[b] => a = b
  BY RestFrom
<1> DEFINE t == Append(Rest(i), x)
           e == Len(Rest(i)) + 1
<1>2. /\ DOMAIN t = DOMAIN Rest(i) \cup {e} /\ t[e] = x
      /\ \A j \in DOMAIN Rest(i) : t[j] = Rest(i)[j] /\ j # e
  BY <1>0, OneMoreAt
<1> HIDE DEF t, e
<1> DEFINE g == [j \in DOMAIN t |-> IF j = e THEN i ELSE f[j]]
<1>3. /\ \A j \in DOMAIN t : /\ g[j] \in DOMAIN calls
                             /\ j = e \/ t[j] = calls[g[j]]
                             /\ t[j].op = calls[g[j]].op
      /\ \A j \in DOMAIN calls : \E h \in DOMAIN t : g[h] = j
      /\ \A h, j \in DOMAIN t : g[h] = g[j] => h = j
  <2>1. \A j \in DOMAIN t : /\ g[j] \in DOMAIN calls
                            /\ j = e \/ t[j] = calls[g[j]]
                            /\ t[j].op = calls[g[j]].op
    BY <1>0, <1>1, <1>2
  <2>2. \A j \in DOMAIN calls : \E h \in DOMAIN t : g[h] = j
    BY <1>1, <1>2
  <2>3. \A h, j \in DOMAIN t : g[h] = g[j] => h = j
    BY <1>1, <1>2
  <2> QED  BY <2>1, <2>2, <2>3
<1> HIDE DEF g
<1>4. \A op : Has(t, op) <=> Has(calls, op)
  BY <1>3 DEF Has
<1>5. \A ops : OnlyHas(calls, ops) => OnlyHas(t, ops)
  BY <1>3 DEF OnlyHas
<1>6. \A op : Single(calls, op) => Single(t, op)
  BY <1>3 DEF Single
<1>7. SeenInv(t, k, l)
  BY <1>0, <1>2, <1>3 DEF HandInv, SeenInv
<1>8. PauseInv(p, t)
  BY <1>4, <1>5, <1>6 DEF HandInv, PauseInv
<1>9. DialogInv(p, t, m, k, l)
  BY <1>0, <1>2, <1>3, <1>4 DEF HandInv, DialogInv
<1>10. AskedInv(p, t, m, k, l)
  <2>1. \A j \in DOMAIN t : t[j].op = "record" =>
          /\ t[j].mount = calls[g[j]].mount /\ t[j].arg = calls[g[j]].arg
          /\ calls[g[j]].op = "record"
    <3>1. g[e] = i
      BY <1>2 DEF g
    <3> QED  BY <1>0, <1>2, <1>3, <3>1
  <2> QED  BY <1>3, <1>4, <1>5, <1>6, <2>1 DEF HandInv, AskedInv
<1>11. HandInv(p, t, m, k, l)
  BY <1>7, <1>8, <1>9, <1>10 DEF HandInv
<1> QED  BY <1>11 DEF t

(* Another page is mounted.                                                  *)
LEMMA HandLine ==
  ASSUME NEW p \in Pages, NEW m, NEW u, NEW cs, NEW k, NEW l,
         Line(p, m, u, cs), SeenInv(u, k, l), ~Has(u, "record"),
         p.at = "landing" => p.dialog = "closed",
         p.at = "recording" =>
           ~p.started /\ ~p.confirm /\ (l => p.index = k),
         p.at = "upload" /\ Has(u, "wait") => ~p.confirm,
         p.at = "recording" \/ Has(u, "wait") =>
           /\ p.at \in {"landing", "recording", "upload"}
           /\ OnlyHas(u, Quiet)
  PROVE  HandInv(p, cs, m, k, l)
<1>0. u \in Seq(Request)
  BY DEF Line
<1>1. CASE p.at \in {"teleop", "elsewhere"} /\ cs = u
  BY <1>1
  DEF HandInv, PauseInv, DialogInv, AskedInv, Has, Single
<1>2. ASSUME NEW x \in Request, FirstCall(p, m, x), cs = Append(u, x)
      PROVE  HandInv(p, cs, m, k, l)
  <2> DEFINE e == Len(u) + 1
  <2>1. /\ DOMAIN cs = DOMAIN u \cup {e} /\ e \in Int /\ DOMAIN u \subseteq Int
        /\ cs[e] = x /\ \A j \in DOMAIN u : cs[j] = u[j] /\ j < e
    BY <1>0, <1>2, OneMoreAt
  <2> HIDE DEF e
  <2>2. /\ x.at = "sent" /\ x.mount = m
        /\ \/ p.at = "landing" /\ x.op = "list"
           \/ p.at = "recording" /\ x.op = "record" /\ x.arg = p.index
           \/ p.at = "upload" /\ x.op = "info"
    BY <1>2 DEF FirstCall, Call
  <2>3. \A op : Has(cs, op) <=> (Has(u, op) \/ x.op = op)
    BY <2>1 DEF Has
  <2>4. \A ops : OnlyHas(cs, ops) <=> (OnlyHas(u, ops) /\ x.op \in ops)
    BY <2>1 DEF OnlyHas
  <2>5. SeenInv(cs, k, l)
    BY <2>1, <2>2 DEF SeenInv
  <2>6. PauseInv(p, cs)
    <3>1. CASE Has(u, "wait") /\ p.at \in {"landing", "upload"}
      BY <2>2, <2>3, <2>4, <3>1 DEF PauseInv, Quiet
    <3>2. CASE p.at = "recording"
      <4>1. Single(cs, "status")
        BY <2>1, <2>2, <3>2 DEF Single, OnlyHas, Quiet
      <4>2. \A j \in DOMAIN cs :
              cs[j].op \in Quiet \cup {"record", "status"}
        BY <2>1, <2>2, <3>2 DEF OnlyHas
      <4> QED  BY <3>2, <4>1, <4>2 DEF PauseInv, OnlyHas
    <3>3. CASE ~Has(u, "wait") /\ p.at # "recording"
      BY <2>2, <2>3, <3>3 DEF PauseInv
    <3> QED  BY <3>1, <3>2, <3>3
  <2>7. DialogInv(p, cs, m, k, l)
    BY DEF DialogInv
  <2>8. AskedInv(p, cs, m, k, l)
    <3>1. \A j \in DOMAIN cs : cs[j].op = "record" =>
            j = e /\ x.op = "record"
      BY <2>1 DEF Has
    <3>2. x.op = "record" => OnlyHas(cs, Quiet \cup {"record"})
      BY <2>1, <2>2 DEF OnlyHas
    <3> QED  BY <2>1, <2>2, <3>1, <3>2 DEF AskedInv, Has, Single
  <2> QED  BY <2>5, <2>6, <2>7, <2>8 DEF HandInv
<1> QED  BY <1>1, <1>2 DEF Line

(* A page that is mounted: no request for a session is left but its own.     *)
LEMMA HandOpens ==
  ASSUME TabOK, NEW p \in Pages, NEW cs \in Seq(Request), Opens(p, cs),
         NEW k, NEW l, SeenInv(cs, k, l), ~Has(cs, "record"),
         p.at = "landing" => p = Landing,
         p.at = "recording" =>
           \E j \in {0, 1} : p = Recording(j) /\ (l => j = k),
         p.at = "upload" /\ Has(cs, "wait") => ~p.confirm,
         p.at = "recording" \/ Has(cs, "wait") =>
           /\ page.at # "teleop"
           /\ p.at \in {"landing", "recording", "upload"}
           /\ OnlyHas(cs, Quiet)
  PROVE  HandInv(page', calls', mount', k, l)
<1> DEFINE u == Unmounted(cs)
<1>1. page' = p /\ Line(p, mount', u, calls')
  BY OpensLine
<1>2. \A j \in DOMAIN u :
        \/ j \in DOMAIN cs /\ u[j] = cs[j]
        \/ u[j].op = "stop-teleop" /\ page.at = "teleop"
  BY UnmountedElements
<1> HIDE DEF u
<1>3. SeenInv(u, k, l) /\ ~Has(u, "record")
  BY <1>2 DEF SeenInv, Has
<1>4. Has(u, "wait") => Has(cs, "wait")
  BY <1>2 DEF Has
<1>5. page.at # "teleop" /\ OnlyHas(cs, Quiet) =>
        OnlyHas(u, Quiet)
  BY <1>2 DEF OnlyHas
<1>6. /\ p.at = "landing" => p.dialog = "closed"
      /\ p.at = "recording" =>
           ~p.started /\ ~p.confirm /\ (l => p.index = k)
  BY DEF Landing, Recording
<1>7. p.at = "recording" \/ Has(u, "wait") =>
        p.at \in {"landing", "recording", "upload"} /\ OnlyHas(u, Quiet)
  BY <1>4, <1>5
<1> QED  BY <1>1, <1>3, <1>4, <1>6, <1>7, HandLine

(* The steps of the pages.  First what they share.                           *)
HandNow == HandInv(page, calls, mount, index, listed)
HandNext == HandInv(page', calls', mount', index', listed')

(* A patient user waits for all of these, ...                                *)
LEMMA NothingHeld ==
  ASSUME Patient, Settled
  PROVE  /\ OnlyHas(calls, {"status"})
         /\ ~Has(calls, "wait") /\ ~Has(calls, "record")
BY DEF Settled, OnlyHas, Has

(* ... and most of the others cannot be under way with them.                 *)
LEMMA HeldApart ==
  ASSUME HandNow, NEW i \in DOMAIN calls,
         calls[i].op \notin Quiet \cup {"record", "status"}
  PROVE  ~Has(calls, "wait") /\ ~Has(calls, "record")
<1>1. \A ops : OnlyHas(calls, ops) => calls[i].op \in ops
  BY DEF OnlyHas
<1>2. ~Has(calls, "wait")
  BY <1>1 DEF HandNow, HandInv, PauseInv
<1>3. ~Has(calls, "record")
  BY <1>1 DEF HandNow, HandInv, AskedInv
<1> QED  BY <1>2, <1>3

(* Steps that leave the requests, ...                                        *)
LEMMA HandStays ==
  ASSUME HandNow, calls' = calls, mount' = mount, index' = index,
         listed' = listed, SameView(page, page', calls)
  PROVE  HandNext
BY HandView DEF HandNow, HandNext

(* ... that end one which is neither a start nor a list of cameras, ...      *)
LEMMA HandHeard ==
  ASSUME CallsOK, HandNow, NEW i \in DOMAIN calls,
         calls[i].op \notin {"record", "cameras"}, calls' = Rest(i),
         mount' = mount, index' = index, listed' = listed,
         SameView(page, page', calls)
  PROVE  HandNext
<1>1. HandInv(page', calls, mount, index, listed)
  BY HandView DEF HandNow
<1> QED  BY <1>1, HandRest DEF HandNext

(* ... or send one where no session is being asked for.                      *)
LEMMA HandSends ==
  ASSUME Types, HandNow, NEW op \in OpsOf(page.at), NEW arg \in Args(op),
         calls' = Sent(op, arg), mount' = mount, index' = index,
         listed' = listed, SameView(page, page', calls),
         ~Has(calls, "record"), op \notin {"record", "wait"},
         op = "status" \/ ~Has(calls, "wait"),
         op = "status" => ~Has(calls, "status"),
         page.at = "landing" => page.dialog = "closed"
  PROVE  HandNext
<1> DEFINE x == Call(op, arg, mount)
<1>1. op \in Ops /\ mount \in Nat /\ calls \in Seq(Request)
  BY CallsTyped DEF OpsOf, Ops, Types, TabOK
<1>2. x \in Request /\ x.op = op /\ x.mount = mount /\ x.at = "sent"
  <2>1. x \in Request
    BY <1>1, CallOK
  <2> QED  BY <2>1 DEF Call
<1>3. calls' = Append(calls, x)
  BY DEF Sent
<1> HIDE DEF x
<1>4. HandInv(page', calls, mount, index, listed)
  BY HandView DEF HandNow
<1>5. op = "status" => page'.at = "recording"
  BY DEF OpsOf, SameView
<1>6. page'.at = "landing" => page'.dialog = "closed"
  BY DEF SameView
<1> QED  BY <1>1, <1>2, <1>3, <1>4, <1>5, <1>6, HandMore DEF HandNext

(* Another page, when none of these is under way.                            *)
LEMMA HandGoes ==
  ASSUME Types, HandNow, NEW p \in Pages, p.at # "recording",
         p.at = "landing" => p = Landing,
         \/ Opens(p, calls)
         \/ \E i \in DOMAIN calls : Opens(p, Rest(i)),
         ~Has(calls, "wait"), ~Has(calls, "record"),
         index' = index, listed' = listed
  PROVE  HandNext
<1>0. TabOK /\ CallsOK /\ calls \in Seq(Request)
  BY CallsTyped DEF Types
<1>1. \A i \in DOMAIN calls :
        /\ Rest(i) \in Seq(Request)
        /\ \A k \in DOMAIN Rest(i) :
             \E j \in DOMAIN calls : Rest(i)[k] = calls[j]
  BY <1>0, RestIn
<1>2. PICK cs \in Seq(Request) :
        /\ Opens(p, cs)
        /\ \A k \in DOMAIN cs : \E j \in DOMAIN calls : cs[k] = calls[j]
  BY <1>0, <1>1
<1>3. ~Has(cs, "wait") /\ ~Has(cs, "record")
  BY <1>2 DEF Has
<1>4. SeenInv(cs, index, listed)
  BY <1>2 DEF HandNow, HandInv, SeenInv
<1>5. HandInv(page', calls', mount', index, listed)
  BY <1>0, <1>2, <1>3, <1>4, HandOpens
<1> QED  BY <1>5 DEF HandNext

(* An answer leads home when neither a pause nor a start is pending.         *)
LEMMA HandHome ==
  ASSUME Types, HandNow, NEW i \in DOMAIN calls,
         calls[i].op \notin Quiet \cup {"record", "status", "cameras"},
         GoesHome(Rest(i)), index' = index, listed' = listed
  PROVE  HandNext
<1>0. CallsOK /\ ~Has(calls, "wait") /\ ~Has(calls, "record")
      /\ Landing \in Pages /\ Landing.at = "landing"
  BY HeldApart, PagesOK, PagesOwn DEF Types, TabOK
<1>1. CASE page.at = "landing"
  BY <1>0, <1>1, HandHeard DEF GoesHome, SameView
<1>2. CASE page.at # "landing"
  BY <1>0, <1>2, HandGoes DEF GoesHome
<1> QED  BY <1>1, <1>2

(* The landing page, and the pause that leads to the recording page.         *)
LEMMA LandingHand ==
  ASSUME ~Overtaking, Patient, Types, LineInv, HandNow,
         LandingUser \/ \E i \in DOMAIN calls : LandingCallback(i)
  PROVE  HandNext
<1>0. /\ TabOK /\ CallsOK /\ ServerOK /\ page \in Pages
      /\ calls \in Seq(Request) /\ mount \in Nat /\ session \in Nat
  BY CallsTyped DEF Types, TabOK, ServerOK
<1>1. ASSUME \/ \E r \in Robots : SelectRobot(r)
             \/ CloseDialog \/ FillRecording
      PROVE  HandNext
  <2>1. page \in LandingState /\ page.at = "landing"
    BY <1>0, <1>1, PageIs
    DEF SelectRobot, MaySelect, Chooses, Uncovered, CloseDialog,
        FillRecording, OnLanding
  <2>2. SameView(page, page', calls)
    <3>1. CASE \E r \in Robots : SelectRobot(r)
      BY <2>1, <3>1
      DEF SelectRobot, MaySelect, Chooses, Uncovered, LandingState, SameView
    <3>2. CASE CloseDialog
      BY <2>1, <3>2 DEF CloseDialog, LandingState, SameView
    <3>3. CASE FillRecording
      BY <2>1, <3>3 DEF FillRecording, LandingState, SameView
    <3> QED  BY <1>1, <3>1, <3>2, <3>3
  <2>3. /\ calls' = calls /\ mount' = mount /\ index' = index
        /\ listed' = listed
    BY <1>1
    DEF SelectRobot, CloseDialog, FillRecording, server, cameras
  <2> QED  BY <2>2, <2>3, HandStays
<1>2. ASSUME NEW op \in {"create", "delete", "move-arm"},
             NEW arg \in Robots, page.at = "landing",
             page.dialog = "closed", Settled, Sends(op, arg),
             UNCHANGED <<server, tab, cameras>>
      PROVE  HandNext
  <2>1. op \in OpsOf(page.at) /\ arg \in Args(op)
    BY <1>2 DEF OpsOf, Args
  <2>2. /\ calls' = Sent(op, arg) /\ mount' = mount /\ index' = index
        /\ listed' = listed /\ SameView(page, page', calls)
    BY <1>2 DEF Sends, server, tab, cameras, SameView
  <2>3. ~Has(calls, "wait") /\ ~Has(calls, "record")
    BY <1>2, NothingHeld
  <2> QED  BY <1>2, <2>1, <2>2, <2>3, HandSends
<1>3. ASSUME NEW r \in Robots, CreateRobot(r) PROVE HandNext
  BY <1>2, <1>3
  DEF CreateRobot, MayCreate, Chooses, Uncovered, OnLanding
<1>4. ASSUME DeleteRobot \/ ClickTeleop PROVE HandNext
  <2>1. /\ page.at = "landing" /\ page.dialog = "closed" /\ Known /\ Settled
        /\ UNCHANGED <<server, tab, cameras>>
        /\ \E op \in {"create", "delete", "move-arm"} :
             Sends(op, page.selected)
    BY <1>4
    DEF DeleteRobot, DeleteOffered, ClickTeleop, TeleopOffered, Clean,
        Uncovered, OnLanding
  <2>2. page.selected \in Robots
    <3>1. page \in LandingState
      BY <1>0, <2>1, PageIs
    <3> QED  BY <2>1, <3>1 DEF Known, LandingState, Names
  <2> QED  BY <1>2, <2>1, <2>2
<1>5. ASSUME NEW r \in Robots, Calibrate(r) PROVE HandNext
  BY <1>5, HandStays DEF Calibrate, tab, cameras, SameView
<1>6. ASSUME \/ \E d \in disk, onHub \in BOOLEAN : PickDataset(d, onHub)
             \/ GoElsewhere
      PROVE  HandNext
  <2>1. \E p \in Pages :
          p.at \notin {"landing", "recording"} /\ Opens(p, calls)
    BY <1>0, <1>6, PagesOK, PagesOwn DEF PickDataset, GoElsewhere, ServerOK
  <2>2. Settled /\ index' = index /\ listed' = listed
    BY <1>6 DEF PickDataset, GoElsewhere, server
  <2> QED  BY <2>1, <2>2, NothingHeld, HandGoes
<1>7. ASSUME OpenDialog PROVE HandNext
  <2> DEFINE x == Call("cameras", 0, mount)
  <2>1. page \in LandingState /\ page.at = "landing"
    BY <1>0, <1>7, PageIs DEF OpenDialog, Uncovered, OnLanding
  <2>2. /\ mount' = mount /\ index' = index /\ listed' = FALSE
        /\ calls' = Append(calls, x) /\ Settled
        /\ page' = [page EXCEPT !.dialog = "open", !.index = 0]
    BY <1>7 DEF OpenDialog, Sends, Sent, server
  <2>3. x \in Request /\ x.op = "cameras" /\ x.mount = mount /\ x.at = "sent"
    <3>1. x \in Request
      BY <1>0, CallOK DEF Ops, Args
    <3> QED  BY <3>1 DEF Call
  <2> HIDE DEF x
  <2>4. page'.at = "landing"
    BY <2>1, <2>2 DEF LandingState
  <2>5. DOMAIN calls = {}
    <3>1. \A j \in DOMAIN calls : calls[j].op = "status"
      BY <2>2, NothingHeld DEF OnlyHas
    <3>2. \A j \in DOMAIN calls :
            ~IsFirst(page, calls[j], mount) /\ calls[j].at # "waiting"
      BY <2>1, <3>1 DEF IsFirst, FirstOp, LineInv, WaitsInv
    <3>3. Flushed(page, calls, mount)
      BY <2>1, <3>2 DEF LineInv, FlushInv, FirstAt
    <3>4. \A j \in DOMAIN calls : calls[j].op \in OpsOf("landing")
      BY <1>0, <2>1, <3>2, <3>3, HeardHere DEF Flushed, ForThisMount
    <3> QED  BY <3>1, <3>4 DEF OpsOf
  <2>6. DOMAIN calls' = {Len(calls) + 1} /\ calls'[Len(calls) + 1] = x
    BY <1>0, <2>2, <2>3, <2>5, OneMoreAt
  <2> QED
    BY <2>2, <2>3, <2>4, <2>6
    DEF HandNext, HandInv, SeenInv, PauseInv, DialogInv, AskedInv, Has, OnlyHas, Single
<1>8. ASSUME ClickRecord PROVE HandNext
  <2>1. page \in LandingState /\ page.at = "landing" /\ page.dialog # "closed"
    BY <1>0, <1>8, PageIs DEF ClickRecord, CanRecord, OnLanding
  <2>2. /\ mount' = mount /\ index' = index /\ listed' = listed
        /\ calls' = Append(calls, Pause)
        /\ page' = [page EXCEPT !.dialog = "paused"]
        /\ ~Has(calls, "cameras")
    BY <1>8 DEF ClickRecord, server, Has, Pending
  <2>3. Pause \in Request
    <3>1. Call("wait", page.index, mount) \in Request
      BY <1>0, <2>1, CallOK DEF Ops, Args, LandingState
    <3>2. [NoStatus EXCEPT !.session = session] \in Status
      BY <1>0, NoStatusOK DEF Status
    <3> QED  BY <3>1, <3>2 DEF Pause, Request, AnyCall
  <2>4. Pause.op = "wait" /\ Pause.at = "waiting" /\ Pause.arg = page.index
    BY DEF Pause, Call
  <2>5. /\ page'.at = "landing" /\ page'.dialog = "paused"
        /\ page'.index = page.index
    BY <2>1, <2>2 DEF LandingState
  <2>6. (listed => page.index = index) /\ \A j \in DOMAIN calls : calls[j].op = "wait"
    BY <2>1, <2>2 DEF HandNow, HandInv, DialogInv, Has
  <2> DEFINE e == Len(calls) + 1
  <2>7. /\ DOMAIN calls' = DOMAIN calls \cup {e} /\ calls'[e] = Pause
        /\ \A j \in DOMAIN calls : calls'[j] = calls[j]
    BY <1>0, <2>2, <2>3, OneMoreAt
  <2> HIDE DEF e
  <2>8. SeenInv(calls', index, listed)
    BY <2>4, <2>6, <2>7 DEF HandNow, HandInv, SeenInv
  <2>9. \A j \in DOMAIN calls' : calls'[j].op = "wait"
    BY <2>4, <2>6, <2>7
  <2> QED
    BY <2>2, <2>5, <2>6, <2>8, <2>9
    DEF HandNext, HandInv, PauseInv, DialogInv, AskedInv, Has, OnlyHas,
        Single, Quiet
<1>9. ASSUME NEW i \in DOMAIN calls, TeleopStarted(i) PROVE HandNext
  <2>1. calls[i].op = "move-arm" /\ index' = index /\ listed' = listed
    BY <1>9 DEF TeleopStarted, Arrives, server
  <2>2. CASE Opens(Teleop, Rest(i))
    BY <2>1, <2>2, PagesOK, PagesOwn, HeldApart, HandGoes DEF Quiet
  <2>3. CASE calls' = Rest(i) /\ mount' = mount /\ page' = page
    BY <1>0, <2>1, <2>3, HandHeard DEF SameView
  <2> QED  BY <1>9, <2>2, <2>3 DEF TeleopStarted
<1>10. ASSUME NEW i \in DOMAIN calls, WaitOver(i) PROVE HandNext
  <2>1. /\ calls[i].op = "wait" /\ index' = index /\ listed' = listed
        /\ listed => calls[i].arg = index
        /\ Has(calls, "wait")
    BY <1>10
    DEF WaitOver, TimerRuns, server, HandNow, HandInv, SeenInv, Has
  <2>2. CASE page.at = "recording"
    BY <1>0, <1>10, <2>1, <2>2, HandHeard DEF WaitOver, SameView
  <2>3. CASE page.at # "recording"
    <3>1. page.at \in {"landing", "upload"} /\ OnlyHas(calls, Quiet)
      BY <2>1, <2>3 DEF HandNow, HandInv, PauseInv
    <3>2. calls[i].arg \in {0, 1}
      BY <1>0, <2>1, Typed DEF Request, Args
    <3>3. \E j \in {0, 1} :
            /\ Opens(Recording(j), Rest(i)) /\ Recording(j) \in Pages
            /\ Recording(j).at = "recording" /\ (listed => j = index)
      BY <1>10, <2>1, <2>3, <3>2, PagesOK, PagesOwn DEF WaitOver, Types
    <3>4. PICK f : \A k \in DOMAIN Rest(i) :
            f[k] \in DOMAIN calls /\ Rest(i)[k] = calls[f[k]]
      BY <1>0, RestFrom
    <3>5. /\ SeenInv(Rest(i), index, listed)
          /\ OnlyHas(Rest(i), Quiet) /\ ~Has(Rest(i), "record")
      BY <3>1, <3>4 DEF HandNow, HandInv, SeenInv, OnlyHas, Has, Quiet
    <3>6. Rest(i) \in Seq(Request)
      BY <1>0, RestFrom
    <3> QED  BY <1>0, <2>1, <3>1, <3>3, <3>5, <3>6, HandOpens DEF HandNext
  <2> QED  BY <2>2, <2>3
<1>11. ASSUME NEW i \in DOMAIN calls,
              \/ ListArrives(i) \/ CreateArrives(i) \/ DeleteArrives(i)
              \/ CamerasArrive(i)
       PROVE  /\ calls[i].op \in {"list", "create", "delete", "cameras"}
              /\ calls' = Rest(i) /\ mount' = mount /\ index' = index
              /\ calls[i].op # "cameras" => listed' = listed
              /\ \E op : Arrives(i, op)
              /\ page' # page => ForThisMount(i) /\ page \in LandingState
  <2>1. /\ calls[i].op \in {"list", "create", "delete", "cameras"}
        /\ calls' = Rest(i) /\ mount' = mount /\ index' = index
        /\ calls[i].op # "cameras" => listed' = listed
        /\ \E op : Arrives(i, op)
        /\ page' # page => ForThisMount(i)
    BY <1>11
    DEF ListArrives, CreateArrives, DeleteArrives, CamerasArrive, Arrives,
        server, cameras
  <2>2. ForThisMount(i) => page \in LandingState
    BY <1>0, <2>1, HeardHere, PageIs
    DEF OpsOf, Pages, LandingState, TeleopState, RecordingState,
        UploadState, Elsewhere
  <2> QED  BY <2>1, <2>2
<1>12. ASSUME NEW i \in DOMAIN calls,
              ListArrives(i) \/ CreateArrives(i) \/ DeleteArrives(i)
       PROVE  HandNext
  <2>1. calls[i].op # "cameras"
    BY <1>12 DEF ListArrives, CreateArrives, DeleteArrives, Arrives
  <2>2. SameView(page, page', calls)
    <3>1. CASE page' = page
      BY <3>1 DEF SameView
    <3>2. CASE page' # page
      <4>1. page \in LandingState
        BY <1>11, <1>12, <3>2
      <4>2. /\ page'.at = page.at /\ page'.dialog = page.dialog
            /\ page'.index = page.index
        <5>1. CASE ListArrives(i)
          BY <3>2, <4>1, <5>1 DEF ListArrives, LandingState
        <5>2. CASE CreateArrives(i)
          BY <3>2, <4>1, <5>2 DEF CreateArrives, LandingState
        <5>3. CASE DeleteArrives(i)
          BY <3>2, <4>1, <5>3 DEF DeleteArrives, LandingState
        <5> QED  BY <1>12, <5>1, <5>2, <5>3
      <4> QED  BY <4>1, <4>2 DEF SameView, LandingState
    <3> QED  BY <3>1, <3>2
  <2> QED  BY <1>0, <1>11, <1>12, <2>1, <2>2, HandHeard
<1>13. ASSUME NEW i \in DOMAIN calls, CamerasArrive(i) PROVE HandNext
  <2>1. /\ calls[i].op = "cameras" /\ calls[i].at = "answered"
        /\ calls[i].ok => calls[i].arg = index
        /\ Has(calls, "cameras")
    BY <1>13 DEF CamerasArrive, Arrives, HandNow, HandInv, SeenInv, Has
  <2>2. CASE ~(page.at = "landing" /\ page.dialog # "closed")
    <3>1. page' = page /\ listed' = listed
      <4>1. ForThisMount(i) => page.at = "landing"
        BY <1>0, <1>11, <1>13, <2>1, HeardHere
        DEF OpsOf, Pages, LandingState, TeleopState, RecordingState,
            UploadState, Elsewhere
      <4> QED  BY <1>13, <2>2, <4>1 DEF CamerasArrive
    <3>2. HandInv(page, Rest(i), mount, index, listed)
      BY <1>0, <2>1, <2>2, HandRest DEF HandNow
    <3> QED  BY <1>11, <1>13, <3>1, <3>2 DEF HandNext
  <2>3. CASE page.at = "landing" /\ page.dialog # "closed"
    <3>1. ForThisMount(i)
      BY <2>1, <2>3 DEF HandNow, HandInv, DialogInv, ForThisMount
    <3>2. page \in LandingState
      BY <1>0, <2>3, PageIs
    <3>3. /\ listed' = calls[i].ok
          /\ page' = [page EXCEPT !.index = IF calls[i].ok THEN calls[i].arg
                                            ELSE @]
      BY <1>13, <2>3, <3>1 DEF CamerasArrive
    <3>4. /\ page'.at = "landing" /\ page'.dialog = page.dialog
          /\ listed' => page'.index = index
      BY <2>1, <3>2, <3>3 DEF LandingState
    <3>5. \A j \in DOMAIN calls :
            calls[j].op = "cameras" /\ calls[j].mount = mount
      BY <2>1, <2>3
      DEF HandNow, HandInv, DialogInv, PauseInv, OnlyHas, Has, Quiet
    <3>6. PICK f : \A k \in DOMAIN Rest(i) :
            f[k] \in DOMAIN calls /\ Rest(i)[k] = calls[f[k]]
      BY <1>0, RestFrom
    <3>7. \A k \in DOMAIN Rest(i) :
            /\ Rest(i)[k].op = "cameras" /\ Rest(i)[k].mount = mount
            /\ Rest(i)[k].at = "answered" /\ Rest(i)[k].ok =>
                 Rest(i)[k].arg = index
      BY <3>5, <3>6 DEF HandNow, HandInv, SeenInv
    <3>8. HandInv(page', Rest(i), mount, index, listed')
      BY <3>4, <3>7
      DEF HandInv, SeenInv, PauseInv, DialogInv, AskedInv, Has, Single
    <3> QED  BY <1>11, <1>13, <3>8 DEF HandNext
  <2> QED  BY <2>2, <2>3
<1> QED
  BY <1>1, <1>3, <1>4, <1>5, <1>6, <1>7, <1>8, <1>9, <1>10, <1>12, <1>13
  DEF LandingUser, LandingCallback, Configure, OpenTraining

(* The teleoperation page's requests are all over before a pause.            *)
LEMMA TeleopHand ==
  ASSUME ~Overtaking, Patient, Types, HandNow,
         TeleopUser \/ NoticeShows \/ \E i \in DOMAIN calls : TeleopCallback(i)
  PROVE  HandNext
<1>0. /\ TabOK /\ CallsOK /\ page \in Pages /\ Landing \in Pages
      /\ Landing.at = "landing"
  BY PagesOK, PagesOwn DEF Types, TabOK
<1>1. ASSUME ClickBack \/ LeaveTeleop PROVE HandNext
  <2>1. /\ Settled /\ page.at = "teleop" /\ index' = index
        /\ listed' = listed
    BY <1>1 DEF ClickBack, LeaveTeleop, OnTeleop, server
  <2>2. ~Has(calls, "wait") /\ ~Has(calls, "record")
    BY <2>1, NothingHeld
  <2>3. CASE Opens(Landing, calls)
    BY <1>0, <2>1, <2>2, <2>3, HandGoes
  <2>4. CASE ~Opens(Landing, calls)
    <3>1. page \in TeleopState
      BY <1>0, <2>1, PageIs
    <3>2. /\ page' = [page EXCEPT !.stopped = TRUE] /\ mount' = mount
          /\ calls' = Sent("stop-teleop", "back")
      BY <1>1, <2>4 DEF ClickBack, LeaveTeleop, Sends
    <3>3. SameView(page, page', calls)
      BY <2>1, <3>1, <3>2 DEF TeleopState, SameView
    <3>4. "stop-teleop" \in OpsOf(page.at) /\ "back" \in Args("stop-teleop")
      BY <2>1 DEF OpsOf, Args, Exits
    <3> QED  BY <2>1, <2>2, <3>2, <3>3, <3>4, HandSends
  <2> QED  BY <2>3, <2>4
<1>2. ASSUME NEW i \in DOMAIN calls, StopArrives(i) PROVE HandNext
  <2>1. calls[i].op = "stop-teleop" /\ index' = index /\ listed' = listed
    BY <1>2 DEF StopArrives, Arrives, server
  <2>2. CASE GoesHome(Rest(i))
    BY <2>1, <2>2, HandHome DEF Quiet
  <2>3. CASE calls' = Rest(i) /\ UNCHANGED <<mount, page>>
    BY <1>0, <2>1, <2>3, HandHeard DEF SameView
  <2> QED  BY <1>2, <2>2, <2>3 DEF StopArrives
<1>3. ASSUME NEW i \in DOMAIN calls, AnswerLost(i) PROVE HandNext
  <2>1. /\ calls' = Rest(i) /\ mount' = mount /\ page' = page
        /\ index' = index /\ listed' = listed /\ calls[i].mount # mount
    BY <1>0, <1>3 DEF AnswerLost, tab, cameras, server, TabOK
  <2>2. calls[i].op # "record"
    BY <2>1 DEF HandNow, HandInv, AskedInv
  <2>3. ~(/\ page.at = "landing" /\ page.dialog # "closed"
          /\ calls[i].op = "cameras")
    BY <2>1 DEF HandNow, HandInv, DialogInv
  <2>4. HandInv(page, Rest(i), mount, index, listed)
    BY <1>0, <2>2, <2>3, HandRest DEF HandNow
  <2> QED  BY <2>1, <2>4 DEF HandNext
<1>4. ASSUME NoticeShows \/ RetryFeeds PROVE HandNext
  BY <1>4, HandStays
  DEF NoticeShows, RetryFeeds, tab, cameras, server, SameView
<1>5. ASSUME NEW on \in BOOLEAN, SwitchFeeds(on) PROVE HandNext
  <2>1. page \in TeleopState
    BY <1>0, <1>5, PageIs DEF SwitchFeeds, OnTeleop
  <2>2. SameView(page, page', calls)
    BY <1>5, <2>1 DEF SwitchFeeds, TeleopState, SameView
  <2> QED  BY <1>5, <2>2, HandStays DEF SwitchFeeds, server
<1>6. ASSUME NEW p \in {Teleop, Landing}, Reload(p) PROVE HandNext
  <2>1. /\ p \in Pages /\ page' = p /\ p.at \in {"teleop", "landing"}
        /\ index' = index /\ listed' = listed /\ Settled
    BY <1>0, <1>6, ReloadLine, PagesOwn DEF Reload, server
  <2>2. PICK u : /\ Line(p, mount', u, calls')
                 /\ \A j \in DOMAIN u :
                      /\ u[j].at = "sent"
                      /\ \/ u[j].op = "stop-teleop"
                         \/ \E h \in DOMAIN calls : u[j].op = calls[h].op
    BY <1>6, ReloadLine
  <2>3. \A j \in DOMAIN u : u[j].op \in {"stop-teleop", "status"}
    BY <2>1, <2>2, NothingHeld DEF OnlyHas
  <2>4. /\ SeenInv(u, index, listed) /\ ~Has(u, "record")
        /\ ~Has(u, "wait")
    BY <2>2, <2>3 DEF SeenInv, Has
  <2>5. p.at = "landing" => p.dialog = "closed"
    BY <1>6, PagesOwn DEF Landing
  <2>6. HandInv(p, calls', mount', index, listed)
    BY <2>1, <2>2, <2>4, <2>5, HandLine
  <2> QED  BY <2>1, <2>6 DEF HandNext
<1> QED
  BY <1>1, <1>2, <1>3, <1>4, <1>5, <1>6 DEF TeleopUser, TeleopCallback

(* The recording page: its start is answered, its status arrives, the user   *)
(* stops, reloads or leaves.                                                 *)
LEMMA RecordingHand ==
  ASSUME ~Overtaking, Patient, Types, HandNow,
         RecordingUser \/ Poll \/ \E i \in DOMAIN calls : RecordingCallback(i)
  PROVE  HandNext
<1>0. /\ TabOK /\ CallsOK /\ page \in Pages /\ Landing \in Pages
      /\ Landing.at = "landing"
  BY PagesOK, PagesOwn DEF Types, TabOK
<1>1. ASSUME NEW i \in DOMAIN calls, ForThisMount(i),
             calls[i].op \in OpsOf("recording")
      PROVE  page.at = "recording" /\ page \in RecordingState
  BY <1>0, <1>1, HeardHere, PageIs
  DEF OpsOf, Pages, LandingState, TeleopState, RecordingState, UploadState,
      Elsewhere
<1>2. ASSUME Poll PROVE HandNext
  <2>1. /\ page.at = "recording" /\ page.started /\ page' = page
        /\ calls' = Sent("status", page.own) /\ mount' = mount
        /\ index' = index /\ listed' = listed /\ ~Has(calls, "status")
    BY <1>2 DEF Poll, OnRecording, tab, cameras, server, Has, Pending
  <2>2. page \in RecordingState
    BY <1>0, <2>1, PageIs
  <2>3. "status" \in OpsOf(page.at) /\ page.own \in Args("status")
    BY <2>1, <2>2 DEF OpsOf, Args, RecordingState
  <2>4. ~Has(calls, "record")
    BY <2>1 DEF HandNow, HandInv, AskedInv, Has
  <2> QED  BY <2>1, <2>3, <2>4, HandSends DEF SameView
<1>3. ASSUME \/ ClickAdvance \/ ClickRerecord
             \/ \E yes \in BOOLEAN : AnswerStop(yes)
      PROVE  HandNext
  <2>1. page \in RecordingState /\ page.at = "recording"
    BY <1>0, <1>3, PageIs
    DEF ClickAdvance, ClickRerecord, AnswerStop, Asking, Free, Connected,
        OnRecording
  <2>2. /\ \/ page' = page
           \/ page' = [page EXCEPT !.hoped = After(CurrentPhase)]
           \/ page' = [page EXCEPT !.confirm = FALSE]
        /\ mount' = mount /\ index' = index /\ listed' = listed
    BY <1>3
    DEF ClickAdvance, ClickRerecord, AnswerStop, tab, cameras, server
  <2>3. SameView(page, page', calls)
    BY <2>1, <2>2 DEF RecordingState, SameView
  <2>4. ~Has(calls, "wait") /\ ~Has(calls, "record")
    <3>1. CASE Settled
      BY <3>1, NothingHeld
    <3>2. CASE page.confirm
      BY <2>1, <3>2 DEF HandNow, HandInv, PauseInv, AskedInv, Has
    <3> QED
      BY <1>3, <3>1, <3>2
      DEF ClickAdvance, ClickRerecord, AnswerStop, Asking, Free
  <2>5. \/ calls' = calls
        \/ \E op \in {"exit", "rerecord", "stop"} : calls' = Sent(op, 0)
    BY <1>3 DEF ClickAdvance, ClickRerecord, AnswerStop, Sends
  <2>6. \A op \in {"exit", "rerecord", "stop"} :
          op \in OpsOf(page.at) /\ 0 \in Args(op)
    BY <2>1 DEF OpsOf, Args
  <2> QED  BY <2>1, <2>2, <2>3, <2>4, <2>5, <2>6, HandSends, HandStays
<1>4. ASSUME AskStop PROVE HandNext
  <2>1. page \in RecordingState /\ page.at = "recording"
    BY <1>0, <1>4, PageIs DEF AskStop, Free, Connected, OnRecording
  <2>2. /\ page' = [page EXCEPT !.confirm = TRUE] /\ mount' = mount
        /\ calls' = calls /\ index' = index /\ listed' = listed /\ Settled
    BY <1>4 DEF AskStop, Free, cameras, server
  <2>3. page'.at = "recording" /\ page'.started = page.started
    BY <2>1, <2>2 DEF RecordingState
  <2>4. ~Has(calls, "wait") /\ ~Has(calls, "record")
    BY <2>2, NothingHeld
  <2> QED
    BY <2>1, <2>2, <2>3, <2>4
    DEF HandNow, HandNext, HandInv, PauseInv, DialogInv, AskedInv, Has
<1>5. ASSUME LeaveRecording PROVE HandNext
  <2>1. Settled /\ index' = index /\ listed' = listed
        /\ Opens(Landing, calls)
    BY <1>5 DEF LeaveRecording, Free, server
  <2> QED  BY <1>0, <2>1, NothingHeld, HandGoes
<1>6. ASSUME NEW i \in DOMAIN calls, RecordArrives(i) PROVE HandNext
  <2>1. /\ calls[i].op = "record" /\ calls[i].at = "answered"
        /\ index' = index /\ listed' = listed
    BY <1>6 DEF RecordArrives, Arrives, server
  <2>2. /\ page.at = "recording" /\ ~page.confirm /\ ForThisMount(i)
        /\ OnlyHas(calls, Quiet \cup {"record"})
        /\ \A j \in DOMAIN calls : calls[j].op = "record" => j = i
    BY <2>1 DEF HandNow, HandInv, AskedInv, Has, Single, ForThisMount
  <2>3. PICK f : \A k \in DOMAIN Rest(i) :
          f[k] \in DOMAIN calls /\ f[k] # i /\ Rest(i)[k] = calls[f[k]]
    BY <1>0, RestFrom
  <2>4. /\ OnlyHas(Rest(i), Quiet) /\ ~Has(Rest(i), "record")
        /\ SeenInv(Rest(i), index, listed)
    <3>1. \A k \in DOMAIN Rest(i) : Rest(i)[k].op \in Quiet
      BY <2>2, <2>3 DEF OnlyHas
    <3> QED
      BY <2>3, <3>1 DEF OnlyHas, Has, SeenInv, HandNow, HandInv, Quiet
  <2>5. CASE ~calls[i].ok
    <3>1. Opens(Landing, Rest(i)) /\ Rest(i) \in Seq(Request)
      BY <1>0, <1>6, <2>2, <2>5, RestFrom DEF RecordArrives, GoesHome
    <3> QED  BY <1>0, <2>1, <2>2, <2>4, <3>1, HandOpens DEF HandNext
  <2>6. CASE calls[i].ok
    <3>1. page \in RecordingState
      BY <1>0, <2>2, PageIs
    <3>2. /\ calls' = Rest(i) /\ mount' = mount
          /\ page' = [page EXCEPT !.started = TRUE, !.index = 0,
                                  !.own = calls[i].seen.session]
      BY <1>6, <2>2, <2>6 DEF RecordArrives
    <3>3. page'.at = "recording" /\ page'.started /\ ~page'.confirm
      BY <2>2, <3>1, <3>2 DEF RecordingState
    <3>5. PauseInv(page', Rest(i))
      <4>1. Single(Rest(i), "status")
        BY <2>4 DEF OnlyHas, Single, Quiet
      <4>2. OnlyHas(Rest(i), Quiet \cup {"record", "status"})
        BY <2>4 DEF OnlyHas
      <4> QED  BY <3>3, <4>1, <4>2 DEF PauseInv
    <3>6. AskedInv(page', Rest(i), mount, index, listed)
      BY <2>4 DEF AskedInv, Has, Single
    <3> QED
      BY <2>1, <2>4, <3>2, <3>3, <3>5, <3>6
      DEF HandNext, HandInv, DialogInv
  <2> QED  BY <2>5, <2>6
<1>7. ASSUME NEW i \in DOMAIN calls, StatusArrives(i) PROVE HandNext
  <2> DEFINE s == calls[i].seen
             d == Upload(s.session, calls[i].arg, FALSE)
             x == Call("info", s.session, mount)
  <2>1. /\ calls[i].op = "status" /\ Answered(calls[i])
        /\ index' = index /\ listed' = listed /\ calls[i] \in Request
    BY <1>0, <1>7, Typed
    DEF StatusArrives, FollowsStatus, Arrives, Answered, server
  <2>2. ~Has(calls, "record")
    <3>1. ~OnlyHas(calls, Quiet \cup {"record"})
      BY <2>1 DEF OnlyHas, Quiet
    <3> QED  BY <3>1 DEF HandNow, HandInv, AskedInv
  <2>3. s.session \in Nat /\ calls[i].arg \in Nat
    BY <2>1 DEF Request, Args, Answered, Status
  <2>7. Has(calls, "wait") =>
          /\ page.at = "recording" /\ Rest(i) \in Seq(Request)
          /\ OnlyHas(Rest(i), Quiet) /\ ~Has(Rest(i), "record")
          /\ SeenInv(Rest(i), index, listed)
    <3> SUFFICES ASSUME Has(calls, "wait")
                 PROVE  /\ page.at = "recording" /\ Rest(i) \in Seq(Request)
                        /\ OnlyHas(Rest(i), Quiet) /\ ~Has(Rest(i), "record")
                        /\ SeenInv(Rest(i), index, listed)
      OBVIOUS
    <3>1. ~OnlyHas(calls, Quiet)
      BY <2>1 DEF OnlyHas, Quiet
    <3>2. /\ page.at = "recording" /\ Single(calls, "status")
          /\ OnlyHas(calls, Quiet \cup {"record", "status"})
      BY <3>1 DEF HandNow, HandInv, PauseInv
    <3>3. Rest(i) \in Seq(Request)
      BY <1>0, RestFrom
    <3>4. PICK f : \A k \in DOMAIN Rest(i) :
            f[k] \in DOMAIN calls /\ f[k] # i /\ Rest(i)[k] = calls[f[k]]
      BY <1>0, RestFrom
    <3>5. \A k \in DOMAIN Rest(i) : Rest(i)[k].op \in Quiet
      BY <2>1, <2>2, <3>2, <3>4 DEF OnlyHas, Single, Has
    <3> QED
      BY <3>2, <3>3, <3>4, <3>5
      DEF OnlyHas, Has, Quiet, SeenInv, HandNow, HandInv
  <2>4. CASE ~SessionEnded(s)
    <3>1. calls' = Rest(i) /\ mount' = mount
      BY <1>7, <2>4 DEF StatusArrives, FollowsStatus
    <3>2. SameView(page, page', calls)
      <4>1. CASE page' = page
        BY <4>1 DEF SameView
      <4>2. CASE page' # page
        <5>1. /\ ForThisMount(i)
              /\ page' = [page EXCEPT !.shown = s,
                            !.hoped = IF @ = s.phase THEN "none" ELSE @]
          BY <1>7, <2>4, <4>2 DEF StatusArrives, FollowsStatus
        <5>2. page \in RecordingState
          BY <1>1, <2>1, <5>1 DEF OpsOf
        <5> HIDE DEF s
        <5> QED  BY <5>1, <5>2 DEF RecordingState, SameView
      <4> QED  BY <4>1, <4>2
    <3> QED  BY <1>0, <2>1, <3>1, <3>2, HandHeard
  <2>5. CASE SessionEnded(s) /\ NothingSaved(s)
    <3>1. GoesHome(Rest(i))
      BY <1>7, <2>5 DEF StatusArrives, FollowsStatus
    <3>2. CASE page.at = "landing"
      BY <1>0, <2>1, <3>1, <3>2, HandHeard DEF GoesHome, SameView
    <3>3. CASE page.at # "landing" /\ ~Has(calls, "wait")
      BY <1>0, <2>1, <2>2, <3>1, <3>3, HandGoes DEF GoesHome
    <3>4. CASE page.at # "landing" /\ Has(calls, "wait")
      <4>1. Opens(Landing, Rest(i))
        BY <3>1, <3>4 DEF GoesHome
      <4> QED  BY <1>0, <2>1, <2>7, <3>4, <4>1, HandOpens DEF HandNext
    <3> QED  BY <3>2, <3>3, <3>4
  <2>6. CASE SessionEnded(s) /\ ~NothingSaved(s)
    <3>2. GoesToUpload(s.session, calls[i].arg, Rest(i))
      BY <1>7, <2>6 DEF StatusArrives, FollowsStatus
    <3>3. CASE page.at # "upload"
      <4>1. Opens(d, Rest(i)) /\ d \in Pages /\ d.at = "upload" /\ ~d.confirm
        <5>1. Opens(d, Rest(i))
          BY <3>2, <3>3 DEF GoesToUpload
        <5>2. d \in Pages
          BY <2>3, PagesOK
        <5>3. d.at = "upload" /\ ~d.confirm
          BY DEF Upload
        <5> QED  BY <5>1, <5>2, <5>3
      <4> HIDE DEF d
      <4>2. CASE ~Has(calls, "wait")
        BY <2>1, <2>2, <4>1, <4>2, HandGoes
      <4>3. CASE Has(calls, "wait")
        BY <1>0, <2>1, <2>7, <4>1, <4>3, HandOpens DEF HandNext
      <4> QED  BY <4>2, <4>3
    <3>4. CASE page.at = "upload"
      <4>0. ~Has(calls, "wait")
        BY <2>7, <3>4
      <4>1. /\ page' = [page EXCEPT !.dataset = s.session,
                                    !.own = calls[i].arg]
            /\ calls' = Append(Rest(i), x) /\ mount' = mount
        BY <3>2, <3>4 DEF GoesToUpload
      <4>2. x \in Request /\ x.op = "info" /\ x.at = "sent"
        <5>1. x \in Request
          BY <1>0, <2>3, CallOK DEF TabOK, Ops, Args
        <5> QED  BY <5>1 DEF Call
      <4>3. page'.at = "upload"
        <5>1. page \in UploadState
          BY <1>0, <3>4, PageIs
        <5> QED  BY <4>1, <5>1 DEF UploadState
      <4>4. SameView(page, page', calls)
        BY <3>4, <4>0, <4>3 DEF SameView
      <4>5. HandInv(page', Rest(i), mount, index, listed)
        BY <1>0, <2>1, <4>4, HandView, HandRest DEF HandNow
      <4>6. ~Has(Rest(i), "wait") /\ ~Has(Rest(i), "record")
            /\ Rest(i) \in Seq(Request)
        <5>1. PICK f : \A k \in DOMAIN Rest(i) :
                f[k] \in DOMAIN calls /\ Rest(i)[k] = calls[f[k]]
          BY <1>0, RestFrom
        <5>2. ~Has(Rest(i), "wait") /\ ~Has(Rest(i), "record")
          BY <2>2, <4>0, <5>1 DEF Has
        <5>3. Rest(i) \in Seq(Request)
          BY <1>0, RestFrom
        <5> QED  BY <5>2, <5>3
      <4> HIDE DEF x
      <4> QED
        BY <2>1, <4>1, <4>2, <4>3, <4>5, <4>6, HandMore DEF HandNext
    <3> QED  BY <3>3, <3>4
  <2> QED  BY <2>4, <2>5, <2>6
<1>8. ASSUME NEW i \in DOMAIN calls, ExitArrives(i) \/ ToastArrives(i)
      PROVE  HandNext
  <2>1. /\ calls[i].op \in {"exit", "rerecord", "stop"}
        /\ calls' = Rest(i) /\ mount' = mount /\ index' = index
        /\ listed' = listed
    BY <1>8 DEF ExitArrives, ToastArrives, Arrives, tab, cameras, server
  <2>2. SameView(page, page', calls)
    <3>1. CASE page' = page
      BY <3>1 DEF SameView
    <3>2. CASE page' # page
      <4>1. ForThisMount(i) /\ page' = [page EXCEPT !.hoped = "none"]
        BY <1>8, <3>2 DEF ExitArrives, ToastArrives, tab
      <4>2. page \in RecordingState
        BY <1>1, <2>1, <4>1 DEF OpsOf
      <4> QED  BY <4>1, <4>2 DEF RecordingState, SameView
    <3> QED  BY <3>1, <3>2
  <2> QED  BY <1>0, <2>1, <2>2, HandHeard
<1> QED
  BY <1>2, <1>3, <1>4, <1>5, <1>6, <1>7, <1>8
  DEF RecordingUser, RecordingCallback

(* The upload page leads home or away, with nothing pending.                 *)
LEMMA UploadHand ==
  ASSUME ~Overtaking, Patient, Types, HandNow,
         UploadUser \/ \E i \in DOMAIN calls : UploadCallback(i)
  PROVE  HandNext
<1>0. TabOK /\ CallsOK /\ page \in Pages /\ Landing \in Pages
      /\ Landing.at = "landing"
  BY PagesOK, PagesOwn DEF Types, TabOK
<1>1. ASSUME \/ ClickUpload \/ AskDelete
             \/ \E yes \in BOOLEAN : AnswerDelete(yes)
      PROVE  HandNext
  <2>1. page \in UploadState /\ page.at = "upload"
    BY <1>0, <1>1, PageIs
    DEF ClickUpload, UploadOffered, AskDelete, AnswerDelete, DeleteAsked,
        OnUpload
  <2>2. /\ \/ page' = [page EXCEPT !.busy = @ \cup {"upload"}]
           \/ page' = [page EXCEPT !.confirm = TRUE]
           \/ page' = [page EXCEPT !.confirm = FALSE,
                                   !.busy = @ \cup {"discard"}]
           \/ page' = [page EXCEPT !.confirm = FALSE]
        /\ mount' = mount /\ index' = index /\ listed' = listed
    BY <1>1 DEF ClickUpload, AskDelete, AnswerDelete, cameras, server
  <2>4. \/ calls' = calls
        \/ \E op \in {"upload", "discard"} : calls' = Sent(op, page.dataset)
    BY <1>1 DEF ClickUpload, AskDelete, AnswerDelete, Sends
  <2>5. \A op \in {"upload", "discard"} :
          op \in OpsOf(page.at) /\ page.dataset \in Args(op)
    BY <2>1 DEF OpsOf, Args, UploadState
  <2>6. ~Has(calls, "record")
    BY <2>1 DEF HandNow, HandInv, AskedInv, Has
  <2>7. ~Has(calls, "wait")
    <3>1. CASE ClickUpload \/ AskDelete
      BY <3>1 DEF ClickUpload, AskDelete, Rested, Pending, Has
    <3>2. CASE \E yes \in BOOLEAN : AnswerDelete(yes)
      BY <2>1, <3>2
      DEF AnswerDelete, DeleteAsked, HandNow, HandInv, PauseInv
    <3> QED  BY <1>1, <3>1, <3>2
  <2>8. SameView(page, page', calls)
    BY <2>1, <2>2, <2>7 DEF UploadState, SameView
  <2> QED  BY <2>1, <2>2, <2>4, <2>5, <2>6, <2>7, <2>8, HandSends, HandStays
<1>2. ASSUME LeaveUpload \/ GoToTraining PROVE HandNext
  <2>1. /\ \E p \in Pages : /\ p.at # "recording" /\ Opens(p, calls)
                            /\ p.at = "landing" => p = Landing
        /\ Settled /\ index' = index /\ listed' = listed
    BY <1>0, <1>2, PagesOK, PagesOwn DEF LeaveUpload, GoToTraining, server
  <2> QED  BY <2>1, NothingHeld, HandGoes
<1>3. ASSUME NEW i \in DOMAIN calls, UploadCallback(i) PROVE HandNext
  <2>1. /\ calls[i].op \in OpsOf("upload")
        /\ index' = index /\ listed' = listed
    BY <1>3
    DEF UploadCallback, InfoArrives, UploadArrives, DiscardArrives, Arrives,
        OpsOf, cameras, server
  <2>2. CASE GoesHome(Rest(i)) /\ calls[i].op = "discard"
    BY <2>1, <2>2, HandHome DEF Quiet
  <2>3. CASE calls' = Rest(i) /\ mount' = mount /\ page' = page
    BY <1>0, <2>1, <2>3, HandHeard DEF OpsOf, SameView
  <2>4. CASE /\ ForThisMount(i) /\ calls' = Rest(i) /\ mount' = mount
             /\ \/ page' = [page EXCEPT !.loaded = TRUE]
                \/ page' = [page EXCEPT !.busy = @ \ {"upload"},
                              !.uploaded = @ \/ calls[i].ok]
                \/ page' = [page EXCEPT !.busy = @ \ {"discard"},
                              !.confirm = FALSE]
    <3>1. page \in UploadState
      BY <1>0, <2>1, <2>4, HeardHere, PageIs
      DEF OpsOf, Pages, LandingState, TeleopState, RecordingState,
          UploadState, Elsewhere
    <3>2. SameView(page, page', calls)
      BY <2>4, <3>1 DEF UploadState, SameView
    <3> QED  BY <1>0, <2>1, <2>4, <3>2, HandHeard DEF OpsOf
  <2>5. CASE InfoArrives(i)
    BY <2>3, <2>4, <2>5 DEF InfoArrives
  <2>6. CASE UploadArrives(i)
    BY <2>3, <2>4, <2>6 DEF UploadArrives
  <2>7. CASE DiscardArrives(i)
    BY <2>2, <2>3, <2>4, <2>7 DEF DiscardArrives, Arrives
  <2> QED  BY <1>3, <2>5, <2>6, <2>7 DEF UploadCallback
<1> QED  BY <1>1, <1>2, <1>3 DEF UploadUser, SkipUpload

(* The server's list of cameras has the index there is, or not the camera.   *)
LEMMA ServerHand ==
  ASSUME ~Overtaking, Types, LineInv, HandNow, Server
  PROVE  HandNext
<1>0. /\ CallsOK /\ index \in {0, 1} /\ WaitsInv(calls)
  BY DEF Types, LineInv
<1>1. ASSUME SessionGoesOn \/ TeleopBreaks PROVE HandNext
  BY <1>1, HandStays DEF SessionGoesOn, TeleopBreaks, tab, cameras, SameView
<1>2. ASSUME NEW i \in DOMAIN calls, Handles(i)
      PROVE  HandNext
  <2>1. /\ tab' = tab /\ index' = index /\ (listed' => listed)
        /\ \E x : Answer(i, x) /\ calls' = Append(Rest(i), x)
    BY <1>2, ServesAnswer
  <2>2. PICK x : Answer(i, x) /\ calls' = Append(Rest(i), x)
    BY <2>1
  <2>3. /\ x \in Request /\ Rest(i) \in Seq(Request) /\ x.op = calls[i].op
        /\ calls[i] \in Request /\ calls[i] \in AnyCall
    BY <1>0, <2>2, RestFrom, Typed DEF Answer, Request
  <2>4. ASSUME NEW y \in Request, calls' = Append(Rest(i), y) PROVE x = y
    <3>1. calls'[Len(Rest(i)) + 1] = x
      BY <2>2, <2>3, OneMoreAt
    <3>2. calls'[Len(Rest(i)) + 1] = y
      BY <2>3, <2>4, OneMoreAt
    <3> QED  BY <3>1, <3>2
  <2>5. x.op = "cameras" /\ x.ok => x.arg = index
    <3> SUFFICES ASSUME x.op = "cameras", x.ok
                 PROVE  x.arg = index
      OBVIOUS
    <3>1. ListsCameras(i)
      BY <1>2, <2>3
      DEF Handles, Serves, ListsRobots, CreatesRobot, DeletesRobot,
          StartsTeleop, StopsTeleop, StartsRecording, ReportsStatus,
          TakesEvent, StopsRecording, ReadsInfo, UploadsDataset,
          DeletesDataset, ConnectionFails, Begins
    <3>2. PICK found \in BOOLEAN :
            calls' = Append(Rest(i), [calls[i] EXCEPT !.at = "answered",
                                        !.ok = found,
                                        !.arg = IF found THEN index ELSE @])
      BY <3>1 DEF ListsCameras
    <3> DEFINE y == [calls[i] EXCEPT !.at = "answered", !.ok = found,
                                     !.arg = IF found THEN index ELSE @]
    <3>3. /\ y \in Request /\ (y.ok = found)
          /\ (found => y.arg = index)
      <4>1. index \in Args("cameras") /\ index \in AnyArg
        BY <1>0 DEF Args, AnyArg
      <4> QED  BY <2>3, <4>1 DEF Request, AnyCall
    <3>4. calls' = Append(Rest(i), y)
      BY <3>2
    <3> HIDE DEF y
    <3> QED  BY <2>4, <3>3, <3>4
  <2>6. page' = page /\ mount' = mount /\ index' = index
    BY <2>1 DEF tab
  <2>7. HandInv(page, Append(Rest(i), x), mount, index, listed)
    BY <1>0, <2>2, <2>5, HandAnswer DEF HandNow
  <2>8. HandInv(page, Append(Rest(i), x), mount, index, listed')
    BY <2>1, <2>7, HandForgets
  <2> QED  BY <2>2, <2>6, <2>8 DEF HandNext
<1> QED  BY <1>1, <1>2 DEF Server, Handles

(* A cable is plugged outside a pause only, and an open dialog lists again.  *)
LEMMA CableHand ==
  ASSUME Patient, Types, HandNow,
         \/ \E k \in {0, 1} : DeviceChanges(k)
         \/ Streams \/ ComeBack
  PROVE  HandNext
<1>0. /\ TabOK /\ CallsOK /\ calls \in Seq(Request) /\ mount \in Nat
      /\ Landing \in Pages /\ Landing.at = "landing"
  BY CallsTyped, PagesOK, PagesOwn DEF Types, TabOK
<1>1. ASSUME NEW k \in {0, 1}, DeviceChanges(k) PROVE HandNext
  <2> DEFINE x == Call("cameras", 0, mount)
             e == Len(calls) + 1
  <2>1. /\ page' = page /\ mount' = mount /\ listed' = listed
        /\ page.at \in {"landing", "teleop"}
        /\ ~Has(calls, "wait") /\ ~Has(calls, "cameras")
        /\ IF page.at = "landing" /\ page.dialog # "closed"
           THEN calls' = Append(calls, x) ELSE calls' = calls
    BY <1>1
    DEF DeviceChanges, tab, server, OnLanding, Has, Pending, Sends, Sent
  <2>2. ~Has(calls, "record")
    BY <2>1 DEF HandNow, HandInv, AskedInv, Has
  <2>3. x \in Request /\ x.op = "cameras" /\ x.mount = mount /\ x.at = "sent"
    <3>1. x \in Request
      BY <1>0, CallOK DEF Ops, Args
    <3> QED  BY <3>1 DEF Call
  <2> HIDE DEF x
  <2>4. CASE page.at = "landing" /\ page.dialog # "closed"
    <3>1. /\ DOMAIN calls' = DOMAIN calls \cup {e} /\ calls'[e] = x
          /\ \A j \in DOMAIN calls : calls'[j] = calls[j]
      BY <1>0, <2>1, <2>3, <2>4, OneMoreAt
    <3> HIDE DEF e
    <3>2. \A j \in DOMAIN calls : FALSE
      BY <2>1, <2>4 DEF HandNow, HandInv, DialogInv, Has
    <3>3. \A j \in DOMAIN calls' : calls'[j] = x
      BY <3>1, <3>2
    <3>4. Has(calls', "cameras")
      BY <2>3, <3>1 DEF Has
    <3> QED
      BY <2>1, <2>3, <2>4, <3>3, <3>4
      DEF HandNext, HandInv, SeenInv, PauseInv, DialogInv, AskedInv, Has, Single
  <2>5. CASE ~(page.at = "landing" /\ page.dialog # "closed")
    <3>1. calls' = calls
      BY <2>1, <2>5
    <3> QED
      BY <2>1, <2>2, <2>5, <3>1
      DEF HandNext, HandInv, SeenInv, PauseInv, DialogInv, AskedInv, Has, Single
  <2> QED  BY <2>4, <2>5
<1>2. ASSUME Streams PROVE HandNext
  BY <1>2, HandStays
  DEF Streams, StreamComes, StreamRefused, RetryStream, tab, server, SameView
<1>3. ASSUME ComeBack PROVE HandNext
  <2>1. /\ page.at = "elsewhere" /\ Opens(Landing, calls) /\ index' = index
        /\ listed' = listed
    BY <1>3 DEF ComeBack, server
  <2>2. ~Has(calls, "wait") /\ ~Has(calls, "record")
    BY <2>1 DEF HandNow, HandInv, PauseInv, AskedInv, Has
  <2> QED  BY <1>0, <2>1, <2>2, HandGoes
<1> QED  BY <1>1, <1>2, <1>3

(* When a session begins, the browser holds no camera and the session opens  *)
(* the index that the camera has now: the dialog has heard of the index      *)
(* before the click, nothing is plugged in the pause, the page that asks for *)
(* the session shows no preview and stays until it is answered.              *)
THEOREM CamerasAreHandedOver ==
  ASSUME ~Overtaking, Patient
  PROVE  Spec => CamerasHandedOver
<1>1. Init => HandNow
  <2> SUFFICES ASSUME Init PROVE HandNow
    OBVIOUS
  <2>1. page.at = "landing" /\ calls = <<Call("list", NoRobot, 1)>>
        /\ page.dialog = "closed"
    BY DEF Init
  <2>2. \A i \in DOMAIN calls : calls[i].op = "list"
    BY <2>1 DEF Call
  <2> QED
    BY <2>1, <2>2
    DEF HandNow, HandInv, SeenInv, PauseInv, DialogInv, AskedInv, Has, Single
<1>2. Types /\ LineInv /\ HandNow /\ [Next]_vars => HandNow'
  <2> SUFFICES ASSUME Types, LineInv, HandNow, [Next]_vars
               PROVE  HandNext
    BY DEF HandNow, HandNext
  <2>1. CASE UNCHANGED vars
    BY <2>1, HandStays DEF vars, tab, cameras, server, SameView
  <2>2. CASE Next
    BY <2>2, LandingHand, TeleopHand, RecordingHand, UploadHand, ServerHand,
       CableHand
    DEF Next, User, Callback, Browser
  <2> QED  BY <2>1, <2>2
<1>3. Types /\ StreamInv /\ HandNow /\ [Next]_vars =>
        [session' # session =>
           /\ streams.live = {}
           /\ listed => \A i \in DOMAIN calls :
                          calls[i].op = "record" => calls[i].arg = index]_vars
  <2> SUFFICES ASSUME Types, StreamInv, HandNow, [Next]_vars,
                      session' # session
               PROVE  /\ streams.live = {}
                      /\ listed => \A i \in DOMAIN calls :
                           calls[i].op = "record" => calls[i].arg = index
    OBVIOUS
  <2>1. PICK i \in DOMAIN calls : StartsRecording(i)
    BY ServiceStep
  <2>2. calls[i].op = "record"
    BY <2>1 DEF StartsRecording, Begins
  <2>3. page.at = "recording"
    BY <2>2 DEF HandNow, HandInv, AskedInv
  <2>4. streams.live = {}
    BY <2>3 DEF StreamInv, Showing
  <2> QED  BY <2>4 DEF HandNow, HandInv, AskedInv
<1> QED
  BY <1>1, <1>2, <1>3, TypesCorrect, LineInOrder, StreamsKept, PTL
  DEF Spec, CamerasHandedOver

=============================================================================
