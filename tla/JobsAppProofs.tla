---------------------------- MODULE JobsAppProofs ----------------------------
(***************************************************************************)
(* Theorems about JobsApp, for any bounds and number of requests under     *)
(* way: the log of a training's page (LogInOrder) and the gate of a        *)
(* missing package (GateTruthful).                                         *)
(***************************************************************************)
EXTENDS JobsApp, SubsequencesProofs

-----------------------------------------------------------------------------
(* Types.                                                                    *)
Jobs == [state : {"none", "running", "done", "failed"},
         runner : Runners \cup {Imported, Nowhere}, saved : Nat]
Rollouts == {"off", "setup", "rolling", "overdue", "exited"}
Installs == {"idle", "installing", "done", "error"}
Replies == [job : Jobs, lines : Seq(Nat), rollout : Rollouts, pip : Installs]

Dialogs ==
  [open : BOOLEAN, mounted : BOOLEAN, step : Nat, steps : Nat, config : Nat,
   bound : BOOLEAN, busy : BOOLEAN]
JobsState ==
  [at : {"jobs"}, job : Jobs, steps : Nat, picked : Nat, dialog : Dialogs,
   importing : {"no", "open", "busy"}]
ConfigState ==
  [at : {"config"}, target : Runners, filled : BOOLEAN,
   extra : {"unknown", "yes", "no"}, blocked : BOOLEAN, cluster : BOOLEAN,
   busy : BOOLEAN, gate : Extras \cup {"none"}, install : Installs]
MonitorState ==
  [at : {"monitor"}, job : Jobs, gone : BOOLEAN, log : Seq(Nat), steps : Nat,
   picked : Nat, dialog : Dialogs]
InferenceState ==
  [at : {"inference"}, shown : Rollouts \cup {"nothing"}, asked : BOOLEAN,
   left : BOOLEAN, confirm : BOOLEAN]
Pages == JobsState \cup ConfigState \cup MonitorState \cup InferenceState

(* The requests of the mounted page are of its kind.                         *)
DialogOps == {"dialog-steps", "config", "pause", "infer"}
OpsOf(at) ==
  CASE at = "jobs" ->
         DialogOps \cup {"list", "steps", "stop-card", "delete-card", "import"}
    [] at = "config" ->
         {"training", "busy", "cluster", "wandb", "policy", "start", "seed",
          "progress", "install"}
    [] at = "monitor" ->
         DialogOps \cup {"log-file", "steps", "job", "logs", "stop", "resume",
                         "delete"}
    [] at = "inference" -> {"rollout", "halt"}
Ops ==
  DialogOps \cup
  {"list", "steps", "stop-card", "delete-card", "import", "training", "busy",
   "cluster", "wandb", "policy", "start", "seed", "progress", "install",
   "log-file", "job", "logs", "stop", "resume", "delete", "rollout", "halt"}
AnyCall ==
  [op : Ops, arg : Nat \cup Runners, mount : Nat \ {0},
   at : {"sent", "reading", "waiting", "answered"}, ok : BOOLEAN,
   seen : Replies \cup {"nothing"}]
Request ==
  {c \in AnyCall :
     /\ c.at \in {"reading", "answered"} => c.seen \in Replies
     /\ c.at = "reading" => c.op = "log-file"
     /\ c.at = "waiting" => c.op \in {"pause", "stop", "stop-card"}
     /\ c.op \in {"policy", "start"} => c.arg \in Runners
     /\ c.op \in {"pause", "config"} => c.arg \in Nat}
Heard(m, at) == {c \in Request : c.mount = m => c.op \in OpsOf(at)}
Mine == Heard(mount, page.at)
CallsOK == calls \in Seq(Mine)

ServerOK ==
  /\ job \in Jobs /\ alive \in BOOLEAN /\ pip \in Installs
  /\ rollout \in Rollouts
  /\ file \in Nat /\ put \in Nat /\ drained \in Nat
  /\ drained <= put /\ put <= file /\ file <= put + 1
SocketOK ==
  /\ max \in Bounds
  /\ socket # "closed" => page.at = "jobs"
  /\ events # <<>> => socket # "closed"
  /\ events \in Seq([type : {"changed", "progress"}, job : Jobs])
TabOK == mount \in Nat \ {0} /\ page \in Pages
Types == ServerOK /\ SocketOK /\ TabOK /\ CallsOK

-----------------------------------------------------------------------------
(* A patient user has at most one request under way that changes something   *)
(* on the server or leads to another page, and stays on the page it is of    *)
(* until its callback has run.                                               *)
Weighty == {"policy", "start", "import", "pause", "infer", "stop", "stop-card",
            "resume", "delete", "delete-card", "install"}
AloneInv ==
  /\ \A i \in DOMAIN calls : calls[i].op \in Weighty =>
       /\ ForThisMount(i)
       /\ \A j \in DOMAIN calls : calls[j].op \in Weighty => j = i
  /\ OnJobs /\ page.importing = "open" =>
       \A i \in DOMAIN calls : calls[i].op \notin Weighty
  /\ OnJobs /\ page.dialog.open =>
       /\ page.importing = "no"
       /\ \A i \in DOMAIN calls : calls[i].op # "import"

(* A process runs only for a job that does, and nobody is about to put       *)
(* another job in its place.                                                 *)
Started == \E i \in DOMAIN calls :
             calls[i].op = "start" /\ calls[i].at = "answered" /\ calls[i].ok
AliveInv ==
  /\ alive => Running
  /\ OnConfig /\ ~Started => ~alive
  /\ OnJobs /\ page.importing = "open" => ~alive
  /\ \A i \in DOMAIN calls :
       calls[i].op = "import" /\ ~(calls[i].at = "answered" /\ calls[i].ok)
         => ~alive

-----------------------------------------------------------------------------
(* The gate.  What it thinks, or is about to hear, of the installation.      *)
Agrees(p, idea) ==
  /\ p = "installing" => idea = "installing"
  /\ idea = "installing" => p # "idle"
  /\ idea = "done" => p = "done"
Fits(idea) == Agrees(pip, idea)
Asked == {i \in DOMAIN calls :
            ForThisMount(i) /\ calls[i].op \in {"seed", "progress"}}
Installing == {i \in DOMAIN calls :
                 calls[i].op = "install" /\ calls[i].at = "sent"}
Seeded == GateShown /\ \A i \in Asked : calls[i].op # "seed"
GateInv ==
  /\ \A i \in Installing : \A j \in Asked : i < j /\ calls[j].at = "sent"
  /\ \A i \in Asked : calls[i].at = "answered" => Fits(calls[i].seen.pip)
  /\ Seeded /\ Installing = {} => Fits(page.install)
  /\ Seeded /\ Installing # {} => page.install = "installing"

-----------------------------------------------------------------------------
(* The log.                                                                  *)
Own(op) == {i \in DOMAIN calls : ForThisMount(i) /\ calls[i].op = op}
Unserved == {i \in DOMAIN calls : calls[i].op \in {"log-file", "logs"}
                                    /\ calls[i].at \in {"sent", "reading"}}
Fetching == Own("log-file") \cap Unserved
Fetched == {i \in Own("log-file") \cup Own("logs") : calls[i].at = "answered"}

(* The file is read before the first record comes, and everything else that  *)
(* takes lines from the queue does so earlier, or is asked for later.        *)
OrderInv ==
  /\ \A i \in Fetching :
       /\ page.log = <<>> /\ Own("logs") = {} /\ Own("log-file") = {i}
       /\ \A j \in Own("job") : i < j /\ calls[j].at = "sent"
       /\ \A j \in Unserved \ {i} : j < i /\ calls[i].at = "sent"
  /\ Fetching = {} => Unserved \subseteq Own("logs")
  /\ \A i \in Own("log-file") :
       /\ page.log = <<>> /\ Own("logs") = {} /\ Own("log-file") = {i}
       /\ \A j \in Own("job") : calls[j].at = "answered" => i < j
  /\ \A i, j \in Own("job") \cup Own("logs") : i = j

(* A log runs forward; after its n-th line the same line may come again.     *)
InRange(s) == {s[k] : k \in DOMAIN s}
Seam(s, n) ==
  \A a, b \in DOMAIN s : a < b =>
    s[a] < s[b] \/ (s[a] = s[b] /\ a = n /\ b = n + 1)

(* The lines after the k-th may follow the log: the next one may have been   *)
(* in the file already.                                                      *)
GoesOn(s, k) ==
  \/ InRange(s) \subseteq 1..k /\ \E n \in 0..Len(s) : Seam(s, n)
  \/ InRange(s) \subseteq 1..(k + 1) /\ Seam(s, 0)

(* The d lines that have left the queue are on the page or in the texts that *)
(* are on their way to it, but those that are gone.                          *)
Texts == {calls[i].seen.lines : i \in Fetched}
Covered(s, texts, d, gone) ==
  /\ texts = {} => GoesOn(s, d)
  /\ \A t \in texts : GoesOn(s \o t, d)
  /\ \A k \in 1..d : \/ k \in gone \/ k \in InRange(s)
                     \/ \E t \in texts : k \in InRange(t)
LinesInv ==
  /\ \A i \in Fetching : calls[i].at = "reading" =>
       /\ calls[i].ok
       /\ \E f \in 0..(put + 1) : calls[i].seen.lines = Lines(0, f)
  /\ Fetching = {} => /\ \A i \in Fetched : calls[i].ok
                      /\ Covered(page.log, Texts, drained, lost)
LogInv == OnMonitor => OrderInv /\ (job # NoJob => LinesInv)

-----------------------------------------------------------------------------
(* Requests and pages are well-formed.                                       *)

(* A request as it is sent.                                                  *)
LEMMA CallOK ==
  ASSUME NEW op \in Ops, NEW arg \in Nat \cup Runners, NEW of \in Nat \ {0},
         op \in {"policy", "start"} => arg \in Runners,
         op \in {"pause", "config"} => arg \in Nat
  PROVE  /\ Call(op, arg, of) \in Request
         /\ Call(op, arg, of).op = op /\ Call(op, arg, of).mount = of
         /\ Call(op, arg, of).at = "sent"
BY DEF Call, Request, AnyCall

(* The kinds of requests of the pages are kinds of requests.                 *)
LEMMA OpsOK ==
  \A at \in {"jobs", "config", "monitor", "inference"} :
    OpsOf(at) \subseteq Ops
BY DEF Ops, OpsOf

(* The pages as they are mounted.                                            *)
LEMMA PagesOK ==
  /\ NoJob \in Jobs /\ NoDialog \in Dialogs
  /\ JobsList \in JobsState /\ Config \in ConfigState
  /\ Monitor \in MonitorState /\ Inference \in InferenceState
  /\ {JobsList, Config, Monitor, Inference} \subseteq Pages
<1>1. NoJob \in Jobs /\ NoDialog \in Dialogs
  BY DEF NoJob, Jobs, NoDialog, Dialogs
<1>2. JobsList \in JobsState
  BY <1>1 DEF JobsList, JobsState
<1>3. Config \in ConfigState
  BY DEF Config, ConfigState, Runners, Extras, Installs
<1>4. Monitor \in MonitorState
  BY <1>1 DEF Monitor, MonitorState
<1>5. Inference \in InferenceState
  BY DEF Inference, InferenceState
<1> QED  BY <1>1, <1>2, <1>3, <1>4, <1>5 DEF Pages

(* The name of a page determines its fields.                                 *)
LEMMA PageIs ==
  ASSUME NEW p \in Pages
  PROVE  /\ p.at = "jobs" => p \in JobsState
         /\ p.at = "config" => p \in ConfigState
         /\ p.at = "monitor" => p \in MonitorState
         /\ p.at = "inference" => p \in InferenceState
         /\ p.at \in {"jobs", "config", "monitor", "inference"}
BY DEF Pages, JobsState, ConfigState, MonitorState, InferenceState

(* A request under way.                                                      *)
LEMMA Typed ==
  ASSUME CallsOK
  PROVE  /\ Len(calls) \in Nat /\ DOMAIN calls = 1..Len(calls)
         /\ calls \in Seq(Mine) /\ calls \in Seq(Request)
         /\ \A i \in DOMAIN calls :
              /\ i \in 1..Len(calls) /\ calls[i] \in Mine
              /\ calls[i] \in Request
              /\ Rest(i) \in Seq(Mine) /\ Rest(i) \in Seq(Request)
<1>1. \A j \in 1..Len(calls) : calls[j] \in Mine
  BY DEF CallsOK
<1>2. \A j \in 1..Len(calls) : calls[j] \in Request
  BY <1>1 DEF Mine, Heard
<1>3. calls \in Seq(Mine) /\ calls \in Seq(Request)
  BY <1>1, <1>2 DEF CallsOK
<1>4. \A i \in 1..Len(calls) :
        Rest(i) \in Seq(Mine) /\ Rest(i) \in Seq(Request)
  BY <1>3, RemoveAtElements DEF Rest
<1>5. Len(calls) \in Nat /\ DOMAIN calls = 1..Len(calls)
  BY <1>3
<1> QED  BY <1>1, <1>2, <1>3, <1>4, <1>5

(* An answer is to the request that was sent, and joins the others.          *)
LEMMA AnswersOK ==
  ASSUME CallsOK, NEW i \in DOMAIN calls, NEW ok \in BOOLEAN,
         NEW seen \in Replies, Answers(i, ok, seen)
  PROVE  calls' \in Seq(Mine)
<1>1. RemoveAt(calls, i) \in Seq(Mine) /\ calls[i] \in Mine
  BY Typed DEF Rest
<1>2. [calls[i] EXCEPT !.at = "answered", !.ok = ok, !.seen = seen] \in Mine
  BY <1>1 DEF Mine, Heard, Request, AnyCall
<1> QED  BY <1>1, <1>2 DEF Answers

(* What the mounted page sends.                                              *)
LEMMA SendsOK ==
  ASSUME CallsOK, TabOK, NEW op \in OpsOf(page.at),
         NEW arg \in Nat \cup Runners,
         op \in {"policy", "start"} => arg \in Runners,
         op \in {"pause", "config"} => arg \in Nat
  PROVE  /\ Call(op, arg, mount) \in Mine
         /\ Sent(op, arg) \in Seq(Mine)
<1>1. op \in Ops
  BY OpsOK, PageIs DEF TabOK
<1>2. Call(op, arg, mount) \in Mine
  BY <1>1, CallOK DEF Mine, Heard, TabOK
<1> QED  BY <1>2 DEF Sent, CallsOK

(* What the callback of a request sends on.                                  *)
LEMMA SendsOnOK ==
  ASSUME CallsOK, NEW i \in DOMAIN calls, NEW op \in Ops,
         NEW arg \in Nat \cup Runners,
         ForThisMount(i) => op \in OpsOf(page.at),
         op \in {"policy", "start"} => arg \in Runners,
         op \in {"pause", "config"} => arg \in Nat
  PROVE  Append(Rest(i), Call(op, arg, calls[i].mount)) \in Seq(Mine)
<1>1. calls[i] \in Request /\ Rest(i) \in Seq(Mine)
  BY Typed
<1>2. calls[i].mount \in Nat \ {0}
  BY <1>1 DEF Request, AnyCall
<1>3. Call(op, arg, calls[i].mount) \in Mine
  BY <1>2, CallOK DEF Mine, Heard, ForThisMount
<1> QED  BY <1>1, <1>3

(* There is always a number that no callback has.                            *)
LEMMA FreshMountOK ==
  ASSUME NEW cs \in Seq(Request)
  PROVE  /\ FreshMount(cs) \in Nat \ {0}
         /\ \A i \in DOMAIN cs : cs[i].mount # FreshMount(cs)
<1> DEFINE n == Len(cs)
           Used == {cs[i].mount : i \in 1..n}
           Least(m) == /\ \A j \in DOMAIN cs : cs[j].mount # m
                        /\ \A k \in 1..(m - 1) :
                            \E i \in DOMAIN cs : cs[i].mount = k
           Unused == 1..(n + 1) \ Used
<1>1. n \in Nat /\ DOMAIN cs = 1..n
  OBVIOUS
<1>2. IsFiniteSet(Used) /\ Cardinality(Used) <= n
  <2>1. IsFiniteSet(1..n) /\ Cardinality(1..n) = n
    BY <1>1, FS_Interval
  <2> DEFINE f == [i \in 1..n |-> cs[i].mount]
  <2>2. f \in Surjection(1..n, Used)
    BY DEF Surjection
  <2> QED  BY <2>1, <2>2, FS_Surjection
<1>3. PICK u \in Unused : TRUE
  <2>1. IsFiniteSet(1..(n + 1)) /\ Cardinality(1..(n + 1)) = n + 1
    BY <1>1, FS_Interval
  <2>2. ASSUME Unused = {} PROVE FALSE
    <3>1. 1..(n + 1) \subseteq Used
      BY <2>2
    <3>2. Cardinality(1..(n + 1)) <= Cardinality(Used)
      BY <1>2, <3>1, FS_Subset
    <3>3. Cardinality(Used) \in Nat
      BY <1>2, FS_CardinalityType
    <3> HIDE DEF Used
    <3> QED  BY <1>1, <1>2, <2>1, <3>2, <3>3
  <2> QED  BY <2>2
<1>4. PICK l \in Unused : \A k \in Unused : l <= k
  <2> DEFINE S == 1..(n + 1)
             T == {1..k : k \in Unused}
  <2>1. IsWellFoundedOn(StrictSubsetOrdering(S), SUBSET S)
    <3>1. IsFiniteSet(S)
      BY <1>1, FS_Interval
    <3> QED
      BY <3>1, FS_StrictSubsetOrderingWellFounded, FS_FiniteSubsetsOfFinite
  <2>2. T \subseteq SUBSET S /\ T # {}
    BY <1>1, <1>3
  <2>3. PICK x \in T : \A y \in T : <<y, x>> \notin StrictSubsetOrdering(S)
    <3> HIDE DEF S, T
    <3> QED  BY <2>1, <2>2, WFMin
  <2>4. PICK k \in Unused : x = 1..k
    BY <2>3
  <2>5. ASSUME NEW j \in Unused, j < k PROVE FALSE
    <3>1. 1..j \in SUBSET S /\ 1..k \in SUBSET S /\ 1..j \subseteq 1..k
      BY <1>1, <2>5
    <3>2. k \in 1..k /\ k \notin 1..j
      BY <1>1, <2>5
    <3>3. <<1..j, 1..k>> \in StrictSubsetOrdering(S)
      BY <3>1, <3>2 DEF StrictSubsetOrdering
    <3> QED  BY <2>3, <2>4, <3>3
  <2>6. \A j \in Unused : k <= j
    BY <1>1, <2>5
  <2> QED  BY <2>6
<1>5. l \in 1..(n + 1) /\ Least(l)
  <2>1. ASSUME NEW k \in 1..(l - 1) PROVE \E i \in DOMAIN cs : cs[i].mount = k
    <3>1. k \in 1..(n + 1) /\ ~(l <= k)
      BY <1>1, <1>4, <2>1
    <3>2. k \in Used
      BY <1>4, <3>1
    <3> QED  BY <1>1, <3>2
  <2>2. \A i \in DOMAIN cs : cs[i].mount # l
    BY <1>1, <1>4
  <2> QED  BY <1>4, <2>1, <2>2
<1>6. FreshMount(cs) \in 1..(n + 1) /\ Least(FreshMount(cs))
  <2>1. FreshMount(cs) = CHOOSE m \in 1..(n + 1) : Least(m)
    BY DEF FreshMount
  <2> QED  BY <1>5, <2>1
<1> QED  BY <1>1, <1>6

(* What a page sends when it is mounted.                                     *)
LEMMA FirstCallsOK ==
  ASSUME NEW p \in Pages, NEW m \in Nat \ {0}
  PROVE  /\ FirstCalls(p, m) \in Seq(Heard(m, p.at))
         /\ \A k \in DOMAIN FirstCalls(p, m) : FirstCalls(p, m)[k].mount = m
<1>1. \A op \in OpsOf(p.at) \ {"policy", "start"} :
        Call(op, 0, m) \in Heard(m, p.at) /\ Call(op, 0, m).mount = m
  BY OpsOK, CallOK, PageIs DEF Heard
<1>2. CASE p.at = "jobs"
  BY <1>1, <1>2 DEF OpsOf, FirstCalls
<1>3. CASE p.at = "config"
  BY <1>1, <1>3 DEF OpsOf, FirstCalls
<1>4. CASE p.at = "monitor"
  BY <1>1, <1>4 DEF OpsOf, FirstCalls
<1>5. CASE p.at = "inference"
  BY <1>5 DEF FirstCalls
<1> QED  BY <1>2, <1>3, <1>4, <1>5, PageIs

(* navigate(): the new page has a number of its own, so no answer under way  *)
(* is its.                                                                   *)
LEMMA OpensOK ==
  ASSUME NEW p \in Pages, NEW cs \in Seq(Request), Opens(p, cs)
  PROVE  /\ TabOK' /\ CallsOK' /\ page' = p
         /\ events' = <<>> /\ UNCHANGED drops
         /\ calls' = cs \o FirstCalls(p, mount')
         /\ \A i \in DOMAIN cs : cs[i].mount # mount'
<1> DEFINE m == FreshMount(cs)
           T == Heard(m, p.at)
<1>1. m \in Nat \ {0} /\ \A i \in DOMAIN cs : cs[i].mount # m
  BY FreshMountOK
<1>2. FirstCalls(p, m) \in Seq(T)
  BY <1>1, FirstCallsOK
<1>3. cs \in Seq(T)
  <2>1. \A i \in 1..Len(cs) : cs[i] \in T
    BY <1>1 DEF Heard
  <2> QED  BY <2>1
<1>4. /\ mount' = m /\ page' = p /\ calls' = cs \o FirstCalls(p, m)
      /\ events' = <<>> /\ UNCHANGED drops
  BY DEF Opens
<1>5. calls' \in Seq(T)
  <2> HIDE DEF m, T
  <2> QED  BY <1>2, <1>3, <1>4
<1>6. Mine' = T
  BY <1>4 DEF Mine
<1> QED  BY <1>1, <1>4, <1>5, <1>6 DEF CallsOK, TabOK

-----------------------------------------------------------------------------
(* Every step keeps the types.                                               *)

(* As long as the page stays, so do the requests it may hear of.             *)
Stays == mount' = mount /\ page'.at = page.at

(* A step of a page that stays, which changes nothing on the server.         *)
LEMMA PageStepTypes ==
  ASSUME Types, UNCHANGED <<job, alive, log, rollout>>, UNCHANGED pip,
         max' = max, UNCHANGED socket, events' \in {events, Tail(events)},
         events' # <<>> => events # <<>>, Stays, page' \in Pages,
         calls' \in Seq(Mine)
  PROVE  Types'
<1>1. ServerOK'
  BY DEF Types, ServerOK, log
<1>2. TabOK' /\ SocketOK'
  <2>1. events' \in Seq([type : {"changed", "progress"}, job : Jobs])
    <3>1. CASE events = <<>>
      BY <3>1 DEF Types, SocketOK
    <3>2. CASE events # <<>>
      BY <3>2 DEF Types, SocketOK
    <3> QED  BY <3>1, <3>2
  <2> QED  BY <2>1 DEF Types, TabOK, SocketOK, Stays
<1>3. Mine' = Mine
  BY DEF Mine, Stays
<1> QED  BY <1>1, <1>2, <1>3 DEF Types, CallsOK

(* A step to another page.                                                   *)
LEMMA OpensTypes ==
  ASSUME Types, UNCHANGED <<job, alive, log, rollout>>, UNCHANGED pip,
         max' = max, NEW p \in Pages, NEW cs \in Seq(Request), Opens(p, cs)
  PROVE  Types'
<1>1. ServerOK'
  BY DEF Types, ServerOK, log
<1>2. TabOK' /\ CallsOK' /\ events' = <<>> /\ page' = p
  BY OpensOK
<1>3. socket' = IF p.at = "jobs" THEN "connecting" ELSE "closed"
  BY DEF Opens
<1> QED  BY <1>1, <1>2, <1>3 DEF Types, SocketOK

(* Bounds are counts.                                                        *)
LEMMA MaxOK ==
  ASSUME SocketOK
  PROVE  /\ max.saved \in Nat /\ max.lines \in Nat
         /\ max.targets \subseteq Runners
BY JobDeskAssumption DEF SocketOK

(* What a dialog sends when it opens.                                        *)
LEMMA OpeningOK ==
  ASSUME Types, NEW d \in Dialogs, page.at \in {"jobs", "monitor"}
  PROVE  OpeningCalls(d, calls) \in Seq(Mine) /\ Opened(d) \in Dialogs
<1>1. d.step \in Nat /\ Opened(d) \in Dialogs
  BY DEF Dialogs, Opened
<1>2. /\ Call("dialog-steps", 0, mount) \in Mine
      /\ Call("config", d.step, mount) \in Mine
  BY <1>1, SendsOK DEF Types, OpsOf, DialogOps
<1>3. calls \in Seq(Mine)
  BY DEF Types, CallsOK
<1> QED  BY <1>1, <1>2, <1>3 DEF OpeningCalls

(* The list of jobs: its user, ...                                           *)
LEMMA JobsUserTypes ==
  ASSUME Types, JobsUser
  PROVE  Types'
<1>0. /\ TabOK /\ CallsOK /\ SocketOK /\ page \in Pages
      /\ calls \in Seq(Mine) /\ calls \in Seq(Request)
  BY Typed DEF Types, TabOK, SocketOK
<1>1. ASSUME OnJobs PROVE page \in JobsState /\ page.at = "jobs"
  BY <1>0, <1>1, PageIs DEF OnJobs
<1>2. ASSUME NEW k \in 1..max.saved, PickCheckpoint(k) PROVE Types'
  <2>1. page \in JobsState /\ k \in Nat
    BY <1>0, <1>1, <1>2 DEF PickCheckpoint, PlayOffered, Uncovered
  <2>2. page' \in JobsState /\ Stays
    BY <1>2, <2>1 DEF PickCheckpoint, JobsState, Stays
  <2> QED
    BY <1>0, <1>2, <2>2, PageStepTypes
    DEF PickCheckpoint, counts, wire, Pages
<1>3. ASSUME Refresh \/ ClickStop \/ ClickDelete PROVE Types'
  <2>1. page.at = "jobs"
    BY <1>3
    DEF Refresh, ClickStop, ClickDelete, CardShown, Uncovered, OnJobs
  <2>2. \A op \in {"list", "stop-card", "delete-card"} :
          Sent(op, 0) \in Seq(Mine)
    BY <1>0, <2>1, SendsOK DEF OpsOf
  <2> QED
    BY <1>0, <1>3, <2>2, PageStepTypes
    DEF Refresh, ClickStop, ClickDelete, Sends, counts, wire, tab, Stays
<1>4. ASSUME ClickPlay PROVE Types'
  <2>1. page \in JobsState /\ page.at = "jobs"
    BY <1>1, <1>4 DEF ClickPlay, PlayOffered, Uncovered
  <2> DEFINE d == page.dialog
             e == IF d.mounted THEN d ELSE [d EXCEPT !.step = page.picked]
  <2>2. e \in Dialogs
    BY <2>1 DEF JobsState, Dialogs
  <2>3. /\ page' = [page EXCEPT !.dialog = Opened(e)]
        /\ calls' = OpeningCalls(e, calls)
        /\ UNCHANGED <<job, alive, log, rollout, wire, counts, mount>>
    BY <1>4 DEF ClickPlay
  <2> HIDE DEF e
  <2>4. calls' \in Seq(Mine) /\ Opened(e) \in Dialogs
    BY <2>1, <2>2, <2>3, OpeningOK
  <2>5. page' \in JobsState /\ Stays
    BY <2>1, <2>3, <2>4 DEF JobsState, Stays
  <2> QED
    BY <1>0, <2>3, <2>4, <2>5, PageStepTypes DEF counts, wire, Pages
<1>5. ASSUME OpenJob \/ OpenConfig PROVE Types'
  <2>1. /\ \E p \in Pages : Opens(p, calls)
        /\ UNCHANGED <<job, alive, log, rollout, counts>>
    BY <1>5, PagesOK DEF OpenJob, OpenConfig
  <2> QED  BY <1>0, <2>1, OpensTypes DEF counts
<1>6. ASSUME OpenImport \/ CloseImport PROVE Types'
  <2>1. page \in JobsState
    BY <1>1, <1>6 DEF OpenImport, CloseImport, Uncovered
  <2>2. page' \in JobsState /\ Stays
    BY <1>6, <2>1 DEF OpenImport, CloseImport, JobsState, Stays
  <2> QED
    BY <1>0, <1>6, <2>2, PageStepTypes
    DEF OpenImport, CloseImport, counts, wire, Pages
<1>7. ASSUME ClickImport PROVE Types'
  <2>1. page \in JobsState /\ page.at = "jobs"
    BY <1>1, <1>7 DEF ClickImport, ImportOffered
  <2>2. page' \in JobsState /\ Stays
    BY <1>7, <2>1 DEF ClickImport, JobsState, Stays
  <2>3. Sent("import", 0) \in Seq(Mine)
    BY <1>0, <2>1, SendsOK DEF OpsOf
  <2> QED
    BY <1>0, <1>7, <2>2, <2>3, PageStepTypes
    DEF ClickImport, Sends, Works, wire, Pages
<1> QED
  BY <1>2, <1>3, <1>4, <1>5, <1>6, <1>7 DEF JobsUser

(* What an answer brings, and what it can be to.                             *)
LEMMA ArrivedOK ==
  ASSUME Types, NEW i \in DOMAIN calls
  PROVE  /\ calls[i] \in Request
         /\ Rest(i) \in Seq(Mine) /\ Rest(i) \in Seq(Request)
         /\ calls[i].arg \in Nat \cup Runners /\ calls[i].ok \in BOOLEAN
         /\ calls[i].mount \in Nat \ {0}
         /\ calls[i].at \in {"reading", "answered"} =>
              /\ calls[i].seen \in Replies
              /\ calls[i].seen.job \in Jobs /\ calls[i].seen.job.saved \in Nat
              /\ calls[i].seen.rollout \in Rollouts
              /\ calls[i].seen.pip \in Installs
              /\ calls[i].seen.lines \in Seq(Nat)
         /\ ForThisMount(i) => calls[i].op \in OpsOf(page.at)
<1>1. /\ calls[i] \in Request /\ calls[i] \in Mine
      /\ Rest(i) \in Seq(Mine) /\ Rest(i) \in Seq(Request)
  BY Typed DEF Types
<1>2. calls[i].at \in {"reading", "answered"} => calls[i].seen \in Replies
  BY <1>1 DEF Request
<1>3. calls[i].seen \in Replies =>
        /\ calls[i].seen.job \in Jobs /\ calls[i].seen.job.saved \in Nat
        /\ calls[i].seen.rollout \in Rollouts
        /\ calls[i].seen.pip \in Installs
        /\ calls[i].seen.lines \in Seq(Nat)
  BY DEF Replies, Jobs
<1> QED
  BY <1>1, <1>2, <1>3 DEF Mine, Heard, Request, AnyCall, ForThisMount

(* What a card shows of another record.                                      *)
LEMMA ShowsOK ==
  ASSUME Types, NEW p \in JobsState, NEW j \in Jobs,
         page.at = "jobs", NEW cs \in Seq(Mine)
  PROVE  Shows(j, p) \in JobsState /\ CardCalls(j, cs) \in Seq(Mine)
<1>1. j.saved \in Nat
  BY DEF Jobs
<1>2. Call("steps", j.saved, mount) \in Mine
  BY <1>1, SendsOK DEF Types, OpsOf
<1>3. CardCalls(j, cs) \in Seq(Mine)
  BY <1>2 DEF CardCalls
<1>4. Shows(j, p) \in JobsState
  BY DEF Shows, JobsState
<1> QED  BY <1>3, <1>4

(* ... its answers, ...                                                      *)
LEMMA JobsCallbackTypes ==
  ASSUME Types, NEW i \in DOMAIN calls, JobsCallback(i)
  PROVE  Types'
<1>0. /\ TabOK /\ CallsOK /\ SocketOK /\ page \in Pages
      /\ Rest(i) \in Seq(Mine) /\ calls[i].mount \in Nat \ {0}
      /\ calls[i].ok \in BOOLEAN
  BY ArrivedOK DEF Types, TabOK, SocketOK
<1>1. ASSUME ForThisMount(i), calls[i].op \in {"list", "import"}
      PROVE  page \in JobsState /\ page.at = "jobs"
  BY <1>0, <1>1, ArrivedOK, PageIs DEF OpsOf, DialogOps
<1>2. ASSUME ListArrives(i) PROVE Types'
  <2>1. calls[i].op = "list" /\ calls[i].seen.job \in Jobs
    BY <1>2, ArrivedOK DEF ListArrives, Arrives
  <2>2. CASE ForThisMount(i)
    <3>1. page \in JobsState /\ page.at = "jobs"
      BY <1>1, <2>1, <2>2
    <3>2. /\ page' = Shows(calls[i].seen.job, page)
          /\ calls' = CardCalls(calls[i].seen.job, Rest(i))
          /\ UNCHANGED <<job, alive, log, rollout, wire, counts, mount>>
      BY <1>2, <2>2 DEF ListArrives
    <3>3. page' \in JobsState /\ calls' \in Seq(Mine)
      BY <1>0, <2>1, <3>1, <3>2, ShowsOK
    <3>4. page'.at = "jobs"
      BY <3>3 DEF JobsState
    <3> QED
      BY <1>0, <3>1, <3>2, <3>3, <3>4, PageStepTypes
      DEF counts, wire, Pages, Stays
  <2>3. CASE ~ForThisMount(i)
    BY <1>0, <1>2, <2>3, PageStepTypes DEF ListArrives, counts, wire, Stays
  <2> QED  BY <2>2, <2>3
<1>3. ASSUME StepsArrive(i) PROVE Types'
  <2>1. page \in JobsState /\ calls[i].seen.job.saved \in Nat
    BY <1>0, <1>3, ArrivedOK, PageIs DEF StepsArrive, OnJobs, Arrives
  <2>2. page' \in JobsState /\ Stays
    BY <1>3, <2>1 DEF StepsArrive, Pick, JobsState, Stays
  <2> QED
    BY <1>0, <1>3, <2>2, PageStepTypes DEF StepsArrive, counts, wire, Pages
<1>4. ASSUME ListActionArrives(i) PROVE Types'
  <2>1. ForThisMount(i) => page.at = "jobs"
    BY <1>0, <1>4, ArrivedOK, PageIs
    DEF ListActionArrives, Arrives, OpsOf, DialogOps
  <2>2. Append(Rest(i), Call("list", 0, calls[i].mount)) \in Seq(Mine)
    BY <1>0, <2>1, SendsOnOK DEF OpsOf, Ops
  <2> QED
    BY <1>0, <1>4, <2>2, PageStepTypes
    DEF ListActionArrives, counts, wire, tab, Stays
<1>5. ASSUME ImportArrives(i) PROVE Types'
  <2>1. ForThisMount(i) => page \in JobsState /\ page.at = "jobs"
    BY <1>1, <1>5 DEF ImportArrives, Arrives
  <2>2. Append(Rest(i), Call("list", 0, calls[i].mount)) \in Seq(Mine)
    BY <1>0, <2>1, SendsOnOK DEF OpsOf, Ops
  <2>3. page' \in Pages /\ Stays
    BY <1>0, <1>5, <2>1 DEF ImportArrives, JobsState, Pages, Stays
  <2> QED
    BY <1>0, <1>5, <2>2, <2>3, PageStepTypes DEF ImportArrives, counts, wire
<1> QED
  BY <1>2, <1>3, <1>4, <1>5 DEF JobsCallback

(* ... and the messages it listens to.                                       *)
LEMMA MessageTypes ==
  ASSUME Types, MessageArrives
  PROVE  Types'
<1> DEFINE e == Head(events)
           j == [page.job EXCEPT !.state = e.job.state, !.saved = e.job.saved]
<1>0. /\ TabOK /\ CallsOK /\ page \in JobsState /\ page.at = "jobs"
      /\ calls \in Seq(Mine) /\ e.job \in Jobs /\ events # <<>>
  <2>1. /\ events # <<>> /\ page.at = "jobs" /\ TabOK /\ CallsOK
        /\ events \in Seq([type : {"changed", "progress"}, job : Jobs])
    BY DEF Types, SocketOK, MessageArrives
  <2>2. e \in [type : {"changed", "progress"}, job : Jobs]
    BY <2>1, HeadTailProperties
  <2> QED  BY <2>1, <2>2, PageIs DEF TabOK, CallsOK
<1>1. j \in Jobs
  BY <1>0 DEF JobsState, Jobs
<1>2. Shows(j, page) \in JobsState /\ CardCalls(j, calls) \in Seq(Mine)
  BY <1>0, <1>1, ShowsOK
<1>3. Sent("list", 0) \in Seq(Mine)
  BY <1>0, SendsOK DEF OpsOf
<1>4. /\ events' = Tail(events)
      /\ UNCHANGED <<job, alive, log, rollout, counts, mount>>
      /\ page' \in {page, Shows(j, page)}
      /\ calls' \in {calls, Sent("list", 0), CardCalls(j, calls)}
  BY DEF MessageArrives
<1> HIDE DEF j
<1>5. page' \in JobsState /\ page'.at = page.at /\ calls' \in Seq(Mine)
  BY <1>0, <1>2, <1>3, <1>4 DEF JobsState
<1> QED
  BY <1>0, <1>4, <1>5, PageStepTypes DEF counts, Pages, Stays, MessageArrives

(* The dialog that runs a checkpoint, and the inference page: the user, ...  *)
LEMMA InferenceUserTypes ==
  ASSUME Types, InferenceUser
  PROVE  Types'
<1>0. /\ TabOK /\ CallsOK /\ page \in Pages
      /\ calls \in Seq(Mine) /\ calls \in Seq(Request)
  BY Typed DEF Types, TabOK
<1>1. ASSUME HasDialog
      PROVE  /\ page.at \in {"jobs", "monitor"}
             /\ page \in JobsState \cup MonitorState
             /\ page.dialog \in Dialogs
             /\ \A d \in Dialogs :
                  /\ [page EXCEPT !.dialog = d] \in Pages
                  /\ [page EXCEPT !.dialog = d].at = page.at
  <2>1. page \in JobsState \cup MonitorState
    BY <1>0, <1>1, PageIs DEF HasDialog
  <2> QED  BY <1>1, <2>1 DEF HasDialog, JobsState, MonitorState, Pages
<1>2. ASSUME NEW k \in 1..max.saved, PickStep(k) PROVE Types'
  <2>1. k \in Nat /\ HasDialog
    BY <1>2, MaxOK DEF Types, PickStep, StepOffered, DialogOpen
  <2>2. page' = [page EXCEPT !.dialog = [page.dialog EXCEPT !.step = k]]
    BY <1>1, <1>2, <2>1 DEF PickStep, JobsState, MonitorState
  <2>3. [page.dialog EXCEPT !.step = k] \in Dialogs
    BY <1>1, <2>1 DEF Dialogs
  <2>4. Sent("config", k) \in Seq(Mine)
    BY <1>0, <1>1, <2>1, SendsOK DEF OpsOf, DialogOps
  <2> QED
    BY <1>0, <1>1, <1>2, <2>1, <2>2, <2>3, <2>4, PageStepTypes
    DEF PickStep, Sends, counts, wire, Stays
<1>3. ASSUME BindCameras \/ CloseDialog PROVE Types'
  <2>1. HasDialog
    BY <1>3 DEF BindCameras, BindOffered, CloseDialog, DialogOpen
  <2>2. \E d \in Dialogs : page' = [page EXCEPT !.dialog = d]
    <3>1. CASE BindCameras
      <4>1. /\ page' = [page EXCEPT !.dialog =
                          [page.dialog EXCEPT !.bound = TRUE]]
            /\ [page.dialog EXCEPT !.bound = TRUE] \in Dialogs
        BY <1>1, <2>1, <3>1 DEF BindCameras, JobsState, MonitorState, Dialogs
      <4> QED  BY <4>1
    <3>2. CASE CloseDialog
      <4> DEFINE d == [page.dialog EXCEPT !.open = FALSE, !.config = 0]
      <4>1. page' = [page EXCEPT !.dialog = d] /\ d \in Dialogs
        BY <1>1, <2>1, <3>2 DEF CloseDialog, JobsState, MonitorState, Dialogs
      <4> QED  BY <4>1
    <3> QED  BY <1>3, <3>1, <3>2
  <2> QED
    BY <1>0, <1>1, <1>3, <2>1, <2>2, PageStepTypes
    DEF BindCameras, CloseDialog, counts, wire, Stays
<1>4. ASSUME ClickRun PROVE Types'
  <2> DEFINE d == [page.dialog EXCEPT !.busy = TRUE]
             c == Call("pause", page.dialog.step, mount)
  <2>1. HasDialog
    BY <1>4 DEF ClickRun, CanStart, DialogOpen
  <2>2. page' = [page EXCEPT !.dialog = d] /\ d \in Dialogs
    BY <1>1, <1>4, <2>1 DEF ClickRun, JobsState, MonitorState, Dialogs
  <2>3. c \in Mine /\ c.op = "pause" /\ c.at = "sent"
    <3>1. page.dialog.step \in Nat
      BY <1>1, <2>1 DEF Dialogs
    <3>2. c \in Mine
      BY <1>0, <1>1, <2>1, <3>1, SendsOK DEF OpsOf, DialogOps
    <3> QED  BY <3>2 DEF Call
  <2>4. calls' = Append(calls, [c EXCEPT !.at = "waiting"])
    BY <1>4 DEF ClickRun
  <2> HIDE DEF c, d
  <2>5. [c EXCEPT !.at = "waiting"] \in Mine
    BY <2>3 DEF Mine, Heard, Request, AnyCall
  <2>6. page' \in Pages /\ page'.at = page.at
    BY <1>1, <2>1, <2>2
  <2>7. calls' \in Seq(Mine)
    BY <1>0, <2>4, <2>5
  <2> QED
    BY <1>0, <1>4, <2>6, <2>7, PageStepTypes DEF ClickRun, Runs, wire, Stays
<1>5. ASSUME AskHalt \/ \E yes \in BOOLEAN : AnswerHalt(yes) PROVE Types'
  <2>1. page \in InferenceState /\ page.at = "inference"
    BY <1>0, <1>5, PageIs
    DEF AskHalt, HaltOffered, Known, AnswerHalt, HaltAsked, OnInference
  <2>2. page' \in InferenceState /\ Stays
    BY <1>5, <2>1 DEF AskHalt, AnswerHalt, InferenceState, Stays
  <2>3. Sent("halt", 0) \in Seq(Mine)
    BY <1>0, <2>1, SendsOK DEF OpsOf
  <2> QED
    BY <1>0, <1>5, <2>2, <2>3, PageStepTypes
    DEF AskHalt, AnswerHalt, Sends, counts, wire, Pages
<1>6. ASSUME LeaveInference PROVE Types'
  BY <1>0, <1>6, OpensTypes, PagesOK DEF LeaveInference, counts
<1> QED
  BY <1>2, <1>3, <1>4, <1>5, <1>6 DEF InferenceUser

(* ... and the answers.                                                      *)
LEMMA InferenceCallbackTypes ==
  ASSUME Types, NEW i \in DOMAIN calls, InferenceCallback(i)
  PROVE  Types'
<1>0. /\ TabOK /\ CallsOK /\ page \in Pages /\ calls[i] \in Request
      /\ Rest(i) \in Seq(Mine) /\ Rest(i) \in Seq(Request)
      /\ calls[i].mount \in Nat \ {0} /\ calls[i].ok \in BOOLEAN
  BY ArrivedOK DEF Types, TabOK
<1>1. ASSUME ForThisMount(i), calls[i].op \in DialogOps
      PROVE  /\ page.at \in {"jobs", "monitor"}
             /\ page \in JobsState \cup MonitorState
             /\ page.dialog \in Dialogs
             /\ \A d \in Dialogs :
                  /\ [page EXCEPT !.dialog = d] \in Pages
                  /\ [page EXCEPT !.dialog = d].at = page.at
  <2>1. page.at \in {"jobs", "monitor"}
    BY <1>0, <1>1, ArrivedOK, PageIs DEF OpsOf, DialogOps
  <2>2. page \in JobsState \cup MonitorState
    BY <1>0, <2>1, PageIs
  <2> QED  BY <2>1, <2>2 DEF JobsState, MonitorState, Pages
<1>2. ASSUME DialogSteps(i) PROVE Types'
  <2> DEFINE n == calls[i].seen.job.saved
             first == page.dialog.step = 0 /\ n > 0
             d == [page.dialog EXCEPT !.steps = n,
                                      !.step = IF first THEN n ELSE @]
  <2>1. n \in Nat /\ calls[i].op \in DialogOps
    BY <1>2, ArrivedOK DEF DialogSteps, Arrives, DialogOps
  <2>2. CASE ForThisMount(i) /\ page.dialog.open
    <3>1. page' = [page EXCEPT !.dialog = d] /\ d \in Dialogs
      BY <1>1, <1>2, <2>1, <2>2
      DEF DialogSteps, JobsState, MonitorState, Dialogs
    <3>2. Call("config", n, mount) \in Mine
      BY <1>0, <1>1, <2>1, <2>2, SendsOK DEF OpsOf, DialogOps
    <3>3. /\ calls' \in {Rest(i), Append(Rest(i), Call("config", n, mount))}
          /\ UNCHANGED <<job, alive, log, rollout, wire, counts, mount>>
      BY <1>2, <2>2 DEF DialogSteps
    <3> HIDE DEF d, n
    <3>4. calls' \in Seq(Mine) /\ page' \in Pages /\ Stays
      BY <1>0, <1>1, <2>1, <2>2, <3>1, <3>2, <3>3 DEF Stays
    <3> QED  BY <1>0, <3>3, <3>4, PageStepTypes DEF counts, wire
  <2>3. CASE ~(ForThisMount(i) /\ page.dialog.open)
    BY <1>0, <1>2, <2>3, PageStepTypes DEF DialogSteps, counts, wire, Stays
  <2> QED  BY <2>2, <2>3
<1>3. ASSUME ConfigArrives(i) PROVE Types'
  <2>1. calls[i].op \in DialogOps /\ calls[i].arg \in Nat
    BY <1>0, <1>3 DEF ConfigArrives, Arrives, DialogOps, Request
  <2>2. page' \in Pages /\ Stays
    <3>1. CASE page' = page
      BY <1>0, <1>3, <3>1 DEF ConfigArrives, Stays
    <3>2. CASE page' # page
      <4>1. PICK found \in BOOLEAN :
              page' = [page EXCEPT
                         !.dialog.config = IF calls[i].ok THEN calls[i].arg
                                           ELSE 0,
                         !.dialog.bound = @ \/ found]
        BY <1>3, <3>2 DEF ConfigArrives
      <4>2. ForThisMount(i)
        BY <1>3, <3>2 DEF ConfigArrives
      <4> DEFINE d == [page.dialog EXCEPT
                         !.config = IF calls[i].ok THEN calls[i].arg ELSE 0,
                         !.bound = @ \/ found]
      <4>3. page' = [page EXCEPT !.dialog = d]
        BY <1>1, <2>1, <4>1, <4>2 DEF JobsState, MonitorState, Dialogs
      <4>4. d \in Dialogs
        BY <1>1, <2>1, <4>2 DEF Dialogs
      <4> HIDE DEF d
      <4> QED  BY <1>1, <1>3, <2>1, <4>2, <4>3, <4>4 DEF Stays, ConfigArrives
    <3> QED  BY <3>1, <3>2
  <2> QED
    BY <1>0, <1>3, <2>2, PageStepTypes DEF ConfigArrives, counts, wire
<1>4. ASSUME PauseOver(i) PROVE Types'
  <2>1. calls[i].op = "pause" /\ calls[i].arg \in Nat
    BY <1>0, <1>4 DEF PauseOver, Request
  <2>2. ForThisMount(i) => "infer" \in OpsOf(page.at)
    BY <1>1, <2>1 DEF DialogOps, OpsOf
  <2>3. Append(Rest(i), Call("infer", calls[i].arg, calls[i].mount))
          \in Seq(Mine)
    BY <1>0, <2>1, <2>2, SendsOnOK DEF Ops, DialogOps
  <2> QED
    BY <1>0, <1>4, <2>3, PageStepTypes DEF PauseOver, counts, wire, tab, Stays
<1>5. ASSUME RunStarted(i) PROVE Types'
  <2>1. calls[i].op \in DialogOps
    BY <1>5 DEF RunStarted, Arrives, DialogOps
  <2>2. CASE Opens(Inference, Rest(i))
    BY <1>0, <1>5, <2>2, OpensTypes, PagesOK DEF RunStarted, counts
  <2>3. CASE ~Opens(Inference, Rest(i))
    <3>1. /\ calls' = Rest(i) /\ UNCHANGED <<mount, wire>>
          /\ \/ page' = page
             \/ /\ ForThisMount(i)
                /\ page' = [page EXCEPT !.dialog.busy = FALSE]
      BY <1>5, <2>3 DEF RunStarted, GoesTo
    <3>2. page' \in Pages /\ Stays
      <4>1. ASSUME ForThisMount(i), page' = [page EXCEPT !.dialog.busy = FALSE]
            PROVE  page' \in Pages /\ page'.at = page.at
        <5>1. /\ page' = [page EXCEPT !.dialog =
                            [page.dialog EXCEPT !.busy = FALSE]]
              /\ [page.dialog EXCEPT !.busy = FALSE] \in Dialogs
          BY <1>1, <2>1, <4>1 DEF JobsState, MonitorState, Dialogs
        <5> QED  BY <1>1, <2>1, <4>1, <5>1
      <4> QED  BY <1>0, <3>1, <4>1 DEF Stays
    <3> QED
      BY <1>0, <1>5, <3>1, <3>2, PageStepTypes DEF RunStarted, counts, wire
  <2> QED  BY <2>2, <2>3
<1>6. ASSUME RolloutArrives(i) PROVE Types'
  <2>1. calls[i].seen.rollout \in Rollouts /\ calls[i].op = "rollout"
    BY <1>6, ArrivedOK DEF RolloutArrives, Follows, Arrives
  <2>2. CASE Opens(JobsList, Rest(i))
    BY <1>0, <1>6, <2>2, OpensTypes, PagesOK
    DEF RolloutArrives, Follows, counts
  <2>3. CASE ~Opens(JobsList, Rest(i)) /\ ~ForThisMount(i)
    BY <1>0, <1>6, <2>3, PageStepTypes
    DEF RolloutArrives, Follows, counts, wire, Stays
  <2>4. CASE ~Opens(JobsList, Rest(i)) /\ ForThisMount(i)
    <3> DEFINE r == calls[i].seen.rollout
               hung == r = "overdue" /\ ~page.asked
    <3>1. page \in InferenceState /\ page.at = "inference"
      BY <1>0, <2>1, <2>4, ArrivedOK, PageIs DEF OpsOf, DialogOps
    <3>2. /\ page' = [page EXCEPT !.shown = r, !.asked = @ \/ hung,
                                  !.left = @ \/ (hung /\ FALSE)]
          /\ calls' \in {Rest(i), Append(Rest(i), Call("halt", 0, mount))}
          /\ UNCHANGED <<mount, wire>>
          /\ UNCHANGED <<job, alive, log, rollout, counts>>
      BY <1>6, <2>4 DEF RolloutArrives, Follows
    <3>3. page' \in InferenceState /\ Stays
      BY <2>1, <3>1, <3>2 DEF InferenceState, Stays
    <3>4. Call("halt", 0, mount) \in Mine
      BY <1>0, <3>1, SendsOK DEF OpsOf
    <3>5. calls' \in Seq(Mine)
      BY <1>0, <3>2, <3>4
    <3> QED
      BY <1>0, <3>2, <3>3, <3>5, PageStepTypes DEF counts, wire, Pages
  <2> QED  BY <2>2, <2>3, <2>4
<1>7. ASSUME HaltArrives(i) PROVE Types'
  BY <1>0, <1>7, PageStepTypes DEF HaltArrives, counts, wire, tab, Stays
<1> QED
  BY <1>2, <1>3, <1>4, <1>5, <1>6, <1>7 DEF InferenceCallback

(* A gate in the place of the form or over it.                               *)
LEMMA ShowsGateOK ==
  ASSUME NEW extra \in Extras, NEW p \in ConfigState
  PROVE  ShowsGate(extra, p) \in ConfigState
<1> DEFINE n == IF extra = "wandb" THEN p.install ELSE "idle"
<1>1. n \in Installs /\ extra \in Extras \cup {"none"}
  BY DEF ConfigState, Installs
<1>2. ShowsGate(extra, p) = [p EXCEPT !.gate = extra, !.install = n]
  BY DEF ShowsGate, ConfigState
<1> HIDE DEF n
<1> QED  BY <1>1, <1>2 DEF ConfigState

(* The training form: its user, ...                                          *)
LEMMA ConfigUserTypes ==
  ASSUME Types,
         \/ \E t \in max.targets : PickTarget(t)
         \/ ChooseDataset \/ ToggleWandb \/ GateUser \/ ClickStart
         \/ LeaveConfig
  PROVE  Types'
<1>0. /\ TabOK /\ CallsOK /\ page \in Pages
      /\ calls \in Seq(Mine) /\ calls \in Seq(Request)
  BY Typed DEF Types, TabOK
<1>1. ASSUME OnConfig
      PROVE  /\ page \in ConfigState /\ page.at = "config"
             /\ \A op \in {"seed", "install", "wandb"} :
                  Call(op, 0, mount) \in Mine /\ Sent(op, 0) \in Seq(Mine)
             /\ Sent("policy", page.target) \in Seq(Mine)
             /\ Sent("start", page.target) \in Seq(Mine)
  <2>1. page \in ConfigState /\ page.at = "config"
    BY <1>0, <1>1, PageIs DEF OnConfig
  <2>2. page.target \in Runners
    BY <2>1 DEF ConfigState
  <2> QED  BY <1>0, <2>1, <2>2, SendsOK DEF OpsOf
<1>2. ASSUME NEW t \in max.targets, PickTarget(t) PROVE Types'
  <2> DEFINE p == [page EXCEPT !.target = t]
  <2>1. page \in ConfigState /\ page.at = "config"
    BY <1>1, <1>2 DEF PickTarget, FormShown
  <2>2. t \in Runners
    BY MaxOK DEF Types
  <2>3. p \in ConfigState /\ ShowsGate("training", p) \in ConfigState
    BY <2>1, <2>2 DEF ConfigState, ShowsGate, Extras, Installs
  <2>4. /\ page' \in {p, ShowsGate("training", p)}
        /\ calls' \in {calls, Seeds(calls)}
        /\ UNCHANGED <<job, alive, log, rollout, wire, counts, mount>>
    BY <1>2 DEF PickTarget, Gated
  <2>5. Seeds(calls) \in Seq(Mine)
    BY <1>0, <1>1, <2>1 DEF Seeds, OnConfig
  <2>6. page' \in ConfigState /\ page'.at = "config"
    BY <2>3, <2>4 DEF ConfigState
  <2> QED
    BY <1>0, <2>1, <2>4, <2>5, <2>6, PageStepTypes
    DEF counts, wire, Stays, Pages
<1>3. ASSUME ChooseDataset \/ ToggleWandb PROVE Types'
  <2>1. page \in ConfigState /\ page.at = "config"
    BY <1>1, <1>3 DEF ChooseDataset, ToggleWandb, FormShown
  <2>2. page' \in ConfigState /\ Stays
    BY <1>3, <2>1 DEF ChooseDataset, ToggleWandb, tab, ConfigState, Stays
  <2>3. Sent("wandb", 0) \in Seq(Mine)
    BY <1>1, <2>1 DEF OnConfig
  <2> QED
    BY <1>0, <1>3, <2>2, <2>3, PageStepTypes
    DEF ChooseDataset, ToggleWandb, Sends, counts, wire, Pages
<1>4. ASSUME GateUser PROVE Types'
  <2>1. page \in ConfigState /\ page.at = "config" /\ OnConfig
    BY <1>1, <1>4
    DEF GateUser, ClickInstall, ClickRetry, CloseGate, InstallOffered,
        RetryOffered, GateShown
  <2>2. page' \in ConfigState /\ Stays
    BY <1>4, <2>1
    DEF GateUser, ClickInstall, ClickRetry, CloseGate, ConfigState, Stays,
        Extras, Installs
  <2>3. \A K \in SUBSET DOMAIN calls : Subsequence(calls, K) \in Seq(Mine)
    BY <1>0, SubsequenceDerived
  <2>4. calls' \in Seq(Mine)
    BY <1>0, <1>1, <1>4, <2>1, <2>3
    DEF GateUser, ClickInstall, ClickRetry, CloseGate, Sends
  <2> QED
    BY <1>0, <1>4, <2>2, <2>4, PageStepTypes
    DEF GateUser, ClickInstall, ClickRetry, CloseGate, counts, wire, Pages
<1>5. ASSUME ClickStart PROVE Types'
  <2>1. page \in ConfigState /\ page.at = "config" /\ OnConfig
    BY <1>1, <1>5 DEF ClickStart, StartShown, FormShown
  <2>2. page' \in ConfigState /\ Stays
    BY <1>5, <2>1 DEF ClickStart, ConfigState, Stays
  <2>3. /\ calls' \in {Sent("policy", Local), Sent("start", page.target)}
        /\ calls' = Sent("policy", Local) => page.target = Local
           \/ calls' = Sent("start", page.target)
        /\ UNCHANGED <<job, alive, log, rollout, wire, max, pip>>
    BY <1>5 DEF ClickStart, Sends, Works
  <2>4. calls' \in Seq(Mine)
    BY <1>1, <2>1, <2>3
  <2> QED
    BY <1>0, <2>2, <2>3, <2>4, PageStepTypes DEF wire, Pages
<1>6. ASSUME LeaveConfig PROVE Types'
  BY <1>0, <1>6, OpensTypes, PagesOK DEF LeaveConfig, counts
<1> QED
  BY <1>2, <1>3, <1>4, <1>5, <1>6

(* ... and its answers.                                                      *)
LEMMA ConfigCallbackTypes ==
  ASSUME Types, NEW i \in DOMAIN calls,
         \/ ExtraArrives(i) \/ BusyArrives(i) \/ ClusterArrives(i)
         \/ WandbArrives(i) \/ GateCallback(i)
         \/ PackageArrives(i) \/ StartArrives(i)
  PROVE  Types'
<1>0. /\ TabOK /\ CallsOK /\ page \in Pages /\ calls[i] \in Request
      /\ Rest(i) \in Seq(Mine) /\ Rest(i) \in Seq(Request)
      /\ calls[i].mount \in Nat \ {0} /\ calls[i].ok \in BOOLEAN
  BY ArrivedOK DEF Types, TabOK
<1>1. ASSUME ForThisMount(i),
             calls[i].op \in {"training", "busy", "cluster", "wandb", "seed",
                              "progress", "install", "policy", "start"}
      PROVE  /\ page \in ConfigState /\ page.at = "config"
             /\ Call("seed", 0, mount) \in Mine
  <2>1. page.at = "config"
    BY <1>0, <1>1, ArrivedOK, PageIs DEF OpsOf, DialogOps
  <2> QED  BY <1>0, <2>1, PageIs, SendsOK DEF OpsOf
<1>2. ASSUME ExtraArrives(i) PROVE Types'
  <2> DEFINE p == [page EXCEPT !.extra = IF calls[i].ok THEN "yes" ELSE "no"]
  <2>1. CASE ForThisMount(i)
    <3>1. page \in ConfigState /\ page.at = "config"
          /\ Call("seed", 0, mount) \in Mine
      BY <1>1, <1>2, <2>1 DEF ExtraArrives, Arrives
    <3>2. p \in ConfigState /\ ShowsGate("training", p) \in ConfigState
      BY <3>1 DEF ConfigState, ShowsGate, Extras, Installs
    <3>3. /\ page' \in {p, ShowsGate("training", p)}
          /\ calls' \in {Rest(i), Seeds(Rest(i))}
          /\ UNCHANGED <<job, alive, log, rollout, wire, counts, mount>>
      BY <1>2, <2>1 DEF ExtraArrives, Gated
    <3> HIDE DEF p
    <3>4. page' \in ConfigState /\ page'.at = "config" /\ calls' \in Seq(Mine)
      BY <1>0, <3>1, <3>2, <3>3 DEF ConfigState, Seeds
    <3> QED
      BY <1>0, <3>1, <3>3, <3>4, PageStepTypes DEF counts, wire, Stays, Pages
  <2>2. CASE ~ForThisMount(i)
    BY <1>0, <1>2, <2>2, PageStepTypes DEF ExtraArrives, counts, wire, Stays
  <2> QED  BY <2>1, <2>2
<1>3. ASSUME BusyArrives(i) \/ ClusterArrives(i) PROVE Types'
  <2>1. ForThisMount(i) => page \in ConfigState /\ page.at = "config"
    BY <1>1, <1>3 DEF BusyArrives, ClusterArrives, Arrives
  <2>2. page' \in Pages /\ Stays
    BY <1>0, <1>3, <2>1
    DEF BusyArrives, ClusterArrives, ConfigState, Pages, Stays
  <2> QED
    BY <1>0, <1>3, <2>2, PageStepTypes
    DEF BusyArrives, ClusterArrives, counts, wire
<1>4. ASSUME WandbArrives(i) PROVE Types'
  <2>1. ForThisMount(i) => /\ page \in ConfigState /\ page.at = "config"
                           /\ Call("seed", 0, mount) \in Mine
    BY <1>1, <1>4 DEF WandbArrives, Arrives
  <2>2. page' \in Pages /\ Stays
    <3>1. /\ \/ page' = page
             \/ ForThisMount(i) /\ page' = ShowsGate("wandb", page)
          /\ mount' = mount
      BY <1>4 DEF WandbArrives
    <3>2. \/ page' = page
          \/ page \in ConfigState /\ page' \in ConfigState
      BY <2>1, <3>1, ShowsGateOK DEF Extras
    <3> QED  BY <1>0, <3>1, <3>2 DEF ConfigState, Pages, Stays
  <2>3. calls' \in Seq(Mine)
    BY <1>0, <1>4, <2>1 DEF WandbArrives, Seeds
  <2> QED
    BY <1>0, <1>4, <2>2, <2>3, PageStepTypes DEF WandbArrives, counts, wire
<1>5. ASSUME GateCallback(i) PROVE Types'
  <2>1. ForThisMount(i) => page \in ConfigState /\ page.at = "config"
    BY <1>1, <1>5
    DEF GateCallback, SeedArrives, InstallArrives, ProgressArrives, Arrives
  <2>2. ~InstallArrives(i) => calls[i].seen.pip \in Installs
    BY <1>5, ArrivedOK
    DEF GateCallback, SeedArrives, ProgressArrives, Arrives
  <2>3. page' \in Pages /\ Stays
    BY <1>0, <1>5, <2>1, <2>2
    DEF GateCallback, SeedArrives, InstallArrives, ProgressArrives, tab,
        ConfigState, Pages, Stays
  <2> QED
    BY <1>0, <1>5, <2>3, PageStepTypes
    DEF GateCallback, SeedArrives, InstallArrives, ProgressArrives, counts,
        wire
<1>6. ASSUME PackageArrives(i) PROVE Types'
  <2>1. calls[i].op = "policy" /\ calls[i].arg \in Runners
    BY <1>0, <1>6 DEF PackageArrives, Arrives, Request
  <2>2. ForThisMount(i) => /\ page \in ConfigState /\ page.at = "config"
                           /\ Call("seed", 0, mount) \in Mine
    BY <1>1, <2>1
  <2>3. Append(Rest(i), Call("start", calls[i].arg, calls[i].mount))
          \in Seq(Mine)
    BY <1>0, <2>1, <2>2, SendsOnOK DEF OpsOf, Ops
  <2>4. page' \in Pages /\ Stays
    <3>1. /\ \/ page' = page
             \/ /\ ForThisMount(i)
                /\ page' \in {[page EXCEPT !.busy = TRUE],
                              ShowsGate("policy", page)}
          /\ mount' = mount
      BY <1>6 DEF PackageArrives
    <3>2. page \in ConfigState => ShowsGate("policy", page) \in ConfigState
      BY ShowsGateOK DEF Extras
    <3>3. \/ page' = page
          \/ page \in ConfigState /\ page' \in ConfigState
      BY <2>2, <3>1, <3>2 DEF ConfigState
    <3> QED  BY <1>0, <3>1, <3>3 DEF ConfigState, Pages, Stays
  <2>5. calls' \in Seq(Mine)
    BY <1>0, <1>6, <2>2, <2>3 DEF PackageArrives, Seeds
  <2> QED
    BY <1>0, <1>6, <2>4, <2>5, PageStepTypes DEF PackageArrives, counts, wire
<1>7. ASSUME StartArrives(i) PROVE Types'
  <2>1. CASE Opens(Monitor, Rest(i))
    BY <1>0, <1>7, <2>1, OpensTypes, PagesOK DEF StartArrives, counts
  <2>2. CASE ~Opens(Monitor, Rest(i))
    <3>1. ForThisMount(i) => page \in ConfigState /\ page.at = "config"
      BY <1>1, <1>7 DEF StartArrives, Arrives
    <3>2. Append(Rest(i), Call("busy", 0, calls[i].mount)) \in Seq(Mine)
      BY <1>0, <3>1, SendsOnOK DEF OpsOf, Ops
    <3>3. page' \in Pages /\ Stays
      BY <1>0, <1>7, <2>2, <3>1
      DEF StartArrives, GoesTo, ConfigState, Pages, Stays
    <3>4. calls' \in Seq(Mine) /\ UNCHANGED wire
      BY <1>0, <1>7, <2>2, <3>2 DEF StartArrives, GoesTo
    <3> QED
      BY <1>0, <1>7, <3>3, <3>4, PageStepTypes DEF StartArrives, counts, wire
  <2> QED  BY <2>1, <2>2
<1> QED
  BY <1>2, <1>3, <1>4, <1>5, <1>6, <1>7

(* The page that follows a training: its user, ...                           *)
LEMMA MonitorUserTypes ==
  ASSUME Types,
         \/ ClickStopRun \/ ClickResume \/ ClickDeleteRun
         \/ (\E k \in 1..max.saved : PickRun(k)) \/ OpenRun \/ LeaveMonitor
  PROVE  Types'
<1>0. /\ TabOK /\ CallsOK /\ page \in Pages
      /\ calls \in Seq(Mine) /\ calls \in Seq(Request)
  BY Typed DEF Types, TabOK
<1>1. ASSUME OnMonitor
      PROVE  page \in MonitorState /\ page.at = "monitor"
  BY <1>0, <1>1, PageIs DEF OnMonitor
<1>2. ASSUME ClickStopRun \/ ClickResume \/ ClickDeleteRun PROVE Types'
  <2>1. page.at = "monitor"
    BY <1>2
    DEF ClickStopRun, ClickResume, ClickDeleteRun, AtHand, Loaded, OnMonitor
  <2>2. \A op \in {"stop", "resume", "delete"} : Sent(op, 0) \in Seq(Mine)
    BY <1>0, <2>1, SendsOK DEF OpsOf
  <2>3. /\ \E op \in {"stop", "resume", "delete"} : calls' = Sent(op, 0)
        /\ UNCHANGED <<job, alive, log, rollout, wire, tab, max, pip>>
    BY <1>2 DEF ClickStopRun, ClickResume, ClickDeleteRun, Sends, Works, counts
  <2> QED
    BY <1>0, <2>2, <2>3, PageStepTypes DEF wire, tab, Stays
<1>3. ASSUME NEW k \in 1..max.saved, PickRun(k) PROVE Types'
  <2>1. page \in MonitorState /\ k \in Nat
    BY <1>1, <1>3, MaxOK DEF Types, PickRun, AtHand, Loaded
  <2>2. page' \in MonitorState /\ Stays
    BY <1>3, <2>1 DEF PickRun, MonitorState, Stays
  <2> QED
    BY <1>0, <1>3, <2>2, PageStepTypes DEF PickRun, counts, wire, Pages
<1>4. ASSUME OpenRun PROVE Types'
  <2>1. page \in MonitorState /\ page.at = "monitor"
    BY <1>1, <1>4 DEF OpenRun, RunOffered, AtHand, Loaded
  <2>2. page.dialog \in Dialogs
    BY <2>1 DEF MonitorState
  <2>3. /\ calls' \in Seq(Mine) /\ Opened(page.dialog) \in Dialogs
        /\ page' = [page EXCEPT !.dialog = Opened(page.dialog)]
    BY <1>4, <2>1, <2>2, OpeningOK DEF OpenRun, MonitorState
  <2>4. page' \in MonitorState /\ Stays
    BY <1>4, <2>1, <2>3 DEF OpenRun, MonitorState, Stays
  <2> QED
    BY <1>0, <1>4, <2>3, <2>4, PageStepTypes DEF OpenRun, counts, wire, Pages
<1>5. ASSUME LeaveMonitor PROVE Types'
  BY <1>0, <1>5, OpensTypes, PagesOK DEF LeaveMonitor, counts
<1> QED
  BY <1>2, <1>3, <1>4, <1>5

(* ... and its answers.                                                      *)
LEMMA MonitorCallbackTypes ==
  ASSUME Types, NEW i \in DOMAIN calls,
         \/ LogFileArrives(i) \/ JobArrives(i) \/ LogsArrive(i)
         \/ CheckpointsArrive(i) \/ StopRunArrives(i) \/ ResumeArrives(i)
         \/ DeletionArrives(i)
  PROVE  Types'
<1>0. /\ TabOK /\ CallsOK /\ page \in Pages /\ calls[i] \in Request
      /\ Rest(i) \in Seq(Mine) /\ Rest(i) \in Seq(Request)
      /\ calls[i].mount \in Nat \ {0} /\ calls[i].ok \in BOOLEAN
  BY ArrivedOK DEF Types, TabOK
<1>1. ASSUME ForThisMount(i),
             calls[i].op \in {"log-file", "job", "logs", "stop", "resume",
                              "delete"}
      PROVE  page \in MonitorState /\ page.at = "monitor"
  BY <1>0, <1>1, ArrivedOK, PageIs DEF OpsOf, DialogOps
<1>2. calls[i].at = "answered" =>
        /\ calls[i].seen.job \in Jobs /\ calls[i].seen.job.saved \in Nat
        /\ calls[i].seen.lines \in Seq(Nat)
  BY ArrivedOK
<1>3. ASSUME LogFileArrives(i) \/ LogsArrive(i) PROVE Types'
  <2>1. /\ ForThisMount(i) => page \in MonitorState /\ page.at = "monitor"
        /\ calls[i].seen.lines \in Seq(Nat)
    BY <1>1, <1>2, <1>3 DEF LogFileArrives, LogsArrive, Arrives
  <2>2. /\ \/ page' = page
           \/ /\ ForThisMount(i)
              /\ page' \in {[page EXCEPT !.log = calls[i].seen.lines],
                            [page EXCEPT !.log = @ \o calls[i].seen.lines]}
        /\ mount' = mount
    BY <1>3 DEF LogFileArrives, LogsArrive
  <2>3. page \in MonitorState => page.log \o calls[i].seen.lines \in Seq(Nat)
    BY <2>1 DEF MonitorState
  <2>4. page' \in Pages /\ Stays
    BY <1>0, <2>1, <2>2, <2>3 DEF MonitorState, Pages, Stays
  <2> QED
    BY <1>0, <1>3, <2>4, PageStepTypes
    DEF LogFileArrives, LogsArrive, counts, wire
<1>4. ASSUME JobArrives(i) PROVE Types'
  <2>1. /\ ForThisMount(i) => page \in MonitorState /\ page.at = "monitor"
        /\ calls[i].seen.job \in Jobs
    BY <1>1, <1>2, <1>4 DEF JobArrives, Arrives
  <2>2. ASSUME ForThisMount(i)
        PROVE  Call("logs", 0, mount) \in Mine
    BY <1>0, <2>1, <2>2, SendsOK DEF OpsOf
  <2>3. ASSUME ForThisMount(i)
        PROVE  ShowsJob(calls[i].seen.job) \in MonitorState
    <3>1. page \in MonitorState
      BY <2>1, <2>3
    <3> DEFINE d == IF page.dialog.mounted THEN page.dialog
                    ELSE [page.dialog EXCEPT !.mounted = TRUE,
                                             !.step = page.picked]
    <3>2. ShowsJob(calls[i].seen.job) =
            [page EXCEPT !.job = calls[i].seen.job, !.dialog = d]
      BY <3>1 DEF ShowsJob, MonitorState
    <3>3. d \in Dialogs
      BY <3>1 DEF MonitorState, Dialogs
    <3> HIDE DEF d
    <3> QED  BY <2>1, <3>1, <3>2, <3>3 DEF MonitorState
  <2>4. /\ \/ page' = page
           \/ ForThisMount(i) /\ page' = [page EXCEPT !.gone = TRUE]
           \/ ForThisMount(i) /\ page' = ShowsJob(calls[i].seen.job)
        /\ \/ calls' = Rest(i)
           \/ /\ ForThisMount(i)
              /\ calls' = Append(Rest(i), Call("logs", 0, mount))
        /\ UNCHANGED <<job, alive, log, rollout, wire, counts, mount>>
    BY <1>4 DEF JobArrives
  <2>5. page' \in Pages /\ page'.at = page.at
    <3>1. \/ page' = page
          \/ page \in MonitorState /\ page' \in MonitorState
      BY <2>1, <2>3, <2>4 DEF MonitorState
    <3> QED  BY <1>0, <3>1 DEF MonitorState, Pages
  <2>6. calls' \in Seq(Mine)
    BY <1>0, <2>2, <2>4
  <2> QED
    BY <1>0, <2>4, <2>5, <2>6, PageStepTypes DEF counts, wire, Stays
<1>5. ASSUME CheckpointsArrive(i) PROVE Types'
  <2>1. /\ ForThisMount(i) => page \in MonitorState
        /\ calls[i].seen.job.saved \in Nat
    <3>1. calls[i].op = "steps" /\ page.at # "jobs"
      BY <1>5 DEF CheckpointsArrive, Arrives
    <3>2. ForThisMount(i) => page.at = "monitor"
      BY <1>0, <3>1, ArrivedOK, PageIs DEF OpsOf, DialogOps
    <3> QED  BY <1>0, <1>2, <1>5, <3>2, PageIs DEF CheckpointsArrive, Arrives
  <2>2. page' \in Pages /\ Stays
    BY <1>0, <1>5, <2>1 DEF CheckpointsArrive, MonitorState, Pages, Stays
  <2> QED
    BY <1>0, <1>5, <2>2, PageStepTypes DEF CheckpointsArrive, counts, wire
<1>6. ASSUME StopRunArrives(i) \/ ResumeArrives(i) PROVE Types'
  <2>1. /\ ForThisMount(i) => page \in MonitorState
        /\ calls[i].seen.job \in Jobs
    BY <1>1, <1>2, <1>6 DEF StopRunArrives, ResumeArrives, Arrives
  <2>2. RecordShown(i)
    BY <1>6 DEF StopRunArrives, ResumeArrives
  <2>3. page' \in Pages /\ Stays
    BY <1>0, <2>1, <2>2 DEF RecordShown, MonitorState, Pages, Stays
  <2> QED
    BY <1>0, <2>2, <2>3, PageStepTypes DEF RecordShown, counts, wire
<1>7. ASSUME DeletionArrives(i) PROVE Types'
  <2>1. CASE Opens(JobsList, Rest(i))
    BY <1>0, <1>7, <2>1, OpensTypes, PagesOK DEF DeletionArrives, counts
  <2>2. CASE ~Opens(JobsList, Rest(i))
    BY <1>0, <1>7, <2>2, PageStepTypes
    DEF DeletionArrives, GoesTo, counts, wire, Stays
  <2> QED  BY <2>1, <2>2
<1> QED
  BY <1>3, <1>4, <1>5, <1>6, <1>7

(* The server's answer to a request.                                         *)
LEMMA ServesTypes ==
  ASSUME Types, ServerOK', SocketOK', NEW i \in DOMAIN calls,
         UNCHANGED tab,
         \/ \E ok \in BOOLEAN : \E seen \in Replies : Answers(i, ok, seen)
         \/ calls' \in Seq(Mine)
  PROVE  Types'
<1>1. calls' \in Seq(Mine)
  BY AnswersOK DEF Types
<1>2. TabOK' /\ Mine' = Mine
  BY DEF Types, TabOK, tab, Mine
<1> QED  BY <1>1, <1>2 DEF Types, CallsOK

(* What the server's records and the bus of changes look like.               *)
LEMMA ServerIs ==
  ASSUME Types
  PROVE  /\ Reply \in Replies /\ Record \in Replies
         /\ \A p \in Installs : [Reply EXCEPT !.pip = p] \in Replies
         /\ \A r \in Rollouts : [Reply EXCEPT !.rollout = r] \in Replies
         /\ \A j \in Jobs : [Record EXCEPT !.job = j] \in Replies
         /\ \A l \in Seq(Nat) : [Reply EXCEPT !.lines = l] \in Replies
         /\ Notifies => SocketOK' \/ max' # max \/ page' # page
<1>1. Reply \in Replies
  BY PagesOK DEF Reply, Replies, Rollouts, Installs
<1>2. Record \in Replies
  BY <1>1 DEF Record, Replies, Types, ServerOK
<1>3. ASSUME Notifies, UNCHANGED <<max, page>> PROVE SocketOK'
  <2>1. Changed \in [type : {"changed", "progress"}, job : Jobs]
    BY PagesOK DEF Changed
  <2>2. /\ events' = events \/ events' = Append(events, Changed)
        /\ events' # events => socket = "open"
        /\ socket' = socket
    BY <1>3 DEF Notifies
  <2>3. events \in Seq([type : {"changed", "progress"}, job : Jobs])
    BY DEF Types, SocketOK
  <2>4. /\ events' \in Seq([type : {"changed", "progress"}, job : Jobs])
        /\ events' # <<>> => socket' # "closed"
    <3>1. CASE events' = events
      BY <2>2, <2>3, <3>1 DEF Types, SocketOK
    <3>2. CASE events' = Append(events, Changed) /\ socket = "open"
      BY <2>1, <2>2, <2>3, <3>2
    <3> QED  BY <2>2, <3>1, <3>2
  <2> QED  BY <1>3, <2>2, <2>4 DEF Types, SocketOK
<1>4. /\ \A p \in Installs : [Reply EXCEPT !.pip = p] \in Replies
      /\ \A r \in Rollouts : [Reply EXCEPT !.rollout = r] \in Replies
      /\ \A j \in Jobs : [Record EXCEPT !.job = j] \in Replies
      /\ \A l \in Seq(Nat) : [Reply EXCEPT !.lines = l] \in Replies
  BY <1>1, <1>2 DEF Replies
<1> QED  BY <1>1, <1>2, <1>3, <1>4

(* The lines from a on are numbers.                                          *)
LEMMA LinesOK ==
  ASSUME NEW a \in Nat, NEW b \in Nat, a <= b
  PROVE  /\ Lines(a, b) \in Seq(Nat) /\ Len(Lines(a, b)) = b - a
         /\ \A k \in 1..(b - a) : Lines(a, b)[k] = a + k
BY DEF Lines

(* The handlers of requests about jobs.                                      *)
LEMMA JobHandlersTypes ==
  ASSUME Types, NEW i \in DOMAIN calls,
         \/ StartsJob(i) \/ ImportsModel(i) \/ StopsJob(i) \/ StopAnswers(i)
         \/ ResumesJob(i) \/ DeletesJob(i)
  PROVE  Types'
<1>0. /\ ServerOK /\ SocketOK /\ CallsOK /\ TabOK
      /\ Reply \in Replies /\ Record \in Replies /\ calls[i] \in Mine
      /\ calls[i] \in Request
  BY ServerIs, Typed DEF Types
<1>1. ASSUME UNCHANGED <<max, page>>, Notifies \/ UNCHANGED wire
      PROVE  SocketOK'
  BY <1>0, <1>1, ServerIs DEF SocketOK, wire
<1>2. ASSUME NEW s \in {"none", "running", "done", "failed"},
             NEW r \in Runners \cup {Imported, Nowhere}, NEW n \in Nat
      PROVE  [state |-> s, runner |-> r, saved |-> n] \in Jobs
  BY DEF Jobs
<1>3. ASSUME NEW s \in {"none", "running", "done", "failed"}
      PROVE  [job EXCEPT !.state = s] \in Jobs
  BY <1>0 DEF ServerOK, Jobs
<1>4. CASE StartsJob(i)
  <2>1. calls[i].arg \in Runners
    BY <1>0, <1>4 DEF StartsJob, Begins, Request
  <2>2. /\ job' = job \/ \E s \in {"running", "failed"} :
             job' = [state |-> s, runner |-> calls[i].arg, saved |-> 0]
        /\ alive' \in {alive, TRUE}
        /\ UNCHANGED <<log, rollout, counts, tab>>
        /\ Notifies \/ UNCHANGED wire
    BY <1>4 DEF StartsJob
  <2>3. ServerOK'
    BY <1>0, <1>2, <2>1, <2>2 DEF ServerOK, log, counts
  <2>4. SocketOK'
    BY <1>1, <2>2 DEF counts, tab
  <2>5. \E ok \in BOOLEAN : \E seen \in Replies : Answers(i, ok, seen)
    BY <1>0, <1>4 DEF StartsJob
  <2> QED  BY <2>2, <2>3, <2>4, <2>5, ServesTypes
<1>5. CASE ImportsModel(i)
  <2>1. /\ job' = job \/ \E n \in 1..max.saved :
             job' = [state |-> "done", runner |-> Imported, saved |-> n]
        /\ UNCHANGED <<alive, log, rollout, counts, tab>>
        /\ Notifies \/ UNCHANGED wire
    BY <1>5 DEF ImportsModel
  <2>2. ServerOK'
    BY <1>0, <1>2, <2>1, MaxOK DEF ServerOK, log, counts
  <2>3. SocketOK'
    BY <1>1, <2>1 DEF counts, tab
  <2>4. \E ok \in BOOLEAN : \E seen \in Replies : Answers(i, ok, seen)
    BY <1>0, <1>5 DEF ImportsModel
  <2> QED  BY <2>1, <2>2, <2>3, <2>4, ServesTypes
<1>6. CASE StopsJob(i) \/ StopAnswers(i)
  <2>1. UNCHANGED <<job, log, rollout, wire, counts, tab>>
        /\ alive' \in {alive, FALSE}
    BY <1>6 DEF StopsJob, StopAnswers
  <2>2. ServerOK' /\ SocketOK'
    BY <1>0, <1>1, <2>1 DEF ServerOK, log, counts, tab
  <2>3. \/ \E ok \in BOOLEAN : \E seen \in Replies : Answers(i, ok, seen)
        \/ calls' \in Seq(Mine)
    <3>1. CASE calls' = [calls EXCEPT ![i].at = "waiting"]
      <4>0. calls[i].op \in {"stop", "stop-card"}
        BY <1>6 DEF StopsJob, StopAnswers, Begins
      <4>1. [calls[i] EXCEPT !.at = "waiting"] \in Mine
        BY <1>0, <4>0 DEF Mine, Heard, Request, AnyCall
      <4>2. calls' = [calls EXCEPT ![i] = [calls[i] EXCEPT !.at = "waiting"]]
        BY <3>1
      <4> QED  BY <1>0, <4>1, <4>2 DEF CallsOK
    <3>2. CASE calls' # [calls EXCEPT ![i].at = "waiting"]
      BY <1>0, <1>6, <3>2 DEF StopsJob, StopAnswers
    <3> QED  BY <3>1, <3>2
  <2> QED  BY <2>1, <2>2, <2>3, ServesTypes
<1>7. CASE ResumesJob(i)
  <2>1. /\ job' = job \/ \E s \in {"running", "failed"} :
                            job' = [job EXCEPT !.state = s]
        /\ alive' \in {alive, TRUE}
        /\ UNCHANGED <<log, rollout, counts, tab>>
        /\ Notifies \/ UNCHANGED wire
    BY <1>7 DEF ResumesJob
  <2>2. ServerOK'
    BY <1>0, <1>3, <2>1 DEF ServerOK, log, counts
  <2>3. SocketOK'
    BY <1>1, <2>1 DEF counts, tab
  <2>4. \E ok \in BOOLEAN : \E seen \in Replies : Answers(i, ok, seen)
    <3>1. [Record EXCEPT !.job.state = "running"] =
            [Record EXCEPT !.job = [job EXCEPT !.state = "running"]]
      BY <1>0 DEF Record, Reply
    <3>2. [Record EXCEPT !.job.state = "running"] \in Replies
      BY <1>3, <3>1, ServerIs
    <3> QED  BY <1>0, <1>7, <3>2 DEF ResumesJob
  <2> QED  BY <2>1, <2>2, <2>3, <2>4, ServesTypes
<1>8. CASE DeletesJob(i)
  <2>1. /\ \/ UNCHANGED <<job, log, wire>>
           \/ /\ job' = NoJob /\ Notifies
              /\ file' = 0 /\ put' = 0 /\ drained' = 0
        /\ UNCHANGED <<alive, rollout, counts, tab>>
    BY <1>8 DEF DeletesJob
  <2>2. ServerOK'
    BY <1>0, <2>1, PagesOK DEF ServerOK, log, counts
  <2>3. SocketOK'
    BY <1>1, <2>1 DEF counts, tab
  <2>4. \E ok \in BOOLEAN : \E seen \in Replies : Answers(i, ok, seen)
    <3>1. Answers(i, job.state \in {"done", "failed"}, Reply)
      BY <1>8 DEF DeletesJob
    <3>2. (job.state \in {"done", "failed"}) \in BOOLEAN
      OBVIOUS
    <3> QED  BY <1>0, <3>1, <3>2
  <2> QED  BY <2>1, <2>2, <2>3, <2>4, ServesTypes
<1> QED
  BY <1>4, <1>5, <1>6, <1>7, <1>8

(* The other handlers.                                                       *)
LEMMA HandlersTypes ==
  ASSUME Types, NEW i \in DOMAIN calls,
         \/ ListsJobs(i) \/ Looks(i) \/ LooksForExtra(i) \/ ReportsJob(i)
         \/ InstallsExtra(i) \/ ReportsInstall(i)
         \/ DrainsLogs(i) \/ ReadsFile(i) \/ FileRead(i)
         \/ StartsRollout(i) \/ ReportsRollout(i) \/ StopsRollout(i)
  PROVE  Types'
<1>0. /\ ServerOK /\ SocketOK /\ CallsOK /\ TabOK
      /\ Reply \in Replies /\ Record \in Replies /\ calls[i] \in Mine
      /\ calls[i] \in Request /\ Rest(i) \in Seq(Mine)
  BY ServerIs, Typed DEF Types
<1>1. CASE ListsJobs(i) \/ Looks(i) \/ LooksForExtra(i) \/ ReportsJob(i)
  <2>1. /\ UNCHANGED <<job, alive, log, rollout, socket, events, counts, tab>>
        /\ \E ok \in BOOLEAN, seen \in {Reply, Record} : Answers(i, ok, seen)
    BY <1>1
    DEF ListsJobs, Looks, LooksForExtra, ReportsJob, wire, Running
  <2>2. ServerOK' /\ SocketOK'
    BY <1>0, <2>1 DEF ServerOK, SocketOK, log, counts, tab
  <2> QED  BY <1>0, <2>1, <2>2, ServesTypes
<1>2. CASE InstallsExtra(i) \/ ReportsInstall(i)
  <2>1. /\ UNCHANGED <<job, alive, log, rollout, wire, max, tab>>
        /\ pip' \in {pip, "installing"}
        /\ \E ok \in BOOLEAN, seen \in {Reply, [Reply EXCEPT !.pip = pip]} :
             Answers(i, ok, seen)
    BY <1>2 DEF InstallsExtra, ReportsInstall, counts
  <2>2. ServerOK' /\ SocketOK'
    BY <1>0, <2>1 DEF ServerOK, SocketOK, log, wire, tab, Installs
  <2>3. [Reply EXCEPT !.pip = pip] \in Replies
    BY <1>0, ServerIs DEF ServerOK
  <2> QED  BY <1>0, <2>1, <2>2, <2>3, ServesTypes
<1>3. CASE DrainsLogs(i)
  <2>1. /\ drained' = put
        /\ UNCHANGED <<job, alive, file, put, rollout, wire, counts, tab>>
        /\ Answers(i, job # NoJob,
                   [Reply EXCEPT !.lines = Lines(drained, put)])
    BY <1>3 DEF DrainsLogs
  <2>2. ServerOK' /\ SocketOK'
    BY <1>0, <2>1 DEF ServerOK, SocketOK, wire, tab, counts
  <2>3. [Reply EXCEPT !.lines = Lines(drained, put)] \in Replies
    BY <1>0, ServerIs, LinesOK DEF ServerOK
  <2> QED  BY <2>1, <2>2, <2>3, ServesTypes
<1>4. CASE ReadsFile(i)
  <2> DEFINE c == [calls[i] EXCEPT !.at = "reading", !.ok = job # NoJob,
                     !.seen = [Reply EXCEPT !.lines = Lines(0, file)]]
  <2>1. /\ UNCHANGED <<job, alive, log, rollout, wire, counts, tab>>
        /\ calls' = [calls EXCEPT ![i] = c] /\ calls[i].op = "log-file"
    BY <1>4 DEF ReadsFile, Begins
  <2>2. ServerOK' /\ SocketOK'
    BY <1>0, <2>1 DEF ServerOK, SocketOK, wire, tab, counts, log
  <2>3. c \in Mine
    <3>1. [Reply EXCEPT !.lines = Lines(0, file)] \in Replies
      <4>1. 0 <= file /\ file \in Nat /\ 0 \in Nat
        BY <1>0 DEF ServerOK
      <4>2. Lines(0, file) \in Seq(Nat)
        BY <4>1, LinesOK
      <4> QED  BY <4>2, ServerIs
    <3> QED  BY <1>0, <2>1, <3>1 DEF Mine, Heard, Request, AnyCall
  <2> HIDE DEF c
  <2>4. calls' \in Seq(Mine)
    BY <1>0, <2>1, <2>3 DEF CallsOK
  <2> QED  BY <2>1, <2>2, <2>4, ServesTypes
<1>5. CASE FileRead(i)
  <2>1. /\ drained' = put
        /\ UNCHANGED <<job, alive, file, put, rollout, wire, counts, tab>>
        /\ calls' = Append(Rest(i), [calls[i] EXCEPT !.at = "answered"])
        /\ calls[i].at = "reading"
    BY <1>5 DEF FileRead, Rest
  <2>2. ServerOK' /\ SocketOK'
    BY <1>0, <2>1 DEF ServerOK, SocketOK, wire, tab, counts
  <2>3. [calls[i] EXCEPT !.at = "answered"] \in Mine
    BY <1>0, <2>1 DEF Mine, Heard, Request, AnyCall
  <2>4. calls' \in Seq(Mine)
    BY <1>0, <2>1, <2>3
  <2> QED  BY <2>1, <2>2, <2>4, ServesTypes
<1>6. CASE StartsRollout(i) \/ ReportsRollout(i) \/ StopsRollout(i)
  <2>1. /\ UNCHANGED <<job, alive, log, wire, counts, tab>>
        /\ rollout' \in {rollout, "setup", "off"}
        /\ \E ok \in BOOLEAN,
              seen \in {Reply, [Reply EXCEPT !.rollout = rollout]} :
             Answers(i, ok, seen)
    BY <1>6 DEF StartsRollout, ReportsRollout, StopsRollout
  <2>2. ServerOK' /\ SocketOK'
    BY <1>0, <2>1 DEF ServerOK, SocketOK, log, wire, tab, counts, Rollouts
  <2>3. [Reply EXCEPT !.rollout = rollout] \in Replies
    BY <1>0, ServerIs DEF ServerOK
  <2> QED  BY <1>0, <2>1, <2>2, <2>3, ServesTypes
<1> QED
  BY <1>1, <1>2, <1>3, <1>4, <1>5, <1>6

(* What happens by itself, on the server and in the browser.                 *)
LEMMA RestTypes ==
  ASSUME Types,
         \/ Watchdog \/ Process \/ RolloutGoesOn \/ InstallEnds
         \/ SocketDrops \/ Socket
         \/ PollJob \/ PollSteps \/ PollCluster \/ PollRollout \/ PollInstall
  PROVE  Types'
<1>0. ServerOK /\ SocketOK /\ CallsOK /\ TabOK /\ calls \in Seq(Mine)
  BY DEF Types, CallsOK
<1>1. ASSUME ServerOK', SocketOK', UNCHANGED <<calls, tab>> PROVE Types'
  <2>1. TabOK' /\ Mine' = Mine
    BY <1>0, <1>1 DEF TabOK, tab, Mine
  <2> QED  BY <1>0, <1>1, <2>1 DEF Types, CallsOK
<1>2. CASE Finalise
  <2>1. ServerOK'
    BY <1>0, <1>2 DEF Finalise, ServerOK, counts, Jobs
  <2>2. SocketOK'
    BY <1>2, ServerIs DEF Finalise, counts, tab
  <2> QED  BY <1>1, <1>2, <2>1, <2>2 DEF Finalise
<1>3. CASE ReportProgress
  <2>1. [type |-> "progress", job |-> job] \in
          [type : {"changed", "progress"}, job : Jobs]
    BY <1>0 DEF ServerOK
  <2>2. /\ events' = <<[type |-> "progress", job |-> job]>>
        /\ socket = "open"
        /\ UNCHANGED <<job, alive, log, rollout, socket, counts, calls, tab>>
    BY <1>3 DEF ReportProgress
  <2>3. SocketOK'
    BY <1>0, <2>1, <2>2 DEF SocketOK, counts, tab
  <2>4. ServerOK'
    BY <1>0, <2>2 DEF ServerOK, log, counts
  <2> QED  BY <1>1, <2>2, <2>3, <2>4
<1>4. CASE Process
  <2>1. ServerOK'
    <3>1. CASE WriteLine \/ QueueLine
      BY <1>0, <3>1 DEF WriteLine, QueueLine, ServerOK, counts
    <3>2. CASE SaveCheckpoint
      <4>1. job' \in Jobs
        BY <1>0, <3>2 DEF SaveCheckpoint, ServerOK, Jobs
      <4> QED  BY <1>0, <3>2, <4>1 DEF SaveCheckpoint, ServerOK, log, counts
    <3>3. CASE ProcessExits
      BY <1>0, <3>3 DEF ProcessExits, ServerOK, log, counts
    <3> QED  BY <1>4, <3>1, <3>2, <3>3 DEF Process
  <2>2. SocketOK' /\ UNCHANGED <<calls, tab>>
    BY <1>0, <1>4
    DEF Process, WriteLine, QueueLine, SaveCheckpoint, ProcessExits, SocketOK,
        wire, counts, tab
  <2> QED  BY <1>1, <2>1, <2>2
<1>5. CASE RolloutGoesOn \/ InstallEnds
  <2>1. ServerOK'
    BY <1>0, <1>5
    DEF RolloutGoesOn, InstallEnds, ServerOK, log, counts, Rollouts, Installs
  <2>2. SocketOK' /\ UNCHANGED <<calls, tab>>
    BY <1>0, <1>5
    DEF RolloutGoesOn, InstallEnds, SocketOK, wire, counts, tab
  <2> QED  BY <1>1, <2>1, <2>2
<1>6. CASE SocketDrops \/ Socket
  <2>1. UNCHANGED <<job, alive, log, rollout, counts>>
    BY <1>6 DEF SocketDrops, Socket, SocketOpens, SocketReconnects
  <2>3. ServerOK'
    BY <1>0, <2>1 DEF ServerOK, log, counts
  <2>2. /\ UNCHANGED <<calls, tab>>
        /\ events' \in {events, <<>>} /\ socket # "closed"
        /\ socket' # "closed"
    BY <1>6 DEF SocketDrops, Socket, SocketOpens, SocketReconnects
  <2>4. SocketOK'
    <3>1. max' = max /\ page' = page
      BY <2>1, <2>2 DEF counts, tab
    <3>2. socket # "closed" => page.at = "jobs"
      BY <1>0 DEF SocketOK
    <3>3. events' \in Seq([type : {"changed", "progress"}, job : Jobs])
      <4>1. events \in Seq([type : {"changed", "progress"}, job : Jobs])
        BY <1>0 DEF SocketOK
      <4>2. <<>> \in Seq([type : {"changed", "progress"}, job : Jobs])
        OBVIOUS
      <4> QED  BY <2>2, <4>1, <4>2
    <3> QED  BY <1>0, <2>2, <3>1, <3>2, <3>3 DEF SocketOK
  <2> QED  BY <1>1, <2>2, <2>3, <2>4
<1>7. CASE PollJob \/ PollSteps \/ PollCluster \/ PollRollout \/ PollInstall
  <2>1. /\ \E op \in OpsOf(page.at) \ {"policy", "start"} :
             calls' = Sent(op, 0)
        /\ UNCHANGED <<job, alive, log, rollout, wire, counts, tab>>
    BY <1>7
    DEF PollJob, PollSteps, PollCluster, PollRollout, PollInstall, OnMonitor,
        OnConfig, OnInference, OpsOf
  <2>2. calls' \in Seq(Mine)
    BY <1>0, <2>1, SendsOK
  <2> QED
    BY <1>0, <2>1, <2>2, PageStepTypes DEF TabOK, counts, wire, tab, Stays
<1> QED
  BY <1>2, <1>3, <1>4, <1>5, <1>6, <1>7 DEF Watchdog

(* The types hold at the start, and every step keeps them.                   *)
LEMMA InitTypes == Init => Types
<1> SUFFICES ASSUME Init PROVE Types
  OBVIOUS
<1>1. Call("list", 0, 1) \in Mine
  BY CallOK DEF Init, Mine, Heard, JobsList, OpsOf, Ops, DialogOps
<1>2. CallsOK
  BY <1>1 DEF Init, CallsOK
<1>3. ServerOK
  <2>1. /\ job \in Jobs /\ alive = FALSE /\ pip = "idle" /\ rollout = "off"
        /\ file = 0 /\ put = 0 /\ drained = 0
    BY PagesOK DEF Init
  <2>2. alive \in BOOLEAN /\ pip \in Installs /\ rollout \in Rollouts
    BY <2>1 DEF Installs, Rollouts
  <2>3. /\ file \in Nat /\ put \in Nat /\ drained \in Nat
        /\ drained <= put /\ put <= file
    BY <2>1
  <2> QED  BY <2>1, <2>2, <2>3 DEF ServerOK
<1>4. SocketOK /\ TabOK
  BY PagesOK DEF Init, SocketOK, TabOK, JobsList
<1> QED  BY <1>2, <1>3, <1>4 DEF Types

LEMMA StepTypes == Types /\ [Next]_vars => Types'
<1> SUFFICES ASSUME Types, [Next]_vars PROVE Types'
  OBVIOUS
<1>1. CASE UNCHANGED vars
  BY <1>1
  DEF vars, Types, ServerOK, SocketOK, TabOK, CallsOK, Mine, log, wire,
      counts, tab
<1>2. CASE User
  BY <1>2, JobsUserTypes, ConfigUserTypes, MonitorUserTypes,
     InferenceUserTypes
  DEF User, TrainingUser
<1>3. ASSUME NEW i \in DOMAIN calls, Callback(i) PROVE Types'
  BY <1>3, JobsCallbackTypes, ConfigCallbackTypes, MonitorCallbackTypes,
     InferenceCallbackTypes
  DEF Callback, TrainingCallback
<1>4. ASSUME NEW i \in DOMAIN calls, Serves(i) PROVE Types'
  BY <1>4, JobHandlersTypes, HandlersTypes DEF Serves
<1>5. CASE \/ Browser \/ Watchdog \/ Process \/ RolloutGoesOn \/ InstallEnds
           \/ SocketDrops
  BY <1>5, RestTypes, MessageTypes DEF Browser
<1> QED
  BY <1>1, <1>2, <1>3, <1>4, <1>5 DEF Next

(* Server, socket, page and requests stay well-formed, and every answer that *)
(* a page hears is to a request of its own kind.                             *)
THEOREM TypesCorrect == Spec => []Types
  BY InitTypes, StepTypes, PTL DEF Spec

-----------------------------------------------------------------------------
(* What a step does to the requests of some kinds.                           *)

(* The requests of the kinds H are the same in the same order but for those  *)
(* at the positions D, which are gone, and those of New, which are the last: *)
(* f tells where a request was before.                                       *)
MovesBy(f, H, D, New) ==
  /\ f \in [1..Len(calls') -> Nat]
  /\ \A k, l \in 1..Len(calls') : k < l => f[k] < f[l]
  /\ \A k \in 1..Len(calls') : calls'[k].op \in H =>
       \/ f[k] \in (1..Len(calls)) \ D /\ calls'[k] = calls[f[k]]
       \/ f[k] = Len(calls) + 1 /\ calls'[k] \in New
  /\ \A i \in (1..Len(calls)) \ D : calls[i].op \in H =>
       \E k \in 1..Len(calls') : f[k] = i /\ calls'[k] = calls[i]
  /\ \A c \in New : c.op \in H =>
       \E k \in 1..Len(calls') : f[k] = Len(calls) + 1 /\ calls'[k] = c
Moves(H, D, New) == \E f : MovesBy(f, H, D, New)

(* Nothing happens; one is sent; a callback runs, and perhaps sends another; *)
(* an answer is given.                                                       *)
LEMMA StillMoves ==
  ASSUME CallsOK, NEW H, calls' = calls
  PROVE  Moves(H, {}, {})
<1> DEFINE f == [k \in 1..Len(calls') |-> k]
<1>1. Len(calls) \in Nat
  BY Typed
<1>2. MovesBy(f, H, {}, {})
  BY <1>1 DEF MovesBy
<1> QED  BY <1>2 DEF Moves

LEMMA SendingMoves ==
  ASSUME CallsOK, NEW H, NEW c, calls' = Append(calls, c)
  PROVE  Moves(H, {}, {c})
<1> DEFINE f == [k \in 1..Len(calls') |-> k]
<1>1. /\ Len(calls) \in Nat /\ Len(calls') = Len(calls) + 1
      /\ \A k \in 1..Len(calls) : calls'[k] = calls[k]
      /\ calls'[Len(calls) + 1] = c
  BY Typed
<1>2. MovesBy(f, H, {}, {c})
  BY <1>1 DEF MovesBy
<1> QED  BY <1>2 DEF Moves

LEMMA RestIs ==
  ASSUME CallsOK, NEW i \in DOMAIN calls
  PROVE  /\ Len(calls) \in Nat /\ i \in 1..Len(calls) /\ i \in Nat
         /\ Rest(i) \in Seq(Request) /\ Len(Rest(i)) = Len(calls) - 1
         /\ \A k \in 1..(Len(calls) - 1) :
              Rest(i)[k] = IF k < i THEN calls[k] ELSE calls[k + 1]
<1>1. calls \in Seq(Request) /\ i \in 1..Len(calls) /\ Len(calls) \in Nat
  BY Typed
<1>2. /\ RemoveAt(calls, i) \in Seq(Request)
      /\ Len(RemoveAt(calls, i)) = Len(calls) - 1
      /\ \A k \in 1..(Len(calls) - 1) :
           RemoveAt(calls, i)[k] = IF k < i THEN calls[k] ELSE calls[k + 1]
  BY <1>1, RemoveAtElements, Zenon
<1> QED  BY <1>1, <1>2 DEF Rest

LEMMA RestFrom ==
  ASSUME CallsOK, NEW i \in DOMAIN calls
  PROVE  /\ Rest(i) \in Seq(Request)
         /\ \A k \in DOMAIN Rest(i) :
              \E j \in DOMAIN calls \ {i} : Rest(i)[k] = calls[j]
<1>1. /\ Len(calls) \in Nat /\ i \in 1..Len(calls) /\ i \in Nat
      /\ Rest(i) \in Seq(Request) /\ Len(Rest(i)) = Len(calls) - 1
      /\ \A k \in 1..(Len(calls) - 1) :
           Rest(i)[k] = IF k < i THEN calls[k] ELSE calls[k + 1]
      /\ DOMAIN calls = 1..Len(calls)
  BY RestIs, Typed
<1>2. DOMAIN Rest(i) = 1..(Len(calls) - 1)
  BY <1>1
<1>3. ASSUME NEW k \in DOMAIN Rest(i)
      PROVE  \E j \in DOMAIN calls \ {i} : Rest(i)[k] = calls[j]
  <2>1. CASE k < i
    BY <1>1, <1>2, <2>1
  <2>2. CASE ~(k < i)
    <3>1. k + 1 \in DOMAIN calls \ {i} /\ Rest(i)[k] = calls[k + 1]
      BY <1>1, <1>2, <2>2
    <3> QED  BY <3>1
  <2> QED  BY <2>1, <2>2
<1> QED  BY <1>1, <1>3

LEMMA EndingMoves ==
  ASSUME CallsOK, NEW H, NEW i \in DOMAIN calls, calls' = Rest(i)
  PROVE  Moves(H, {i}, {})
<1> DEFINE f == [k \in 1..Len(calls') |-> IF k < i THEN k ELSE k + 1]
<1>1. /\ Len(calls) \in Nat /\ i \in 1..Len(calls) /\ i \in Nat
      /\ Len(calls') = Len(calls) - 1
      /\ \A k \in 1..(Len(calls) - 1) :
           calls'[k] = IF k < i THEN calls[k] ELSE calls[k + 1]
  BY RestIs
<1>2. \A j \in (1..Len(calls)) \ {i} :
        \E k \in 1..Len(calls') : f[k] = j /\ calls'[k] = calls[j]
  <2> TAKE j \in (1..Len(calls)) \ {i}
  <2>1. CASE j < i
    <3>1. j \in 1..Len(calls') /\ f[j] = j /\ calls'[j] = calls[j]
      BY <1>1, <2>1
    <3> QED  BY <3>1
  <2>2. CASE j > i
    <3>1. /\ j - 1 \in 1..Len(calls') /\ f[j - 1] = j
          /\ calls'[j - 1] = calls[j]
      BY <1>1, <2>2
    <3> QED  BY <3>1
  <2> QED  BY <1>1, <2>1, <2>2
<1>3. /\ f \in [1..Len(calls') -> Nat]
      /\ \A k, l \in 1..Len(calls') : k < l => f[k] < f[l]
  BY <1>1
<1>4. \A k \in 1..Len(calls') :
        f[k] \in (1..Len(calls)) \ {i} /\ calls'[k] = calls[f[k]]
  BY <1>1
<1>5. MovesBy(f, H, {i}, {})
  BY <1>2, <1>3, <1>4 DEF MovesBy
<1> QED  BY <1>5 DEF Moves

LEMMA GoingOnMoves ==
  ASSUME CallsOK, NEW H, NEW i \in DOMAIN calls, NEW c,
         calls' = Append(Rest(i), c)
  PROVE  Moves(H, {i}, {c})
<1> DEFINE f == [k \in 1..Len(calls') |-> IF k < i THEN k ELSE k + 1]
           n == Len(calls)
<1>1. /\ n \in Nat /\ i \in 1..n /\ i \in Nat
      /\ Rest(i) \in Seq(Request) /\ Len(Rest(i)) = n - 1
      /\ \A k \in 1..(n - 1) :
           Rest(i)[k] = IF k < i THEN calls[k] ELSE calls[k + 1]
  BY RestIs
<1>2. /\ Len(calls') = n /\ calls'[n] = c
      /\ \A k \in 1..(n - 1) :
           calls'[k] = IF k < i THEN calls[k] ELSE calls[k + 1]
  BY <1>1
<1> HIDE DEF n
<1>3. \A j \in (1..n) \ {i} :
        \E k \in 1..Len(calls') : f[k] = j /\ calls'[k] = calls[j]
  <2> TAKE j \in (1..n) \ {i}
  <2>1. CASE j < i
    <3>1. j \in 1..Len(calls') /\ f[j] = j /\ calls'[j] = calls[j]
      BY <1>1, <1>2, <2>1
    <3> QED  BY <3>1
  <2>2. CASE j > i
    <3>1. /\ j - 1 \in 1..Len(calls') /\ f[j - 1] = j
          /\ calls'[j - 1] = calls[j]
      BY <1>1, <1>2, <2>2
    <3> QED  BY <3>1
  <2> QED  BY <1>1, <2>1, <2>2
<1>4. /\ f \in [1..Len(calls') -> Nat]
      /\ \A k, l \in 1..Len(calls') : k < l => f[k] < f[l]
  BY <1>1, <1>2
<1>5. \A k \in 1..Len(calls') :
        \/ f[k] \in (1..n) \ {i} /\ calls'[k] = calls[f[k]]
        \/ f[k] = n + 1 /\ calls'[k] \in {c}
  <2> TAKE k \in 1..Len(calls')
  <2>1. CASE k = n
    BY <1>1, <1>2, <2>1
  <2>2. CASE k # n
    BY <1>1, <1>2, <2>2
  <2> QED  BY <2>1, <2>2
<1>6. \E k \in 1..Len(calls') : f[k] = n + 1 /\ calls'[k] = c
  <2>1. n \in 1..Len(calls') /\ f[n] = n + 1
    BY <1>1, <1>2
  <2> QED  BY <1>2, <2>1
<1>7. MovesBy(f, H, {i}, {c})
  BY <1>3, <1>4, <1>5, <1>6 DEF MovesBy, n
<1> QED  BY <1>7 DEF Moves

(* What is of other kinds does not matter.                                   *)
LEMMA MovesLess ==
  ASSUME CallsOK, NEW H, NEW D, NEW New, Moves(H, D, New),
         \A i \in D \cap DOMAIN calls : calls[i].op \notin H,
         \A c \in New : c.op \notin H
  PROVE  Moves(H, {}, {})
<1>1. PICK f : MovesBy(f, H, D, New)
  BY DEF Moves
<1>2. MovesBy(f, H, {}, {})
  BY <1>1, Typed DEF MovesBy
<1> QED  BY <1>2 DEF Moves

(* A step that leaves the requests of the kinds H alone.                     *)
Spares(H) ==
  \/ calls' = calls
  \/ \E c : c.op \notin H /\ calls' = Append(calls, c)
  \/ \E c, d : /\ c.op \notin H /\ d.op \notin H
               /\ calls' = Append(Append(calls, c), d)
  \/ \E i \in DOMAIN calls : calls[i].op \notin H /\ calls' = Rest(i)
  \/ \E i \in DOMAIN calls : \E c :
       /\ calls[i].op \notin H /\ c.op \notin H
       /\ calls' = Append(Rest(i), c)
  \/ \E i \in DOMAIN calls : \E c :
       /\ calls[i].op \notin H /\ c.op \notin H
       /\ calls' = [calls EXCEPT ![i] = c]

LEMMA SparesMoves ==
  ASSUME CallsOK, NEW H, Spares(H)
  PROVE  Moves(H, {}, {})
<1>1. CASE calls' = calls
  BY <1>1, StillMoves
<1>2. ASSUME NEW c, c.op \notin H, calls' = Append(calls, c)
      PROVE  Moves(H, {}, {})
  <2>1. Moves(H, {}, {c})
    BY <1>2, SendingMoves
  <2> QED  BY <1>2, <2>1, MovesLess
<1>3. ASSUME NEW c, NEW d, c.op \notin H, d.op \notin H,
             calls' = Append(Append(calls, c), d)
      PROVE  Moves(H, {}, {})
  <2> DEFINE f == [k \in 1..Len(calls') |-> k]
  <2>1. /\ Len(calls) \in Nat /\ Len(calls') = Len(calls) + 2
        /\ \A k \in 1..Len(calls) : calls'[k] = calls[k]
        /\ calls'[Len(calls) + 1] = c /\ calls'[Len(calls) + 2] = d
    BY <1>3, Typed
  <2>2. MovesBy(f, H, {}, {})
    BY <1>3, <2>1 DEF MovesBy
  <2> QED  BY <2>2 DEF Moves
<1>4. ASSUME NEW i \in DOMAIN calls, calls[i].op \notin H, calls' = Rest(i)
      PROVE  Moves(H, {}, {})
  <2>1. Moves(H, {i}, {})
    BY <1>4, EndingMoves
  <2> QED  BY <1>4, <2>1, MovesLess
<1>5. ASSUME NEW i \in DOMAIN calls, NEW c, calls[i].op \notin H,
             c.op \notin H, calls' = Append(Rest(i), c)
      PROVE  Moves(H, {}, {})
  <2>1. Moves(H, {i}, {c})
    BY <1>5, GoingOnMoves
  <2> QED  BY <1>5, <2>1, MovesLess
<1>6. ASSUME NEW i \in DOMAIN calls, NEW c, calls[i].op \notin H,
             c.op \notin H, calls' = [calls EXCEPT ![i] = c]
      PROVE  Moves(H, {}, {})
  <2> DEFINE f == [k \in 1..Len(calls') |-> k]
  <2>1. /\ Len(calls) \in Nat /\ Len(calls') = Len(calls)
        /\ i \in 1..Len(calls) /\ calls'[i] = c
        /\ \A k \in 1..Len(calls) : k # i => calls'[k] = calls[k]
    BY <1>6, Typed
  <2>2. MovesBy(f, H, {}, {})
    BY <1>6, <2>1 DEF MovesBy
  <2> QED  BY <2>2 DEF Moves
<1> QED  BY <1>1, <1>2, <1>3, <1>4, <1>5, <1>6 DEF Spares

(* What each of the invariants looks at is as before.                        *)
Weightless == \A i \in DOMAIN calls : calls[i].op \notin Weighty
DialogsFit ==
  /\ \/ page'.importing \in {page.importing, "no"}
     \/ page'.importing = "open" /\ Weightless /\ ~alive
  /\ page'.dialog.open =>
       \/ page.dialog.open /\ page'.importing = page.importing
       \/ Weightless /\ page'.importing = "no"
WeightLight ==
  /\ Moves(Weighty, {}, {}) /\ Stays
  /\ alive' => alive /\ (Running => Running')
  /\ OnJobs => DialogsFit

GateOps == {"install", "seed", "progress"}
GateLight ==
  /\ Moves(GateOps, {}, {}) /\ Stays /\ pip' = pip
  /\ OnConfig => page'.gate = page.gate /\ page'.install = page.install

LogOps == {"log-file", "job", "logs"}
LogLight ==
  /\ Moves(LogOps, {}, {}) /\ Stays /\ (job' # NoJob => UNCHANGED log)
  /\ OnMonitor => /\ page'.log = page.log
                  /\ job = NoJob => job' = NoJob

(* The requests after a step, and where those of some kinds come from.       *)
LEMMA TypedNext ==
  ASSUME CallsOK'
  PROVE  /\ Len(calls') \in Nat /\ DOMAIN calls' = 1..Len(calls')
         /\ \A k \in DOMAIN calls' :
              /\ calls'[k] \in Request
              /\ calls'[k].mount = mount' => calls'[k].op \in OpsOf(page'.at)
<1>1. calls' \in Seq(Mine')
  BY DEF CallsOK
<1>2. \A k \in DOMAIN calls' : calls'[k] \in Mine'
  BY <1>1
<1>3. \A k \in DOMAIN calls' :
        /\ calls'[k] \in Request
        /\ calls'[k].mount = mount' => calls'[k].op \in OpsOf(page'.at)
  BY <1>2 DEF Mine, Heard
<1>4. Len(calls') \in Nat /\ DOMAIN calls' = 1..Len(calls')
  BY <1>1
<1> QED  BY <1>3, <1>4

LEMMA Origin ==
  ASSUME CallsOK, CallsOK', NEW H, Moves(H, {}, {})
  PROVE  \E f :
           /\ \A k, l \in DOMAIN calls' :
                calls'[k].op \in H /\ calls'[l].op \in H =>
                  (k < l <=> f[k] < f[l]) /\ (k = l <=> f[k] = f[l])
           /\ \A k \in DOMAIN calls' : calls'[k].op \in H =>
                f[k] \in DOMAIN calls /\ calls'[k] = calls[f[k]]
           /\ \A i \in DOMAIN calls : calls[i].op \in H =>
                \E k \in DOMAIN calls' : f[k] = i /\ calls'[k] = calls[i]
<1>1. PICK f : MovesBy(f, H, {}, {})
  BY DEF Moves
<1>2. /\ DOMAIN calls = 1..Len(calls) /\ Len(calls) \in Nat
      /\ DOMAIN calls' = 1..Len(calls') /\ Len(calls') \in Nat
  BY Typed, TypedNext
<1>3. \A k, l \in DOMAIN calls' :
        (k < l <=> f[k] < f[l]) /\ (k = l <=> f[k] = f[l])
  <2> TAKE k \in DOMAIN calls', l \in DOMAIN calls'
  <2>1. /\ k \in 1..Len(calls') /\ l \in 1..Len(calls')
        /\ k \in Nat /\ l \in Nat /\ f[k] \in Nat /\ f[l] \in Nat
    BY <1>1, <1>2 DEF MovesBy
  <2>2. (k < l => f[k] < f[l]) /\ (l < k => f[l] < f[k])
    BY <1>1, <2>1 DEF MovesBy
  <2> QED  BY <2>1, <2>2
<1>4. \A k \in DOMAIN calls' : calls'[k].op \in H =>
        f[k] \in DOMAIN calls /\ calls'[k] = calls[f[k]]
  BY <1>1, <1>2 DEF MovesBy
<1>5. \A i \in DOMAIN calls : calls[i].op \in H =>
        \E k \in DOMAIN calls' : f[k] = i /\ calls'[k] = calls[i]
  BY <1>1, <1>2 DEF MovesBy
<1> QED  BY <1>3, <1>4, <1>5

-----------------------------------------------------------------------------
(* Steps that leave what an invariant looks at alone keep it.                *)
LEMMA WeightFrame ==
  ASSUME Types, Types', AloneInv, AliveInv, WeightLight
  PROVE  AloneInv' /\ AliveInv'
<1>1. PICK f :
        /\ \A k, l \in DOMAIN calls' :
             calls'[k].op \in Weighty /\ calls'[l].op \in Weighty =>
               (k = l <=> f[k] = f[l])
        /\ \A k \in DOMAIN calls' : calls'[k].op \in Weighty =>
             f[k] \in DOMAIN calls /\ calls'[k] = calls[f[k]]
        /\ \A i \in DOMAIN calls : calls[i].op \in Weighty =>
             \E k \in DOMAIN calls' : f[k] = i /\ calls'[k] = calls[i]
  BY Origin DEF Types, WeightLight
<1>2. /\ mount' = mount /\ page'.at = page.at
      /\ alive' => alive /\ (Running => Running')
      /\ OnJobs' =>
           /\ OnJobs
           /\ \/ page'.importing \in {page.importing, "no"}
              \/ page'.importing = "open" /\ Weightless /\ ~alive
           /\ page'.dialog.open =>
                \/ page.dialog.open /\ page'.importing = page.importing
                \/ Weightless /\ page'.importing = "no"
  BY DEF WeightLight, DialogsFit, Stays, OnJobs
<1>3. AloneInv'
  <2>1. \A k \in DOMAIN calls' : calls'[k].op \in Weighty =>
          /\ calls'[k].mount = mount'
          /\ \A l \in DOMAIN calls' : calls'[l].op \in Weighty => l = k
    BY <1>1, <1>2 DEF AloneInv, ForThisMount
  <2>2. OnJobs' /\ page'.importing = "open" =>
          \A k \in DOMAIN calls' : calls'[k].op \notin Weighty
    BY <1>1, <1>2 DEF AloneInv, Weightless
  <2>3. OnJobs' /\ page'.dialog.open =>
          /\ page'.importing = "no"
          /\ \A k \in DOMAIN calls' : calls'[k].op # "import"
    BY <1>1, <1>2 DEF AloneInv, Weightless, Weighty
  <2> QED  BY <2>1, <2>2, <2>3 DEF AloneInv, ForThisMount, OnJobs
<1>4. AliveInv'
  <2>1. Started => Started'
    <3>1. SUFFICES ASSUME NEW i \in DOMAIN calls, calls[i].op = "start",
                          calls[i].at = "answered", calls[i].ok
                   PROVE  Started'
      BY DEF Started
    <3>2. PICK k \in DOMAIN calls' : calls'[k] = calls[i]
      BY <1>1, <3>1 DEF Weighty
    <3> QED  BY <3>1, <3>2 DEF Started
  <2>2. \A k \in DOMAIN calls' :
          calls'[k].op = "import" /\ ~(calls'[k].at = "answered" /\ calls'[k].ok)
            => ~alive'
    BY <1>1, <1>2 DEF AliveInv, Weighty
  <2>3. alive' => Running'
    BY <1>2 DEF AliveInv
  <2>4. OnConfig' /\ ~Started' => ~alive'
    BY <1>2, <2>1 DEF AliveInv, OnConfig
  <2>5. OnJobs' /\ page'.importing = "open" => ~alive'
    BY <1>2 DEF AliveInv
  <2> QED  BY <2>2, <2>3, <2>4, <2>5 DEF AliveInv, OnConfig, OnJobs
<1> QED  BY <1>3, <1>4

(* Elsewhere there is no gate, and no log.                                   *)
LEMMA GateElsewhere ==
  ASSUME Types', ~OnConfig'
  PROVE  GateInv'
<1>1. Asked' = {}
  <2>1. ASSUME NEW k \in DOMAIN calls', calls'[k].mount = mount'
        PROVE  calls'[k].op \notin {"seed", "progress"}
    <3>1. calls'[k].op \in OpsOf(page'.at)
      BY <2>1, TypedNext DEF Types
    <3>2. page'.at \in {"jobs", "monitor", "inference"}
      <4>1. page' \in Pages
        BY DEF Types, TabOK
      <4> QED  BY <4>1, PageIs DEF OnConfig
    <3> QED  BY <3>1, <3>2 DEF OpsOf, DialogOps
  <2> QED  BY <2>1 DEF Asked, ForThisMount
<1>2. ~Seeded'
  BY DEF Seeded, GateShown
<1> QED  BY <1>1, <1>2 DEF GateInv

LEMMA GateFrame ==
  ASSUME Types, Types', GateInv, GateLight
  PROVE  GateInv'
<1>1. SUFFICES ASSUME OnConfig' PROVE GateInv'
  BY GateElsewhere
<1>2. PICK f :
        /\ \A k, l \in DOMAIN calls' :
             calls'[k].op \in GateOps /\ calls'[l].op \in GateOps =>
               (k < l <=> f[k] < f[l])
        /\ \A k \in DOMAIN calls' : calls'[k].op \in GateOps =>
             f[k] \in DOMAIN calls /\ calls'[k] = calls[f[k]]
        /\ \A i \in DOMAIN calls : calls[i].op \in GateOps =>
             \E k \in DOMAIN calls' : f[k] = i /\ calls'[k] = calls[i]
  BY Origin DEF Types, GateLight
<1>3. /\ mount' = mount /\ pip' = pip /\ GateShown' = GateShown
      /\ page'.install = page.install
  BY <1>1 DEF GateLight, Stays, GateShown, OnConfig
<1>4. \A k \in Asked' :
        /\ k \in DOMAIN calls' /\ calls'[k].op \in GateOps
        /\ f[k] \in Asked /\ calls'[k] = calls[f[k]]
  BY <1>2, <1>3 DEF Asked, ForThisMount, GateOps
<1>5. \A k \in Installing' :
        /\ k \in DOMAIN calls' /\ calls'[k].op \in GateOps
        /\ f[k] \in Installing /\ calls'[k] = calls[f[k]]
  BY <1>2 DEF Installing, GateOps
<1>6. \A i \in Asked : \E k \in Asked' : calls'[k] = calls[i]
  BY <1>2, <1>3 DEF Asked, ForThisMount, GateOps
<1>7. \A i \in Installing : \E k \in Installing' : calls'[k] = calls[i]
  BY <1>2 DEF Installing, GateOps
<1>8. \A i \in Installing' : \A j \in Asked' : i < j /\ calls'[j].at = "sent"
  BY <1>2, <1>4, <1>5 DEF GateInv
<1>9. Seeded' => Seeded
  BY <1>3, <1>6 DEF Seeded
<1>10. Fits(page.install)' <=> Fits(page.install)
  BY <1>3 DEF Fits
<1>11. (Installing' = {}) <=> (Installing = {})
  BY <1>5, <1>7
<1>12. \A i \in Asked' : calls'[i].at = "answered" => Fits(calls[i].seen.pip)'
  BY <1>3, <1>4 DEF GateInv, Fits
<1> QED
  BY <1>3, <1>8, <1>9, <1>10, <1>11, <1>12 DEF GateInv, Fits

(* What goes on with the lines after the k-th goes on with later ones.       *)
LEMMA GoesOnLater ==
  ASSUME NEW s, NEW k \in Nat, NEW l \in Nat, k <= l, GoesOn(s, k)
  PROVE  GoesOn(s, l)
<1>1. 1..k \subseteq 1..l /\ 1..(k + 1) \subseteq 1..(l + 1)
  OBVIOUS
<1> QED  BY <1>1 DEF GoesOn

LEMMA CoveredLater ==
  ASSUME NEW s, NEW texts, NEW d \in Nat, NEW e \in Nat, d <= e,
         NEW gone, NEW more, gone \subseteq more,
         \A k \in 1..e : k \in 1..d \/ k \in more,
         Covered(s, texts, d, gone)
  PROVE  Covered(s, texts, e, more)
<1>1. /\ texts = {} => GoesOn(s, e)
      /\ \A t \in texts : GoesOn(s \o t, e)
  BY GoesOnLater DEF Covered
<1> QED  BY <1>1 DEF Covered

(* The lines' part of the invariant after a step.                            *)
LEMMA LinesNext ==
  ASSUME \A i \in Fetching' : calls'[i].at = "reading" =>
           /\ calls'[i].ok
           /\ \E f \in 0..(put' + 1) : calls'[i].seen.lines = Lines(0, f),
         Fetching' = {} => /\ \A i \in Fetched' : calls'[i].ok
                           /\ Covered(page'.log, Texts', drained', lost')
  PROVE  LinesInv'
BY DEF LinesInv, Covered, GoesOn, Seam, InRange, Lines

LEMMA LogFrame ==
  ASSUME Types, Types', LogInv, LogLight
  PROVE  LogInv'
<1>1. SUFFICES ASSUME OnMonitor' PROVE (OrderInv /\ (job # NoJob => LinesInv))'
  BY DEF LogInv
<1>2. PICK f :
        /\ \A k, l \in DOMAIN calls' :
             calls'[k].op \in LogOps /\ calls'[l].op \in LogOps =>
               (k < l <=> f[k] < f[l]) /\ (k = l <=> f[k] = f[l])
        /\ \A k \in DOMAIN calls' : calls'[k].op \in LogOps =>
             f[k] \in DOMAIN calls /\ calls'[k] = calls[f[k]]
        /\ \A i \in DOMAIN calls : calls[i].op \in LogOps =>
             \E k \in DOMAIN calls' : f[k] = i /\ calls'[k] = calls[i]
  BY Origin DEF Types, LogLight
<1>3. /\ mount' = mount /\ page'.log = page.log /\ OnMonitor
      /\ (job' # NoJob => job # NoJob)
      /\ job' # NoJob => /\ file' = file /\ put' = put
                         /\ drained' = drained /\ lost' = lost
  BY <1>1 DEF LogLight, Stays, OnMonitor, log
<1>4. OrderInv /\ (job' # NoJob => LinesInv)
  BY <1>3 DEF LogInv
<1>5. \A op \in LogOps :
        /\ \A k \in Own(op)' : /\ k \in DOMAIN calls' /\ calls'[k].op \in LogOps
                               /\ f[k] \in Own(op) /\ calls'[k] = calls[f[k]]
        /\ \A i \in Own(op) : \E k \in Own(op)' : f[k] = i
  BY <1>2, <1>3 DEF Own, ForThisMount
<1>6. \A k \in Unserved' :
        /\ k \in DOMAIN calls' /\ calls'[k].op \in LogOps
        /\ f[k] \in Unserved /\ calls'[k] = calls[f[k]]
  BY <1>2 DEF Unserved, LogOps
<1>7. \A i \in Unserved : \E k \in Unserved' : f[k] = i
  BY <1>2 DEF Unserved, LogOps
<1>8. /\ \A k \in Fetching' : /\ k \in DOMAIN calls'
                              /\ calls'[k].op \in LogOps
                              /\ f[k] \in Fetching /\ calls'[k] = calls[f[k]]
      /\ \A i \in Fetching : \E k \in Fetching' : f[k] = i
  BY <1>2, <1>5, <1>6, <1>7 DEF Fetching, LogOps, Own, Unserved, ForThisMount
<1>9. /\ \A k \in Fetched' : f[k] \in Fetched /\ calls'[k] = calls[f[k]]
      /\ \A i \in Fetched : \E k \in Fetched' : f[k] = i
  BY <1>2, <1>5 DEF Fetched, LogOps, Own, ForThisMount
<1>10. \A op \in {"log-file", "job", "logs"} : op \in LogOps
  BY DEF LogOps
<1>11. OrderInv'
  <2>1. \A i \in Own("log-file")' :
          /\ page'.log = <<>> /\ Own("logs")' = {} /\ Own("log-file")' = {i}
          /\ \A j \in Own("job")' : calls'[j].at = "answered" => i < j
    <3> SUFFICES ASSUME NEW i \in Own("log-file")'
                 PROVE  /\ page'.log = <<>> /\ Own("logs")' = {}
                        /\ Own("log-file")' = {i}
                        /\ \A j \in Own("job")' :
                             calls'[j].at = "answered" => i < j
      OBVIOUS
    <3>1. /\ f[i] \in Own("log-file")
          /\ page.log = <<>> /\ Own("logs") = {}
          /\ Own("log-file") = {f[i]}
          /\ \A j \in Own("job") : calls[j].at = "answered" => f[i] < j
      BY <1>4, <1>5, <1>10 DEF OrderInv
    <3>2. Own("logs")' = {}
      BY <1>5, <1>10, <3>1
    <3>3. \A j \in Own("log-file")' : j = i
      BY <1>2, <1>5, <1>10, <3>1
    <3>4. \A j \in Own("job")' : calls'[j].at = "answered" => i < j
      BY <1>2, <1>5, <1>10, <3>1
    <3> QED  BY <1>3, <3>1, <3>2, <3>3, <3>4
  <2>2. \A i \in Fetching' :
          /\ \A j \in Own("job")' : i < j /\ calls'[j].at = "sent"
          /\ \A j \in Unserved' \ {i} : j < i /\ calls'[i].at = "sent"
    <3> SUFFICES ASSUME NEW i \in Fetching'
                 PROVE  /\ \A j \in Own("job")' : i < j /\ calls'[j].at = "sent"
                        /\ \A j \in Unserved' \ {i} :
                             j < i /\ calls'[i].at = "sent"
      OBVIOUS
    <3>1. /\ f[i] \in Fetching /\ calls'[i] = calls[f[i]]
          /\ i \in DOMAIN calls' /\ calls'[i].op \in LogOps
          /\ \A j \in Own("job") : f[i] < j /\ calls[j].at = "sent"
          /\ \A j \in Unserved \ {f[i]} : j < f[i] /\ calls[f[i]].at = "sent"
      BY <1>4, <1>8 DEF OrderInv
    <3>2. \A j \in Own("job")' : i < j /\ calls'[j].at = "sent"
      BY <1>2, <1>5, <1>10, <3>1
    <3>3. \A j \in Unserved' \ {i} : j < i /\ calls'[i].at = "sent"
      BY <1>2, <1>6, <3>1
    <3> QED  BY <3>2, <3>3
  <2>3. Fetching' \subseteq Own("log-file")'
    BY DEF Fetching
  <2>4. ASSUME Fetching' = {} PROVE Unserved' \subseteq Own("logs")'
    <3>1. Fetching = {}
      BY <1>8, <2>4
    <3>2. \A k \in Unserved' : f[k] \in Own("logs") /\ calls'[k] = calls[f[k]]
      BY <1>4, <1>6, <3>1 DEF OrderInv
    <3> QED  BY <1>3, <1>6, <3>2 DEF Own, ForThisMount
  <2>5. \A i, j \in Own("job")' \cup Own("logs")' : i = j
    BY <1>2, <1>4, <1>5, <1>10 DEF OrderInv
  <2> QED  BY <2>1, <2>2, <2>3, <2>4, <2>5 DEF OrderInv
<1>12. ASSUME job' # NoJob PROVE LinesInv'
  <2>1. LinesInv /\ (Fetching' = {} <=> Fetching = {})
    BY <1>4, <1>8, <1>12
  <2>2. \A i \in Fetching' : calls'[i].at = "reading" =>
          /\ calls'[i].ok
          /\ \E f1 \in 0..(put + 1) : calls'[i].seen.lines = Lines(0, f1)
    BY <1>8, <2>1 DEF LinesInv
  <2>3. ASSUME Fetching' = {}
        PROVE  /\ \A i \in Fetched' : calls'[i].ok
               /\ Covered(page.log, Texts', drained, lost)
    <3>1. /\ \A i \in Fetched : calls[i].ok
          /\ Covered(page.log, Texts, drained, lost)
      BY <2>1, <2>3 DEF LinesInv
    <3>2. Texts' = Texts
      BY <1>9 DEF Texts
    <3> QED  BY <1>9, <3>1, <3>2
  <2> QED  BY <1>3, <1>12, <2>2, <2>3, LinesNext
<1> QED  BY <1>11, <1>12

(* A page that is mounted has only its first requests, and the others are    *)
(* of earlier pages.                                                         *)
LEMMA FirstCallsAre ==
  ASSUME NEW p \in {JobsList, Config, Monitor, Inference}, NEW m
  PROVE  /\ Len(FirstCalls(p, m)) \in 0..3
         /\ DOMAIN FirstCalls(p, m) = 1..Len(FirstCalls(p, m))
         /\ \A j \in 1..Len(FirstCalls(p, m)) :
              /\ FirstCalls(p, m)[j].op \in
                   {"list", "training", "busy", "cluster", "log-file", "steps",
                    "job"}
              /\ FirstCalls(p, m)[j].at = "sent"
         /\ p = Monitor =>
              /\ Len(FirstCalls(p, m)) = 3
              /\ FirstCalls(p, m)[1].op = "log-file"
              /\ FirstCalls(p, m)[2].op = "steps"
              /\ FirstCalls(p, m)[3].op = "job"
<1>1. \A op : Call(op, 0, m).op = op /\ Call(op, 0, m).at = "sent"
  BY DEF Call
<1>2. CASE p = JobsList
  BY <1>1, <1>2 DEF FirstCalls, JobsList, Monitor
<1>3. CASE p = Config
  BY <1>1, <1>3 DEF FirstCalls, Config, Monitor
<1>4. CASE p = Monitor
  BY <1>1, <1>4 DEF FirstCalls, Monitor
<1>5. CASE p = Inference
  BY <1>5 DEF FirstCalls, Inference, Monitor
<1> QED  BY <1>2, <1>3, <1>4, <1>5

LEMMA OpenedCalls ==
  ASSUME NEW p \in {JobsList, Config, Monitor, Inference},
         NEW cs \in Seq(Request), Opens(p, cs), NEW k \in DOMAIN calls'
  PROVE  /\ page' = p /\ Len(cs) \in Nat /\ k \in Nat \ {0}
         /\ k <= Len(cs) => /\ k \in DOMAIN cs /\ calls'[k] = cs[k]
                            /\ calls'[k].mount # mount'
         /\ k > Len(cs) =>
              /\ k - Len(cs) \in 1..Len(FirstCalls(p, mount'))
              /\ calls'[k] = FirstCalls(p, mount')[k - Len(cs)]
              /\ calls'[k].mount = mount' /\ calls'[k].at = "sent"
              /\ calls'[k].op \in
                   {"list", "training", "busy", "cluster", "log-file", "steps",
                    "job"}
<1> DEFINE F == FirstCalls(p, mount')
<1>1. /\ p \in Pages /\ page' = p /\ calls' = cs \o F
      /\ \A i \in DOMAIN cs : cs[i].mount # mount'
      /\ TabOK'
  BY PagesOK, OpensOK
<1>2. F \in Seq(Heard(mount', p.at)) /\ \A j \in DOMAIN F : F[j].mount = mount'
  BY <1>1, FirstCallsOK DEF TabOK
<1>3. \A j \in 1..Len(F) :
        /\ F[j].op \in {"list", "training", "busy", "cluster", "log-file",
                        "steps", "job"}
        /\ F[j].at = "sent" /\ F[j].mount = mount'
  BY <1>2, FirstCallsAre
<1> HIDE DEF F
<1>4. /\ DOMAIN calls' = 1..(Len(cs) + Len(F))
      /\ Len(cs) \in Nat /\ Len(F) \in Nat
      /\ \A j \in 1..(Len(cs) + Len(F)) :
           calls'[j] = IF j <= Len(cs) THEN cs[j] ELSE F[j - Len(cs)]
      /\ DOMAIN cs = 1..Len(cs)
  BY <1>1, <1>2
<1>5. k \in 1..(Len(cs) + Len(F))
  BY <1>4
<1>6. CASE k <= Len(cs)
  BY <1>1, <1>4, <1>5, <1>6
<1>7. CASE k > Len(cs)
  <2>1. k - Len(cs) \in 1..Len(F) /\ calls'[k] = F[k - Len(cs)]
    BY <1>4, <1>5, <1>7
  <2> QED  BY <1>1, <1>3, <1>4, <1>5, <1>7, <2>1 DEF F
<1> QED  BY <1>4, <1>5, <1>6, <1>7

LEMMA OpenedOK ==
  ASSUME Types, Types', NEW p \in {JobsList, Config, Monitor, Inference},
         NEW cs \in Seq(Request), Opens(p, cs)
  PROVE  GateInv' /\ LogInv'
<1>1. \A k \in DOMAIN calls' :
        /\ page' = p /\ Len(cs) \in Nat /\ k \in Nat \ {0}
        /\ k <= Len(cs) => calls'[k].mount # mount'
        /\ k > Len(cs) =>
             /\ calls'[k] = FirstCalls(p, mount')[k - Len(cs)]
             /\ k - Len(cs) \in 1..Len(FirstCalls(p, mount'))
             /\ calls'[k].at = "sent"
             /\ calls'[k].op \in
                  {"list", "training", "busy", "cluster", "log-file", "steps",
                   "job"}
  BY OpenedCalls
<1>2. page' = p
  BY DEF Opens
<1>3. GateInv'
  <2>1. Asked' = {}
    BY <1>1 DEF Asked, ForThisMount
  <2>2. ~Seeded'
    BY <1>2
    DEF Seeded, GateShown, OnConfig, JobsList, Config, Monitor, Inference
  <2> QED  BY <2>1, <2>2 DEF GateInv
<1>4. ASSUME OnMonitor' PROVE OrderInv' /\ LinesInv'
  <2> DEFINE n == Len(cs)
  <2>1. p = Monitor /\ page'.log = <<>>
    BY <1>2, <1>4 DEF OnMonitor, JobsList, Config, Monitor, Inference
  <2>2. \A k \in DOMAIN calls' :
          /\ n \in Nat /\ k \in Nat
          /\ calls'[k].mount = mount' =>
               /\ k > n /\ calls'[k].at = "sent"
               /\ k \in {n + 1, n + 2, n + 3}
               /\ k = n + 1 => calls'[k].op = "log-file"
               /\ k = n + 2 => calls'[k].op = "steps"
               /\ k = n + 3 => calls'[k].op = "job"
    <3> TAKE k \in DOMAIN calls'
    <3>1. n \in Nat /\ k \in Nat \ {0}
      BY <1>1
    <3>2. ASSUME calls'[k].mount = mount'
          PROVE  /\ k > n /\ calls'[k].at = "sent"
                 /\ k - n \in 1..3
                 /\ calls'[k] = FirstCalls(Monitor, mount')[k - n]
      <4>1. k > n
        BY <1>1, <3>1, <3>2
      <4>2. Len(FirstCalls(Monitor, mount')) = 3
        BY FirstCallsAre
      <4> QED  BY <1>1, <2>1, <4>1, <4>2
    <3> HIDE DEF n
    <3>3. /\ FirstCalls(Monitor, mount')[1].op = "log-file"
          /\ FirstCalls(Monitor, mount')[2].op = "steps"
          /\ FirstCalls(Monitor, mount')[3].op = "job"
      BY FirstCallsAre
    <3>4. CASE calls'[k].mount = mount'
      <4>1. /\ k = n + 1 => k - n = 1
            /\ k = n + 2 => k - n = 2
            /\ k = n + 3 => k - n = 3
            /\ k \in {n + 1, n + 2, n + 3}
        BY <3>1, <3>2, <3>4
      <4> QED  BY <3>1, <3>2, <3>3, <3>4, <4>1
    <3> QED  BY <3>1, <3>4
  <2> HIDE DEF n
  <2>3. /\ Own("log-file")' \subseteq {n + 1} /\ Own("job")' \subseteq {n + 3}
        /\ Own("logs")' = {}
        /\ \A k \in Own("log-file")' \cup Own("job")' :
             calls'[k].at = "sent" /\ n \in Nat
    BY <2>2 DEF Own, ForThisMount
  <2>4. \A k \in Unserved' : calls'[k].mount # mount' => k <= n /\ n \in Nat
    <3>1. \A k \in DOMAIN calls' : ~(k <= n) => calls'[k].mount = mount'
      <4> TAKE k \in DOMAIN calls'
      <4>1. /\ n \in Nat /\ k \in Nat
            /\ k > n => calls'[k].mount = mount'
        BY OpenedCalls DEF n
      <4> QED  BY <4>1
    <3> QED  BY <2>2, <3>1 DEF Unserved
  <2>5. \A k \in Unserved' : calls'[k].mount = mount' => k \in Own("log-file")'
    BY <2>3 DEF Own, Unserved, ForThisMount
  <2>6. n + 1 \in Fetching'
    <3>1. n + 1 \in DOMAIN calls' /\ calls'[n + 1].op = "log-file"
      <4>1. /\ calls' = cs \o FirstCalls(Monitor, mount')
            /\ mount' \in Nat \ {0}
        BY <2>1, PagesOK, OpensOK DEF TabOK
      <4>2. /\ FirstCalls(Monitor, mount') \in Seq(Heard(mount', "monitor"))
            /\ Len(FirstCalls(Monitor, mount')) = 3
            /\ FirstCalls(Monitor, mount')[1].op = "log-file"
        <5>1. Monitor.at = "monitor" /\ Monitor \in Pages
          BY PagesOK DEF Monitor
        <5> QED  BY <4>1, <5>1, FirstCallsOK, FirstCallsAre
      <4>3. n \in Nat /\ n = Len(cs)
        BY DEF n
      <4> DEFINE F == FirstCalls(Monitor, mount')
      <4> HIDE DEF F
      <4>4. /\ F \in Seq(Heard(mount', "monitor")) /\ Len(F) = 3
            /\ F[1].op = "log-file" /\ calls' = cs \o F
        BY <4>1, <4>2 DEF F
      <4>5. DOMAIN calls' = 1..(n + 3) /\ calls'[n + 1] = F[1]
        <5>1. F \in Seq(Heard(mount', "monitor")) /\ calls' = cs \o F
          BY <4>4
        <5>2. /\ DOMAIN calls' = 1..(Len(cs) + Len(F))
              /\ \A j \in 1..(Len(cs) + Len(F)) :
                   calls'[j] = IF j <= Len(cs) THEN cs[j] ELSE F[j - Len(cs)]
          BY <5>1
        <5>3. /\ n + 1 \in 1..(n + 3) /\ ~(n + 1 <= n) /\ (n + 1) - n = 1
          BY <4>3
        <5> QED  BY <4>3, <4>4, <5>2, <5>3
      <4> QED  BY <4>3, <4>4, <4>5
    <3>2. calls'[n + 1].mount = mount'
      <4>1. n \in Nat /\ n + 1 > n
        BY <2>2, <3>1
      <4>2. n + 1 > Len(cs)
        BY <4>1 DEF n
      <4> QED  BY <3>1, <4>2, OpenedCalls
    <3> QED
      BY <2>2, <3>1, <3>2 DEF Fetching, Own, Unserved, ForThisMount
  <2>7. Fetching' = {n + 1} /\ Own("log-file")' = {n + 1} /\ n \in Nat
    BY <2>2, <2>3, <2>6 DEF Fetching, Own
  <2>8. \A j \in Unserved' \ {n + 1} : j < n + 1
    <3> TAKE j \in Unserved' \ {n + 1}
    <3>1. j \in Nat /\ j <= n
      BY <2>2, <2>4, <2>5, <2>7 DEF Unserved
    <3> QED  BY <2>7, <3>1
  <2>9. \A j \in Own("job")' : n + 1 < j /\ calls'[j].at = "sent"
    BY <2>3, <2>7
  <2>10. calls'[n + 1].at = "sent"
    BY <2>3, <2>7
  <2>11. \A i, j \in Own("job")' \cup Own("logs")' : i = j
    BY <2>3
  <2>12. OrderInv'
    BY <2>1, <2>3, <2>7, <2>8, <2>9, <2>10, <2>11 DEF OrderInv
  <2>13. LinesInv'
    BY <2>7, <2>10 DEF LinesInv
  <2> QED  BY <2>12, <2>13
<1> QED  BY <1>3, <1>4 DEF LogInv

LEMMA OpenedWeights ==
  ASSUME Types, Types', NEW p \in {JobsList, Config, Monitor, Inference},
         NEW cs \in Seq(Request), Opens(p, cs), AliveInv,
         \A i \in DOMAIN cs : cs[i].op \notin Weighty,
         UNCHANGED <<job, alive>>, p = Config => job = NoJob
  PROVE  AloneInv' /\ AliveInv'
<1>1. \A k \in DOMAIN calls' : calls'[k].op \notin Weighty
  <2> TAKE k \in DOMAIN calls'
  <2>1. /\ Len(cs) \in Nat /\ k \in Nat
        /\ k <= Len(cs) => k \in DOMAIN cs /\ calls'[k] = cs[k]
        /\ k > Len(cs) =>
             calls'[k].op \in {"list", "training", "busy", "cluster",
                               "log-file", "steps", "job"}
    BY OpenedCalls
  <2>2. CASE k <= Len(cs)
    BY <2>1, <2>2
  <2>3. CASE k > Len(cs)
    BY <2>1, <2>3 DEF Weighty
  <2> QED  BY <2>1, <2>2, <2>3
<1>2. page' = p
  BY DEF Opens
<1>3. OnJobs' => page'.importing = "no" /\ ~page'.dialog.open
  BY <1>2
  DEF OnJobs, JobsList, NoDialog, Config, Monitor, Inference
<1>4. OnConfig' => ~alive
  <2>1. OnConfig' => p = Config
    BY <1>2 DEF OnConfig, JobsList, Config, Monitor, Inference
  <2> QED  BY <2>1 DEF AliveInv, Running, NoJob
<1>5. AloneInv'
  BY <1>1, <1>3 DEF AloneInv, OnJobs
<1>6. AliveInv'
  BY <1>1, <1>3, <1>4 DEF AliveInv, OnJobs, OnConfig, Running, Weighty
<1> QED  BY <1>5, <1>6

(* A weighty request is sent, ...                                            *)
LEMMA WeightSent ==
  ASSUME Types, Types', AliveInv, Weightless, Stays, UNCHANGED <<job, alive>>,
         NEW c, calls' = Append(calls, c), c.op \in Weighty, c.mount = mount,
         c.at # "answered", c.op = "import" => ~alive,
         OnJobs => /\ page'.importing # "open"
                   /\ page'.dialog.open => /\ page'.importing = "no"
                                           /\ c.op # "import"
  PROVE  AloneInv' /\ AliveInv'
<1>1. \A k \in DOMAIN calls' : calls'[k].op \in Weighty =>
        calls'[k] = c /\ k = Len(calls) + 1
  BY Typed DEF Types, Weightless
<1>2. mount' = mount /\ (OnJobs' <=> OnJobs) /\ (OnConfig' <=> OnConfig)
  BY DEF Stays, OnJobs, OnConfig
<1>3. AloneInv'
  BY <1>1, <1>2 DEF AloneInv, ForThisMount, OnJobs, Weighty
<1>4. ~Started
  BY DEF Started, Weightless, Weighty
<1>5. AliveInv'
  BY <1>1, <1>2, <1>4 DEF AliveInv, OnJobs, OnConfig, Running, Weighty
<1> QED  BY <1>3, <1>5

(* ... its callback runs, and sends nothing of the kind, ...                 *)
LEMMA WeightGone ==
  ASSUME Types, Types', AloneInv, AliveInv, NEW i \in DOMAIN calls,
         calls[i].op \in Weighty, Stays, UNCHANGED <<job, alive>>,
         \/ calls' = Rest(i)
         \/ \E c : c.op \notin Weighty /\ calls' = Append(Rest(i), c),
         OnConfig /\ calls[i].op = "start" => ~calls[i].ok,
         OnJobs =>
           \/ page'.dialog.open = page.dialog.open
                /\ page'.importing = page.importing
           \/ /\ ~page'.dialog.open
              /\ page'.importing = "open" => ~alive
  PROVE  AloneInv' /\ AliveInv'
<1>1. \A k \in DOMAIN calls' : calls'[k].op \notin Weighty
  <2>1. \A j \in DOMAIN calls : j # i => calls[j].op \notin Weighty
    BY DEF AloneInv
  <2>2. /\ Len(calls) \in Nat /\ i \in 1..Len(calls) /\ i \in Nat
        /\ DOMAIN calls = 1..Len(calls)
        /\ Rest(i) \in Seq(Request) /\ Len(Rest(i)) = Len(calls) - 1
        /\ \A k \in 1..(Len(calls) - 1) :
             Rest(i)[k] = IF k < i THEN calls[k] ELSE calls[k + 1]
    BY RestIs, Typed DEF Types
  <2>3. \A k \in 1..(Len(calls) - 1) : Rest(i)[k].op \notin Weighty
    BY <2>1, <2>2
  <2>4. CASE calls' = Rest(i)
    BY <2>2, <2>3, <2>4
  <2>5. ASSUME NEW c, c.op \notin Weighty, calls' = Append(Rest(i), c)
        PROVE  \A k \in DOMAIN calls' : calls'[k].op \notin Weighty
    BY <2>2, <2>3, <2>5
  <2> QED  BY <2>4, <2>5
<1>2. mount' = mount /\ (OnJobs' <=> OnJobs) /\ (OnConfig' <=> OnConfig)
  BY DEF Stays, OnJobs, OnConfig
<1>3. ForThisMount(i) /\ (OnJobs => page.importing # "open")
  BY DEF AloneInv
<1>4. OnConfig => ~Started
  BY DEF AloneInv, Started, Weighty
<1>5. OnJobs /\ page'.dialog.open => page'.importing = "no"
  BY DEF AloneInv
<1>6. AloneInv'
  BY <1>1, <1>2, <1>5 DEF AloneInv, OnJobs, Weighty
<1>7. AliveInv'
  BY <1>1, <1>2, <1>3, <1>4 DEF AliveInv, OnJobs, OnConfig, Running, Weighty
<1> QED  BY <1>6, <1>7

(* ... or gives way to another: c takes its place.                           *)
LEMMA Replaced ==
  ASSUME CallsOK, CallsOK', NEW i \in DOMAIN calls, NEW c,
         calls' = Append(Rest(i), c)
  PROVE  /\ Len(calls) \in DOMAIN calls' /\ calls'[Len(calls)] = c
         /\ \A k \in DOMAIN calls' : k # Len(calls) =>
              \E j \in DOMAIN calls \ {i} : calls'[k] = calls[j]
<1>1. /\ Len(calls) \in Nat /\ i \in 1..Len(calls) /\ i \in Nat
      /\ Rest(i) \in Seq(Request) /\ Len(Rest(i)) = Len(calls) - 1
      /\ \A k \in 1..(Len(calls) - 1) :
           Rest(i)[k] = IF k < i THEN calls[k] ELSE calls[k + 1]
  BY RestIs
<1>2. /\ Len(calls') = Len(calls) /\ calls'[Len(calls)] = c
      /\ \A k \in 1..(Len(calls) - 1) : calls'[k] = Rest(i)[k]
  BY <1>1
<1>3. /\ DOMAIN calls' = 1..Len(calls) /\ DOMAIN calls = 1..Len(calls)
  BY <1>2, Typed, TypedNext
<1>4. ASSUME NEW k \in DOMAIN calls', k # Len(calls)
      PROVE  \E j \in DOMAIN calls \ {i} : calls'[k] = calls[j]
  <2>1. /\ k \in 1..(Len(calls) - 1)
        /\ calls'[k] = IF k < i THEN calls[k] ELSE calls[k + 1]
    BY <1>1, <1>2, <1>3, <1>4
  <2>2. CASE k < i
    BY <1>1, <1>3, <2>1, <2>2
  <2>3. CASE ~(k < i)
    <3>1. k + 1 \in DOMAIN calls \ {i} /\ calls'[k] = calls[k + 1]
      BY <1>1, <1>3, <2>1, <2>3
    <3> QED  BY <3>1
  <2> QED  BY <2>2, <2>3
<1> QED  BY <1>1, <1>2, <1>3, <1>4

LEMMA WeightKept ==
  ASSUME Types, Types', AloneInv, NEW i \in DOMAIN calls,
         calls[i].op \in Weighty, Stays,
         NEW c, c.op \in Weighty, c.mount = calls[i].mount,
         c.op = "import" => calls[i].op = "import",
         \/ calls' = Append(Rest(i), c)
         \/ calls' = [calls EXCEPT ![i] = c],
         OnJobs => /\ page'.dialog.open = page.dialog.open
                   /\ page'.importing = page.importing,
         alive' => Running',
         OnConfig /\ ~(c.op = "start" /\ c.at = "answered" /\ c.ok) => ~alive',
         c.op = "import" /\ ~(c.at = "answered" /\ c.ok) => ~alive'
  PROVE  AloneInv' /\ AliveInv'
<1>1. /\ \A k, l \in DOMAIN calls' :
           calls'[k].op \in Weighty /\ calls'[l].op \in Weighty => k = l
      /\ \A k \in DOMAIN calls' : calls'[k].op \in Weighty => calls'[k] = c
      /\ \E k \in DOMAIN calls' : calls'[k] = c
  <2>1. \A j \in DOMAIN calls : j # i => calls[j].op \notin Weighty
    BY DEF AloneInv
  <2>3. CASE calls' = Append(Rest(i), c)
    <3>1. /\ Len(calls) \in DOMAIN calls' /\ calls'[Len(calls)] = c
          /\ \A k \in DOMAIN calls' : k # Len(calls) =>
               \E j \in DOMAIN calls \ {i} : calls'[k] = calls[j]
      BY <2>3, Replaced DEF Types
    <3> QED  BY <2>1, <3>1
  <2>4. CASE calls' = [calls EXCEPT ![i] = c]
    <3>1. DOMAIN calls' = DOMAIN calls /\ calls'[i] = c
          /\ \A k \in DOMAIN calls : k # i => calls'[k] = calls[k]
      BY <2>4
    <3> QED  BY <2>1, <3>1
  <2> QED  BY <2>3, <2>4
<1>2. mount' = mount /\ (OnJobs' <=> OnJobs) /\ (OnConfig' <=> OnConfig)
  BY DEF Stays, OnJobs, OnConfig
<1>3. ForThisMount(i) /\ (OnJobs => page.importing # "open")
  BY DEF AloneInv
<1>4. AloneInv'
  BY <1>1, <1>2, <1>3 DEF AloneInv, OnJobs, Weighty, ForThisMount
<1>5. c.op = "start" /\ c.at = "answered" /\ c.ok => Started'
  BY <1>1 DEF Started
<1>6. AliveInv'
  BY <1>1, <1>2, <1>3, <1>5 DEF AliveInv, OnJobs, OnConfig, Weighty
<1> QED  BY <1>4, <1>6

-----------------------------------------------------------------------------
(* Most steps leave everything alone that the invariants look at.            *)
Heavy == Weighty \cup GateOps \cup LogOps
Light == WeightLight /\ GateLight /\ LogLight

LEMMA SparesLess ==
  ASSUME NEW G, NEW H \in SUBSET G, Spares(G)
  PROVE  Spares(H)
BY DEF Spares

LEMMA LightStep ==
  ASSUME Types, Spares(Heavy), Stays, UNCHANGED <<job, alive, log, pip>>,
         OnJobs => DialogsFit,
         OnConfig => page'.gate = page.gate /\ page'.install = page.install,
         OnMonitor => page'.log = page.log
  PROVE  Light
<1>1. CallsOK
  BY DEF Types
<1>2. /\ Weighty \in SUBSET Heavy /\ GateOps \in SUBSET Heavy
      /\ LogOps \in SUBSET Heavy
  BY DEF Heavy
<1>3. Spares(Weighty) /\ Spares(GateOps) /\ Spares(LogOps)
  BY <1>2, SparesLess, Zenon
<1>4. Moves(Weighty, {}, {}) /\ Moves(GateOps, {}, {}) /\ Moves(LogOps, {}, {})
  BY <1>1, <1>3, SparesMoves
<1>5. WeightLight /\ GateLight /\ LogLight
  BY <1>4 DEF WeightLight, GateLight, LogLight, Running
<1> QED  BY <1>5 DEF Light

(* On the list of jobs.                                                      *)
LEMMA JobsUserLight ==
  ASSUME Types, AliveInv, Patient, OnJobs,
         \/ \E k \in 1..max.saved : PickCheckpoint(k)
         \/ Refresh \/ ClickPlay \/ OpenImport \/ CloseImport
  PROVE  Light
<1>0. page \in JobsState /\ ~OnConfig /\ ~OnMonitor
  BY PageIs DEF Types, TabOK, OnJobs, OnConfig, OnMonitor
<1>1. Settled => Weightless
  BY DEF Settled, Weightless, Weighty
<1>2. ASSUME NEW k, PickCheckpoint(k) PROVE Light
  <2>1. Spares(Heavy) /\ Stays /\ DialogsFit
    BY <1>0, <1>2 DEF PickCheckpoint, Spares, Stays, DialogsFit, JobsState
  <2> QED
    BY <1>0, <1>2, <2>1, LightStep DEF PickCheckpoint, counts
<1>3. CASE Refresh
  <2>1. calls' = Append(calls, Call("list", 0, mount)) /\ UNCHANGED tab
    BY <1>3 DEF Refresh, Sends, Sent
  <2>2. Call("list", 0, mount).op \notin Heavy
    BY DEF Call, Heavy, Weighty, GateOps, LogOps
  <2>3. Spares(Heavy) /\ Stays /\ DialogsFit
    BY <1>0, <2>1, <2>2 DEF tab, Spares, Stays, DialogsFit
  <2> QED  BY <1>0, <1>3, <2>3, LightStep DEF Refresh, counts
<1>4. CASE ClickPlay
  <2> DEFINE d == IF page.dialog.mounted THEN page.dialog
                  ELSE [page.dialog EXCEPT !.step = page.picked]
  <2>1. /\ calls' = OpeningCalls(d, calls) /\ Settled
        /\ page' = [page EXCEPT !.dialog = Opened(d)]
        /\ page.importing = "no"
        /\ UNCHANGED <<job, alive, log, counts, mount>>
    BY <1>4 DEF ClickPlay, PlayOffered, Uncovered
  <2>2. Spares(Heavy)
    <3>1. /\ Call("dialog-steps", 0, mount).op \notin Heavy
          /\ Call("config", d.step, mount).op \notin Heavy
      BY DEF Call, Heavy, Weighty, GateOps, LogOps
    <3> HIDE DEF d
    <3> QED  BY <2>1, <3>1 DEF OpeningCalls, Spares
  <2>3. Stays /\ DialogsFit
    BY <1>0, <1>1, <2>1 DEF Stays, DialogsFit, JobsState
  <2> QED  BY <1>0, <2>1, <2>2, <2>3, LightStep DEF counts
<1>5. CASE OpenImport \/ CloseImport
  <2>1. Spares(Heavy) /\ UNCHANGED <<job, alive, log, counts>>
    BY <1>5 DEF OpenImport, CloseImport, Spares
  <2>2. OpenImport => ~alive
    BY <1>5 DEF OpenImport, AliveInv, Running, NoJob
  <2>3. Stays /\ DialogsFit
    BY <1>0, <1>1, <1>5, <2>2
    DEF OpenImport, CloseImport, Uncovered, Stays, DialogsFit, JobsState
  <2> QED  BY <1>0, <2>1, <2>3, LightStep DEF counts
<1> QED  BY <1>2, <1>3, <1>4, <1>5

LEMMA JobsCallbackLight ==
  ASSUME Types,
         \/ \E i \in DOMAIN calls : ListArrives(i) \/ StepsArrive(i)
         \/ MessageArrives
  PROVE  Light
<1>0. page \in Pages /\ \A i \in DOMAIN calls :
        /\ ForThisMount(i) => calls[i].op \in OpsOf(page.at)
        /\ calls[i].at = "answered" => calls[i].seen.job \in Jobs
  BY ArrivedOK DEF Types, TabOK
<1>1. OnJobs => page \in JobsState /\ ~OnConfig /\ ~OnMonitor
  BY <1>0, PageIs DEF OnJobs, OnConfig, OnMonitor
<1>2. \A n : Call("steps", n, mount).op \notin Heavy
             /\ Call("list", n, mount).op \notin Heavy
  BY DEF Call, Heavy, Weighty, GateOps, LogOps
<1>3. ASSUME NEW i \in DOMAIN calls, ListArrives(i) PROVE Light
  <2>1. /\ calls[i].op = "list" /\ calls[i].op \notin Heavy
        /\ calls[i].seen.job \in Jobs
        /\ UNCHANGED <<job, alive, log, counts, mount>>
    BY <1>0, <1>3 DEF ListArrives, Arrives, Heavy, Weighty, GateOps, LogOps
  <2>2. Spares(Heavy)
    <3>1. calls' \in {Rest(i), CardCalls(calls[i].seen.job, Rest(i))}
      BY <1>3 DEF ListArrives
    <3> QED  BY <1>2, <2>1, <3>1 DEF CardCalls, Spares
  <2>3. CASE ForThisMount(i)
    <3>1. page \in JobsState /\ ~OnConfig /\ ~OnMonitor
      <4>1. page.at = "jobs"
        BY <1>0, <2>1, <2>3, PageIs DEF OpsOf, DialogOps
      <4> QED  BY <1>1, <4>1 DEF OnJobs
    <3>2. page' = Shows(calls[i].seen.job, page)
      BY <1>3, <2>3 DEF ListArrives
    <3>3. Stays /\ DialogsFit
      BY <2>1, <3>1, <3>2 DEF Shows, Stays, DialogsFit, JobsState
    <3> QED  BY <2>1, <2>2, <3>1, <3>3, LightStep DEF counts
  <2>4. CASE ~ForThisMount(i)
    <3>1. page' = page
      BY <1>3, <2>4 DEF ListArrives
    <3> QED  BY <2>1, <2>2, <3>1, LightStep DEF counts, Stays, DialogsFit
  <2> QED  BY <2>3, <2>4
<1>4. ASSUME NEW i \in DOMAIN calls, StepsArrive(i) PROVE Light
  <2>1. /\ calls[i].op \notin Heavy /\ calls' = Rest(i) /\ OnJobs
        /\ UNCHANGED <<job, alive, log, counts, mount>>
    BY <1>4 DEF StepsArrive, Arrives, Heavy, Weighty, GateOps, LogOps
  <2>2. Spares(Heavy)
    BY <2>1 DEF Spares
  <2>3. Stays /\ DialogsFit
    BY <1>1, <1>4, <2>1 DEF StepsArrive, Stays, DialogsFit, JobsState
  <2> QED  BY <1>1, <2>1, <2>2, <2>3, LightStep DEF counts
<1>5. CASE MessageArrives
  <2> DEFINE j == [page.job EXCEPT !.state = Head(events).job.state,
                                   !.saved = Head(events).job.saved]
  <2>1. /\ events # <<>> /\ UNCHANGED <<job, alive, log, counts, mount>>
        /\ \/ calls' = Sent("list", 0) /\ page' = page
           \/ page' = Shows(j, page) /\ calls' = CardCalls(j, calls)
           \/ page' = page /\ calls' = calls
    BY <1>5 DEF MessageArrives
  <2>2. OnJobs
    BY <2>1 DEF Types, SocketOK, OnJobs
  <2> HIDE DEF j
  <2>3. Spares(Heavy)
    BY <1>2, <2>1 DEF Sent, CardCalls, Spares
  <2>4. Stays /\ DialogsFit
    BY <1>1, <2>1, <2>2 DEF Shows, Stays, DialogsFit, JobsState
  <2> QED  BY <1>1, <2>1, <2>2, <2>3, <2>4, LightStep DEF counts
<1> QED  BY <1>3, <1>4, <1>5

(* The dialog and the inference page.                                        *)
LEMMA InferenceLight ==
  ASSUME Types,
         \/ (\E k \in 1..max.saved : PickStep(k)) \/ BindCameras
         \/ CloseDialog \/ AskHalt \/ (\E yes \in BOOLEAN : AnswerHalt(yes))
         \/ PollRollout
         \/ \E i \in DOMAIN calls :
              DialogSteps(i) \/ ConfigArrives(i) \/ HaltArrives(i)
  PROVE  Light
<1>0. page \in Pages /\ \A i \in DOMAIN calls :
        ForThisMount(i) => calls[i].op \in OpsOf(page.at)
  BY ArrivedOK DEF Types, TabOK
<1>1. /\ page.at = "jobs" => page \in JobsState
      /\ page.at = "monitor" => page \in MonitorState
      /\ page.at = "inference" => page \in InferenceState
  BY <1>0, PageIs
<1>2. \A n : /\ Call("config", n, mount).op \notin Heavy
             /\ Call("halt", n, mount).op \notin Heavy
             /\ Call("rollout", n, mount).op \notin Heavy
  BY DEF Call, Heavy, Weighty, GateOps, LogOps
<1>3. ASSUME HasDialog, UNCHANGED <<job, alive, log, pip, mount>>,
             Spares(Heavy), page'.at = page.at,
             OnJobs => page'.importing = page.importing,
             page'.dialog.open => page.dialog.open,
             OnMonitor => page'.log = page.log
      PROVE  Light
  <2>1. ~OnConfig
    BY <1>3 DEF HasDialog, OnConfig
  <2>2. OnJobs => DialogsFit
    BY <1>3 DEF DialogsFit
  <2> QED  BY <1>3, <2>1, <2>2, LightStep DEF Stays
<1>4. ASSUME NEW k, PickStep(k) PROVE Light
  <2>1. /\ HasDialog /\ page' = [page EXCEPT !.dialog.step = k]
        /\ calls' = Append(calls, Call("config", k, mount))
        /\ UNCHANGED <<job, alive, log, counts, mount>>
    BY <1>4 DEF PickStep, StepOffered, DialogOpen, Sends, Sent
  <2>2. Spares(Heavy)
    BY <1>2, <2>1 DEF Spares
  <2>3. CASE OnJobs
    BY <1>1, <1>3, <2>1, <2>2, <2>3
    DEF OnJobs, OnMonitor, JobsState, Dialogs, counts
  <2>4. CASE ~OnJobs
    BY <1>1, <1>3, <2>1, <2>2, <2>4
    DEF OnJobs, OnMonitor, HasDialog, MonitorState, Dialogs, counts
  <2> QED  BY <2>3, <2>4
<1>5. CASE BindCameras \/ CloseDialog
  <2>1. /\ HasDialog
        /\ \/ page' = [page EXCEPT !.dialog.bound = TRUE]
           \/ page' = [page EXCEPT !.dialog.open = FALSE, !.dialog.config = 0]
        /\ calls' = calls
        /\ UNCHANGED <<job, alive, log, counts, mount>>
    BY <1>5 DEF BindCameras, CloseDialog, BindOffered, DialogOpen
  <2>2. Spares(Heavy)
    BY <2>1 DEF Spares
  <2>3. CASE OnJobs
    BY <1>1, <1>3, <2>1, <2>2, <2>3
    DEF OnJobs, OnMonitor, JobsState, Dialogs, counts
  <2>4. CASE ~OnJobs
    BY <1>1, <1>3, <2>1, <2>2, <2>4
    DEF OnJobs, OnMonitor, HasDialog, MonitorState, Dialogs, counts
  <2> QED  BY <2>3, <2>4
<1>6. ASSUME OnInference, UNCHANGED <<job, alive, log, pip, mount>>,
             Spares(Heavy), page'.at = page.at
      PROVE  Light
  BY <1>6, LightStep DEF OnInference, OnJobs, OnConfig, OnMonitor, Stays
<1>7. CASE AskHalt \/ (\E yes \in BOOLEAN : AnswerHalt(yes)) \/ PollRollout
  <2>1. /\ OnInference /\ UNCHANGED <<job, alive, log, counts, mount>>
        /\ page' = page \/ \E b \in BOOLEAN :
                             page' = [page EXCEPT !.confirm = b]
        /\ \/ calls' = calls
           \/ \E op \in {"halt", "rollout"} :
                calls' = Append(calls, Call(op, 0, mount))
    BY <1>7
    DEF AskHalt, AnswerHalt, PollRollout, HaltAsked, HaltOffered, Known, Sends,
        Sent, tab
  <2>2. Spares(Heavy)
    BY <1>2, <2>1 DEF Spares
  <2>3. page'.at = page.at
    BY <1>1, <2>1 DEF OnInference, InferenceState
  <2> QED  BY <1>6, <2>1, <2>2, <2>3 DEF counts
<1>8. ASSUME NEW i \in DOMAIN calls, DialogSteps(i) PROVE Light
  <2>1. /\ calls[i].op = "dialog-steps" /\ calls[i].op \notin Heavy
        /\ UNCHANGED <<job, alive, log, counts, mount>>
        /\ \/ calls' = Rest(i)
           \/ \E n : calls' = Append(Rest(i), Call("config", n, mount))
    BY <1>8 DEF DialogSteps, Arrives, Heavy, Weighty, GateOps, LogOps
  <2>2. Spares(Heavy)
    BY <1>2, <2>1 DEF Spares
  <2>3. CASE page' = page
    BY <2>1, <2>2, <2>3, LightStep DEF counts, Stays, DialogsFit
  <2>4. CASE page' # page
    <3>1. /\ ForThisMount(i)
          /\ \E n, s : page' = [page EXCEPT !.dialog.steps = n,
                                            !.dialog.step = s]
      BY <1>8, <2>4 DEF DialogSteps
    <3>2. HasDialog
      BY <1>0, <2>1, <3>1, PageIs DEF HasDialog, OpsOf, DialogOps
    <3>3. CASE OnJobs
      BY <1>1, <1>3, <2>1, <2>2, <3>1, <3>2, <3>3
      DEF OnJobs, OnMonitor, JobsState, Dialogs, counts
    <3>4. CASE ~OnJobs
      BY <1>1, <1>3, <2>1, <2>2, <3>1, <3>2, <3>4
      DEF OnJobs, OnMonitor, HasDialog, MonitorState, Dialogs, counts
    <3> QED  BY <3>3, <3>4
  <2> QED  BY <2>3, <2>4
<1>9. ASSUME NEW i \in DOMAIN calls, ConfigArrives(i) PROVE Light
  <2>1. /\ calls[i].op = "config" /\ calls[i].op \notin Heavy
        /\ UNCHANGED <<job, alive, log, counts, mount>>
        /\ calls' = Rest(i)
    BY <1>9 DEF ConfigArrives, Arrives, Heavy, Weighty, GateOps, LogOps
  <2>2. Spares(Heavy)
    BY <2>1 DEF Spares
  <2>3. CASE page' = page
    BY <2>1, <2>2, <2>3, LightStep DEF counts, Stays, DialogsFit
  <2>4. CASE page' # page
    <3>1. /\ ForThisMount(i)
          /\ \E n, b : page' = [page EXCEPT !.dialog.config = n,
                                            !.dialog.bound = b]
      BY <1>9, <2>4 DEF ConfigArrives
    <3>2. HasDialog
      BY <1>0, <2>1, <3>1, PageIs DEF HasDialog, OpsOf, DialogOps
    <3>3. CASE OnJobs
      BY <1>1, <1>3, <2>1, <2>2, <3>1, <3>2, <3>3
      DEF OnJobs, OnMonitor, JobsState, Dialogs, counts
    <3>4. CASE ~OnJobs
      BY <1>1, <1>3, <2>1, <2>2, <3>1, <3>2, <3>4
      DEF OnJobs, OnMonitor, HasDialog, MonitorState, Dialogs, counts
    <3> QED  BY <3>3, <3>4
  <2> QED  BY <2>3, <2>4
<1>10. ASSUME NEW i \in DOMAIN calls, HaltArrives(i) PROVE Light
  <2>1. /\ calls[i].op \notin Heavy /\ calls' = Rest(i)
        /\ UNCHANGED <<job, alive, log, counts, tab>>
    BY <1>10 DEF HaltArrives, Arrives, Heavy, Weighty, GateOps, LogOps
  <2> QED
    BY <2>1, LightStep DEF Spares, counts, tab, Stays, DialogsFit
<1> QED  BY <1>4, <1>5, <1>7, <1>8, <1>9, <1>10

LEMMA TicksLight ==
  ASSUME Types, NEW i \in DOMAIN calls, RolloutArrives(i)
  PROVE  \/ Light
         \/ /\ ForThisMount(i) /\ OnInference /\ calls[i].op = "rollout"
            /\ Opens(JobsList, Rest(i)) /\ UNCHANGED <<job, alive, log, counts>>
<1>1. /\ calls[i].op = "rollout" /\ calls[i].op \notin Heavy
      /\ UNCHANGED <<job, alive, log, counts>>
  BY DEF RolloutArrives, Follows, Arrives, Heavy, Weighty, GateOps, LogOps
<1>2. ForThisMount(i) => OnInference /\ page \in InferenceState
  <2>1. page \in Pages
    BY DEF Types, TabOK
  <2> QED  BY <1>1, <2>1, ArrivedOK, PageIs DEF OnInference, OpsOf, DialogOps
<1>3. \/ Opens(JobsList, Rest(i)) /\ ForThisMount(i)
      \/ page' = page /\ mount' = mount /\ calls' = Rest(i)
      \/ /\ ForThisMount(i) /\ mount' = mount
         /\ \E r, a, l : page' = [page EXCEPT !.shown = r, !.asked = a,
                                              !.left = l]
         /\ calls' \in {Rest(i), Append(Rest(i), Call("halt", 0, mount))}
  <2> DEFINE r == calls[i].seen.rollout
             hung == r = "overdue" /\ ~page.asked
  <2>1. CASE ~ForThisMount(i)
    BY <2>1 DEF RolloutArrives, Follows
  <2>2. CASE ForThisMount(i) /\ ~Active(r) /\ ~page.left
    BY <2>2 DEF RolloutArrives, Follows
  <2>3. CASE ForThisMount(i) /\ ~(~Active(r) /\ ~page.left)
    <3>1. /\ page' = [page EXCEPT !.shown = r, !.asked = @ \/ hung,
                                  !.left = @ \/ (hung /\ FALSE)]
          /\ calls' = IF hung THEN Append(Rest(i), Call("halt", 0, mount))
                      ELSE Rest(i)
          /\ mount' = mount
      BY <2>3 DEF RolloutArrives, Follows
    <3>2. \E a, l : page' = [page EXCEPT !.shown = r, !.asked = a, !.left = l]
      BY <3>1
    <3> QED  BY <2>3, <3>1, <3>2
  <2> QED  BY <2>1, <2>2, <2>3
<1>4. CASE Opens(JobsList, Rest(i)) /\ ForThisMount(i)
  BY <1>1, <1>2, <1>4
<1>5. CASE page' = page /\ mount' = mount /\ calls' = Rest(i)
  BY <1>1, <1>5, LightStep DEF Spares, counts, Stays, DialogsFit
<1>6. CASE /\ ForThisMount(i) /\ mount' = mount
           /\ \E r, a, l : page' = [page EXCEPT !.shown = r, !.asked = a,
                                                !.left = l]
           /\ calls' \in {Rest(i), Append(Rest(i), Call("halt", 0, mount))}
  <2>1. Call("halt", 0, mount).op \notin Heavy
    BY DEF Call, Heavy, Weighty, GateOps, LogOps
  <2>2. Spares(Heavy)
    BY <1>1, <1>6, <2>1 DEF Spares
  <2>3. Stays /\ ~OnJobs /\ ~OnConfig /\ ~OnMonitor
    BY <1>2, <1>6
    DEF Stays, InferenceState, OnInference, OnJobs, OnConfig, OnMonitor
  <2> QED  BY <1>1, <2>2, <2>3, LightStep DEF counts
<1> QED  BY <1>3, <1>4, <1>5, <1>6

(* The form and the page of a job.                                           *)
LEMMA ConfigLight ==
  ASSUME Types,
         \/ ChooseDataset \/ ToggleWandb \/ PollCluster
         \/ \E i \in DOMAIN calls : BusyArrives(i) \/ ClusterArrives(i)
  PROVE  Light
<1>0. page \in Pages /\ \A i \in DOMAIN calls :
        ForThisMount(i) => calls[i].op \in OpsOf(page.at)
  BY ArrivedOK DEF Types, TabOK
<1>1. OnConfig => page \in ConfigState /\ ~OnJobs /\ ~OnMonitor
  BY <1>0, PageIs DEF OnConfig, OnJobs, OnMonitor
<1>2. CASE ChooseDataset \/ ToggleWandb \/ PollCluster
  <2>1. /\ OnConfig /\ UNCHANGED <<job, alive, log, counts, mount>>
        /\ page' \in {page, [page EXCEPT !.filled = TRUE]}
        /\ \/ calls' = calls
           \/ \E op \in {"wandb", "cluster"} :
                calls' = Append(calls, Call(op, 0, mount))
    BY <1>2
    DEF ChooseDataset, ToggleWandb, PollCluster, FormShown, Sends, Sent, tab
  <2>2. \A op \in {"wandb", "cluster"} : Call(op, 0, mount).op \notin Heavy
    BY DEF Call, Heavy, Weighty, GateOps, LogOps
  <2>3. Spares(Heavy)
    BY <2>1, <2>2 DEF Spares
  <2>4. /\ Stays /\ page'.gate = page.gate /\ page'.install = page.install
    BY <1>1, <2>1 DEF Stays, ConfigState
  <2> QED  BY <1>1, <2>1, <2>3, <2>4, LightStep DEF counts
<1>3. ASSUME NEW i \in DOMAIN calls, BusyArrives(i) \/ ClusterArrives(i)
      PROVE  Light
  <2>1. /\ calls[i].op \in {"busy", "cluster"} /\ calls[i].op \notin Heavy
        /\ UNCHANGED <<job, alive, log, counts, mount>>
        /\ calls' = Rest(i)
        /\ \/ page' = page
           \/ /\ ForThisMount(i)
              /\ \E b : page' \in {[page EXCEPT !.blocked = b],
                                   [page EXCEPT !.cluster = b]}
    BY <1>3
    DEF BusyArrives, ClusterArrives, Arrives, Heavy, Weighty, GateOps, LogOps
  <2>2. Spares(Heavy)
    BY <2>1 DEF Spares
  <2>3. CASE page' = page
    BY <2>1, <2>2, <2>3, LightStep DEF counts, Stays, DialogsFit
  <2>4. CASE page' # page
    <3>1. OnConfig
      BY <1>0, <2>1, <2>4, PageIs DEF OnConfig, OpsOf, DialogOps
    <3>2. Stays /\ page'.gate = page.gate /\ page'.install = page.install
      BY <1>1, <2>1, <2>4, <3>1 DEF Stays, ConfigState
    <3> QED  BY <1>1, <2>1, <2>2, <3>1, <3>2, LightStep DEF counts
  <2> QED  BY <2>3, <2>4
<1> QED  BY <1>2, <1>3

LEMMA MonitorLight ==
  ASSUME Types,
         \/ (\E k \in 1..max.saved : PickRun(k)) \/ OpenRun \/ PollSteps
         \/ \E i \in DOMAIN calls : CheckpointsArrive(i)
  PROVE  Light
<1>0. page \in Pages /\ \A i \in DOMAIN calls :
        ForThisMount(i) => calls[i].op \in OpsOf(page.at)
  BY ArrivedOK DEF Types, TabOK
<1>1. OnMonitor => page \in MonitorState /\ ~OnJobs /\ ~OnConfig
  BY <1>0, PageIs DEF OnConfig, OnJobs, OnMonitor
<1>2. \A n : /\ Call("steps", n, mount).op \notin Heavy
             /\ Call("dialog-steps", n, mount).op \notin Heavy
             /\ Call("config", n, mount).op \notin Heavy
  BY DEF Call, Heavy, Weighty, GateOps, LogOps
<1>3. CASE (\E k \in 1..max.saved : PickRun(k)) \/ OpenRun \/ PollSteps
  <2>1. /\ OnMonitor /\ UNCHANGED <<job, alive, log, counts, mount>>
        /\ \/ page' = page
           \/ \E k : page' = [page EXCEPT !.picked = k]
           \/ page' = [page EXCEPT !.dialog = Opened(@)]
        /\ \/ calls' = calls \/ calls' = Append(calls, Call("steps", 0, mount))
           \/ calls' = OpeningCalls(page.dialog, calls)
    BY <1>3
    DEF PickRun, OpenRun, PollSteps, RunOffered, AtHand, Loaded, Sent, tab
  <2>2. Spares(Heavy)
    BY <1>2, <2>1 DEF OpeningCalls, Spares
  <2>3. Stays /\ page'.log = page.log
    BY <1>1, <2>1 DEF Stays, MonitorState
  <2> QED  BY <1>1, <2>1, <2>2, <2>3, LightStep DEF counts
<1>4. ASSUME NEW i \in DOMAIN calls, CheckpointsArrive(i) PROVE Light
  <2>1. /\ calls[i].op = "steps" /\ calls[i].op \notin Heavy /\ ~OnJobs
        /\ UNCHANGED <<job, alive, log, counts, mount>>
        /\ calls' = Rest(i)
        /\ \/ page' = page
           \/ /\ ForThisMount(i)
              /\ \E s, p : page' = [page EXCEPT !.steps = s, !.picked = p]
    BY <1>4
    DEF CheckpointsArrive, Arrives, Heavy, Weighty, GateOps, LogOps, OnJobs
  <2>2. Spares(Heavy)
    BY <2>1 DEF Spares
  <2>3. CASE page' = page
    BY <2>1, <2>2, <2>3, LightStep DEF counts, Stays
  <2>4. CASE page' # page
    <3>1. OnMonitor
      BY <1>0, <2>1, <2>4, PageIs DEF OnMonitor, OnJobs, OpsOf, DialogOps
    <3>2. Stays /\ page'.log = page.log
      BY <1>1, <2>1, <2>4, <3>1 DEF Stays, MonitorState
    <3> QED  BY <1>1, <2>1, <2>2, <3>1, <3>2, LightStep DEF counts
  <2> QED  BY <2>3, <2>4
<1> QED  BY <1>3, <1>4

(* The server.                                                               *)
LEMMA ServerLight ==
  ASSUME Types,
         \/ Socket \/ SocketDrops \/ ReportProgress \/ RolloutGoesOn
         \/ UNCHANGED vars
         \/ \E i \in DOMAIN calls :
              \/ ListsJobs(i) \/ Looks(i) \/ ReportsRollout(i)
              \/ StopsRollout(i)
              \/ LooksForExtra(i) /\ calls[i].op # "policy"
              \/ ReportsJob(i) /\ calls[i].op # "job"
  PROVE  Light
<1>1. ASSUME calls' = calls, UNCHANGED <<job, alive, log, counts, tab>>
      PROVE  Light
  BY <1>1, LightStep DEF Spares, counts, tab, Stays, DialogsFit
<1>2. CASE \/ Socket \/ SocketDrops \/ ReportProgress \/ RolloutGoesOn
           \/ UNCHANGED vars
  BY <1>1, <1>2
  DEF Socket, SocketOpens, SocketReconnects, SocketDrops, ReportProgress,
      RolloutGoesOn, vars
<1>3. ASSUME NEW i \in DOMAIN calls,
             \/ ListsJobs(i) \/ Looks(i) \/ ReportsRollout(i)
             \/ StopsRollout(i)
             \/ LooksForExtra(i) /\ calls[i].op # "policy"
             \/ ReportsJob(i) /\ calls[i].op # "job"
      PROVE  Light
  <2>1. /\ calls[i].op \notin Heavy
        /\ UNCHANGED <<job, alive, log, counts, tab>>
        /\ \E ok, seen : Answers(i, ok, seen)
    BY <1>3
    DEF ListsJobs, Looks, ReportsRollout, StopsRollout, LooksForExtra,
        ReportsJob, Begins, Heavy, Weighty, GateOps, LogOps, Extras
  <2>2. PICK ok, seen : Answers(i, ok, seen)
    BY <2>1
  <2>3. [calls[i] EXCEPT !.at = "answered", !.ok = ok, !.seen = seen].op
          = calls[i].op
    BY ArrivedOK DEF Request, AnyCall
  <2>4. Spares(Heavy)
    BY <2>1, <2>2, <2>3 DEF Answers, Rest, Spares
  <2> QED  BY <2>1, <2>4, LightStep DEF counts, tab, Stays, DialogsFit
<1> QED  BY <1>2, <1>3

-----------------------------------------------------------------------------
(* The steps that do not: what is to be shown of them.  The log needs its    *)
(* invariant only where a calm server matters.                               *)
Good == Types /\ AloneInv /\ AliveInv /\ GateInv
Keeps == AloneInv' /\ AliveInv' /\ GateInv' /\ (LogInv => LogInv')

LEMMA LightKeeps ==
  ASSUME Good, Types', Light
  PROVE  Keeps
BY WeightFrame, GateFrame, LogFrame DEF Good, Light, Keeps

LEMMA OpenedKeeps ==
  ASSUME Good, Types', NEW p \in {JobsList, Config, Monitor, Inference},
         NEW cs \in Seq(Request), Opens(p, cs),
         \A i \in DOMAIN cs : cs[i].op \notin Weighty,
         UNCHANGED <<job, alive>>, p = Config => job = NoJob
  PROVE  Keeps
BY OpenedOK, OpenedWeights DEF Good, Keeps

(* Of a request that changes no log and no gate.                             *)
LEMMA AsideKeeps ==
  ASSUME Good, Types', AloneInv' /\ AliveInv',
         Spares(GateOps \cup LogOps), Stays, pip' = pip,
         job' # NoJob => UNCHANGED log,
         OnConfig => page'.gate = page.gate /\ page'.install = page.install,
         OnMonitor => page'.log = page.log /\ (job = NoJob => job' = NoJob)
  PROVE  Keeps
<1>1. Spares(GateOps) /\ Spares(LogOps)
  BY SparesLess, Zenon
<1>2. CallsOK
  BY DEF Good, Types
<1>3. Moves(GateOps, {}, {}) /\ Moves(LogOps, {}, {})
  BY <1>1, <1>2, SparesMoves
<1>4. GateLight /\ LogLight
  BY <1>3 DEF GateLight, LogLight
<1> QED  BY <1>4, GateFrame, LogFrame DEF Good, Keeps

LEMMA ClickKeeps ==
  ASSUME Good, Types', Weightless, Stays, UNCHANGED <<job, alive, log, pip>>,
         NEW c, calls' = Append(calls, c), c.op \in Weighty \ {"install"},
         c.mount = mount, c.at # "answered", c.op = "import" => ~alive,
         OnJobs => /\ page'.importing # "open"
                   /\ page'.dialog.open => /\ page'.importing = "no"
                                           /\ c.op # "import",
         OnConfig => page'.gate = page.gate /\ page'.install = page.install,
         OnMonitor => page'.log = page.log
  PROVE  Keeps
<1>1. AloneInv' /\ AliveInv'
  BY WeightSent DEF Good
<1>2. Spares(GateOps \cup LogOps)
  BY DEF Spares, Weighty, GateOps, LogOps
<1> QED  BY <1>1, <1>2, AsideKeeps

LEMMA CallbackKeeps ==
  ASSUME Good, Types', NEW i \in DOMAIN calls,
         calls[i].op \in Weighty \ {"install"}, Stays,
         UNCHANGED <<job, alive, log, pip>>,
         \/ calls' = Rest(i)
         \/ \E c : c.op \notin Heavy /\ calls' = Append(Rest(i), c),
         OnConfig /\ calls[i].op = "start" => ~calls[i].ok,
         OnJobs =>
           \/ page'.dialog.open = page.dialog.open
                /\ page'.importing = page.importing
           \/ /\ ~page'.dialog.open
              /\ page'.importing = "open" => ~alive,
         OnConfig => page'.gate = page.gate /\ page'.install = page.install,
         OnMonitor => page'.log = page.log
  PROVE  Keeps
<1>1. AloneInv' /\ AliveInv'
  <2>1. \/ calls' = Rest(i)
        \/ \E c : c.op \notin Weighty /\ calls' = Append(Rest(i), c)
    BY DEF Heavy
  <2> QED  BY <2>1, WeightGone DEF Good
<1>2. Spares(GateOps \cup LogOps)
  BY DEF Spares, Weighty, GateOps, LogOps, Heavy
<1> QED  BY <1>1, <1>2, AsideKeeps

LEMMA AnswerKeeps ==
  ASSUME Good, Types', NEW i \in DOMAIN calls,
         calls[i].op \in Weighty \ {"install"}, Stays, pip' = pip,
         NEW c, c.op \in Weighty \ {"install"}, c.mount = calls[i].mount,
         c.op = "import" => calls[i].op = "import",
         \/ calls' = Append(Rest(i), c)
         \/ calls' = [calls EXCEPT ![i] = c],
         OnJobs => /\ page'.dialog.open = page.dialog.open
                   /\ page'.importing = page.importing,
         alive' => Running',
         OnConfig /\ ~(c.op = "start" /\ c.at = "answered" /\ c.ok) => ~alive',
         c.op = "import" /\ ~(c.at = "answered" /\ c.ok) => ~alive',
         job' # NoJob => UNCHANGED log,
         OnConfig => page'.gate = page.gate /\ page'.install = page.install,
         OnMonitor => page'.log = page.log /\ (job = NoJob => job' = NoJob)
  PROVE  Keeps
<1>1. AloneInv' /\ AliveInv'
  BY WeightKept DEF Good
<1>2. Spares(GateOps \cup LogOps)
  BY DEF Spares, Weighty, GateOps, LogOps
<1> QED  BY <1>1, <1>2, AsideKeeps

(* The others are not weighty.                                               *)
LEMMA AloneRest ==
  ASSUME Types, AloneInv, NEW i \in DOMAIN calls, calls[i].op \in Weighty
  PROVE  /\ Rest(i) \in Seq(Request)
         /\ \A k \in DOMAIN Rest(i) : Rest(i)[k].op \notin Weighty
<1>1. \A j \in DOMAIN calls \ {i} : calls[j].op \notin Weighty
  BY DEF AloneInv
<1> QED  BY <1>1, RestFrom DEF Types

(* On the list of jobs.                                                      *)
LEMMA SettledIs ==
  ASSUME Types, Patient, Settled
  PROVE  /\ Weightless /\ calls \in Seq(Request)
         /\ \A i \in DOMAIN calls : calls[i].op \notin Weighty
         /\ \A i \in DOMAIN calls : calls[i].op \notin GateOps
BY Typed DEF Types, Settled, Weightless, Weighty, GateOps

LEMMA JobsUserKeeps ==
  ASSUME Good, Types', Patient,
         ClickStop \/ ClickDelete \/ OpenJob \/ OpenConfig \/ ClickImport
  PROVE  Keeps
<1>0. OnJobs => page \in JobsState /\ ~OnConfig /\ ~OnMonitor
  BY PageIs DEF Good, Types, TabOK, OnJobs, OnConfig, OnMonitor
<1>1. CASE ClickStop \/ ClickDelete
  <2>1. PICK op \in {"stop-card", "delete-card"} :
          calls' = Append(calls, Call(op, 0, mount))
    BY <1>1 DEF ClickStop, ClickDelete, Sends, Sent
  <2>2. /\ OnJobs /\ Settled /\ ~page.dialog.open /\ page.importing = "no"
        /\ UNCHANGED <<job, alive, log, counts, tab>>
    BY <1>1 DEF ClickStop, ClickDelete, CardShown, Uncovered
  <2> DEFINE c == Call(op, 0, mount)
  <2>3. /\ c.op \in Weighty \ {"install"} /\ c.op # "import"
        /\ c.mount = mount /\ c.at # "answered"
    BY <2>1 DEF Call, Weighty
  <2> HIDE DEF c
  <2> QED
    BY <1>0, <2>1, <2>2, <2>3, SettledIs, ClickKeeps
    DEF Good, c, counts, tab, Stays
<1>2. CASE OpenJob \/ OpenConfig
  <2>1. PICK p \in {Monitor, Config} : Opens(p, calls)
    BY <1>2 DEF OpenJob, OpenConfig
  <2>2. /\ Settled /\ UNCHANGED <<job, alive>>
        /\ p = Config => job = NoJob
    <3>1. Settled /\ UNCHANGED <<job, alive>> /\ (page' = Config => job = NoJob)
      BY <1>2 DEF OpenJob, OpenConfig, Opens, Monitor, Config
    <3>2. page' = p
      BY <2>1 DEF Opens
    <3> QED  BY <3>1, <3>2
  <2> QED  BY <2>1, <2>2, SettledIs, OpenedKeeps DEF Good
<1>3. CASE ClickImport
  <2> DEFINE c == Call("import", 0, mount)
  <2>1. /\ calls' = Append(calls, c) /\ OnJobs /\ page.importing = "open"
        /\ page' = [page EXCEPT !.importing = "busy"]
        /\ UNCHANGED <<job, alive, log, pip, mount>>
    BY <1>3 DEF ClickImport, ImportOffered, Sends, Sent, Works
  <2>2. /\ c.op \in Weighty \ {"install"} /\ c.mount = mount
        /\ c.at # "answered"
    BY DEF Call, Weighty
  <2>3. Weightless /\ ~alive /\ ~page.dialog.open
    BY <2>1 DEF Good, AloneInv, AliveInv, Weightless
  <2>4. Stays /\ page'.importing = "busy" /\ ~page'.dialog.open
    BY <1>0, <2>1, <2>3 DEF Stays, JobsState
  <2> HIDE DEF c
  <2> QED  BY <1>0, <2>1, <2>2, <2>3, <2>4, ClickKeeps
<1> QED  BY <1>1, <1>2, <1>3

LEMMA JobsCallbackKeeps ==
  ASSUME Good, Types', NEW i \in DOMAIN calls,
         ListActionArrives(i) \/ ImportArrives(i)
  PROVE  Keeps
<1>0. /\ ForThisMount(i) => calls[i].op \in OpsOf(page.at)
      /\ page \in Pages
  BY ArrivedOK DEF Good, Types, TabOK
<1>1. /\ calls[i].op \in {"stop-card", "delete-card", "import"}
      /\ calls[i].op \in Weighty \ {"install"}
      /\ UNCHANGED <<job, alive, log, counts, mount>>
      /\ \/ calls' = Rest(i)
         \/ calls' = Append(Rest(i), Call("list", 0, calls[i].mount))
  BY DEF ListActionArrives, ImportArrives, Arrives, Weighty, tab
<1>2. ForThisMount(i)
  BY <1>1 DEF Good, AloneInv
<1>3. OnJobs /\ page \in JobsState /\ ~OnConfig /\ ~OnMonitor
  BY <1>0, <1>1, <1>2, PageIs
  DEF OpsOf, DialogOps, OnJobs, OnConfig, OnMonitor
<1>4. Call("list", 0, calls[i].mount).op \notin Heavy
  BY DEF Call, Heavy, Weighty, GateOps, LogOps
<1>5. CASE ListActionArrives(i)
  <2>1. page' = page
    BY <1>5 DEF ListActionArrives, tab
  <2> QED  BY <1>1, <1>3, <1>4, <2>1, CallbackKeeps DEF counts, Stays
<1>6. CASE ImportArrives(i)
  <2>1. /\ calls[i].op = "import"
        /\ page' = [page EXCEPT !.importing = IF calls[i].ok THEN "no"
                                              ELSE "open"]
    BY <1>2, <1>6 DEF ImportArrives, Arrives
  <2>2. /\ ~page.dialog.open /\ (~calls[i].ok => ~alive)
    BY <1>3, <2>1 DEF Good, AloneInv, AliveInv
  <2>3. /\ Stays /\ ~page'.dialog.open
        /\ page'.importing = "open" => ~alive
    BY <1>1, <1>3, <2>1, <2>2 DEF Stays, JobsState
  <2> QED  BY <1>1, <1>3, <1>4, <2>3, CallbackKeeps DEF counts
<1> QED  BY <1>5, <1>6

(* The dialog that starts a run, and the page that follows it.               *)
LEMMA InferenceKeeps ==
  ASSUME Good, Types', Patient,
         \/ ClickRun \/ LeaveInference
         \/ \E i \in DOMAIN calls :
              PauseOver(i) \/ RunStarted(i) \/ RolloutArrives(i)
  PROVE  Keeps
<1>0. /\ page \in Pages /\ CallsOK
      /\ \A i \in DOMAIN calls :
           ForThisMount(i) => calls[i].op \in OpsOf(page.at)
  BY ArrivedOK DEF Good, Types, TabOK
<1>1. /\ page.at = "jobs" => page \in JobsState
      /\ page.at = "monitor" => page \in MonitorState
      /\ page.at = "inference" => page \in InferenceState
  BY <1>0, PageIs
<1>2. CASE ClickRun
  <2> DEFINE c == [Call("pause", page.dialog.step, mount)
                     EXCEPT !.at = "waiting"]
  <2>1. /\ calls' = Append(calls, c) /\ HasDialog /\ page.dialog.open /\ Settled
        /\ page' = [page EXCEPT !.dialog.busy = TRUE]
        /\ UNCHANGED <<job, alive, log, pip, mount>>
    BY <1>2 DEF ClickRun, CanStart, DialogOpen, Runs
  <2>2. /\ c.op \in Weighty \ {"install"} /\ c.mount = mount
        /\ c.at # "answered" /\ c.op # "import"
    BY DEF Call, Weighty
  <2> HIDE DEF c
  <2>3. Weightless
    BY <2>1, SettledIs DEF Good
  <2>4. CASE OnJobs
    <3>1. page.importing = "no"
      BY <2>1, <2>4 DEF Good, AloneInv
    <3>2. Stays /\ page'.importing = "no" /\ ~OnConfig /\ ~OnMonitor
      BY <1>1, <2>1, <2>4, <3>1
      DEF Stays, OnJobs, OnConfig, OnMonitor, JobsState
    <3> QED  BY <2>1, <2>2, <2>3, <3>2, ClickKeeps
  <2>5. CASE OnMonitor
    <3>1. Stays /\ page'.log = page.log /\ ~OnConfig /\ ~OnJobs
      BY <1>1, <2>1, <2>5 DEF Stays, OnJobs, OnConfig, OnMonitor, MonitorState
    <3> QED  BY <2>1, <2>2, <2>3, <3>1, ClickKeeps
  <2> QED  BY <2>1, <2>4, <2>5 DEF HasDialog, OnJobs, OnMonitor
<1>3. CASE LeaveInference
  <2>1. Settled /\ Opens(JobsList, calls) /\ UNCHANGED <<job, alive>>
    BY <1>3 DEF LeaveInference
  <2>2. JobsList # Config
    BY DEF JobsList, Config
  <2> QED  BY <2>1, <2>2, SettledIs, OpenedKeeps DEF Good
<1>4. ASSUME NEW i \in DOMAIN calls, PauseOver(i) PROVE Keeps
  <2> DEFINE c == Call("infer", calls[i].arg, calls[i].mount)
  <2>1. /\ calls[i].op = "pause" /\ calls' = Append(Rest(i), c)
        /\ UNCHANGED <<job, alive, log, counts, tab>>
    BY <1>4 DEF PauseOver
  <2>2. /\ c.op = "infer" /\ c.mount = calls[i].mount
        /\ {"infer", "pause"} \subseteq Weighty \ {"install"}
    BY DEF Call, Weighty
  <2> HIDE DEF c
  <2>3. ForThisMount(i) /\ ~OnConfig
    <3>1. ForThisMount(i)
      BY <2>1, <2>2 DEF Good, AloneInv
    <3> QED
      BY <1>0, <2>1, <3>1, PageIs DEF OpsOf, DialogOps, OnConfig
  <2>4. alive' => Running'
    BY <2>1 DEF Good, AliveInv, Running
  <2> QED
    BY <2>1, <2>2, <2>3, <2>4, AnswerKeeps DEF counts, tab, Stays
<1>5. ASSUME NEW i \in DOMAIN calls, RunStarted(i) PROVE Keeps
  <2>1. /\ calls[i].op = "infer" /\ calls[i].op \in Weighty \ {"install"}
        /\ UNCHANGED <<job, alive, log, counts>>
    BY <1>5 DEF RunStarted, Arrives, Weighty
  <2>2. ForThisMount(i) /\ HasDialog /\ ~OnConfig
    <3>1. ForThisMount(i)
      BY <2>1 DEF Good, AloneInv
    <3> QED
      BY <1>0, <2>1, <3>1, PageIs DEF OpsOf, DialogOps, OnConfig, HasDialog
  <2>3. CASE calls[i].ok
    <3>1. Opens(Inference, Rest(i))
      BY <1>5, <2>2, <2>3 DEF RunStarted, GoesTo, HasDialog, Inference
    <3>2. /\ Rest(i) \in Seq(Request)
          /\ \A k \in DOMAIN Rest(i) : Rest(i)[k].op \notin Weighty
      BY <1>0, <2>1, AloneRest DEF Good
    <3>3. Inference # Config
      BY DEF Inference, Config
    <3> QED  BY <2>1, <3>1, <3>2, <3>3, OpenedKeeps
  <2>4. CASE ~calls[i].ok
    <3>1. /\ calls' = Rest(i) /\ mount' = mount
          /\ page' = [page EXCEPT !.dialog.busy = FALSE]
      BY <1>5, <2>2, <2>4 DEF RunStarted
    <3>2. CASE OnJobs
      <4>1. /\ Stays /\ page'.importing = page.importing
            /\ page'.dialog.open = page.dialog.open /\ ~OnMonitor
        BY <1>1, <3>1, <3>2 DEF Stays, OnJobs, OnMonitor, JobsState, Dialogs
      <4> QED  BY <2>1, <2>2, <3>1, <4>1, CallbackKeeps DEF counts
    <3>3. CASE OnMonitor
      <4>1. Stays /\ page'.log = page.log /\ ~OnJobs
        BY <1>1, <3>1, <3>3 DEF Stays, OnJobs, OnMonitor, MonitorState
      <4> QED  BY <2>1, <2>2, <3>1, <4>1, CallbackKeeps DEF counts
    <3> QED  BY <2>2, <3>2, <3>3 DEF HasDialog, OnJobs, OnMonitor
  <2> QED  BY <2>3, <2>4
<1>6. ASSUME NEW i \in DOMAIN calls, RolloutArrives(i) PROVE Keeps
  <2>1. CASE Light
    BY <2>1, LightKeeps
  <2>2. CASE /\ ForThisMount(i) /\ OnInference /\ calls[i].op = "rollout"
             /\ Opens(JobsList, Rest(i))
             /\ UNCHANGED <<job, alive, log, counts>>
    <3>1. \A j \in DOMAIN calls : calls[j].op \notin Weighty
      <4> SUFFICES ASSUME NEW j \in DOMAIN calls, calls[j].op \in Weighty
                   PROVE  FALSE
        OBVIOUS
      <4>1. ForThisMount(j)
        BY DEF Good, AloneInv
      <4>2. calls[j].op \in {"rollout", "halt"}
        BY <1>0, <2>2, <4>1 DEF OpsOf, OnInference
      <4> QED  BY <4>2 DEF Weighty
    <3>2. /\ Rest(i) \in Seq(Request)
          /\ \A k \in DOMAIN Rest(i) : Rest(i)[k].op \notin Weighty
      BY <1>0, <3>1, RestFrom
    <3>3. JobsList # Config
      BY DEF JobsList, Config
    <3> QED  BY <2>2, <3>2, <3>3, OpenedKeeps
  <2> QED  BY <1>6, <2>1, <2>2, TicksLight DEF Good
<1> QED  BY <1>2, <1>3, <1>4, <1>5, <1>6

-----------------------------------------------------------------------------
(* The gate.                                                                 *)

(* Where its requests come from.                                             *)
LEMMA GateMoves ==
  ASSUME CallsOK, CallsOK', mount' = mount, NEW D, NEW New,
         Moves(GateOps, D, New)
  PROVE  /\ \A k \in Asked' : \/ \E i \in Asked \ D : calls'[k] = calls[i]
                              \/ calls'[k] \in New
         /\ \A k \in Installing' :
              \/ \E i \in Installing \ D : calls'[k] = calls[i]
              \/ calls'[k] \in New
         /\ \A i \in Asked \ D : \E k \in Asked' : calls'[k] = calls[i]
         /\ \A i \in Installing \ D : Installing' # {}
         /\ \A c \in New :
              /\ c.op \in {"seed", "progress"} /\ c.mount = mount =>
                   \E k \in Asked' : calls'[k] = c
              /\ c.op = "install" /\ c.at = "sent" => Installing' # {}
         /\ /\ \A i \in Installing : \A j \in Asked : i < j
            /\ \A c \in New : c.op # "install"
            => \A k \in Installing' : \A l \in Asked' : k < l
<1>1. PICK f : MovesBy(f, GateOps, D, New)
  BY DEF Moves
<1>2. /\ DOMAIN calls = 1..Len(calls) /\ Len(calls) \in Nat
      /\ DOMAIN calls' = 1..Len(calls') /\ Len(calls') \in Nat
  BY Typed, TypedNext
<1>3. /\ \A k \in DOMAIN calls' : calls'[k].op \in GateOps =>
           \/ f[k] \in DOMAIN calls \ D /\ calls'[k] = calls[f[k]]
           \/ f[k] = Len(calls) + 1 /\ calls'[k] \in New
      /\ \A i \in DOMAIN calls \ D : calls[i].op \in GateOps =>
           \E k \in DOMAIN calls' : f[k] = i /\ calls'[k] = calls[i]
      /\ \A c \in New : c.op \in GateOps =>
           \E k \in DOMAIN calls' : calls'[k] = c
      /\ \A k \in DOMAIN calls' : f[k] \in Nat
  BY <1>1, <1>2 DEF MovesBy
<1>4. /\ Asked = {i \in DOMAIN calls : /\ calls[i].mount = mount
                                       /\ calls[i].op \in {"seed", "progress"}}
      /\ Asked' = {k \in DOMAIN calls' :
                     /\ calls'[k].mount = mount
                     /\ calls'[k].op \in {"seed", "progress"}}
      /\ Installing' = {k \in DOMAIN calls' : /\ calls'[k].op = "install"
                                              /\ calls'[k].at = "sent"}
  BY DEF Asked, Installing, ForThisMount
<1>5. \A k \in Asked' :
        \/ f[k] \in Asked \ D /\ calls'[k] = calls[f[k]]
        \/ f[k] = Len(calls) + 1 /\ calls'[k] \in New
  BY <1>3, <1>4 DEF GateOps
<1>6. \A k \in Installing' :
        \/ f[k] \in Installing \ D /\ calls'[k] = calls[f[k]]
        \/ f[k] = Len(calls) + 1 /\ calls'[k] \in New
  BY <1>3, <1>4 DEF GateOps, Installing
<1>7. \A i \in Asked \ D : \E k \in Asked' : calls'[k] = calls[i]
  BY <1>3, <1>4 DEF GateOps
<1>8. \A i \in Installing \ D : Installing' # {}
  BY <1>3, <1>4 DEF GateOps, Installing
<1>9. \A c \in New :
        /\ c.op \in {"seed", "progress"} /\ c.mount = mount =>
             \E k \in Asked' : calls'[k] = c
        /\ c.op = "install" /\ c.at = "sent" => Installing' # {}
  BY <1>3, <1>4 DEF GateOps
<1>10. ASSUME \A i \in Installing : \A j \in Asked : i < j,
              \A c \in New : c.op # "install",
              NEW k \in Installing', NEW l \in Asked'
       PROVE  k < l
  <2>1. f[k] \in Installing
    BY <1>4, <1>6, <1>10
  <2>2. f[k] < f[l]
    <3>1. CASE f[l] \in Asked
      BY <1>10, <2>1, <3>1
    <3>2. CASE f[l] = Len(calls) + 1
      BY <1>2, <2>1, <3>2 DEF Installing
    <3> QED  BY <1>5, <3>1, <3>2
  <2>3. k \in 1..Len(calls') /\ l \in 1..Len(calls')
    BY <1>2, <1>4
  <2>4. \A a, b \in 1..Len(calls') : a < b => f[a] < f[b]
    BY <1>1 DEF MovesBy
  <2>5. l = k \/ l < k => ~(f[k] < f[l])
    BY <1>3, <1>4, <2>3, <2>4
  <2> QED  BY <2>2, <2>3, <2>5
<1> QED  BY <1>5, <1>6, <1>7, <1>8, <1>9, <1>10

(* The parts of its invariant, where the order of the requests is kept.      *)
LEMMA GateParts ==
  ASSUME Types, Types', GateInv, mount' = mount, NEW D, NEW New,
         Moves(GateOps, D, New), \A c \in New : c.op # "install",
         \A c \in New : c.op \in {"seed", "progress"} =>
           Installing' = {} \/ c.at = "sent",
         \A i \in Asked :
           calls[i].at = "answered" /\ Agrees(pip, calls[i].seen.pip) =>
             Agrees(pip', calls[i].seen.pip),
         \A c \in New : c.op \in {"seed", "progress"} /\ c.at = "answered" =>
           Agrees(pip', c.seen.pip),
         Seeded' /\ Installing' = {} => Fits(page.install)',
         Seeded' /\ Installing' # {} => page'.install = "installing"
  PROVE  GateInv'
<1>1. CallsOK /\ CallsOK'
  BY DEF Types
<1>2. \A k \in Asked' : \/ \E i \in Asked : calls'[k] = calls[i]
                        \/ calls'[k] \in New
  BY <1>1, GateMoves
<1>3. \A k \in Asked' : calls'[k].op \in {"seed", "progress"}
  BY DEF Asked
<1>4. \A k \in Installing' : \A l \in Asked' : k < l
  BY <1>1, GateMoves DEF GateInv
<1>5. ASSUME NEW k \in Installing', NEW l \in Asked'
      PROVE  calls'[l].at = "sent"
  <2>1. Installing # {}
    <3>1. \/ \E i \in Installing \ D : calls'[k] = calls[i]
          \/ calls'[k] \in New
      BY <1>1, <1>5, GateMoves
    <3>2. calls'[k].op = "install"
      BY <1>5 DEF Installing
    <3> QED  BY <3>1, <3>2
  <2>2. \A j \in Asked : calls[j].at = "sent"
    BY <2>1 DEF GateInv
  <2> QED  BY <1>2, <1>3, <1>5, <2>2
<1>6. ASSUME NEW k \in Asked', calls'[k].at = "answered"
      PROVE  Agrees(pip', calls'[k].seen.pip)
  <2>1. CASE calls'[k] \in New
    BY <1>3, <1>6, <2>1
  <2>2. ASSUME NEW i \in Asked, calls'[k] = calls[i]
        PROVE  Agrees(pip', calls'[k].seen.pip)
    <3>1. calls[i].at = "answered" /\ Agrees(pip, calls[i].seen.pip)
      BY <1>6, <2>2 DEF GateInv, Fits
    <3> QED  BY <2>2, <3>1
  <2> QED  BY <1>2, <1>6, <2>1, <2>2
<1> QED  BY <1>4, <1>5, <1>6 DEF GateInv, Fits

(* A gate is shown: it asks first.                                           *)
Gates ==
  /\ page'.gate # "none" /\ Stays /\ pip' = pip /\ OnConfig
  /\ LET c == Call("seed", 0, mount) IN
       \/ calls' = Append(calls, c)
       \/ \E i \in DOMAIN calls :
            calls[i].op \notin GateOps /\ calls' = Append(Rest(i), c)

LEMMA GatesKeep ==
  ASSUME Good, Types', Gates
  PROVE  GateInv'
<1> DEFINE c == Call("seed", 0, mount)
<1>1. c.op = "seed" /\ c.at = "sent" /\ c.mount = mount
  BY DEF Call
<1>2. CallsOK /\ CallsOK' /\ mount' = mount /\ pip' = pip /\ Types /\ GateInv
  BY DEF Good, Types, Gates, Stays
<1>3. \E D : Moves(GateOps, D, {c}) /\ \A i \in D : calls[i].op \notin GateOps
  <2>1. CASE calls' = Append(calls, c)
    <3>1. Moves(GateOps, {}, {c})
      BY <1>2, <2>1, SendingMoves
    <3> QED  BY <3>1
  <2>2. ASSUME NEW i \in DOMAIN calls, calls[i].op \notin GateOps,
               calls' = Append(Rest(i), c)
        PROVE  \E D : /\ Moves(GateOps, D, {c})
                      /\ \A j \in D : calls[j].op \notin GateOps
    <3>1. Moves(GateOps, {i}, {c})
      BY <1>2, <2>2, GoingOnMoves
    <3>2. \A j \in {i} : calls[j].op \notin GateOps
      BY <2>2
    <3> QED  BY <3>1, <3>2
  <2> QED  BY <2>1, <2>2 DEF Gates
<1>4. PICK D : Moves(GateOps, D, {c}) /\ \A i \in D : calls[i].op \notin GateOps
  BY <1>3
<1> HIDE DEF c
<1>5. \E k \in Asked' : calls'[k] = c
  BY <1>1, <1>2, <1>4, GateMoves
<1>6. ~Seeded'
  BY <1>1, <1>5 DEF Seeded
<1> QED
  BY <1>1, <1>2, <1>4, <1>6, GateParts

LEMMA GatedSteps ==
  ASSUME Types, Types',
         \/ \E t \in max.targets : PickTarget(t)
         \/ \E i \in DOMAIN calls : ExtraArrives(i) \/ WandbArrives(i)
  PROVE  Light \/ (Gates /\ WeightLight /\ LogLight)
<1>0. page \in Pages /\ CallsOK /\ \A i \in DOMAIN calls :
        ForThisMount(i) => calls[i].op \in OpsOf(page.at)
  BY ArrivedOK DEF Types, TabOK
<1>1. OnConfig => page \in ConfigState /\ ~OnJobs /\ ~OnMonitor
  BY <1>0, PageIs DEF OnConfig, OnJobs, OnMonitor
<1> DEFINE c == Call("seed", 0, mount)
<1>2. c.op = "seed"
  BY DEF Call
<1>3. ASSUME OnConfig, UNCHANGED <<job, alive, log, counts, mount>>,
             NEW p \in ConfigState,
             p.gate = page.gate, p.install = page.install,
             \/ page' = p /\ Spares(Heavy)
             \/ /\ \E extra \in Extras : page' = ShowsGate(extra, p)
                /\ \/ calls' = Append(calls, c)
                   \/ \E i \in DOMAIN calls :
                        calls[i].op \notin Heavy /\ calls' = Append(Rest(i), c)
      PROVE  Light \/ (Gates /\ WeightLight /\ LogLight)
  <2>1. CASE page' = p /\ Spares(Heavy)
    <3>1. Stays /\ page'.gate = page.gate /\ page'.install = page.install
      BY <1>1, <1>3, <2>1 DEF Stays, ConfigState
    <3> QED  BY <1>1, <1>3, <2>1, <3>1, LightStep DEF counts
  <2>2. CASE /\ \E extra \in Extras : page' = ShowsGate(extra, p)
             /\ \/ calls' = Append(calls, c)
                \/ \E i \in DOMAIN calls :
                     calls[i].op \notin Heavy /\ calls' = Append(Rest(i), c)
    <3>1. Stays /\ page'.gate # "none"
      BY <1>1, <1>3, <2>2 DEF ShowsGate, Stays, ConfigState, Extras
    <3>2. Gates
      BY <1>3, <2>2, <3>1 DEF Gates, Heavy, counts
    <3>3. Spares(Weighty) /\ Spares(LogOps)
      BY <1>2, <2>2 DEF Spares, Heavy, Weighty, LogOps
    <3>4. Moves(Weighty, {}, {}) /\ Moves(LogOps, {}, {})
      BY <1>0, <3>3, SparesMoves
    <3>5. WeightLight /\ LogLight
      BY <1>1, <1>3, <3>1, <3>4 DEF WeightLight, LogLight, Running
    <3> QED  BY <3>2, <3>5
  <2> QED  BY <1>3, <2>1, <2>2
<1>4. ASSUME NEW t \in max.targets, PickTarget(t)
      PROVE  Light \/ (Gates /\ WeightLight /\ LogLight)
  <2> DEFINE p == [page EXCEPT !.target = t]
  <2>1. OnConfig /\ UNCHANGED <<job, alive, log, counts, mount>>
        /\ Gated(p, calls)
    BY <1>4 DEF PickTarget, FormShown
  <2>2. t \in Runners
    BY MaxOK DEF Types
  <2>3. p \in ConfigState /\ p.gate = page.gate /\ p.install = page.install
    BY <1>1, <2>1, <2>2 DEF ConfigState
  <2> HIDE DEF p
  <2>4. \/ page' = p /\ Spares(Heavy)
        \/ page' = ShowsGate("training", p) /\ calls' = Append(calls, c)
    BY <2>1 DEF Gated, Seeds, Spares
  <2> QED  BY <1>3, <2>1, <2>3, <2>4 DEF Extras
<1>5. ASSUME NEW i \in DOMAIN calls, ExtraArrives(i) \/ WandbArrives(i)
      PROVE  Light \/ (Gates /\ WeightLight /\ LogLight)
  <2>1. /\ calls[i].op \in {"training", "wandb"} /\ calls[i].op \notin Heavy
        /\ UNCHANGED <<job, alive, log, counts, mount>>
    BY <1>5
    DEF ExtraArrives, WandbArrives, Arrives, Heavy, Weighty, GateOps, LogOps
  <2>2. CASE calls' = Rest(i) /\ page' = page
    BY <2>1, <2>2, LightStep DEF Spares, counts, Stays, DialogsFit
  <2>3. CASE ~(calls' = Rest(i) /\ page' = page)
    <3>1. ForThisMount(i)
      BY <1>5, <2>3 DEF ExtraArrives, WandbArrives
    <3>2. OnConfig
      BY <1>0, <2>1, <3>1, PageIs DEF OnConfig, OpsOf, DialogOps
    <3>3. CASE ExtraArrives(i)
      <4> DEFINE p == [page EXCEPT !.extra = IF calls[i].ok THEN "yes"
                                             ELSE "no"]
      <4>1. Gated(p, Rest(i))
        BY <3>1, <3>3 DEF ExtraArrives
      <4>2. p \in ConfigState /\ p.gate = page.gate /\ p.install = page.install
        BY <1>1, <3>2 DEF ConfigState
      <4> HIDE DEF p
      <4>3. \/ page' = p /\ Spares(Heavy)
            \/ page' = ShowsGate("training", p) /\ calls' = Append(Rest(i), c)
        BY <2>1, <4>1 DEF Gated, Seeds, Spares
      <4> QED  BY <1>3, <2>1, <3>2, <4>2, <4>3 DEF Extras
    <3>4. CASE WandbArrives(i)
      <4>1. page' = ShowsGate("wandb", page) /\ calls' = Append(Rest(i), c)
        BY <2>3, <3>1, <3>4 DEF WandbArrives, Seeds
      <4> QED  BY <1>1, <1>3, <2>1, <3>2, <4>1 DEF Extras
    <3> QED  BY <1>5, <3>3, <3>4
  <2> QED  BY <2>2, <2>3
<1> QED  BY <1>4, <1>5

LEMMA GatedKeep ==
  ASSUME Good, Types',
         \/ \E t \in max.targets : PickTarget(t)
         \/ \E i \in DOMAIN calls : ExtraArrives(i) \/ WandbArrives(i)
  PROVE  Keeps
<1>1. Types
  BY DEF Good
<1>2. CASE Light
  BY <1>2, LightKeeps
<1>3. CASE Gates /\ WeightLight /\ LogLight
  <2>1. GateInv'
    BY <1>3, GatesKeep
  <2>2. AloneInv' /\ AliveInv'
    BY <1>1, <1>3, WeightFrame DEF Good
  <2>3. LogInv => LogInv'
    BY <1>1, <1>3, LogFrame
  <2> QED  BY <2>1, <2>2, <2>3 DEF Keeps
<1> QED  BY <1>1, <1>2, <1>3, GatedSteps

(* It asks, hears, and installs.                                             *)
LEMMA GateUserKeeps ==
  ASSUME Good, Types', Patient,
         ClickInstall \/ ClickRetry \/ CloseGate \/ PollInstall
  PROVE  Keeps
<1>0. /\ CallsOK /\ CallsOK' /\ OnConfig /\ page \in Pages
      /\ UNCHANGED <<job, alive, log, pip, mount>> /\ GateInv /\ Types
  BY DEF ClickInstall, InstallOffered, ClickRetry, RetryOffered, CloseGate,
         PollInstall, GateShown, Good, Types, TabOK, counts, tab
<1>1. page \in ConfigState /\ ~OnJobs /\ ~OnMonitor
  BY <1>0, PageIs DEF OnConfig, OnJobs, OnMonitor
<1>2. ASSUME Moves(Weighty, {}, {}), Moves(LogOps, {}, {}), page'.at = page.at,
             GateInv'
      PROVE  Keeps
  <2>1. WeightLight /\ LogLight
    BY <1>0, <1>1, <1>2 DEF WeightLight, LogLight, Stays, Running
  <2> QED  BY <1>2, <2>1, WeightFrame, LogFrame DEF Good, Keeps
<1>3. CASE ClickInstall
  <2> DEFINE c == Call("install", 0, mount)
  <2>1. /\ calls' = Append(calls, c) /\ Settled /\ GateShown
        /\ page' = [page EXCEPT !.install = "installing"]
    BY <1>3 DEF ClickInstall, InstallOffered, Sends, Sent
  <2>2. c.op = "install" /\ c.mount = mount /\ c.at = "sent"
    BY DEF Call
  <2>3. Stays /\ page'.install = "installing"
    BY <1>0, <1>1, <2>1 DEF Stays, ConfigState
  <2> HIDE DEF c
  <2>4. Weightless /\ \A i \in DOMAIN calls : calls[i].op \notin GateOps
    BY <1>0, <2>1, SettledIs
  <2>5. AloneInv' /\ AliveInv'
    BY <1>0, <1>1, <2>1, <2>2, <2>3, <2>4, WeightSent DEF Good, Weighty
  <2>6. Moves(GateOps, {}, {c}) /\ mount' = mount
    BY <1>0, <2>1, SendingMoves
  <2>7. GateInv'
    <3>1. \A k \in Asked' : \/ \E i \in Asked : calls'[k] = calls[i]
                            \/ calls'[k] = c
      BY <1>0, <2>6, GateMoves
    <3>2. Asked' = {}
      BY <2>2, <2>4, <3>1 DEF Asked, GateOps
    <3>3. Installing' # {}
      BY <1>0, <2>2, <2>6, GateMoves
    <3> QED  BY <2>3, <3>2, <3>3 DEF GateInv
  <2>8. Spares(LogOps)
    BY <2>1, <2>2 DEF Spares, LogOps
  <2>9. Moves(LogOps, {}, {})
    BY <1>0, <2>8, SparesMoves
  <2>10. LogLight
    BY <1>0, <1>1, <2>3, <2>9 DEF LogLight
  <2> QED  BY <2>5, <2>7, <2>10, LogFrame DEF Good, Keeps
<1>4. CASE ClickRetry
  <2>1. /\ calls' = calls /\ GateShown /\ page.install = "error"
        /\ page' = [page EXCEPT !.install = "idle"]
    BY <1>4 DEF ClickRetry, RetryOffered
  <2>2. /\ page'.at = page.at /\ page'.install = "idle"
        /\ page'.gate = page.gate
    BY <1>1, <2>1 DEF ConfigState
  <2>3. \A H : Moves(H, {}, {})
    BY <1>0, <2>1, StillMoves
  <2>4. /\ Asked' = Asked /\ Installing' = Installing
        /\ (Seeded' <=> Seeded)
    BY <1>0, <2>1, <2>2
    DEF Asked, Installing, Seeded, GateShown, OnConfig, ForThisMount
  <2>5. Seeded => Installing = {} /\ pip # "installing"
    BY <2>1 DEF GateInv, Good, Fits, Agrees
  <2>6. GateInv'
    BY <1>0, <2>1, <2>2, <2>4, <2>5 DEF GateInv, Fits, Agrees
  <2> QED  BY <1>2, <2>2, <2>3, <2>6
<1>5. CASE CloseGate
  <2> DEFINE unheard == IF page.gate = "wandb" THEN {"seed"}
                        ELSE {"seed", "progress"}
             K == {i \in DOMAIN calls : calls[i].op \notin unheard}
  <2>1. /\ calls' = Subsequence(calls, K)
        /\ page' = [page EXCEPT !.gate = "none",
                      !.install = IF page.gate = "wandb" THEN @ ELSE "idle"]
    BY <1>5 DEF CloseGate
  <2>2. page'.at = page.at /\ page'.gate = "none"
    BY <1>1, <2>1 DEF ConfigState
  <2>3. \A H : Moves(H, DOMAIN calls \ K, {})
    <3>1. calls \in Seq(Request) /\ K \in SUBSET DOMAIN calls
      BY <1>0, Typed
    <3> HIDE DEF K
    <3>2. Derived(calls', calls, K, {})
      BY <2>1, <3>1, SubsequenceDerived
    <3>3. PICK f : From(f, calls', calls, K, {})
      BY <3>2 DEF Derived
    <3>4. Len(calls) \in Nat /\ DOMAIN calls = 1..Len(calls)
      BY <1>0, Typed
    <3>5. \A H : MovesBy(f, H, DOMAIN calls \ K, {})
      BY <3>1, <3>3, <3>4 DEF From, MovesBy
    <3> QED  BY <3>5 DEF Moves
  <2>4. /\ \A i \in DOMAIN calls \ K : calls[i].op \notin Weighty
        /\ \A i \in DOMAIN calls \ K : calls[i].op \notin LogOps
    BY DEF Weighty, LogOps
  <2> HIDE DEF K, unheard
  <2>5. Moves(Weighty, {}, {}) /\ Moves(LogOps, {}, {})
    BY <1>0, <2>3, <2>4, MovesLess
  <2>6. GateInv'
    <3>1. ~Seeded'
      BY <2>2 DEF Seeded, GateShown
    <3> QED  BY <1>0, <2>3, <3>1, GateParts
  <2> QED  BY <1>2, <2>2, <2>5, <2>6
<1>6. CASE PollInstall
  <2> DEFINE c == Call("progress", 0, mount)
  <2>1. /\ calls' = Append(calls, c) /\ page' = page
        /\ page.install = "installing"
    BY <1>6 DEF PollInstall, Sent, tab
  <2>2. c.op = "progress" /\ c.mount = mount /\ c.at = "sent"
    BY DEF Call
  <2> HIDE DEF c
  <2>3. Spares(LogOps) /\ Spares(Weighty)
    BY <2>1, <2>2 DEF Spares, LogOps, Weighty
  <2>4. Moves(LogOps, {}, {}) /\ Moves(Weighty, {}, {})
    BY <1>0, <2>3, SparesMoves
  <2>5. Moves(GateOps, {}, {c})
    BY <1>0, <2>1, SendingMoves
  <2>6. GateInv'
    <3>1. /\ \A i \in Asked : \E k \in Asked' : calls'[k] = calls[i]
          /\ \A i \in Installing : Installing' # {}
      BY <1>0, <2>5, GateMoves
    <3>2. Seeded' => Seeded
      BY <2>1, <3>1 DEF Seeded, GateShown, OnConfig
    <3>3. Seeded' /\ Installing' = {} => Fits(page.install)'
      BY <1>0, <2>1, <3>1, <3>2 DEF GateInv, Fits
    <3> QED  BY <1>0, <2>1, <2>2, <2>5, <3>3, GateParts
  <2> QED  BY <1>2, <2>1, <2>4, <2>6
<1> QED  BY <1>3, <1>4, <1>5, <1>6

LEMMA GateCallbackKeeps ==
  ASSUME Good, Types', NEW i \in DOMAIN calls, GateCallback(i)
  PROVE  Keeps
<1>0. /\ CallsOK /\ CallsOK' /\ page \in Pages /\ GateInv /\ Types
      /\ UNCHANGED <<job, alive, log, pip, mount>>
      /\ calls' = Rest(i) /\ calls[i].op \in GateOps
      /\ calls[i].at = "answered"
  BY DEF GateCallback, SeedArrives, InstallArrives, ProgressArrives, Arrives,
         Good, Types, TabOK, counts, tab, GateOps
<1>1. OnConfig => page \in ConfigState /\ ~OnJobs /\ ~OnMonitor
  BY <1>0, PageIs DEF OnConfig, OnJobs, OnMonitor
<1>2. Moves(GateOps, {i}, {})
  BY <1>0, EndingMoves
<1>3. /\ \A j \in Asked \ {i} : \E k \in Asked' : calls'[k] = calls[j]
      /\ i \notin Installing
      /\ \A k \in Installing' : \E j \in Installing \ {i} : calls'[k] = calls[j]
      /\ \A j \in Installing \ {i} : Installing' # {}
  BY <1>0, <1>2, GateMoves DEF Installing
<1>4. Installing' = {} <=> Installing = {}
  BY <1>3
<1>5. ASSUME page' = page,
             ~(ForThisMount(i) /\ calls[i].op = "seed" /\ GateShown)
      PROVE  GateInv'
  <2>1. Seeded' => Seeded
    <3>1. GateShown' = GateShown
      BY <1>5 DEF GateShown, OnConfig
    <3>2. \A j \in Asked : calls[j].op = "seed" =>
            ~GateShown \/ \E k \in Asked' : calls'[k] = calls[j]
      BY <1>3, <1>5 DEF Asked
    <3> QED  BY <3>1, <3>2 DEF Seeded
  <2>2. /\ Seeded' /\ Installing' = {} => Fits(page.install)'
        /\ Seeded' /\ Installing' # {} => page'.install = "installing"
    BY <1>0, <1>4, <1>5, <2>1 DEF GateInv, Fits
  <2> QED  BY <1>0, <1>2, <2>2, GateParts
<1>6. ASSUME i \in Asked, OnConfig,
             page' = [page EXCEPT !.install = calls[i].seen.pip]
      PROVE  GateInv'
  <2>1. Agrees(pip, calls[i].seen.pip) /\ Installing = {}
    BY <1>0, <1>6 DEF GateInv, Fits
  <2>2. page'.install = calls[i].seen.pip
    BY <1>1, <1>6 DEF ConfigState
  <2>3. Fits(page.install)' /\ Installing' = {}
    BY <1>0, <1>4, <2>1, <2>2 DEF Fits
  <2> QED  BY <1>0, <1>2, <2>3, GateParts
<1>7. \/ /\ page' = page
         /\ ~(ForThisMount(i) /\ calls[i].op = "seed" /\ GateShown)
      \/ /\ i \in Asked /\ OnConfig
         /\ page' = [page EXCEPT !.install = calls[i].seen.pip]
  <2>1. CASE SeedArrives(i)
    BY <2>1 DEF SeedArrives, Arrives, Asked, GateShown
  <2>2. CASE ProgressArrives(i)
    BY <2>2 DEF ProgressArrives, Arrives, Asked
  <2>3. CASE InstallArrives(i)
    BY <2>3 DEF InstallArrives, Arrives, tab
  <2> QED  BY <2>1, <2>2, <2>3 DEF GateCallback
<1>8. GateInv'
  BY <1>5, <1>6, <1>7
<1>9. Stays /\ (OnJobs \/ OnMonitor => page' = page)
  BY <1>0, <1>1, <1>7 DEF Stays, ConfigState
<1>10. LogInv => LogInv'
  <2>1. Spares(LogOps)
    BY <1>0 DEF Spares, GateOps, LogOps
  <2>2. Moves(LogOps, {}, {})
    BY <1>0, <2>1, SparesMoves
  <2>3. LogLight
    BY <1>0, <1>9, <2>2 DEF LogLight
  <2> QED  BY <2>3, LogFrame DEF Good
<1>11. AloneInv' /\ AliveInv'
  <2>1. CASE calls[i].op = "install"
    BY <1>0, <1>9, <2>1, WeightGone DEF Good, Weighty
  <2>2. CASE calls[i].op # "install"
    <3>1. Spares(Weighty)
      BY <1>0, <2>2 DEF Spares, GateOps, Weighty
    <3>2. Moves(Weighty, {}, {})
      BY <1>0, <3>1, SparesMoves
    <3>3. WeightLight
      BY <1>0, <1>9, <3>2 DEF WeightLight, Running, DialogsFit
    <3> QED  BY <3>3, WeightFrame DEF Good
  <2> QED  BY <2>1, <2>2
<1> QED  BY <1>8, <1>10, <1>11 DEF Keeps

(* What the server knows of the installation.                                *)
LEMMA GateServerKeeps ==
  ASSUME Good, Types', ~Overtaking,
         \/ InstallEnds
         \/ \E i \in DOMAIN calls : InstallsExtra(i) \/ ReportsInstall(i)
  PROVE  Keeps
<1>0. /\ CallsOK /\ CallsOK' /\ page \in Pages /\ GateInv /\ Types
      /\ UNCHANGED <<job, alive, log, page, mount>>
      /\ pip \in Installs /\ pip' \in Installs
  BY DEF InstallEnds, InstallsExtra, ReportsInstall, Good, Types, TabOK,
         ServerOK, counts, tab
<1>1. /\ Stays /\ GateShown' = GateShown /\ (OnConfig' <=> OnConfig)
  BY <1>0 DEF Stays, GateShown, OnConfig
<1>2. ASSUME Spares(LogOps), AloneInv' /\ AliveInv', GateInv' PROVE Keeps
  <2>1. Moves(LogOps, {}, {})
    BY <1>0, <1>2, SparesMoves
  <2>2. LogLight
    BY <1>0, <1>1, <2>1 DEF LogLight
  <2> QED  BY <1>2, <2>2, LogFrame DEF Good, Keeps
<1>3. ASSUME Spares(Weighty) PROVE AloneInv' /\ AliveInv'
  <2>1. Moves(Weighty, {}, {})
    BY <1>0, <1>3, SparesMoves
  <2>2. WeightLight
    BY <1>0, <1>1, <2>1 DEF WeightLight, Running, DialogsFit
  <2> QED  BY <2>2, WeightFrame DEF Good
<1>4. CASE InstallEnds
  <2>1. /\ pip = "installing" /\ pip' \in {"done", "error"} /\ calls' = calls
    BY <1>4 DEF InstallEnds
  <2>2. Spares(LogOps) /\ Spares(Weighty)
    BY <2>1 DEF Spares
  <2>3. /\ Asked' = Asked /\ Installing' = Installing /\ (Seeded' <=> Seeded)
    BY <1>0, <2>1
    DEF Asked, Installing, Seeded, ForThisMount, GateShown, OnConfig
  <2>4. \A idea : Agrees(pip, idea) => Agrees(pip', idea)
    BY <2>1 DEF Agrees
  <2>5. GateInv'
    BY <1>0, <2>1, <2>3, <2>4 DEF GateInv, Fits
  <2> QED  BY <1>2, <1>3, <2>2, <2>5
<1>5. ASSUME NEW i \in DOMAIN calls, ReportsInstall(i) PROVE Keeps
  <2> DEFINE c == [calls[i] EXCEPT !.at = "answered", !.ok = TRUE,
                                   !.seen = [Reply EXCEPT !.pip = pip]]
  <2>1. /\ calls[i].op \in {"seed", "progress"} /\ calls[i].at = "sent"
        /\ \A j \in 1..(i - 1) : calls[j].at # "sent"
        /\ pip' = pip /\ calls' = Append(Rest(i), c)
    BY <1>5 DEF ReportsInstall, Begins, Answers, Rest, counts
  <2>2. /\ c.op = calls[i].op /\ c.at = "answered" /\ c.seen.pip = pip
        /\ c.mount = calls[i].mount
    <3>1. calls[i] \in Request
      BY <1>0, Typed
    <3> QED  BY <3>1 DEF Request, AnyCall, Reply
  <2> HIDE DEF c
  <2>3. Spares(LogOps) /\ Spares(Weighty)
    BY <2>1, <2>2 DEF Spares, LogOps, Weighty
  <2>4. Moves(GateOps, {i}, {c})
    BY <1>0, <2>1, GoingOnMoves
  <2>5. /\ \A k \in Installing' : \/ \E j \in Installing : calls'[k] = calls[j]
                                  \/ calls'[k] = c
        /\ \A j \in Asked \ {i} : \E k \in Asked' : calls'[k] = calls[j]
        /\ \A j \in Installing \ {i} : Installing' # {}
        /\ c.mount = mount => \E k \in Asked' : calls'[k] = c
    <3>1. /\ \A k \in Installing' :
               \/ \E j \in Installing \ {i} : calls'[k] = calls[j]
               \/ calls'[k] \in {c}
          /\ \A j \in Asked \ {i} : \E k \in Asked' : calls'[k] = calls[j]
          /\ \A j \in Installing \ {i} : Installing' # {}
          /\ \A d \in {c} : d.op \in {"seed", "progress"} /\ d.mount = mount
               => \E k \in Asked' : calls'[k] = d
      BY <1>0, <2>4, GateMoves
    <3>2. c.op \in {"seed", "progress"}
      BY <2>1, <2>2
    <3> QED  BY <3>1, <3>2
  <2>6. i \notin Installing /\ (Installing' = {} <=> Installing = {})
    <3>1. i \notin Installing
      BY <2>1 DEF Installing
    <3>2. \A k \in Installing' : calls'[k] # c
      BY <2>1, <2>2 DEF Installing
    <3> QED  BY <2>5, <3>1, <3>2
  <2>7. i \in Asked => Installing = {}
    <3> SUFFICES ASSUME i \in Asked, NEW j \in Installing PROVE FALSE
      OBVIOUS
    <3>1. j < i /\ calls[j].at = "sent"
      BY <1>0 DEF GateInv, Installing
    <3>2. j \in Nat \ {0} /\ i \in Nat
      BY <1>0, Typed DEF Installing
    <3> QED  BY <2>1, <3>1, <3>2
  <2>8. Seeded' => Seeded
    <3>1. ASSUME NEW j \in Asked, calls[j].op = "seed"
          PROVE  \E k \in Asked' : calls'[k].op = "seed"
      <4>1. CASE j = i
        BY <2>1, <2>2, <2>5, <3>1, <4>1 DEF Asked, ForThisMount
      <4>2. CASE j # i
        BY <2>5, <3>1, <4>2
      <4> QED  BY <4>1, <4>2
    <3> QED  BY <1>1, <3>1 DEF Seeded
  <2>9. Agrees(pip, pip)
    BY <1>0 DEF Agrees
  <2>10. GateInv'
    <3>1. ASSUME c.mount # mount
          PROVE  GateInv'
      <4>1. Moves(GateOps, {i}, {c}) /\ i \notin Asked
        BY <2>2, <2>4, <3>1 DEF Asked, ForThisMount
      <4>2. \A k \in Asked' : \E j \in Asked : calls'[k] = calls[j]
        <5>1. \A k \in Asked' : calls'[k] # c
          BY <1>0, <3>1 DEF Asked, ForThisMount
        <5> QED  BY <1>0, <2>4, <5>1, GateMoves
      <4>3. \A k \in Installing' : \A l \in Asked' : k < l
        BY <1>0, <2>1, <2>2, <2>4, GateMoves DEF GateInv
      <4>4. \A k \in Installing' : \A l \in Asked' : calls'[l].at = "sent"
        BY <1>0, <2>6, <4>2 DEF GateInv
      <4>5. \A k \in Asked' : calls'[k].at = "answered" =>
              Agrees(pip', calls'[k].seen.pip)
        BY <1>0, <2>1, <4>2 DEF GateInv, Fits
      <4>6. /\ Seeded' /\ Installing' = {} => Agrees(pip', page'.install)
            /\ Seeded' /\ Installing' # {} => page'.install = "installing"
        BY <1>0, <2>1, <2>6, <2>8 DEF GateInv, Fits
      <4> QED  BY <4>3, <4>4, <4>5, <4>6 DEF GateInv, Fits
    <3>2. ASSUME c.mount = mount PROVE GateInv'
      <4>1. Installing' = {}
        BY <2>1, <2>2, <2>6, <2>7, <3>2 DEF Asked, ForThisMount
      <4>2. Seeded' => Agrees(pip', page'.install)
        BY <1>0, <2>1, <2>6, <2>8, <4>1 DEF GateInv, Fits
      <4> QED
        BY <1>0, <2>1, <2>2, <2>4, <2>9, <4>1, <4>2, GateParts DEF Fits
    <3> QED  BY <3>1, <3>2
  <2> QED  BY <1>2, <1>3, <2>3, <2>10
<1>6. ASSUME NEW i \in DOMAIN calls, InstallsExtra(i) PROVE Keeps
  <2> DEFINE c == [calls[i] EXCEPT !.at = "answered",
                                   !.ok = (pip # "installing"), !.seen = Reply]
  <2>1. /\ calls[i].op = "install" /\ calls[i].at = "sent"
        /\ pip' = "installing" /\ calls' = Append(Rest(i), c)
    BY <1>6 DEF InstallsExtra, Begins, Answers, Rest
  <2>2. /\ c.op = "install" /\ c.at = "answered" /\ c.mount = calls[i].mount
    <3>1. calls[i] \in Request
      BY <1>0, Typed
    <3> QED  BY <2>1, <3>1 DEF Request, AnyCall
  <2> HIDE DEF c
  <2>3. Spares(LogOps)
    BY <2>1, <2>2 DEF Spares, LogOps
  <2>4. OnConfig /\ ~OnJobs
    <3>1. ForThisMount(i)
      BY <2>1 DEF Good, AloneInv, Weighty
    <3> QED
      BY <1>0, <2>1, <3>1, ArrivedOK, PageIs
      DEF OpsOf, DialogOps, OnConfig, OnJobs
  <2>5. AloneInv' /\ AliveInv'
    <3>1. ~alive
      <4>1. ~Started
        BY <2>1 DEF Started, Good, AloneInv, Weighty
      <4> QED  BY <2>4, <4>1 DEF Good, AliveInv
    <3> QED
      BY <1>0, <1>1, <2>1, <2>2, <2>4, <3>1, WeightKept DEF Good, Weighty
  <2>6. Moves(GateOps, {i}, {c}) /\ i \in Installing
    BY <1>0, <2>1, GoingOnMoves DEF Installing
  <2>7. Installing = {i}
    BY <2>1 DEF Installing, Good, AloneInv, Weighty
  <2>8. Installing' = {}
    <3>1. \A k \in Installing' : \/ \E j \in Installing \ {i} :
                                      calls'[k] = calls[j]
                                 \/ calls'[k] = c
      BY <1>0, <2>6, GateMoves
    <3>2. \A k \in Installing' : calls'[k] # c
      BY <2>2 DEF Installing
    <3> QED  BY <2>7, <3>1, <3>2
  <2>9. \A k \in Asked' : \E j \in Asked : calls'[k] = calls[j]
    <3>1. \A k \in Asked' : calls'[k] # c
      BY <2>2 DEF Asked
    <3> QED  BY <1>0, <2>6, <3>1, GateMoves
  <2>10. \A k \in Asked' : calls'[k].at = "sent"
    BY <1>0, <2>7, <2>9 DEF GateInv
  <2>11. Seeded' => page'.install = "installing"
    <3>1. \A j \in Asked : \E k \in Asked' : calls'[k] = calls[j]
      <4>1. i \notin Asked
        BY <2>1 DEF Asked
      <4> QED  BY <1>0, <2>6, <4>1, GateMoves
    <3>2. Seeded' => Seeded
      BY <1>1, <3>1 DEF Seeded
    <3> QED  BY <1>0, <2>7, <3>2 DEF GateInv
  <2>12. GateInv'
    BY <2>1, <2>8, <2>10, <2>11 DEF GateInv, Fits, Agrees
  <2> QED  BY <1>2, <2>3, <2>5, <2>12
<1> QED  BY <1>4, <1>5, <1>6

-----------------------------------------------------------------------------
(* The form: a training is started, or its policy's package is missing.      *)
LEMMA ConfigKeeps ==
  ASSUME Good, Types', Patient,
         \/ ClickStart \/ LeaveConfig
         \/ \E i \in DOMAIN calls :
              \/ PackageArrives(i) \/ StartArrives(i)
              \/ LooksForExtra(i) /\ calls[i].op = "policy"
  PROVE  Keeps
<1>0. /\ page \in Pages /\ CallsOK /\ Types
      /\ \A i \in DOMAIN calls :
           /\ ForThisMount(i) => calls[i].op \in OpsOf(page.at)
           /\ calls[i] \in Request
  BY ArrivedOK DEF Good, Types, TabOK
<1>1. OnConfig => page \in ConfigState /\ ~OnJobs /\ ~OnMonitor
  BY <1>0, PageIs DEF OnConfig, OnJobs, OnMonitor
<1>2. ASSUME NEW i \in DOMAIN calls, calls[i].op \in {"policy", "start"}
      PROVE  /\ ForThisMount(i) /\ OnConfig
             /\ calls[i].op \in Weighty \ {"install"}
             /\ calls[i].op = "policy" => ~alive
  <2>1. calls[i].op \in Weighty \ {"install"}
    BY <1>2 DEF Weighty
  <2>2. ForThisMount(i)
    BY <2>1 DEF Good, AloneInv
  <2>3. OnConfig
    BY <1>0, <1>2, <2>2, PageIs DEF OpsOf, DialogOps, OnConfig
  <2>4. calls[i].op = "policy" => ~Started
    BY DEF Started, Good, AloneInv, Weighty
  <2> QED  BY <2>1, <2>2, <2>3, <2>4 DEF Good, AliveInv
<1>3. CASE ClickStart
  <2>1. /\ OnConfig /\ Settled
        /\ \E op \in {"policy", "start"} : \E arg :
             calls' = Append(calls, Call(op, arg, mount))
        /\ page' = page \/ page' = [page EXCEPT !.busy = TRUE]
        /\ UNCHANGED <<job, alive, log, pip, mount>>
    BY <1>3 DEF ClickStart, StartShown, FormShown, Works, Sends, Sent
  <2>2. PICK op \in {"policy", "start"} : \E arg :
          calls' = Append(calls, Call(op, arg, mount))
    BY <2>1
  <2>3. PICK arg : calls' = Append(calls, Call(op, arg, mount))
    BY <2>2
  <2> DEFINE c == Call(op, arg, mount)
  <2>4. /\ c.op \in Weighty \ {"install"} /\ c.op # "import"
        /\ c.mount = mount /\ c.at # "answered"
    BY <2>2 DEF Call, Weighty
  <2> HIDE DEF c
  <2>5. Weightless
    BY <1>0, <2>1, SettledIs
  <2>6. Stays /\ page'.gate = page.gate /\ page'.install = page.install
    BY <1>1, <2>1 DEF Stays, ConfigState
  <2> QED
    BY <1>1, <2>1, <2>3, <2>4, <2>5, <2>6, ClickKeeps DEF c
<1>4. CASE LeaveConfig
  <2>1. Settled /\ Opens(JobsList, calls) /\ UNCHANGED <<job, alive>>
    BY <1>4 DEF LeaveConfig
  <2>2. JobsList # Config
    BY DEF JobsList, Config
  <2> QED  BY <1>0, <2>1, <2>2, SettledIs, OpenedKeeps
<1>5. ASSUME NEW i \in DOMAIN calls, PackageArrives(i) PROVE Keeps
  <2>1. /\ calls[i].op = "policy"
        /\ UNCHANGED <<job, alive, log, counts, mount>>
    BY <1>5 DEF PackageArrives, Arrives
  <2>2. /\ ForThisMount(i) /\ OnConfig /\ ~alive
        /\ calls[i].op \in Weighty \ {"install"}
    BY <1>2, <2>1
  <2>3. CASE calls[i].ok
    <3> DEFINE c == Call("start", calls[i].arg, calls[i].mount)
    <3>1. /\ calls' = Append(Rest(i), c)
          /\ page' = [page EXCEPT !.busy = TRUE]
      BY <1>5, <2>2, <2>3 DEF PackageArrives
    <3>2. /\ c.op = "start" /\ c.mount = calls[i].mount
          /\ c.op \in Weighty \ {"install"}
      BY DEF Call, Weighty
    <3> HIDE DEF c
    <3>3. Stays /\ page'.gate = page.gate /\ page'.install = page.install
      BY <1>1, <2>1, <2>2, <3>1 DEF Stays, ConfigState
    <3> QED
      BY <1>1, <2>1, <2>2, <3>1, <3>2, <3>3, AnswerKeeps DEF counts
  <2>4. CASE ~calls[i].ok
    <3> DEFINE c == Call("seed", 0, mount)
    <3>1. /\ page' = ShowsGate("policy", page)
          /\ calls' = Append(Rest(i), c)
      BY <1>5, <2>2, <2>4 DEF PackageArrives, Seeds
    <3>2. c.op = "seed"
      BY DEF Call
    <3>3. Stays /\ page'.gate = "policy"
      BY <1>1, <2>1, <2>2, <3>1 DEF ShowsGate, Stays, ConfigState
    <3>4. GateInv'
      <4>1. Gates
        BY <2>1, <2>2, <3>1, <3>3 DEF Gates, GateOps, counts
      <4> QED  BY <4>1, GatesKeep
    <3> HIDE DEF c
    <3>5. AloneInv' /\ AliveInv'
      <4>1. \E d : d.op \notin Weighty /\ calls' = Append(Rest(i), d)
        BY <3>1, <3>2 DEF Weighty
      <4> QED
        BY <1>1, <2>1, <2>2, <3>3, <4>1, WeightGone DEF Good
    <3>6. LogInv => LogInv'
      <4>1. Spares(LogOps)
        BY <2>1, <3>1, <3>2 DEF Spares, LogOps
      <4>2. Moves(LogOps, {}, {})
        BY <1>0, <4>1, SparesMoves
      <4>3. LogLight
        BY <1>1, <2>1, <2>2, <3>3, <4>2 DEF LogLight
      <4> QED  BY <1>0, <4>3, LogFrame
    <3> QED  BY <3>4, <3>5, <3>6 DEF Keeps
  <2> QED  BY <2>3, <2>4
<1>6. ASSUME NEW i \in DOMAIN calls, StartArrives(i) PROVE Keeps
  <2>1. /\ calls[i].op = "start" /\ UNCHANGED <<job, alive, log, counts>>
    BY <1>6 DEF StartArrives, Arrives
  <2>2. /\ ForThisMount(i) /\ OnConfig
        /\ calls[i].op \in Weighty \ {"install"}
    BY <1>2, <2>1
  <2>3. CASE calls[i].ok
    <3>1. Opens(Monitor, Rest(i))
      BY <1>6, <2>2, <2>3 DEF StartArrives, GoesTo, OnConfig, Monitor
    <3>2. /\ Rest(i) \in Seq(Request)
          /\ \A k \in DOMAIN Rest(i) : Rest(i)[k].op \notin Weighty
      BY <1>0, <2>2, AloneRest DEF Good
    <3>3. Monitor # Config
      BY DEF Monitor, Config
    <3> QED  BY <2>1, <3>1, <3>2, <3>3, OpenedKeeps
  <2>4. CASE ~calls[i].ok
    <3> DEFINE c == Call("busy", 0, calls[i].mount)
    <3>1. /\ calls' = Append(Rest(i), c) /\ mount' = mount
          /\ page' = [page EXCEPT !.busy = FALSE]
      BY <1>6, <2>2, <2>4 DEF StartArrives
    <3>2. c.op \notin Heavy
      BY DEF Call, Heavy, Weighty, GateOps, LogOps
    <3> HIDE DEF c
    <3>3. Stays /\ page'.gate = page.gate /\ page'.install = page.install
      BY <1>1, <2>2, <3>1 DEF Stays, ConfigState
    <3> QED
      BY <1>1, <2>1, <2>2, <2>4, <3>1, <3>2, <3>3, CallbackKeeps DEF counts
  <2> QED  BY <2>3, <2>4
<1>7. ASSUME NEW i \in DOMAIN calls, LooksForExtra(i), calls[i].op = "policy"
      PROVE  Keeps
  <2>1. /\ UNCHANGED <<job, alive, log, counts, tab>>
        /\ \E ok : Answers(i, ok, Reply)
    BY <1>7 DEF LooksForExtra
  <2>2. PICK ok : Answers(i, ok, Reply)
    BY <2>1
  <2> DEFINE c == [calls[i] EXCEPT !.at = "answered", !.ok = ok,
                                   !.seen = Reply]
  <2>3. calls' = Append(Rest(i), c)
    BY <2>2 DEF Answers, Rest
  <2>4. c.op = "policy" /\ c.mount = calls[i].mount
    BY <1>0, <1>7 DEF Request, AnyCall
  <2>5. c.op \in Weighty \ {"install"}
    BY <2>4 DEF Weighty
  <2> HIDE DEF c
  <2>6. /\ OnConfig /\ calls[i].op \in Weighty \ {"install"} /\ ~alive
    BY <1>2, <1>7
  <2> QED
    BY <1>1, <2>1, <2>3, <2>4, <2>5, <2>6, AnswerKeeps
    DEF counts, tab, Stays
<1> QED  BY <1>3, <1>4, <1>5, <1>6, <1>7

(* A training's page: it is stopped, resumed, deleted.                       *)
LEMMA MonitorKeeps ==
  ASSUME Good, Types', Patient,
         \/ ClickStopRun \/ ClickResume \/ ClickDeleteRun \/ LeaveMonitor
         \/ \E i \in DOMAIN calls :
              StopRunArrives(i) \/ ResumeArrives(i) \/ DeletionArrives(i)
  PROVE  Keeps
<1>0. /\ page \in Pages /\ CallsOK /\ Types
      /\ \A i \in DOMAIN calls :
           ForThisMount(i) => calls[i].op \in OpsOf(page.at)
  BY ArrivedOK DEF Good, Types, TabOK
<1>1. OnMonitor => page \in MonitorState /\ ~OnJobs /\ ~OnConfig
  BY <1>0, PageIs DEF OnConfig, OnJobs, OnMonitor
<1>2. CASE ClickStopRun \/ ClickResume \/ ClickDeleteRun
  <2>1. /\ OnMonitor /\ Settled /\ UNCHANGED <<job, alive, log, pip, tab>>
        /\ \E op \in {"stop", "resume", "delete"} :
             calls' = Append(calls, Call(op, 0, mount))
    BY <1>2
    DEF ClickStopRun, ClickResume, ClickDeleteRun, AtHand, Loaded, Sends, Sent,
        Works, counts
  <2>2. PICK op \in {"stop", "resume", "delete"} :
          calls' = Append(calls, Call(op, 0, mount))
    BY <2>1
  <2> DEFINE c == Call(op, 0, mount)
  <2>3. /\ c.op \in Weighty \ {"install"} /\ c.op # "import"
        /\ c.mount = mount /\ c.at # "answered"
    BY DEF Call, Weighty
  <2> HIDE DEF c
  <2>4. Weightless
    BY <1>0, <2>1, SettledIs
  <2> QED
    BY <1>1, <2>1, <2>2, <2>3, <2>4, ClickKeeps DEF c, tab, Stays
<1>3. CASE LeaveMonitor
  <2>1. Settled /\ Opens(JobsList, calls) /\ UNCHANGED <<job, alive>>
    BY <1>3 DEF LeaveMonitor
  <2>2. JobsList # Config
    BY DEF JobsList, Config
  <2> QED  BY <1>0, <2>1, <2>2, SettledIs, OpenedKeeps
<1>4. ASSUME NEW i \in DOMAIN calls,
             calls[i].op \in {"stop", "resume", "delete"}
      PROVE  /\ ForThisMount(i) /\ OnMonitor
             /\ calls[i].op \in Weighty \ {"install"}
  <2>1. calls[i].op \in Weighty \ {"install"}
    BY <1>4 DEF Weighty
  <2>2. ForThisMount(i)
    BY <2>1 DEF Good, AloneInv
  <2> QED
    BY <1>0, <1>4, <2>1, <2>2, PageIs DEF OpsOf, DialogOps, OnMonitor
<1>5. ASSUME NEW i \in DOMAIN calls, StopRunArrives(i) \/ ResumeArrives(i)
      PROVE  Keeps
  <2>1. /\ calls[i].op \in {"stop", "resume"} /\ calls' = Rest(i)
        /\ UNCHANGED <<job, alive, log, counts, mount>>
        /\ page' = page \/ page' = [page EXCEPT !.job = calls[i].seen.job]
    BY <1>5 DEF StopRunArrives, ResumeArrives, RecordShown, Arrives
  <2>2. OnMonitor /\ calls[i].op \in Weighty \ {"install"}
    BY <1>4, <2>1
  <2>3. Stays /\ page'.log = page.log
    BY <1>1, <2>1, <2>2 DEF Stays, MonitorState
  <2> QED  BY <1>1, <2>1, <2>2, <2>3, CallbackKeeps DEF counts
<1>6. ASSUME NEW i \in DOMAIN calls, DeletionArrives(i) PROVE Keeps
  <2>1. /\ calls[i].op = "delete" /\ UNCHANGED <<job, alive, log, counts>>
    BY <1>6 DEF DeletionArrives, Arrives
  <2>2. OnMonitor /\ calls[i].op \in Weighty \ {"install"}
    BY <1>4, <2>1
  <2>3. CASE calls[i].ok
    <3>1. Opens(JobsList, Rest(i))
      BY <1>6, <2>2, <2>3 DEF DeletionArrives, GoesTo, OnMonitor, JobsList
    <3>2. /\ Rest(i) \in Seq(Request)
          /\ \A k \in DOMAIN Rest(i) : Rest(i)[k].op \notin Weighty
      BY <1>0, <2>2, AloneRest DEF Good
    <3>3. JobsList # Config
      BY DEF JobsList, Config
    <3> QED  BY <2>1, <3>1, <3>2, <3>3, OpenedKeeps
  <2>4. CASE ~calls[i].ok
    <3>1. calls' = Rest(i) /\ page' = page /\ mount' = mount
      BY <1>6, <2>4 DEF DeletionArrives
    <3> QED
      BY <1>1, <2>1, <2>2, <3>1, CallbackKeeps DEF counts, Stays
  <2> QED  BY <2>3, <2>4
<1> QED  BY <1>2, <1>3, <1>5, <1>6

-----------------------------------------------------------------------------
(* The server: the handlers that start, stop, resume, delete and run.        *)
LEMMA JobHandlersKeep ==
  ASSUME Good, Types', NEW i \in DOMAIN calls,
         \/ StartsJob(i) \/ ImportsModel(i) \/ StopsJob(i) \/ StopAnswers(i)
         \/ ResumesJob(i) \/ DeletesJob(i) \/ StartsRollout(i)
  PROVE  Keeps
<1>0. /\ page \in Pages /\ CallsOK /\ Types /\ calls[i] \in Request
      /\ ForThisMount(i) => calls[i].op \in OpsOf(page.at)
      /\ pip' = pip /\ page' = page /\ mount' = mount /\ Stays
  BY ArrivedOK
  DEF Good, Types, TabOK, StartsJob, ImportsModel, StopsJob, StopAnswers,
      ResumesJob, DeletesJob, StartsRollout, counts, tab, Stays
<1>1. /\ calls[i].op \in {"start", "import", "stop", "stop-card", "resume",
                          "delete", "delete-card", "infer"}
      /\ calls[i].at \in {"sent", "waiting"}
  BY DEF StartsJob, ImportsModel, StopsJob, StopAnswers, ResumesJob,
         DeletesJob, StartsRollout, Begins
<1>2. calls[i].op \in Weighty \ {"install"} /\ ForThisMount(i)
  BY <1>1 DEF Weighty, Good, AloneInv
<1>3. /\ OnConfig <=> calls[i].op = "start"
      /\ calls[i].op \in {"import", "stop-card", "delete-card"} => OnJobs
      /\ calls[i].op \in {"stop", "resume", "delete"} => OnMonitor
      /\ OnJobs => ~OnMonitor
  BY <1>0, <1>1, <1>2, PageIs
  DEF OpsOf, DialogOps, OnConfig, OnJobs, OnMonitor
<1>4. ASSUME calls[i].op = "start" \/ calls[i].op = "import"
      PROVE  ~alive
  <2>1. CASE calls[i].op = "start"
    <3>1. ~Started
      BY <1>1, <1>2 DEF Started, Good, AloneInv, Weighty
    <3> QED  BY <1>3, <2>1, <3>1 DEF Good, AliveInv
  <2>2. CASE calls[i].op = "import"
    BY <1>1, <2>2 DEF Good, AliveInv
  <2> QED  BY <1>4, <2>1, <2>2
<1>5. ASSUME NEW c, c.op = calls[i].op, c.mount = calls[i].mount,
             \/ calls' = Append(Rest(i), c)
             \/ calls' = [calls EXCEPT ![i] = c],
             alive' => Running',
             c.op = "start" /\ ~(c.at = "answered" /\ c.ok) => ~alive',
             c.op = "import" => ~alive',
             job' # NoJob => UNCHANGED log,
             OnMonitor /\ job = NoJob => job' = NoJob
      PROVE  Keeps
  BY <1>0, <1>2, <1>3, <1>5, AnswerKeeps
<1>6. ASSUME NEW ok, NEW seen, Answers(i, ok, seen),
             alive' => Running',
             calls[i].op = "start" /\ ~ok => ~alive',
             calls[i].op = "import" => ~alive',
             job' # NoJob => UNCHANGED log,
             OnMonitor /\ job = NoJob => job' = NoJob
      PROVE  Keeps
  <2> DEFINE c == [calls[i] EXCEPT !.at = "answered", !.ok = ok,
                                   !.seen = seen]
  <2>1. calls' = Append(Rest(i), c)
    BY <1>6 DEF Answers, Rest
  <2>2. /\ c.op = calls[i].op /\ c.mount = calls[i].mount
        /\ c.at = "answered" /\ c.ok = ok
    BY <1>0 DEF Request, AnyCall
  <2> HIDE DEF c
  <2> QED  BY <1>5, <1>6, <2>1, <2>2
<1>7. alive => Running
  BY DEF Good, AliveInv
<1>8. CASE StartsJob(i)
  <2>1. calls[i].op = "start" /\ UNCHANGED log
    BY <1>8 DEF StartsJob, Begins
  <2>2. ~OnMonitor /\ ~alive
    BY <1>3, <1>4, <2>1 DEF OnConfig, OnMonitor
  <2>3. CASE job'.state = "running" /\ Answers(i, TRUE, Reply)
    BY <1>6, <2>1, <2>2, <2>3 DEF Running
  <2>4. CASE alive' = alive /\ Answers(i, FALSE, Reply)
    BY <1>6, <2>1, <2>2, <2>4 DEF Running
  <2>5. \/ job'.state = "running" /\ Answers(i, TRUE, Reply)
        \/ alive' = alive /\ Answers(i, FALSE, Reply)
    <3>1. \/ /\ Answers(i, TRUE, Reply)
             /\ job' = [state |-> "running", runner |-> calls[i].arg,
                        saved |-> 0]
          \/ Answers(i, FALSE, Reply) /\ alive' = alive
      BY <1>8, Zenon DEF StartsJob
    <3>2. [state |-> "running", runner |-> calls[i].arg, saved |-> 0].state
            = "running"
      OBVIOUS
    <3> QED  BY <3>1, <3>2, Zenon
  <2> QED  BY <2>3, <2>4, <2>5
<1>9. CASE ImportsModel(i)
  <2>1. /\ calls[i].op = "import" /\ UNCHANGED <<log, alive>>
        /\ \E ok : Answers(i, ok, Reply)
    BY <1>9 DEF ImportsModel, Begins
  <2> QED  BY <1>3, <1>4, <1>6, <2>1
<1>10. CASE StopsJob(i)
  <2>1. /\ calls[i].op \in {"stop", "stop-card"} /\ UNCHANGED <<job, log>>
    BY <1>10 DEF StopsJob, Begins
  <2>2. CASE Running
    <3> DEFINE c == [calls[i] EXCEPT !.at = "waiting"]
    <3>1. /\ alive' = FALSE /\ calls' = [calls EXCEPT ![i] = c]
      BY <1>10, <2>2 DEF StopsJob
    <3>2. /\ c.op = calls[i].op /\ c.mount = calls[i].mount
      BY <1>0 DEF Request, AnyCall
    <3> HIDE DEF c
    <3> QED  BY <1>5, <2>1, <3>1, <3>2
  <2>3. CASE ~Running
    <3>1. Answers(i, FALSE, Reply) /\ alive' = alive
      BY <1>10, <2>3 DEF StopsJob
    <3> QED  BY <1>6, <1>7, <2>1, <2>3, <3>1
  <2> QED  BY <2>2, <2>3
<1>11. CASE StopAnswers(i)
  <2>1. /\ calls[i].op \in {"stop", "stop-card"}
        /\ UNCHANGED <<job, alive, log>> /\ Answers(i, TRUE, Record)
    BY <1>11 DEF StopAnswers
  <2> QED  BY <1>6, <1>7, <2>1 DEF Running
<1>12. CASE ResumesJob(i)
  <2>1. calls[i].op = "resume" /\ UNCHANGED log
    BY <1>12 DEF ResumesJob, Begins
  <2>2. job.state \in {"done", "failed"} => job # NoJob /\ ~alive
    BY <1>7 DEF NoJob, Running
  <2>3. job \in Jobs
    BY <1>0 DEF Types, ServerOK
  <2>4. \/ /\ job # NoJob /\ job'.state = "running"
           /\ Answers(i, TRUE, [Record EXCEPT !.job.state = "running"])
        \/ /\ job # NoJob /\ ~alive /\ alive' = alive
           /\ Answers(i, FALSE, Reply)
        \/ UNCHANGED <<job, alive>> /\ Answers(i, FALSE, Reply)
    BY <1>12, <2>2, <2>3 DEF ResumesJob, Jobs
  <2>5. ASSUME NEW ok, NEW seen, Answers(i, ok, seen), alive' => Running',
               job = NoJob => job' = NoJob
        PROVE  Keeps
    BY <1>6, <2>1, <2>5
  <2>6. CASE /\ job # NoJob /\ job'.state = "running"
             /\ Answers(i, TRUE, [Record EXCEPT !.job.state = "running"])
    BY <2>5, <2>6 DEF Running
  <2>7. CASE /\ job # NoJob /\ ~alive /\ alive' = alive
             /\ Answers(i, FALSE, Reply)
    BY <2>5, <2>7
  <2>8. CASE UNCHANGED <<job, alive>> /\ Answers(i, FALSE, Reply)
    BY <1>7, <2>5, <2>8 DEF Running
  <2> QED  BY <2>4, <2>6, <2>7, <2>8
<1>13. CASE DeletesJob(i)
  <2> DEFINE ok == job.state \in {"done", "failed"}
  <2>1. /\ calls[i].op \in {"delete", "delete-card"}
        /\ Answers(i, ok, Reply) /\ alive' = alive
        /\ IF ok THEN job' = NoJob ELSE UNCHANGED <<job, log>>
    BY <1>13 DEF DeletesJob, Begins
  <2>2. ok => ~alive
    BY <1>7 DEF Running
  <2> HIDE DEF ok
  <2> QED  BY <1>6, <1>7, <2>1, <2>2 DEF Running
<1>14. CASE StartsRollout(i)
  <2>1. /\ calls[i].op = "infer" /\ UNCHANGED <<job, alive, log>>
        /\ \E ok : Answers(i, ok, Reply)
    BY <1>14 DEF StartsRollout, Begins
  <2> QED  BY <1>6, <1>7, <2>1 DEF Running
<1> QED
  BY <1>8, <1>9, <1>10, <1>11, <1>12, <1>13, <1>14

-----------------------------------------------------------------------------
(* The process and its log.                                                  *)
LEMMA ProcessLight ==
  ASSUME Good, SaveCheckpoint \/ ProcessExits
  PROVE  Light
<1>0. /\ CallsOK /\ calls' = calls /\ page' = page /\ mount' = mount
      /\ UNCHANGED <<log, pip>> /\ alive
  BY DEF Good, Types, SaveCheckpoint, ProcessExits, counts, tab
<1>1. job \in Jobs /\ Running /\ job # NoJob
  BY <1>0 DEF Good, Types, ServerOK, AliveInv, Running, NoJob
<1>2. Running'
  <2>1. job' = job \/ job' = [job EXCEPT !.saved = @ + 1]
    BY DEF SaveCheckpoint, ProcessExits
  <2> QED  BY <1>1, <2>1 DEF Jobs, Running
<1>3. \A H : Moves(H, {}, {})
  BY <1>0, StillMoves
<1> QED
  BY <1>0, <1>1, <1>2, <1>3
  DEF Light, WeightLight, GateLight, LogLight, Stays, DialogsFit

(* The parts of the log's invariant that speak of requests, while the        *)
(* requests stay.                                                            *)
LEMMA LogGrows ==
  ASSUME Good, Types', WriteLine \/ QueueLine \/ Finalise
  PROVE  AloneInv' /\ AliveInv' /\ GateInv' /\ (LogInv => LogInv')
<1>0. /\ CallsOK /\ Types /\ calls' = calls /\ page' = page /\ mount' = mount
      /\ pip' = pip
      /\ file \in Nat /\ put \in Nat /\ drained \in Nat
      /\ drained <= put /\ put <= file
  BY DEF Good, Types, ServerOK, WriteLine, QueueLine, Finalise, counts, tab
<1>1. \A H : Moves(H, {}, {})
  BY <1>0, StillMoves
<1>2. WeightLight /\ GateLight
  <2>1. alive' => alive /\ (Running => Running')
    BY DEF WriteLine, QueueLine, Finalise, Running
  <2> QED
    BY <1>0, <1>1, <2>1 DEF WeightLight, GateLight, Stays, DialogsFit
<1>3. AloneInv' /\ AliveInv' /\ GateInv'
  BY <1>0, <1>2, WeightFrame, GateFrame DEF Good
<1>4. /\ \A op : Own(op)' = Own(op)
      /\ Unserved' = Unserved /\ (OnMonitor' <=> OnMonitor)
  BY <1>0 DEF Own, Unserved, ForThisMount, OnMonitor
<1>5. Fetching' = Fetching /\ Fetched' = Fetched
  BY <1>0, <1>4 DEF Fetching, Fetched
<1>6. OrderInv => OrderInv'
  BY <1>0, <1>4, <1>5 DEF OrderInv
<1>7. ASSUME LinesInv PROVE LinesInv'
  <2>1. /\ drained <= drained' /\ drained' \in Nat
        /\ \A k \in 1..drained' : k \in 1..drained \/ k \in lost'
        /\ lost \subseteq lost' /\ put <= put' /\ put' \in Nat
    BY <1>0 DEF WriteLine, QueueLine, Finalise
  <2>2. ASSUME NEW i \in Fetching, calls[i].at = "reading"
        PROVE  /\ calls[i].ok
               /\ \E f \in 0..(put' + 1) : calls[i].seen.lines = Lines(0, f)
    <3>1. PICK f \in 0..(put + 1) : calls[i].seen.lines = Lines(0, f)
      BY <1>7, <2>2 DEF LinesInv
    <3>2. f \in 0..(put' + 1)
      <4> DEFINE p == put
                 q == put'
      <4>1. f \in 0..(p + 1) /\ p \in Nat /\ q \in Nat /\ p <= q
        BY <1>0, <2>1, <3>1
      <4> HIDE DEF p, q
      <4>2. f \in 0..(q + 1)
        BY <4>1
      <4> QED  BY <4>2 DEF q
    <3> QED  BY <1>7, <2>2, <3>1, <3>2 DEF LinesInv
  <2>3. ASSUME Fetching = {}
        PROVE  /\ \A i \in Fetched : calls[i].ok
               /\ Covered(page.log, Texts, drained', lost')
    <3>1. /\ \A i \in Fetched : calls[i].ok
          /\ Covered(page.log, Texts, drained, lost)
      BY <1>7, <2>3 DEF LinesInv
    <3> QED  BY <1>0, <2>1, <3>1, CoveredLater
  <2>4. Texts' = Texts
    BY <1>0, <1>5 DEF Texts
  <2> QED  BY <1>0, <1>5, <2>2, <2>3, <2>4, LinesNext
<1>8. job' # NoJob => job # NoJob
  BY DEF WriteLine, QueueLine, Finalise, Running, NoJob
<1> QED  BY <1>3, <1>4, <1>6, <1>7, <1>8 DEF LogInv

-----------------------------------------------------------------------------
(* The requests for the log: where they come from.                           *)
LogTraces(f, D, New) ==
  /\ \A k, l \in DOMAIN calls' :
       (k < l <=> f[k] < f[l]) /\ (k = l <=> f[k] = f[l])
  /\ \A op \in LogOps :
       /\ \A k \in Own(op)' :
            \/ f[k] \in Own(op) \ D /\ calls'[k] = calls[f[k]]
            \/ f[k] = Len(calls) + 1 /\ calls'[k] \in New
       /\ \A i \in Own(op) \ D :
            \E k \in Own(op)' : f[k] = i /\ calls'[k] = calls[i]
  /\ \A k \in Unserved' :
       \/ f[k] \in Unserved \ D /\ calls'[k] = calls[f[k]]
       \/ f[k] = Len(calls) + 1 /\ calls'[k] \in New
  /\ \A i \in Unserved \ D :
       \E k \in Unserved' : f[k] = i /\ calls'[k] = calls[i]
  /\ \A c \in New : c.op \in LogOps /\ c.mount = mount =>
       \E k \in Own(c.op)' : f[k] = Len(calls) + 1 /\ calls'[k] = c
  /\ Own("job")' \cup Own("logs")' \cup Own("log-file")' \cup Unserved'
       \subseteq DOMAIN calls'

LEMMA LogMoves ==
  ASSUME CallsOK, CallsOK', mount' = mount, NEW D, NEW New,
         Moves(LogOps, D, New)
  PROVE  \E f : LogTraces(f, D, New)
<1>1. PICK f : MovesBy(f, LogOps, D, New)
  BY DEF Moves
<1>2. /\ DOMAIN calls = 1..Len(calls) /\ Len(calls) \in Nat
      /\ DOMAIN calls' = 1..Len(calls') /\ Len(calls') \in Nat
  BY Typed, TypedNext
<1>3. /\ \A k \in DOMAIN calls' : calls'[k].op \in LogOps =>
           \/ f[k] \in DOMAIN calls \ D /\ calls'[k] = calls[f[k]]
           \/ f[k] = Len(calls) + 1 /\ calls'[k] \in New
      /\ \A i \in DOMAIN calls \ D : calls[i].op \in LogOps =>
           \E k \in DOMAIN calls' : f[k] = i /\ calls'[k] = calls[i]
      /\ \A c \in New : c.op \in LogOps =>
           \E k \in DOMAIN calls' : f[k] = Len(calls) + 1 /\ calls'[k] = c
      /\ \A k \in DOMAIN calls' : f[k] \in Nat /\ k \in Nat
  BY <1>1, <1>2 DEF MovesBy
<1>4. \A k, l \in DOMAIN calls' :
        (k < l <=> f[k] < f[l]) /\ (k = l <=> f[k] = f[l])
  <2> TAKE k \in DOMAIN calls', l \in DOMAIN calls'
  <2>1. (k < l => f[k] < f[l]) /\ (l < k => f[l] < f[k])
    BY <1>1, <1>2 DEF MovesBy
  <2>2. k \in Nat /\ l \in Nat /\ f[k] \in Nat /\ f[l] \in Nat
    BY <1>3
  <2> QED  BY <2>1, <2>2
<1>5. /\ \A op : Own(op) = {i \in DOMAIN calls : /\ calls[i].mount = mount
                                                 /\ calls[i].op = op}
      /\ \A op : Own(op)' = {k \in DOMAIN calls' : /\ calls'[k].mount = mount
                                                   /\ calls'[k].op = op}
  BY DEF Own, ForThisMount
<1>6. \A op \in LogOps :
        /\ \A k \in Own(op)' :
             \/ f[k] \in Own(op) \ D /\ calls'[k] = calls[f[k]]
             \/ f[k] = Len(calls) + 1 /\ calls'[k] \in New
        /\ \A i \in Own(op) \ D :
             \E k \in Own(op)' : f[k] = i /\ calls'[k] = calls[i]
  BY <1>3, <1>5
<1>7. /\ \A k \in Unserved' :
           \/ f[k] \in Unserved \ D /\ calls'[k] = calls[f[k]]
           \/ f[k] = Len(calls) + 1 /\ calls'[k] \in New
      /\ \A i \in Unserved \ D :
           \E k \in Unserved' : f[k] = i /\ calls'[k] = calls[i]
  BY <1>3 DEF Unserved, LogOps
<1>8. \A c \in New : c.op \in LogOps /\ c.mount = mount =>
        \E k \in Own(c.op)' : f[k] = Len(calls) + 1 /\ calls'[k] = c
  BY <1>3, <1>5
<1>9. Own("job")' \cup Own("logs")' \cup Own("log-file")' \cup Unserved'
        \subseteq DOMAIN calls'
  BY <1>5 DEF Unserved
<1> QED  BY <1>4, <1>6, <1>7, <1>8, <1>9 DEF LogTraces

(* Nothing new has been read, taken or shown.                                *)
LinesStay ==
  /\ \A k \in Fetching' : \E i \in Fetching : calls'[k] = calls[i]
  /\ \A i \in Fetching : Fetching' # {}
  /\ \A k \in Fetched' : \E i \in Fetched : calls'[k] = calls[i]
  /\ \A i \in Fetched : \E k \in Fetched' : calls'[k] = calls[i]

LEMMA LinesSame ==
  ASSUME LinesInv, page'.log = page.log, UNCHANGED log, LinesStay
  PROVE  LinesInv'
<1>0. /\ \A k \in Fetching' : \E i \in Fetching : calls'[k] = calls[i]
      /\ \A i \in Fetching : Fetching' # {}
      /\ \A k \in Fetched' : \E i \in Fetched : calls'[k] = calls[i]
      /\ \A i \in Fetched : \E k \in Fetched' : calls'[k] = calls[i]
  BY DEF LinesStay
<1>1. /\ UNCHANGED <<file, put, drained, lost>>
      /\ Fetching' = {} <=> Fetching = {}
  BY <1>0 DEF log
<1>2. \A i \in Fetching' : calls'[i].at = "reading" =>
        /\ calls'[i].ok
        /\ \E f \in 0..(put + 1) : calls'[i].seen.lines = Lines(0, f)
  BY <1>0 DEF LinesInv
<1>3. ASSUME Fetching' = {}
      PROVE  /\ \A i \in Fetched' : calls'[i].ok
             /\ Covered(page.log, Texts', drained, lost)
  <2>1. /\ \A i \in Fetched : calls[i].ok
        /\ Covered(page.log, Texts, drained, lost)
    BY <1>1, <1>3 DEF LinesInv
  <2>2. Texts' = Texts
    BY <1>0 DEF Texts
  <2> QED  BY <1>0, <2>1, <2>2
<1> QED  BY <1>1, <1>2, <1>3, LinesNext

(* What goes or comes is nothing the page waits for, but perhaps a record.   *)
LEMMA OrderKept ==
  ASSUME Types, Types', mount' = mount, page'.log = page.log, OrderInv,
         NEW D, NEW New, Moves(LogOps, D, New),
         \A c \in New : /\ c.op \in LogOps => c.mount # mount
                        /\ c.op \in {"log-file", "logs"} =>
                             c.at \notin {"sent", "reading"},
         D \cap (Own("log-file") \cup Own("logs")) = {}
  PROVE  OrderInv' /\ LinesStay
<1>0. CallsOK /\ CallsOK'
  BY DEF Types
<1>1. PICK f : LogTraces(f, D, New)
  BY <1>0, LogMoves
<1>2. "log-file" \in LogOps /\ "logs" \in LogOps /\ "job" \in LogOps
  BY DEF LogOps
<1>3. \A op \in LogOps : \A k \in Own(op)' :
        f[k] \in Own(op) /\ calls'[k] = calls[f[k]]
  <2> TAKE op \in LogOps
  <2> TAKE k \in Own(op)'
  <2>1. calls'[k].op = op /\ calls'[k].mount = mount'
    BY DEF Own, ForThisMount
  <2> QED  BY <1>1, <2>1 DEF LogTraces
<1>4. \A k \in Unserved' : f[k] \in Unserved /\ calls'[k] = calls[f[k]]
  <2> TAKE k \in Unserved'
  <2>1. /\ calls'[k].op \in {"log-file", "logs"}
        /\ calls'[k].at \in {"sent", "reading"}
    BY DEF Unserved
  <2> QED  BY <1>1, <2>1 DEF LogTraces
<1>5. \A op \in {"log-file", "logs"} : \A i \in Own(op) :
        \E k \in Own(op)' : f[k] = i /\ calls'[k] = calls[i]
  BY <1>1, <1>2 DEF LogTraces
<1>6. /\ \A k \in Fetching' : /\ k \in Own("log-file")' /\ k \in Unserved'
                              /\ f[k] \in Fetching /\ calls'[k] = calls[f[k]]
      /\ \A i \in Fetching : \E k \in Fetching' : f[k] = i
  <2>1. \A k \in Fetching' : /\ k \in Own("log-file")' /\ k \in Unserved'
                             /\ f[k] \in Fetching /\ calls'[k] = calls[f[k]]
    BY <1>2, <1>3, <1>4 DEF Fetching
  <2>2. ASSUME NEW i \in Fetching PROVE \E k \in Fetching' : f[k] = i
    <3>1. PICK k \in Own("log-file")' : f[k] = i /\ calls'[k] = calls[i]
      BY <1>5 DEF Fetching
    <3>2. k \in Unserved'
      BY <3>1 DEF Fetching, Unserved, Own
    <3> QED  BY <3>1, <3>2 DEF Fetching
  <2> QED  BY <2>1, <2>2
<1>7. /\ \A k \in Fetched' : \E i \in Fetched : calls'[k] = calls[i]
      /\ \A i \in Fetched : \E k \in Fetched' : calls'[k] = calls[i]
  <2>1. \A k \in Fetched' : f[k] \in Fetched /\ calls'[k] = calls[f[k]]
    BY <1>2, <1>3 DEF Fetched
  <2>2. ASSUME NEW i \in Fetched PROVE \E k \in Fetched' : calls'[k] = calls[i]
    <3>1. PICK k \in Own("log-file")' \cup Own("logs")' : calls'[k] = calls[i]
      BY <1>5 DEF Fetched
    <3> QED  BY <3>1 DEF Fetched
  <2> QED  BY <2>1, <2>2
<1>8. OrderInv'
  <2>1. \A i \in Own("log-file")' :
          /\ page'.log = <<>> /\ Own("logs")' = {} /\ Own("log-file")' = {i}
          /\ \A j \in Own("job")' : calls'[j].at = "answered" => i < j
    <3> SUFFICES ASSUME NEW i \in Own("log-file")'
                 PROVE  /\ page'.log = <<>> /\ Own("logs")' = {}
                        /\ Own("log-file")' = {i}
                        /\ \A j \in Own("job")' :
                             calls'[j].at = "answered" => i < j
      OBVIOUS
    <3>1. /\ page.log = <<>> /\ Own("logs") = {}
          /\ Own("log-file") = {f[i]}
          /\ \A j \in Own("job") : calls[j].at = "answered" => f[i] < j
      BY <1>2, <1>3 DEF OrderInv
    <3>2. Own("logs")' = {}
      BY <1>2, <1>3, <3>1
    <3>3. \A j \in Own("log-file")' : j = i
      BY <1>1, <1>2, <1>3, <3>1 DEF LogTraces
    <3>4. \A j \in Own("job")' : calls'[j].at = "answered" => i < j
      BY <1>1, <1>2, <1>3, <3>1 DEF LogTraces
    <3> QED  BY <3>1, <3>2, <3>3, <3>4
  <2>2. \A i \in Fetching' :
          /\ \A j \in Own("job")' : i < j /\ calls'[j].at = "sent"
          /\ \A j \in Unserved' \ {i} : j < i /\ calls'[i].at = "sent"
    <3> SUFFICES ASSUME NEW i \in Fetching'
                 PROVE  /\ \A j \in Own("job")' : i < j /\ calls'[j].at = "sent"
                        /\ \A j \in Unserved' \ {i} :
                             j < i /\ calls'[i].at = "sent"
      OBVIOUS
    <3>1. /\ f[i] \in Fetching /\ calls'[i] = calls[f[i]]
          /\ i \in DOMAIN calls'
          /\ \A j \in Own("job") : f[i] < j /\ calls[j].at = "sent"
          /\ \A j \in Unserved \ {f[i]} : j < f[i] /\ calls[f[i]].at = "sent"
      BY <1>1, <1>6 DEF OrderInv, LogTraces
    <3>2. \A j \in Own("job")' : i < j /\ calls'[j].at = "sent"
      BY <1>1, <1>2, <1>3, <3>1 DEF LogTraces
    <3>3. \A j \in Unserved' \ {i} : j < i /\ calls'[i].at = "sent"
      BY <1>1, <1>4, <3>1 DEF LogTraces
    <3> QED  BY <3>2, <3>3
  <2>3. ASSUME Fetching' = {} PROVE Unserved' \subseteq Own("logs")'
    <3>1. \A k \in Unserved' : f[k] \in Own("logs") /\ calls'[k] = calls[f[k]]
      BY <1>4, <1>6, <2>3 DEF OrderInv
    <3> QED  BY <3>1 DEF Own, ForThisMount, Unserved
  <2>4. \A i, j \in Own("job")' \cup Own("logs")' : i = j
    BY <1>1, <1>2, <1>3 DEF OrderInv, LogTraces
  <2>5. Fetching' \subseteq Own("log-file")'
    BY DEF Fetching
  <2> QED  BY <2>1, <2>2, <2>3, <2>4, <2>5 DEF OrderInv
<1> QED  BY <1>6, <1>7, <1>8 DEF LinesStay

(* The record of a tick is asked for, ...                                    *)
LEMMA PollJobLog ==
  ASSUME Types, Types', LogInv, PollJob
  PROVE  LogInv'
<1> DEFINE c == Call("job", 0, mount)
<1>1. /\ CallsOK /\ CallsOK' /\ OnMonitor /\ Idle
      /\ UNCHANGED <<job, log, mount, page>> /\ calls' = Append(calls, c)
  BY DEF PollJob, Sent, Types, tab
<1>2. c.op = "job"
  BY DEF Call
<1> HIDE DEF c
<1>3. Moves(LogOps, {}, {c})
  BY <1>1, SendingMoves
<1>4. /\ Own("log-file") = {} /\ Own("logs") = {} /\ Own("job") = {}
      /\ Unserved = {} /\ Fetching = {} /\ Fetched = {}
  BY <1>1 DEF Idle, Own, Unserved, Fetching, Fetched
<1>5. PICK f : LogTraces(f, {}, {c})
  BY <1>1, <1>3, LogMoves
<1>6. Own("log-file")' = {} /\ Own("logs")' = {}
  <2>1. \A op \in {"log-file", "logs"} : \A k \in Own(op)' :
          calls'[k].op # "job"
    BY DEF Own
  <2> QED  BY <1>2, <1>4, <1>5, <2>1 DEF LogOps, LogTraces
<1>7. Unserved' = {}
  <2>1. \A k \in Unserved' : calls'[k].op # "job"
    BY DEF Unserved
  <2> QED  BY <1>2, <1>4, <1>5, <2>1 DEF LogTraces
<1>8. \A k, l \in Own("job")' : k = l
  BY <1>4, <1>5 DEF LogOps, LogTraces
<1>9. Fetching' = {} /\ Fetched' = {}
  BY <1>6 DEF Fetching, Fetched
<1>10. OrderInv'
  BY <1>6, <1>7, <1>8, <1>9 DEF OrderInv
<1>11. job # NoJob => LinesInv'
  BY <1>1, <1>4, <1>9, LinesSame DEF LogInv, LinesStay
<1> QED  BY <1>1, <1>10, <1>11 DEF LogInv

(* ... given after the file has been read, ...                               *)
LEMMA ReportsJobLog ==
  ASSUME Types, Types', LogInv, ~Overtaking,
         NEW i \in DOMAIN calls, ReportsJob(i), calls[i].op = "job"
  PROVE  LogInv'
<1> DEFINE c == [calls[i] EXCEPT !.at = "answered", !.ok = (job # NoJob),
                                 !.seen = Record]
<1>1. /\ CallsOK /\ CallsOK' /\ calls' = Append(Rest(i), c)
      /\ UNCHANGED <<job, log, mount, page>> /\ calls[i].at = "sent"
      /\ \A j \in 1..(i - 1) : calls[j].at \notin {"sent", "reading"}
  BY DEF ReportsJob, Begins, Answers, Rest, Types, tab
<1>2. c.op = "job" /\ c.mount = calls[i].mount /\ i \in Nat
  <2>1. calls[i] \in Request /\ i \in Nat
    BY <1>1, Typed
  <2> QED  BY <2>1 DEF Request, AnyCall
<1> HIDE DEF c
<1>3. Moves(LogOps, {i}, {c})
  BY <1>1, GoingOnMoves
<1>4. SUFFICES ASSUME OnMonitor PROVE OrderInv' /\ (job # NoJob => LinesInv')
  BY <1>1 DEF LogInv, OnMonitor
<1>5. OrderInv /\ (job # NoJob => LinesInv)
  BY <1>4 DEF LogInv
<1>6. CASE c.mount # mount
  <2>1. /\ \A d \in {c} : /\ d.op \in LogOps => d.mount # mount
                          /\ d.op \in {"log-file", "logs"} =>
                               d.at \notin {"sent", "reading"}
        /\ {i} \cap (Own("log-file") \cup Own("logs")) = {}
    BY <1>2, <1>6 DEF Own
  <2>2. OrderInv' /\ LinesStay
    BY <1>1, <1>3, <1>5, <2>1, OrderKept
  <2> QED  BY <1>1, <1>5, <2>2, LinesSame
<1>7. CASE c.mount = mount
  <2>1. i \in Own("job")
    BY <1>2, <1>7 DEF Own, ForThisMount
  <2>2. Fetching = {} /\ Unserved \subseteq Own("logs")
    <3>1. ASSUME NEW j \in Fetching PROVE FALSE
      <4>1. j < i /\ calls[j].at \in {"sent", "reading"}
        BY <1>5, <2>1, <3>1 DEF OrderInv, Fetching, Unserved
      <4>2. j \in Nat \ {0}
        BY <1>1, Typed, <3>1 DEF Fetching, Unserved
      <4> QED  BY <1>1, <1>2, <4>1, <4>2
    <3> QED  BY <1>5, <3>1 DEF OrderInv
  <2>3. \A j \in Own("job") \cup Own("logs") : j = i
    BY <1>5, <2>1 DEF OrderInv
  <2>4. Own("logs") = {} /\ Unserved = {}
    <3>1. \A j \in Own("logs") : j # i
      BY DEF Own
    <3> QED  BY <2>2, <2>3, <3>1
  <2>5. PICK f : LogTraces(f, {i}, {c})
    BY <1>1, <1>3, LogMoves
  <2>6. /\ "log-file" \in LogOps /\ "logs" \in LogOps /\ "job" \in LogOps
        /\ i \notin Own("log-file") /\ Len(calls) \in Nat
        /\ Own("log-file") \subseteq 1..Len(calls)
    BY <1>1, Typed DEF LogOps, Own
  <2>7. \A op \in {"log-file", "logs"} : \A k \in Own(op)' :
          f[k] \in Own(op) /\ calls'[k] = calls[f[k]]
    <3>1. \A op \in {"log-file", "logs"} : \A k \in Own(op)' :
            calls'[k].op # "job"
      BY DEF Own
    <3> QED  BY <1>2, <2>5, <2>6, <3>1 DEF LogTraces
  <2>8. Own("logs")' = {} /\ Unserved' = {} /\ Fetching' = {}
    <3>1. \A k \in Unserved' : calls'[k].op # "job"
      BY DEF Unserved
    <3> QED  BY <1>2, <2>4, <2>5, <2>7, <3>1 DEF Fetching, LogTraces
  <2>9. \A k \in Own("job")' : f[k] = Len(calls) + 1
    BY <2>3, <2>5, <2>6 DEF LogTraces
  <2>10. \A k \in Own("log-file")' :
           /\ page'.log = <<>> /\ Own("log-file")' = {k}
           /\ \A j \in Own("job")' : k < j
    <3> SUFFICES ASSUME NEW k \in Own("log-file")'
                 PROVE  /\ page'.log = <<>> /\ Own("log-file")' = {k}
                        /\ \A j \in Own("job")' : k < j
      OBVIOUS
    <3>1. /\ f[k] \in Own("log-file") /\ Own("log-file") = {f[k]}
          /\ page.log = <<>>
      BY <1>5, <2>7 DEF OrderInv
    <3>2. \A l \in Own("log-file")' : l = k
      BY <2>5, <2>7, <3>1 DEF LogTraces
    <3>3. \A j \in Own("job")' : k < j
      <4>1. f[k] < Len(calls) + 1
        BY <2>6, <3>1
      <4> QED  BY <2>5, <2>9, <4>1 DEF LogTraces
    <3> QED  BY <1>1, <3>1, <3>2, <3>3
  <2>11. \A k, l \in Own("job")' : k = l
    BY <2>5, <2>9 DEF LogTraces
  <2>12. OrderInv'
    BY <2>8, <2>10, <2>11 DEF OrderInv
  <2>13. /\ \A k \in Fetched' : \E j \in Fetched : calls'[k] = calls[j]
         /\ \A j \in Fetched : \E k \in Fetched' : calls'[k] = calls[j]
    <3>1. \A k \in Fetched' : f[k] \in Fetched /\ calls'[k] = calls[f[k]]
      BY <2>7 DEF Fetched
    <3>2. ASSUME NEW j \in Fetched
          PROVE  \E k \in Fetched' : calls'[k] = calls[j]
      <4>1. j \in Own("log-file") /\ calls[j].at = "answered"
        BY <2>4 DEF Fetched
      <4>2. PICK k \in Own("log-file")' : calls'[k] = calls[j]
        BY <2>5, <2>6, <4>1 DEF LogTraces
      <4> QED  BY <4>1, <4>2 DEF Fetched
    <3> QED  BY <3>1, <3>2
  <2>14. LinesStay
    BY <2>2, <2>8, <2>13 DEF LinesStay
  <2> QED  BY <1>1, <1>5, <2>12, <2>14, LinesSame
<1> QED  BY <1>6, <1>7

(* ... and shown; while the job runs its new lines are asked for.            *)
LEMMA JobArrivesLog ==
  ASSUME Types, Types', LogInv, ~Overtaking,
         NEW i \in DOMAIN calls, JobArrives(i)
  PROVE  LogInv'
<1> DEFINE c == Call("logs", 0, mount)
<1>1. /\ CallsOK /\ CallsOK' /\ UNCHANGED <<job, log, mount>> /\ i \in Nat
      /\ calls[i].op = "job" /\ calls[i].at = "answered"
      /\ \A j \in 1..(i - 1) : calls[j].at # "answered"
  <2>1. CallsOK
    BY DEF Types
  <2> QED  BY <2>1, Typed DEF JobArrives, Arrives, Types
<1>2. /\ page'.at = page.at /\ (OnMonitor => page'.log = page.log)
      /\ \/ calls' = Rest(i)
         \/ ForThisMount(i) /\ calls' = Append(Rest(i), c)
  <2>1. CASE ~ForThisMount(i)
    BY <2>1 DEF JobArrives
  <2>2. CASE ForThisMount(i)
    <3>1. OnMonitor /\ page \in MonitorState
      <4>1. page \in Pages
        BY DEF Types, TabOK
      <4> QED
        BY <1>1, <2>2, <4>1, ArrivedOK, PageIs DEF OpsOf, DialogOps, OnMonitor
    <3>2. \/ page' = [page EXCEPT !.gone = TRUE] /\ calls' = Rest(i)
          \/ /\ page' = ShowsJob(calls[i].seen.job)
             /\ calls' \in {Rest(i), Append(Rest(i), c)}
      <4>1. CASE calls[i].ok
        BY <2>2, <4>1 DEF JobArrives
      <4>2. CASE ~calls[i].ok
        BY <2>2, <4>2 DEF JobArrives
      <4> QED  BY <4>1, <4>2
    <3>3. page'.at = page.at /\ page'.log = page.log
      BY <3>1, <3>2 DEF ShowsJob, MonitorState
    <3> QED  BY <2>2, <3>2, <3>3
  <2> QED  BY <2>1, <2>2
<1>3. SUFFICES ASSUME OnMonitor PROVE OrderInv' /\ (job # NoJob => LinesInv')
  BY <1>1, <1>2 DEF LogInv, OnMonitor
<1>4. OrderInv /\ (job # NoJob => LinesInv) /\ page'.log = page.log
  BY <1>2, <1>3 DEF LogInv
<1>5. CASE calls' = Rest(i)
  <2>1. Moves(LogOps, {i}, {})
    BY <1>1, <1>5, EndingMoves
  <2>2. {i} \cap (Own("log-file") \cup Own("logs")) = {}
    BY <1>1 DEF Own
  <2>3. OrderInv' /\ LinesStay
    BY <1>1, <1>4, <2>1, <2>2, OrderKept
  <2> QED  BY <1>1, <1>4, <2>3, LinesSame
<1>6. CASE ForThisMount(i) /\ calls' = Append(Rest(i), c)
  <2>1. c.op = "logs" /\ c.mount = mount /\ c.at = "sent"
    BY DEF Call
  <2> HIDE DEF c
  <2>2. i \in Own("job")
    BY <1>1, <1>6 DEF Own
  <2>3. Fetching = {} /\ Unserved \subseteq Own("logs")
    BY <1>1, <1>4, <2>2 DEF OrderInv
  <2>4. \A j \in Own("job") \cup Own("logs") : j = i
    BY <1>4, <2>2 DEF OrderInv
  <2>5. Own("logs") = {} /\ Unserved = {}
    <3>1. \A j \in Own("logs") : j # i
      BY <1>1 DEF Own
    <3> QED  BY <2>3, <2>4, <3>1
  <2>6. Own("log-file") = {}
    <3> SUFFICES ASSUME NEW j \in Own("log-file") PROVE FALSE
      OBVIOUS
    <3>1. j < i /\ j \in 1..(i - 1)
      <4>1. j < i
        BY <1>1, <1>4, <2>2 DEF OrderInv
      <4>2. j \in 1..Len(calls)
        BY <1>1, Typed DEF Own
      <4> QED  BY <1>1, <4>1, <4>2
    <3>2. calls[j].at # "answered" /\ calls[j] \in Request
      BY <1>1, <3>1, Typed DEF Own
    <3>3. calls[j].op = "log-file" /\ j \notin Unserved
      BY <2>5 DEF Own
    <3>4. calls[j].at \notin {"sent", "reading"}
      BY <3>3 DEF Unserved, Own
    <3> QED  BY <3>2, <3>3, <3>4 DEF Request, AnyCall
  <2>7. Moves(LogOps, {i}, {c})
    BY <1>1, <1>6, GoingOnMoves
  <2>8. PICK f : LogTraces(f, {i}, {c})
    BY <1>1, <2>7, LogMoves
  <2>9. \A op \in LogOps : \A k \in Own(op)' :
          f[k] = Len(calls) + 1 /\ calls'[k] = c /\ op = "logs"
    <3>1. \A op \in LogOps : Own(op) \ {i} = {}
      BY <2>4, <2>5, <2>6 DEF LogOps
    <3>2. \A op \in LogOps : \A k \in Own(op)' :
            f[k] = Len(calls) + 1 /\ calls'[k] = c
      BY <2>8, <3>1 DEF LogTraces
    <3> QED  BY <2>1, <3>2 DEF Own
  <2>10. Own("log-file")' = {} /\ Own("job")' = {} /\ Fetching' = {}
    BY <2>9 DEF LogOps, Fetching
  <2>11. \A k, l \in Own("job")' \cup Own("logs")' : k = l
    BY <2>8, <2>9, <2>10 DEF LogOps, LogTraces
  <2>12. Unserved' \subseteq Own("logs")'
    <3>1. \A k \in Unserved' : calls'[k] = c /\ k \in DOMAIN calls'
      BY <2>5, <2>8 DEF LogTraces
    <3> QED  BY <1>1, <2>1, <3>1 DEF Own, ForThisMount
  <2>13. OrderInv'
    BY <2>10, <2>11, <2>12 DEF OrderInv
  <2>14. Fetched = {} /\ Fetched' = {}
    <3>1. \A k \in Own("logs")' : calls'[k].at # "answered"
      BY <2>1, <2>9 DEF LogOps
    <3> QED  BY <2>5, <2>6, <2>10, <3>1 DEF Fetched
  <2>15. LinesStay
    BY <2>3, <2>10, <2>14 DEF LinesStay
  <2> QED  BY <1>1, <1>4, <2>13, <2>15, LinesSame
<1> QED  BY <1>2, <1>5, <1>6

(* The lines of an answer.                                                   *)
LEMMA LinesAre ==
  ASSUME NEW a \in Nat, NEW b \in Nat, a <= b
  PROVE  /\ Lines(a, b) \in Seq(Nat) /\ Len(Lines(a, b)) = b - a
         /\ \A k \in 1..(b - a) : Lines(a, b)[k] = a + k
         /\ InRange(Lines(a, b)) = (a + 1)..b
<1>1. Lines(a, b) \in Seq(Nat) /\ Len(Lines(a, b)) = b - a
  BY LinesOK DEF Lines
<1>2. \A k \in 1..(b - a) : Lines(a, b)[k] = a + k
  BY DEF Lines
<1>3. DOMAIN Lines(a, b) = 1..(b - a)
  BY DEF Lines
<1>4. ASSUME NEW n \in (a + 1)..b PROVE n \in InRange(Lines(a, b))
  <2>1. n - a \in DOMAIN Lines(a, b) /\ Lines(a, b)[n - a] = n
    BY <1>2, <1>3
  <2> QED  BY <2>1 DEF InRange
<1>5. ASSUME NEW n \in InRange(Lines(a, b)) PROVE n \in (a + 1)..b
  <2>1. PICK k \in DOMAIN Lines(a, b) : n = Lines(a, b)[k]
    BY DEF InRange
  <2> QED  BY <1>2, <1>3, <2>1
<1> QED  BY <1>1, <1>2, <1>4, <1>5

(* They follow a log that goes on with them.                                 *)
LEMMA LinesFollow ==
  ASSUME NEW s \in Seq(Nat), NEW a \in Nat, NEW b \in Nat, a <= b,
         GoesOn(s, a)
  PROVE  /\ InRange(s \o Lines(a, b)) = InRange(s) \cup InRange(Lines(a, b))
         /\ GoesOn(s \o Lines(a, b), b)
<1> DEFINE n == Len(s)
           m == b - a
           u == Lines(a, b)
           t == s \o u
<1>1. /\ n \in Nat /\ m \in Nat /\ DOMAIN s = 1..n
      /\ u \in Seq(Nat) /\ Len(u) = m /\ DOMAIN u = 1..m
      /\ \A k \in 1..m : u[k] = a + k
      /\ InRange(u) = (a + 1)..b
  <2>1. u \in Seq(Nat) /\ Len(u) = m /\ InRange(u) = (a + 1)..b
        /\ \A k \in 1..m : u[k] = a + k
    BY LinesAre
  <2> HIDE DEF u
  <2>2. n \in Nat /\ m \in Nat /\ DOMAIN s = 1..n
    OBVIOUS
  <2>3. DOMAIN u = 1..Len(u)
    BY <2>1
  <2> QED  BY <2>1, <2>2, <2>3
<1> HIDE DEF m, u
<1>2. /\ DOMAIN t = 1..(n + m) /\ t \in Seq(Nat) /\ Len(t) = n + m
      /\ \A k \in 1..(n + m) : t[k] = IF k <= n THEN s[k] ELSE u[k - n]
  <2>1. t \in Seq(Nat) /\ Len(t) = Len(s) + Len(u)
    BY <1>1, ConcatProperties
  <2>2. \A k \in 1..(Len(s) + Len(u)) :
          t[k] = IF k <= Len(s) THEN s[k] ELSE u[k - Len(s)]
    BY <1>1, ConcatProperties, Zenon
  <2>3. DOMAIN t = 1..Len(t)
    BY <2>1
  <2> HIDE DEF t
  <2> QED  BY <1>1, <2>1, <2>2, <2>3
<1> HIDE DEF t, n
<1>3. \A k \in 1..(n + m) : \/ k <= n /\ k \in 1..n /\ t[k] = s[k]
                            \/ k > n /\ k - n \in 1..m /\ t[k] = a + (k - n)
  BY <1>1, <1>2
<1>4. \A k \in 1..n : s[k] \in InRange(s) /\ s[k] \in Nat
  BY <1>1 DEF InRange
<1>5. t \in Seq(Nat) /\ Len(t) = n + m
  BY <1>2
<1>6. InRange(t) = InRange(s) \cup InRange(u)
  <2>1. ASSUME NEW x \in InRange(t) PROVE x \in InRange(s) \cup InRange(u)
    <3>1. PICK k \in 1..(n + m) : x = t[k]
      BY <1>2, <2>1 DEF InRange
    <3>2. \/ k \in 1..n /\ x = s[k]
          \/ k - n \in 1..m /\ x = u[k - n]
      BY <1>1, <1>2, <3>1
    <3> QED  BY <1>1, <3>2 DEF InRange
  <2>2. ASSUME NEW x \in InRange(s) PROVE x \in InRange(t)
    <3>1. PICK k \in 1..n : x = s[k]
      BY <1>1, <2>2 DEF InRange
    <3>2. k \in 1..(n + m) /\ t[k] = s[k]
      BY <1>1, <1>2
    <3> QED  BY <1>2, <3>1, <3>2 DEF InRange
  <2>3. ASSUME NEW x \in InRange(u) PROVE x \in InRange(t)
    <3>1. PICK k \in 1..m : x = u[k]
      BY <1>1, <2>3 DEF InRange
    <3>2. n + k \in 1..(n + m) /\ t[n + k] = u[k]
      BY <1>1, <1>2
    <3> QED  BY <1>2, <3>1, <3>2 DEF InRange
  <2> QED  BY <2>1, <2>2, <2>3
<1>7. ASSUME InRange(s) \subseteq 1..a, \E x \in 0..n : Seam(s, x)
      PROVE  GoesOn(t, b)
  <2>1. PICK x \in 0..n : Seam(s, x)
    BY <1>7
  <2>2. ASSUME NEW k \in DOMAIN t, NEW l \in DOMAIN t, k < l
        PROVE  t[k] < t[l] \/ (t[k] = t[l] /\ k = x /\ l = x + 1)
    <3>1. /\ k \in 1..(n + m) /\ l \in 1..(n + m) /\ k \in Int /\ l \in Int
      BY <1>1, <1>2
    <3>2. CASE k <= n /\ l <= n
      <4>1. /\ k \in DOMAIN s /\ l \in DOMAIN s
            /\ t[k] = s[k] /\ t[l] = s[l]
        BY <1>1, <1>3, <3>1, <3>2
      <4> QED  BY <2>1, <2>2, <4>1 DEF Seam
    <3>3. CASE k <= n /\ l > n
      <4>1. t[k] = s[k] /\ k \in 1..n /\ t[l] = a + (l - n) /\ l - n \in 1..m
        BY <1>1, <1>3, <3>1, <3>3
      <4>2. s[k] \in 1..a
        BY <1>4, <1>7, <4>1
      <4> QED  BY <1>1, <4>1, <4>2
    <3>4. CASE k > n /\ l > n
      <4>1. t[k] = a + (k - n) /\ t[l] = a + (l - n)
        BY <1>1, <1>3, <3>1, <3>4
      <4> QED  BY <1>1, <2>2, <3>1, <4>1
    <3> QED  BY <1>1, <2>2, <3>1, <3>2, <3>3, <3>4
  <2>3. Seam(t, x) /\ x \in 0..Len(t)
    BY <1>1, <1>5, <2>2 DEF Seam
  <2>4. InRange(t) \subseteq 1..b
    BY <1>1, <1>6, <1>7
  <2> QED  BY <2>3, <2>4 DEF GoesOn
<1>8. ASSUME InRange(s) \subseteq 1..(a + 1), Seam(s, 0), a < b
      PROVE  GoesOn(t, b)
  <2>1. ASSUME NEW k \in DOMAIN t, NEW l \in DOMAIN t, k < l
        PROVE  t[k] < t[l] \/ (t[k] = t[l] /\ k = n /\ l = n + 1)
    <3>1. /\ k \in 1..(n + m) /\ l \in 1..(n + m) /\ k \in Int /\ l \in Int
      BY <1>1, <1>2
    <3>2. CASE k <= n /\ l <= n
      <4>1. /\ k \in DOMAIN s /\ l \in DOMAIN s
            /\ t[k] = s[k] /\ t[l] = s[l] /\ k # 0
        BY <1>1, <1>3, <3>1, <3>2
      <4> QED  BY <1>8, <2>1, <4>1 DEF Seam
    <3>3. CASE k <= n /\ l > n
      <4>1. t[k] = s[k] /\ k \in 1..n /\ t[l] = a + (l - n) /\ l - n \in 1..m
        BY <1>1, <1>3, <3>1, <3>3
      <4>2. s[k] \in 1..(a + 1)
        BY <1>4, <1>8, <4>1
      <4>3. k < n => s[k] < s[n] /\ s[n] \in 1..(a + 1)
        <5>1. k \in DOMAIN s /\ (k < n => n \in DOMAIN s /\ n \in 1..n)
          BY <1>1, <4>1
        <5>2. k < n => s[k] < s[n]
          BY <1>8, <4>1, <5>1 DEF Seam
        <5> QED  BY <1>4, <1>8, <5>1, <5>2
      <4>4. k < n => s[k] < a + 1
        BY <1>1, <4>2, <4>3
      <4> QED  BY <1>1, <3>1, <4>1, <4>2, <4>4
    <3>4. CASE k > n /\ l > n
      <4>1. t[k] = a + (k - n) /\ t[l] = a + (l - n)
        BY <1>1, <1>3, <3>1, <3>4
      <4> QED  BY <1>1, <2>1, <3>1, <4>1
    <3> QED  BY <1>1, <2>1, <3>1, <3>2, <3>3, <3>4
  <2>2. Seam(t, n) /\ n \in 0..Len(t)
    BY <1>1, <1>5, <2>1 DEF Seam
  <2>3. InRange(t) \subseteq 1..b
    BY <1>1, <1>6, <1>8
  <2> QED  BY <2>2, <2>3 DEF GoesOn
<1>9. ASSUME InRange(s) \subseteq 1..(a + 1), Seam(s, 0), a = b
      PROVE  GoesOn(t, b)
  <2>1. m = 0 /\ u = <<>>
    BY <1>1, <1>9 DEF m
  <2>2. t = s
    BY <2>1 DEF t
  <2> QED  BY <1>9, <2>2 DEF GoesOn
<1>10. GoesOn(t, b)
  BY <1>7, <1>8, <1>9 DEF GoesOn, n
<1> QED  BY <1>6, <1>10 DEF t, u

(* The beginning of a log has a seam at most where the log has one.          *)
LEMMA SeamOfPart ==
  ASSUME NEW s \in Seq(Nat), NEW t \in Seq(Nat), NEW d, GoesOn(s \o t, d)
  PROVE  /\ \E n \in 0..Len(s) : Seam(s, n)
         /\ \A x \in InRange(s) : \A y \in InRange(t) : x <= y
         /\ InRange(s) \subseteq 1..d \/ InRange(s) \subseteq 1..(d + 1)
<1> DEFINE n == Len(s)
           m == Len(t)
           w == s \o t
<1>1. /\ n \in Nat /\ m \in Nat /\ DOMAIN s = 1..n /\ DOMAIN t = 1..m
      /\ DOMAIN w = 1..(n + m) /\ Len(w) = n + m
      /\ \A k \in 1..n : k \in DOMAIN w /\ w[k] = s[k]
      /\ \A k \in 1..m : n + k \in DOMAIN w /\ w[n + k] = t[k]
      /\ \A k \in 1..n : s[k] \in Nat
      /\ \A k \in 1..m : t[k] \in Nat
  OBVIOUS
<1> HIDE DEF n, m, w
<1>2. PICK x \in 0..(n + m) : Seam(w, x)
  BY <1>1 DEF GoesOn, w
<1>3. \E k \in 0..n : Seam(s, k)
  <2>1. ASSUME NEW k \in 1..n, NEW l \in 1..n, k < l
        PROVE  s[k] < s[l] \/ (s[k] = s[l] /\ k = x /\ l = x + 1)
    <3>1. k \in DOMAIN w /\ l \in DOMAIN w /\ w[k] = s[k] /\ w[l] = s[l]
      BY <1>1
    <3> QED  BY <1>2, <2>1, <3>1 DEF Seam
  <2>2. x <= n => Seam(s, x) /\ x \in 0..n
    BY <1>1, <2>1 DEF Seam
  <2>3. x > n => Seam(s, 0) /\ 0 \in 0..n
    <3>1. ASSUME x > n, NEW k \in 1..n, NEW l \in 1..n, k < l
          PROVE  s[k] < s[l]
      BY <1>1, <2>1, <3>1
    <3> QED  BY <1>1, <3>1 DEF Seam
  <2> QED  BY <1>1, <2>2, <2>3
<1>4. ASSUME NEW v \in InRange(s), NEW y \in InRange(t) PROVE v <= y
  <2>1. PICK k \in 1..n : v = s[k]
    BY <1>1 DEF InRange
  <2>2. PICK l \in 1..m : y = t[l]
    BY <1>1 DEF InRange
  <2>3. k < n + l
    BY <1>1, <2>1, <2>2
  <2>4. w[k] < w[n + l] \/ w[k] = w[n + l]
    BY <1>1, <1>2, <2>1, <2>2, <2>3 DEF Seam
  <2> QED  BY <1>1, <2>1, <2>2, <2>4
<1>5. InRange(s) \subseteq InRange(w)
  BY <1>1 DEF InRange
<1> QED  BY <1>3, <1>4, <1>5 DEF GoesOn, n, w

(* The file, of which the queue lacks at most the last line.                 *)
LEMMA FileGoesOn ==
  ASSUME NEW f \in Nat, NEW d \in Nat, f <= d + 1
  PROVE  GoesOn(Lines(0, f), d) /\ InRange(Lines(0, f)) = 1..f
<1>1. /\ Lines(0, f) \in Seq(Nat) /\ Len(Lines(0, f)) = f - 0
      /\ \A k \in 1..(f - 0) : Lines(0, f)[k] = 0 + k
      /\ InRange(Lines(0, f)) = (0 + 1)..f
  <2>1. 0 \in Nat /\ 0 <= f
    OBVIOUS
  <2> QED  BY <2>1, LinesAre
<1> DEFINE u == Lines(0, f)
<1>2. u \in Seq(Nat) /\ Len(u) = f /\ DOMAIN u = 1..f /\ InRange(u) = 1..f
  BY <1>1
<1>3. \A k \in 1..f : u[k] = k
  BY <1>1
<1> HIDE DEF u
<1>4. Seam(u, 0)
  BY <1>2, <1>3 DEF Seam
<1>5. InRange(u) \subseteq 1..(d + 1)
  BY <1>2
<1> QED  BY <1>2, <1>4, <1>5 DEF GoesOn, u

(* The lines of two logs, one after the other.                               *)
LEMMA InRangeConcat ==
  ASSUME NEW s \in Seq(Nat), NEW t \in Seq(Nat)
  PROVE  InRange(s \o t) = InRange(s) \cup InRange(t)
<1> DEFINE n == Len(s)
           m == Len(t)
           w == s \o t
<1>1. /\ n \in Nat /\ m \in Nat /\ DOMAIN s = 1..n /\ DOMAIN t = 1..m
      /\ DOMAIN w = 1..(n + m)
      /\ \A k \in 1..n : k \in DOMAIN w /\ w[k] = s[k]
      /\ \A k \in 1..m : n + k \in DOMAIN w /\ w[n + k] = t[k]
      /\ \A k \in 1..(n + m) :
           k \in 1..n \/ (k - n \in 1..m /\ w[k] = t[k - n])
  OBVIOUS
<1> HIDE DEF n, m, w
<1>2. InRange(w) \subseteq InRange(s) \cup InRange(t)
  BY <1>1 DEF InRange
<1>3. InRange(s) \subseteq InRange(w)
  BY <1>1 DEF InRange
<1>4. ASSUME NEW x \in InRange(t) PROVE x \in InRange(w)
  <2>1. PICK k \in 1..m : x = t[k]
    BY <1>1 DEF InRange
  <2>2. n + k \in DOMAIN w /\ w[n + k] = x
    BY <1>1, <2>1
  <2> QED  BY <2>2 DEF InRange
<1> QED  BY <1>2, <1>3, <1>4 DEF w

(* What was taken is shown.                                                  *)
LEMMA LinesShown ==
  ASSUME Types, LinesInv, UNCHANGED log, NEW i \in Fetched, Fetching = {},
         \A j \in Fetched : j = i, Fetching' = {}, Fetched' = {},
         page.log \in Seq(Nat), calls[i].seen.lines \in Seq(Nat),
         page'.log = page.log \o calls[i].seen.lines
  PROVE  LinesInv'
<1>1. Covered(page.log, Texts, drained, lost) /\ Texts = {calls[i].seen.lines}
  BY DEF LinesInv, Texts
<1>2. UNCHANGED <<drained, lost>> /\ Texts' = {}
  BY DEF log, Texts
<1>3. GoesOn(page'.log, drained)
  BY <1>1 DEF Covered
<1>4. \A k \in 1..drained : k \in lost \/ k \in InRange(page'.log)
  BY <1>1, InRangeConcat DEF Covered
<1>5. Covered(page'.log, {}, drained, lost)
  BY <1>3, <1>4 DEF Covered
<1> QED  BY <1>2, <1>5, LinesNext

(* The file is shown, ...                                                    *)
LEMMA LogFileArrivesLog ==
  ASSUME Types, Types', LogInv, ~Overtaking,
         NEW i \in DOMAIN calls, LogFileArrives(i)
  PROVE  LogInv'
<1>1. /\ CallsOK /\ CallsOK' /\ UNCHANGED <<job, log, mount>> /\ i \in Nat
      /\ calls[i].op = "log-file" /\ calls[i].at = "answered"
      /\ calls' = Rest(i) /\ calls[i].seen.lines \in Seq(Nat)
  <2>1. CallsOK
    BY DEF Types
  <2>2. calls[i] \in Request /\ calls[i].at = "answered"
    BY <2>1, Typed DEF LogFileArrives, Arrives
  <2>3. calls[i].seen \in Replies
    BY <2>2 DEF Request
  <2> QED  BY <2>1, <2>3, Typed DEF LogFileArrives, Arrives, Types, Replies
<1>2. ForThisMount(i) => OnMonitor /\ page \in MonitorState
  <2>1. page \in Pages
    BY DEF Types, TabOK
  <2> QED
    BY <1>1, <2>1, ArrivedOK, PageIs DEF OpsOf, DialogOps, OnMonitor
<1>3. /\ page'.at = page.at
      /\ ~ForThisMount(i) => page' = page
      /\ ForThisMount(i) /\ calls[i].ok =>
           page'.log = IF calls[i].seen.lines # <<>> THEN calls[i].seen.lines
                       ELSE page.log
  BY <1>2 DEF LogFileArrives, MonitorState
<1>4. SUFFICES ASSUME OnMonitor PROVE OrderInv' /\ (job # NoJob => LinesInv')
  BY <1>1, <1>3 DEF LogInv, OnMonitor
<1>5. OrderInv /\ (job # NoJob => LinesInv)
  BY <1>4 DEF LogInv
<1>6. Moves(LogOps, {i}, {})
  BY <1>1, EndingMoves
<1>7. CASE ~ForThisMount(i)
  <2>1. {i} \cap (Own("log-file") \cup Own("logs")) = {}
    BY <1>7 DEF Own
  <2>2. OrderInv' /\ LinesStay
    BY <1>1, <1>3, <1>5, <1>6, <1>7, <2>1, OrderKept
  <2> QED  BY <1>1, <1>3, <1>5, <1>7, <2>2, LinesSame
<1>8. CASE ForThisMount(i)
  <2>1. i \in Own("log-file") /\ i \notin Unserved
    BY <1>1, <1>8 DEF Own, Unserved
  <2>2. /\ page.log = <<>> /\ Own("logs") = {} /\ Own("log-file") = {i}
        /\ Fetching = {} /\ Unserved = {}
    <3>1. page.log = <<>> /\ Own("logs") = {} /\ Own("log-file") = {i}
      BY <1>5, <2>1 DEF OrderInv
    <3>2. Fetching = {}
      BY <2>1, <3>1 DEF Fetching
    <3> QED  BY <1>5, <3>1, <3>2 DEF OrderInv
  <2>3. PICK f : LogTraces(f, {i}, {})
    BY <1>1, <1>6, LogMoves
  <2>4. /\ Own("log-file")' = {} /\ Own("logs")' = {} /\ Unserved' = {}
        /\ \A k \in Own("job")' : f[k] \in Own("job")
    BY <2>2, <2>3 DEF LogTraces, LogOps
  <2>5. Fetching' = {} /\ Fetched' = {}
    BY <2>4 DEF Fetching, Fetched
  <2>6. \A k, l \in Own("job")' : k = l
    BY <1>5, <2>3, <2>4 DEF OrderInv, LogTraces
  <2>7. OrderInv'
    BY <2>4, <2>5, <2>6 DEF OrderInv
  <2>8. ASSUME job # NoJob PROVE LinesInv'
    <3>1. i \in Fetched /\ \A j \in Fetched : j = i
      BY <1>1, <2>1, <2>2 DEF Fetched
    <3>2. LinesInv /\ calls[i].ok
      BY <1>5, <2>2, <2>8, <3>1 DEF LinesInv
    <3>3. page'.log = page.log \o calls[i].seen.lines /\ page.log \in Seq(Nat)
      <4>1. <<>> \o calls[i].seen.lines = calls[i].seen.lines
        BY <1>1, ConcatEmptySeq
      <4>2. page'.log = calls[i].seen.lines
        BY <1>3, <1>8, <2>2, <3>2
      <4> QED  BY <2>2, <4>1, <4>2
    <3> QED  BY <1>1, <2>2, <2>5, <3>1, <3>2, <3>3, LinesShown
  <2> QED  BY <2>7, <2>8
<1> QED  BY <1>7, <1>8

(* ... and the lines of the queue after it.                                  *)
LEMMA LogsArriveLog ==
  ASSUME Types, Types', LogInv, ~Overtaking,
         NEW i \in DOMAIN calls, LogsArrive(i)
  PROVE  LogInv'
<1>1. /\ CallsOK /\ CallsOK' /\ UNCHANGED <<job, log, mount>> /\ i \in Nat
      /\ calls[i].op = "logs" /\ calls[i].at = "answered" /\ calls' = Rest(i)
      /\ calls[i].seen.lines \in Seq(Nat)
  <2>1. CallsOK
    BY DEF Types
  <2>2. calls[i] \in Request /\ calls[i].at = "answered"
    BY <2>1, Typed DEF LogsArrive, Arrives
  <2>3. calls[i].seen \in Replies
    BY <2>2 DEF Request
  <2> QED  BY <2>1, <2>3, Typed DEF LogsArrive, Arrives, Types, Replies
<1>2. ForThisMount(i) => OnMonitor /\ page \in MonitorState
  <2>1. page \in Pages
    BY DEF Types, TabOK
  <2> QED
    BY <1>1, <2>1, ArrivedOK, PageIs DEF OpsOf, DialogOps, OnMonitor
<1>3. /\ page'.at = page.at
      /\ ~ForThisMount(i) => page' = page
      /\ ForThisMount(i) /\ calls[i].ok =>
           page'.log = page.log \o calls[i].seen.lines
  BY <1>2 DEF LogsArrive, MonitorState
<1>4. SUFFICES ASSUME OnMonitor PROVE OrderInv' /\ (job # NoJob => LinesInv')
  BY <1>1, <1>3 DEF LogInv, OnMonitor
<1>5. OrderInv /\ (job # NoJob => LinesInv)
  BY <1>4 DEF LogInv
<1>6. Moves(LogOps, {i}, {})
  BY <1>1, EndingMoves
<1>7. CASE ~ForThisMount(i)
  <2>1. {i} \cap (Own("log-file") \cup Own("logs")) = {}
    BY <1>7 DEF Own
  <2>2. OrderInv' /\ LinesStay
    BY <1>1, <1>3, <1>5, <1>6, <1>7, <2>1, OrderKept
  <2> QED  BY <1>1, <1>3, <1>5, <1>7, <2>2, LinesSame
<1>8. CASE ForThisMount(i)
  <2>1. i \in Own("logs") /\ i \notin Unserved
    BY <1>1, <1>8 DEF Own, Unserved
  <2>2. /\ Own("log-file") = {} /\ Fetching = {}
        /\ \A j \in Own("job") \cup Own("logs") : j = i
    <3>1. Own("log-file") = {}
      BY <1>5, <2>1 DEF OrderInv
    <3> QED  BY <1>5, <2>1, <3>1 DEF OrderInv, Fetching
  <2>3. Own("job") = {} /\ Unserved = {}
    <3>1. \A j \in Own("job") : j # i
      BY <1>1 DEF Own
    <3> QED  BY <1>5, <2>1, <2>2, <3>1 DEF OrderInv
  <2>4. PICK f : LogTraces(f, {i}, {})
    BY <1>1, <1>6, LogMoves
  <2>5. /\ Own("log-file")' = {} /\ Own("logs")' = {} /\ Own("job")' = {}
        /\ Unserved' = {}
    BY <2>2, <2>3, <2>4 DEF LogTraces, LogOps
  <2>6. Fetching' = {} /\ Fetched' = {}
    BY <2>5 DEF Fetching, Fetched
  <2>7. OrderInv'
    BY <2>5, <2>6 DEF OrderInv
  <2>8. ASSUME job # NoJob PROVE LinesInv'
    <3>1. i \in Fetched /\ \A j \in Fetched : j = i
      BY <1>1, <2>1, <2>2 DEF Fetched
    <3>2. LinesInv /\ calls[i].ok
      BY <1>5, <2>2, <2>8, <3>1 DEF LinesInv
    <3>3. page'.log = page.log \o calls[i].seen.lines /\ page.log \in Seq(Nat)
      BY <1>2, <1>3, <1>8, <3>2 DEF MonitorState
    <3> QED  BY <1>1, <2>2, <2>6, <3>1, <3>2, <3>3, LinesShown
  <2> QED  BY <2>7, <2>8
<1> QED  BY <1>7, <1>8

(* Nothing is known of the log while the file is still to be read.           *)
LEMMA StillFetching ==
  ASSUME LinesStay, Fetching # {}, \A j \in Fetching : calls[j].at # "reading"
  PROVE  LinesInv'
<1>1. Fetching' # {} /\ \A k \in Fetching' : calls'[k].at # "reading"
  BY DEF LinesStay
<1> QED  BY <1>1 DEF LinesInv

(* Who asks for the log, if the page's own file is not read yet.             *)
LEMMA FetchingIs ==
  ASSUME OrderInv, NEW i \in Unserved, Fetching # {}
  PROVE  \E i0 \in Fetching :
           /\ Own("log-file") = {i0} /\ Own("logs") = {} /\ page.log = <<>>
           /\ \A j \in Own("job") : i0 < j /\ calls[j].at = "sent"
           /\ \A j \in Unserved : j # i0 => j < i0 /\ calls[i0].at = "sent"
           /\ Fetching = {i0}
<1>1. PICK i0 \in Fetching : TRUE
  OBVIOUS
<1>2. /\ Own("log-file") = {i0} /\ Own("logs") = {} /\ page.log = <<>>
      /\ \A j \in Own("job") : i0 < j /\ calls[j].at = "sent"
      /\ \A j \in Unserved \ {i0} : j < i0 /\ calls[i0].at = "sent"
  BY <1>1 DEF OrderInv
<1>3. Fetching = {i0}
  BY <1>1, <1>2 DEF Fetching
<1> QED  BY <1>1, <1>2, <1>3

(* The queue is emptied.                                                     *)
LEMMA DrainsLogsLog ==
  ASSUME Types, Types', LogInv, NEW i \in DOMAIN calls, DrainsLogs(i)
  PROVE  LogInv'
<1> DEFINE u == Lines(drained, put)
           c == [calls[i] EXCEPT !.at = "answered", !.ok = (job # NoJob),
                                 !.seen = [Reply EXCEPT !.lines = u]]
<1>1. /\ CallsOK /\ CallsOK' /\ calls' = Append(Rest(i), c)
      /\ UNCHANGED <<job, file, put, lost, mount, page>> /\ drained' = put
      /\ calls[i].at = "sent" /\ calls[i].op = "logs" /\ i \in Unserved
  BY DEF DrainsLogs, Begins, Answers, Rest, Types, tab, Unserved
<1>2. /\ c.op = "logs" /\ c.mount = calls[i].mount /\ c.at = "answered"
      /\ c.ok = (job # NoJob) /\ c.seen.lines = u
  <2>1. calls[i] \in Request
    BY <1>1, Typed
  <2> QED  BY <1>1, <2>1 DEF Request, AnyCall, Reply
<1> HIDE DEF c
<1>3. Moves(LogOps, {i}, {c})
  BY <1>1, GoingOnMoves
<1>4. SUFFICES ASSUME OnMonitor PROVE OrderInv' /\ (job # NoJob => LinesInv')
  BY <1>1 DEF LogInv, OnMonitor
<1>5. OrderInv /\ (job # NoJob => LinesInv)
  BY <1>4 DEF LogInv
<1>6. CASE Fetching # {}
  <2>1. PICK i0 \in Fetching :
          /\ Own("logs") = {} /\ Own("log-file") = {i0} /\ Fetching = {i0}
          /\ \A j \in Unserved : j # i0 => j < i0 /\ calls[i0].at = "sent"
    BY <1>1, <1>5, <1>6, FetchingIs
  <2>2. i # i0 /\ calls[i0].at = "sent"
    <3>1. i # i0
      BY <1>1 DEF Fetching, Own
    <3> QED  BY <1>1, <2>1, <3>1
  <2>3. c.mount # mount
    BY <1>1, <1>2, <2>1 DEF Own, ForThisMount
  <2>4. /\ \A d \in {c} : /\ d.op \in LogOps => d.mount # mount
                          /\ d.op \in {"log-file", "logs"} =>
                               d.at \notin {"sent", "reading"}
        /\ {i} \cap (Own("log-file") \cup Own("logs")) = {}
    BY <1>2, <2>1, <2>2, <2>3
  <2>5. OrderInv' /\ LinesStay
    BY <1>1, <1>3, <1>5, <2>4, OrderKept
  <2> QED  BY <1>6, <2>1, <2>2, <2>5, StillFetching
<1>7. CASE Fetching = {}
  <2>1. i \in Own("logs")
    BY <1>1, <1>5, <1>7 DEF OrderInv
  <2>2. /\ Own("log-file") = {}
        /\ \A j \in Own("job") \cup Own("logs") : j = i
    BY <1>5, <2>1 DEF OrderInv
  <2>3. Own("job") = {} /\ \A j \in Unserved : j = i
    <3>1. \A j \in Own("job") : j # i
      BY <1>1 DEF Own
    <3> QED  BY <1>5, <1>7, <2>2, <3>1 DEF OrderInv
  <2>4. PICK f : LogTraces(f, {i}, {c})
    BY <1>1, <1>3, LogMoves
  <2>5. /\ Own("log-file")' = {} /\ Own("job")' = {}
        /\ \A k \in Own("logs")' : f[k] = Len(calls) + 1 /\ calls'[k] = c
    <3>1. \A op \in {"log-file", "job"} : \A k \in Own(op)' :
            calls'[k].op # "logs"
      BY DEF Own
    <3> QED  BY <1>2, <2>2, <2>3, <2>4, <3>1 DEF LogTraces, LogOps
  <2>6. Unserved' = {}
    <3>1. \A k \in Unserved' : calls'[k] # c
      BY <1>2 DEF Unserved
    <3> QED  BY <2>3, <2>4, <3>1 DEF LogTraces
  <2>7. Fetching' = {} /\ \A k, l \in Own("logs")' : k = l
    BY <2>4, <2>5 DEF Fetching, LogTraces
  <2>8. OrderInv'
    BY <2>5, <2>6, <2>7 DEF OrderInv
  <2>9. ASSUME job # NoJob PROVE LinesInv'
    <3>1. Fetched = {}
      BY <1>1, <2>2 DEF Fetched
    <3>2. Covered(page.log, {}, drained, lost)
      BY <1>5, <1>7, <2>9, <3>1 DEF LinesInv, Texts
    <3>3. drained \in Nat /\ put \in Nat /\ drained <= put
      BY DEF Types, ServerOK
    <3>4. \A k \in Fetched' : calls'[k] = c
      BY <2>5 DEF Fetched
    <3>5. \E k \in Fetched' : calls'[k] = c
      <4>1. \E k \in Own("logs")' : calls'[k] = c
        BY <1>2, <2>1, <2>4 DEF LogTraces, LogOps, Own, ForThisMount
      <4> QED  BY <1>2, <4>1 DEF Fetched
    <3>6. Texts' = {u}
      BY <1>2, <3>4, <3>5 DEF Texts
    <3>7. page.log \in Seq(Nat) /\ page' = page /\ lost' = lost
          /\ drained' = put
      BY <1>1, <1>4, PageIs DEF OnMonitor, MonitorState, Types, TabOK
    <3>8. InRange(u) = (drained + 1)..put
      BY <3>3, LinesAre
    <3>9. GoesOn(page.log \o u, put)
      BY <3>2, <3>3, <3>7, LinesFollow DEF Covered
    <3>10. \A k \in 1..put :
             k \in lost \/ k \in InRange(page.log) \/ k \in InRange(u)
      BY <3>2, <3>3, <3>8 DEF Covered
    <3> HIDE DEF u
    <3>11. Covered(page.log, {u}, put, lost)
      BY <3>9, <3>10 DEF Covered
    <3>12. \A k \in Fetched' : calls'[k].ok
      BY <1>2, <2>9, <3>4
    <3> QED  BY <2>7, <3>6, <3>7, <3>11, <3>12, LinesNext
  <2> QED  BY <2>8, <2>9
<1> QED  BY <1>6, <1>7

(* The file has been read: what the queue had besides is gone.               *)
LEMMA FileReadLog ==
  ASSUME Types, Types', LogInv, NEW i \in DOMAIN calls, FileRead(i)
  PROVE  LogInv'
<1> DEFINE c == [calls[i] EXCEPT !.at = "answered"]
<1>1. /\ CallsOK /\ CallsOK' /\ calls' = Append(Rest(i), c)
      /\ UNCHANGED <<job, file, put, mount, page>> /\ drained' = put
      /\ lost' = lost \cup ((Len(calls[i].seen.lines) + 1)..put)
      /\ calls[i].at = "reading" /\ calls[i].op = "log-file" /\ i \in Unserved
  <2>1. CallsOK
    BY DEF Types
  <2>2. calls[i].op = "log-file"
    BY <2>1, Typed DEF FileRead, Request
  <2> QED  BY <2>2 DEF FileRead, Rest, Types, tab, Unserved
<1>2. /\ c.op = "log-file" /\ c.mount = calls[i].mount /\ c.at = "answered"
      /\ c.ok = calls[i].ok /\ c.seen = calls[i].seen
  <2>1. calls[i] \in Request
    BY <1>1, Typed
  <2> QED  BY <1>1, <2>1 DEF Request, AnyCall
<1> HIDE DEF c
<1>3. Moves(LogOps, {i}, {c})
  BY <1>1, GoingOnMoves
<1>4. SUFFICES ASSUME OnMonitor PROVE OrderInv' /\ (job # NoJob => LinesInv')
  BY <1>1 DEF LogInv, OnMonitor
<1>5. OrderInv /\ (job # NoJob => LinesInv)
  BY <1>4 DEF LogInv
<1>6. Fetching # {}
  <2>1. i \notin Own("logs")
    BY <1>1 DEF Own
  <2> QED  BY <1>1, <1>5, <2>1 DEF OrderInv
<1>7. PICK i0 \in Fetching :
        /\ Own("logs") = {} /\ Own("log-file") = {i0} /\ page.log = <<>>
        /\ \A j \in Own("job") : i0 < j /\ calls[j].at = "sent"
        /\ \A j \in Unserved : j # i0 => j < i0 /\ calls[i0].at = "sent"
        /\ Fetching = {i0}
  BY <1>1, <1>5, <1>6, FetchingIs
<1>8. CASE i # i0
  <2>1. calls[i0].at = "sent" /\ c.mount # mount
    BY <1>1, <1>2, <1>7, <1>8 DEF Own, ForThisMount
  <2>2. /\ \A d \in {c} : /\ d.op \in LogOps => d.mount # mount
                          /\ d.op \in {"log-file", "logs"} =>
                               d.at \notin {"sent", "reading"}
        /\ {i} \cap (Own("log-file") \cup Own("logs")) = {}
    BY <1>2, <1>7, <1>8, <2>1
  <2>3. OrderInv' /\ LinesStay
    BY <1>1, <1>3, <1>5, <2>2, OrderKept
  <2> QED  BY <1>6, <1>7, <2>1, <2>3, StillFetching
<1>9. CASE i = i0
  <2>1. i \in Own("log-file") /\ calls[i].mount = mount
    BY <1>7, <1>9 DEF Own, ForThisMount
  <2>2. \A j \in Unserved : j = i
    BY <1>1, <1>7, <1>9
  <2>3. PICK f : LogTraces(f, {i}, {c})
    BY <1>1, <1>3, LogMoves
  <2>4. /\ Own("logs")' = {}
        /\ \A k \in Own("job")' : calls'[k].at = "sent" /\ f[k] \in Own("job")
        /\ \A k \in Own("log-file")' : f[k] = Len(calls) + 1 /\ calls'[k] = c
    <3>1. \A op \in {"logs", "job"} : \A k \in Own(op)' :
            calls'[k].op # "log-file"
      BY DEF Own
    <3> QED  BY <1>2, <1>7, <1>9, <2>3, <3>1 DEF LogTraces, LogOps
  <2>5. Unserved' = {}
    <3>1. \A k \in Unserved' : calls'[k] # c
      BY <1>2 DEF Unserved
    <3> QED  BY <2>2, <2>3, <3>1 DEF LogTraces
  <2>6. /\ Fetching' = {} /\ \A k, l \in Own("log-file")' : k = l
        /\ \A k, l \in Own("job")' : k = l
    BY <1>5, <2>3, <2>4, <2>5 DEF Fetching, LogTraces, OrderInv
  <2>7. OrderInv'
    <3>1. page'.log = <<>>
      BY <1>1, <1>7
    <3>2. \A k \in Own("log-file")' :
            /\ page'.log = <<>> /\ Own("logs")' = {} /\ Own("log-file")' = {k}
            /\ \A j \in Own("job")' : calls'[j].at = "answered" => k < j
      BY <2>4, <2>6, <3>1
    <3> QED  BY <2>4, <2>5, <2>6, <3>2 DEF OrderInv
  <2>8. ASSUME job # NoJob PROVE LinesInv'
    <3>1. PICK x \in 0..(put + 1) : calls[i].seen.lines = Lines(0, x)
      BY <1>1, <1>5, <1>7, <1>9, <2>8 DEF LinesInv
    <3>2. /\ put \in Nat /\ x \in Nat /\ x <= put + 1 /\ calls[i].ok
          /\ drained' = put /\ page'.log = <<>>
      BY <1>1, <1>5, <1>7, <1>9, <2>8 DEF LinesInv, Types, ServerOK
    <3> DEFINE u == Lines(0, x)
    <3>3. /\ u \in Seq(Nat) /\ Len(u) = x - 0
          /\ GoesOn(u, put) /\ InRange(u) = 1..x
      BY <3>2, LinesAre, FileGoesOn
    <3> HIDE DEF u
    <3>4. lost' = lost \cup ((x + 1)..put) /\ c.seen.lines = u
      BY <1>1, <1>2, <3>1, <3>2, <3>3 DEF u
    <3>5. /\ \A k \in Fetched' : calls'[k] = c
          /\ \E k \in Fetched' : calls'[k] = c
      <4>1. \E k \in Own("log-file")' : calls'[k] = c
        BY <1>2, <2>1, <2>3 DEF LogTraces, LogOps
      <4> QED  BY <1>2, <2>4, <4>1 DEF Fetched
    <3>6. Texts' = {u}
      BY <3>4, <3>5 DEF Texts
    <3>7. <<>> \o u = u
      BY <3>3, ConcatEmptySeq
    <3>8. \A k \in 1..put : k \in lost' \/ k \in InRange(u)
      <4> TAKE k \in 1..put
      <4>1. k \in 1..x \/ k \in (x + 1)..put
        BY <3>2
      <4> QED  BY <3>3, <3>4, <4>1
    <3>9. Covered(<<>>, {u}, put, lost')
      BY <3>3, <3>7, <3>8 DEF Covered
    <3>10. \A k \in Fetched' : calls'[k].ok
      BY <1>2, <3>2, <3>5
    <3> QED  BY <2>6, <3>2, <3>6, <3>9, <3>10, LinesNext
  <2> QED  BY <2>7, <2>8
<1> QED  BY <1>8, <1>9

(* It is read, with perhaps one line that is not in the queue yet.           *)
LEMMA ReadsFileLog ==
  ASSUME Types, Types', LogInv, ~Overtaking,
         NEW i \in DOMAIN calls, ReadsFile(i)
  PROVE  LogInv'
<1> DEFINE c == [calls[i] EXCEPT
                   !.at = "reading", !.ok = (job # NoJob),
                   !.seen = [Reply EXCEPT !.lines = Lines(0, file)]]
<1>1. /\ CallsOK /\ CallsOK' /\ calls' = [calls EXCEPT ![i] = c]
      /\ UNCHANGED <<job, file, put, drained, lost, mount, page>>
      /\ calls[i].at = "sent" /\ calls[i].op = "log-file" /\ i \in Unserved
      /\ \A j \in 1..(i - 1) : calls[j].at \notin {"sent", "reading"}
      /\ calls[i] \in Request /\ i \in 1..Len(calls)
      /\ Len(calls) \in Nat /\ DOMAIN calls = 1..Len(calls)
  <2>1. CallsOK
    BY DEF Types
  <2>2. /\ calls[i] \in Request /\ i \in 1..Len(calls) /\ Len(calls) \in Nat
        /\ DOMAIN calls = 1..Len(calls)
    BY <2>1, Typed
  <2>3. calls' = [calls EXCEPT ![i] = c]
    BY <2>2 DEF ReadsFile
  <2> QED  BY <2>1, <2>2, <2>3 DEF ReadsFile, Begins, Types, tab, log, Unserved
<1>2. /\ c.op = "log-file" /\ c.mount = calls[i].mount /\ c.at = "reading"
      /\ c.ok = (job # NoJob) /\ c.seen.lines = Lines(0, file)
  BY <1>1 DEF Request, AnyCall, Reply
<1> HIDE DEF c
<1>3. /\ DOMAIN calls' = DOMAIN calls /\ calls'[i] = c
      /\ \A j \in DOMAIN calls : j # i => calls'[j] = calls[j]
  BY <1>1
<1>4. /\ \A op : Own(op)' = Own(op) /\ Unserved' = Unserved
      /\ Fetching' = Fetching
  <2>1. \A op : Own(op)' = Own(op)
    BY <1>1, <1>2, <1>3 DEF Own, ForThisMount
  <2>2. Unserved' = Unserved
    BY <1>1, <1>2, <1>3 DEF Unserved
  <2> QED  BY <2>1, <2>2 DEF Fetching
<1>5. SUFFICES ASSUME OnMonitor PROVE OrderInv' /\ (job # NoJob => LinesInv')
  BY <1>1 DEF LogInv, OnMonitor
<1>6. OrderInv /\ (job # NoJob => LinesInv)
  BY <1>5 DEF LogInv
<1>7. Fetching # {}
  <2>1. i \notin Own("logs")
    BY <1>1 DEF Own
  <2> QED  BY <1>1, <1>6, <2>1 DEF OrderInv
<1>8. PICK i0 \in Fetching :
        /\ Own("logs") = {} /\ Own("log-file") = {i0} /\ page.log = <<>>
        /\ \A j \in Own("job") : i0 < j /\ calls[j].at = "sent"
        /\ \A j \in Unserved : j # i0 => j < i0 /\ calls[i0].at = "sent"
        /\ Fetching = {i0}
  BY <1>1, <1>6, <1>7, FetchingIs
<1>9. \A j \in Own("job") : j \in DOMAIN calls /\ j # i
  BY <1>1 DEF Own
<1>10. i # i0 => calls'[i0] = calls[i0] /\ calls[i0].at = "sent"
  BY <1>1, <1>3, <1>8 DEF Unserved, Fetching
<1>11. i = i0 => Unserved \ {i0} = {}
  <2> SUFFICES ASSUME i = i0, NEW j \in Unserved, j # i PROVE FALSE
    OBVIOUS
  <2>1. j < i /\ calls[j].at \in {"sent", "reading"} /\ j \in DOMAIN calls
    BY <1>8 DEF Unserved
  <2>2. j \in 1..(i - 1)
    BY <1>1, <2>1
  <2> QED  BY <1>1, <2>1, <2>2
<1>12. OrderInv'
  <2>1. \A k \in Fetching' :
          /\ page'.log = <<>> /\ Own("logs")' = {} /\ Own("log-file")' = {k}
          /\ \A j \in Own("job")' : k < j /\ calls'[j].at = "sent"
          /\ \A j \in Unserved' \ {k} : j < k /\ calls'[k].at = "sent"
    BY <1>1, <1>3, <1>4, <1>8, <1>9, <1>10, <1>11
  <2>2. \A k \in Own("log-file")' :
          /\ page'.log = <<>> /\ Own("logs")' = {} /\ Own("log-file")' = {k}
          /\ \A j \in Own("job")' : calls'[j].at = "answered" => k < j
    BY <1>1, <1>3, <1>4, <1>8, <1>9
  <2>3. \A k, l \in Own("job")' \cup Own("logs")' : k = l
    BY <1>4, <1>6 DEF OrderInv
  <2>4. Fetching' # {}
    BY <1>4, <1>7
  <2> QED  BY <2>1, <2>2, <2>3, <2>4 DEF OrderInv
<1>13. ASSUME job # NoJob PROVE LinesInv'
  <2>1. \A k \in Fetching' : calls'[k].at = "reading" =>
          /\ calls'[k].ok
          /\ \E f \in 0..(put' + 1) : calls'[k].seen.lines = Lines(0, f)
    <3>1. file \in 0..(put' + 1)
      BY <1>1 DEF Types, ServerOK
    <3> QED  BY <1>1, <1>2, <1>3, <1>4, <1>8, <1>10, <1>13, <3>1
  <2>2. Fetching' # {}
    BY <1>4, <1>7
  <2> QED  BY <2>1, <2>2 DEF LinesInv
<1> QED  BY <1>12, <1>13

-----------------------------------------------------------------------------
(* What concerns the log leaves the rest alone.                              *)
LogStep ==
  \/ PollJob
  \/ \E i \in DOMAIN calls :
       \/ LogFileArrives(i) \/ JobArrives(i) \/ LogsArrive(i)
       \/ ReportsJob(i) /\ calls[i].op = "job"
       \/ DrainsLogs(i) \/ ReadsFile(i) \/ FileRead(i)

LEMMA LogStepAside ==
  ASSUME Good, Types', LogStep
  PROVE  AloneInv' /\ AliveInv' /\ GateInv'
<1> DEFINE H == Weighty \cup GateOps
           Aside == /\ Spares(H) /\ Stays /\ UNCHANGED <<job, alive, pip>>
                    /\ page' = page \/ OnMonitor
<1>1. Types /\ CallsOK
  BY DEF Good, Types
<1>2. \A op \in {"log-file", "job", "logs"} : op \notin H
  BY DEF Weighty, GateOps
<1>3. ASSUME PollJob PROVE Aside
  <2>1. Call("job", 0, mount).op \notin H
    BY <1>2 DEF Call
  <2>2. Spares(H)
    BY <1>3, <2>1 DEF PollJob, Sent, Spares
  <2> QED  BY <1>3, <2>2 DEF PollJob, Stays, counts, tab
<1>4. ASSUME NEW i \in DOMAIN calls,
             LogFileArrives(i) \/ JobArrives(i) \/ LogsArrive(i)
      PROVE  Aside
  <2> DEFINE c == Call("logs", 0, mount)
  <2>1. /\ calls[i].op \in {"log-file", "job", "logs"} /\ mount' = mount
        /\ UNCHANGED <<job, alive, pip>>
    BY <1>4 DEF LogFileArrives, JobArrives, LogsArrive, Arrives, counts
  <2>2. c.op \notin H
    BY <1>2 DEF Call
  <2>3. calls' = Rest(i) \/ calls' = Append(Rest(i), c)
    BY <1>4 DEF LogFileArrives, JobArrives, LogsArrive
  <2>4. Spares(H)
    BY <1>2, <2>1, <2>2, <2>3 DEF Spares
  <2>5. CASE ~ForThisMount(i)
    <3>1. page' = page
      BY <1>4, <2>5 DEF LogFileArrives, JobArrives, LogsArrive
    <3> QED  BY <2>1, <2>4, <3>1 DEF Stays
  <2>6. CASE ForThisMount(i)
    <3>1. OnMonitor /\ page \in MonitorState
      <4>1. page \in Pages
        BY <1>1 DEF Types, TabOK
      <4> QED
        BY <1>1, <2>1, <2>6, <4>1, ArrivedOK, PageIs
        DEF OpsOf, DialogOps, OnMonitor
    <3>2. page'.at = page.at
      BY <1>4, <3>1
      DEF LogFileArrives, JobArrives, LogsArrive, ShowsJob, MonitorState
    <3> QED  BY <2>1, <2>4, <3>1, <3>2 DEF Stays
  <2> QED  BY <2>5, <2>6
<1>5. ASSUME NEW i \in DOMAIN calls,
             \/ ReportsJob(i) /\ calls[i].op = "job"
             \/ DrainsLogs(i) \/ ReadsFile(i) \/ FileRead(i)
      PROVE  Aside
  <2>1. calls[i] \in Request
    BY <1>1, Typed
  <2>2. calls[i].op \in {"log-file", "job", "logs"}
    BY <1>5, <2>1 DEF DrainsLogs, ReadsFile, FileRead, Begins, Request
  <2>3. /\ UNCHANGED <<job, alive, pip>> /\ page' = page /\ mount' = mount
    BY <1>5 DEF ReportsJob, DrainsLogs, ReadsFile, FileRead, counts, tab
  <2>4. \E c : /\ c.op = calls[i].op
               /\ \/ calls' = Append(Rest(i), c)
                  \/ calls' = [calls EXCEPT ![i] = c]
    <3>1. CASE ReportsJob(i)
      <4> DEFINE c == [calls[i] EXCEPT !.at = "answered", !.ok = (job # NoJob),
                                       !.seen = Record]
      <4>1. calls' = Append(Rest(i), c)
        BY <3>1 DEF ReportsJob, Answers, Rest
      <4>2. c.op = calls[i].op
        BY <2>1 DEF Request, AnyCall
      <4> QED  BY <4>1, <4>2
    <3>2. CASE DrainsLogs(i)
      <4> DEFINE c == [calls[i] EXCEPT
                         !.at = "answered", !.ok = (job # NoJob),
                         !.seen = [Reply EXCEPT !.lines = Lines(drained, put)]]
      <4>1. calls' = Append(Rest(i), c)
        BY <3>2 DEF DrainsLogs, Answers, Rest
      <4>2. c.op = calls[i].op
        BY <2>1 DEF Request, AnyCall
      <4> QED  BY <4>1, <4>2
    <3>3. CASE ReadsFile(i)
      <4> DEFINE c == [calls[i] EXCEPT
                         !.at = "reading", !.ok = (job # NoJob),
                         !.seen = [Reply EXCEPT !.lines = Lines(0, file)]]
      <4>1. calls' = [calls EXCEPT ![i] = c]
        <5>1. DOMAIN calls = 1..Len(calls) /\ i \in 1..Len(calls)
          BY <1>1, Typed
        <5> QED  BY <3>3, <5>1 DEF ReadsFile
      <4>2. c.op = calls[i].op
        BY <2>1 DEF Request, AnyCall
      <4> QED  BY <4>1, <4>2
    <3>4. CASE FileRead(i)
      <4> DEFINE c == [calls[i] EXCEPT !.at = "answered"]
      <4>1. calls' = Append(Rest(i), c)
        BY <3>4 DEF FileRead, Rest
      <4>2. c.op = calls[i].op
        BY <2>1 DEF Request, AnyCall
      <4> QED  BY <4>1, <4>2
    <3> QED  BY <1>5, <3>1, <3>2, <3>3, <3>4
  <2>5. Spares(H)
    BY <1>2, <2>2, <2>4 DEF Spares
  <2> QED  BY <2>3, <2>5 DEF Stays
<1>6. Aside
  BY <1>3, <1>4, <1>5 DEF LogStep
<1>7. Moves(Weighty, {}, {}) /\ Moves(GateOps, {}, {})
  <2>1. Weighty \in SUBSET H /\ GateOps \in SUBSET H
    OBVIOUS
  <2> HIDE DEF H
  <2>2. Spares(Weighty) /\ Spares(GateOps)
    BY <1>6, <2>1, SparesLess, Zenon
  <2> QED  BY <1>1, <2>2, SparesMoves
<1>8. WeightLight /\ GateLight
  BY <1>6, <1>7
  DEF WeightLight, GateLight, Running, DialogsFit, OnJobs, OnConfig, OnMonitor
<1> QED  BY <1>1, <1>8, WeightFrame, GateFrame DEF Good

LEMMA LogStepKeeps ==
  ASSUME Good, Types', LogStep, ~Overtaking
  PROVE  AloneInv' /\ AliveInv' /\ GateInv' /\ (LogInv => LogInv')
<1>1. Types
  BY DEF Good
<1>2. AloneInv' /\ AliveInv' /\ GateInv'
  BY LogStepAside
<1>3. ASSUME LogInv PROVE LogInv'
  <2>1. CASE PollJob
    BY <1>1, <1>3, <2>1, PollJobLog
  <2>2. ASSUME NEW i \in DOMAIN calls,
               LogFileArrives(i) \/ JobArrives(i) \/ LogsArrive(i)
        PROVE  LogInv'
    BY <1>1, <1>3, <2>2, LogFileArrivesLog, JobArrivesLog, LogsArriveLog
  <2>3. ASSUME NEW i \in DOMAIN calls,
               \/ ReportsJob(i) /\ calls[i].op = "job"
               \/ DrainsLogs(i) \/ ReadsFile(i) \/ FileRead(i)
        PROVE  LogInv'
    BY <1>1, <1>3, <2>3, ReportsJobLog, DrainsLogsLog, ReadsFileLog, FileReadLog
  <2> QED  BY <2>1, <2>2, <2>3 DEF LogStep
<1> QED  BY <1>2, <1>3

-----------------------------------------------------------------------------
(* The invariants hold at the start, and every step keeps them.              *)
LEMMA InitGood == Init => Good /\ LogInv
<1> SUFFICES ASSUME Init PROVE Good /\ LogInv
  OBVIOUS
<1>1. Types
  BY InitTypes
<1>2. /\ DOMAIN calls = {1} /\ calls[1].op = "list" /\ ~alive
      /\ OnJobs /\ ~OnConfig /\ ~OnMonitor
      /\ page.importing = "no" /\ ~page.dialog.open
  BY DEF Init, Call, JobsList, NoDialog, OnJobs, OnConfig, OnMonitor
<1>3. \A i \in DOMAIN calls : calls[i].op \notin Weighty \cup GateOps
  BY <1>2 DEF Weighty, GateOps
<1>4. AloneInv
  BY <1>2, <1>3 DEF AloneInv
<1>5. AliveInv
  BY <1>2 DEF AliveInv
<1>6. GateInv
  <2>1. ~GateShown
    BY <1>2 DEF GateShown, OnConfig
  <2> QED  BY <1>3, <2>1 DEF GateInv, Installing, Asked, Seeded, GateOps
<1> QED  BY <1>1, <1>2, <1>4, <1>5, <1>6 DEF Good, LogInv

LEMMA StepKeeps ==
  ASSUME Good, [Next]_vars, ~Overtaking, Patient
  PROVE  Good' /\ (LogInv => LogInv')
<1> DEFINE Kept == AloneInv' /\ AliveInv' /\ GateInv'
                   /\ (LogInv => LogInv')
<1>1. Types /\ Types' /\ AliveInv
  BY StepTypes DEF Good
<1>2. Light => Kept
  BY <1>1, LightKeeps DEF Keeps
<1>3. Keeps => Kept
  BY DEF Keeps
<1>4. ASSUME JobsUser PROVE Kept
  <2>1. CASE ClickStop \/ ClickDelete \/ OpenJob \/ OpenConfig \/ ClickImport
    BY <1>1, <1>3, <2>1, JobsUserKeeps
  <2>2. CASE \/ \E k \in 1..max.saved : PickCheckpoint(k)
             \/ Refresh \/ ClickPlay \/ OpenImport \/ CloseImport
    <3>1. OnJobs
      BY <2>2 DEF PickCheckpoint, Refresh, ClickPlay, OpenImport, CloseImport,
                  PlayOffered, Uncovered
    <3> QED  BY <1>1, <1>2, <2>2, <3>1, JobsUserLight
  <2> QED  BY <1>4, <2>1, <2>2 DEF JobsUser
<1>5. ASSUME TrainingUser PROVE Kept
  <2>1. CASE \E t \in max.targets : PickTarget(t)
    BY <1>3, <2>1, <1>1, GatedKeep
  <2>2. CASE ChooseDataset \/ ToggleWandb
    BY <1>1, <1>2, <2>2, ConfigLight
  <2>3. CASE GateUser
    BY <1>1, <1>3, <2>3, GateUserKeeps DEF GateUser
  <2>4. CASE ClickStart \/ LeaveConfig
    BY <1>1, <1>3, <2>4, ConfigKeeps
  <2>5. CASE ClickStopRun \/ ClickResume \/ ClickDeleteRun \/ LeaveMonitor
    BY <1>1, <1>3, <2>5, MonitorKeeps
  <2>6. CASE (\E k \in 1..max.saved : PickRun(k)) \/ OpenRun
    BY <1>1, <1>2, <2>6, MonitorLight
  <2> QED  BY <1>5, <2>1, <2>2, <2>3, <2>4, <2>5, <2>6 DEF TrainingUser
<1>6. ASSUME InferenceUser PROVE Kept
  <2>1. CASE ClickRun \/ LeaveInference
    BY <1>1, <1>3, <2>1, InferenceKeeps
  <2>2. CASE \/ \E k \in 1..max.saved : PickStep(k)
             \/ BindCameras \/ CloseDialog
             \/ AskHalt \/ \E yes \in BOOLEAN : AnswerHalt(yes)
    BY <1>1, <1>2, <2>2, InferenceLight
  <2> QED  BY <1>6, <2>1, <2>2 DEF InferenceUser
<1>7. ASSUME NEW i \in DOMAIN calls, JobsCallback(i) PROVE Kept
  BY <1>1, <1>2, <1>3, <1>7, JobsCallbackLight, JobsCallbackKeeps
  DEF JobsCallback
<1>8. ASSUME NEW i \in DOMAIN calls, TrainingCallback(i) PROVE Kept
  <2>1. CASE ExtraArrives(i) \/ WandbArrives(i)
    BY <1>3, <2>1, <1>1, GatedKeep
  <2>2. CASE BusyArrives(i) \/ ClusterArrives(i)
    BY <1>1, <1>2, <2>2, ConfigLight
  <2>3. CASE GateCallback(i)
    BY <1>1, <1>3, <2>3, GateCallbackKeeps
  <2>4. CASE PackageArrives(i) \/ StartArrives(i)
    BY <1>1, <1>3, <2>4, ConfigKeeps
  <2>5. CASE LogFileArrives(i) \/ JobArrives(i) \/ LogsArrive(i)
    BY <1>1, <2>5, LogStepKeeps DEF LogStep
  <2>6. CASE CheckpointsArrive(i)
    BY <1>1, <1>2, <2>6, MonitorLight
  <2>7. CASE StopRunArrives(i) \/ ResumeArrives(i) \/ DeletionArrives(i)
    BY <1>1, <1>3, <2>7, MonitorKeeps
  <2> QED
    BY <1>8, <2>1, <2>2, <2>3, <2>4, <2>5, <2>6, <2>7 DEF TrainingCallback
<1>9. ASSUME NEW i \in DOMAIN calls, InferenceCallback(i) PROVE Kept
  <2>1. CASE PauseOver(i) \/ RunStarted(i) \/ RolloutArrives(i)
    BY <1>1, <1>3, <2>1, InferenceKeeps
  <2>2. CASE DialogSteps(i) \/ ConfigArrives(i) \/ HaltArrives(i)
    BY <1>1, <1>2, <2>2, InferenceLight
  <2> QED  BY <1>9, <2>1, <2>2 DEF InferenceCallback
<1>10. ASSUME NEW i \in DOMAIN calls, Serves(i) PROVE Kept
  <2>1. CASE ListsJobs(i) \/ Looks(i) \/ ReportsRollout(i) \/ StopsRollout(i)
    BY <1>1, <1>2, <2>1, ServerLight
  <2>2. CASE LooksForExtra(i)
    BY <1>1, <1>2, <1>3, <2>2, ServerLight, ConfigKeeps
  <2>3. CASE InstallsExtra(i) \/ ReportsInstall(i)
    BY <1>1, <1>3, <2>3, GateServerKeeps
  <2>4. CASE \/ StartsJob(i) \/ ImportsModel(i) \/ StopsJob(i) \/ StopAnswers(i)
             \/ ResumesJob(i) \/ DeletesJob(i) \/ StartsRollout(i)
    BY <1>1, <1>3, <2>4, JobHandlersKeep
  <2>5. CASE ReportsJob(i)
    BY <1>1, <1>2, <2>5, ServerLight, LogStepKeeps DEF LogStep
  <2>6. CASE DrainsLogs(i) \/ ReadsFile(i) \/ FileRead(i)
    BY <1>1, <2>6, LogStepKeeps DEF LogStep
  <2> QED
    BY <1>10, <2>1, <2>2, <2>3, <2>4, <2>5, <2>6 DEF Serves
<1>11. ASSUME Browser PROVE Kept
  <2>1. CASE Socket \/ PollRollout \/ PollSteps \/ PollCluster \/ MessageArrives
    BY <1>1, <1>2, <2>1, ServerLight, InferenceLight, MonitorLight,
       ConfigLight, JobsCallbackLight
  <2>2. CASE PollInstall
    BY <1>1, <1>3, <2>2, GateUserKeeps
  <2>3. CASE PollJob
    BY <1>1, <2>3, LogStepKeeps DEF LogStep
  <2> QED  BY <1>11, <2>1, <2>2, <2>3 DEF Browser
<1>12. ASSUME Watchdog \/ Process PROVE Kept
  <2>1. CASE WriteLine \/ QueueLine \/ Finalise
    BY <1>1, <2>1, LogGrows
  <2>2. CASE ReportProgress \/ SaveCheckpoint \/ ProcessExits
    BY <1>1, <1>2, <2>2, ServerLight, ProcessLight
  <2> QED  BY <1>12, <2>1, <2>2 DEF Watchdog, Process
<1>13. ASSUME RolloutGoesOn \/ InstallEnds \/ SocketDrops \/ UNCHANGED vars
       PROVE  Kept
  BY <1>1, <1>2, <1>3, <1>13, ServerLight, GateServerKeeps
<1>14. Kept
  BY <1>4, <1>5, <1>6, <1>7, <1>8, <1>9, <1>10, <1>11, <1>12, <1>13
  DEF Next, User, Callback
<1> QED  BY <1>1, <1>14 DEF Good

-----------------------------------------------------------------------------
(* A gate that is shown and has no request under way knows of the            *)
(* installation: it shows one while it runs and offers none then, and says   *)
(* "complete" of nothing else (useInstallExtra.ts: the seed, the polls, and  *)
(* the state that handleInstall sets before the server has the request), for *)
(* a user who lets requests end, on a network that keeps their order.        *)
THEOREM GateIsTruthful ==
  ASSUME ~Overtaking, Patient
  PROVE  Spec => []GateTruthful
<1>1. Good => GateTruthful
  <2> SUFFICES ASSUME Good, GateShown,
                      \A i \in DOMAIN calls :
                        calls[i].op \notin {"seed", "progress", "install"}
               PROVE  /\ pip = "installing" => page.install = "installing"
                      /\ page.install = "installing" => pip # "idle"
                      /\ page.install = "done" => pip = "done"
    BY DEF GateTruthful
  <2>1. Seeded /\ Installing = {}
    BY DEF Seeded, Installing, Asked
  <2>2. Fits(page.install)
    BY <2>1 DEF Good, GateInv
  <2> QED  BY <2>2 DEF Fits, Agrees
<1>2. Init => Good
  BY InitGood
<1>3. Good /\ [Next]_vars => Good'
  BY StepKeeps
<1> QED  BY <1>1, <1>2, <1>3, PTL DEF Spec

(* The page of a training shows the lines of its log in order.  One line may *)
(* be there twice in a row, where the text of the file ends and the queue    *)
(* goes on, and of the lines up to the last the page lacks only those that a *)
(* run's end took with its queue or that were printed between the reading of *)
(* the file and the draining of the queue (server.py, get_job_log_file;      *)
(* Training.tsx: the file is read once, and every later tick appends what    *)
(* has come since), whatever the training prints and when.                   *)
THEOREM LogIsInOrder ==
  ASSUME ~Overtaking, Patient
  PROVE  Spec => []LogInOrder
<1>1. Good /\ LogInv => LogInOrder
  <2> SUFFICES ASSUME Good, LogInv, OnMonitor, job # NoJob
               PROVE  /\ \E n \in 0..Len(page.log) : Seam(page.log, n)
                      /\ \A a \in DOMAIN page.log : \A k \in 1..page.log[a] :
                           k \in lost \/ k \in InRange(page.log)
    BY DEF LogInOrder, Seam, InRange
  <2>1. OrderInv /\ LinesInv
    BY DEF LogInv
  <2>2. CASE Fetching # {}
    <3>1. page.log = <<>>
      BY <2>1, <2>2 DEF OrderInv
    <3> QED  BY <3>1 DEF Seam
  <2>3. CASE Fetching = {}
    <3>1. Covered(page.log, Texts, drained, lost)
      BY <2>1, <2>3 DEF LinesInv
    <3>2. drained \in Nat /\ page.log \in Seq(Nat)
      BY PageIs DEF Good, Types, ServerOK, TabOK, OnMonitor, MonitorState
    <3>3. \A t \in Texts : t \in Seq(Nat)
      <4> SUFFICES ASSUME NEW i \in Fetched
                   PROVE  calls[i].seen.lines \in Seq(Nat)
        BY DEF Texts
      <4>1. calls[i] \in Request /\ calls[i].at = "answered"
        BY Typed DEF Good, Types, Fetched, Own
      <4>2. calls[i].seen \in Replies
        BY <4>1 DEF Request
      <4> QED  BY <4>2 DEF Replies
    <3>4. /\ \E n \in 0..Len(page.log) : Seam(page.log, n)
          /\ \A t \in Texts : \A x \in InRange(page.log) :
               \A y \in InRange(t) : x <= y
          /\ InRange(page.log) \subseteq 1..(drained + 1)
      <4>1. CASE Texts = {}
        <5>1. GoesOn(page.log, drained)
          BY <3>1, <4>1 DEF Covered
        <5>2. 1..drained \subseteq 1..(drained + 1) /\ 0 \in 0..Len(page.log)
          BY <3>2
        <5> QED  BY <4>1, <5>1, <5>2 DEF GoesOn
      <4>2. CASE Texts # {}
        <5>1. \A t \in Texts : GoesOn(page.log \o t, drained)
          BY <3>1 DEF Covered
        <5>2. 1..drained \subseteq 1..(drained + 1)
          BY <3>2
        <5> QED  BY <3>2, <3>3, <4>2, <5>1, <5>2, SeamOfPart
      <4> QED  BY <4>1, <4>2
    <3>5. ASSUME NEW a \in DOMAIN page.log, NEW k \in 1..page.log[a]
          PROVE  k \in lost \/ k \in InRange(page.log)
      <4>1. page.log[a] \in InRange(page.log) /\ page.log[a] \in 1..(drained + 1)
        BY <3>4 DEF InRange
      <4>2. CASE k = page.log[a]
        BY <4>1, <4>2
      <4>3. CASE k # page.log[a]
        <5>1. k \in 1..drained /\ k < page.log[a]
          BY <3>2, <3>5, <4>1, <4>3
        <5>2. ASSUME NEW t \in Texts, k \in InRange(t) PROVE FALSE
          BY <3>4, <4>1, <5>1, <5>2
        <5> QED  BY <3>1, <5>1, <5>2 DEF Covered
      <4> QED  BY <4>2, <4>3
    <3> QED  BY <3>4, <3>5
  <2> QED  BY <2>2, <2>3
<1>2. Init => Good /\ LogInv
  BY InitGood
<1>3. Good /\ LogInv /\ [Next]_vars => (Good /\ LogInv)'
  BY StepKeeps
<1> QED  BY <1>1, <1>2, <1>3, PTL DEF Spec

=============================================================================
