--------------------------- MODULE InferencePages ---------------------------
(***************************************************************************)
(* The dialog that starts a checkpoint on the robot                        *)
(* (components/landing/InferenceModal.tsx), opened from the list of jobs   *)
(* or from a training's page, and the page that follows the run            *)
(* (pages/Inference.tsx).  The robot is selected and calibrated.           *)
(***************************************************************************)
EXTENDS JobDesk

HasDialog == page.at \in {"jobs", "monitor"}
DialogOpen == HasDialog /\ page.dialog.open

(* The effects of opening: the checkpoints, and the configuration of the     *)
(* step if there is one.                                                     *)
Opened(d) == [d EXCEPT !.open = TRUE, !.mounted = TRUE]
OpeningCalls(d, cs) ==
  LET listed == Append(cs, Call("dialog-steps", 0, mount)) IN
  IF d.step = 0 THEN listed
  ELSE Append(listed, Call("config", d.step, mount))

(* The first checkpoints select the latest one, which asks for its           *)
(* configuration.                                                            *)
DialogSteps(i) ==
  LET n == calls[i].seen.job.saved
      first == page.dialog.step = 0 /\ n > 0 IN
  /\ Arrives(i, "dialog-steps")
  /\ IF ForThisMount(i) /\ page.dialog.open
     THEN /\ page' = [page EXCEPT !.dialog.steps = n,
                        !.dialog.step = IF first THEN n ELSE @]
          /\ calls' = IF first THEN Append(Rest(i), Call("config", n, mount))
                      ELSE Rest(i)
     ELSE calls' = Rest(i) /\ UNCHANGED page
  /\ UNCHANGED <<job, alive, log, rollout, wire, counts, mount>>

(* The configuration of another step shows until this one comes.             *)
StepOffered(k) == DialogOpen /\ k \in 1..page.dialog.steps

PickStep(k) ==
  /\ StepOffered(k) /\ k # page.dialog.step
  /\ Sends("config", k)
  /\ page' = [page EXCEPT !.dialog.step = k]
  /\ UNCHANGED <<job, alive, log, rollout, wire, counts, mount>>

(* The robot's cameras of the expected names are bound by themselves, if     *)
(* they are plugged in.                                                      *)
ConfigArrives(i) ==
  /\ Arrives(i, "config")
  /\ calls' = Rest(i)
  /\ IF ForThisMount(i) /\ page.dialog.open /\ page.dialog.step = calls[i].arg
     THEN \E found \in BOOLEAN :
            page' = [page EXCEPT
                       !.dialog.config = IF calls[i].ok THEN calls[i].arg
                                         ELSE 0,
                       !.dialog.bound = @ \/ found]
     ELSE UNCHANGED page
  /\ UNCHANGED <<job, alive, log, rollout, wire, counts, mount>>

(* What the policy asks for: a camera of every name, perhaps a task.         *)
BindOffered == DialogOpen /\ page.dialog.config # 0

BindCameras ==
  /\ BindOffered /\ ~page.dialog.bound
  /\ page' = [page EXCEPT !.dialog.bound = TRUE]
  /\ UNCHANGED <<job, alive, log, rollout, wire, counts, calls, mount>>

(* The configuration goes, the rest stays for the next time.  A start that   *)
(* is under way goes on.                                                     *)
CloseDialog ==
  /\ DialogOpen /\ Settled
  /\ page' = [page EXCEPT !.dialog.open = FALSE, !.dialog.config = 0]
  /\ UNCHANGED <<job, alive, log, rollout, wire, counts, calls, mount>>

CanStart ==
  /\ DialogOpen
  /\ page.dialog.step \in 1..page.dialog.steps
  /\ page.dialog.config # 0 /\ page.dialog.bound /\ ~page.dialog.busy

(* handleStart: the previews let go of the cameras for 300 ms, then the run  *)
(* is asked for.                                                             *)
ClickRun ==
  /\ CanStart /\ Settled /\ Runs
  /\ Len(calls) < MaxCalls
  /\ calls' = Append(calls, [Call("pause", page.dialog.step, mount)
                               EXCEPT !.at = "waiting"])
  /\ page' = [page EXCEPT !.dialog.busy = TRUE]
  /\ UNCHANGED <<job, alive, log, rollout, wire, mount>>
PauseOver(i) ==
  /\ calls[i].op = "pause"
  /\ calls' = Append(Rest(i), Call("infer", calls[i].arg, calls[i].mount))
  /\ UNCHANGED <<job, alive, log, rollout, wire, counts, tab>>

(* From whatever page the tab is on by now.                                  *)
RunStarted(i) ==
  /\ Arrives(i, "infer")
  /\ IF calls[i].ok THEN GoesTo(Inference, Rest(i))
     ELSE /\ calls' = Rest(i)
          /\ page' = IF ForThisMount(i)
                     THEN [page EXCEPT !.dialog.busy = FALSE] ELSE page
          /\ UNCHANGED <<mount, wire>>
  /\ UNCHANGED <<job, alive, log, rollout, counts>>

-----------------------------------------------------------------------------
(* The inference page.                                                       *)

OnInference == page.at = "inference"
Active(r) == r # "off" /\ r # "exited"

(* Once a second; an answer takes less.                                      *)
PollRollout ==
  /\ OnInference /\ ~Pending("rollout")
  /\ calls' = Sent("rollout", 0)
  /\ UNCHANGED <<job, alive, log, rollout, wire, counts, tab>>

(* A tick: what is over leads home, once; a run past its time by ten         *)
(* seconds is stopped, once.  `leaves` says what the stop does to the flag   *)
(* of the first.                                                             *)
Follows(i, leaves) ==
  LET r == calls[i].seen.rollout
      hung == r = "overdue" /\ ~page.asked IN
  /\ Arrives(i, "rollout")
  /\ CASE ~ForThisMount(i) ->
            calls' = Rest(i) /\ UNCHANGED <<mount, page, wire>>
       [] ForThisMount(i) /\ ~Active(r) /\ ~page.left ->
            Opens(JobsList, Rest(i))
       [] OTHER ->
            /\ page' = [page EXCEPT !.shown = r, !.asked = @ \/ hung,
                                    !.left = @ \/ (hung /\ leaves)]
            /\ calls' = IF hung THEN Append(Rest(i), Call("halt", 0, mount))
                        ELSE Rest(i)
            /\ UNCHANGED <<mount, wire>>
  /\ UNCHANGED <<job, alive, log, rollout, counts>>

(* Mutant: the safety net takes the page for left.                           *)
RolloutLeft(i) == Follows(i, TRUE)

RolloutArrives(i) == Follows(i, FALSE)

Known == OnInference /\ page.shown # "nothing"
HaltOffered == Known /\ Active(page.shown)

AskHalt ==
  /\ HaltOffered /\ ~page.confirm
  /\ page' = [page EXCEPT !.confirm = TRUE]
  /\ UNCHANGED <<job, alive, log, rollout, wire, counts, calls, mount>>
HaltAsked == OnInference /\ page.confirm
AnswerHalt(yes) ==
  /\ HaltAsked
  /\ page' = [page EXCEPT !.confirm = FALSE]
  /\ IF yes THEN Sends("halt", 0) ELSE UNCHANGED calls
  /\ UNCHANGED <<job, alive, log, rollout, wire, counts, mount>>

(* A toast if it failed; the next status shows the rest.                     *)
HaltArrives(i) ==
  /\ Arrives(i, "halt")
  /\ calls' = Rest(i)
  /\ UNCHANGED <<job, alive, log, rollout, wire, counts, tab>>

(* The run goes on without the page, and nobody else asks for its status.    *)
LeaveInference ==
  /\ Known /\ ~page.confirm /\ Settled
  /\ Opens(JobsList, calls)
  /\ UNCHANGED <<job, alive, log, rollout, counts>>

-----------------------------------------------------------------------------
InferenceUser ==
  \/ \E k \in 1..max.saved : PickStep(k)
  \/ BindCameras \/ CloseDialog \/ ClickRun
  \/ AskHalt \/ (\E yes \in BOOLEAN : AnswerHalt(yes)) \/ LeaveInference

InferenceCallback(i) ==
  \/ DialogSteps(i) \/ ConfigArrives(i) \/ PauseOver(i) \/ RunStarted(i)
  \/ RolloutArrives(i) \/ HaltArrives(i)

=============================================================================
