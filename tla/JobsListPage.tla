---------------------------- MODULE JobsListPage ----------------------------
(***************************************************************************)
(* The list of jobs on the landing page (components/jobs/JobsSection.tsx,  *)
(* JobCard.tsx, ImportModelModal.tsx).  It is fetched when the page is     *)
(* mounted and whenever the websocket says that something has changed;     *)
(* progress is merged into it.                                             *)
(***************************************************************************)
EXTENDS InferencePages

OnJobs == page.at = "jobs"
(* No dialog covers the list.                                                *)
Uncovered == OnJobs /\ ~page.dialog.open /\ page.importing = "no"

(* Another record for the card.  When the number of checkpoints changes the  *)
(* card fetches them, or forgets them.                                       *)
Shows(j, p) ==
  IF j.saved = 0 THEN [p EXCEPT !.job = j, !.steps = 0, !.picked = 0]
  ELSE [p EXCEPT !.job = j]
CardCalls(j, cs) ==
  IF j.saved > 0 /\ j.saved # page.job.saved
  THEN Append(cs, Call("steps", j.saved, mount)) ELSE cs

ListArrives(i) ==
  LET j == calls[i].seen.job IN
  /\ Arrives(i, "list")
  /\ IF ForThisMount(i)
     THEN page' = Shows(j, page) /\ calls' = CardCalls(j, Rest(i))
     ELSE calls' = Rest(i) /\ UNCHANGED page
  /\ UNCHANGED <<job, alive, log, rollout, wire, counts, mount>>

(* The selection is kept if it is still there.                               *)
Pick(p, n) == IF p.picked \in 1..n THEN p.picked ELSE n
StepsArrive(i) ==
  LET n == calls[i].seen.job.saved IN
  /\ OnJobs /\ Arrives(i, "steps")
  /\ calls' = Rest(i)
  /\ page' = IF ForThisMount(i) /\ page.job.saved = calls[i].arg
             THEN [page EXCEPT !.steps = n, !.picked = Pick(page, n)]
             ELSE page
  /\ UNCHANGED <<job, alive, log, rollout, wire, counts, mount>>

(* The row with the checkpoints and the play button.                         *)
PlayOffered == Uncovered /\ page.steps > 0 /\ page.picked # 0

PickCheckpoint(k) ==
  /\ PlayOffered /\ k \in 1..page.steps
  /\ page' = [page EXCEPT !.picked = k]
  /\ UNCHANGED <<job, alive, log, rollout, wire, counts, calls, mount>>

-----------------------------------------------------------------------------
(* The websocket.                                                            *)

(* Mutant: progress does not bring the number of checkpoints.                *)
MessageKeepsCount ==
  LET e == Head(events) IN
  /\ events # <<>> /\ events' = Tail(events)
  /\ IF e.type = "changed"
     THEN calls' = Sent("list", 0) /\ UNCHANGED page
     ELSE /\ page' = IF page.job.state = "none" THEN page
                     ELSE [page EXCEPT !.job.state = e.job.state]
          /\ UNCHANGED calls
  /\ UNCHANGED <<job, alive, log, rollout, socket, missed, drops, counts,
                 mount>>

(* "changed" fetches the list; progress is for cards that are there.         *)
MessageArrives ==
  LET e == Head(events)
      j == [page.job EXCEPT !.state = e.job.state, !.saved = e.job.saved] IN
  /\ events # <<>> /\ events' = Tail(events)
  /\ CASE e.type = "changed" ->
            calls' = Sent("list", 0) /\ UNCHANGED page
       [] e.type = "progress" /\ page.job # NoJob ->
            page' = Shows(j, page) /\ calls' = CardCalls(j, calls)
       [] OTHER -> UNCHANGED <<calls, page>>
  /\ UNCHANGED <<job, alive, log, rollout, socket, missed, drops, counts,
                 mount>>

(* The button, or the tab gets the focus or is shown again.                  *)
Refresh ==
  /\ OnJobs /\ Settled
  /\ Sends("list", 0)
  /\ UNCHANGED <<job, alive, log, rollout, wire, counts, tab>>

-----------------------------------------------------------------------------
(* The card and its button, which a cloud job's has until its page on the    *)
(* Hub is known.                                                             *)

CardShown == Uncovered /\ page.job # NoJob
CardRunning == page.job.state = "running"
CardOpens == CardShown /\ page.job.runner # Imported

ClickStop ==
  /\ CardShown /\ Settled /\ CardRunning
  /\ Sends("stop-card", 0)
  /\ UNCHANGED <<job, alive, log, rollout, wire, counts, tab>>

ClickDelete ==
  /\ CardShown /\ Settled /\ ~CardRunning
  /\ Sends("delete-card", 0)
  /\ UNCHANGED <<job, alive, log, rollout, wire, counts, tab>>

(* Either one that succeeds is followed by a refresh.                        *)
ListActionArrives(i) ==
  /\ Arrives(i, "stop-card") \/ Arrives(i, "delete-card")
  /\ calls' = IF calls[i].ok
              THEN Append(Rest(i), Call("list", 0, calls[i].mount))
              ELSE Rest(i)
  /\ UNCHANGED <<job, alive, log, rollout, wire, counts, tab>>

(* onPlay: the step counts only when the dialog is mounted for the first     *)
(* time.                                                                     *)
ClickPlay ==
  /\ PlayOffered /\ Settled
  /\ runs < max.runs
  /\ LET d == page.dialog
         e == IF d.mounted THEN d ELSE [d EXCEPT !.step = page.picked] IN
       /\ page' = [page EXCEPT !.dialog = Opened(e)]
       /\ calls' = OpeningCalls(e, calls)
  /\ UNCHANGED <<job, alive, log, rollout, wire, counts, mount>>

OpenJob ==
  /\ CardOpens /\ Settled
  /\ Opens(Monitor, calls)
  /\ UNCHANGED <<job, alive, log, rollout, counts>>

(* There is one job at a time in the model: a bound.                         *)
OpenConfig ==
  /\ Uncovered /\ Settled /\ job = NoJob /\ work < max.work
  /\ Opens(Config, calls)
  /\ UNCHANGED <<job, alive, log, rollout, counts>>

-----------------------------------------------------------------------------
(* The import dialog.                                                        *)

OpenImport ==
  /\ Uncovered /\ Settled /\ job = NoJob /\ work < max.work
  /\ page' = [page EXCEPT !.importing = "open"]
  /\ UNCHANGED <<job, alive, log, rollout, wire, counts, calls, mount>>

ImportOffered == OnJobs /\ page.importing = "open"

ClickImport ==
  /\ ImportOffered /\ Works
  /\ Sends("import", 0)
  /\ page' = [page EXCEPT !.importing = "busy"]
  /\ UNCHANGED <<job, alive, log, rollout, wire, mount>>

ImportArrives(i) ==
  /\ Arrives(i, "import")
  /\ calls' = IF calls[i].ok
              THEN Append(Rest(i), Call("list", 0, calls[i].mount))
              ELSE Rest(i)
  /\ page' = IF ForThisMount(i)
             THEN [page EXCEPT !.importing = IF calls[i].ok THEN "no"
                                             ELSE "open"]
             ELSE page
  /\ UNCHANGED <<job, alive, log, rollout, wire, counts, mount>>

CloseImport ==
  /\ OnJobs /\ page.importing # "no" /\ Settled
  /\ page' = [page EXCEPT !.importing = "no"]
  /\ UNCHANGED <<job, alive, log, rollout, wire, counts, calls, mount>>

-----------------------------------------------------------------------------
JobsUser ==
  \/ \E k \in 1..max.saved : PickCheckpoint(k)
  \/ Refresh \/ ClickStop \/ ClickDelete \/ ClickPlay
  \/ OpenJob \/ OpenConfig \/ OpenImport \/ ClickImport \/ CloseImport

JobsCallback(i) ==
  \/ ListArrives(i) \/ StepsArrive(i) \/ ListActionArrives(i)
  \/ ImportArrives(i)

=============================================================================
