----------------------------- MODULE UploadPage -----------------------------
(***************************************************************************)
(* The upload page (frontend/src/pages/Upload.tsx).                        *)
(***************************************************************************)
EXTENDS RobotDesk

OnUpload == page.at = "upload" /\ page.loaded

(* With what the server knows of the dataset, or with what the page was      *)
(* given.                                                                    *)
InfoArrives(i) ==
  /\ Arrives(i, "info")
  /\ calls' = Rest(i)
  /\ page' = IF ForThisMount(i) THEN [page EXCEPT !.loaded = TRUE] ELSE page
  /\ UNCHANGED <<server, mount, stored, notice, clicks, cameras>>

(* Not what is on the Hub already, and once at a time.                       *)
UploadOffered ==
  OnUpload /\ ~page.uploaded /\ ~page.onHub /\ "upload" \notin page.busy

ClickUpload ==
  /\ UploadOffered /\ ~page.confirm /\ Rested
  /\ Sends("upload", page.dataset)
  /\ page' = [page EXCEPT !.busy = @ \cup {"upload"}]
  /\ UNCHANGED <<server, mount, stored, notice, clicks, cameras>>

UploadArrives(i) ==
  /\ Arrives(i, "upload")
  /\ calls' = Rest(i)
  /\ page' = IF ForThisMount(i)
             THEN [page EXCEPT !.busy = @ \ {"upload"},
                               !.uploaded = @ \/ calls[i].ok]
             ELSE page
  /\ UNCHANGED <<server, mount, stored, notice, clicks, cameras>>

(* The delete button is not disabled by an upload.                           *)
AskDelete ==
  /\ OnUpload /\ ~page.confirm /\ Rested
  /\ "discard" \notin page.busy
  /\ page' = [page EXCEPT !.confirm = TRUE]
  /\ UNCHANGED <<server, calls, mount, stored, notice, clicks, cameras>>

DeleteAsked == OnUpload /\ page.confirm

AnswerDelete(yes) ==
  /\ DeleteAsked
  /\ IF yes
     THEN /\ Sends("discard", page.dataset)
          /\ page' = [page EXCEPT !.confirm = FALSE,
                                  !.busy = @ \cup {"discard"}]
     ELSE /\ page' = [page EXCEPT !.confirm = FALSE]
          /\ UNCHANGED calls
  /\ UNCHANGED <<server, mount, stored, notice, clicks, cameras>>

(* A deletion that succeeded leads home from wherever the tab is.            *)
DiscardArrives(i) ==
  /\ Arrives(i, "discard")
  /\ IF calls[i].ok THEN GoesHome(Rest(i))
     ELSE /\ calls' = Rest(i)
          /\ page' = IF ForThisMount(i)
                     THEN [page EXCEPT !.busy = @ \ {"discard"},
                                       !.confirm = FALSE]
                     ELSE page
          /\ UNCHANGED <<mount, streams>>
  /\ UNCHANGED <<server, stored, notice, clicks, index, listed>>

(* "Back to Home", and "Skip Upload" unless an upload is under way.          *)
LeaveUpload ==
  /\ OnUpload /\ ~page.confirm /\ Settled
  /\ Opens(Landing, calls)
  /\ UNCHANGED <<server, stored, notice, clicks, index, listed>>

SkipUpload == UploadOffered /\ LeaveUpload

(* "Start Training".                                                         *)
TrainingOffered == OnUpload /\ page.uploaded

GoToTraining ==
  /\ TrainingOffered /\ ~page.confirm /\ Settled
  /\ Opens(Elsewhere, calls)
  /\ UNCHANGED <<server, stored, notice, clicks, index, listed>>

-----------------------------------------------------------------------------
UploadUser ==
  \/ ClickUpload \/ AskDelete \/ LeaveUpload \/ SkipUpload
  \/ GoToTraining
  \/ \E yes \in BOOLEAN : AnswerDelete(yes)

UploadCallback(i) == InfoArrives(i) \/ UploadArrives(i) \/ DiscardArrives(i)

=============================================================================
