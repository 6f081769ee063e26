---------------------------- MODULE CameraPreview ----------------------------
(***************************************************************************)
(* The browser's side of a camera: hooks/useCameraStream.ts, used by the   *)
(* previews of the recording dialog and the feeds of teleoperation.  The   *)
(* server's OpenCV cannot open a camera that the browser streams.          *)
(***************************************************************************)
EXTENDS RobotDesk

(* A camera preview: one getUserMedia at a time for the current run of its   *)
(* effect, numbered `mine`; a run is over after its cleanup (Dropped).       *)

StreamIds == 1..2
Fresh(st) == {n \in StreamIds : n \notin st.asked \cup st.live \cup {st.mine}}
Asks(st) ==
  /\ Fresh(st) # {}
  /\ LET n == CHOOSE k \in Fresh(st) : \A j \in Fresh(st) : k <= j IN
       streams' = [st EXCEPT !.mine = n, !.asked = @ \cup {n},
                             !.retry = FALSE, !.failed = FALSE]

(* Mutant: what arrives after the cleanup is kept.                           *)
StreamKept(n) ==
  /\ n \in streams.asked
  /\ streams' = [streams EXCEPT !.asked = @ \ {n}, !.live = @ \cup {n}]
  /\ UNCHANGED <<server, calls, tab, index, listed>>

StreamComes(n) ==
  /\ n \in streams.asked
  /\ streams' = [streams EXCEPT !.asked = @ \ {n},
                   !.live = IF n = streams.mine THEN @ \cup {n} ELSE @]
  /\ UNCHANGED <<server, calls, tab, index, listed>>

(* A transient error is retried after a while, any other is shown.           *)
StreamRefused(n) ==
  /\ n \in streams.asked
  /\ LET gone == [streams EXCEPT !.asked = @ \ {n}] IN
       \/ n = streams.mine /\ streams' = [gone EXCEPT !.retry = TRUE]
       \/ n = streams.mine /\ streams' = [gone EXCEPT !.failed = TRUE]
       \/ n # streams.mine /\ streams' = gone
  /\ UNCHANGED <<server, calls, tab, index, listed>>

RetryStream ==
  /\ streams.retry
  /\ streams' = [streams EXCEPT !.retry = FALSE,
                                !.asked = @ \cup {streams.mine}]
  /\ UNCHANGED <<server, calls, tab, index, listed>>

Streams ==
  \/ \E n \in StreamIds : StreamComes(n) \/ StreamRefused(n)
  \/ RetryStream

=============================================================================
