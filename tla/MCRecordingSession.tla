-------------------------- MODULE MCRecordingSession --------------------------
(* TLC instances of RecordingSession.                                        *)
EXTENDS RecordingSession

CONSTANTS r1, r2

=============================================================================
