---------------------------- MODULE MCCalibration ----------------------------
(* TLC instances of Calibration: two calibrations with the cameras off, and  *)
(* four in which the user chooses cameras: while a cable moves, twice in a   *)
(* row, off and on again, and over two visits.                               *)
EXTENDS Calibration

Arms == [arms |-> TRUE, runs |-> 2, visits |-> 1,
         scans |-> 0, edits |-> 0, moves |-> 0]
Cams == [arms |-> FALSE, runs |-> 0, visits |-> 1,
         scans |-> 1, edits |-> 1, moves |-> 1]
ArmsOrCams ==
  {Arms, Cams,
   [Cams EXCEPT !.scans = 2, !.edits = 2, !.moves = 0],
   [Cams EXCEPT !.scans = 2, !.edits = 0],
   [Cams EXCEPT !.visits = 2, !.moves = 0]}

=============================================================================
