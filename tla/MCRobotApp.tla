------------------------------ MODULE MCRobotApp ------------------------------
(* The robot pages on a small instance.                                      *)
EXTENDS RobotApp

=============================================================================
