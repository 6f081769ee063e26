--------------------------- MODULE MCRobotSessions ---------------------------
(* TLC instances of RobotSessions: one client with three sessions, two       *)
(* clients with two.                                                         *)
EXTENDS RobotSessions

CONSTANTS tab, script

OneClient == {[clients |-> {tab}, sessions |-> 3]}
TwoClients == {[clients |-> {tab, script}, sessions |-> 2]}
OneOrTwo == OneClient \cup TwoClients

=============================================================================
