----------------------------- MODULE MCAlignment -----------------------------
(* TLC instance of Alignment: a bag of seven instants, recorded at half the  *)
(* control rate of its clock.                                                *)
EXTENDS Alignment

CONSTANTS top, leftArm, rightArm, gripper

(* The sorted sequences of up to n of the instants of T.                     *)
Streams(T, n) ==
  {s \in UNION {[1..k -> T] : k \in 0..n} :
     \A i, j \in DOMAIN s : i < j => s[i] < s[j]}

(* Even, late, with a missing frame.                                         *)
Frames == {<<0, 2, 4, 6>>, <<1, 3, 5>>, <<0, 2, 6>>, <<>>}
Samples == {<<0, 1, 2, 3, 4, 5, 6>>, <<1, 2, 5>>}

MCRecordings ==
  { [image |-> [c \in {top} |-> frames], joints |-> joints,
     command |-> [a \in {leftArm, rightArm} |-> IF a = leftArm THEN l ELSE r],
     effector |-> [e \in {gripper} |-> command],
     measured |-> [e \in {gripper} |-> state]] :
    frames \in Frames, joints \in Samples,
    l \in Streams({1, 2, 4, 5}, 3),
    r \in {<<>>, <<1, 3, 6>>, <<5, 6>>},
    command \in {<<>>, <<0, 3>>, <<1, 5>>},
    state \in {<<>>, <<0, 2, 3, 6>>} }

MCConfigs == {c \in Config : Accepted(c)}

=============================================================================
