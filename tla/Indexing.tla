------------------------------ MODULE Indexing ------------------------------
(***************************************************************************)
(* Lookups on sorted arrays of timestamps, robot_data/align/indexing.py.   *)
(* Which frame, joint sample or command belongs to a tick is always one of *)
(* these.  Positions count from 1, as sequences do.                        *)
(***************************************************************************)
EXTENDS Integers, Sequences, FiniteSets

Sorted(s) == \A i, j \in DOMAIN s : i <= j => s[i] <= s[j]

(* numpy.searchsorted: how many entries lie left of t.                       *)
SearchLeft(s, t) == Cardinality({i \in DOMAIN s : s[i] < t})
SearchRight(s, t) == Cardinality({i \in DOMAIN s : s[i] <= t})

(* numpy.clip of a position to those of s.                                   *)
Clip(i, s) == IF i < 1 THEN 1 ELSE IF i > Len(s) THEN Len(s) ELSE i

Distance(a, b) == IF a <= b THEN b - a ELSE a - b

(* nearest_indices                                                           *)
NearestAt(s, t) ==
  LET right == Clip(SearchLeft(s, t) + 1, s)
      left == Clip(right - 1, s)
  IN IF Distance(s[right], t) < Distance(s[left], t) THEN right ELSE left

(* Mutant: the position is not moved back by one.                            *)
PreviousAtShifted(s, t) == Clip(SearchRight(s, t) + 1, s)

(* previous_indices, and its valid                                           *)
PreviousAt(s, t) == Clip(SearchRight(s, t), s)
HasPrevious(s, t) == SearchRight(s, t) >= 1

(* next_indices, and its valid                                               *)
NextAt(s, t) == Clip(SearchLeft(s, t) + 1, s)
HasNext(s, t) == SearchLeft(s, t) < Len(s)

(* The valid of interpolate: t is met exactly, or both neighbours are close. *)
Interpolable(s, t, tolerance) ==
  LET right == SearchLeft(s, t) + 1 IN
  /\ right <= Len(s)
  /\ \/ s[right] = t
     \/ /\ right > 1
        /\ t - s[right - 1] <= tolerance
        /\ s[right] - t <= tolerance

=============================================================================
