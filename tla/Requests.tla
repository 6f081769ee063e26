------------------------------ MODULE Requests ------------------------------
(***************************************************************************)
(* Requests of a browser tab and their callbacks.  One page is mounted at  *)
(* a time; a mount has a number, by which callbacks of an earlier one are  *)
(* told apart.  A request or a timer is an element of `calls` from the     *)
(* moment it is sent until its callback has run.                           *)
(***************************************************************************)
EXTENDS Subsequences, SequencesExt, TLC

CONSTANTS
  MaxCalls,   \* bound: requests and timers under way
  Overtaking  \* whether requests and answers overtake each other

ASSUME RequestsAssumption == MaxCalls \in Nat \ {0} /\ Overtaking \in BOOLEAN

VARIABLES
  calls,  \* requests and timers under way
  mount   \* the number of the mounted page

Call(op, arg, of) ==
  [op |-> op, arg |-> arg, mount |-> of, at |-> "sent", ok |-> FALSE,
   seen |-> "nothing"]
Sent(op, arg) == Append(calls, Call(op, arg, mount))
Sends(op, arg) == Len(calls) < MaxCalls /\ calls' = Sent(op, arg)
Pending(op) == \E i \in DOMAIN calls : calls[i].op = op

(* The server begins to handle a request.  One that is "reading" is in the   *)
(* middle of a file.                                                         *)
Begins(i, op) ==
  /\ calls[i].op = op /\ calls[i].at = "sent"
  /\ Overtaking \/ \A j \in 1..(i - 1) : calls[j].at \notin {"sent", "reading"}
Answers(i, ok, seen) ==
  calls' = Append(RemoveAt(calls, i),
                  [calls[i] EXCEPT !.at = "answered", !.ok = ok,
                                   !.seen = seen])

(* The answer to a tab that has been reloaded reaches nobody (mount 0).      *)
Arrives(i, op) ==
  /\ calls[i].op = op /\ calls[i].at = "answered" /\ calls[i].mount # 0
  /\ Overtaking \/ \A j \in 1..(i - 1) : calls[j].at # "answered"

ForThisMount(i) == calls[i].mount = mount
Rest(i) == RemoveAt(calls, i)

(* A number that no callback under way has.                                  *)
FreshMount(cs) ==
  CHOOSE m \in 1..(Len(cs) + 1) :
    /\ \A i \in DOMAIN cs : cs[i].mount # m
    /\ \A k \in 1..(m - 1) : \E i \in DOMAIN cs : cs[i].mount = k

=============================================================================
