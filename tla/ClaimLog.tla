-------------------------------- MODULE ClaimLog --------------------------------
(***************************************************************************)
(* What the store promises of one claim (persistence/store.py): a log of   *)
(* transitions and the claim as their projection, written as one.  No step *)
(* takes back a transition, reorders the log, or shows a claim the log     *)
(* does not end in.                                                        *)
(***************************************************************************)
EXTENDS Sequences

CONSTANT State   \* the states a claim can be in

Absent == "ABSENT"

VARIABLES log, projection

vars == <<log, projection>>

Init == log = <<>> /\ projection = Absent

(* commit_transition: the event is the transition.                         *)
CommitTransition(s) == log' = Append(log, s) /\ projection' = s

Next == \E s \in State : CommitTransition(s)

Spec == Init /\ [][Next]_vars
=============================================================================
