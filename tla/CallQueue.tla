------------------------------ MODULE CallQueue ------------------------------
(***************************************************************************)
(* What a rate limiter promises to its callers, whatever it does with      *)
(* time: callers are let in one after another in the order they came, and  *)
(* everybody who waits is let in.  TokenBucket (llm/rate_limiter.py)       *)
(* implements it; each model of GeminiClient (llm/client.py) relies on it. *)
(***************************************************************************)
EXTENDS Sequences

CONSTANT Callers

VARIABLES
  queue,      \* who waits to be let in, first come first
  admitted    \* who was let in and has not left

vars == <<queue, admitted>>

Waiting == {queue[i] : i \in DOMAIN queue}
Outside == Callers \ (Waiting \cup admitted)

Init == queue = <<>> /\ admitted = {}

Join(c) ==
  /\ c \in Outside
  /\ queue' = Append(queue, c)
  /\ UNCHANGED admitted

(* With nobody before it a caller may be let in without waiting.           *)
WalkIn(c) ==
  /\ c \in Outside
  /\ queue = <<>>
  /\ admitted' = admitted \cup {c}
  /\ UNCHANGED queue

Admit ==
  /\ queue # <<>>
  /\ admitted' = admitted \cup {Head(queue)}
  /\ queue' = Tail(queue)

Leave(c) ==
  /\ c \in admitted
  /\ admitted' = admitted \ {c}
  /\ UNCHANGED queue

Next == Admit \/ \E c \in Callers : Join(c) \/ WalkIn(c) \/ Leave(c)

(* First come, first served; and nobody waits for ever.                    *)
Order == Init /\ [][Next]_vars
Spec  == Order /\ WF_vars(Admit)
=============================================================================
