----------------------------- MODULE TokenBucket -----------------------------
(***************************************************************************)
(* The token bucket of one model (llm/rate_limiter.py) and its callers.    *)
(*                                                                         *)
(* Time is counted in ticks.  A token takes Cost ticks to come back, so a  *)
(* bucket for Rate calls a minute is full after Full ticks, which is the   *)
(* minute, and its level is counted in ticks too: nothing is rounded.  The *)
(* code refills lazily, from the time of the last look; capping twice is   *)
(* capping once, so the level is kept up to date by Tick.  acquire holds   *)
(* an asyncio.Lock, which is first come first served, while it sleeps.     *)
(*                                                                         *)
(* An operator named Foo_Bar is Foo with a bug the code could have.  No    *)
(* specification uses it; it is what a property is tried against.          *)
(***************************************************************************)
EXTENDS Integers, Sequences, FiniteSets

CONSTANTS
  Callers,   \* tasks that call the model
  Rate,      \* calls a minute (RPM_LIMITS)
  Cost,      \* ticks until one token is back
  Early      \* ticks by which a timer may fire too soon

ASSUME BucketAssumption ==
  /\ Rate \in Nat \ {0}
  /\ Cost \in Nat \ {0}
  /\ Early \in Nat

VARIABLES
  level,     \* tokens, in ticks
  holder,    \* who holds the lock (at most one caller)
  sleep,     \* ticks the holder still sleeps
  waiters,   \* who waits for the lock, in order
  calling,   \* who has a token and makes its call
  ages       \* history: how long ago the latest calls were let in, in order

vars == <<level, holder, sleep, waiters, calling, ages>>

Full    == Rate * Cost
History == 2 * Rate      \* bound: calls remembered

Waiting == holder \cup {waiters[i] : i \in DOMAIN waiters}

-----------------------------------------------------------------------------
Older(age) == IF age = Full THEN Full ELSE age + 1

Remember(s) == Append(IF Len(s) = History THEN Tail(s) ELSE s, 0)

(* try_acquire: the token is taken if it is there.                         *)
Available_Optimistic == level + Early >= Cost
Available == level >= Cost

Take(c) ==
  /\ level' = level - Cost
  /\ calling' = calling \cup {c}
  /\ ages' = Remember(ages)

(* time_until_available, and the sleep.                                    *)
FallAsleep(c) ==
  /\ holder' = {c}
  /\ sleep' = Cost - level
  /\ UNCHANGED <<level, calling, ages>>

(* The lock is c's: it takes a token and gives the lock back, or sleeps.   *)
Try(c) ==
  \/ Available  /\ Take(c) /\ holder' = {} /\ sleep' = 0
  \/ ~Available /\ FallAsleep(c)

(* acquire: a free lock that nobody waits for is taken at once.            *)
InLine_First(c) == <<c>> \o waiters
InLine(c) == Append(waiters, c)

Busy == holder # {} \/ waiters # <<>>

Acquire(c) ==
  /\ c \notin Waiting \cup calling
  /\ \/ /\ Busy
        /\ waiters' = InLine(c)
        /\ UNCHANGED <<level, holder, sleep, calling, ages>>
     \/ ~Busy /\ Try(c) /\ UNCHANGED waiters

(* The lock was given back: its first waiter gets it.                      *)
GetLock ==
  /\ holder = {}
  /\ waiters # <<>>
  /\ Try(Head(waiters))
  /\ waiters' = Tail(waiters)

(* The sleep is over, give or take the timer's resolution: try again.      *)
WakeUp ==
  /\ \E c \in holder : sleep <= Early /\ Try(c)
  /\ UNCHANGED waiters

Leave(c) ==
  /\ c \in calling
  /\ calling' = calling \ {c}
  /\ UNCHANGED <<level, holder, sleep, waiters, ages>>

Refilled_Uncapped == level + 1
Refilled == IF level = Full THEN Full ELSE level + 1

Tick ==
  /\ level' = Refilled
  /\ sleep' = IF sleep = 0 THEN 0 ELSE sleep - 1
  /\ ages' = [i \in DOMAIN ages |-> Older(ages[i])]
  /\ UNCHANGED <<holder, waiters, calling>>

Init ==
  /\ level = Full
  /\ holder = {}
  /\ sleep = 0
  /\ waiters = <<>>
  /\ calling = {}
  /\ ages = <<>>

Next == Tick \/ GetLock \/ WakeUp \/ \E c \in Callers : Acquire(c) \/ Leave(c)

Spec == Init /\ [][Next]_vars

(* Time goes on, timers fire, and the event loop runs who can run.         *)
FairSpec == Spec /\ WF_vars(Tick) /\ WF_vars(GetLock) /\ WF_vars(WakeUp)

-----------------------------------------------------------------------------
TypeOK ==
  /\ level \in 0..Full
  /\ holder \in SUBSET Callers
  /\ sleep \in 0..Cost
  /\ waiters \in Seq(Callers)
  /\ calling \in SUBSET Callers
  /\ ages \in Seq(0..Full)

(* A full bucket and what is refilled meanwhile: fewer than twice the      *)
(* ceiling of calls within any minute, however many callers there are and  *)
(* however their timers fire (try_acquire, acquire).                       *)
WindowBounded == Len(ages) = History => ages[1] = Full

(* The bucket is a fair queue: first come first served, and nobody waits   *)
(* for ever (the lock of acquire, held over the sleep).                    *)
Queue == INSTANCE CallQueue WITH
  queue    <- IF holder = {} THEN waiters ELSE <<CHOOSE c \in holder : TRUE>> \o waiters,
  admitted <- calling
ImplementsCallQueue == Queue!Spec
=============================================================================
