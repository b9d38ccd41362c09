-------------------------- MODULE TokenBucketProofs --------------------------
(***************************************************************************)
(* However many callers there are, whatever the rate and however their     *)
(* timers fire, the bucket lets fewer than twice Rate calls in within any  *)
(* Full ticks, and lets its callers in in the order they came.             *)
(***************************************************************************)
EXTENDS TokenBucket, TLAPS

-----------------------------------------------------------------------------
(* Type correctness.                                                       *)

LEMMA FullIsNat == Full \in Nat /\ Cost <= Full /\ History \in Nat \ {0}
  BY BucketAssumption DEF Full, History

(* The history stays a sequence of ages no longer than History.            *)
AgesOK == ages \in Seq(0..Full) /\ Len(ages) <= History

TypeInv == TypeOK /\ AgesOK

LEMMA RememberType ==
  ASSUME TypeInv
  PROVE  /\ Remember(ages) \in Seq(0..Full)
         /\ Len(Remember(ages)) <= History
<1>1. ages \in Seq(0..Full) /\ Len(ages) <= History /\ 0 \in 0..Full
  BY FullIsNat DEF TypeInv, AgesOK
<1>2. CASE Len(ages) = History
  <2>1. Tail(ages) \in Seq(0..Full) /\ Len(Tail(ages)) = Len(ages) - 1
    BY <1>1, <1>2, FullIsNat
  <2> QED BY <1>1, <1>2, <2>1, FullIsNat DEF Remember
<1>3. CASE Len(ages) # History
  BY <1>1, <1>3, FullIsNat DEF Remember
<1> QED BY <1>2, <1>3

LEMMA TryType ==
  ASSUME TypeInv, NEW c \in Callers, Try(c), waiters' \in Seq(Callers)
  PROVE  TypeInv'
<1>1. CASE Available /\ Take(c) /\ holder' = {} /\ sleep' = 0
  BY <1>1, RememberType, FullIsNat, BucketAssumption
  DEF Available, Take, TypeInv, TypeOK, AgesOK, Full
<1>2. CASE ~Available /\ FallAsleep(c)
  <2>1. sleep' \in 0..Cost
    BY <1>2, BucketAssumption, FullIsNat DEF Available, FallAsleep, TypeInv, TypeOK
  <2> QED BY <1>2, <2>1 DEF FallAsleep, TypeInv, TypeOK, AgesOK, Full, History
<1> QED BY <1>1, <1>2 DEF Try

LEMMA TickType ==
  ASSUME TypeInv, Tick
  PROVE  TypeInv'
<1>1. level' \in 0..Full /\ sleep' \in 0..Cost
  BY FullIsNat, BucketAssumption DEF TypeInv, TypeOK, Tick, Refilled
<1>2. ages' \in Seq(0..Full) /\ Len(ages') = Len(ages)
  BY FullIsNat DEF TypeInv, TypeOK, AgesOK, Tick, Older
<1> QED BY <1>1, <1>2 DEF TypeInv, TypeOK, AgesOK, Tick, Full, History

LEMMA TypeStep ==
  ASSUME TypeInv, [Next]_vars
  PROVE  TypeInv'
<1>1. CASE Tick
  BY <1>1, TickType
<1>2. CASE GetLock
  <2>1. Head(waiters) \in Callers /\ Tail(waiters) \in Seq(Callers)
    BY <1>2 DEF GetLock, TypeInv, TypeOK
  <2> QED BY <1>2, <2>1, TryType DEF GetLock
<1>3. CASE WakeUp
  BY <1>3, TryType DEF WakeUp, TypeInv, TypeOK
<1>4. ASSUME NEW c \in Callers, Acquire(c)
      PROVE  TypeInv'
  <2>1. CASE ~Busy /\ Try(c) /\ UNCHANGED waiters
    BY <2>1, TryType DEF TypeInv, TypeOK
  <2>2. CASE Busy /\ waiters' = InLine(c) /\ UNCHANGED <<level, holder, sleep, calling, ages>>
    BY <2>2 DEF InLine, TypeInv, TypeOK, AgesOK, Full, History
  <2> QED BY <1>4, <2>1, <2>2 DEF Acquire
<1>5. ASSUME NEW c \in Callers, Leave(c)
      PROVE  TypeInv'
  BY <1>5 DEF Leave, TypeInv, TypeOK, AgesOK, Full, History
<1>6. CASE UNCHANGED vars
  BY <1>6 DEF vars, TypeInv, TypeOK, AgesOK, Full, History
<1> QED BY <1>1, <1>2, <1>3, <1>4, <1>5, <1>6 DEF Next

LEMMA TypeInit ==
  ASSUME Init
  PROVE  TypeInv
  BY FullIsNat, BucketAssumption DEF Init, TypeInv, TypeOK, AgesOK

(* TypeOK: every variable keeps its type, for every rate and any callers;  *)
(* in particular the level never leaves 0..Full (try_acquire, _refill).    *)
THEOREM TypeCorrect == Spec => []TypeOK
<1>1. Init => TypeInv
  BY TypeInit
<1>2. TypeInv /\ [Next]_vars => TypeInv'
  BY TypeStep
<1>3. TypeInv => TypeOK
  BY DEF TypeInv
<1> QED BY <1>1, <1>2, <1>3, PTL DEF Spec

-----------------------------------------------------------------------------
(* The window.                                                             *)

(* The i-th remembered call and those after it took a token each; what     *)
(* they took and what is left cannot exceed a full bucket and the refill   *)
(* since the i-th call.                                                    *)
Paid(i) == (Len(ages) - i + 1) * Cost + level <= Full + ages[i]

WindowInv ==
  /\ TypeInv
  /\ \A i \in 1..Len(ages) : ages[i] = Full \/ Paid(i)

LEMMA OneMore ==
  ASSUME NEW n \in Nat
  PROVE  (n + 1) * Cost = n * Cost + Cost
  BY BucketAssumption

LEMMA WindowTake ==
  ASSUME WindowInv, NEW c \in Callers, Available, Take(c)
  PROVE  \A i \in 1..Len(ages') : ages'[i] = Full \/ Paid(i)'
<1> SUFFICES ASSUME NEW i \in 1..Len(ages')
             PROVE  ages'[i] = Full \/ Paid(i)'
  OBVIOUS
<1>t. /\ ages \in Seq(0..Full) /\ Len(ages) \in Nat /\ Len(ages) <= History
      /\ level \in 0..Full /\ Cost \in Nat /\ Full \in Nat /\ Full' = Full
      /\ level' = level - Cost /\ History \in Nat \ {0}
  BY BucketAssumption, FullIsNat DEF WindowInv, TypeInv, TypeOK, AgesOK, Take, Full
<1>1. CASE Len(ages) = History
  <2>1. /\ Len(ages') = Len(ages)
        /\ i = Len(ages) => ages'[i] = 0
        /\ i # Len(ages) => i + 1 \in 1..Len(ages) /\ ages'[i] = ages[i + 1]
    BY <1>t, <1>1 DEF Take, Remember
  <2>2. CASE i = Len(ages)
    <3>1. (Len(ages') - i + 1) * Cost = Cost
      BY <1>t, <2>1, <2>2
    <3> QED BY <1>t, <2>1, <2>2, <3>1 DEF Paid
  <2>3. CASE i # Len(ages)
    <3>1. ages[i + 1] = Full \/ Paid(i + 1)
      BY <2>1, <2>3 DEF WindowInv
    <3>2. Len(ages) - (i + 1) + 1 \in Nat
      BY <1>t, <2>1, <2>3
    <3>3. (Len(ages') - i + 1) * Cost = (Len(ages) - (i + 1) + 1) * Cost + Cost
      <4>1. Len(ages') - i + 1 = (Len(ages) - (i + 1) + 1) + 1
        BY <1>t, <2>1
      <4> QED BY <3>2, <4>1, OneMore
    <3>4. (Len(ages) - (i + 1) + 1) * Cost \in Nat
      BY <1>t, <3>2
    <3> QED BY <1>t, <2>1, <2>3, <3>1, <3>3, <3>4 DEF Paid
  <2> QED BY <2>2, <2>3
<1>2. CASE Len(ages) # History
  <2>1. /\ Len(ages') = Len(ages) + 1
        /\ i = Len(ages') => ages'[i] = 0
        /\ i # Len(ages') => i \in 1..Len(ages) /\ ages'[i] = ages[i]
    BY <1>t, <1>2 DEF Take, Remember
  <2>2. CASE i = Len(ages')
    <3>1. (Len(ages') - i + 1) * Cost = Cost
      BY <1>t, <2>1, <2>2
    <3> QED BY <1>t, <2>1, <2>2, <3>1 DEF Paid
  <2>3. CASE i # Len(ages')
    <3>1. ages[i] = Full \/ Paid(i)
      BY <2>1, <2>3 DEF WindowInv
    <3>2. Len(ages) - i + 1 \in Nat
      BY <1>t, <2>1, <2>3
    <3>3. (Len(ages') - i + 1) * Cost = (Len(ages) - i + 1) * Cost + Cost
      <4>1. Len(ages') - i + 1 = (Len(ages) - i + 1) + 1
        BY <1>t, <2>1
      <4> QED BY <3>2, <4>1, OneMore
    <3>4. (Len(ages) - i + 1) * Cost \in Nat
      BY <1>t, <3>2
    <3> QED BY <1>t, <2>1, <2>3, <3>1, <3>3, <3>4 DEF Paid
  <2> QED BY <2>2, <2>3
<1> QED BY <1>1, <1>2

LEMMA WindowTry ==
  ASSUME WindowInv, NEW c \in Callers, Try(c)
  PROVE  \A i \in 1..Len(ages') : ages'[i] = Full \/ Paid(i)'
<1>1. CASE Available /\ Take(c)
  BY <1>1, WindowTake
<1>2. CASE FallAsleep(c)
  BY <1>2 DEF FallAsleep, WindowInv, Paid, Full
<1> QED BY <1>1, <1>2 DEF Try

LEMMA WindowTick ==
  ASSUME WindowInv, Tick
  PROVE  \A i \in 1..Len(ages') : ages'[i] = Full \/ Paid(i)'
<1> SUFFICES ASSUME NEW i \in 1..Len(ages')
             PROVE  ages'[i] = Full \/ Paid(i)'
  OBVIOUS
<1>1. /\ Len(ages') = Len(ages) /\ i \in 1..Len(ages) /\ ages'[i] = Older(ages[i])
      /\ ages[i] \in 0..Full /\ Len(ages) \in Nat
  <2>1. ages \in Seq(0..Full)
    BY DEF WindowInv, TypeInv, AgesOK
  <2>2. Len(ages') = Len(ages)
    BY <2>1 DEF Tick
  <2>3. Len(ages) \in Nat /\ DOMAIN ages = 1..Len(ages) /\ i \in 1..Len(ages)
    BY <2>1, <2>2
  <2>4. ages' = [j \in DOMAIN ages |-> Older(ages[j])]
    BY DEF Tick
  <2>5. ages'[i] = Older(ages[i])
    BY <2>3, <2>4, Zenon
  <2>6. ages[i] \in 0..Full
    BY <2>1, <2>3, FullIsNat
  <2> QED BY <2>2, <2>3, <2>5, <2>6
<1>2. level' <= level + 1 /\ level' \in Nat /\ level \in Nat
  BY FullIsNat DEF WindowInv, TypeInv, TypeOK, Tick, Refilled
<1>3. ages[i] = Full \/ Paid(i)
  BY <1>1 DEF WindowInv
<1>4. PICK k : k = (Len(ages) - i + 1) * Cost
  OBVIOUS
<1>5. k \in Nat
  BY <1>1, <1>4, BucketAssumption
<1> QED BY <1>1, <1>2, <1>3, <1>4, <1>5, FullIsNat DEF Older, Paid, Full

LEMMA WindowStep ==
  ASSUME WindowInv, [Next]_vars
  PROVE  WindowInv'
<1>1. TypeInv'
  BY TypeStep DEF WindowInv
<1>2. \A i \in 1..Len(ages') : ages'[i] = Full \/ Paid(i)'
  <2>1. CASE Tick
    BY <2>1, WindowTick
  <2>2. CASE GetLock
    <3>1. Head(waiters) \in Callers
      BY <2>2 DEF GetLock, WindowInv, TypeInv, TypeOK
    <3> QED BY <2>2, <3>1, WindowTry DEF GetLock
  <2>3. CASE WakeUp
    BY <2>3, WindowTry DEF WakeUp, WindowInv, TypeInv, TypeOK
  <2>4. ASSUME NEW c \in Callers, Acquire(c)
        PROVE  \A i \in 1..Len(ages') : ages'[i] = Full \/ Paid(i)'
    <3>1. CASE Try(c)
      BY <3>1, WindowTry
    <3>2. CASE UNCHANGED <<level, holder, sleep, calling, ages>>
      BY <3>2 DEF WindowInv, Paid, Full
    <3> QED BY <2>4, <3>1, <3>2 DEF Acquire
  <2>5. ASSUME NEW c \in Callers, Leave(c)
        PROVE  \A i \in 1..Len(ages') : ages'[i] = Full \/ Paid(i)'
    BY <2>5 DEF Leave, WindowInv, Paid, Full
  <2>6. CASE UNCHANGED vars
    BY <2>6 DEF vars, WindowInv, Paid, Full
  <2> QED BY <2>1, <2>2, <2>3, <2>4, <2>5, <2>6 DEF Next
<1> QED BY <1>1, <1>2 DEF WindowInv, Full

LEMMA WindowFollows ==
  ASSUME WindowInv
  PROVE  WindowBounded
<1> SUFFICES ASSUME Len(ages) = History
             PROVE  ages[1] = Full
  BY DEF WindowBounded
<1>1. 1 \in 1..Len(ages) /\ ages[1] \in 0..Full /\ level \in 0..Full
  BY FullIsNat DEF WindowInv, TypeInv, TypeOK, AgesOK
<1>2. ages[1] = Full \/ Paid(1)
  BY <1>1 DEF WindowInv
<1>3. (Len(ages) - 1 + 1) * Cost = Full + Full
  <2>1. Len(ages) - 1 + 1 = Rate + Rate
    BY BucketAssumption DEF History
  <2>2. (Rate + Rate) * Cost = Rate * Cost + Rate * Cost
    BY BucketAssumption
  <2> QED BY <2>1, <2>2 DEF Full
<1> QED BY <1>1, <1>2, <1>3, FullIsNat DEF Paid

(* WindowBounded: of the last 2 * Rate calls the first is at least a       *)
(* minute old, for every rate, any callers and timers that fire early      *)
(* (RPM_LIMITS, acquire).                                                  *)
THEOREM BoundedWindow == Spec => []WindowBounded
<1>1. Init => WindowInv
  <2>1. Init => TypeInv
    BY TypeInit
  <2>2. Init => Len(ages) = 0
    BY DEF Init
  <2> QED BY <2>1, <2>2 DEF WindowInv
<1>2. WindowInv /\ [Next]_vars => WindowInv'
  BY WindowStep
<1>3. WindowInv => WindowBounded
  BY WindowFollows
<1> QED BY <1>1, <1>2, <1>3, PTL DEF Spec

-----------------------------------------------------------------------------
(* First come, first served.  The line of CallQueue is the sleeper that    *)
(* holds the lock, and behind it who waits for the lock.                   *)

(* The lock has one holder: without this the line would not be known.      *)
OneHolder == holder = {} \/ \E c \in Callers : holder = {c}

LineInv == TypeInv /\ OneHolder

LEMMA LineStep ==
  ASSUME LineInv, [Next]_vars
  PROVE  LineInv'
<1> SUFFICES OneHolder'
  BY TypeStep DEF LineInv
<1>1. ASSUME NEW c \in Callers, Try(c)
      PROVE  OneHolder'
  BY <1>1 DEF Try, FallAsleep, OneHolder
<1>2. CASE GetLock
  BY <1>1, <1>2 DEF GetLock, LineInv, TypeInv, TypeOK
<1>3. CASE WakeUp
  BY <1>1, <1>3 DEF WakeUp, LineInv, TypeInv, TypeOK
<1>4. ASSUME NEW c \in Callers, Acquire(c)
      PROVE  OneHolder'
  BY <1>1, <1>4 DEF Acquire, LineInv, OneHolder
<1>5. CASE Tick \/ UNCHANGED vars \/ \E c \in Callers : Leave(c)
  BY <1>5 DEF Tick, Leave, vars, LineInv, OneHolder
<1> QED BY <1>2, <1>3, <1>4, <1>5 DEF Next

Line == IF holder = {} THEN waiters ELSE <<CHOOSE c \in holder : TRUE>> \o waiters

LEMMA LineOf ==
  ASSUME LineInv
  PROVE  /\ Line \in Seq(Callers)
         /\ holder = {} => Line = waiters
         /\ \A c : holder = {c} => Line # <<>> /\ Head(Line) = c /\ Tail(Line) = waiters
                                   /\ Line = <<c>> \o waiters
         /\ (Line = <<>>) <=> ~ Busy
<1>1. waiters \in Seq(Callers)
  BY DEF LineInv, TypeInv, TypeOK
<1>2. CASE holder = {}
  BY <1>1, <1>2 DEF Line, Busy
<1>3. ASSUME NEW c \in Callers, holder = {c}
      PROVE  /\ Line = <<c>> \o waiters /\ Line \in Seq(Callers)
             /\ Line # <<>> /\ Head(Line) = c /\ Tail(Line) = waiters
  <2>1. (CHOOSE d \in holder : TRUE) = c
    BY <1>3
  <2>2. Line = <<c>> \o waiters
    BY <1>3, <2>1 DEF Line
  <2>3. Len(Line) = Len(waiters) + 1 /\ Line \in Seq(Callers) /\ Line # <<>>
    BY <1>1, <2>2
  <2>4. Line[1] = c /\ \A i \in 1..Len(waiters) : Line[i + 1] = waiters[i]
    BY <1>1, <2>2
  <2>5. Tail(Line) \in Seq(Callers) /\ Len(Tail(Line)) = Len(waiters)
        /\ \A i \in 1..Len(waiters) : Tail(Line)[i] = Line[i + 1]
    BY <1>1, <2>3
  <2>6. Tail(Line) = waiters
    BY <1>1, <2>4, <2>5
  <2> QED BY <2>2, <2>3, <2>4, <2>6
<1> QED BY <1>1, <1>2, <1>3 DEF LineInv, OneHolder, Busy

(* A caller that has the lock: it was not in the line, or it heads it.     *)
LEMMA TryIsJoin ==
  ASSUME LineInv, NEW c \in Callers, ~ Busy, Try(c), UNCHANGED waiters,
         c \notin Waiting \cup calling
  PROVE  Queue!Join(c) \/ Queue!WalkIn(c)
<1>1. Line = <<>> /\ holder = {} /\ waiters = <<>>
  BY LineOf DEF Busy
<1>2. c \in Queue!Outside
  BY <1>1 DEF Queue!Outside, Queue!Waiting, Waiting, Line
<1>3. CASE Available /\ Take(c) /\ holder' = {} /\ sleep' = 0
  BY <1>1, <1>2, <1>3 DEF Take, Queue!WalkIn
<1>4. CASE ~Available /\ FallAsleep(c)
  <2>1. Line' = <<c>> /\ calling' = calling
    BY <1>1, <1>4 DEF FallAsleep, Line
  <2>2. Line' = Append(Line, c)
    BY <1>1, <2>1
  <2> QED BY <1>2, <2>1, <2>2 DEF Queue!Join, Line
<1> QED BY <1>3, <1>4 DEF Try

LEMMA TryIsAdmit ==
  ASSUME NEW c \in Callers, Try(c),
         Line = <<c>> \o waiters', Head(Line) = c, Tail(Line) = waiters', Line # <<>>
  PROVE  Queue!Admit \/ UNCHANGED Queue!vars
<1>1. CASE Available /\ Take(c) /\ holder' = {} /\ sleep' = 0
  <2>1. Line' = waiters'
    BY <1>1 DEF Line
  <2> QED BY <1>1, <2>1 DEF Take, Queue!Admit, Line
<1>2. CASE ~Available /\ FallAsleep(c)
  <2>1. holder' = {c} /\ calling' = calling
    BY <1>2 DEF FallAsleep
  <2>2. (CHOOSE d \in holder' : TRUE) = c
    BY <2>1
  <2>3. Line' = <<c>> \o waiters'
    BY <2>1, <2>2 DEF Line
  <2> QED BY <2>1, <2>3 DEF Queue!vars, Line
<1> QED BY <1>1, <1>2 DEF Try

LEMMA LineImplements ==
  ASSUME LineInv, [Next]_vars
  PROVE  [Queue!Next]_(Queue!vars)
<1>1. ASSUME Tick \/ UNCHANGED vars
      PROVE  UNCHANGED Queue!vars
  <2>1. holder' = holder /\ waiters' = waiters /\ calling' = calling
    BY <1>1 DEF Tick, vars
  <2>2. Line' = Line
    BY <2>1 DEF Line
  <2> QED BY <2>1, <2>2 DEF Queue!vars, Line
<1>2. ASSUME NEW c \in Callers, Leave(c)
      PROVE  Queue!Leave(c)
  BY <1>2 DEF Leave, Queue!Leave
<1>3. ASSUME NEW c \in Callers, Acquire(c)
      PROVE  Queue!Join(c) \/ Queue!WalkIn(c)
  <2>1. CASE ~ Busy /\ Try(c) /\ UNCHANGED waiters
    BY <1>3, <2>1, TryIsJoin DEF Acquire
  <2>2. CASE /\ Busy
             /\ waiters' = InLine(c)
             /\ UNCHANGED <<level, holder, sleep, calling, ages>>
    <3>1. waiters' = Append(waiters, c) /\ holder' = holder /\ calling' = calling
      BY <2>2 DEF InLine
    <3>2. Line' = Append(Line, c)
      <4>1. waiters \in Seq(Callers)
        BY DEF LineInv, TypeInv, TypeOK
      <4>2. CASE holder = {}
        BY <3>1, <4>2 DEF Line
      <4>3. CASE holder # {}
        <5>1. PICK d \in Callers : d = (CHOOSE e \in holder : TRUE)
          BY <4>3 DEF LineInv, OneHolder
        <5>2. Line = <<d>> \o waiters /\ Line' = <<d>> \o Append(waiters, c)
          BY <3>1, <4>3, <5>1 DEF Line
        <5> QED BY <4>1, <5>2
      <4> QED BY <4>2, <4>3
    <3>3. c \in Queue!Outside
      <4>1. c \notin Waiting /\ c \notin calling
        BY <1>3 DEF Acquire
      <4>2. \A i \in DOMAIN Line : Line[i] \in Waiting
        <5>1. waiters \in Seq(Callers)
          BY DEF LineInv, TypeInv, TypeOK
        <5>2. CASE holder = {}
          BY <5>2 DEF Line, Waiting
        <5>3. ASSUME NEW d \in Callers, holder = {d}
              PROVE  \A i \in DOMAIN Line : Line[i] \in Waiting
          <6>1. Line = <<d>> \o waiters
            BY <5>3, LineOf
          <6>2. DOMAIN Line = 1..(Len(waiters) + 1) /\ Line[1] = d
                /\ \A i \in 1..Len(waiters) : Line[i + 1] = waiters[i]
            BY <5>1, <6>1
          <6>3. ASSUME NEW i \in DOMAIN Line, i # 1
                PROVE  Line[i] \in Waiting
            <7>1. i - 1 \in 1..Len(waiters) /\ (i - 1) + 1 = i
              BY <5>1, <6>2, <6>3
            <7>2. Line[i] = waiters[i - 1]
              BY <6>2, <7>1
            <7> QED BY <5>1, <7>1, <7>2 DEF Waiting
          <6> QED BY <5>3, <6>2, <6>3 DEF Waiting
        <5> QED BY <5>2, <5>3 DEF LineInv, OneHolder
      <4> QED BY <4>1, <4>2 DEF Queue!Outside, Queue!Waiting, Line
    <3> QED BY <3>1, <3>2, <3>3 DEF Queue!Join, Line
  <2> QED BY <1>3, <2>1, <2>2 DEF Acquire
<1>4. CASE GetLock
  <2>1. /\ holder = {} /\ waiters # <<>> /\ Head(waiters) \in Callers
        /\ waiters' = Tail(waiters) /\ Try(Head(waiters))
    BY <1>4 DEF GetLock, LineInv, TypeInv, TypeOK
  <2>2. Line = waiters /\ waiters \in Seq(Callers)
    BY <2>1, LineOf DEF LineInv, TypeInv, TypeOK
  <2>3. Line = <<Head(Line)>> \o Tail(Line)
    BY <2>1, <2>2
  <2> QED BY <2>1, <2>2, <2>3, TryIsAdmit DEF Queue!Next
<1>5. CASE WakeUp
  <2>1. PICK c \in holder : Try(c)
    BY <1>5 DEF WakeUp
  <2>2. c \in Callers /\ holder = {c} /\ waiters' = waiters
    BY <1>5, <2>1 DEF WakeUp, LineInv, OneHolder
  <2> QED BY <2>1, <2>2, LineOf, TryIsAdmit DEF Queue!Next
<1> QED BY <1>1, <1>2, <1>3, <1>4, <1>5 DEF Next, Queue!Next

(* The bucket lets its callers in one after another in the order they came *)
(* (the asyncio.Lock that acquire holds over its sleep): the steps of      *)
(* ImplementsCallQueue, for any callers, rate and timers.  That nobody     *)
(* waits for ever rests on fairness, and TLC checks it.                    *)
THEOREM ServedInOrder == Spec => Queue!Order
<1>1. Init => LineInv
  BY TypeInit DEF Init, LineInv, OneHolder
<1>2. LineInv /\ [Next]_vars => LineInv'
  BY LineStep
<1>3. Init => Queue!Init
  BY DEF Init, Queue!Init
<1>4. LineInv /\ [Next]_vars => [Queue!Next]_(Queue!vars)
  BY LineImplements
<1> QED BY <1>1, <1>2, <1>3, <1>4, PTL DEF Spec, Queue!Order
=============================================================================
