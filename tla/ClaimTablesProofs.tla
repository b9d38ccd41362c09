--------------------------- MODULE ClaimTablesProofs ---------------------------
(***************************************************************************)
(* What ClaimTables promises, for any number of writers, states, days and  *)
(* ids: its type, the order of the ids, the causal order of the timeline,  *)
(* the spacing of the reminders, and that it implements ClaimLog.          *)
(***************************************************************************)
EXTENDS ClaimTables, SequenceTheorems, TLAPS

-----------------------------------------------------------------------------
(* Sequences of rows.                                                      *)

LEMMA WiderSeq ==
  ASSUME NEW A, NEW B, A \subseteq B, NEW s \in Seq(A)
  PROVE  s \in Seq(B)
<1>1. s \in [1 .. Len(s) -> A] /\ Len(s) \in Nat
  OBVIOUS
<1>2. s \in [1 .. Len(s) -> B]
  BY <1>1
<1> QED BY <1>1, <1>2

LEMMA AppendedRow ==
  ASSUME NEW A, NEW s \in Seq(A), NEW e \in A
  PROVE  /\ Append(s, e) \in Seq(A)
         /\ DOMAIN s = 1 .. Len(s) /\ Len(s) \in Nat
         /\ DOMAIN Append(s, e) = 1 .. (Len(s) + 1)
         /\ \A i \in DOMAIN s : Append(s, e)[i] = s[i]
         /\ Append(s, e)[Len(s) + 1] = e
         /\ \A i \in DOMAIN Append(s, e) : i \in DOMAIN s \/ i = Len(s) + 1
<1>1. DOMAIN s = 1 .. Len(s) /\ Len(s) \in Nat
  OBVIOUS
<1>2. /\ Append(s, e) \in Seq(A)
      /\ Len(Append(s, e)) = Len(s) + 1
      /\ \A i \in 1 .. Len(s) : Append(s, e)[i] = s[i]
      /\ Append(s, e)[Len(s) + 1] = e
  BY AppendProperties
<1>3. DOMAIN Append(s, e) = 1 .. Len(Append(s, e))
  BY <1>2
<1> QED BY <1>1, <1>2, <1>3

(* Ids, and with them the rows, only grow.                                 *)
LEMMA WiderTypes ==
  ASSUME lastId \in Nat, lastId' \in Nat, lastId <= lastId'
  PROVE  /\ Ids \subseteq Ids'
         /\ Event \subseteq Event'
         /\ Reminder \subseteq Reminder'
         /\ Txn \subseteq Txn'
BY DEF Ids, Event, Reminder, Txn

-----------------------------------------------------------------------------
(* A transaction that has inserted its event has an id.                    *)
HasId == \A w \in Writers : txn[w].pc = "inserted" => txn[w].id \in Ids

TypeInv == TypeOK /\ HasId

LEMMA TypeInit ==
  ASSUME Init
  PROVE  TypeInv
BY TablesAssumption
   DEF Init, TypeInv, HasId, TypeOK, Row, NoRow, Txn, NoTxn, Job, NoJob, Ids, Event, Reminder

LEMMA RowsOfTransitions ==
  ASSUME TypeOK
  PROVE  /\ transitions \in Seq(Event)
         /\ DOMAIN transitions = 1 .. Len(transitions) /\ Len(transitions) \in Nat
         /\ \A i \in DOMAIN transitions :
              /\ transitions[i] \in Event
              /\ transitions[i].id \in 1 .. lastId
              /\ transitions[i].ts \in Nat
              /\ transitions[i].seen \subseteq 1 .. lastId
         /\ Committed \subseteq Ids
<1>1. transitions \in Seq(Event)
  BY DEF TypeOK
<1>2. /\ DOMAIN transitions = 1 .. Len(transitions) /\ Len(transitions) \in Nat
      /\ \A i \in DOMAIN transitions : transitions[i] \in Event
  BY <1>1
<1> QED BY <1>1, <1>2 DEF Event, Ids, Committed

(* The values of the rows do not matter to the type of the others.         *)
LEMMA SameIds ==
  ASSUME lastId' = lastId
  PROVE  Ids' = Ids /\ Event' = Event /\ Reminder' = Reminder /\ Txn' = Txn
BY DEF Ids, Event, Reminder, Txn

LEMMA TypeStep ==
  ASSUME TypeInv, [Next]_vars
  PROVE  TypeInv'
<1> USE TablesAssumption DEF TypeInv
<1>0. CASE UNCHANGED vars
  BY <1>0, SameIds DEF vars, TypeOK, HasId, Row, Job
<1>1. ASSUME NEW w \in Writers, Begin(w)
      PROVE  TypeInv'
  <2>1. Ids' = Ids /\ Event' = Event /\ Reminder' = Reminder /\ Txn' = Txn
    BY <1>1, SameIds DEF Begin
  <2>2. PICK s \in State : txn' = [txn EXCEPT ![w] =
          [pc |-> "begun", ts |-> clock, state |-> s, id |-> 0, seen |-> Committed]]
    BY <1>1 DEF Begin
  <2>3. [pc |-> "begun", ts |-> clock, state |-> s, id |-> 0, seen |-> Committed] \in Txn
    BY RowsOfTransitions DEF TypeOK, Txn
  <2>4. txn' \in [Writers -> Txn]
    BY <2>2, <2>3 DEF TypeOK
  <2>5. HasId'
    BY <2>1, <2>2 DEF HasId, TypeOK
  <2> QED BY <1>1, <2>1, <2>4, <2>5 DEF Begin, TypeOK, Row, Job
<1>2. ASSUME NEW w \in Writers, Upsert(w)
      PROVE  TypeInv'
  <2>1. Ids' = Ids /\ Event' = Event /\ Reminder' = Reminder /\ Txn' = Txn
    BY <1>2, SameIds DEF Upsert
  <2>2. [txn[w] EXCEPT !.pc = "locked"] \in Txn
    BY DEF TypeOK, Txn
  <2>3. txn' = [txn EXCEPT ![w] = [txn[w] EXCEPT !.pc = "locked"]]
    BY <1>2 DEF Upsert
  <2>4. txn' \in [Writers -> Txn] /\ HasId'
    BY <2>1, <2>2, <2>3 DEF HasId, TypeOK
  <2> QED BY <1>2, <2>1, <2>4 DEF Upsert, RowAfterUpsert, TypeOK, Row, Job
<1>3. ASSUME NEW w \in Writers, InsertEvent(w)
      PROVE  TypeInv'
  <2>1. lastId \in Nat /\ lastId' = lastId + 1
    BY <1>3 DEF InsertEvent, NextVal, TypeOK
  <2>2. /\ Ids \subseteq Ids' /\ Event \subseteq Event' /\ Reminder \subseteq Reminder'
        /\ Txn \subseteq Txn'
    BY <2>1, WiderTypes
  <2>3. transitions' \in Seq(Event') /\ reminders' \in Seq(Reminder')
    BY <1>3, <2>2, WiderSeq DEF InsertEvent, TypeOK
  <2>4. [txn[w] EXCEPT !.pc = "inserted", !.id = lastId + 1] \in Txn'
    <3>1. txn[w] \in Txn'
      BY <2>2 DEF TypeOK
    <3>2. lastId + 1 \in Ids'
      BY <2>1 DEF Ids
    <3> QED BY <3>1, <3>2 DEF Txn
  <2>5. txn' = [txn EXCEPT ![w] = [txn[w] EXCEPT !.pc = "inserted", !.id = lastId + 1]]
    BY <1>3 DEF InsertEvent
  <2>6. txn' \in [Writers -> Txn']
    BY <2>2, <2>4, <2>5 DEF TypeOK
  <2>7. HasId'
    <3>1. txn[w] \in Txn /\ txn'[w].id = lastId + 1
      BY <2>5 DEF TypeOK, Txn
    <3> QED BY <2>1, <2>2, <2>5, <3>1 DEF HasId, TypeOK, Ids
  <2> QED BY <1>3, <2>1, <2>3, <2>6, <2>7 DEF InsertEvent, TypeOK, Row, Job
<1>4. ASSUME NEW w \in Writers, Commit(w)
      PROVE  TypeInv'
  <2>1. Ids' = Ids /\ Event' = Event /\ Reminder' = Reminder /\ Txn' = Txn
    BY <1>4, SameIds DEF Commit
  <2>2. [id |-> txn[w].id, ts |-> txn[w].ts, state |-> txn[w].state,
         seen |-> txn[w].seen] \in Event
    BY <1>4 DEF Commit, HasId, TypeOK, Txn, Event
  <2>3. transitions' \in Seq(Event)
    BY <1>4, <2>2, AppendedRow DEF Commit, TypeOK
  <2>4. claim' \in Row
    BY <1>4 DEF Commit, TypeOK, Txn, Row
  <2>5. txn' \in [Writers -> Txn] /\ HasId'
    BY <1>4, <2>1 DEF Commit, TypeOK, HasId, NoTxn, Txn
  <2> QED BY <1>4, <2>1, <2>3, <2>4, <2>5 DEF Commit, TypeOK, Row, Job
<1>5. ASSUME NEW w \in Writers, Abort(w)
      PROVE  TypeInv'
  <2>1. Ids' = Ids /\ Event' = Event /\ Reminder' = Reminder /\ Txn' = Txn
    BY <1>5, SameIds DEF Abort
  <2>2. txn' \in [Writers -> Txn] /\ HasId'
    BY <1>5, <2>1 DEF Abort, TypeOK, HasId, NoTxn, Txn
  <2> QED BY <1>5, <2>1, <2>2 DEF Abort, TypeOK, Row, Job
<1>6. ASSUME CommitInMemory
      PROVE  TypeInv'
  <2>1. lastId \in Nat /\ lastId' = lastId + 1
    BY <1>6 DEF CommitInMemory, NextVal, TypeOK
  <2>2. /\ Ids \subseteq Ids' /\ Event \subseteq Event' /\ Reminder \subseteq Reminder'
        /\ Txn \subseteq Txn'
    BY <2>1, WiderTypes
  <2>3. PICK s \in State :
          /\ claim' = [state |-> s, updated_at |-> clock]
          /\ transitions' = Append(transitions,
               [id |-> lastId + 1, ts |-> clock, state |-> s, seen |-> Committed])
    BY <1>6 DEF CommitInMemory
  <2>4. [id |-> lastId + 1, ts |-> clock, state |-> s, seen |-> Committed] \in Event'
    <3>1. Committed \subseteq Ids' /\ lastId + 1 \in Ids'
      BY <2>1, <2>2, RowsOfTransitions DEF Ids
    <3> QED BY <3>1 DEF TypeOK, Event
  <2>5. transitions \in Seq(Event') /\ reminders' \in Seq(Reminder')
    BY <1>6, <2>2, WiderSeq DEF CommitInMemory, TypeOK
  <2>6. transitions' \in Seq(Event')
    BY <2>3, <2>4, <2>5, AppendedRow
  <2>7. txn' \in [Writers -> Txn'] /\ HasId'
    BY <1>6, <2>2 DEF CommitInMemory, TypeOK, HasId
  <2> QED BY <1>6, <2>1, <2>3, <2>5, <2>6, <2>7 DEF CommitInMemory, TypeOK, Row, Job
<1>7. ASSUME JobStarts
      PROVE  TypeInv'
  BY <1>7, SameIds DEF JobStarts, TypeOK, HasId, Row, Job
<1>8. ASSUME JobCommits
      PROVE  TypeInv'
  <2>1. lastId \in Nat /\ lastId' = lastId + 1
    BY <1>8 DEF JobCommits, NextVal, TypeOK
  <2>2. /\ Ids \subseteq Ids' /\ Event \subseteq Event' /\ Reminder \subseteq Reminder'
        /\ Txn \subseteq Txn'
    BY <2>1, WiderTypes
  <2>3. [id |-> lastId + 1, ts |-> job.ts] \in Reminder'
    BY <2>1 DEF TypeOK, Job, Reminder, Ids
  <2>4. transitions' \in Seq(Event') /\ reminders \in Seq(Reminder')
    BY <1>8, <2>2, WiderSeq DEF JobCommits, TypeOK
  <2>5. reminders' \in Seq(Reminder')
    BY <1>8, <2>3, <2>4, AppendedRow DEF JobCommits
  <2>6. txn' \in [Writers -> Txn'] /\ HasId'
    BY <1>8, <2>2 DEF JobCommits, TypeOK, HasId
  <2> QED BY <1>8, <2>1, <2>4, <2>5, <2>6 DEF JobCommits, TypeOK, Row, Job, NoJob
<1>9. ASSUME Tick
      PROVE  TypeInv'
  BY <1>9, SameIds DEF Tick, TypeOK, HasId, Row, Job
<1> QED BY <1>0, <1>1, <1>2, <1>3, <1>4, <1>5, <1>6, <1>7, <1>8, <1>9 DEF Next, Working

(* The rows, the transactions and the job keep their type.                 *)
THEOREM TypeCorrect == Spec => []TypeOK
<1>1. Init => TypeInv
  BY TypeInit
<1>2. TypeInv /\ [Next]_vars => TypeInv'
  BY TypeStep
<1>3. TypeInv => TypeOK
  BY DEF TypeInv
<1> QED BY <1>1, <1>2, <1>3, PTL DEF Spec

-----------------------------------------------------------------------------
(* Ids and order.                                                          *)

(* The lock on the row is with the one that passed the upsert.             *)
LockHeld ==
  \A w \in Writers : txn[w].pc \in {"locked", "inserted"} => holder = w

(* A process without a database has no transactions.                       *)
OneBackend == backend = "memory" => \A w \in Writers : txn[w].pc = "idle"

(* What is to be committed next has the highest id of the claim.           *)
NewestLast ==
  \A w \in Writers : txn[w].pc = "inserted" =>
    \A i \in DOMAIN transitions : transitions[i].id < txn[w].id

(* Nobody has seen a row from the future, or one with a higher id.         *)
PastOnly ==
  /\ \A i \in DOMAIN transitions : transitions[i].ts <= clock
  /\ \A w \in Writers : txn[w].pc # "idle" => txn[w].ts <= clock

SeenByWriters ==
  \A w \in Writers : txn[w].pc # "idle" =>
    /\ txn[w].seen \subseteq Committed
    /\ \A i \in DOMAIN transitions :
         transitions[i].id \in txn[w].seen => transitions[i].ts <= txn[w].ts

SeenByEvents ==
  \A i \in DOMAIN transitions : \A x \in transitions[i].seen : x < transitions[i].id

OrderInv ==
  /\ LockHeld
  /\ OneBackend
  /\ NewestLast
  /\ PastOnly
  /\ SeenByWriters
  /\ SeenByEvents
  /\ IdsFollowCommits
  /\ TimelineIsCausal

LEMMA OrderInit ==
  ASSUME Init
  PROVE  OrderInv
BY DEF Init, OrderInv, LockHeld, OneBackend, NewestLast, PastOnly, SeenByWriters, SeenByEvents,
       IdsFollowCommits, TimelineIsCausal, NoTxn

(* What a commit may append: a row with a new highest id, whose writer saw *)
(* only rows no later than its own.                                        *)
LEMMA AppendKeepsOrder ==
  ASSUME TypeInv, TypeInv', OrderInv, NEW e,
         transitions' = Append(transitions, e),
         e.id \in Nat, e.ts \in Nat,
         \A i \in DOMAIN transitions : transitions[i].id < e.id,
         e.seen \subseteq Committed,
         \A i \in DOMAIN transitions : transitions[i].id \in e.seen => transitions[i].ts <= e.ts
  PROVE  /\ IdsFollowCommits'
         /\ SeenByEvents'
         /\ TimelineIsCausal'
         /\ Committed' = Committed \cup {e.id}
         /\ e.id \notin Committed
         /\ \A i \in DOMAIN transitions' :
              \/ i \in DOMAIN transitions /\ transitions'[i] = transitions[i]
              \/ transitions'[i] = e
<1> DEFINE n == Len(transitions) + 1
<1>1. /\ DOMAIN transitions = 1 .. Len(transitions) /\ Len(transitions) \in Nat
      /\ \A i \in DOMAIN transitions :
           transitions[i].id \in Nat /\ transitions[i].ts \in Nat
  BY RowsOfTransitions DEF TypeInv
<1>2. /\ DOMAIN transitions' = 1 .. n
      /\ \A i \in DOMAIN transitions : transitions'[i] = transitions[i]
      /\ transitions'[n] = e
  <2>1. transitions \in Seq(Event \cup {e})
    BY WiderSeq, RowsOfTransitions DEF TypeInv
  <2> QED BY <2>1, AppendedRow
<1>3. \A i \in DOMAIN transitions' :
        \/ i \in DOMAIN transitions /\ i < n /\ transitions'[i] = transitions[i]
        \/ i = n /\ transitions'[i] = e
  BY <1>1, <1>2
<1>4. e.id \notin Committed
  BY <1>1 DEF Committed
<1>5. IdsFollowCommits'
  BY <1>1, <1>3 DEF IdsFollowCommits, OrderInv
<1>6. \A x \in e.seen : x < e.id
  BY DEF Committed
<1>7. SeenByEvents'
  BY <1>3, <1>6 DEF SeenByEvents, OrderInv
<1>8. TimelineIsCausal'
  <2> SUFFICES ASSUME NEW i \in DOMAIN transitions', NEW j \in DOMAIN transitions',
                      transitions'[i].id \in transitions'[j].seen
               PROVE  Before(transitions'[i], transitions'[j])
    BY DEF TimelineIsCausal, Before
  <2>1. CASE i \in DOMAIN transitions /\ j \in DOMAIN transitions
    BY <1>2, <2>1 DEF TimelineIsCausal, OrderInv
  <2>2. CASE i \in DOMAIN transitions /\ j = n
    BY <1>1, <1>2, <2>2 DEF Before
  <2>3. CASE i = n /\ j \in DOMAIN transitions
    BY <1>1, <1>2, <2>3 DEF OrderInv, SeenByEvents
  <2>4. CASE i = n /\ j = n
    BY <1>2, <1>4, <2>4
  <2> QED BY <1>3, <2>1, <2>2, <2>3, <2>4
<1>9. Committed' = Committed \cup {e.id}
  BY <1>1, <1>2 DEF Committed
<1> QED BY <1>3, <1>4, <1>5, <1>7, <1>8, <1>9

(* A step that commits nothing leaves what is said of committed rows.      *)
LEMMA SameRows ==
  ASSUME OrderInv, transitions' = transitions
  PROVE  /\ SeenByEvents' /\ IdsFollowCommits' /\ TimelineIsCausal'
         /\ Committed' = Committed
BY DEF OrderInv, SeenByEvents, IdsFollowCommits, TimelineIsCausal, Before, Committed

LEMMA OrderStep ==
  ASSUME TypeInv, TypeInv', OrderInv, [Next]_vars
  PROVE  OrderInv'
<1> USE TablesAssumption
<1>r. /\ txn \in [Writers -> Txn] /\ clock \in Nat /\ lastId \in Nat
      /\ \A w \in Writers : txn[w].ts \in Nat /\ txn[w].seen \subseteq Ids
      /\ \A i \in DOMAIN transitions : /\ transitions[i].id \in 1 .. lastId
                                       /\ transitions[i].ts \in Nat
      /\ Committed \subseteq Ids
  BY RowsOfTransitions DEF TypeInv, TypeOK, Txn
<1>0. CASE UNCHANGED vars
  <2>1. SeenByEvents' /\ IdsFollowCommits' /\ TimelineIsCausal' /\ Committed' = Committed
    BY <1>0, SameRows DEF vars
  <2> QED BY <1>0, <2>1
          DEF vars, OrderInv, LockHeld, OneBackend, NewestLast, PastOnly, SeenByWriters
<1>1. ASSUME NEW w \in Writers, Begin(w)
      PROVE  OrderInv'
  <2>1. SeenByEvents' /\ IdsFollowCommits' /\ TimelineIsCausal' /\ Committed' = Committed
    BY <1>1, SameRows DEF Begin
  <2>2. PICK s \in State : txn' = [txn EXCEPT ![w] =
          [pc |-> "begun", ts |-> clock, state |-> s, id |-> 0, seen |-> Committed]]
    BY <1>1 DEF Begin
  <2>3. LockHeld' /\ OneBackend' /\ NewestLast'
    BY <1>1, <1>r, <2>2 DEF Begin, OrderInv, LockHeld, OneBackend, NewestLast
  <2>4. PastOnly'
    BY <1>1, <1>r, <2>2 DEF Begin, OrderInv, PastOnly
  <2>5. SeenByWriters'
    BY <1>1, <1>r, <2>1, <2>2 DEF Begin, OrderInv, PastOnly, SeenByWriters
  <2> QED BY <2>1, <2>3, <2>4, <2>5 DEF OrderInv
<1>2. ASSUME NEW w \in Writers, Upsert(w)
      PROVE  OrderInv'
  <2>1. SeenByEvents' /\ IdsFollowCommits' /\ TimelineIsCausal' /\ Committed' = Committed
    BY <1>2, SameRows DEF Upsert
  <2>2. LockHeld' /\ OneBackend' /\ NewestLast'
    BY <1>2, <1>r DEF Upsert, RowFree, OrderInv, LockHeld, OneBackend, NewestLast
  <2>3. PastOnly' /\ SeenByWriters'
    BY <1>2, <1>r, <2>1 DEF Upsert, OrderInv, PastOnly, SeenByWriters
  <2> QED BY <2>1, <2>2, <2>3 DEF OrderInv
<1>3. ASSUME NEW w \in Writers, InsertEvent(w)
      PROVE  OrderInv'
  <2>1. SeenByEvents' /\ IdsFollowCommits' /\ TimelineIsCausal' /\ Committed' = Committed
    BY <1>3, SameRows DEF InsertEvent
  <2>2. LockHeld' /\ OneBackend'
    BY <1>3, <1>r DEF InsertEvent, OrderInv, LockHeld, OneBackend
  <2>3. NewestLast'
    <3>1. txn'[w].id = lastId + 1 /\ \A u \in Writers \ {w} : txn'[u] = txn[u]
      BY <1>3, <1>r DEF InsertEvent, Txn
    <3>2. transitions' = transitions
      BY <1>3 DEF InsertEvent
    <3> QED BY <1>r, <3>1, <3>2 DEF OrderInv, NewestLast
  <2>4. PastOnly' /\ SeenByWriters'
    BY <1>3, <1>r, <2>1 DEF InsertEvent, OrderInv, PastOnly, SeenByWriters
  <2> QED BY <2>1, <2>2, <2>3, <2>4 DEF OrderInv
<1>4. ASSUME NEW w \in Writers, Commit(w)
      PROVE  OrderInv'
  <2> DEFINE e == [id |-> txn[w].id, ts |-> txn[w].ts, state |-> txn[w].state,
                   seen |-> txn[w].seen]
  <2>1. /\ txn[w].pc = "inserted" /\ transitions' = Append(transitions, e)
        /\ holder' = NoOne /\ txn' = [txn EXCEPT ![w] = NoTxn]
        /\ backend' = backend /\ clock' = clock
    BY <1>4 DEF Commit
  <2>2. e.id \in Nat /\ e.ts \in Nat
    BY <1>r, <2>1 DEF TypeInv, HasId, Ids
  <2>3. /\ \A i \in DOMAIN transitions : transitions[i].id < e.id
        /\ e.seen \subseteq Committed
        /\ \A i \in DOMAIN transitions :
             transitions[i].id \in e.seen => transitions[i].ts <= e.ts
    BY <2>1 DEF OrderInv, NewestLast, SeenByWriters
  <2>4. /\ IdsFollowCommits' /\ SeenByEvents' /\ TimelineIsCausal'
        /\ Committed' = Committed \cup {e.id}
        /\ e.id \notin Committed
        /\ \A i \in DOMAIN transitions' :
             \/ i \in DOMAIN transitions /\ transitions'[i] = transitions[i]
             \/ transitions'[i] = e
    <3> HIDE DEF e
    <3> QED BY <2>1, <2>2, <2>3, AppendKeepsOrder
  <2>5. \A u \in Writers : \/ u = w /\ txn'[u] = NoTxn
                           \/ u # w /\ txn'[u] = txn[u] /\ txn[u].pc \notin {"locked", "inserted"}
    BY <1>r, <2>1 DEF OrderInv, LockHeld
  <2>6. LockHeld' /\ OneBackend' /\ NewestLast'
    BY <2>1, <2>5 DEF OrderInv, LockHeld, OneBackend, NewestLast, NoTxn
  <2>7. PastOnly'
    BY <2>1, <2>4, <2>5 DEF OrderInv, PastOnly, NoTxn
  <2>8. SeenByWriters'
    BY <2>4, <2>5 DEF OrderInv, SeenByWriters, NoTxn
  <2> QED BY <2>4, <2>6, <2>7, <2>8 DEF OrderInv
<1>5. ASSUME NEW w \in Writers, Abort(w)
      PROVE  OrderInv'
  <2>1. SeenByEvents' /\ IdsFollowCommits' /\ TimelineIsCausal' /\ Committed' = Committed
    BY <1>5, SameRows DEF Abort
  <2>2. \A u \in Writers : txn'[u] = IF u = w THEN NoTxn ELSE txn[u]
    <3>1. txn \in [Writers -> Txn] /\ txn' = [txn EXCEPT ![w] = NoTxn]
      BY <1>5, <1>r DEF Abort
    <3> QED BY <3>1
  <2>3. LockHeld' /\ OneBackend' /\ NewestLast'
    <3>1. NoTxn.pc = "idle" /\ transitions' = transitions /\ backend' = backend
      BY <1>5 DEF NoTxn, Abort
    <3>2. \A u \in Writers : txn'[u].pc # "idle" => u # w /\ txn'[u] = txn[u]
      BY <2>2, <3>1
    <3>3. LockHeld'
      <4>1. txn[w].pc = "begun" => holder' = holder
        BY <1>5 DEF Abort
      <4>2. txn[w].pc # "begun" => holder = w
        <5>1. txn[w].pc \in {"locked", "inserted"} \/ txn[w].pc = "begun"
          BY <1>5, <1>r DEF Abort, Txn
        <5> QED BY <5>1 DEF OrderInv, LockHeld
      <4> QED BY <3>2, <4>1, <4>2 DEF OrderInv, LockHeld
    <3>4. OneBackend' /\ NewestLast'
      BY <3>1, <3>2 DEF OrderInv, OneBackend, NewestLast
    <3> QED BY <3>3, <3>4
  <2>4. PastOnly' /\ SeenByWriters'
    BY <1>5, <2>1, <2>2 DEF Abort, OrderInv, PastOnly, SeenByWriters, NoTxn
  <2> QED BY <2>1, <2>3, <2>4 DEF OrderInv
<1>6. ASSUME CommitInMemory
      PROVE  OrderInv'
  <2>1. PICK s \in State :
          transitions' = Append(transitions,
            [id |-> lastId + 1, ts |-> clock, state |-> s, seen |-> Committed])
    BY <1>6 DEF CommitInMemory
  <2> DEFINE e == [id |-> lastId + 1, ts |-> clock, state |-> s, seen |-> Committed]
  <2>2. /\ backend = "memory" /\ backend' = backend /\ clock' = clock
        /\ txn' = txn /\ holder' = holder
    BY <1>6 DEF CommitInMemory
  <2>3. /\ e.id \in Nat /\ e.ts \in Nat /\ e.ts = clock
        /\ \A i \in DOMAIN transitions : transitions[i].id < e.id
        /\ e.seen \subseteq Committed
        /\ \A i \in DOMAIN transitions :
             transitions[i].id \in e.seen => transitions[i].ts <= e.ts
    BY <1>r DEF OrderInv, PastOnly
  <2>4. /\ IdsFollowCommits' /\ SeenByEvents' /\ TimelineIsCausal'
        /\ \A i \in DOMAIN transitions' :
             \/ i \in DOMAIN transitions /\ transitions'[i] = transitions[i]
             \/ transitions'[i] = e
    <3> HIDE DEF e
    <3>1. transitions' = Append(transitions, e)
      BY <2>1 DEF e
    <3> QED BY <2>3, <3>1, AppendKeepsOrder
  <2>5. \A u \in Writers : txn'[u].pc = "idle"
    BY <2>2 DEF OrderInv, OneBackend
  <2>6. LockHeld' /\ OneBackend' /\ NewestLast' /\ SeenByWriters'
    BY <2>5 DEF LockHeld, OneBackend, NewestLast, SeenByWriters
  <2>7. PastOnly'
    <3> HIDE DEF e
    <3> QED BY <1>r, <2>2, <2>3, <2>4, <2>5 DEF OrderInv, PastOnly
  <2> QED BY <2>4, <2>6, <2>7 DEF OrderInv
<1>7. ASSUME JobStarts \/ JobCommits
      PROVE  OrderInv'
  <2>1. UNCHANGED <<backend, clock, transitions, holder, txn>>
    BY <1>7 DEF JobStarts, JobCommits
  <2>2. SeenByEvents' /\ IdsFollowCommits' /\ TimelineIsCausal' /\ Committed' = Committed
    BY <2>1, SameRows
  <2> QED BY <2>1, <2>2
          DEF OrderInv, LockHeld, OneBackend, NewestLast, PastOnly, SeenByWriters
<1>8. ASSUME Tick
      PROVE  OrderInv'
  <2>1. UNCHANGED <<backend, transitions, holder, txn>> /\ clock' = clock + 1
    BY <1>8 DEF Tick
  <2>2. SeenByEvents' /\ IdsFollowCommits' /\ TimelineIsCausal' /\ Committed' = Committed
    BY <2>1, SameRows
  <2> QED BY <1>r, <2>1, <2>2
          DEF OrderInv, LockHeld, OneBackend, NewestLast, PastOnly, SeenByWriters
<1> QED BY <1>0, <1>1, <1>2, <1>3, <1>4, <1>5, <1>6, <1>7, <1>8 DEF Next, Working

LEMMA OrderAlways == Spec => [](TypeInv /\ OrderInv)
<1>1. Init => TypeInv /\ OrderInv
  BY TypeInit, OrderInit
<1>2. TypeInv /\ OrderInv /\ [Next]_vars => TypeInv' /\ OrderInv'
  BY TypeStep, OrderStep
<1> QED BY <1>1, <1>2, PTL DEF Spec

(* The ids of the transitions follow the order of their commits, although  *)
(* the sequence is no part of the transactions (commit_transition).        *)
THEOREM IdOrder == Spec => []IdsFollowCommits
BY OrderAlways, PTL DEF OrderInv

(* What was committed before a transition began is listed before it        *)
(* (get_events), however commits overlap, break off or are delayed.        *)
THEOREM CausalTimeline == Spec => []TimelineIsCausal
BY OrderAlways, PTL DEF OrderInv

-----------------------------------------------------------------------------
(* Reminders.                                                              *)

(* A job that has looked for recent reminders found none, and no other run *)
(* of the job can add one before it commits.                               *)
JobIsDue ==
  job.pc = "insert" => \A i \in DOMAIN reminders : reminders[i].ts + RemindEvery <= job.ts

SpacedInv == JobIsDue /\ RemindersSpaced

LEMMA SpacedStep ==
  ASSUME TypeInv, TypeInv', SpacedInv, [Next]_vars
  PROVE  SpacedInv'
<1> USE TablesAssumption
<1>r. /\ reminders \in Seq(Reminder) /\ DOMAIN reminders = 1 .. Len(reminders)
      /\ Len(reminders) \in Nat /\ clock \in Nat /\ job \in Job
      /\ \A i \in DOMAIN reminders : reminders[i].ts \in Nat
  <2>1. reminders \in Seq(Reminder)
    BY DEF TypeInv, TypeOK
  <2>2. /\ DOMAIN reminders = 1 .. Len(reminders) /\ Len(reminders) \in Nat
        /\ \A i \in DOMAIN reminders : reminders[i] \in Reminder
    BY <2>1
  <2> QED BY <2>1, <2>2 DEF TypeInv, TypeOK, Reminder
<1>1. CASE JobStarts
  BY <1>1, <1>r DEF JobStarts, Due, RecentlyReminded, SpacedInv, JobIsDue, RemindersSpaced
<1>2. CASE JobCommits
  <2> DEFINE e == [id |-> lastId + 1, ts |-> job.ts]
             n == Len(reminders) + 1
  <2>1. job.pc = "insert" /\ reminders' = Append(reminders, e) /\ job' = NoJob
    BY <1>2 DEF JobCommits
  <2>2. reminders \in Seq(Reminder \cup {e})
    BY <1>r, WiderSeq
  <2>3. /\ DOMAIN reminders' = 1 .. n
        /\ \A i \in DOMAIN reminders : reminders'[i] = reminders[i]
        /\ reminders'[n] = e
    BY <2>1, <2>2, AppendedRow
  <2>4. RemindersSpaced'
    BY <1>r, <2>1, <2>3 DEF SpacedInv, JobIsDue, RemindersSpaced
  <2> QED BY <2>1, <2>4 DEF SpacedInv, JobIsDue, NoJob
<1>3. CASE UNCHANGED <<reminders, job>>
  BY <1>3 DEF SpacedInv, JobIsDue, RemindersSpaced
<1>4. \/ JobStarts \/ JobCommits \/ UNCHANGED <<reminders, job>>
  BY DEF Next, Working, vars, Begin, Upsert, InsertEvent, Commit, Abort, CommitInMemory, Tick
<1> QED BY <1>1, <1>2, <1>3, <1>4

(* Nobody is reminded twice within RemindEvery (adjuster_doc_reminders),   *)
(* although the job reads no more than what was committed when it began.   *)
THEOREM Spaced == Spec => []RemindersSpaced
<1>1. Init => TypeInv /\ SpacedInv
  BY TypeInit DEF Init, SpacedInv, JobIsDue, RemindersSpaced, NoJob
<1>2. TypeInv /\ SpacedInv /\ [Next]_vars => TypeInv' /\ SpacedInv'
  BY TypeStep, SpacedStep
<1>3. SpacedInv => RemindersSpaced
  BY DEF SpacedInv
<1> QED BY <1>1, <1>2, <1>3, PTL DEF Spec

-----------------------------------------------------------------------------
(* The tables implement the log.                                           *)

States(rows) == [i \in DOMAIN rows |-> rows[i].state]

LEMMA StatesOfAppend ==
  ASSUME NEW s \in Seq(Event), NEW e, e.state \in State
  PROVE  States(Append(s, e)) = Append(States(s), e.state)
<1> DEFINE n == Len(s) + 1
<1>1. s \in Seq(Event \cup {e})
  BY WiderSeq
<1>2. /\ DOMAIN s = 1 .. Len(s) /\ Len(s) \in Nat
      /\ DOMAIN Append(s, e) = 1 .. n
      /\ \A i \in DOMAIN s : Append(s, e)[i] = s[i]
      /\ Append(s, e)[n] = e
  BY <1>1, AppendedRow
<1>3. \A i \in DOMAIN s : s[i].state \in State
  <2>1. \A i \in DOMAIN s : s[i] \in Event
    OBVIOUS
  <2> QED BY <2>1 DEF Event
<1>4. States(s) \in Seq(State) /\ Len(States(s)) = Len(s)
  BY <1>2, <1>3 DEF States
<1>5. /\ DOMAIN Append(States(s), e.state) = 1 .. n
      /\ \A i \in 1 .. Len(s) : Append(States(s), e.state)[i] = s[i].state
      /\ Append(States(s), e.state)[n] = e.state
  <2>1. \A i \in 1 .. Len(s) : States(s)[i] = s[i].state
    BY <1>2 DEF States
  <2>2. DOMAIN States(s) = 1 .. Len(s)
    BY <1>2 DEF States
  <2> HIDE DEF n
  <2>3. /\ DOMAIN Append(States(s), e.state) = 1 .. (Len(States(s)) + 1)
        /\ \A i \in DOMAIN States(s) : Append(States(s), e.state)[i] = States(s)[i]
        /\ Append(States(s), e.state)[Len(States(s)) + 1] = e.state
    BY <1>4, AppendedRow
  <2> QED BY <1>4, <2>1, <2>2, <2>3 DEF n
<1>6. /\ DOMAIN States(Append(s, e)) = 1 .. n
      /\ \A i \in 1 .. n : States(Append(s, e))[i] = Append(States(s), e.state)[i]
  BY <1>2, <1>5 DEF States
<1>7. /\ Append(States(s), e.state) = [i \in 1 .. n |-> Append(States(s), e.state)[i]]
      /\ States(Append(s, e)) = [i \in 1 .. n |-> States(Append(s, e))[i]]
  <2>1. Append(States(s), e.state) \in Seq(State)
    BY <1>4, AppendedRow
  <2>2. Append(States(s), e.state) = [i \in DOMAIN Append(States(s), e.state)
                                        |-> Append(States(s), e.state)[i]]
    BY <2>1
  <2> QED BY <1>2, <1>5, <2>2 DEF States
<1> QED BY <1>5, <1>6, <1>7

LEMMA LogInit ==
  ASSUME Init
  PROVE  Log!Init
<1>1. [i \in DOMAIN transitions |-> transitions[i].state] = <<>>
  BY DEF Init
<1> QED BY <1>1 DEF Init, NoRow, Log!Init, Log!Absent, Absent

LEMMA LogStep ==
  ASSUME TypeInv, [Next]_vars
  PROVE  [Log!Next]_(Log!vars)
<1>1. transitions \in Seq(Event) /\ txn \in [Writers -> Txn]
  BY DEF TypeInv, TypeOK
<1>2. ASSUME NEW s \in State, NEW e, e.state = s,
             transitions' = Append(transitions, e), claim'.state = s
      PROVE  Log!Next
  <2>1. States(transitions') = Append(States(transitions), s)
    BY <1>1, <1>2, StatesOfAppend
  <2> QED BY <1>2, <2>1 DEF States, Log!Next, Log!CommitTransition
<1>3. ASSUME NEW w \in Writers, Commit(w)
      PROVE  Log!Next
  <2>1. txn[w].state \in State
    BY <1>1 DEF Txn
  <2> QED BY <1>2, <1>3, <2>1 DEF Commit
<1>4. ASSUME CommitInMemory
      PROVE  Log!Next
  BY <1>2, <1>4 DEF CommitInMemory
<1>5. CASE UNCHANGED <<transitions, claim>>
  BY <1>5 DEF Log!vars
<1>6. \/ \E w \in Writers : Commit(w)
      \/ CommitInMemory
      \/ UNCHANGED <<transitions, claim>>
  BY DEF Next, Working, vars, Begin, Upsert, RowAfterUpsert, InsertEvent, Abort, JobStarts,
         JobCommits, Tick
<1> QED BY <1>3, <1>4, <1>5, <1>6

(* What the transactions of any number of writers make visible is one      *)
(* transition at a time, each with its row: the detailed specification     *)
(* implements ClaimLog.                                                    *)
THEOREM Implementation == Spec => ImplementsClaimLog
<1>1. Init => TypeInv /\ Log!Init
  BY TypeInit, LogInit
<1>2. TypeInv /\ [Next]_vars => TypeInv' /\ [Log!Next]_(Log!vars)
  BY TypeStep, LogStep
<1> QED BY <1>1, <1>2, PTL DEF Spec, ImplementsClaimLog, Log!Spec
=============================================================================
