------------------------------- MODULE ClaimTables -------------------------------
(***************************************************************************)
(* The rows behind one claim: claims and claim_events, written by the      *)
(* tasks that commit its transitions and by the reminder job of pg_cron    *)
(* (persistence/postgres.py, db/migrations/002_timers.sql), or the lists   *)
(* of persistence/memory.py in a process without a database.               *)
(*                                                                         *)
(* commit_transition is a transaction of four steps with a round trip      *)
(* between them: BEGIN, which fixes now() for every ts and updated_at it   *)
(* writes; the upsert, which waits for the lock on the claim's row; the    *)
(* insert of the event, which takes the next value of the id sequence;     *)
(* COMMIT, which shows both and frees the row.  It can break off at any of *)
(* them.  The reminder is one INSERT ... SELECT: it reads what is          *)
(* committed when it starts, waits for no lock on the claim, and commits   *)
(* later.  In memory the two writes of a commit have no await between      *)
(* them, so they are one step; there are no timers.                        *)
(*                                                                         *)
(* claim_events is kept as two sequences, the transitions and the          *)
(* reminders, each in the order in which the rows were committed.  The     *)
(* clock counts days, and a transaction is over before the day after the   *)
(* one it began on ends.  The other columns are left out.                  *)
(***************************************************************************)
EXTENDS Integers, Sequences

CONSTANTS
  Writers,      \* the tasks that commit transitions of the claim
  State,        \* the states they commit
  RemindAfter,  \* days without a change before the first reminder
  RemindEvery,  \* days between reminders
  MaxClock,     \* bound: days
  MaxIds        \* bound: values taken from the id sequence

Waiting == "INFO_PENDING"
Absent  == "ABSENT"
NoOne   == "none"

ASSUME TablesAssumption ==
  /\ Waiting \in State
  /\ Absent \notin State
  /\ NoOne \notin Writers
  /\ RemindAfter \in Nat
  /\ RemindEvery \in Nat
  /\ MaxClock \in Nat
  /\ MaxIds \in Nat

VARIABLES
  backend,      \* "postgres" or "memory"
  clock,
  claim,        \* the committed row of claims
  transitions,  \* committed rows of claim_events: what commit_transition wrote
  reminders,    \* committed rows of claim_events: what the timer wrote
  lastId,       \* the last value of the id sequence
  holder,       \* who holds the lock on the claim's row
  txn,          \* the transaction of every writer
  job           \* the reminder job

vars == <<backend, clock, claim, transitions, reminders, lastId, holder, txn, job>>

Row   == [state : State \cup {Absent}, updated_at : Nat]
NoRow == [state |-> Absent, updated_at |-> 0]

(* seen is history: the ids that were committed when the writer began.     *)
Ids == 1 .. lastId

Event    == [id : Ids, ts : Nat, state : State, seen : SUBSET Ids]
Reminder == [id : Ids, ts : Nat]

Txn ==
  [pc : {"idle", "begun", "locked", "inserted"}, ts : Nat, state : State, id : Ids \cup {0},
   seen : SUBSET Ids]

NoTxn == [pc |-> "idle", ts |-> 0, state |-> Waiting, id |-> 0, seen |-> {}]

Job   == [pc : {"idle", "insert"}, ts : Nat]
NoJob == [pc |-> "idle", ts |-> 0]

Committed == {transitions[i].id : i \in DOMAIN transitions}

-----------------------------------------------------------------------------
(* commit_transition on Postgres.                                          *)

Begin(w) ==
  /\ backend = "postgres"
  /\ txn[w].pc = "idle"
  /\ \E s \in State :
       txn' = [txn EXCEPT ![w] = [pc |-> "begun", ts |-> clock, state |-> s, id |-> 0,
                                  seen |-> Committed]]
  /\ UNCHANGED <<backend, clock, claim, transitions, reminders, lastId, holder, job>>

(* The sequence is no part of a transaction: its values are not given back.*)
NextVal_Kept == lastId
NextVal == lastId + 1

RowFree_Always == TRUE
RowFree == holder = NoOne

(* Nobody else sees the row before the commit.                             *)
RowAfterUpsert_Autocommit(w) == [state |-> txn[w].state, updated_at |-> txn[w].ts]
RowAfterUpsert(w) == claim

Upsert(w) ==
  /\ txn[w].pc = "begun"
  /\ RowFree
  /\ holder' = w
  /\ txn' = [txn EXCEPT ![w].pc = "locked"]
  /\ claim' = RowAfterUpsert(w)
  /\ UNCHANGED <<backend, clock, transitions, reminders, lastId, job>>

InsertEvent(w) ==
  /\ txn[w].pc = "locked"
  /\ lastId < MaxIds
  /\ lastId' = NextVal
  /\ txn' = [txn EXCEPT ![w].pc = "inserted", ![w].id = lastId + 1]
  /\ UNCHANGED <<backend, clock, claim, transitions, reminders, holder, job>>

Commit(w) ==
  /\ txn[w].pc = "inserted"
  /\ claim' = [state |-> txn[w].state, updated_at |-> txn[w].ts]
  /\ transitions' = Append(transitions,
       [id |-> txn[w].id, ts |-> txn[w].ts, state |-> txn[w].state, seen |-> txn[w].seen])
  /\ holder' = NoOne
  /\ txn' = [txn EXCEPT ![w] = NoTxn]
  /\ UNCHANGED <<backend, clock, reminders, lastId, job>>

(* The task dies, the process stops or the connection is lost.             *)
Abort(w) ==
  /\ txn[w].pc # "idle"
  /\ holder' = IF txn[w].pc = "begun" THEN holder ELSE NoOne
  /\ txn' = [txn EXCEPT ![w] = NoTxn]
  /\ UNCHANGED <<backend, clock, claim, transitions, reminders, lastId, job>>

(* commit_transition in memory: _seq, the dictionary and the list.         *)
CommitInMemory ==
  /\ backend = "memory"
  /\ lastId < MaxIds
  /\ lastId' = NextVal
  /\ \E s \in State :
       /\ claim' = [state |-> s, updated_at |-> clock]
       /\ transitions' = Append(transitions,
            [id |-> lastId + 1, ts |-> clock, state |-> s, seen |-> Committed])
  /\ UNCHANGED <<backend, clock, reminders, holder, txn, job>>

-----------------------------------------------------------------------------
(* adjuster_doc_reminders                                                  *)

(* A reminder of the last 24 hours keeps the next one back.                *)
RecentlyReminded_Ever == reminders # <<>>
RecentlyReminded_Later ==
  \E i \in DOMAIN reminders : reminders[i].ts + RemindEvery > clock + 1
RecentlyReminded ==
  \E i \in DOMAIN reminders : reminders[i].ts + RemindEvery > clock

Due ==
  /\ claim.state = Waiting
  /\ claim.updated_at + RemindAfter < clock
  /\ ~ RecentlyReminded

(* pg_cron starts no run of a job before the last one is over.             *)
JobStarts ==
  /\ backend = "postgres"
  /\ job.pc = "idle"
  /\ Due
  /\ job' = [pc |-> "insert", ts |-> clock]
  /\ UNCHANGED <<backend, clock, claim, transitions, reminders, lastId, holder, txn>>

JobCommits ==
  /\ job.pc = "insert"
  /\ lastId' = NextVal
  /\ reminders' = Append(reminders, [id |-> lastId + 1, ts |-> job.ts])
  /\ job' = NoJob
  /\ UNCHANGED <<backend, clock, claim, transitions, holder, txn>>

-----------------------------------------------------------------------------
(* get_events: ORDER BY ts, id.  In memory the order of insertion, which   *)
(* is the order of both.                                                   *)
Before_TiesReversed(e, f) == e.ts < f.ts \/ (e.ts = f.ts /\ e.id > f.id)
Before(e, f) == e.ts < f.ts \/ (e.ts = f.ts /\ e.id < f.id)

Tick ==
  /\ clock < MaxClock
  /\ \A w \in Writers : txn[w].pc = "idle" \/ txn[w].ts = clock
  /\ job.pc = "idle" \/ job.ts = clock
  /\ clock' = clock + 1
  /\ UNCHANGED <<backend, claim, transitions, reminders, lastId, holder, txn, job>>

Init ==
  /\ backend \in {"postgres", "memory"}
  /\ clock = 0
  /\ claim = NoRow
  /\ transitions = <<>>
  /\ reminders = <<>>
  /\ lastId = 0
  /\ holder = NoOne
  /\ txn = [w \in Writers |-> NoTxn]
  /\ job = NoJob

Working(w) == Upsert(w) \/ InsertEvent(w) \/ Commit(w) \/ Abort(w)

Next ==
  \/ \E w \in Writers : Begin(w) \/ Working(w)
  \/ CommitInMemory \/ JobStarts \/ JobCommits \/ Tick

Spec == Init /\ [][Next]_vars

(* Time passes, pg_cron runs its jobs, and a transaction ends one way or   *)
(* the other; nothing says that a task commits anything.                   *)
FairSpec ==
  /\ Spec
  /\ WF_vars(Tick)
  /\ WF_vars(JobStarts \/ JobCommits)
  /\ \A w \in Writers : WF_vars(Working(w))

-----------------------------------------------------------------------------
TypeOK ==
  /\ backend \in {"postgres", "memory"}
  /\ clock \in Nat
  /\ claim \in Row
  /\ transitions \in Seq(Event)
  /\ reminders \in Seq(Reminder)
  /\ lastId \in Nat
  /\ holder \in Writers \cup {NoOne}
  /\ txn \in [Writers -> Txn]
  /\ job \in Job

(* The ids of a claim's transitions follow the order of their commits,     *)
(* although the sequence is no part of the transactions: the id is taken   *)
(* under the lock on the row (commit_transition upserts first).            *)
IdsFollowCommits ==
  \A i, j \in DOMAIN transitions : i < j => transitions[i].id < transitions[j].id

(* A transition that was committed before another began comes before it    *)
(* in the timeline, also within one tick of the clock (get_events).        *)
TimelineIsCausal ==
  \A i, j \in DOMAIN transitions :
    transitions[i].id \in transitions[j].seen => Before(transitions[i], transitions[j])

(* Nobody is reminded twice within 24 hours, whatever transitions and      *)
(* earlier runs are under way (adjuster_doc_reminders).                    *)
RemindersSpaced ==
  \A i, j \in DOMAIN reminders : i < j => reminders[i].ts + RemindEvery <= reminders[j].ts

(* A claim that has waited for documents for more than 72 hours, and got   *)
(* no reminder for 24, gets one, for as long as it waits.                  *)
Overdue ==
  /\ backend = "postgres"
  /\ claim.state = Waiting
  /\ claim.updated_at + RemindAfter < clock
  /\ \A i \in DOMAIN reminders : reminders[i].ts + RemindEvery <= clock

OverdueIsReminded == Overdue ~> ~ Overdue

(* The tables implement the log the store promises: what overlapping,      *)
(* broken-off and delayed transactions make visible is one transition at a *)
(* time, in the order of the ids, each with its row (commit_transition).   *)
Log ==
  INSTANCE ClaimLog WITH
    log        <- [i \in DOMAIN transitions |-> transitions[i].state],
    projection <- claim.state

ImplementsClaimLog == Log!Spec

(* The claim is a projection of its timeline: the last transition          *)
(* get_events lists is the one the row shows.                              *)
TimelineEndsAtRow ==
  \A i \in DOMAIN transitions :
    (\A j \in DOMAIN transitions \ {i} : Before(transitions[j], transitions[i]))
      => claim.state = transitions[i].state
=============================================================================
