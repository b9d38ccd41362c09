------------------------ MODULE ClaimLifecycleProofs ------------------------
(***************************************************************************)
(* Theorems about ClaimLifecycle, for every number of tasks, every routing *)
(* config, every set of answers and every bound: whatever overlaps and     *)
(* whenever the service crashes.                                           *)
(***************************************************************************)
EXTENDS ClaimLifecycle, FiniteSetTheorems, SequenceTheorems, TLAPS

-----------------------------------------------------------------------------
(* Data.                                                                   *)

LEMMA RequiredFieldsSize ==
  IsFiniteSet(RequiredFields) /\ Cardinality(RequiredFields) = 3
<1>1. IsFiniteSet({"policy_number"}) /\ Cardinality({"policy_number"}) = 1
  BY FS_Singleton
<1>2. IsFiniteSet({"policy_number", "loss_date"})
        /\ Cardinality({"policy_number", "loss_date"}) = 2
  <2>1. {"policy_number", "loss_date"} = {"policy_number"} \cup {"loss_date"}
    OBVIOUS
  <2> QED BY <1>1, <2>1, FS_AddElement
<1>3. RequiredFields = {"policy_number", "loss_date"} \cup {"loss_location"}
  BY DEF RequiredFields
<1> QED BY <1>2, <1>3, FS_AddElement

LEMMA CompletenessType ==
  ASSUME NEW fields
  PROVE  AssessCompleteness(fields) \in Percent
<1> DEFINE n == Cardinality(fields \cap RequiredFields)
<1>1. n \in 0..3
  <2>1. IsFiniteSet(fields \cap RequiredFields) /\ n <= 3
    BY RequiredFieldsSize, FS_Subset
  <2> QED BY <2>1, FS_CardinalityType
<1>2. (100 * n) \div 3 \in 0..100
  <2> HIDE DEF n
  <2> QED BY <1>1
<1> QED BY <1>2, RequiredFieldsSize DEF AssessCompleteness, Percent

LEMMA ExtractedType ==
  ASSUME NEW fields \in SUBSET Field, NEW low \in SUBSET Field
  PROVE  Extracted(fields, low) \in Extraction
BY CompletenessType DEF Extracted, Extraction, MissingRequired, Field

LEMMA WithDocumentsType ==
  ASSUME NEW extraction \in Extraction, NEW fields \in SUBSET Field
  PROVE  WithDocuments(extraction, fields) \in Extraction
BY DEF WithDocuments, Extraction, Percent

LEMMA NewAggregateType == NewAggregate \in Aggregate
BY DEF NewAggregate, Aggregate, ClaimState, NoWorkflow, Workflow, RuleId, NoExtraction,
       Extraction, NoClassification, Classification, NoInvestigation, Investigation,
       NoCoverage, Coverage, Covered, Percent, Field, RequiredFields

LEMMA NoResumeType == NoResume \in ResumeValue
BY DEF NoResume, ResumeValue

LEMMA CommitType ==
  ASSUME NEW agg \in Aggregate, NEW type \in EventType
  PROVE  Commit(agg, type) \in Transition
BY DEF Commit, RowOf, Transition, Row, Event, Aggregate, NoWorkflow

LEMMA IdleTaskType == IdleTask \in Task
BY NewAggregateType, NoResumeType
   DEF IdleTask, Task, PC, Node

LEMMA RunningType ==
  ASSUME NEW node \in Node \cup {"none"}, NEW agg \in Aggregate,
         NEW value \in ResumeValue, NEW fresh \in BOOLEAN
  PROVE  /\ Running(node, agg, value) \in Task
         /\ [Running(node, agg, value) EXCEPT !.fresh = fresh] \in Task
BY IdleTaskType DEF Running, Task, PC

LEMMA RouteType ==
  ASSUME NEW agg, NEW r \in RoutesFor(agg)
  PROVE  r.workflow \in Workflow /\ r.rule_id \in RuleId
<1> DEFINE d == Route(RouterInputOf(agg), Config)
<1>1. d.workflow \in Workflow /\ d.rule_id \in RuleId
  BY DEF Route, Decision, Workflow, RuleId
<1>2. PICK q \in Tiebreak(d, Grounded) : r = CapDegraded(q, agg.investigation.degraded)
  BY DEF RoutesFor, RoutesOf
<1>3. q.workflow \in Workflow /\ q.rule_id \in RuleId
  <2> HIDE DEF d
  <2> QED BY <1>1, <1>2 DEF Tiebreak, Workflow, RuleId
<1> QED BY <1>2, <1>3 DEF CapDegraded, Workflow, RuleId

-----------------------------------------------------------------------------
(* What the ways a task changes do to the tasks.                           *)

LEMMA BecomesType ==
  ASSUME tasks \in [Slots -> Task], NEW t \in Slots, NEW task \in Task, Becomes(t, task)
  PROVE  /\ tasks' \in [Slots -> Task]
         /\ tasks'[t] = task
         /\ \A u \in Slots \ {t} : tasks'[u] = tasks[u]
BY DEF Becomes

LEMMA ReturnType ==
  ASSUME tasks \in [Slots -> Task], NEW t \in Slots, NEW agg \in Aggregate,
         NEW commits \in Seq(Transition), NEW goto \in Node \cup {"END", "RAISE"},
         Return(t, agg, commits, goto)
  PROVE  tasks' \in [Slots -> Task]
<1>1. [tasks[t] EXCEPT !.pc = "commit", !.agg = agg, !.todo = commits, !.goto = goto] \in Task
  <2>1. tasks[t] \in Task
    OBVIOUS
  <2> QED BY <2>1 DEF Task, PC
<1> QED BY <1>1, BecomesType DEF Return

LEMMA MoveToType ==
  ASSUME tasks \in [Slots -> Task], NEW t \in Slots, NEW pc \in PC, MoveTo(t, pc)
  PROVE  tasks' \in [Slots -> Task]
<1>1. [tasks[t] EXCEPT !.pc = pc] \in Task
  BY DEF Task
<1> QED BY <1>1, BecomesType DEF MoveTo

LEMMA PayType ==
  ASSUME tasks \in [Slots -> Task], NEW t \in Slots, NEW amount \in Nat, Pay(t, amount)
  PROVE  tasks' \in [Slots -> Task]
<1>1. [tasks[t] EXCEPT !.pc = "lookup", !.pay = amount] \in Task
  BY DEF Task, PC
<1> QED BY <1>1, BecomesType DEF Pay

LEMMA PayAnswerType ==
  ASSUME tasks \in [Slots -> Task], NEW t \in Slots, NEW ok \in BOOLEAN, PayAnswer(t, ok)
  PROVE  tasks' \in [Slots -> Task]
<1>1. [tasks[t] EXCEPT !.pc = "paid", !.ok = ok] \in Task
  BY DEF Task, PC
<1> QED BY <1>1, BecomesType DEF PayAnswer

LEMMA OneCommit ==
  ASSUME NEW agg \in Aggregate, NEW type \in EventType
  PROVE  <<Commit(agg, type)>> \in Seq(Transition)
BY CommitType

LEMMA TwoCommits ==
  ASSUME NEW agg \in Aggregate, NEW type \in EventType, NEW type2 \in EventType
  PROVE  <<Commit(agg, type), Commit(agg, type2)>> \in Seq(Transition)
BY CommitType

LEMMA UnlessExhaustedType ==
  ASSUME NEW agg, NEW node \in Node
  PROVE  UnlessExhausted(agg, node) \in Node \cup {"END", "RAISE"}
BY DEF UnlessExhausted

LEMMA CompensatedType ==
  ASSUME NEW agg \in Aggregate
  PROVE  Compensated(agg) \in Aggregate
BY DEF Compensated, Aggregate, ClaimState

LEMMA StateType ==
  ASSUME NEW agg \in Aggregate, NEW state \in ClaimState
  PROVE  [agg EXCEPT !.state = state] \in Aggregate
BY DEF Aggregate

LEMMA TaskType ==
  ASSUME TypeOK, NEW t \in Slots
  PROVE  /\ tasks \in [Slots -> Task]
         /\ tasks[t] \in Task
         /\ tasks[t].agg \in Aggregate
         /\ tasks[t].value \in ResumeValue
         /\ tasks[t].todo \in Seq(Transition)
         /\ tasks[t].pay \in Nat
BY DEF TypeOK, Task

LEMMA ElsewhereType ==
  ASSUME TypeOK, Elsewhere, tasks' \in [Slots -> Task]
  PROVE  TypeOK'
BY DEF TypeOK, Elsewhere, durable, world, bounds

-----------------------------------------------------------------------------
(* Every action keeps the types.                                           *)

LEMMA StartsType ==
  ASSUME TypeOK, NEW t \in Slots, StartRun(t) \/ StartResume(t)
  PROVE  TypeOK'
<1>1. CASE StartRun(t)
  <2>1. tasks' \in [Slots -> Task]
    BY <1>1, TaskType, BecomesType, RunningType, NewAggregateType, NoResumeType
       DEF StartRun, Node
  <2> QED
    BY <1>1, <2>1, NewAggregateType, NoResumeType
       DEF TypeOK, StartRun, Checkpoint, Node, durable, world, bounds
<1>2. CASE StartResume(t)
  <2>1. checkpoint.agg \in Aggregate /\ checkpoint.resume \in ResumeValue
    BY DEF TypeOK, Checkpoint
  <2>2. CASE NothingToRun /\ Becomes(t, IdleTask)
    <3> QED BY <1>2, <2>2, TaskType, BecomesType, IdleTaskType, ElsewhereType DEF StartResume
  <2>3. CASE /\ checkpoint.next \in Node
             /\ \E value \in {tasks[t].value, checkpoint.resume} \ {NoResume} :
                  Becomes(t, Running(checkpoint.next, checkpoint.agg, value))
    <3>1. PICK value \in ResumeValue : Becomes(t, Running(checkpoint.next, checkpoint.agg, value))
      BY <2>1, <2>3, TaskType
    <3>2. Running(checkpoint.next, checkpoint.agg, value) \in Task
      BY <2>1, <2>3, RunningType
    <3> QED BY <1>2, <3>1, <3>2, TaskType, BecomesType, ElsewhereType DEF StartResume
  <2> QED BY <1>2, <2>2, <2>3 DEF StartResume
<1> QED BY <1>1, <1>2

LEMMA TriagingType ==
  ASSUME TypeOK, NEW t \in Slots, Triaging(t)
  PROVE  TypeOK'
<1> DEFINE a == tasks[t].agg
<1>0. a \in Aggregate /\ tasks \in [Slots -> Task]
  BY TaskType
<1>1. CASE Extract(t)
  <2>1. PICK reading \in Readings, cost \in TokenCosts :
          LET agg == [tasks[t].agg EXCEPT
                        !.extraction = Extracted(reading.fields, reading.low),
                        !.tokens = @ + cost, !.state = "TRIAGE"]
          IN  Return(t, agg, <<Commit(agg, "EXTRACTED")>>, UnlessExhausted(agg, "classify"))
    BY <1>1 DEF Extract
  <2> DEFINE agg == [a EXCEPT !.extraction = Extracted(reading.fields, reading.low),
                              !.tokens = @ + cost, !.state = "TRIAGE"]
  <2>2. agg \in Aggregate
    <3>1. Extracted(reading.fields, reading.low) \in Extraction /\ cost \in Nat
      BY LifecycleAssumption, ExtractedType DEF Reading
    <3>2. a.tokens + cost \in Nat
      BY <1>0, <3>1 DEF Aggregate
    <3> HIDE DEF a
    <3> QED BY <1>0, <3>1, <3>2 DEF Aggregate, ClaimState
  <2>3. Return(t, agg, <<Commit(agg, "EXTRACTED")>>, UnlessExhausted(agg, "classify"))
    BY <2>1
  <2> HIDE DEF agg
  <2>4. tasks' \in [Slots -> Task]
    BY <1>0, <2>2, <2>3, ReturnType, OneCommit, UnlessExhaustedType DEF EventType, Node
  <2> QED BY <1>1, <2>4, ElsewhereType DEF Extract
<1>2. CASE Classify(t)
  <2>1. PICK cls \in Classifications, cost \in TokenCosts :
          LET agg == [tasks[t].agg EXCEPT !.classification = cls, !.tokens = @ + cost]
          IN  Return(t, agg, <<Commit(agg, "CLASSIFIED")>>, UnlessExhausted(agg, "investigate"))
    BY <1>2 DEF Classify
  <2> DEFINE agg == [a EXCEPT !.classification = cls, !.tokens = @ + cost]
  <2>2. agg \in Aggregate
    <3>1. cls \in Classification /\ cost \in Nat
      BY LifecycleAssumption
    <3>2. a.tokens + cost \in Nat
      BY <1>0, <3>1 DEF Aggregate
    <3> HIDE DEF a
    <3> QED BY <1>0, <3>1, <3>2 DEF Aggregate
  <2>3. Return(t, agg, <<Commit(agg, "CLASSIFIED")>>, UnlessExhausted(agg, "investigate"))
    BY <2>1
  <2> HIDE DEF agg
  <2>4. tasks' \in [Slots -> Task]
    BY <1>0, <2>2, <2>3, ReturnType, OneCommit, UnlessExhaustedType DEF EventType, Node
  <2> QED BY <1>2, <2>4, ElsewhereType DEF Classify
<1>3. CASE Investigate(t)
  <2>1. PICK inv \in Investigations, cost \in GroundedCosts :
          LET agg == [tasks[t].agg EXCEPT !.investigation = inv, !.tokens = @ + cost,
                                          !.state = "TRIAGE"]
          IN  Return(t, agg,
                     IF inv.degraded
                     THEN <<Commit(agg, "INVESTIGATED"), Commit(agg, "DEGRADED_MODE")>>
                     ELSE <<Commit(agg, "INVESTIGATED")>>,
                     UnlessExhausted(agg, "route"))
    BY <1>3 DEF Investigate
  <2> DEFINE agg == [a EXCEPT !.investigation = inv, !.tokens = @ + cost, !.state = "TRIAGE"]
  <2> DEFINE commits == IF inv.degraded
                        THEN <<Commit(agg, "INVESTIGATED"), Commit(agg, "DEGRADED_MODE")>>
                        ELSE <<Commit(agg, "INVESTIGATED")>>
  <2>2. agg \in Aggregate
    <3>1. inv \in Investigation /\ cost \in Nat
      BY LifecycleAssumption DEF GroundedCosts
    <3>2. a.tokens + cost \in Nat
      BY <1>0, <3>1 DEF Aggregate
    <3> HIDE DEF a
    <3> QED BY <1>0, <3>1, <3>2 DEF Aggregate, ClaimState
  <2>3. Return(t, agg, commits, UnlessExhausted(agg, "route"))
    BY <2>1
  <2>4. commits \in Seq(Transition)
    <3> HIDE DEF agg
    <3> QED BY <2>2, OneCommit, TwoCommits DEF EventType
  <2> HIDE DEF agg, commits
  <2>5. tasks' \in [Slots -> Task]
    BY <1>0, <2>2, <2>3, <2>4, ReturnType, UnlessExhaustedType DEF Node
  <2> QED BY <1>3, <2>5, ElsewhereType DEF Investigate
<1>4. CASE RouteNode(t)
  <2>1. PICK r \in RoutesFor(a),
             cost \in IF NeedsTiebreak(a) THEN GroundedCosts ELSE {0} :
          LET agg == [tasks[t].agg EXCEPT !.workflow = r.workflow, !.rule_id = r.rule_id,
                                          !.state = "PLANNING", !.tokens = @ + cost]
          IN  Return(t, agg, <<Commit(agg, "ROUTED")>>,
                     UnlessExhausted(agg, NodeFor(r.workflow)))
    BY <1>4 DEF RouteNode
  <2> DEFINE agg == [a EXCEPT !.workflow = r.workflow, !.rule_id = r.rule_id,
                              !.state = "PLANNING", !.tokens = @ + cost]
  <2>2. r.workflow \in Workflow /\ r.rule_id \in RuleId
    BY RouteType
  <2>3. agg \in Aggregate
    <3>1. cost \in Nat
      BY LifecycleAssumption DEF GroundedCosts
    <3>2. a.tokens + cost \in Nat
      BY <1>0, <3>1 DEF Aggregate
    <3> HIDE DEF a
    <3> QED BY <1>0, <2>2, <3>1, <3>2 DEF Aggregate, ClaimState
  <2>4. Return(t, agg, <<Commit(agg, "ROUTED")>>, UnlessExhausted(agg, NodeFor(r.workflow)))
    BY <2>1
  <2>5. NodeFor(r.workflow) \in Node
    BY <2>2 DEF NodeFor, Workflow, Node
  <2> HIDE DEF agg
  <2>6. tasks' \in [Slots -> Task]
    BY <1>0, <2>3, <2>4, <2>5, ReturnType, OneCommit, UnlessExhaustedType DEF EventType
  <2> QED BY <1>4, <2>6, ElsewhereType DEF RouteNode
<1>5. CASE LLMFails(t)
  BY <1>0, <1>5, MoveToType, ElsewhereType DEF LLMFails, PC
<1> QED BY <1>1, <1>2, <1>3, <1>4, <1>5 DEF Triaging

LEMMA PayingType ==
  ASSUME TypeOK, NEW t \in Slots, Paying(t)
  PROVE  TypeOK'
<1>0. tasks \in [Slots -> Task]
  BY TaskType
<1>1. CASE PayRefused(t)
  BY <1>0, <1>1, PayAnswerType, ElsewhereType DEF PayRefused
<1>2. CASE PayInvalid(t)
  <2>1. tasks' \in [Slots -> Task]
    BY <1>0, <1>2, MoveToType DEF PayInvalid, PC
  <2>2. checkpoint' \in Checkpoint
    BY <1>2, TaskType DEF PayInvalid, TypeOK, Checkpoint
  <2> QED BY <1>2, <2>1, <2>2 DEF TypeOK, PayInvalid, world, bounds
<1>3. CASE PayLookup(t)
  <2>1. tasks' \in [Slots -> Task]
    BY <1>0, <1>3, PayAnswerType, MoveToType DEF PayLookup, PC
  <2> QED BY <1>3, <2>1, ElsewhereType DEF PayLookup
<1>4. CASE PayRail(t)
  <2>1. tasks' \in [Slots -> Task]
    BY <1>0, <1>4, MoveToType DEF PayRail, PC
  <2>2. [amount         |-> tasks[t].pay,
         workflow       |-> tasks[t].agg.workflow,
         extraction     |-> tasks[t].agg.extraction,
         classification |-> tasks[t].agg.classification,
         investigation  |-> tasks[t].agg.investigation] \in Disbursement
    BY TaskType DEF Disbursement, Aggregate
  <2>3. rail' \in Seq(Disbursement)
    BY <1>4, <2>2 DEF PayRail, TypeOK
  <2> QED BY <1>4, <2>1, <2>3 DEF TypeOK, PayRail, durable, bounds
<1>5. CASE PayRecord(t)
  <2>1. tasks' \in [Slots -> Task]
    BY <1>0, <1>5, PayAnswerType DEF PayRecord
  <2> QED BY <1>5, <2>1 DEF TypeOK, PayRecord, world, bounds
<1> QED BY <1>1, <1>2, <1>3, <1>4, <1>5 DEF Paying

LEMMA AfterType ==
  ASSUME NEW agg
  PROVE  /\ AfterW1(agg) \in Node \cup {"END", "RAISE"}
         /\ AfterW2(agg) \in Node \cup {"END", "RAISE"}
         /\ AfterW4(agg) \in Node \cup {"END", "RAISE"}
BY DEF AfterW1, AfterW2, AfterW4, Node

LEMMA CreateApprovalType ==
  ASSUME TypeOK, NEW action \in Action, NEW amount \in Nat, CreateApproval(action, amount)
  PROVE  approval' \in Approval
BY DEF TypeOK, CreateApproval, Approval

LEMMA W1Type ==
  ASSUME TypeOK, NEW t \in Slots, W1Execute(t) \/ W1Paid(t) \/ Settle(t) \/ Close(t)
  PROVE  TypeOK'
<1> DEFINE a == tasks[t].agg
<1>0. a \in Aggregate /\ tasks \in [Slots -> Task] /\ tasks[t].pay \in Nat
  BY TaskType
<1>1. CASE W1Execute(t)
  <2> DEFINE executing == Commit([a EXCEPT !.state = "EXECUTING"], "EXECUTING")
  <2>1. executing \in Transition
    <3>1. [a EXCEPT !.state = "EXECUTING"] \in Aggregate
      BY <1>0, StateType DEF ClaimState
    <3> QED BY <3>1, CommitType DEF EventType
  <2>2. claim' = executing.row /\ events' = Append(events, executing.event)
    BY <1>1 DEF W1Execute
  <2>3. claim' \in Row /\ events' \in Seq(Event)
    <3> HIDE DEF executing
    <3> QED BY <2>1, <2>2 DEF TypeOK, Transition
  <2>4. a.investigation.amount_est \in Nat
    BY <1>0 DEF Aggregate, Investigation
  <2>5. tasks' \in [Slots -> Task]
    BY <1>0, <1>1, <2>4, PayType DEF W1Execute
  <2> QED BY <1>1, <2>3, <2>5 DEF TypeOK, W1Execute, world, bounds
<1>2. CASE W1Paid(t)
  <2> DEFINE pay == tasks[t].pay
  <2> DEFINE agg == IF tasks[t].ok
                    THEN [a EXCEPT !.reserve = pay, !.paid = pay, !.state = "EXECUTING"]
                    ELSE Compensated(a)
  <2> DEFINE commits == IF tasks[t].ok THEN <<>> ELSE <<Commit(agg, "COMPENSATED")>>
  <2>1. agg \in Aggregate
    <3>1. [a EXCEPT !.reserve = pay, !.paid = pay, !.state = "EXECUTING"] \in Aggregate
      <4> HIDE DEF a, pay
      <4> QED BY <1>0 DEF Aggregate, ClaimState, pay
    <3> QED BY <1>0, <3>1, CompensatedType
  <2>2. commits \in Seq(Transition)
    <3> HIDE DEF agg
    <3> QED BY <2>1, OneCommit DEF EventType
  <2>3. Return(t, agg, commits, AfterW1(agg))
    BY <1>2 DEF W1Paid
  <2> HIDE DEF agg, commits
  <2>4. tasks' \in [Slots -> Task]
    BY <1>0, <2>1, <2>2, <2>3, ReturnType, AfterType
  <2> QED BY <1>2, <2>4, ElsewhereType DEF W1Paid
<1>3. CASE Settle(t)
  <2> DEFINE agg == [a EXCEPT !.state = "SETTLEMENT"]
  <2>1. agg \in Aggregate
    BY <1>0, StateType DEF ClaimState
  <2>2. Return(t, agg, <<Commit(agg, "SETTLED")>>, "close")
    BY <1>3 DEF Settle
  <2> HIDE DEF agg
  <2>3. tasks' \in [Slots -> Task]
    BY <1>0, <2>1, <2>2, ReturnType, OneCommit DEF EventType, Node
  <2> QED BY <1>3, <2>3, ElsewhereType DEF Settle
<1>4. CASE Close(t)
  <2> DEFINE agg == [a EXCEPT !.state = "CLOSED"]
  <2>1. agg \in Aggregate
    BY <1>0, StateType DEF ClaimState
  <2>2. Return(t, agg, <<Commit(agg, "CLOSED")>>, "END")
    BY <1>4 DEF Close
  <2> HIDE DEF agg
  <2>3. tasks' \in [Slots -> Task]
    BY <1>0, <2>1, <2>2, ReturnType, OneCommit DEF EventType
  <2> QED BY <1>4, <2>3, ElsewhereType DEF Close
<1> QED BY <1>1, <1>2, <1>3, <1>4

LEMMA W2Type ==
  ASSUME TypeOK, NEW t \in Slots,
         \/ W2Deny(t) \/ W2Pay(t) \/ W2Resolve(t) \/ W2Rejected(t) \/ W2Denied(t)
         \/ W2Approved(t) \/ W2Paid(t)
  PROVE  TypeOK'
<1> DEFINE a == tasks[t].agg
<1>0. a \in Aggregate /\ tasks \in [Slots -> Task] /\ tasks[t].pay \in Nat
  BY TaskType
<1>1. CASE W2Deny(t)
  <2>1. PICK cost \in TokenCosts :
          LET agg == [tasks[t].agg EXCEPT !.state = "REVIEW_PENDING", !.tokens = @ + cost]
          IN  Return(t, agg, <<Commit(agg, "APPROVAL_REQUESTED")>>,
                     UnlessExhausted(agg, "w2_await"))
    BY <1>1 DEF W2Deny
  <2> DEFINE agg == [a EXCEPT !.state = "REVIEW_PENDING", !.tokens = @ + cost]
  <2>2. agg \in Aggregate
    <3>1. cost \in Nat
      BY LifecycleAssumption
    <3>2. a.tokens + cost \in Nat
      BY <1>0, <3>1 DEF Aggregate
    <3> HIDE DEF a
    <3> QED BY <1>0, <3>2 DEF Aggregate, ClaimState
  <2>3. Return(t, agg, <<Commit(agg, "APPROVAL_REQUESTED")>>, UnlessExhausted(agg, "w2_await"))
    BY <2>1
  <2> HIDE DEF agg
  <2>4. tasks' \in [Slots -> Task]
    BY <1>0, <2>2, <2>3, ReturnType, OneCommit, UnlessExhaustedType DEF EventType, Node
  <2>5. approval' \in Approval
    BY <1>1, CreateApprovalType DEF W2Deny, Action
  <2> QED BY <1>1, <2>4, <2>5 DEF TypeOK, W2Deny, world, bounds
<1>2. CASE W2Pay(t)
  <2> DEFINE amount == a.investigation.amount_est
  <2> DEFINE agg == [a EXCEPT !.state = "REVIEW_PENDING", !.reserve = amount]
  <2>1. amount \in Nat
    BY <1>0 DEF Aggregate, Investigation
  <2>2. agg \in Aggregate
    <3> HIDE DEF a
    <3> QED BY <1>0, <2>1 DEF Aggregate, ClaimState
  <2>3. Return(t, agg, <<Commit(agg, "APPROVAL_REQUESTED")>>, UnlessExhausted(agg, "w2_await"))
    BY <1>2 DEF W2Pay
  <2> HIDE DEF agg
  <2>4. tasks' \in [Slots -> Task]
    BY <1>0, <2>2, <2>3, ReturnType, OneCommit, UnlessExhaustedType DEF EventType, Node
  <2>5. approval' \in Approval
    BY <1>2, <2>1, CreateApprovalType DEF W2Pay, Action
  <2> QED BY <1>2, <2>4, <2>5 DEF TypeOK, W2Pay, world, bounds
<1>3. CASE W2Resolve(t)
  <2>1. ResolutionOf(tasks[t].value) \in {"none", "pending"} \cup Resolution
    BY TaskType DEF ResolutionOf, ResumeValue, Resolution
  <2>2. tasks' \in [Slots -> Task]
    BY <1>0, <1>3, MoveToType DEF W2Resolve, PC
  <2>3. approval' \in Approval
    BY <1>3, <2>1 DEF W2Resolve, TypeOK, Approval
  <2> QED BY <1>3, <2>2, <2>3 DEF TypeOK, W2Resolve, world, bounds
<1>4. CASE W2Rejected(t)
  <2> DEFINE agg == [a EXCEPT !.state = "ESCALATED"]
  <2>1. agg \in Aggregate
    BY <1>0, StateType DEF ClaimState
  <2>2. Return(t, agg, <<Commit(agg, "APPROVAL_RESOLVED")>>, AfterW2(agg))
    BY <1>4 DEF W2Rejected
  <2> HIDE DEF agg
  <2>3. tasks' \in [Slots -> Task]
    BY <1>0, <2>1, <2>2, ReturnType, OneCommit, AfterType DEF EventType
  <2> QED BY <1>4, <2>3, ElsewhereType DEF W2Rejected
<1>5. CASE W2Denied(t)
  <2> DEFINE agg == [a EXCEPT !.state = "DENIED"]
  <2>1. agg \in Aggregate
    BY <1>0, StateType DEF ClaimState
  <2>2. Return(t, agg, <<Commit(agg, "APPROVAL_RESOLVED"), Commit(agg, "DENIED")>>,
               AfterW2(agg))
    BY <1>5 DEF W2Denied
  <2> HIDE DEF agg
  <2>3. tasks' \in [Slots -> Task]
    BY <1>0, <2>1, <2>2, ReturnType, TwoCommits, AfterType DEF EventType
  <2>4. letters' \in Nat
    BY <1>5 DEF TypeOK, W2Denied
  <2> QED BY <1>5, <2>3, <2>4 DEF TypeOK, W2Denied, durable, bounds
<1>6. CASE W2Approved(t)
  <2>1. AmountToPay(tasks[t].value) \in Nat
    BY TaskType DEF AmountToPay, TypeOK, Approval, ResumeValue
  <2>2. tasks' \in [Slots -> Task]
    BY <1>0, <1>6, <2>1, PayType DEF W2Approved
  <2> QED BY <1>6, <2>2, ElsewhereType DEF W2Approved
<1>7. CASE W2Paid(t)
  <2> DEFINE pay == tasks[t].pay
  <2> DEFINE agg == IF tasks[t].ok
                    THEN [a EXCEPT !.reserve = IF @ > pay THEN @ ELSE pay,
                                   !.paid = pay, !.state = "SETTLEMENT"]
                    ELSE Compensated(a)
  <2> DEFINE type == IF tasks[t].ok THEN "SETTLED" ELSE "COMPENSATED"
  <2>1. agg \in Aggregate
    <3>1. [a EXCEPT !.reserve = IF @ > pay THEN @ ELSE pay, !.paid = pay,
                    !.state = "SETTLEMENT"] \in Aggregate
      <4>1. (IF a.reserve > pay THEN a.reserve ELSE pay) \in Nat
        BY <1>0 DEF Aggregate
      <4> HIDE DEF a, pay
      <4> QED BY <1>0, <4>1 DEF Aggregate, ClaimState, pay
    <3> QED BY <1>0, <3>1, CompensatedType
  <2>2. Return(t, agg, <<Commit(agg, "APPROVAL_RESOLVED"), Commit(agg, type)>>, AfterW2(agg))
    BY <1>7 DEF W2Paid
  <2>3. type \in EventType
    BY DEF EventType
  <2> HIDE DEF agg, type
  <2>4. tasks' \in [Slots -> Task]
    BY <1>0, <2>1, <2>2, <2>3, ReturnType, TwoCommits, AfterType DEF EventType
  <2> QED BY <1>7, <2>4, ElsewhereType DEF W2Paid
<1> QED BY <1>1, <1>2, <1>3, <1>4, <1>5, <1>6, <1>7

LEMMA HandOverType ==
  ASSUME TypeOK, NEW t \in Slots, Escalate(t) \/ W4Request(t) \/ W4Await(t)
  PROVE  TypeOK'
<1> DEFINE a == tasks[t].agg
<1>0. a \in Aggregate /\ tasks \in [Slots -> Task]
  BY TaskType
<1>1. CASE Escalate(t)
  <2> DEFINE agg == [a EXCEPT !.state = "ESCALATED"]
  <2>1. agg \in Aggregate
    BY <1>0, StateType DEF ClaimState
  <2>2. Return(t, agg, <<Commit(agg, "ESCALATED")>>, "END")
    BY <1>1 DEF Escalate
  <2> HIDE DEF agg
  <2>3. tasks' \in [Slots -> Task]
    BY <1>0, <2>1, <2>2, ReturnType, OneCommit DEF EventType
  <2> QED BY <1>1, <2>3, ElsewhereType DEF Escalate
<1>2. CASE W4Request(t)
  <2> DEFINE agg == [a EXCEPT !.state = "INFO_PENDING"]
  <2>1. agg \in Aggregate
    BY <1>0, StateType DEF ClaimState
  <2>2. Return(t, agg, <<Commit(agg, "PARKED")>>, "w4_await")
    BY <1>2 DEF W4Request
  <2> HIDE DEF agg
  <2>3. tasks' \in [Slots -> Task]
    BY <1>0, <2>1, <2>2, ReturnType, OneCommit DEF EventType, Node
  <2> QED BY <1>2, <2>3, ElsewhereType DEF W4Request
<1>3. CASE W4Await(t)
  <2> DEFINE replans == a.replans + 1
  <2> DEFINE agg == IF LimitReached(replans)
                    THEN [a EXCEPT !.state = "ESCALATED", !.replans = replans]
                    ELSE [a EXCEPT !.extraction = WithDocuments(@, tasks[t].value.fields),
                                   !.replans = replans, !.state = "TRIAGE"]
  <2> DEFINE type == IF LimitReached(replans) THEN "REPLAN_LIMIT" ELSE "DOCUMENT_RECEIVED"
  <2>1. agg \in Aggregate
    <3>1. replans \in Nat
      BY <1>0 DEF Aggregate
    <3>2. WithDocuments(a.extraction, tasks[t].value.fields) \in Extraction
      BY TaskType, WithDocumentsType DEF Aggregate, ResumeValue
    <3> HIDE DEF a, replans
    <3> QED BY <1>0, <3>1, <3>2 DEF Aggregate, ClaimState
  <2>2. Return(t, agg, <<Commit(agg, type)>>, AfterW4(agg))
    BY <1>3 DEF W4Await
  <2>3. type \in EventType
    BY DEF EventType
  <2> HIDE DEF agg, type
  <2>4. tasks' \in [Slots -> Task]
    BY <1>0, <2>1, <2>2, <2>3, ReturnType, OneCommit, AfterType
  <2> QED BY <1>3, <2>4, ElsewhereType DEF W4Await
<1> QED BY <1>1, <1>2, <1>3

LEMMA LeavingType ==
  ASSUME TypeOK, NEW t \in Slots, Leaving(t)
  PROVE  TypeOK'
<1>0. tasks \in [Slots -> Task] /\ tasks[t] \in Task /\ tasks[t].agg \in Aggregate
  BY TaskType
<1>1. CASE CommitNext(t)
  <2> DEFINE todo == tasks[t].todo
  <2>1. todo \in Seq(Transition) /\ todo # <<>>
    BY <1>1, TaskType DEF CommitNext
  <2>2. Head(todo) \in Transition /\ Tail(todo) \in Seq(Transition)
    BY <2>1, HeadTailProperties
  <2>3. claim' \in Row /\ events' \in Seq(Event)
    BY <1>1, <2>2 DEF CommitNext, TypeOK, Transition
  <2>4. [tasks[t] EXCEPT !.todo = Tail(@)] \in Task
    BY <1>0, <2>2 DEF Task
  <2>5. tasks' \in [Slots -> Task]
    BY <1>0, <1>1, <2>4, BecomesType DEF CommitNext
  <2> QED BY <1>1, <2>3, <2>5 DEF TypeOK, CommitNext, world, bounds
<1>2. CASE Finish(t)
  <2>1. tasks[t].goto \in Node \cup {"none", "END"}
    BY <1>0, <1>2 DEF Task, Finish
  <2>2. checkpoint' \in Checkpoint
    BY <1>0, <1>2, <2>1, NoResumeType DEF Finish, Checkpoint
  <2> DEFINE next == IF tasks[t].goto \in Awaits \cup {"END"} THEN IdleTask
                     ELSE [Running(tasks[t].goto, tasks[t].agg, NoResume)
                             EXCEPT !.fresh = tasks[t].fresh]
  <2>3. next \in Task
    <3>1. CASE tasks[t].goto \in Awaits \cup {"END"}
      BY <3>1, IdleTaskType
    <3>2. CASE tasks[t].goto \notin Awaits \cup {"END"}
      <4>1. tasks[t].goto \in Node \cup {"none"} /\ tasks[t].fresh \in BOOLEAN
        BY <1>0, <2>1, <3>2 DEF Task
      <4> QED BY <1>0, <3>2, <4>1, RunningType, NoResumeType
    <3> QED BY <3>1, <3>2
  <2>4. tasks' \in [Slots -> Task]
    <3>1. Becomes(t, next)
      BY <1>2 DEF Finish
    <3> HIDE DEF next
    <3> QED BY <1>0, <2>3, <3>1, BecomesType
  <2> QED BY <1>2, <2>2, <2>4 DEF TypeOK, Finish, world, bounds
<1>3. CASE RecordEscalation(t)
  <2> DEFINE base == IF tasks[t].fresh THEN NewAggregate ELSE checkpoint.agg
  <2> DEFINE escalated == Commit([base EXCEPT !.state = "ESCALATED"], "ESCALATED")
  <2>1. base \in Aggregate
    BY NewAggregateType DEF TypeOK, Checkpoint
  <2>2. escalated \in Transition
    <3> HIDE DEF base
    <3> QED BY <2>1, StateType, CommitType DEF ClaimState, EventType
  <2>3. claim' = escalated.row /\ events' = Append(events, escalated.event)
    BY <1>3 DEF RecordEscalation
  <2>4. claim' \in Row /\ events' \in Seq(Event)
    <3> HIDE DEF escalated
    <3> QED BY <2>2, <2>3 DEF TypeOK, Transition
  <2>5. tasks' \in [Slots -> Task]
    BY <1>0, <1>3, IdleTaskType, BecomesType DEF RecordEscalation
  <2> QED BY <1>3, <2>4, <2>5 DEF TypeOK, RecordEscalation, world, bounds
<1> QED BY <1>1, <1>2, <1>3 DEF Leaving

LEMMA ResumeType ==
  ASSUME TypeOK, NEW t \in Slots, NEW value \in ResumeValue, Resume(t, value),
         decisions' \subseteq ResumeValue, strayed' \in BOOLEAN
  PROVE  TypeOK'
<1>1. [IdleTask EXCEPT !.pc = "start", !.value = value] \in Task
  BY IdleTaskType DEF Task, PC
<1>2. tasks' \in [Slots -> Task]
  BY <1>1, TaskType, BecomesType DEF Resume
<1> QED BY <1>2 DEF TypeOK, Resume, durable, world

LEMMA CallType ==
  ASSUME TypeOK, NEW t \in Slots, Call(t)
  PROVE  TypeOK'
<1>1. CASE Inject(t)
  <2> DEFINE received == Commit(NewAggregate, "RECEIVED")
  <2>1. received \in Transition
    BY NewAggregateType, CommitType DEF EventType
  <2>2. claim' = received.row /\ events' = Append(events, received.event)
    BY <1>1 DEF Inject
  <2>3. claim' \in Row /\ events' \in Seq(Event)
    <3> HIDE DEF received
    <3> QED BY <2>1, <2>2 DEF TypeOK, Transition
  <2>4. [IdleTask EXCEPT !.pc = "start", !.fresh = TRUE] \in Task
    BY IdleTaskType DEF Task, PC
  <2>5. tasks' \in [Slots -> Task]
    BY <1>1, <2>4, TaskType, BecomesType DEF Inject
  <2> QED BY <1>1, <2>3, <2>5 DEF TypeOK, Inject, world, bounds
<1>2. CASE Resolve(t)
  <2>1. PICK value \in {ResolveAs("approve", 0), ResolveAs("reject", 0)}
                         \cup {ResolveAs("modify", n) :
                                    n \in ModifiedAmounts \cup {approval.amount}} :
          Resume(t, value) /\ decisions' = decisions \cup {value}
    BY <1>2 DEF Resolve
  <2>3. strayed' \in BOOLEAN
    BY <1>2 DEF Resolve, Offering, TypeOK
  <2>2. value \in ResumeValue
    <3>1. approval.amount \in Nat
      BY DEF TypeOK, Approval
    <3> QED BY <2>1, <3>1, LifecycleAssumption DEF ResolveAs, ResumeValue, Resolution
  <2> QED BY <2>1, <2>2, <2>3, ResumeType DEF TypeOK
<1>3. CASE SubmitDocuments(t)
  <2>1. PICK fields \in Uploads : Resume(t, DocumentsOf(fields))
    BY <1>3 DEF SubmitDocuments
  <2>2. DocumentsOf(fields) \in ResumeValue
    BY LifecycleAssumption DEF DocumentsOf, ResumeValue
  <2>3. strayed' \in BOOLEAN
    BY <1>3 DEF SubmitDocuments, Offering, TypeOK
  <2> QED BY <1>3, <2>1, <2>2, <2>3, ResumeType DEF TypeOK, SubmitDocuments
<1> QED BY <1>1, <1>2, <1>3 DEF Call

LEMMA TaskDiesType ==
  ASSUME TypeOK, NEW t \in Slots, TaskDies(t)
  PROVE  TypeOK'
<1>1. tasks' \in [Slots -> Task]
  BY TaskType, IdleTaskType, BecomesType DEF TaskDies
<1>2. checkpoint' \in Checkpoint
  BY TaskType DEF TaskDies, TypeOK, Checkpoint
<1> QED BY <1>1, <1>2 DEF TypeOK, TaskDies, world

LEMMA StepType ==
  ASSUME TypeOK, NEW t \in Slots, Step(t)
  PROVE  TypeOK'
BY StartsType, TriagingType, PayingType, W1Type, W2Type, HandOverType, LeavingType
   DEF Step, Executing

(* Every variable keeps its type: the row, the events, the approval, the   *)
(* checkpoint and every task, whatever overlaps.                           *)
THEOREM TypeCorrect == Spec => []TypeOK
<1>1. Init => TypeOK
  <2> SUFFICES ASSUME Init PROVE TypeOK
    OBVIOUS
  <2>1. claim \in Row /\ approval \in Approval /\ checkpoint \in Checkpoint
    BY NewAggregateType, NoResumeType
       DEF Init, NoRow, Row, NoApproval, Approval, Action, NoCheckpoint, Checkpoint, NoWorkflow
  <2>2. tasks \in [Slots -> Task]
    BY IdleTaskType DEF Init
  <2>3. events \in Seq(Event) /\ rail \in Seq(Disbursement)
    BY DEF Init
  <2>4. toolCalls \subseteq {PayKey, ReserveKey} /\ decisions \subseteq ResumeValue
    BY DEF Init
  <2> QED BY <2>1, <2>2, <2>3, <2>4 DEF Init, TypeOK
<1>2. TypeOK /\ [Next]_vars => TypeOK'
  <2> SUFFICES ASSUME TypeOK, [Next]_vars PROVE TypeOK'
    OBVIOUS
  <2>1. CASE \E t \in Slots : Step(t) \/ Call(t) \/ TaskDies(t)
    BY <2>1, StepType, CallType, TaskDiesType
  <2>2. CASE Crash
    BY <2>2, IdleTaskType DEF TypeOK, Crash, durable, world
  <2>3. CASE UNCHANGED vars
    BY <2>3 DEF TypeOK, vars, durable, world, bounds
  <2> QED BY <2>1, <2>2, <2>3 DEF Next
<1> QED BY <1>1, <1>2, PTL DEF Spec

-----------------------------------------------------------------------------
(***************************************************************************)
(* Nothing reaches the payment rail that was not routed there on evidence  *)
(* that allows it: DisbursementsAreRouted, for every routing config, every *)
(* number of overlapping tasks and every crash.                            *)
(*                                                                         *)
(* The property speaks of the rail only and is not inductive: a resumed    *)
(* task pays on the aggregate of a checkpoint an earlier task wrote, which *)
(* was routed by a still earlier one.  The invariant therefore follows the *)
(* routed aggregate from the node that routes it, through the commits, the *)
(* checkpoint and the resume, to the rail.                                 *)
(***************************************************************************)
(* The nodes from which a payment can follow without a new routing.        *)
Ordering == {"w1_execute", "w2_propose", "w2_await"}

Payable(agg) ==
  /\ ~ HardFraudSignal(RouterInputOf(agg))
  /\ \/ /\ agg.workflow = "W1"
        /\ StraightThrough(RouterInputOf(agg), Config)
        /\ ~ agg.investigation.degraded
     \/ agg.workflow = "W2"

RoutedTask(task) ==
  /\ task.pc \in {"run", "resolved", "lookup", "rail"} /\ task.node \in Ordering
       => Payable(task.agg)
  /\ task.pc = "resolved" => task.node = "w2_await"
  /\ task.pc \in {"lookup", "rail"} => task.node \in {"w1_execute", "w2_await"}
  /\ task.pc = "commit" /\ task.goto \in Ordering => Payable(task.agg)

RoutedCheckpoint == checkpoint.next \in Ordering => Payable(checkpoint.agg)

RoutedInv ==
  /\ \A t \in Slots : RoutedTask(tasks[t])
  /\ RoutedCheckpoint
  /\ DisbursementsAreRouted

-----------------------------------------------------------------------------
(* What route_node hands to W1 or W2 is payable.                           *)

LEMMA RouteDecision ==
  ASSUME NEW inp, NEW cfg
  PROVE  LET d == Route(inp, cfg)
         IN  /\ d.workflow \in {"W1", "W2"} => ~ HardFraudSignal(inp)
             /\ d.workflow = "W1" => StraightThrough(inp, cfg)
             /\ d.needs_tiebreak => d.workflow = "W2"
BY DEF Route, Decision

LEMMA RoutedIsPayable ==
  ASSUME NEW agg, NEW r \in RoutesFor(agg), NEW routed,
         routed.workflow = r.workflow, routed.extraction = agg.extraction,
         routed.classification = agg.classification,
         routed.investigation = agg.investigation,
         NodeFor(r.workflow) \in Ordering
  PROVE  Payable(routed)
<1> DEFINE inp == RouterInputOf(agg)
           d   == Route(inp, Config)
<1>1. RouterInputOf(routed) = inp
  BY DEF RouterInputOf
<1>2. PICK q \in Tiebreak(d, Grounded) : r = CapDegraded(q, agg.investigation.degraded)
  BY DEF RoutesFor, RoutesOf
<1>3. r.workflow \in {"W1", "W2"}
  BY RouteType DEF NodeFor, Ordering, Workflow
<1> HIDE DEF inp
<1>4. /\ d.workflow \in {"W1", "W2"} => ~ HardFraudSignal(inp)
      /\ d.workflow = "W1" => StraightThrough(inp, Config)
      /\ d.needs_tiebreak => d.workflow = "W2"
  BY RouteDecision
<1> HIDE DEF d
<1>5. /\ q.workflow \in {"W1", "W2"} => d.workflow \in {"W1", "W2"}
      /\ q.workflow = "W1" => d.workflow = "W1"
  BY <1>2, <1>4 DEF Tiebreak
<1>6. /\ q.workflow \in {"W1", "W2"}
      /\ r.workflow = "W1" => q.workflow = "W1" /\ ~ agg.investigation.degraded
  BY <1>2, <1>3 DEF CapDegraded
<1> QED BY <1>1, <1>3, <1>4, <1>5, <1>6 DEF Payable

-----------------------------------------------------------------------------
(* A step changes one task; the invariant follows from what it makes of    *)
(* that task, of the checkpoint and of the rail.                           *)

LEMMA OneTask ==
  ASSUME TypeOK, RoutedInv, NEW t \in Slots, NEW task, Becomes(t, task), RoutedTask(task),
         RoutedCheckpoint', DisbursementsAreRouted'
  PROVE  RoutedInv'
<1>1. \A u \in Slots : tasks'[u] = IF u = t THEN task ELSE tasks[u]
  BY TaskType DEF Becomes
<1> QED BY <1>1 DEF RoutedInv, RoutedTask

(* The checkpoint and the rail stay.                                       *)
LEMMA OnlyTask ==
  ASSUME TypeOK, RoutedInv, NEW t \in Slots, NEW task, Becomes(t, task), RoutedTask(task),
         UNCHANGED <<checkpoint, rail>>
  PROVE  RoutedInv'
<1>1. RoutedCheckpoint' /\ DisbursementsAreRouted'
  BY DEF RoutedInv, RoutedCheckpoint, DisbursementsAreRouted
<1> QED BY <1>1, OneTask

LEMMA ReturnRouted ==
  ASSUME TypeOK, RoutedInv, NEW t \in Slots, NEW agg, NEW commits, NEW goto,
         Return(t, agg, commits, goto), goto \in Ordering => Payable(agg),
         UNCHANGED <<checkpoint, rail>>
  PROVE  RoutedInv'
<1> DEFINE task == [tasks[t] EXCEPT !.pc = "commit", !.agg = agg, !.todo = commits,
                                    !.goto = goto]
<1>1. RoutedTask(task)
  BY TaskType DEF RoutedTask, Task
<1>2. Becomes(t, task)
  BY DEF Return
<1> HIDE DEF task
<1> QED BY <1>1, <1>2, OnlyTask

LEMMA IdleRouted == RoutedTask(IdleTask)
BY DEF RoutedTask, IdleTask

LEMMA RunningRouted ==
  ASSUME NEW node, NEW agg, NEW value, NEW fresh, node \in Ordering => Payable(agg)
  PROVE  /\ RoutedTask(Running(node, agg, value))
         /\ RoutedTask([Running(node, agg, value) EXCEPT !.fresh = fresh])
BY DEF RoutedTask, Running, IdleTask

LEMMA SameEvidence ==
  ASSUME NEW agg, Payable(agg), NEW agg2, agg2.workflow = agg.workflow,
         agg2.extraction = agg.extraction, agg2.classification = agg.classification,
         agg2.investigation = agg.investigation
  PROVE  Payable(agg2)
BY DEF Payable, RouterInputOf

-----------------------------------------------------------------------------
(* Every action keeps the invariant.                                       *)

LEMMA StartsRouted ==
  ASSUME TypeOK, RoutedInv, NEW t \in Slots, StartRun(t) \/ StartResume(t)
  PROVE  RoutedInv'
<1>1. CASE StartRun(t)
  <2>1. RoutedCheckpoint'
    BY <1>1 DEF StartRun, RoutedCheckpoint, Ordering
  <2>2. DisbursementsAreRouted'
    BY <1>1 DEF StartRun, world, RoutedInv, DisbursementsAreRouted
  <2>3. RoutedTask([Running("extract", NewAggregate, NoResume) EXCEPT !.fresh = TRUE])
    BY RunningRouted DEF Ordering
  <2> QED BY <1>1, <2>1, <2>2, <2>3, OneTask DEF StartRun
<1>2. CASE StartResume(t)
  <2>1. UNCHANGED <<checkpoint, rail>>
    BY <1>2 DEF StartResume, Elsewhere, durable, world
  <2>2. CASE Becomes(t, IdleTask)
    BY <2>1, <2>2, IdleRouted, OnlyTask
  <2>3. ASSUME NEW value, Becomes(t, Running(checkpoint.next, checkpoint.agg, value))
        PROVE  RoutedInv'
    <3>1. RoutedTask(Running(checkpoint.next, checkpoint.agg, value))
      BY RunningRouted DEF RoutedInv, RoutedCheckpoint
    <3> QED BY <2>1, <2>3, <3>1, OnlyTask
  <2> QED BY <1>2, <2>2, <2>3 DEF StartResume
<1> QED BY <1>1, <1>2

LEMMA TriagingRouted ==
  ASSUME TypeOK, RoutedInv, NEW t \in Slots, Triaging(t)
  PROVE  RoutedInv'
<1>0. UNCHANGED <<checkpoint, rail>>
  BY DEF Triaging, Extract, Classify, Investigate, RouteNode, LLMFails, Elsewhere, durable,
         world
<1>1. CASE Extract(t)
  <2>1. PICK agg, commits : Return(t, agg, commits, UnlessExhausted(agg, "classify"))
    BY <1>1 DEF Extract
  <2> QED BY <1>0, <2>1, ReturnRouted DEF UnlessExhausted, Ordering
<1>2. CASE Classify(t)
  <2>1. PICK agg, commits : Return(t, agg, commits, UnlessExhausted(agg, "investigate"))
    BY <1>2 DEF Classify
  <2> QED BY <1>0, <2>1, ReturnRouted DEF UnlessExhausted, Ordering
<1>3. CASE Investigate(t)
  <2>1. PICK agg, commits : Return(t, agg, commits, UnlessExhausted(agg, "route"))
    BY <1>3 DEF Investigate
  <2> QED BY <1>0, <2>1, ReturnRouted DEF UnlessExhausted, Ordering
<1>4. CASE RouteNode(t)
  <2> DEFINE a == tasks[t].agg
  <2>1. PICK r \in RoutesFor(a),
             cost \in IF NeedsTiebreak(a) THEN GroundedCosts ELSE {0} :
          LET agg == [tasks[t].agg EXCEPT !.workflow = r.workflow, !.rule_id = r.rule_id,
                                          !.state = "PLANNING", !.tokens = @ + cost]
          IN  Return(t, agg, <<Commit(agg, "ROUTED")>>,
                     UnlessExhausted(agg, NodeFor(r.workflow)))
    BY <1>4 DEF RouteNode
  <2> DEFINE agg == [a EXCEPT !.workflow = r.workflow, !.rule_id = r.rule_id,
                              !.state = "PLANNING", !.tokens = @ + cost]
  <2>2. Return(t, agg, <<Commit(agg, "ROUTED")>>, UnlessExhausted(agg, NodeFor(r.workflow)))
    BY <2>1
  <2>3. /\ agg.workflow = r.workflow /\ agg.extraction = a.extraction
        /\ agg.classification = a.classification /\ agg.investigation = a.investigation
    <3> HIDE DEF a
    <3> QED BY TaskType DEF Aggregate, a
  <2> HIDE DEF agg
  <2>4. NodeFor(r.workflow) \in Ordering => Payable(agg)
    BY <2>3, RoutedIsPayable
  <2> QED BY <1>0, <2>2, <2>4, ReturnRouted DEF UnlessExhausted, Ordering
<1>5. CASE LLMFails(t)
  <2>1. RoutedTask([tasks[t] EXCEPT !.pc = "raised"])
    BY TaskType DEF RoutedTask, Task
  <2> QED BY <1>0, <1>5, <2>1, OnlyTask DEF LLMFails, MoveTo
<1> QED BY <1>1, <1>2, <1>3, <1>4, <1>5 DEF Triaging

LEMMA PayingRouted ==
  ASSUME TypeOK, RoutedInv, NEW t \in Slots, Paying(t)
  PROVE  RoutedInv'
<1>0. RoutedTask(tasks[t]) /\ tasks[t] \in Task
  BY TaskType DEF RoutedInv
<1>1. RoutedTask([tasks[t] EXCEPT !.pc = "raised"])
  BY <1>0 DEF RoutedTask, Task
<1>2. \A ok \in BOOLEAN : RoutedTask([tasks[t] EXCEPT !.pc = "paid", !.ok = ok])
  BY <1>0 DEF RoutedTask, Task
<1>3. CASE PayRefused(t)
  BY <1>2, <1>3, OnlyTask DEF PayRefused, PayAnswer, Elsewhere, durable, world
<1>4. CASE PayInvalid(t)
  <2>1. checkpoint'.next = checkpoint.next /\ checkpoint'.agg = checkpoint.agg
    BY <1>4 DEF PayInvalid, TypeOK, Checkpoint
  <2>2. RoutedCheckpoint' /\ DisbursementsAreRouted'
    BY <1>4, <2>1 DEF PayInvalid, world, RoutedInv, RoutedCheckpoint, DisbursementsAreRouted
  <2> QED BY <1>1, <1>4, <2>2, OneTask DEF PayInvalid, MoveTo
<1>5. CASE PayLookup(t)
  <2>1. tasks[t].pc = "lookup" => RoutedTask([tasks[t] EXCEPT !.pc = "rail"])
    BY <1>0 DEF RoutedTask, Task
  <2> QED BY <1>2, <1>5, <2>1, OnlyTask
             DEF PayLookup, PayAnswer, MoveTo, Elsewhere, durable, world
<1>6. CASE PayRail(t)
  <2> DEFINE d == [amount         |-> tasks[t].pay,
                   workflow       |-> tasks[t].agg.workflow,
                   extraction     |-> tasks[t].agg.extraction,
                   classification |-> tasks[t].agg.classification,
                   investigation  |-> tasks[t].agg.investigation]
  <2>1. Payable(tasks[t].agg)
    BY <1>0, <1>6 DEF PayRail, RoutedTask, Ordering
  <2>2. PaidAsRouted(d)
    BY <2>1 DEF PaidAsRouted, Payable, EvidenceOf, RouterInputOf
  <2>3. rail' = Append(rail, d)
    BY <1>6 DEF PayRail
  <2> HIDE DEF d
  <2>4. DisbursementsAreRouted'
    <3>1. \A i \in DOMAIN rail : PaidAsRouted(rail[i])
      BY DEF RoutedInv, DisbursementsAreRouted
    <3>2. \A i \in DOMAIN rail' : PaidAsRouted(rail'[i])
      BY <2>2, <2>3, <3>1 DEF TypeOK
    <3> QED BY <3>2 DEF DisbursementsAreRouted, PaidAsRouted, EvidenceOf
  <2>5. RoutedCheckpoint'
    BY <1>6 DEF PayRail, durable, RoutedInv, RoutedCheckpoint
  <2>6. RoutedTask([tasks[t] EXCEPT !.pc = "record"])
    BY <1>0 DEF RoutedTask, Task
  <2> QED BY <1>6, <2>4, <2>5, <2>6, OneTask DEF PayRail, MoveTo
<1>7. CASE PayRecord(t)
  BY <1>2, <1>7, OnlyTask DEF PayRecord, PayAnswer, world
<1> QED BY <1>3, <1>4, <1>5, <1>6, <1>7 DEF Paying

LEMMA ExecutingRouted ==
  ASSUME TypeOK, RoutedInv, NEW t \in Slots, Executing(t)
  PROVE  RoutedInv'
<1> DEFINE a == tasks[t].agg
<1>0. RoutedTask(tasks[t]) /\ tasks[t] \in Task /\ a \in Aggregate
  BY TaskType DEF RoutedInv
<1>1. CASE W1Execute(t)
  <2>1. RoutedTask([tasks[t] EXCEPT !.pc = "lookup", !.pay = a.investigation.amount_est])
    BY <1>0, <1>1 DEF W1Execute, At, RoutedTask, Task, Ordering
  <2> QED BY <1>1, <2>1, OnlyTask DEF W1Execute, Pay, world
<1>2. CASE W2Deny(t)
  <2>1. PICK cost \in TokenCosts :
          LET agg == [tasks[t].agg EXCEPT !.state = "REVIEW_PENDING", !.tokens = @ + cost]
          IN  Return(t, agg, <<Commit(agg, "APPROVAL_REQUESTED")>>,
                     UnlessExhausted(agg, "w2_await"))
    BY <1>2 DEF W2Deny
  <2> DEFINE agg == [a EXCEPT !.state = "REVIEW_PENDING", !.tokens = @ + cost]
  <2>2. Payable(agg)
    <3>1. Payable(a)
      BY <1>0, <1>2 DEF W2Deny, At, RoutedTask, Ordering
    <3> HIDE DEF a
    <3> QED BY <1>0, <3>1, SameEvidence DEF Aggregate
  <2>3. Return(t, agg, <<Commit(agg, "APPROVAL_REQUESTED")>>, UnlessExhausted(agg, "w2_await"))
    BY <2>1
  <2> HIDE DEF agg
  <2> QED BY <1>2, <2>2, <2>3, ReturnRouted DEF W2Deny, world
<1>3. CASE W2Pay(t)
  <2> DEFINE amount == a.investigation.amount_est
             agg    == [a EXCEPT !.state = "REVIEW_PENDING", !.reserve = amount]
  <2>1. Payable(agg)
    <3>1. Payable(a)
      BY <1>0, <1>3 DEF W2Pay, At, RoutedTask, Ordering
    <3> HIDE DEF a
    <3> QED BY <1>0, <3>1, SameEvidence DEF Aggregate
  <2>2. Return(t, agg, <<Commit(agg, "APPROVAL_REQUESTED")>>, UnlessExhausted(agg, "w2_await"))
    BY <1>3 DEF W2Pay
  <2> HIDE DEF agg
  <2> QED BY <1>3, <2>1, <2>2, ReturnRouted DEF W2Pay, world
<1>4. CASE W2Resolve(t)
  <2>1. RoutedTask([tasks[t] EXCEPT !.pc = "resolved"])
    BY <1>0, <1>4 DEF W2Resolve, At, RoutedTask, Task
  <2> QED BY <1>4, <2>1, OnlyTask DEF W2Resolve, MoveTo, world
<1>5. CASE W2Approved(t)
  <2>1. RoutedTask([tasks[t] EXCEPT !.pc = "lookup", !.pay = AmountToPay(tasks[t].value)])
    BY <1>0, <1>5 DEF W2Approved, RoutedTask, Task
  <2> QED BY <1>5, <2>1, OnlyTask DEF W2Approved, Pay, Elsewhere, durable, world
<1>6. CASE W1Paid(t) \/ Settle(t) \/ Close(t) \/ W2Rejected(t) \/ W2Denied(t) \/ W2Paid(t)
           \/ Escalate(t) \/ W4Request(t) \/ W4Await(t)
  <2>1. UNCHANGED <<checkpoint, rail>>
    BY <1>6 DEF W1Paid, Settle, Close, W2Rejected, W2Denied, W2Paid, Escalate, W4Request,
                W4Await, Elsewhere, durable, world
  <2>2. PICK agg, commits, goto : Return(t, agg, commits, goto) /\ goto \notin Ordering
    <3>1. \A agg : /\ AfterW1(agg) \notin Ordering
                   /\ AfterW2(agg) \notin Ordering
                   /\ AfterW4(agg) \notin Ordering
      BY DEF AfterW1, AfterW2, AfterW4, Ordering
    <3>2. "END" \notin Ordering /\ "close" \notin Ordering /\ "w4_await" \notin Ordering
      BY DEF Ordering
    <3>3. CASE W1Paid(t)
      BY <3>1, <3>3 DEF W1Paid
    <3>4. CASE Settle(t) \/ Close(t) \/ Escalate(t) \/ W4Request(t)
      BY <3>2, <3>4 DEF Settle, Close, Escalate, W4Request
    <3>5. CASE W2Rejected(t) \/ W2Denied(t) \/ W2Paid(t)
      BY <3>1, <3>5 DEF W2Rejected, W2Denied, W2Paid
    <3>6. CASE W4Await(t)
      BY <3>1, <3>6 DEF W4Await
    <3> QED BY <1>6, <3>3, <3>4, <3>5, <3>6
  <2> QED BY <2>1, <2>2, ReturnRouted
<1> QED BY <1>1, <1>2, <1>3, <1>4, <1>5, <1>6 DEF Executing

LEMMA LeavingRouted ==
  ASSUME TypeOK, RoutedInv, NEW t \in Slots, Leaving(t)
  PROVE  RoutedInv'
<1>0. RoutedTask(tasks[t]) /\ tasks[t] \in Task
  BY TaskType DEF RoutedInv
<1>1. CASE CommitNext(t)
  <2>1. RoutedTask([tasks[t] EXCEPT !.todo = Tail(@)])
    BY <1>0, <1>1 DEF CommitNext, RoutedTask, Task
  <2> QED BY <1>1, <2>1, OnlyTask DEF CommitNext, world
<1>2. CASE Finish(t)
  <2>1. tasks[t].goto \in Ordering => Payable(tasks[t].agg)
    BY <1>0, <1>2 DEF Finish, RoutedTask
  <2>2. RoutedCheckpoint'
    BY <1>2, <2>1 DEF Finish, RoutedCheckpoint, Payable, RouterInputOf
  <2>3. DisbursementsAreRouted'
    BY <1>2 DEF Finish, world, RoutedInv, DisbursementsAreRouted
  <2> DEFINE next == IF tasks[t].goto \in Awaits \cup {"END"} THEN IdleTask
                     ELSE [Running(tasks[t].goto, tasks[t].agg, NoResume)
                             EXCEPT !.fresh = tasks[t].fresh]
  <2>4. RoutedTask(next)
    BY <2>1, IdleRouted, RunningRouted
  <2>5. Becomes(t, next)
    BY <1>2 DEF Finish
  <2> HIDE DEF next
  <2> QED BY <2>2, <2>3, <2>4, <2>5, OneTask
<1>3. CASE RecordEscalation(t)
  BY <1>3, IdleRouted, OnlyTask DEF RecordEscalation, world
<1> QED BY <1>1, <1>2, <1>3 DEF Leaving

LEMMA CallRouted ==
  ASSUME TypeOK, RoutedInv, NEW t \in Slots, Call(t)
  PROVE  RoutedInv'
<1>1. RoutedTask([IdleTask EXCEPT !.pc = "start", !.fresh = TRUE])
  BY DEF RoutedTask, IdleTask
<1>2. \A value : RoutedTask([IdleTask EXCEPT !.pc = "start", !.value = value])
  BY DEF RoutedTask, IdleTask
<1>3. CASE Inject(t)
  BY <1>1, <1>3, OnlyTask DEF Inject, world
<1>4. CASE \E value : Resume(t, value)
  BY <1>2, <1>4, OnlyTask DEF Resume, durable, world
<1> QED BY <1>3, <1>4 DEF Call, Resolve, SubmitDocuments

LEMMA TaskDiesRouted ==
  ASSUME TypeOK, RoutedInv, NEW t \in Slots, TaskDies(t)
  PROVE  RoutedInv'
<1>1. checkpoint'.next = checkpoint.next /\ checkpoint'.agg = checkpoint.agg
  BY DEF TaskDies, TypeOK, Checkpoint
<1>2. RoutedCheckpoint' /\ DisbursementsAreRouted'
  BY <1>1 DEF TaskDies, world, RoutedInv, RoutedCheckpoint, DisbursementsAreRouted
<1> QED BY <1>2, IdleRouted, OneTask DEF TaskDies

LEMMA StepRouted ==
  ASSUME TypeOK, RoutedInv, [Next]_vars
  PROVE  RoutedInv'
<1>1. CASE \E t \in Slots : Step(t) \/ Call(t) \/ TaskDies(t)
  BY <1>1, StartsRouted, TriagingRouted, PayingRouted, ExecutingRouted, LeavingRouted,
     CallRouted, TaskDiesRouted DEF Step
<1>2. CASE Crash
  <2>1. \A t \in Slots : RoutedTask(tasks'[t])
    BY <1>2, IdleRouted DEF Crash
  <2> QED BY <1>2, <2>1 DEF Crash, durable, world, RoutedInv, RoutedTask, RoutedCheckpoint,
                            DisbursementsAreRouted
<1>3. CASE UNCHANGED vars
  BY <1>3 DEF vars, durable, world, RoutedInv, RoutedTask, RoutedCheckpoint,
              DisbursementsAreRouted
<1> QED BY <1>1, <1>2, <1>3 DEF Next

(* Whatever reaches the rail was routed there on evidence that allows it   *)
(* (route_node, w1_execute, w2_propose, w2_await).                         *)
THEOREM RoutedPayments == Spec => []DisbursementsAreRouted
<1>1. Init => RoutedInv
  BY IdleRouted DEF Init, RoutedInv, RoutedCheckpoint, Ordering, NoCheckpoint,
                    DisbursementsAreRouted
<1>2. TypeOK /\ RoutedInv /\ [Next]_vars => RoutedInv'
  BY StepRouted
<1>3. RoutedInv => DisbursementsAreRouted
  BY DEF RoutedInv
<1> QED BY <1>1, <1>2, <1>3, TypeCorrect, PTL DEF Spec

-----------------------------------------------------------------------------
(***************************************************************************)
(* What the rows of the store say, whatever tasks overlap and whenever the *)
(* service crashes: the state in the claims row is the one the last event  *)
(* implies (StateIsProjection), and the approval is there for whoever      *)
(* reads it (ApprovalBeforeAwait, in the second half).                     *)
(*                                                                         *)
(* The first property is not inductive.  A transition is committed some    *)
(* steps after its node computed it, so every transition still to commit   *)
(* has to agree; and classify commits the state it was given, so that      *)
(* state is followed through the checkpoint.                               *)
(***************************************************************************)
Agrees(transition) == transition.row.state \in StatesAfter(transition.event.type)

ProjectedTask(task) ==
  /\ task.pc = "commit" => \A i \in DOMAIN task.todo : Agrees(task.todo[i])
  /\ task.pc = "run" /\ task.node = "classify" => task.agg.state = "TRIAGE"
  /\ task.pc = "commit" /\ task.goto = "classify" => task.agg.state = "TRIAGE"

ProjectedCheckpoint == checkpoint.next = "classify" => checkpoint.agg.state = "TRIAGE"

ProjectionInv ==
  /\ \A t \in Slots : ProjectedTask(tasks[t])
  /\ ProjectedCheckpoint
  /\ StateIsProjection

-----------------------------------------------------------------------------
(* Transitions.                                                            *)

LEMMA CommitAgrees ==
  ASSUME NEW agg, NEW type, agg.state \in StatesAfter(type)
  PROVE  Agrees(Commit(agg, type))
BY DEF Agrees, Commit, RowOf

LEMMA OneAgrees ==
  ASSUME NEW agg, NEW type, agg.state \in StatesAfter(type)
  PROVE  \A i \in DOMAIN <<Commit(agg, type)>> : Agrees(<<Commit(agg, type)>>[i])
BY CommitAgrees

LEMMA TwoAgree ==
  ASSUME NEW agg, NEW type, NEW type2,
         agg.state \in StatesAfter(type), agg.state \in StatesAfter(type2)
  PROVE  \A i \in DOMAIN <<Commit(agg, type), Commit(agg, type2)>> :
           Agrees(<<Commit(agg, type), Commit(agg, type2)>>[i])
<1> DEFINE x == Commit(agg, type)
           y == Commit(agg, type2)
<1>1. Agrees(x) /\ Agrees(y)
  BY CommitAgrees
<1> HIDE DEF x, y
<1>2. \A i \in DOMAIN <<x, y>> : Agrees(<<x, y>>[i])
  BY <1>1
<1> QED BY <1>2 DEF x, y

LEMMA StateSet ==
  ASSUME NEW agg \in Aggregate, NEW state
  PROVE  [agg EXCEPT !.state = state].state = state
BY DEF Aggregate

-----------------------------------------------------------------------------
(* A step changes one task and perhaps the store.                          *)

LEMMA OneProjected ==
  ASSUME TypeOK, ProjectionInv, NEW t \in Slots, NEW task, Becomes(t, task),
         ProjectedTask(task), ProjectedCheckpoint', StateIsProjection'
  PROVE  ProjectionInv'
<1>1. \A u \in Slots : tasks'[u] = IF u = t THEN task ELSE tasks[u]
  BY TaskType DEF Becomes
<1>2. \A u \in Slots : ProjectedTask(tasks'[u])
  BY <1>1 DEF ProjectionInv
<1> QED BY <1>2 DEF ProjectionInv

LEMMA OnlyProjected ==
  ASSUME TypeOK, ProjectionInv, NEW t \in Slots, NEW task, Becomes(t, task),
         ProjectedTask(task), UNCHANGED <<claim, events, checkpoint>>
  PROVE  ProjectionInv'
<1>1. ProjectedCheckpoint' /\ StateIsProjection'
  BY DEF ProjectionInv, ProjectedCheckpoint, StateIsProjection, StatesAfter, NoRow
<1> QED BY <1>1, OneProjected

LEMMA ReturnProjected ==
  ASSUME TypeOK, ProjectionInv, NEW t \in Slots, NEW agg, NEW commits, NEW goto,
         Return(t, agg, commits, goto), \A i \in DOMAIN commits : Agrees(commits[i]),
         goto = "classify" => agg.state = "TRIAGE",
         UNCHANGED <<claim, events, checkpoint>>
  PROVE  ProjectionInv'
<1> DEFINE task == [tasks[t] EXCEPT !.pc = "commit", !.agg = agg, !.todo = commits,
                                    !.goto = goto]
<1>1. ProjectedTask(task)
  BY TaskType DEF ProjectedTask, Task
<1>2. Becomes(t, task)
  BY DEF Return
<1> HIDE DEF task
<1> QED BY <1>1, <1>2, OnlyProjected

(* A transition that is committed at once.                                 *)
LEMMA Committed ==
  ASSUME TypeOK, NEW agg \in Aggregate, NEW type \in EventType,
         agg.state \in StatesAfter(type),
         claim' = Commit(agg, type).row,
         events' = Append(events, Commit(agg, type).event)
  PROVE  StateIsProjection'
<1> DEFINE transition == Commit(agg, type)
<1>1. Agrees(transition) /\ transition \in Transition
  BY CommitAgrees, CommitType
<1> HIDE DEF transition
<1>2. claim' = transition.row /\ events' = Append(events, transition.event)
  BY DEF transition
<1>3. events' # <<>> /\ events'[Len(events')] = transition.event
  BY <1>2 DEF TypeOK
<1> QED BY <1>1, <1>2, <1>3 DEF StateIsProjection, Agrees, StatesAfter

LEMMA IdleProjected == ProjectedTask(IdleTask)
BY DEF ProjectedTask, IdleTask

LEMMA RunningProjected ==
  ASSUME NEW node, NEW agg, NEW value, NEW fresh,
         node = "classify" => agg.state = "TRIAGE"
  PROVE  /\ ProjectedTask(Running(node, agg, value))
         /\ ProjectedTask([Running(node, agg, value) EXCEPT !.fresh = fresh])
BY DEF ProjectedTask, Running, IdleTask

-----------------------------------------------------------------------------
(* Every action keeps the invariant.                                       *)

LEMMA StartsProjected ==
  ASSUME TypeOK, ProjectionInv, NEW t \in Slots, StartRun(t) \/ StartResume(t)
  PROVE  ProjectionInv'
<1>1. CASE StartRun(t)
  <2>1. ProjectedCheckpoint' /\ StateIsProjection'
    BY <1>1 DEF StartRun, ProjectedCheckpoint, ProjectionInv, StateIsProjection, StatesAfter,
                NoRow
  <2>2. ProjectedTask([Running("extract", NewAggregate, NoResume) EXCEPT !.fresh = TRUE])
    BY RunningProjected
  <2> QED BY <1>1, <2>1, <2>2, OneProjected DEF StartRun
<1>2. CASE StartResume(t)
  <2>1. UNCHANGED <<claim, events, checkpoint>>
    BY <1>2 DEF StartResume, Elsewhere, durable
  <2>2. CASE Becomes(t, IdleTask)
    BY <2>1, <2>2, IdleProjected, OnlyProjected
  <2>3. ASSUME NEW value, Becomes(t, Running(checkpoint.next, checkpoint.agg, value))
        PROVE  ProjectionInv'
    <3>1. ProjectedTask(Running(checkpoint.next, checkpoint.agg, value))
      BY RunningProjected DEF ProjectionInv, ProjectedCheckpoint
    <3> QED BY <2>1, <2>3, <3>1, OnlyProjected
  <2> QED BY <1>2, <2>2, <2>3 DEF StartResume
<1> QED BY <1>1, <1>2

LEMMA TriagingProjected ==
  ASSUME TypeOK, ProjectionInv, NEW t \in Slots, Triaging(t)
  PROVE  ProjectionInv'
<1> DEFINE a == tasks[t].agg
<1>0. /\ UNCHANGED <<claim, events, checkpoint>>
      /\ ProjectedTask(tasks[t]) /\ tasks[t] \in Task /\ a \in Aggregate
  BY TaskType DEF ProjectionInv, Triaging, Extract, Classify, Investigate, RouteNode,
                  LLMFails, Elsewhere, durable
<1>1. CASE Extract(t)
  <2>1. PICK x, n : LET agg == [a EXCEPT !.extraction = x, !.tokens = n, !.state = "TRIAGE"]
                    IN  Return(t, agg, <<Commit(agg, "EXTRACTED")>>,
                               UnlessExhausted(agg, "classify"))
    BY <1>1 DEF Extract
  <2> DEFINE agg == [a EXCEPT !.extraction = x, !.tokens = n, !.state = "TRIAGE"]
  <2>2. agg.state = "TRIAGE"
    <3> HIDE DEF a
    <3> QED BY <1>0 DEF Aggregate
  <2>3. Return(t, agg, <<Commit(agg, "EXTRACTED")>>, UnlessExhausted(agg, "classify"))
    BY <2>1
  <2> HIDE DEF agg
  <2>4. agg.state \in StatesAfter("EXTRACTED")
    BY <2>2 DEF StatesAfter
  <2> QED BY <1>0, <2>2, <2>3, <2>4, OneAgrees, ReturnProjected
<1>2. CASE Classify(t)
  <2>1. PICK x, n : LET agg == [a EXCEPT !.classification = x, !.tokens = n]
                    IN  Return(t, agg, <<Commit(agg, "CLASSIFIED")>>,
                               UnlessExhausted(agg, "investigate"))
    BY <1>2 DEF Classify
  <2> DEFINE agg == [a EXCEPT !.classification = x, !.tokens = n]
  <2>2. agg.state = "TRIAGE"
    <3>1. a.state = "TRIAGE"
      BY <1>0, <1>2 DEF Classify, At, ProjectedTask
    <3> HIDE DEF a
    <3> QED BY <1>0, <3>1 DEF Aggregate
  <2>3. Return(t, agg, <<Commit(agg, "CLASSIFIED")>>, UnlessExhausted(agg, "investigate"))
    BY <2>1
  <2> HIDE DEF agg
  <2>4. agg.state \in StatesAfter("CLASSIFIED")
    BY <2>2 DEF StatesAfter
  <2> QED BY <1>0, <2>2, <2>3, <2>4, OneAgrees, ReturnProjected
<1>3. CASE Investigate(t)
  <2>1. PICK inv, n : LET agg == [a EXCEPT !.investigation = inv, !.tokens = n,
                                           !.state = "TRIAGE"]
                      IN  Return(t, agg,
                            IF inv.degraded
                            THEN <<Commit(agg, "INVESTIGATED"), Commit(agg, "DEGRADED_MODE")>>
                            ELSE <<Commit(agg, "INVESTIGATED")>>,
                            UnlessExhausted(agg, "route"))
    BY <1>3 DEF Investigate
  <2> DEFINE agg == [a EXCEPT !.investigation = inv, !.tokens = n, !.state = "TRIAGE"]
             commits == IF inv.degraded
                        THEN <<Commit(agg, "INVESTIGATED"), Commit(agg, "DEGRADED_MODE")>>
                        ELSE <<Commit(agg, "INVESTIGATED")>>
  <2>2. agg.state = "TRIAGE"
    <3> HIDE DEF a
    <3> QED BY <1>0 DEF Aggregate
  <2>3. Return(t, agg, commits, UnlessExhausted(agg, "route"))
    BY <2>1
  <2>4. \A i \in DOMAIN commits : Agrees(commits[i])
    <3> HIDE DEF agg
    <3>1. agg.state \in StatesAfter("INVESTIGATED") /\ agg.state \in StatesAfter("DEGRADED_MODE")
      BY <2>2 DEF StatesAfter
    <3> QED BY <3>1, OneAgrees, TwoAgree
  <2> HIDE DEF agg, commits
  <2> QED BY <1>0, <2>2, <2>3, <2>4, ReturnProjected
<1>4. CASE RouteNode(t)
  <2>1. PICK wf, rule, n :
          LET agg == [a EXCEPT !.workflow = wf, !.rule_id = rule, !.state = "PLANNING",
                               !.tokens = n]
          IN  /\ Return(t, agg, <<Commit(agg, "ROUTED")>>, UnlessExhausted(agg, NodeFor(wf)))
              /\ wf \in Workflow
    BY <1>4, RouteType DEF RouteNode
  <2> DEFINE agg == [a EXCEPT !.workflow = wf, !.rule_id = rule, !.state = "PLANNING",
                              !.tokens = n]
  <2>2. agg.state = "PLANNING"
    <3> HIDE DEF a
    <3> QED BY <1>0 DEF Aggregate
  <2>3. Return(t, agg, <<Commit(agg, "ROUTED")>>, UnlessExhausted(agg, NodeFor(wf)))
    BY <2>1
  <2> HIDE DEF agg
  <2>4. agg.state \in StatesAfter("ROUTED")
    BY <2>2 DEF StatesAfter
  <2>5. UnlessExhausted(agg, NodeFor(wf)) # "classify"
    BY <2>1 DEF UnlessExhausted, NodeFor, Workflow
  <2> QED BY <1>0, <2>3, <2>4, <2>5, OneAgrees, ReturnProjected
<1>5. CASE LLMFails(t)
  <2>1. ProjectedTask([tasks[t] EXCEPT !.pc = "raised"])
    BY <1>0 DEF ProjectedTask, Task
  <2> QED BY <1>0, <1>5, <2>1, OnlyProjected DEF LLMFails, MoveTo
<1> QED BY <1>1, <1>2, <1>3, <1>4, <1>5 DEF Triaging

LEMMA PayingProjected ==
  ASSUME TypeOK, ProjectionInv, NEW t \in Slots, Paying(t)
  PROVE  ProjectionInv'
<1>0. tasks[t] \in Task
  BY TaskType
<1>1. \A pc : pc \notin {"commit", "run"} => ProjectedTask([tasks[t] EXCEPT !.pc = pc])
  BY <1>0 DEF ProjectedTask, Task
<1>2. \A ok : ProjectedTask([tasks[t] EXCEPT !.pc = "paid", !.ok = ok])
  BY <1>0 DEF ProjectedTask, Task
<1>3. CASE PayRefused(t)
  BY <1>2, <1>3, OnlyProjected DEF PayRefused, PayAnswer, Elsewhere, durable
<1>4. CASE PayInvalid(t)
  <2>1. checkpoint'.next = checkpoint.next /\ checkpoint'.agg = checkpoint.agg
    BY <1>4 DEF PayInvalid, TypeOK, Checkpoint
  <2>2. ProjectedCheckpoint' /\ StateIsProjection'
    BY <1>4, <2>1 DEF PayInvalid, ProjectionInv, ProjectedCheckpoint, StateIsProjection,
                      StatesAfter, NoRow
  <2> QED BY <1>1, <1>4, <2>2, OneProjected DEF PayInvalid, MoveTo
<1>5. CASE PayLookup(t)
  BY <1>1, <1>2, <1>5, OnlyProjected DEF PayLookup, PayAnswer, MoveTo, Elsewhere, durable
<1>6. CASE PayRail(t)
  BY <1>1, <1>6, OnlyProjected DEF PayRail, MoveTo, durable
<1>7. CASE PayRecord(t)
  BY <1>2, <1>7, OnlyProjected DEF PayRecord, PayAnswer
<1> QED BY <1>3, <1>4, <1>5, <1>6, <1>7 DEF Paying

LEMMA ExecutingProjected ==
  ASSUME TypeOK, ProjectionInv, NEW t \in Slots, Executing(t)
  PROVE  ProjectionInv'
<1> DEFINE a == tasks[t].agg
<1>0. tasks[t] \in Task /\ a \in Aggregate
  BY TaskType
<1>1. CASE W1Execute(t)
  <2>1. ProjectedTask([tasks[t] EXCEPT !.pc = "lookup", !.pay = a.investigation.amount_est])
    BY <1>0 DEF ProjectedTask, Task
  <2> DEFINE agg == [a EXCEPT !.state = "EXECUTING"]
  <2>2. agg \in Aggregate /\ agg.state = "EXECUTING"
    BY <1>0, StateType, StateSet DEF ClaimState
  <2>3. claim' = Commit(agg, "EXECUTING").row
          /\ events' = Append(events, Commit(agg, "EXECUTING").event)
    BY <1>1 DEF W1Execute
  <2> HIDE DEF agg
  <2>4. StateIsProjection'
    BY <2>2, <2>3, Committed DEF StatesAfter, EventType
  <2>5. ProjectedCheckpoint'
    BY <1>1 DEF W1Execute, ProjectionInv, ProjectedCheckpoint
  <2> QED BY <1>1, <2>1, <2>4, <2>5, OneProjected DEF W1Execute, Pay
<1>2. CASE W2Resolve(t) \/ W2Approved(t)
  <2>1. ProjectedTask([tasks[t] EXCEPT !.pc = "resolved"])
    BY <1>0 DEF ProjectedTask, Task
  <2>2. ProjectedTask([tasks[t] EXCEPT !.pc = "lookup", !.pay = AmountToPay(tasks[t].value)])
    BY <1>0 DEF ProjectedTask, Task
  <2> QED BY <1>2, <2>1, <2>2, OnlyProjected
             DEF W2Resolve, W2Approved, MoveTo, Pay, Elsewhere, durable
<1>3. CASE \/ W1Paid(t) \/ Settle(t) \/ Close(t) \/ W2Deny(t) \/ W2Pay(t) \/ W2Rejected(t)
           \/ W2Denied(t) \/ W2Paid(t) \/ Escalate(t) \/ W4Request(t) \/ W4Await(t)
  <2>0. UNCHANGED <<claim, events, checkpoint>>
    BY <1>3 DEF W1Paid, Settle, Close, W2Deny, W2Pay, W2Rejected, W2Denied, W2Paid, Escalate,
                W4Request, W4Await, Elsewhere, durable
  <2>1. ASSUME NEW agg, NEW type, NEW goto, Return(t, agg, <<Commit(agg, type)>>, goto),
               agg.state \in StatesAfter(type), goto # "classify"
        PROVE  ProjectionInv'
    BY <2>0, <2>1, OneAgrees, ReturnProjected
  <2>2. ASSUME NEW agg, NEW type, NEW type2, NEW goto,
               Return(t, agg, <<Commit(agg, type), Commit(agg, type2)>>, goto),
               agg.state \in StatesAfter(type), agg.state \in StatesAfter(type2),
               goto # "classify"
        PROVE  ProjectionInv'
    BY <2>0, <2>2, TwoAgree, ReturnProjected
  <2>3. \A agg : /\ AfterW1(agg) # "classify" /\ AfterW2(agg) # "classify"
                 /\ AfterW4(agg) # "classify"
                 /\ UnlessExhausted(agg, "w2_await") # "classify"
    BY DEF AfterW1, AfterW2, AfterW4, UnlessExhausted
  <2>4. Compensated(a).state = "REVIEW_PENDING"
    BY <1>0 DEF Compensated, Aggregate
  <2>5. CASE W1Paid(t)
    <3>1. CASE tasks[t].ok
      <4>1. PICK agg : Return(t, agg, <<>>, AfterW1(agg))
        BY <1>3, <2>5, <3>1 DEF W1Paid
      <4> QED BY <2>0, <2>3, <4>1, ReturnProjected
    <3>2. CASE ~ tasks[t].ok
      <4> DEFINE agg == Compensated(a)
      <4>1. Return(t, agg, <<Commit(agg, "COMPENSATED")>>, AfterW1(agg))
        BY <2>5, <3>2 DEF W1Paid
      <4>2. agg.state \in StatesAfter("COMPENSATED")
        BY <2>4 DEF StatesAfter
      <4> HIDE DEF agg
      <4> QED BY <2>1, <2>3, <4>1, <4>2
    <3> QED BY <3>1, <3>2
  <2>6. CASE Settle(t) \/ Close(t) \/ W2Rejected(t) \/ Escalate(t) \/ W4Request(t)
    <3>1. PICK state, type, goto :
            LET agg == [a EXCEPT !.state = state]
            IN  /\ Return(t, agg, <<Commit(agg, type)>>, goto)
                /\ state \in StatesAfter(type)
                /\ goto # "classify"
      BY <2>3, <2>6 DEF Settle, Close, W2Rejected, Escalate, W4Request, StatesAfter
    <3> DEFINE agg == [a EXCEPT !.state = state]
    <3>2. agg.state \in StatesAfter(type)
      BY <1>0, <3>1, StateSet
    <3>3. Return(t, agg, <<Commit(agg, type)>>, goto) /\ goto # "classify"
      BY <3>1
    <3> HIDE DEF agg
    <3> QED BY <2>1, <3>2, <3>3
  <2>7. CASE W2Deny(t)
    <3>1. PICK n : LET agg == [a EXCEPT !.state = "REVIEW_PENDING", !.tokens = n]
                   IN  Return(t, agg, <<Commit(agg, "APPROVAL_REQUESTED")>>,
                              UnlessExhausted(agg, "w2_await"))
      BY <2>7 DEF W2Deny
    <3> DEFINE agg == [a EXCEPT !.state = "REVIEW_PENDING", !.tokens = n]
    <3>2. agg.state \in StatesAfter("APPROVAL_REQUESTED")
      BY <1>0 DEF Aggregate, StatesAfter
    <3>3. Return(t, agg, <<Commit(agg, "APPROVAL_REQUESTED")>>,
                 UnlessExhausted(agg, "w2_await"))
      BY <3>1
    <3> HIDE DEF agg
    <3> QED BY <2>1, <2>3, <3>2, <3>3
  <2>8. CASE W2Pay(t)
    <3> DEFINE agg == [a EXCEPT !.state = "REVIEW_PENDING",
                                !.reserve = a.investigation.amount_est]
    <3>1. Return(t, agg, <<Commit(agg, "APPROVAL_REQUESTED")>>,
                 UnlessExhausted(agg, "w2_await"))
      BY <2>8 DEF W2Pay
    <3>2. agg.state \in StatesAfter("APPROVAL_REQUESTED")
      BY <1>0 DEF Aggregate, StatesAfter
    <3> HIDE DEF agg
    <3> QED BY <2>1, <2>3, <3>1, <3>2
  <2>9. CASE W2Denied(t)
    <3> DEFINE agg == [a EXCEPT !.state = "DENIED"]
    <3>1. Return(t, agg, <<Commit(agg, "APPROVAL_RESOLVED"), Commit(agg, "DENIED")>>,
                 AfterW2(agg))
      BY <2>9 DEF W2Denied
    <3>2. agg.state \in StatesAfter("APPROVAL_RESOLVED") /\ agg.state \in StatesAfter("DENIED")
      BY <1>0, StateSet DEF StatesAfter
    <3> HIDE DEF agg
    <3> QED BY <2>2, <2>3, <3>1, <3>2
  <2>10. CASE W2Paid(t)
    <3>1. CASE tasks[t].ok
      <4>1. PICK reserve, paid :
              LET agg == [a EXCEPT !.reserve = reserve, !.paid = paid, !.state = "SETTLEMENT"]
              IN  Return(t, agg, <<Commit(agg, "APPROVAL_RESOLVED"), Commit(agg, "SETTLED")>>,
                         AfterW2(agg))
        BY <2>10, <3>1 DEF W2Paid
      <4> DEFINE agg == [a EXCEPT !.reserve = reserve, !.paid = paid, !.state = "SETTLEMENT"]
      <4>2. agg.state \in StatesAfter("APPROVAL_RESOLVED")
              /\ agg.state \in StatesAfter("SETTLED")
        BY <1>0 DEF Aggregate, StatesAfter
      <4>3. Return(t, agg, <<Commit(agg, "APPROVAL_RESOLVED"), Commit(agg, "SETTLED")>>,
                   AfterW2(agg))
        BY <4>1
      <4> HIDE DEF agg
      <4> QED BY <2>2, <2>3, <4>2, <4>3
    <3>2. CASE ~ tasks[t].ok
      <4> DEFINE agg == Compensated(a)
      <4>1. Return(t, agg, <<Commit(agg, "APPROVAL_RESOLVED"), Commit(agg, "COMPENSATED")>>,
                   AfterW2(agg))
        BY <2>10, <3>2 DEF W2Paid
      <4>2. agg.state \in StatesAfter("APPROVAL_RESOLVED")
              /\ agg.state \in StatesAfter("COMPENSATED")
        BY <2>4 DEF StatesAfter
      <4> HIDE DEF agg
      <4> QED BY <2>2, <2>3, <4>1, <4>2
    <3> QED BY <3>1, <3>2
  <2>11. CASE W4Await(t)
    <3>1. PICK agg, type : /\ Return(t, agg, <<Commit(agg, type)>>, AfterW4(agg))
                           /\ agg.state \in StatesAfter(type)
      <4> DEFINE replans == a.replans + 1
                 full == [a EXCEPT !.state = "ESCALATED", !.replans = replans]
                 next == [a EXCEPT !.extraction = WithDocuments(@, tasks[t].value.fields),
                                   !.replans = replans, !.state = "TRIAGE"]
      <4>1. full.state = "ESCALATED" /\ next.state = "TRIAGE"
        BY <1>0 DEF Aggregate
      <4>2. IF LimitReached(replans)
            THEN Return(t, full, <<Commit(full, "REPLAN_LIMIT")>>, AfterW4(full))
            ELSE Return(t, next, <<Commit(next, "DOCUMENT_RECEIVED")>>, AfterW4(next))
        BY <2>11 DEF W4Await
      <4> HIDE DEF full, next
      <4> QED BY <4>1, <4>2 DEF StatesAfter
    <3> QED BY <2>1, <2>3, <3>1
  <2> QED BY <1>3, <2>5, <2>6, <2>7, <2>8, <2>9, <2>10, <2>11
<1> QED BY <1>1, <1>2, <1>3 DEF Executing

LEMMA LeavingProjected ==
  ASSUME TypeOK, ProjectionInv, NEW t \in Slots, Leaving(t)
  PROVE  ProjectionInv'
<1>0. ProjectedTask(tasks[t]) /\ tasks[t] \in Task
  BY TaskType DEF ProjectionInv
<1>1. CASE CommitNext(t)
  <2> DEFINE todo == tasks[t].todo
             transition == Head(todo)
  <2>1. todo \in Seq(Transition) /\ todo # <<>> /\ \A i \in DOMAIN todo : Agrees(todo[i])
    BY <1>0, <1>1, TaskType DEF CommitNext, ProjectedTask
  <2> HIDE DEF todo
  <2>2. Agrees(transition) /\ transition \in Transition
    BY <2>1
  <2>3. \A i \in DOMAIN Tail(todo) : Agrees(Tail(todo)[i])
    <3>1. ASSUME NEW i \in DOMAIN Tail(todo) PROVE Tail(todo)[i] = todo[i + 1] /\ i + 1 \in DOMAIN todo
      BY <2>1, <3>1
    <3> QED BY <2>1, <3>1
  <2>4. claim' = transition.row /\ events' = Append(events, transition.event)
    BY <1>1 DEF CommitNext, todo
  <2> HIDE DEF transition
  <2>5. StateIsProjection'
    <3>1. events' # <<>> /\ events'[Len(events')] = transition.event
      BY <2>2, <2>4 DEF TypeOK, Transition
    <3> QED BY <2>2, <2>4, <3>1 DEF StateIsProjection, Agrees, StatesAfter
  <2>6. ProjectedTask([tasks[t] EXCEPT !.todo = Tail(@)])
    BY <1>0, <2>3 DEF ProjectedTask, Task, todo
  <2>7. ProjectedCheckpoint'
    BY <1>1 DEF CommitNext, ProjectionInv, ProjectedCheckpoint
  <2> QED BY <1>1, <2>5, <2>6, <2>7, OneProjected DEF CommitNext
<1>2. CASE Finish(t)
  <2>1. tasks[t].goto = "classify" => tasks[t].agg.state = "TRIAGE"
    BY <1>0, <1>2 DEF Finish, ProjectedTask
  <2>2. ProjectedCheckpoint' /\ StateIsProjection'
    BY <1>2, <2>1 DEF Finish, ProjectionInv, ProjectedCheckpoint, StateIsProjection,
                      StatesAfter, NoRow
  <2> DEFINE next == IF tasks[t].goto \in Awaits \cup {"END"} THEN IdleTask
                     ELSE [Running(tasks[t].goto, tasks[t].agg, NoResume)
                             EXCEPT !.fresh = tasks[t].fresh]
  <2>3. ProjectedTask(next)
    BY <2>1, IdleProjected, RunningProjected
  <2>4. Becomes(t, next)
    BY <1>2 DEF Finish
  <2> HIDE DEF next
  <2> QED BY <2>2, <2>3, <2>4, OneProjected
<1>3. CASE RecordEscalation(t)
  <2> DEFINE base == IF tasks[t].fresh THEN NewAggregate ELSE checkpoint.agg
             agg  == [base EXCEPT !.state = "ESCALATED"]
  <2>1. agg \in Aggregate /\ agg.state = "ESCALATED"
    <3>1. base \in Aggregate
      BY NewAggregateType DEF TypeOK, Checkpoint
    <3> HIDE DEF base
    <3> QED BY <3>1, StateType, StateSet DEF ClaimState
  <2>2. claim' = Commit(agg, "ESCALATED").row
          /\ events' = Append(events, Commit(agg, "ESCALATED").event)
    BY <1>3 DEF RecordEscalation
  <2> HIDE DEF agg
  <2>3. StateIsProjection'
    BY <2>1, <2>2, Committed DEF StatesAfter, EventType
  <2>4. ProjectedCheckpoint'
    BY <1>3 DEF RecordEscalation, ProjectionInv, ProjectedCheckpoint
  <2> QED BY <1>3, <2>3, <2>4, IdleProjected, OneProjected DEF RecordEscalation
<1> QED BY <1>1, <1>2, <1>3 DEF Leaving

LEMMA CallProjected ==
  ASSUME TypeOK, ProjectionInv, NEW t \in Slots, Call(t)
  PROVE  ProjectionInv'
<1>1. ProjectedTask([IdleTask EXCEPT !.pc = "start", !.fresh = TRUE])
  BY DEF ProjectedTask, IdleTask
<1>2. \A value : ProjectedTask([IdleTask EXCEPT !.pc = "start", !.value = value])
  BY DEF ProjectedTask, IdleTask
<1>3. CASE Inject(t)
  <2>1. NewAggregate.state = "RECEIVED" /\ NewAggregate \in Aggregate
    BY NewAggregateType DEF NewAggregate
  <2>2. StateIsProjection'
    BY <1>3, <2>1, Committed DEF Inject, StatesAfter, EventType
  <2>3. ProjectedCheckpoint'
    BY <1>3 DEF Inject, ProjectionInv, ProjectedCheckpoint
  <2> QED BY <1>1, <1>3, <2>2, <2>3, OneProjected DEF Inject
<1>4. CASE \E value : Resume(t, value)
  BY <1>2, <1>4, OnlyProjected DEF Resume, durable
<1> QED BY <1>3, <1>4 DEF Call, Resolve, SubmitDocuments

LEMMA TaskDiesProjected ==
  ASSUME TypeOK, ProjectionInv, NEW t \in Slots, TaskDies(t)
  PROVE  ProjectionInv'
<1>1. checkpoint'.next = checkpoint.next /\ checkpoint'.agg = checkpoint.agg
  BY DEF TaskDies, TypeOK, Checkpoint
<1>2. ProjectedCheckpoint' /\ StateIsProjection'
  BY <1>1 DEF TaskDies, ProjectionInv, ProjectedCheckpoint, StateIsProjection, StatesAfter, NoRow
<1> QED BY <1>2, IdleProjected, OneProjected DEF TaskDies

LEMMA StepProjected ==
  ASSUME TypeOK, ProjectionInv, [Next]_vars
  PROVE  ProjectionInv'
<1>1. CASE \E t \in Slots : Step(t) \/ Call(t) \/ TaskDies(t)
  BY <1>1, StartsProjected, TriagingProjected, PayingProjected, ExecutingProjected,
     LeavingProjected, CallProjected, TaskDiesProjected DEF Step
<1>2. CASE Crash
  <2>1. ProjectedCheckpoint' /\ StateIsProjection'
    BY <1>2 DEF Crash, durable, ProjectionInv, ProjectedCheckpoint, StateIsProjection,
                StatesAfter, NoRow
  <2>2. \A t \in Slots : ProjectedTask(tasks'[t])
    BY <1>2, IdleProjected DEF Crash
  <2> QED BY <2>1, <2>2 DEF ProjectionInv, ProjectedTask, Agrees, StatesAfter
<1>3. CASE UNCHANGED vars
  BY <1>3 DEF vars, durable, ProjectionInv, ProjectedTask, ProjectedCheckpoint,
              StateIsProjection, StatesAfter, NoRow, Agrees
<1> QED BY <1>1, <1>2, <1>3 DEF Next

LEMMA ProjectionAlways == Spec => []ProjectionInv
<1>1. Init => ProjectionInv
  BY IdleProjected DEF Init, ProjectionInv, ProjectedCheckpoint, NoCheckpoint,
                       StateIsProjection
<1>2. TypeOK /\ ProjectionInv /\ [Next]_vars => ProjectionInv'
  BY StepProjected
<1> QED BY <1>1, <1>2, TypeCorrect, PTL DEF Spec

(* The state in the claims row is the one the last event implies, also     *)
(* between the commits of two tasks and after a crash (commit_transition). *)
THEOREM Projection == Spec => []StateIsProjection
<1>1. ProjectionInv => StateIsProjection
  BY DEF ProjectionInv
<1> QED BY <1>1, ProjectionAlways, PTL

-----------------------------------------------------------------------------
(***************************************************************************)
(* Whoever reads the approval row finds one (ApprovalBeforeAwait), for     *)
(* every number of overlapping tasks and every crash: w2_await indexes the *)
(* row it gets without asking whether there is one.                        *)
(*                                                                         *)
(* w2_propose inserts the row several steps before its checkpoint names    *)
(* w2_await, and the task that resumes there may be another one, so the    *)
(* invariant follows the row from the insert through the commits and the   *)
(* checkpoint to the resumed task.  It also says that a task that runs an  *)
(* await has a resume value, whichever invocation left it: the resolution  *)
(* the row is set to comes from it.                                        *)
(***************************************************************************)

HasKind(value) == value.kind = "none" => value = NoResume

ApprovedTask(task, status) ==
  /\ task.pc = "run" /\ task.node = "w2_await" => status # "none" /\ task.value.kind # "none"
  /\ task.pc = "commit" /\ task.goto = "w2_await" => status # "none"
  /\ task.pc = "resolved" => status \in Resolution
  /\ HasKind(task.value)

ApprovedCheckpoint ==
  /\ checkpoint.next = "w2_await" => approval.status # "none"
  /\ HasKind(checkpoint.resume)

ApprovalInv ==
  /\ \A t \in Slots : ApprovedTask(tasks[t], approval.status)
  /\ ApprovedCheckpoint
  /\ approval.status # "none" => approval.type # "none"

(* An approval never goes away, and once resolved stays resolved.          *)
Keeps(status, next) ==
  /\ status # "none" => next # "none"
  /\ status \in Resolution => next \in Resolution

-----------------------------------------------------------------------------
LEMMA OneApproved ==
  ASSUME TypeOK, ApprovalInv, NEW t \in Slots, NEW task, Becomes(t, task),
         ApprovedTask(task, approval'.status), Keeps(approval.status, approval'.status),
         ApprovedCheckpoint', approval'.status # "none" => approval'.type # "none"
  PROVE  ApprovalInv'
<1>1. \A u \in Slots : tasks'[u] = IF u = t THEN task ELSE tasks[u]
  BY TaskType DEF Becomes
<1>2. \A u \in Slots : ApprovedTask(tasks'[u], approval'.status)
  BY <1>1 DEF ApprovalInv, ApprovedTask, Keeps
<1> QED BY <1>2 DEF ApprovalInv

(* The approval and the checkpoint stay.                                   *)
LEMMA OnlyApproved ==
  ASSUME TypeOK, ApprovalInv, NEW t \in Slots, NEW task, Becomes(t, task),
         ApprovedTask(task, approval.status), UNCHANGED <<approval, checkpoint>>
  PROVE  ApprovalInv'
<1>1. ApprovedCheckpoint' /\ Keeps(approval.status, approval'.status)
  BY DEF ApprovalInv, ApprovedCheckpoint, HasKind, Keeps, NoResume
<1> QED BY <1>1, OneApproved DEF ApprovalInv

LEMMA ReturnApproved ==
  ASSUME TypeOK, ApprovalInv, NEW t \in Slots, NEW agg, NEW commits, NEW goto,
         Return(t, agg, commits, goto), goto # "w2_await",
         UNCHANGED <<approval, checkpoint>>
  PROVE  ApprovalInv'
<1> DEFINE task == [tasks[t] EXCEPT !.pc = "commit", !.agg = agg, !.todo = commits,
                                    !.goto = goto]
<1>1. ApprovedTask(task, approval.status)
  BY TaskType DEF ApprovalInv, ApprovedTask, Task
<1>2. Becomes(t, task)
  BY DEF Return
<1> HIDE DEF task
<1> QED BY <1>1, <1>2, OnlyApproved

LEMMA IdleApproved ==
  ASSUME NEW status
  PROVE  ApprovedTask(IdleTask, status)
BY DEF ApprovedTask, IdleTask, HasKind

LEMMA RunningApproved ==
  ASSUME NEW node, NEW agg, NEW value, NEW fresh, NEW status, HasKind(value),
         node = "w2_await" => status # "none" /\ value.kind # "none"
  PROVE  /\ ApprovedTask(Running(node, agg, value), status)
         /\ ApprovedTask([Running(node, agg, value) EXCEPT !.fresh = fresh], status)
BY DEF ApprovedTask, Running, IdleTask

-----------------------------------------------------------------------------
(* Every action keeps the invariant.                                       *)

LEMMA StartsApproved ==
  ASSUME TypeOK, ApprovalInv, NEW t \in Slots, StartRun(t) \/ StartResume(t)
  PROVE  ApprovalInv'
<1>0. HasKind(NoResume)
  BY DEF HasKind
<1>1. CASE StartRun(t)
  <2>1. ApprovedCheckpoint' /\ Keeps(approval.status, approval'.status)
    BY <1>1 DEF StartRun, ApprovedCheckpoint, HasKind, Keeps, NoResume
  <2>2. ApprovedTask([Running("extract", NewAggregate, NoResume) EXCEPT !.fresh = TRUE],
                     approval'.status)
    BY <1>0 DEF ApprovedTask, Running, IdleTask
  <2>3. approval'.status # "none" => approval'.type # "none"
    BY <1>1 DEF StartRun, ApprovalInv
  <2> QED BY <1>1, <2>1, <2>2, <2>3, OneApproved DEF StartRun
<1>2. CASE StartResume(t)
  <2>1. UNCHANGED <<approval, checkpoint>>
    BY <1>2 DEF StartResume, Elsewhere, durable
  <2>2. CASE Becomes(t, IdleTask)
    BY <2>1, <2>2, IdleApproved, OnlyApproved
  <2>3. ASSUME NEW value \in {tasks[t].value, checkpoint.resume} \ {NoResume},
               Becomes(t, Running(checkpoint.next, checkpoint.agg, value))
        PROVE  ApprovalInv'
    <3>1. HasKind(value) /\ value.kind # "none"
      BY <2>3 DEF ApprovalInv, ApprovedTask, ApprovedCheckpoint, HasKind
    <3>2. ApprovedTask(Running(checkpoint.next, checkpoint.agg, value), approval.status)
      BY <3>1, RunningApproved DEF ApprovalInv, ApprovedCheckpoint
    <3> QED BY <2>1, <2>3, <3>2, OnlyApproved
  <2> QED BY <1>2, <2>2, <2>3 DEF StartResume
<1> QED BY <1>1, <1>2

LEMMA TriagingApproved ==
  ASSUME TypeOK, ApprovalInv, NEW t \in Slots, Triaging(t)
  PROVE  ApprovalInv'
<1>0. UNCHANGED <<approval, checkpoint>>
  BY DEF Triaging, Extract, Classify, Investigate, RouteNode, LLMFails, Elsewhere, durable
<1>1. CASE LLMFails(t)
  <2>1. ApprovedTask([tasks[t] EXCEPT !.pc = "raised"], approval.status)
    BY TaskType DEF ApprovalInv, ApprovedTask, Task
  <2> QED BY <1>0, <1>1, <2>1, OnlyApproved DEF LLMFails, MoveTo
<1>2. CASE Extract(t) \/ Classify(t) \/ Investigate(t) \/ RouteNode(t)
  <2>1. PICK agg, commits, goto : Return(t, agg, commits, goto) /\ goto # "w2_await"
    <3>1. \A agg : /\ UnlessExhausted(agg, "classify") # "w2_await"
                   /\ UnlessExhausted(agg, "investigate") # "w2_await"
                   /\ UnlessExhausted(agg, "route") # "w2_await"
                   /\ \A wf \in Workflow : UnlessExhausted(agg, NodeFor(wf)) # "w2_await"
      BY DEF UnlessExhausted, NodeFor, Workflow
    <3>2. CASE Extract(t)
      BY <3>1, <3>2 DEF Extract
    <3>3. CASE Classify(t)
      BY <3>1, <3>3 DEF Classify
    <3>4. CASE Investigate(t)
      BY <3>1, <3>4 DEF Investigate
    <3>5. CASE RouteNode(t)
      BY <3>1, <3>5, RouteType DEF RouteNode
    <3> QED BY <1>2, <3>2, <3>3, <3>4, <3>5
  <2> QED BY <1>0, <2>1, ReturnApproved
<1> QED BY <1>1, <1>2 DEF Triaging

LEMMA PayingApproved ==
  ASSUME TypeOK, ApprovalInv, NEW t \in Slots, Paying(t)
  PROVE  ApprovalInv'
<1>0. ApprovedTask(tasks[t], approval.status) /\ tasks[t] \in Task
  BY TaskType DEF ApprovalInv
<1>1. \A pc : pc \in {"raised", "rail", "record"} =>
                ApprovedTask([tasks[t] EXCEPT !.pc = pc], approval.status)
  BY <1>0 DEF ApprovedTask, Task
<1>2. \A ok : ApprovedTask([tasks[t] EXCEPT !.pc = "paid", !.ok = ok], approval.status)
  BY <1>0 DEF ApprovedTask, Task
<1>3. CASE PayRefused(t)
  BY <1>2, <1>3, OnlyApproved DEF PayRefused, PayAnswer, Elsewhere, durable
<1>4. CASE PayInvalid(t)
  <2>1. /\ checkpoint'.next = checkpoint.next
        /\ checkpoint'.resume \in {checkpoint.resume, tasks[t].value}
        /\ approval' = approval
    BY <1>4 DEF PayInvalid, TypeOK, Checkpoint
  <2>2. ApprovedCheckpoint' /\ Keeps(approval.status, approval'.status)
    BY <1>0, <2>1 DEF ApprovalInv, ApprovedTask, ApprovedCheckpoint, HasKind, Keeps, NoResume
  <2> QED BY <1>1, <1>4, <2>1, <2>2, OneApproved DEF PayInvalid, MoveTo, ApprovalInv
<1>5. CASE PayLookup(t)
  BY <1>1, <1>2, <1>5, OnlyApproved DEF PayLookup, PayAnswer, MoveTo, Elsewhere, durable
<1>6. CASE PayRail(t)
  BY <1>1, <1>6, OnlyApproved DEF PayRail, MoveTo, durable
<1>7. CASE PayRecord(t)
  BY <1>2, <1>7, OnlyApproved DEF PayRecord, PayAnswer
<1> QED BY <1>3, <1>4, <1>5, <1>6, <1>7 DEF Paying

LEMMA ProposeApproved ==
  ASSUME TypeOK, ApprovalInv, NEW t \in Slots, W2Deny(t) \/ W2Pay(t)
  PROVE  ApprovalInv'
<1>1. PICK agg, commits, goto : Return(t, agg, commits, goto)
  BY DEF W2Deny, W2Pay
<1>2. PICK action, amount : action \in {"deny", "pay"} /\ CreateApproval(action, amount)
  <2>1. CASE W2Deny(t)
    <3>1. CreateApproval("deny", 0)
      BY <2>1 DEF W2Deny
    <3> QED BY <3>1
  <2>2. CASE W2Pay(t)
    <3>1. CreateApproval("pay", tasks[t].agg.investigation.amount_est)
      BY <2>2 DEF W2Pay
    <3> QED BY <3>1
  <2> QED BY <2>1, <2>2
<1>3. /\ approval'.status # "none"
      /\ approval'.type # "none"
      /\ Keeps(approval.status, approval'.status)
  BY <1>2 DEF CreateApproval, ApprovalInv, Keeps, Resolution
<1>4. ApprovedCheckpoint'
  <2>1. UNCHANGED checkpoint
    BY DEF W2Deny, W2Pay
  <2> QED BY <1>3, <2>1 DEF ApprovalInv, ApprovedCheckpoint, HasKind, NoResume
<1> DEFINE task == [tasks[t] EXCEPT !.pc = "commit", !.agg = agg, !.todo = commits,
                                    !.goto = goto]
<1>5. ApprovedTask(task, approval'.status)
  BY <1>3, TaskType DEF ApprovalInv, ApprovedTask, Task
<1>6. Becomes(t, task)
  BY <1>1 DEF Return
<1> HIDE DEF task
<1> QED BY <1>3, <1>4, <1>5, <1>6, OneApproved

LEMMA ResolveApproved ==
  ASSUME TypeOK, ApprovalInv, NEW t \in Slots, W2Resolve(t)
  PROVE  ApprovalInv'
<1>1. /\ ApprovedTask(tasks[t], approval.status)
      /\ tasks[t].pc = "run" /\ tasks[t].node = "w2_await"
      /\ tasks[t].value \in ResumeValue /\ tasks[t] \in Task
  BY TaskType DEF ApprovalInv, W2Resolve, At
<1>2. ResolutionOf(tasks[t].value) \in Resolution
  BY <1>1 DEF ApprovedTask, ResolutionOf, ResumeValue, Resolution
<1>3. approval'.status \in Resolution /\ approval'.type = approval.type
  BY <1>2 DEF W2Resolve, TypeOK, Approval
<1>4. Keeps(approval.status, approval'.status) /\ approval'.status # "none"
  BY <1>3 DEF Keeps, Resolution
<1>5. ApprovedCheckpoint'
  BY <1>4 DEF W2Resolve, ApprovalInv, ApprovedCheckpoint, HasKind, NoResume
<1>6. ApprovedTask([tasks[t] EXCEPT !.pc = "resolved"], approval'.status)
  BY <1>1, <1>3 DEF ApprovedTask, Task
<1>7. approval'.type # "none"
  BY <1>1, <1>3 DEF ApprovalInv, ApprovedTask
<1> QED BY <1>4, <1>5, <1>6, <1>7, OneApproved DEF W2Resolve, MoveTo

LEMMA ExecutingApproved ==
  ASSUME TypeOK, ApprovalInv, NEW t \in Slots, Executing(t)
  PROVE  ApprovalInv'
<1>1. CASE W1Execute(t) \/ W2Approved(t)
  <2>1. PICK amount : Pay(t, amount)
    BY <1>1 DEF W1Execute, W2Approved
  <2>2. ApprovedTask([tasks[t] EXCEPT !.pc = "lookup", !.pay = amount], approval.status)
    BY TaskType DEF ApprovalInv, ApprovedTask, Task
  <2> QED BY <1>1, <2>1, <2>2, OnlyApproved DEF W1Execute, W2Approved, Pay, Elsewhere, durable
<1>2. CASE W2Deny(t) \/ W2Pay(t)
  BY <1>2, ProposeApproved
<1>3. CASE W2Resolve(t)
  BY <1>3, ResolveApproved
<1>4. CASE \/ W1Paid(t) \/ Settle(t) \/ Close(t) \/ W2Rejected(t) \/ W2Denied(t)
           \/ W2Paid(t) \/ Escalate(t) \/ W4Request(t) \/ W4Await(t)
  <2>1. UNCHANGED <<approval, checkpoint>>
    BY <1>4 DEF W1Paid, Settle, Close, W2Rejected, W2Denied, W2Paid, Escalate, W4Request,
                W4Await, Elsewhere, durable
  <2>2. PICK agg, commits, goto : Return(t, agg, commits, goto) /\ goto # "w2_await"
    <3>1. \A agg : /\ AfterW1(agg) # "w2_await"
                   /\ AfterW2(agg) # "w2_await"
                   /\ AfterW4(agg) # "w2_await"
      BY DEF AfterW1, AfterW2, AfterW4
    <3>2. CASE W1Paid(t)
      BY <3>1, <3>2 DEF W1Paid
    <3>3. CASE Settle(t) \/ Close(t) \/ Escalate(t) \/ W4Request(t)
      BY <3>3 DEF Settle, Close, Escalate, W4Request
    <3>4. CASE W2Rejected(t) \/ W2Denied(t) \/ W2Paid(t)
      BY <3>1, <3>4 DEF W2Rejected, W2Denied, W2Paid
    <3>5. CASE W4Await(t)
      BY <3>1, <3>5 DEF W4Await
    <3> QED BY <1>4, <3>2, <3>3, <3>4, <3>5
  <2> QED BY <2>1, <2>2, ReturnApproved
<1> QED BY <1>1, <1>2, <1>3, <1>4 DEF Executing

LEMMA LeavingApproved ==
  ASSUME TypeOK, ApprovalInv, NEW t \in Slots, Leaving(t)
  PROVE  ApprovalInv'
<1>0. ApprovedTask(tasks[t], approval.status) /\ tasks[t] \in Task
  BY TaskType DEF ApprovalInv
<1>1. CASE CommitNext(t)
  <2>1. ApprovedTask([tasks[t] EXCEPT !.todo = Tail(@)], approval.status)
    BY <1>0, <1>1 DEF CommitNext, ApprovedTask, Task
  <2> QED BY <1>1, <2>1, OnlyApproved DEF CommitNext
<1>2. CASE Finish(t)
  <2>1. tasks[t].goto = "w2_await" => approval.status # "none"
    BY <1>0, <1>2 DEF Finish, ApprovedTask
  <2>2. ApprovedCheckpoint' /\ Keeps(approval.status, approval'.status)
    BY <1>2, <2>1 DEF Finish, ApprovedCheckpoint, HasKind, Keeps, NoResume
  <2> DEFINE next == IF tasks[t].goto \in Awaits \cup {"END"} THEN IdleTask
                     ELSE [Running(tasks[t].goto, tasks[t].agg, NoResume)
                             EXCEPT !.fresh = tasks[t].fresh]
  <2>3. ApprovedTask(next, approval'.status)
    <3>1. HasKind(NoResume)
      BY DEF HasKind
    <3> QED BY <3>1, IdleApproved, RunningApproved DEF Awaits
  <2>4. Becomes(t, next)
    BY <1>2 DEF Finish
  <2>5. approval'.status # "none" => approval'.type # "none"
    BY <1>2 DEF Finish, ApprovalInv
  <2> HIDE DEF next
  <2> QED BY <2>2, <2>3, <2>4, <2>5, OneApproved
<1>3. CASE RecordEscalation(t)
  BY <1>3, IdleApproved, OnlyApproved DEF RecordEscalation
<1> QED BY <1>1, <1>2, <1>3 DEF Leaving

LEMMA CallApproved ==
  ASSUME TypeOK, ApprovalInv, NEW t \in Slots, Call(t)
  PROVE  ApprovalInv'
<1>1. CASE Inject(t)
  <2>1. ApprovedTask([IdleTask EXCEPT !.pc = "start", !.fresh = TRUE], approval.status)
    BY DEF ApprovedTask, IdleTask, HasKind
  <2> QED BY <1>1, <2>1, OnlyApproved DEF Inject
<1>2. CASE Resolve(t) \/ SubmitDocuments(t)
  <2>1. PICK value : Resume(t, value) /\ value.kind # "none"
    <3>1. CASE Resolve(t)
      BY <3>1 DEF Resolve, ResolveAs
    <3>2. CASE SubmitDocuments(t)
      BY <3>2 DEF SubmitDocuments, DocumentsOf
    <3> QED BY <1>2, <3>1, <3>2
  <2>2. ApprovedTask([IdleTask EXCEPT !.pc = "start", !.value = value], approval.status)
    BY <2>1 DEF ApprovedTask, IdleTask, HasKind
  <2> QED BY <2>1, <2>2, OnlyApproved DEF Resume, durable
<1> QED BY <1>1, <1>2 DEF Call

LEMMA TaskDiesApproved ==
  ASSUME TypeOK, ApprovalInv, NEW t \in Slots, TaskDies(t)
  PROVE  ApprovalInv'
<1>1. ApprovedTask(tasks[t], approval.status)
  BY DEF ApprovalInv
<1>2. /\ checkpoint'.next = checkpoint.next
      /\ checkpoint'.resume \in {checkpoint.resume, tasks[t].value}
      /\ approval' = approval
  BY DEF TaskDies, TypeOK, Checkpoint
<1>3. ApprovedCheckpoint' /\ Keeps(approval.status, approval'.status)
  BY <1>1, <1>2 DEF ApprovalInv, ApprovedTask, ApprovedCheckpoint, HasKind, Keeps, NoResume
<1> QED BY <1>2, <1>3, IdleApproved, OneApproved DEF TaskDies, ApprovalInv

LEMMA StepApproved ==
  ASSUME TypeOK, ApprovalInv, [Next]_vars
  PROVE  ApprovalInv'
<1>1. CASE \E t \in Slots : Step(t) \/ Call(t) \/ TaskDies(t)
  BY <1>1, StartsApproved, TriagingApproved, PayingApproved, ExecutingApproved,
     LeavingApproved, CallApproved, TaskDiesApproved DEF Step
<1>2. CASE Crash
  <2>1. \A t \in Slots : ApprovedTask(tasks'[t], approval'.status)
    BY <1>2, IdleApproved DEF Crash
  <2> QED BY <1>2, <2>1 DEF Crash, durable, ApprovalInv, ApprovedCheckpoint, HasKind, NoResume
<1>3. CASE UNCHANGED vars
  BY <1>3 DEF vars, durable, ApprovalInv, ApprovedTask, ApprovedCheckpoint, HasKind,
              NoResume, Resolution
<1> QED BY <1>1, <1>2, <1>3 DEF Next

LEMMA ApprovalAlways == Spec => []ApprovalInv
<1>1. Init => ApprovalInv
  BY IdleApproved DEF Init, ApprovalInv, ApprovedCheckpoint, HasKind, NoCheckpoint, NoApproval
<1>2. TypeOK /\ ApprovalInv /\ [Next]_vars => ApprovalInv'
  BY StepApproved
<1> QED BY <1>1, <1>2, TypeCorrect, PTL DEF Spec

(* Whoever reads the approval row in w2_await finds one (w2_propose,       *)
(* create_approval, w2_await).                                             *)
THEOREM ApprovalFirst == Spec => []ApprovalBeforeAwait
<1>1. ApprovalInv => ApprovalBeforeAwait
  BY DEF ApprovalInv, ApprovedTask, ApprovedCheckpoint, ApprovalBeforeAwait, Resolution
<1> QED BY <1>1, ApprovalAlways, PTL

-----------------------------------------------------------------------------
(* How far overlap can go.  The key stops every payment that is looked up  *)
(* after one was recorded, so whoever pays was past the lookup by then:    *)
(* each task that runs at the time, once, and again after each break,      *)
(* which may cut all of them off before they record what they paid.        *)

OverlapIsBounded == Len(rail) <= Cardinality(Slots) * (crashes + 1)

In(pc) == {t \in Slots : tasks[t].pc = pc}

(* Before the first record every payment is about to be recorded or was    *)
(* cut off; after it, who is still at the rail will pay, and nobody else.  *)
OverlapInv ==
  /\ PayKey \notin toolCalls =>
       Len(rail) <= Cardinality(Slots) * crashes + Cardinality(In("record"))
  /\ PayKey \in toolCalls =>
       Len(rail) + Cardinality(In("rail")) <= Cardinality(Slots) * crashes + Cardinality(Slots)

Past == {"rail", "record"}

(* A step of a task outside the part of a payment that matters here.       *)
Aside(t) ==
  /\ \A u \in Slots : u # t => tasks'[u] = tasks[u]
  /\ tasks[t].pc \notin Past /\ tasks'[t].pc \notin Past
  /\ rail' = rail /\ crashes' = crashes
  /\ PayKey \in toolCalls' <=> PayKey \in toolCalls

LEMMA MovesPc ==
  ASSUME TypeOK, NEW t \in Slots
  PROVE  /\ \A agg, commits, goto : Return(t, agg, commits, goto) => tasks'[t].pc = "commit"
         /\ \A pc : MoveTo(t, pc) => tasks'[t].pc = pc
         /\ \A amount : Pay(t, amount) => tasks'[t].pc = "lookup"
         /\ \A ok : PayAnswer(t, ok) => tasks'[t].pc = "paid"
<1>1. \A agg, commits, goto : Return(t, agg, commits, goto) => tasks'[t].pc = "commit"
  BY TaskType DEF Return, Becomes, Task
<1>2. \A pc : MoveTo(t, pc) => tasks'[t].pc = pc
  BY TaskType DEF MoveTo, Becomes, Task
<1>3. \A amount : Pay(t, amount) => tasks'[t].pc = "lookup"
  BY TaskType DEF Pay, Becomes, Task
<1>4. \A ok : PayAnswer(t, ok) => tasks'[t].pc = "paid"
  BY TaskType DEF PayAnswer, Becomes, Task
<1> QED BY <1>1, <1>2, <1>3, <1>4

LEMMA MovesOne ==
  ASSUME TypeOK, NEW t \in Slots
  PROVE  /\ \A agg, commits, goto : Return(t, agg, commits, goto) =>
              \A u \in Slots : u # t => tasks'[u] = tasks[u]
         /\ \A pc : MoveTo(t, pc) => \A u \in Slots : u # t => tasks'[u] = tasks[u]
         /\ \A amount : Pay(t, amount) => \A u \in Slots : u # t => tasks'[u] = tasks[u]
         /\ \A ok : PayAnswer(t, ok) => \A u \in Slots : u # t => tasks'[u] = tasks[u]
<1>1. \A u \in Slots : \A task : Becomes(t, task) /\ u # t => tasks'[u] = tasks[u]
  BY TaskType DEF Becomes
<1> QED BY <1>1 DEF Return, MoveTo, Pay, PayAnswer

LEMMA StartsAside ==
  ASSUME TypeOK, NEW t \in Slots, StartRun(t) \/ StartResume(t)
  PROVE  Aside(t)
<1>1. /\ IdleTask.pc = "idle"
      /\ \A node, agg, value : Running(node, agg, value).pc = "run"
      /\ \A node, agg, value, fresh : [Running(node, agg, value) EXCEPT !.fresh = fresh].pc = "run"
  BY DEF Running, IdleTask
<1>2. tasks'[t].pc \in {"idle", "run"} /\ \A u \in Slots : u # t => tasks'[u] = tasks[u]
  <2>1. CASE StartRun(t)
    BY <1>1, <2>1, TaskType DEF StartRun, Becomes
  <2>2. CASE StartResume(t)
    BY <1>1, <2>2, TaskType DEF StartResume, Becomes
  <2> QED BY <2>1, <2>2
<1> QED BY <1>2 DEF StartRun, StartResume, Elsewhere, durable, world, bounds, Aside, Past

LEMMA TriagingAside ==
  ASSUME TypeOK, NEW t \in Slots, Triaging(t)
  PROVE  Aside(t)
<1>1. \/ \E agg, commits, goto : Return(t, agg, commits, goto)
      \/ MoveTo(t, "raised")
  BY DEF Triaging, Extract, Classify, Investigate, RouteNode, LLMFails
<1>2. tasks'[t].pc \in {"commit", "raised"} /\ \A u \in Slots : u # t => tasks'[u] = tasks[u]
  BY <1>1, MovesPc, MovesOne
<1>3. tasks[t].pc = "run" /\ Elsewhere
  BY DEF Triaging, Extract, Classify, Investigate, RouteNode, LLMFails, At
<1> QED BY <1>2, <1>3 DEF Elsewhere, durable, world, bounds, Aside, Past

LEMMA ExecutingAside ==
  ASSUME TypeOK, NEW t \in Slots, Executing(t)
  PROVE  Aside(t)
<1>1. \/ \E agg, commits, goto : Return(t, agg, commits, goto)
      \/ \E amount : Pay(t, amount)
      \/ MoveTo(t, "resolved")
  BY DEF Executing, W1Execute, W1Paid, Settle, Close, W2Deny, W2Pay, W2Resolve, W2Rejected,
         W2Denied, W2Approved, W2Paid, Escalate, W4Request, W4Await
<1>2. tasks'[t].pc \in {"commit", "lookup", "resolved"}
        /\ \A u \in Slots : u # t => tasks'[u] = tasks[u]
  BY <1>1, MovesPc, MovesOne
<1>3. tasks[t].pc \in {"run", "paid", "resolved"}
  BY DEF Executing, W1Execute, W1Paid, Settle, Close, W2Deny, W2Pay, W2Resolve, W2Rejected,
         W2Denied, W2Approved, W2Paid, Escalate, W4Request, W4Await, At
<1>4. rail' = rail /\ crashes' = crashes /\ toolCalls' \in {toolCalls, toolCalls \cup {ReserveKey}}
  BY DEF Executing, W1Execute, W1Paid, Settle, Close, W2Deny, W2Pay, W2Resolve, W2Rejected,
         W2Denied, W2Approved, W2Paid, Escalate, W4Request, W4Await, Elsewhere, durable, world,
         bounds
<1> QED BY <1>2, <1>3, <1>4 DEF Aside, Past, PayKey, ReserveKey

LEMMA LeavingAside ==
  ASSUME TypeOK, NEW t \in Slots, Leaving(t)
  PROVE  Aside(t)
<1>1. /\ IdleTask.pc = "idle"
      /\ \A node, agg, value, fresh : [Running(node, agg, value) EXCEPT !.fresh = fresh].pc = "run"
      /\ \A todo : [tasks[t] EXCEPT !.todo = todo].pc = tasks[t].pc
  BY TaskType DEF Running, IdleTask, Task
<1>2. tasks'[t].pc \in {"idle", "run", "commit"}
        /\ \A u \in Slots : u # t => tasks'[u] = tasks[u]
  <2>1. CASE CommitNext(t)
    BY <1>1, <2>1, TaskType DEF CommitNext, Becomes
  <2>2. CASE Finish(t)
    BY <1>1, <2>2, TaskType DEF Finish, Becomes
  <2>3. CASE RecordEscalation(t)
    BY <1>1, <2>3, TaskType DEF RecordEscalation, Becomes
  <2> QED BY <2>1, <2>2, <2>3 DEF Leaving
<1>3. tasks[t].pc \in {"commit", "raised"}
  BY DEF Leaving, CommitNext, Finish, RecordEscalation, Escalating
<1> QED BY <1>2, <1>3 DEF Leaving, CommitNext, Finish, RecordEscalation, world, bounds, Aside, Past

LEMMA CallAside ==
  ASSUME TypeOK, NEW t \in Slots, Call(t)
  PROVE  Aside(t)
<1>1. /\ [IdleTask EXCEPT !.pc = "start", !.fresh = TRUE].pc = "start"
      /\ \A value : [IdleTask EXCEPT !.pc = "start", !.value = value].pc = "start"
  BY DEF IdleTask
<1>2. CASE Inject(t)
  <2>1. tasks'[t].pc = "start" /\ \A u \in Slots : u # t => tasks'[u] = tasks[u]
    BY <1>1, <1>2, TaskType DEF Inject, Becomes
  <2> QED BY <1>2, <2>1 DEF Inject, Idle, world, bounds, Aside, Past
<1>3. ASSUME NEW value, Resume(t, value)
      PROVE  Aside(t)
  <2>1. tasks'[t].pc = "start" /\ \A u \in Slots : u # t => tasks'[u] = tasks[u]
    BY <1>1, <1>3, TaskType DEF Resume, Becomes
  <2> QED BY <1>3, <2>1 DEF Resume, Idle, durable, world, Aside, Past
<1> QED BY <1>2, <1>3 DEF Call, Resolve, SubmitDocuments

LEMMA AsideOverlap ==
  ASSUME OverlapInv, NEW t \in Slots, Aside(t)
  PROVE  OverlapInv'
<1>1. \A pc \in Past : In(pc)' = In(pc)
  BY DEF Aside, In
<1> QED BY <1>1 DEF OverlapInv, Aside, Past

(* Cardinalities of the sets that matter, and what a break adds.           *)
LEMMA InFinite ==
  ASSUME IsFiniteSet(Slots), NEW pc
  PROVE  /\ IsFiniteSet(In(pc)) /\ Cardinality(In(pc)) \in Nat
         /\ Cardinality(In(pc)) <= Cardinality(Slots) /\ Cardinality(Slots) \in Nat
<1>1. In(pc) \in SUBSET Slots
  BY DEF In
<1>2. IsFiniteSet(In(pc)) /\ Cardinality(In(pc)) <= Cardinality(Slots)
  BY <1>1, FS_Subset
<1> QED BY <1>2, FS_CardinalityType

LEMMA Distribute ==
  ASSUME NEW n \in Nat, NEW k \in Nat
  PROVE  n * (k + 1) = n * k + n /\ n * k \in Nat
OBVIOUS

(* The part that matters: the lookup lets a task through, the rail pays,   *)
(* the call is recorded.                                                   *)
LEMMA PayingOverlap ==
  ASSUME TypeOK, IsFiniteSet(Slots), OverlapInv, NEW t \in Slots, Paying(t)
  PROVE  OverlapInv'
<1> DEFINE n == Cardinality(Slots)
           Pays == In("rail")
           Recs == In("record")
<1>n. n \in Nat /\ n * crashes \in Nat /\ Len(rail) \in Nat
  BY InFinite, Distribute DEF TypeOK
<1>f. /\ IsFiniteSet(Pays) /\ Cardinality(Pays) \in Nat /\ Cardinality(Pays) <= n
      /\ IsFiniteSet(Recs) /\ Cardinality(Recs) \in Nat /\ Cardinality(Recs) <= n
  BY InFinite
<1>o. \A u \in Slots : u # t => tasks'[u] = tasks[u]
  BY MovesOne DEF Paying, PayRefused, PayInvalid, PayLookup, PayRail, PayRecord
<1>1. CASE PayRefused(t) \/ PayInvalid(t)
  <2>1. tasks'[t].pc \in {"paid", "raised"}
    BY <1>1, MovesPc DEF PayRefused, PayInvalid
  <2>2. Aside(t)
    BY <1>o, <1>1, <2>1 DEF PayRefused, PayInvalid, Elsewhere, durable, world, bounds, Aside, Past
  <2> QED BY <2>2, AsideOverlap
<1>2. CASE PayLookup(t) /\ AlreadyPaid
  <2>1. tasks'[t].pc = "paid"
    BY <1>2, MovesPc DEF PayLookup
  <2>2. Aside(t)
    BY <1>o, <1>2, <2>1 DEF PayLookup, Elsewhere, durable, world, bounds, Aside, Past
  <2> QED BY <2>2, AsideOverlap
<1>3. CASE PayLookup(t) /\ ~ AlreadyPaid
  <2>1. tasks[t].pc = "lookup" /\ tasks'[t].pc = "rail"
    BY <1>3, MovesPc DEF PayLookup
  <2>2. Recs' = Recs
    BY <1>o, <2>1 DEF In
  <2>3. PayKey \notin toolCalls /\ UNCHANGED <<toolCalls, rail, crashes>>
    BY <1>3 DEF PayLookup, AlreadyPaid, Elsewhere, durable, world, bounds
  <2> QED BY <2>2, <2>3 DEF OverlapInv
<1>4. CASE PayRail(t)
  <2>1. tasks[t].pc = "rail" /\ tasks'[t].pc = "record"
    BY <1>4, MovesPc DEF PayRail
  <2>2. Pays' = Pays \ {t} /\ t \in Pays /\ Recs' = Recs \cup {t} /\ t \notin Recs
    BY <1>o, <2>1 DEF In
  <2>3. UNCHANGED <<toolCalls, crashes>> /\ Len(rail') = Len(rail) + 1
    BY <1>4 DEF PayRail, durable, bounds, TypeOK
  <2> HIDE DEF Pays, Recs
  <2>4. Cardinality(Pays') = Cardinality(Pays) - 1 /\ Cardinality(Recs') = Cardinality(Recs) + 1
    BY <1>f, <2>2, FS_AddElement, FS_RemoveElement
  <2> QED BY <1>n, <1>f, <2>3, <2>4 DEF OverlapInv, Pays, Recs
<1>5. CASE PayRecord(t)
  <2>1. tasks[t].pc = "record" /\ tasks'[t].pc = "paid"
    BY <1>5, MovesPc DEF PayRecord
  <2>2. Pays' = Pays /\ Pays \cap Recs = {} /\ Pays \cup Recs \in SUBSET Slots
    BY <1>o, <2>1 DEF In
  <2>3. UNCHANGED <<rail, crashes>> /\ PayKey \in toolCalls'
    BY <1>5 DEF PayRecord, world, bounds
  <2>4. Cardinality(Pays) + Cardinality(Recs) <= n
    <3> HIDE DEF Pays, Recs
    <3>1. Cardinality(Pays \cup Recs) = Cardinality(Pays) + Cardinality(Recs)
      <4>1. Cardinality(Pays \cup Recs)
              = Cardinality(Pays) + Cardinality(Recs) - Cardinality(Pays \cap Recs)
        BY <1>f, FS_Union
      <4>2. Cardinality(Pays \cap Recs) = 0
        BY <2>2, FS_EmptySet
      <4> QED BY <1>f, <4>1, <4>2
    <3>2. Cardinality(Pays \cup Recs) <= n
      BY <2>2, FS_Subset
    <3> QED BY <3>1, <3>2
  <2> QED BY <1>n, <1>f, <2>2, <2>3, <2>4 DEF OverlapInv
<1> QED BY <1>1, <1>2, <1>3, <1>4, <1>5 DEF Paying

LEMMA BreakOverlap ==
  ASSUME TypeOK, IsFiniteSet(Slots), OverlapInv, Crash \/ \E t \in Slots : TaskDies(t)
  PROVE  OverlapInv'
<1> DEFINE n == Cardinality(Slots)
<1>1. UNCHANGED <<rail, toolCalls>> /\ crashes' = crashes + 1 /\ crashes \in Nat /\ Len(rail) \in Nat
  BY DEF Crash, TaskDies, durable, world, TypeOK
<1>2. n \in Nat /\ n * crashes' = n * crashes + n /\ n * crashes \in Nat
  BY <1>1, InFinite, Distribute
<1>3. \A pc : Cardinality(In(pc)) \in Nat /\ Cardinality(In(pc)) <= n
  BY InFinite
<1>4. Cardinality(In("rail")') \in Nat /\ Cardinality(In("rail")') <= Cardinality(In("rail"))
  <2>1. In("rail")' \in SUBSET In("rail")
    <3>1. ASSUME NEW u \in Slots PROVE tasks'[u] = tasks[u] \/ tasks'[u] = IdleTask
      BY TaskType DEF Crash, TaskDies, Becomes
    <3> QED BY <3>1 DEF In, IdleTask
  <2>2. IsFiniteSet(In("rail"))
    BY InFinite
  <2> QED BY <2>1, <2>2, FS_Subset, FS_CardinalityType
<1>5. Cardinality(In("record")') \in Nat
  <2>1. In("record")' \in SUBSET Slots
    BY DEF In
  <2> QED BY <2>1, FS_Subset, FS_CardinalityType
<1> QED BY <1>1, <1>2, <1>3, <1>4, <1>5 DEF OverlapInv

LEMMA StepOverlap ==
  ASSUME TypeOK, IsFiniteSet(Slots), OverlapInv, [Next]_vars
  PROVE  OverlapInv'
<1>1. CASE \E t \in Slots : Step(t) \/ Call(t)
  BY <1>1, StartsAside, TriagingAside, ExecutingAside, LeavingAside, CallAside, AsideOverlap,
     PayingOverlap DEF Step
<1>2. CASE Crash \/ \E t \in Slots : TaskDies(t)
  BY <1>2, BreakOverlap
<1>3. CASE UNCHANGED vars
  BY <1>3 DEF vars, durable, world, bounds, OverlapInv, In
<1> QED BY <1>1, <1>2, <1>3 DEF Next

(* However many resumes overlap, a claim is paid at most once by each task *)
(* that runs at the time, and again after each break (payment_execute:     *)
(* idempotency lookup, rail, record_tool_call).                            *)
THEOREM BoundedOverlap ==
  ASSUME IsFiniteSet(Slots)
  PROVE  Spec => []OverlapIsBounded
<1>1. Init => OverlapInv
  <2> SUFFICES ASSUME Init PROVE OverlapInv
    OBVIOUS
  <2>1. Len(rail) = 0 /\ PayKey \notin toolCalls /\ crashes = 0
    BY DEF Init
  <2> QED BY <2>1, InFinite, Distribute DEF OverlapInv
<1>2. TypeOK /\ OverlapInv /\ [Next]_vars => OverlapInv'
  BY StepOverlap
<1>3. TypeOK /\ OverlapInv => OverlapIsBounded
  <2> SUFFICES ASSUME TypeOK, OverlapInv PROVE OverlapIsBounded
    OBVIOUS
  <2>1. Cardinality(Slots) * (crashes + 1) = Cardinality(Slots) * crashes + Cardinality(Slots)
          /\ Cardinality(Slots) * crashes \in Nat
    BY InFinite, Distribute DEF TypeOK
  <2>2. \A pc : Cardinality(In(pc)) \in Nat /\ Cardinality(In(pc)) <= Cardinality(Slots)
    BY InFinite
  <2>3. Len(rail) \in Nat /\ Cardinality(Slots) \in Nat
    BY InFinite DEF TypeOK
  <2> QED BY <2>1, <2>2, <2>3 DEF OverlapInv, OverlapIsBounded
<1> QED BY <1>1, <1>2, <1>3, TypeCorrect, PTL DEF Spec
=============================================================================
