---------------------------- MODULE ClaimLifecycle ----------------------------
(***************************************************************************)
(* The life of one claim: the graph of graph/lifecycle.py, the store it    *)
(* commits to, the checkpoint it resumes from, and the API calls that      *)
(* start and resume it (api/service.py, api/claims.py), deployed on        *)
(* Postgres.                                                               *)
(*                                                                         *)
(* Every invocation of the graph (_run_fresh, _resume) is an asyncio task; *)
(* tasks interleave at their awaits.  A task runs one node after another:  *)
(* the node computes a new aggregate and the transitions it commits, each  *)
(* transition is one database transaction (row and event together), then   *)
(* the checkpoint of the node is written and the next node starts.  The    *)
(* payment tool is taken apart into the steps between which other tasks,   *)
(* or a crash, can come: sanctions and idempotency lookup, the rail,       *)
(* recording the call.                                                     *)
(*                                                                         *)
(* Abstractions.  LLM answers, tool results and token costs are chosen     *)
(* from constant sets; decision-log rows, letters' texts, reason codes,    *)
(* trace ids and the read-only tool calls are left out, as are drafts of   *)
(* letters (only sending one is modelled).  intake passes its input on and *)
(* is folded into the start of a run; creating the approval row and        *)
(* setting the reserve are one step, each being an insert that a repeat    *)
(* leaves alone.  LangGraph is modelled from how the code relies on it: a  *)
(* checkpoint per completed node; a resume re-runs the node the latest     *)
(* checkpoint names; a resume of a finished or unknown thread does         *)
(* nothing; invocations of one thread do not exclude each other.           *)
(*                                                                         *)
(* An operator named Foo_Bar is a variant of Foo, the way Bar says: a bug  *)
(* the code could have.  No specification uses it; it is what a property   *)
(* is tried against.                                                       *)
(***************************************************************************)
EXTENDS Triage, Sequences

CONSTANTS
  Slots,            \* how many tasks may be in flight at once
  Config,           \* the active routing config
  Grounded,         \* Gemini configured: grounded coverage, tiebreak
  Dashboard,        \* TRUE: calls come from the dashboard; FALSE: any HTTP client
  Readings,         \* what the extractor may find: [fields, low]
  Classifications,  \* what the classifier may answer
  Investigations,   \* what investigate may find
  TokenCosts,       \* tokens one LLM node may spend
  TokenBudget,      \* settings.claim_token_budget
  MaxReplans,       \* settings.max_replans
  Uploads,          \* sets of fields a document upload may provide
  ModifiedAmounts,  \* amounts an approver may put in a Modify delta
  MaxResumes,       \* bound: resolve and upload calls
  MaxCrashes        \* bound: restarts of the service, and tasks that die

Reading == [fields : SUBSET Field, low : SUBSET Field]

ASSUME LifecycleAssumption ==
  /\ Config \in RoutingConfig
  /\ Grounded \in BOOLEAN
  /\ Dashboard \in BOOLEAN
  /\ Readings        \subseteq Reading
  /\ Classifications \subseteq Classification
  /\ Investigations  \subseteq Investigation
  /\ TokenCosts      \subseteq Nat
  /\ TokenBudget \in Nat
  /\ MaxReplans \in Nat
  /\ Uploads         \subseteq SUBSET Field
  /\ ModifiedAmounts \subseteq Nat
  /\ MaxResumes \in Nat
  /\ MaxCrashes \in Nat

(* Some investigation is possible without a policy.                        *)
ASSUME UnknownPolicyAssumption ==
  \E inv \in Investigations : ~ inv.policy_active /\ inv.coverage = NoCoverage

VARIABLES
  claim,          \* the row of the claims table
  events,         \* the claim_events log
  approval,       \* the row of the approvals table
  toolCalls,      \* idempotency keys of the successful rows of tool_calls
  checkpoint,     \* the latest checkpoint of the thread
  rail,           \* payments handed to the payment rail, in order
  letters,        \* denial letters sent
  tasks,          \* the asyncio tasks of this process
  sanctionsDown,  \* settings.sanctions_unavailable
  decisions,      \* history: resolutions people submitted
  strayed,        \* history: a call was made that the dashboard does not offer
  resumes,        \* counts API calls (bound only)
  crashes         \* counts restarts and tasks that died (for bounds)

durable == <<claim, events, approval, toolCalls, checkpoint>>
world   == <<rail, letters>>
bounds  == <<decisions, strayed, resumes, crashes>>
vars    == <<durable, world, tasks, sanctionsDown, bounds>>

-----------------------------------------------------------------------------
(* Data.                                                                   *)

ClaimState ==
  {"RECEIVED", "TRIAGE", "INFO_PENDING", "PLANNING", "EXECUTING",
   "REVIEW_PENDING", "SETTLEMENT", "CLOSED", "DENIED", "ESCALATED"}

Terminal == {"CLOSED", "DENIED", "ESCALATED"}

EventType ==
  {"RECEIVED", "EXTRACTED", "CLASSIFIED", "INVESTIGATED", "DEGRADED_MODE", "ROUTED",
   "EXECUTING", "COMPENSATED", "SETTLED", "CLOSED", "APPROVAL_REQUESTED",
   "APPROVAL_RESOLVED", "DENIED", "ESCALATED", "PARKED", "DOCUMENT_RECEIVED",
   "REPLAN_LIMIT"}

NoWorkflow == "none"

(* ClaimAggregate: the graph state a checkpoint carries.                   *)
Aggregate ==
  [state          : ClaimState,
   workflow       : Workflow \cup {NoWorkflow},
   rule_id        : RuleId \cup {"none"},
   extraction     : Extraction,
   classification : Classification,
   investigation  : Investigation,
   tokens         : Nat,
   replans        : Nat,
   reserve        : Nat,
   paid           : Nat]

NewAggregate ==
  [state |-> "RECEIVED", workflow |-> NoWorkflow, rule_id |-> "none",
   extraction |-> NoExtraction, classification |-> NoClassification,
   investigation |-> NoInvestigation, tokens |-> 0, replans |-> 0,
   reserve |-> 0, paid |-> 0]

(* The columns of the claims row the properties are about.                 *)
Row ==
  [state    : ClaimState \cup {"ABSENT"},
   workflow : Workflow \cup {NoWorkflow},
   reserve  : Nat,
   paid     : Nat]

NoRow == [state |-> "ABSENT", workflow |-> NoWorkflow, reserve |-> 0, paid |-> 0]

RowOf_Swapped(agg) ==
  [state |-> agg.state, workflow |-> agg.workflow, reserve |-> agg.paid,
   paid |-> agg.reserve]
RowOf(agg) ==
  [state |-> agg.state, workflow |-> agg.workflow, reserve |-> agg.reserve,
   paid |-> agg.paid]

(* An event keeps the workflow ROUTED names and the amount SETTLED names.  *)
Event ==
  [type : EventType, workflow : Workflow \cup {NoWorkflow}, paid : Nat]

(* One call of commit_transition: the row and the event of a transition.   *)
Transition == [row : Row, event : Event]

Commit(agg, type) ==
  [row   |-> RowOf(agg),
   event |-> [type     |-> type,
              workflow |-> IF type = "ROUTED" THEN agg.workflow ELSE NoWorkflow,
              paid     |-> IF type = "SETTLED" THEN agg.paid ELSE 0]]

Action == {"none", "pay", "deny"}
Resolution == {"approve", "modify", "reject"}

Approval ==
  [status : {"none", "pending"} \cup Resolution, type : Action, amount : Nat]

NoApproval == [status |-> "none", type |-> "none", amount |-> 0]

(* The value a resume carries: {"fields": ...} or {"resolution": ...}.     *)
ResumeValue ==
  [kind : Resolution \cup {"documents", "none"}, fields : SUBSET Field, amount : Nat]

NoResume       == [kind |-> "none", fields |-> {}, amount |-> 0]
DocumentsOf(f) == [kind |-> "documents", fields |-> f, amount |-> 0]
ResolveAs(k,n) == [kind |-> k, fields |-> {}, amount |-> n]

Node ==
  {"extract", "classify", "investigate", "route", "w1_execute", "settle", "close",
   "w2_propose", "w2_await", "w3_fraud", "w4_request", "w4_await", "w5_escalate"}

Awaits == {"w2_await", "w4_await"}

(* The node the thread would run next, the value an interrupted node that  *)
(* failed was resumed with, and the aggregate.                             *)
Checkpoint ==
  [next : Node \cup {"none", "END"}, agg : Aggregate, resume : ResumeValue]

NoCheckpoint == [next |-> "none", agg |-> NewAggregate, resume |-> NoResume]

(* after_route *)
NodeFor(wf) ==
  CASE wf = "W1" -> "w1_execute"
    [] wf = "W2" -> "w2_propose"
    [] wf = "W3" -> "w3_fraud"
    [] wf = "W4" -> "w4_request"
    [] wf = "W5" -> "w5_escalate"

(* A payment as the rail saw it: the amount, the workflow that ordered it, *)
(* and the evidence that workflow was routed on.                           *)
Disbursement ==
  [amount         : Nat,
   workflow       : Workflow \cup {NoWorkflow},
   extraction     : Extraction,
   classification : Classification,
   investigation  : Investigation]

PayKey     == "pay-1"
ReserveKey == "rsv-1"

(* A task.  pc: idle; started but not yet running; running a node; inside  *)
(* w2_await after resolve_approval; inside payment_execute; payment        *)
(* answered; committing the node's transitions; raised EscalateToHuman.    *)
PC == {"idle", "start", "run", "resolved", "lookup", "rail", "record", "paid",
       "commit", "raised"}

Task ==
  [pc    : PC,
   fresh : BOOLEAN,                        \* _run_fresh, not _resume
   node  : Node \cup {"none"},
   agg   : Aggregate,
   value : ResumeValue,                    \* Command(resume=...)
   pay   : Nat,                            \* amount of the payment in progress
   ok    : BOOLEAN,                        \* its result
   todo  : Seq(Transition),                \* transitions still to commit
   goto  : Node \cup {"none", "END", "RAISE"}]

IdleTask ==
  [pc |-> "idle", fresh |-> FALSE, node |-> "none", agg |-> NewAggregate,
   value |-> NoResume, pay |-> 0, ok |-> FALSE, todo |-> <<>>, goto |-> "none"]

Idle(t) == tasks[t].pc = "idle"
Quiet   == \A t \in Slots : Idle(t)

-----------------------------------------------------------------------------
(* Steps of a task.                                                        *)

Becomes(t, task) == tasks' = [tasks EXCEPT ![t] = task]

At(t, node) == tasks[t].pc = "run" /\ tasks[t].node = node

Running(node, agg, value) ==
  [IdleTask EXCEPT !.pc = "run", !.node = node, !.agg = agg, !.value = value]

(* A node is done: it leaves agg, has these transitions to commit, and     *)
(* goto names the node after it.                                           *)
Return(t, agg, commits, goto) ==
  Becomes(t, [tasks[t] EXCEPT !.pc = "commit", !.agg = agg, !.todo = commits,
                              !.goto = goto])

(* _check_budget raises after the node's commits, before its checkpoint.   *)
UnlessExhausted(agg, goto) == IF agg.tokens > TokenBudget THEN "RAISE" ELSE goto

(* Tokens of the calls that are made when Gemini is configured only.       *)
GroundedCosts == IF Grounded THEN TokenCosts ELSE {0}

MoveTo(t, pc) == Becomes(t, [tasks[t] EXCEPT !.pc = pc])

Pay(t, amount) == Becomes(t, [tasks[t] EXCEPT !.pc = "lookup", !.pay = amount])

PayAnswer(t, ok) == Becomes(t, [tasks[t] EXCEPT !.pc = "paid", !.ok = ok])

Deny_CoverageOnly(agg) == agg.investigation.coverage.covered = "no"
Deny(agg) == agg.investigation.coverage.covered = "no" \/ agg.rule_id = "R-02"

Elsewhere == UNCHANGED <<durable, world, sanctionsDown, bounds>>

-----------------------------------------------------------------------------
(* Starting a task.                                                        *)

StartRun(t) ==
  /\ tasks[t].pc = "start"
  /\ tasks[t].fresh
  /\ checkpoint' = [next |-> "extract", agg |-> NewAggregate, resume |-> NoResume]
  /\ Becomes(t, [Running("extract", NewAggregate, NoResume) EXCEPT !.fresh = TRUE])
  /\ UNCHANGED <<claim, events, approval, toolCalls, world, sanctionsDown, bounds>>

NothingToRun_StartedOnly == checkpoint.next = "none"
NothingToRun == checkpoint.next \in {"none", "END"}

(* The interrupt returns the resume value: this one, or the one an earlier *)
(* invocation left with the error of the same node.                        *)
StartResume(t) ==
  /\ tasks[t].pc = "start"
  /\ ~ tasks[t].fresh
  /\ \/ /\ NothingToRun
        /\ Becomes(t, IdleTask)
     \/ /\ checkpoint.next \in Node
        /\ \E value \in {tasks[t].value, checkpoint.resume} \ {NoResume} :
             Becomes(t, Running(checkpoint.next, checkpoint.agg, value))
  /\ Elsewhere

-----------------------------------------------------------------------------
(* Triage nodes.                                                           *)

Extract(t) ==
  /\ At(t, "extract")
  /\ \E reading \in Readings, cost \in TokenCosts :
       LET agg == [tasks[t].agg EXCEPT !.extraction = Extracted(reading.fields, reading.low),
                                       !.tokens = @ + cost, !.state = "TRIAGE"]
       IN  Return(t, agg, <<Commit(agg, "EXTRACTED")>>, UnlessExhausted(agg, "classify"))
  /\ Elsewhere

Classify(t) ==
  /\ At(t, "classify")
  /\ \E cls \in Classifications, cost \in TokenCosts :
       LET agg == [tasks[t].agg EXCEPT !.classification = cls, !.tokens = @ + cost]
       IN  Return(t, agg, <<Commit(agg, "CLASSIFIED")>>, UnlessExhausted(agg, "investigate"))
  /\ Elsewhere

(* Without a policy number no policy is looked up: not active, no coverage.*)
Found(agg, inv) ==
  \/ "policy_number" \in agg.extraction.fields
  \/ ~ inv.policy_active /\ inv.coverage = NoCoverage

Investigate(t) ==
  /\ At(t, "investigate")
  /\ \E inv \in Investigations, cost \in GroundedCosts :
       /\ Found(tasks[t].agg, inv)
       /\ LET agg == [tasks[t].agg EXCEPT !.investigation = inv, !.tokens = @ + cost,
                                          !.state = "TRIAGE"]
          IN  Return(t, agg,
                     IF inv.degraded
                     THEN <<Commit(agg, "INVESTIGATED"), Commit(agg, "DEGRADED_MODE")>>
                     ELSE <<Commit(agg, "INVESTIGATED")>>,
                     UnlessExhausted(agg, "route"))
  /\ Elsewhere

RouterInputOf(agg) == InputOf(agg.extraction, agg.classification, agg.investigation)

RoutesFor(agg) == RoutesOf(RouterInputOf(agg), Config, Grounded, agg.investigation.degraded)

NeedsTiebreak(agg) == Route(RouterInputOf(agg), Config).needs_tiebreak

RouteNode(t) ==
  /\ At(t, "route")
  /\ \E r \in RoutesFor(tasks[t].agg),
        cost \in IF NeedsTiebreak(tasks[t].agg) THEN GroundedCosts ELSE {0} :
       LET agg == [tasks[t].agg EXCEPT !.workflow = r.workflow, !.rule_id = r.rule_id,
                                       !.state = "PLANNING", !.tokens = @ + cost]
       IN  Return(t, agg, <<Commit(agg, "ROUTED")>>,
                  UnlessExhausted(agg, NodeFor(r.workflow)))
  /\ Elsewhere

(* The planner gives up (transport, schema repair): EscalateToHuman leaves *)
(* the node before it has committed anything.                              *)
CallsLLM(agg, node) ==
  \/ node \in {"extract", "classify", "investigate"}
  \/ node = "route" /\ NeedsTiebreak(agg)
  \/ node = "w2_propose" /\ Deny(agg)

LLMFails(t) ==
  /\ Grounded
  /\ tasks[t].pc = "run"
  /\ CallsLLM(tasks[t].agg, tasks[t].node)
  /\ MoveTo(t, "raised")
  /\ Elsewhere

-----------------------------------------------------------------------------
(* payment_execute, through the executor.                                  *)

(* Sanctions come first, then the arguments (the amount must be positive), *)
(* then the idempotency key.  Only invalid arguments raise; the value the  *)
(* failed w2_await was resumed with stays with its checkpoint.             *)
PayRefused(t) ==
  /\ tasks[t].pc = "lookup"
  /\ sanctionsDown
  /\ PayAnswer(t, FALSE)
  /\ Elsewhere

PayInvalid(t) ==
  /\ tasks[t].pc = "lookup"
  /\ ~ sanctionsDown
  /\ tasks[t].pay = 0
  /\ MoveTo(t, "raised")
  /\ checkpoint' = IF tasks[t].node = "w2_await" /\ checkpoint.next = "w2_await"
                   THEN [checkpoint EXCEPT !.resume = tasks[t].value]
                   ELSE checkpoint
  /\ UNCHANGED <<claim, events, approval, toolCalls, world, sanctionsDown, bounds>>

AlreadyPaid_KeyIgnored == FALSE
AlreadyPaid == PayKey \in toolCalls

PayLookup(t) ==
  /\ tasks[t].pc = "lookup"
  /\ ~ sanctionsDown
  /\ tasks[t].pay > 0
  /\ IF AlreadyPaid
     THEN PayAnswer(t, TRUE)
     ELSE MoveTo(t, "rail")
  /\ Elsewhere

PayRail(t) ==
  /\ tasks[t].pc = "rail"
  /\ rail' = Append(rail, [amount         |-> tasks[t].pay,
                           workflow       |-> tasks[t].agg.workflow,
                           extraction     |-> tasks[t].agg.extraction,
                           classification |-> tasks[t].agg.classification,
                           investigation  |-> tasks[t].agg.investigation])
  /\ MoveTo(t, "record")
  /\ UNCHANGED <<durable, letters, sanctionsDown, bounds>>

PayRecord(t) ==
  /\ tasks[t].pc = "record"
  /\ toolCalls' = toolCalls \cup {PayKey}
  /\ PayAnswer(t, TRUE)
  /\ UNCHANGED <<claim, events, approval, checkpoint, world, sanctionsDown, bounds>>

-----------------------------------------------------------------------------
(* W1: straight-through.                                                   *)

(* The EXECUTING transition is committed inside the node; the aggregate    *)
(* the node goes on with keeps its old state.                              *)
W1Execute(t) ==
  LET agg       == tasks[t].agg
      executing == Commit([agg EXCEPT !.state = "EXECUTING"], "EXECUTING")
  IN  /\ At(t, "w1_execute")
      /\ claim' = executing.row
      /\ events' = Append(events, executing.event)
      /\ toolCalls' = toolCalls \cup {ReserveKey}
      /\ Pay(t, agg.investigation.amount_est)
      /\ UNCHANGED <<approval, checkpoint, world, sanctionsDown, bounds>>

Compensated_StateKept(agg) == [agg EXCEPT !.reserve = 0, !.paid = 0]
Compensated_ReserveSubtracted(agg) ==
  [agg EXCEPT !.reserve = @ - agg.investigation.amount_est, !.paid = 0,
              !.state = "REVIEW_PENDING"]
Compensated(agg) == [agg EXCEPT !.reserve = 0, !.paid = 0, !.state = "REVIEW_PENDING"]

AfterW1(agg) == IF agg.state = "EXECUTING" THEN "settle" ELSE "END"

W1Paid(t) ==
  /\ tasks[t].pc = "paid"
  /\ tasks[t].node = "w1_execute"
  /\ LET pay == tasks[t].pay
         agg == IF tasks[t].ok
                THEN [tasks[t].agg EXCEPT !.reserve = pay, !.paid = pay, !.state = "EXECUTING"]
                ELSE Compensated(tasks[t].agg)
     IN  Return(t, agg,
                IF tasks[t].ok THEN <<>> ELSE <<Commit(agg, "COMPENSATED")>>,
                AfterW1(agg))
  /\ Elsewhere

Settle(t) ==
  /\ At(t, "settle")
  /\ LET agg == [tasks[t].agg EXCEPT !.state = "SETTLEMENT"]
     IN  Return(t, agg, <<Commit(agg, "SETTLED")>>, "close")
  /\ Elsewhere

Close(t) ==
  /\ At(t, "close")
  /\ LET agg == [tasks[t].agg EXCEPT !.state = "CLOSED"]
     IN  Return(t, agg, <<Commit(agg, "CLOSED")>>, "END")
  /\ Elsewhere

-----------------------------------------------------------------------------
(* W2: a person decides.                                                   *)

(* INSERT ... ON CONFLICT DO NOTHING: the id is a function of the claim.   *)
CreateApproval_Upsert(action, amount) ==
  approval' = [status |-> "pending", type |-> action, amount |-> amount]
CreateApproval_PaymentsOnly(action, amount) ==
  approval' = IF approval.status = "none" /\ action = "pay"
              THEN [status |-> "pending", type |-> action, amount |-> amount]
              ELSE approval
CreateApproval(action, amount) ==
  approval' = IF approval.status = "none"
              THEN [status |-> "pending", type |-> action, amount |-> amount]
              ELSE approval

W2Deny(t) ==
  /\ At(t, "w2_propose")
  /\ Deny(tasks[t].agg)
  /\ CreateApproval("deny", 0)
  /\ \E cost \in TokenCosts :
       LET agg == [tasks[t].agg EXCEPT !.state = "REVIEW_PENDING", !.tokens = @ + cost]
       IN  Return(t, agg, <<Commit(agg, "APPROVAL_REQUESTED")>>,
                  UnlessExhausted(agg, "w2_await"))
  /\ UNCHANGED <<claim, events, toolCalls, checkpoint, world, sanctionsDown, bounds>>

W2Pay(t) ==
  LET amount == tasks[t].agg.investigation.amount_est
      agg    == [tasks[t].agg EXCEPT !.state = "REVIEW_PENDING", !.reserve = amount]
  IN  /\ At(t, "w2_propose")
      /\ ~ Deny(tasks[t].agg)
      /\ toolCalls' = toolCalls \cup {ReserveKey}
      /\ CreateApproval("pay", amount)
      /\ Return(t, agg, <<Commit(agg, "APPROVAL_REQUESTED")>>,
                UnlessExhausted(agg, "w2_await"))
      /\ UNCHANGED <<claim, events, checkpoint, world, sanctionsDown, bounds>>

(* A resume value without a resolution counts as an approval.              *)
ResolutionOf(value) == IF value.kind = "documents" THEN "approve" ELSE value.kind

(* UPDATE approvals ... WHERE id: whatever its status is.                  *)
W2Resolve(t) ==
  /\ At(t, "w2_await")
  /\ approval' = [approval EXCEPT !.status = ResolutionOf(tasks[t].value)]
  /\ MoveTo(t, "resolved")
  /\ UNCHANGED <<claim, events, toolCalls, checkpoint, world, sanctionsDown, bounds>>

AfterW2_WaitsAgain(agg) == IF agg.state = "SETTLEMENT" THEN "close" ELSE "w2_await"
AfterW2(agg) == IF agg.state = "SETTLEMENT" THEN "close" ELSE "END"

W2Rejected(t) ==
  /\ tasks[t].pc = "resolved"
  /\ ResolutionOf(tasks[t].value) = "reject"
  /\ LET agg == [tasks[t].agg EXCEPT !.state = "ESCALATED"]
     IN  Return(t, agg, <<Commit(agg, "APPROVAL_RESOLVED")>>, AfterW2(agg))
  /\ Elsewhere

W2Denied(t) ==
  /\ tasks[t].pc = "resolved"
  /\ ResolutionOf(tasks[t].value) # "reject"
  /\ approval.type = "deny"
  /\ letters' = letters + 1
  /\ LET agg == [tasks[t].agg EXCEPT !.state = "DENIED"]
     IN  Return(t, agg, <<Commit(agg, "APPROVAL_RESOLVED"), Commit(agg, "DENIED")>>,
                AfterW2(agg))
  /\ UNCHANGED <<durable, rail, sanctionsDown, bounds>>

(* The amount of the Modify delta, or the amount of the proposal.          *)
AmountToPay_Proposed(value) == approval.amount
AmountToPay(value) == IF value.kind = "modify" THEN value.amount ELSE approval.amount

W2Approved_RejectedToo(t) ==
  /\ tasks[t].pc = "resolved"
  /\ approval.type = "pay"
  /\ Pay(t, AmountToPay(tasks[t].value))
  /\ Elsewhere
W2Approved(t) ==
  /\ tasks[t].pc = "resolved"
  /\ ResolutionOf(tasks[t].value) # "reject"
  /\ approval.type = "pay"
  /\ Pay(t, AmountToPay(tasks[t].value))
  /\ Elsewhere

W2Paid(t) ==
  /\ tasks[t].pc = "paid"
  /\ tasks[t].node = "w2_await"
  /\ LET pay  == tasks[t].pay
         agg  == IF tasks[t].ok
                 THEN [tasks[t].agg EXCEPT !.reserve = IF @ > pay THEN @ ELSE pay,
                                           !.paid = pay, !.state = "SETTLEMENT"]
                 ELSE Compensated(tasks[t].agg)
     IN  Return(t, agg,
                <<Commit(agg, "APPROVAL_RESOLVED"),
                  Commit(agg, IF tasks[t].ok THEN "SETTLED" ELSE "COMPENSATED")>>,
                AfterW2(agg))
  /\ Elsewhere

-----------------------------------------------------------------------------
(* W3, W5: handed to people.  W4: the information request loop.            *)

Escalate(t) ==
  /\ At(t, "w3_fraud") \/ At(t, "w5_escalate")
  /\ LET agg == [tasks[t].agg EXCEPT !.state = "ESCALATED"]
     IN  Return(t, agg, <<Commit(agg, "ESCALATED")>>, "END")
  /\ Elsewhere

W4Request(t) ==
  /\ At(t, "w4_request")
  /\ LET agg == [tasks[t].agg EXCEPT !.state = "INFO_PENDING"]
     IN  Return(t, agg, <<Commit(agg, "PARKED")>>, "w4_await")
  /\ Elsewhere

LimitReached_OffByOne(replans) == replans > MaxReplans + 1
LimitReached(replans) == replans > MaxReplans

AfterW4(agg) == IF agg.state = "TRIAGE" THEN "investigate" ELSE "END"

(* A resume value without fields provides none.                            *)
W4Await(t) ==
  /\ At(t, "w4_await")
  /\ LET replans == tasks[t].agg.replans + 1
         agg     == IF LimitReached(replans)
                    THEN [tasks[t].agg EXCEPT !.state = "ESCALATED", !.replans = replans]
                    ELSE [tasks[t].agg EXCEPT
                            !.extraction = WithDocuments(@, tasks[t].value.fields),
                            !.replans = replans, !.state = "TRIAGE"]
     IN  Return(t, agg,
                <<Commit(agg, IF LimitReached(replans) THEN "REPLAN_LIMIT"
                              ELSE "DOCUMENT_RECEIVED")>>,
                AfterW4(agg))
  /\ Elsewhere

-----------------------------------------------------------------------------
(* Leaving a node.                                                         *)

(* One database transaction: the row and its event.                        *)
CommitNext(t) ==
  /\ tasks[t].pc = "commit"
  /\ tasks[t].todo # <<>>
  /\ LET transition == Head(tasks[t].todo)
     IN  /\ claim' = transition.row
         /\ events' = Append(events, transition.event)
  /\ Becomes(t, [tasks[t] EXCEPT !.todo = Tail(@)])
  /\ UNCHANGED <<approval, toolCalls, checkpoint, world, sanctionsDown, bounds>>

(* The checkpoint of the node; the run pauses at an await and at the end.  *)
Finish(t) ==
  /\ tasks[t].pc = "commit"
  /\ tasks[t].todo = <<>>
  /\ tasks[t].goto # "RAISE"
  /\ checkpoint' = [next |-> tasks[t].goto, agg |-> tasks[t].agg, resume |-> NoResume]
  /\ Becomes(t, IF tasks[t].goto \in Awaits \cup {"END"} THEN IdleTask
                 ELSE [Running(tasks[t].goto, tasks[t].agg, NoResume)
                         EXCEPT !.fresh = tasks[t].fresh])
  /\ UNCHANGED <<claim, events, approval, toolCalls, world, sanctionsDown, bounds>>

(* A node raised EscalateToHuman, before or after its commits.             *)
Escalating_BudgetOnly(t) ==
  tasks[t].pc = "commit" /\ tasks[t].todo = <<>> /\ tasks[t].goto = "RAISE"
Escalating(t) ==
  \/ tasks[t].pc = "raised"
  \/ tasks[t].pc = "commit" /\ tasks[t].todo = <<>> /\ tasks[t].goto = "RAISE"

(* run_claim escalates the aggregate it was called with, resume_claim the  *)
(* one of the latest checkpoint.                                           *)
RecordEscalation(t) ==
  LET base      == IF tasks[t].fresh THEN NewAggregate ELSE checkpoint.agg
      escalated == Commit([base EXCEPT !.state = "ESCALATED"], "ESCALATED")
  IN  /\ Escalating(t)
      /\ claim' = escalated.row
      /\ events' = Append(events, escalated.event)
      /\ Becomes(t, IdleTask)
      /\ UNCHANGED <<approval, toolCalls, checkpoint, world, sanctionsDown, bounds>>

-----------------------------------------------------------------------------
(* The API, and the process.                                               *)

Inject(t) ==
  LET received == Commit(NewAggregate, "RECEIVED")
  IN  /\ Idle(t)
      /\ claim = NoRow
      /\ claim' = received.row
      /\ events' = Append(events, received.event)
      /\ Becomes(t, [IdleTask EXCEPT !.pc = "start", !.fresh = TRUE])
      /\ UNCHANGED <<approval, toolCalls, checkpoint, world, sanctionsDown, bounds>>

(* create_task(_resume(value))                                             *)
Resume(t, value) ==
  /\ Idle(t)
  /\ resumes < MaxResumes
  /\ resumes' = resumes + 1
  /\ Becomes(t, [IdleTask EXCEPT !.pc = "start", !.value = value])
  /\ UNCHANGED <<durable, world, sanctionsDown, crashes>>

Offering(offered) ==
  /\ Dashboard => offered
  /\ strayed' = (strayed \/ ~ offered)

(* The endpoint asks only that the approval exists; the dashboard lists    *)
(* the pending ones.  A modify that names no amount is one to the amount   *)
(* of the proposal, which never changes; the dashboard's form starts       *)
(* from it.                                                                *)
Resolve(t) ==
  /\ approval.status # "none"
  /\ Offering(approval.status = "pending")
  /\ \E value \in {ResolveAs("approve", 0), ResolveAs("reject", 0)}
                    \cup {ResolveAs("modify", n) : n \in ModifiedAmounts \cup {approval.amount}} :
       /\ Resume(t, value)
       /\ decisions' = decisions \cup {value}

(* The endpoint asks nothing; the dashboard offers the upload while the    *)
(* claim is INFO_PENDING.                                                  *)
SubmitDocuments(t) ==
  /\ claim # NoRow
  /\ Offering(claim.state = "INFO_PENDING")
  /\ \E fields \in Uploads : Resume(t, DocumentsOf(fields))
  /\ UNCHANGED decisions

(* The service stops and starts again, with settings read anew.            *)
Crash ==
  /\ crashes < MaxCrashes
  /\ crashes' = crashes + 1
  /\ tasks' = [t \in Slots |-> IdleTask]
  /\ sanctionsDown' \in BOOLEAN
  /\ UNCHANGED <<durable, world, decisions, strayed, resumes>>

(* Anything but EscalateToHuman goes through run_claim and ends the task,  *)
(* and nobody is told: the database or the network fails, an embedding is  *)
(* refused.  An await node may leave the value it was resumed with.        *)
TaskDies(t) ==
  /\ ~ Idle(t)
  /\ crashes < MaxCrashes
  /\ crashes' = crashes + 1
  /\ Becomes(t, IdleTask)
  /\ \/ UNCHANGED checkpoint
     \/ /\ tasks[t].node \in Awaits
        /\ checkpoint.next = tasks[t].node
        /\ checkpoint' = [checkpoint EXCEPT !.resume = tasks[t].value]
  /\ UNCHANGED <<claim, events, approval, toolCalls, world, sanctionsDown,
                 decisions, strayed, resumes>>

-----------------------------------------------------------------------------
Init ==
  /\ claim = NoRow
  /\ events = <<>>
  /\ approval = NoApproval
  /\ toolCalls = {}
  /\ checkpoint = NoCheckpoint
  /\ rail = <<>>
  /\ letters = 0
  /\ tasks = [t \in Slots |-> IdleTask]
  /\ sanctionsDown \in BOOLEAN
  /\ decisions = {}
  /\ strayed = FALSE
  /\ resumes = 0
  /\ crashes = 0

Triaging(t)  == Extract(t) \/ Classify(t) \/ Investigate(t) \/ RouteNode(t) \/ LLMFails(t)
Paying(t)    == PayRefused(t) \/ PayInvalid(t) \/ PayLookup(t) \/ PayRail(t) \/ PayRecord(t)
Executing(t) ==
  \/ W1Execute(t) \/ W1Paid(t) \/ Settle(t) \/ Close(t)
  \/ W2Deny(t) \/ W2Pay(t) \/ W2Resolve(t) \/ W2Rejected(t) \/ W2Denied(t)
  \/ W2Approved(t) \/ W2Paid(t)
  \/ Escalate(t) \/ W4Request(t) \/ W4Await(t)
Leaving(t)   == CommitNext(t) \/ Finish(t) \/ RecordEscalation(t)

(* A step of a task that is in flight.                                     *)
Step(t) ==
  StartRun(t) \/ StartResume(t) \/ Triaging(t) \/ Executing(t) \/ Paying(t) \/ Leaving(t)

Call(t) == Inject(t) \/ Resolve(t) \/ SubmitDocuments(t)

Next == (\E t \in Slots : Step(t) \/ Call(t) \/ TaskDies(t)) \/ Crash

Spec == Init /\ [][Next]_vars

(* The event loop runs every task that can run; people and clients owe     *)
(* the service nothing.                                                    *)
FairSpec == Spec /\ \A t \in Slots : WF_vars(Step(t))

-----------------------------------------------------------------------------
TypeOK ==
  /\ claim \in Row
  /\ events \in Seq(Event)
  /\ approval \in Approval
  /\ toolCalls \subseteq {PayKey, ReserveKey}
  /\ checkpoint \in Checkpoint
  /\ rail \in Seq(Disbursement)
  /\ letters \in Nat
  /\ tasks \in [Slots -> Task]
  /\ sanctionsDown \in BOOLEAN
  /\ decisions \subseteq ResumeValue
  /\ strayed \in BOOLEAN
  /\ resumes \in Nat
  /\ crashes \in Nat

-----------------------------------------------------------------------------
(* Invariants that hold whatever tasks overlap and whenever the service    *)
(* crashes.                                                                *)

(* The states of the row an event of this type can go with.                *)
StatesAfter(type) ==
  CASE type = "RECEIVED"                                    -> {"RECEIVED"}
    [] type \in {"EXTRACTED", "CLASSIFIED", "INVESTIGATED",
                 "DEGRADED_MODE", "DOCUMENT_RECEIVED"}      -> {"TRIAGE"}
    [] type = "ROUTED"                                      -> {"PLANNING"}
    [] type = "PARKED"                                      -> {"INFO_PENDING"}
    [] type = "EXECUTING"                                   -> {"EXECUTING"}
    [] type \in {"COMPENSATED", "APPROVAL_REQUESTED"}       -> {"REVIEW_PENDING"}
    [] type = "APPROVAL_RESOLVED"                           ->
         {"ESCALATED", "DENIED", "SETTLEMENT", "REVIEW_PENDING"}
    [] type = "SETTLED"                                     -> {"SETTLEMENT"}
    [] type = "CLOSED"                                      -> {"CLOSED"}
    [] type = "DENIED"                                      -> {"DENIED"}
    [] type \in {"ESCALATED", "REPLAN_LIMIT"}               -> {"ESCALATED"}

(* The state in the claims row is the one the last event implies, and no   *)
(* row exists without an event: the aggregate is a projection of the log   *)
(* (commit_transition), also between the commits of two tasks.             *)
StateIsProjection ==
  IF events = <<>> THEN claim = NoRow
  ELSE claim.state \in StatesAfter(events[Len(events)].type)

EvidenceOf(d) == InputOf(d.extraction, d.classification, d.investigation)

(* Whatever reaches the rail was routed there on evidence that allows it:  *)
(* W1 on straight-through evidence and intact fraud controls, W2 never on  *)
(* a hard duplicate, and W3, W4 and W5 pay nothing.                        *)
PaidAsRouted(d) ==
  /\ ~ HardFraudSignal(EvidenceOf(d))
  /\ \/ /\ d.workflow = "W1"
        /\ StraightThrough(EvidenceOf(d), Config)
        /\ ~ d.investigation.degraded
     \/ d.workflow = "W2"

DisbursementsAreRouted == \A i \in DOMAIN rail : PaidAsRouted(rail[i])

(* A thread that waits in w2_await, and a task that has resolved it, find  *)
(* an approval to read: the row is inserted before the checkpoint, and the *)
(* conflicting insert of a re-run does not reset it.                       *)
ApprovalBeforeAwait ==
  /\ checkpoint.next = "w2_await" => approval.status # "none"
  /\ \A t \in Slots :
       tasks[t].pc = "resolved" => approval.status \in Resolution /\ approval.type # "none"

-----------------------------------------------------------------------------
(* Properties of one task at a time, with a restart or a task that dies in *)
(* between.                                                                *)

(* A payment outside the straight-through path carries a signature: a      *)
(* person approved the proposal, or modified it to the amount that went    *)
(* out, as long as only the dashboard's calls are made (w2_await).         *)
SignedPayments ==
  ~ strayed =>
    \A i \in DOMAIN rail :
      rail[i].workflow = "W2" =>
        \/ rail[i].amount = approval.amount /\ ResolveAs("approve", 0) \in decisions
        \/ ResolveAs("modify", rail[i].amount) \in decisions

(* No money leaves for a claim the rules or the determination deny: what   *)
(* w2_await pays is the proposal w2_propose made for the same evidence,    *)
(* re-plans and re-runs included.                                          *)
DeniedClaimsAreNotPaid ==
  \A i \in DOMAIN rail :
    /\ ~ FastDeny(EvidenceOf(rail[i]), Config)
    /\ rail[i].investigation.coverage.covered # "no"

(* Once the payment call is recorded, nothing reaches the rail again,      *)
(* whatever is retried or resolved again (the idempotency key).            *)
RecordedPaymentIsFinal ==
  [][rail' # rail => PayKey \notin toolCalls]_vars

(* The document loop re-plans at most MaxReplans times, and once more for  *)
(* each node that was cut off between its commit and its checkpoint: the   *)
(* count is in the checkpoint, so it outlives every pause.                 *)
ReplansBounded ==
  Cardinality({i \in DOMAIN events : events[i].type = "DOCUMENT_RECEIVED"})
    <= MaxReplans + crashes

(* A call that was accepted is worked off or dies: no task runs for ever,  *)
(* round the document loop included.                                       *)
CallsAreServed == \A t \in Slots : tasks[t].pc = "start" ~> Idle(t)

-----------------------------------------------------------------------------
(* Properties of one task at a time, up to the first restart or death.     *)

Unbroken == crashes = 0

(* The claims row, once nothing is in flight, shows what left on the rail: *)
(* one payment of that amount, or none.                                    *)
RowShowsRail ==
  Unbroken /\ Quiet =>
    IF claim.paid = 0 THEN rail = <<>>
    ELSE Len(rail) = 1 /\ rail[1].amount = claim.paid

(* After a rejection nothing is paid and no letter goes out.               *)
RejectionHolds ==
  Unbroken /\ approval.status = "reject" => rail = <<>> /\ letters = 0

(* A closed or denied claim stays so; the letter of a denial is sent once. *)
ClosedIsFinal ==
  [][Unbroken => /\ claim.state \in {"CLOSED", "DENIED"} => claim'.state = claim.state
                 /\ letters > 0 => letters' = letters]_vars

(* With nothing in flight, what the claims row says the claim waits for is *)
(* what its thread waits for: documents at w4_await, a decision at         *)
(* w2_await with an approval that is still pending; and a claim that is    *)
(* closed or denied has no thread left to resume.  (A compensated payment  *)
(* also leaves REVIEW_PENDING, with the thread at its end.)                *)
RestsWhereItWaits ==
  Unbroken /\ Quiet /\ claim # NoRow =>
    /\ claim.state \in Terminal \cup {"INFO_PENDING", "REVIEW_PENDING"}
    /\ claim.state = "INFO_PENDING" => checkpoint.next = "w4_await"
    /\ claim.state = "REVIEW_PENDING" =>
         \/ checkpoint.next = "w2_await" /\ approval.status = "pending"
         \/ checkpoint.next = "END" /\ events[Len(events)].type = "COMPENSATED"
    /\ claim.state \in {"CLOSED", "DENIED"} => checkpoint.next = "END"

(* Every claim received is worked off until it waits for somebody or is    *)
(* done (inject_scenario, _run_fresh).                                     *)
ReceivedClaimsSettle ==
  claim.state = "RECEIVED" ~>
    \/ ~ Unbroken
    \/ Quiet /\ claim.state \in Terminal \cup {"INFO_PENDING", "REVIEW_PENDING"}
=============================================================================
