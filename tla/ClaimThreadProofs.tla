--------------------------- MODULE ClaimThreadProofs ---------------------------
(***************************************************************************)
(* Theorems about ClaimLifecycle with one task of a claim at a time        *)
(* (Alone), for every routing config, every evidence, every budget and     *)
(* every number of calls: what is paid is signed, is not denied, is paid   *)
(* once recorded never again, and shows in the claims row; a rejected or   *)
(* closed claim stays so; and a quiet claim waits for what its row says.   *)
(* With two tasks at once each of these can break: see the README.         *)
(***************************************************************************)
EXTENDS ClaimLifecycleProofs

(* The only slot, and the task in it.                                      *)
Slot  == CHOOSE t \in Slots : TRUE
Alone == Slots = {Slot}
Solo  == tasks[Slot]

(* No node is running.                                                     *)
Stopped == Solo.pc \in {"idle", "start"}
Waiting == Solo.pc = "idle" \/ (Solo.pc = "start" /\ ~ Solo.fresh)

(* The task is in step with its checkpoint: it runs the node the           *)
(* checkpoint names, on the aggregate the checkpoint carries.              *)
InStep ==
  /\ ~ Stopped => Solo.node \in Node /\ checkpoint.next = Solo.node
  /\ Solo.pc \notin {"idle", "start", "commit"} => Solo.agg = checkpoint.agg
  /\ Solo.pc = "resolved" => Solo.node = "w2_await"
  /\ Solo.pc \in {"lookup", "rail", "record", "paid"} =>
       Solo.node \in {"w1_execute", "w2_await"}
  /\ Solo.pc = "commit" => Solo.goto \in Node \cup {"END", "RAISE"}

(* Before the first node of a claim there is nothing but its row.          *)
Untouched ==
  /\ claim = NoRow => Solo.pc = "idle"
  /\ claim = NoRow \/ (Solo.pc = "start" /\ Solo.fresh) =>
       /\ checkpoint = NoCheckpoint
       /\ approval = NoApproval
       /\ toolCalls = {}
       /\ rail = <<>>
       /\ letters = 0
       /\ \A i \in DOMAIN events : events[i].type = "RECEIVED"

(* What a node that is done has still to commit: rows of the aggregate it  *)
(* goes on with, and the last of them is in the table when none is left.   *)
Posting ==
  Solo.pc = "commit" =>
    /\ \A i \in DOMAIN Solo.todo : Solo.todo[i].row = RowOf(Solo.agg)
    /\ Solo.todo = <<>> /\ Solo.goto # "settle" => claim = RowOf(Solo.agg)

ThreadInv == InStep /\ Untouched /\ Posting

-----------------------------------------------------------------------------
(* What route_node says of a claim it sends to a node that pays.           *)

Admits(agg) ==
  /\ ~ FastDeny(RouterInputOf(agg), Config)
  /\ agg.investigation.coverage.covered # "no"

RoutedTo(node, agg) ==
  /\ node = "w1_execute" => agg.workflow = "W1" /\ Admits(agg)
  /\ node \in {"w2_propose", "w2_await"} =>
       agg.workflow = "W2" /\ (Deny(agg) \/ Admits(agg))

LEMMA RouteGrounds ==
  ASSUME NEW inp, NEW cfg
  PROVE  LET d == Route(inp, cfg)
         IN  /\ d.workflow = "W1" => ~ FastDeny(inp, cfg) /\ inp.coverage_covered = "yes"
             /\ d.workflow = "W2" => d.rule_id = "R-02" \/ ~ FastDeny(inp, cfg)
             /\ d.needs_tiebreak <=> d.rule_id = "R-06"
             /\ d.needs_tiebreak => d.workflow = "W2"
BY DEF Route, Decision, StraightThrough

LEMMA RouteAdmits ==
  ASSUME NEW agg, NEW r \in RoutesFor(agg), NEW routed,
         routed.workflow = r.workflow, routed.rule_id = r.rule_id,
         routed.extraction = agg.extraction, routed.classification = agg.classification,
         routed.investigation = agg.investigation
  PROVE  RoutedTo(NodeFor(r.workflow), routed)
<1> DEFINE inp == RouterInputOf(agg)
           d   == Route(inp, Config)
<1>1. RouterInputOf(routed) = inp
  BY DEF RouterInputOf
<1>2. inp.coverage_covered = routed.investigation.coverage.covered
  BY DEF RouterInputOf, InputOf
<1>3. PICK q \in Tiebreak(d, Grounded) : r = CapDegraded(q, agg.investigation.degraded)
  BY DEF RoutesFor, RoutesOf
<1>4. r.workflow \in Workflow
  BY RouteType
<1> HIDE DEF inp
<1>5. /\ d.workflow = "W1" => ~ FastDeny(inp, Config) /\ inp.coverage_covered = "yes"
      /\ d.workflow = "W2" => d.rule_id = "R-02" \/ ~ FastDeny(inp, Config)
      /\ d.needs_tiebreak <=> d.rule_id = "R-06"
      /\ d.needs_tiebreak => d.workflow = "W2"
  BY RouteGrounds
<1> HIDE DEF d
<1>6. /\ q.workflow = "W1" => ~ FastDeny(inp, Config) /\ inp.coverage_covered = "yes"
      /\ q.workflow = "W2" => q.rule_id = "R-02" \/ ~ FastDeny(inp, Config)
  BY <1>3, <1>5 DEF Tiebreak
<1>7. /\ r.workflow = "W1" => ~ FastDeny(inp, Config) /\ inp.coverage_covered = "yes"
      /\ r.workflow = "W2" => r.rule_id = "R-02" \/ ~ FastDeny(inp, Config)
  BY <1>3, <1>6 DEF CapDegraded
<1> QED BY <1>1, <1>2, <1>4, <1>7 DEF RoutedTo, NodeFor, Workflow, Admits, Deny
-----------------------------------------------------------------------------
(* The steps of a lone task, field by field: what a step of Next does when *)
(* there is one slot.  The proofs below only look at these.                *)

SameEvidenceAs(agg, old) ==
  /\ agg.workflow = old.workflow /\ agg.rule_id = old.rule_id
  /\ agg.extraction = old.extraction /\ agg.classification = old.classification
  /\ agg.investigation = old.investigation

(* Transitions of agg, up to two, the last of this type.                   *)
Writes(agg, commits, last) ==
  /\ commits \in Seq(Transition)
  /\ Len(commits) \in 1..2
  /\ \A i \in DOMAIN commits :
       /\ commits[i].row = RowOf(agg)
       /\ commits[i].event.type = "DOCUMENT_RECEIVED" =>
            Len(commits) = 1 /\ last = "DOCUMENT_RECEIVED"
  /\ commits[Len(commits)].event.type = last

(* How a task leaves a node: the aggregate it goes on with, what it has to *)
(* commit, and where it goes.                                              *)
LeavesTriage(task, agg, commits, goto) ==
  /\ task.pc = "run" /\ task.node \in {"extract", "classify", "investigate"}
  /\ goto \in {"classify", "investigate", "route", "RAISE"}
  /\ agg.state = "TRIAGE" /\ agg.paid = task.agg.paid /\ agg.replans = task.agg.replans
  /\ \E last \in {"EXTRACTED", "CLASSIFIED", "INVESTIGATED", "DEGRADED_MODE"} :
       Writes(agg, commits, last)

LeavesRoute(task, agg, commits, goto) ==
  /\ task.pc = "run" /\ task.node = "route"
  /\ goto \in {"w1_execute", "w2_propose", "w3_fraud", "w4_request", "w5_escalate", "RAISE"}
  /\ RoutedTo(goto, agg)
  /\ agg.state = "PLANNING" /\ agg.paid = task.agg.paid /\ agg.replans = task.agg.replans
  /\ Writes(agg, commits, "ROUTED")

LeavesPaid(task, agg, commits, goto) ==
  /\ task.pc = "paid" /\ task.ok
  /\ agg.paid = task.pay /\ agg.replans = task.agg.replans
  /\ \/ /\ task.node = "w1_execute" /\ goto = "settle"
        /\ agg.state = "EXECUTING" /\ commits = <<>>
     \/ /\ task.node = "w2_await" /\ goto = "close"
        /\ agg.state = "SETTLEMENT" /\ Writes(agg, commits, "SETTLED")

LeavesUnpaid(task, agg, commits, goto) ==
  /\ task.pc = "paid" /\ ~ task.ok /\ goto = "END"
  /\ agg.state = "REVIEW_PENDING" /\ agg.paid = 0 /\ agg.replans = task.agg.replans
  /\ Writes(agg, commits, "COMPENSATED")

LeavesProposal(task, agg, commits, goto) ==
  /\ task.pc = "run" /\ task.node = "w2_propose" /\ goto \in {"w2_await", "RAISE"}
  /\ agg.state = "REVIEW_PENDING" /\ agg.paid = task.agg.paid
  /\ agg.replans = task.agg.replans /\ SameEvidenceAs(agg, task.agg)
  /\ Writes(agg, commits, "APPROVAL_REQUESTED")

LeavesForGood(task, agg, commits, goto) ==
  /\ \/ /\ task.pc = "run" /\ task.node = "close"
        /\ agg.state = "CLOSED" /\ Writes(agg, commits, "CLOSED")
     \/ /\ task.pc = "run" /\ task.node \in {"w3_fraud", "w5_escalate"}
        /\ agg.state = "ESCALATED" /\ Writes(agg, commits, "ESCALATED")
     \/ /\ task.pc = "resolved" /\ task.value.kind = "reject"
        /\ agg.state = "ESCALATED" /\ Writes(agg, commits, "APPROVAL_RESOLVED")
     \/ /\ task.pc = "resolved" /\ task.value.kind # "reject"
        /\ agg.state = "DENIED" /\ Writes(agg, commits, "DENIED")
  /\ goto = "END" /\ agg.paid = task.agg.paid /\ agg.replans = task.agg.replans

LeavesSettle(task, agg, commits, goto) ==
  /\ task.pc = "run" /\ task.node = "settle" /\ goto = "close"
  /\ agg.state = "SETTLEMENT" /\ agg.paid = task.agg.paid /\ agg.replans = task.agg.replans
  /\ Writes(agg, commits, "SETTLED")

LeavesRequest(task, agg, commits, goto) ==
  /\ task.pc = "run" /\ task.node = "w4_request" /\ goto = "w4_await"
  /\ agg.state = "INFO_PENDING" /\ agg.paid = task.agg.paid /\ agg.replans = task.agg.replans
  /\ Writes(agg, commits, "PARKED")

LeavesWait(task, agg, commits, goto) ==
  /\ task.pc = "run" /\ task.node = "w4_await"
  /\ agg.paid = task.agg.paid /\ agg.replans = task.agg.replans + 1
  /\ \/ /\ agg.state = "ESCALATED" /\ goto = "END"
        /\ Writes(agg, commits, "REPLAN_LIMIT")
     \/ /\ agg.state = "TRIAGE" /\ goto = "investigate" /\ agg.replans <= MaxReplans
        /\ Writes(agg, commits, "DOCUMENT_RECEIVED")
  /\ Len(commits) = 1

Leaves(task, agg, commits, goto) ==
  \/ LeavesTriage(task, agg, commits, goto) \/ LeavesRoute(task, agg, commits, goto)
  \/ LeavesPaid(task, agg, commits, goto) \/ LeavesUnpaid(task, agg, commits, goto)
  \/ LeavesProposal(task, agg, commits, goto) \/ LeavesForGood(task, agg, commits, goto)
  \/ LeavesSettle(task, agg, commits, goto) \/ LeavesRequest(task, agg, commits, goto)
  \/ LeavesWait(task, agg, commits, goto)

(* A node is done.                                                         *)
NodeEnds ==
  /\ Leaves(Solo, Solo'.agg, Solo'.todo, Solo'.goto)
  /\ Solo'.pc = "commit" /\ Solo'.node = Solo.node /\ Solo'.value = Solo.value
  /\ UNCHANGED <<claim, events, checkpoint, rail, decisions, strayed, crashes>>
  /\ PayKey \in toolCalls' => PayKey \in toolCalls
  /\ approval' # approval =>
       /\ Solo.node = "w2_propose" /\ approval.status = "none" /\ approval'.status = "pending"
       /\ approval'.type = "deny" <=> Deny(Solo.agg)
  /\ Solo.node = "w2_propose" => approval'.status # "none"
  /\ letters' # letters =>
       /\ letters' = letters + 1 /\ Solo.pc = "resolved"
       /\ Solo.value.kind # "reject" /\ Solo'.agg.state = "DENIED"

Goes(pc) ==
  /\ Solo'.pc = pc
  /\ Solo'.node = Solo.node /\ Solo'.agg = Solo.agg
  /\ Solo'.value = Solo.value /\ Solo'.fresh = Solo.fresh

HistoryStays == UNCHANGED <<decisions, strayed, crashes>>

Begins ==
  /\ Solo.pc = "start" /\ Solo.fresh
  /\ Solo'.pc = "run" /\ Solo'.node = "extract" /\ Solo'.agg = NewAggregate
  /\ Solo'.value = NoResume
  /\ checkpoint' = [next |-> "extract", agg |-> NewAggregate, resume |-> NoResume]
  /\ UNCHANGED <<claim, events, approval, toolCalls, rail, letters>> /\ HistoryStays

Resumes ==
  /\ Solo.pc = "start" /\ ~ Solo.fresh
  /\ checkpoint.next \in Node
  /\ Solo'.pc = "run" /\ Solo'.node = checkpoint.next /\ Solo'.agg = checkpoint.agg
  /\ Solo'.value \in {Solo.value, checkpoint.resume} \ {NoResume}
  /\ UNCHANGED <<durable, world>> /\ HistoryStays

HasNothingToRun ==
  /\ Solo.pc = "start" /\ ~ Solo.fresh
  /\ Solo' = IdleTask
  /\ UNCHANGED <<durable, world>> /\ HistoryStays

(* A checkpoint that keeps the value its await was resumed with.           *)
KeepsValue ==
  \/ checkpoint' = checkpoint
  \/ /\ checkpoint'.next = checkpoint.next /\ checkpoint'.agg = checkpoint.agg
     /\ checkpoint'.resume = Solo.value
     /\ Solo.pc # "idle" /\ Solo.node = checkpoint.next /\ checkpoint.next \in Awaits

Raises ==
  /\ \/ Solo.pc = "run" /\ Solo.node \notin {"settle", "close"}
     \/ Solo.pc = "lookup"
  /\ Goes("raised")
  /\ KeepsValue
  /\ UNCHANGED <<claim, events, approval, toolCalls, world>> /\ HistoryStays

Executes ==
  /\ Solo.pc = "run" /\ Solo.node = "w1_execute"
  /\ claim'.state = "EXECUTING"
  /\ \E event \in Event : event.type = "EXECUTING" /\ events' = Append(events, event)
  /\ PayKey \in toolCalls' => PayKey \in toolCalls
  /\ Goes("lookup")
  /\ UNCHANGED <<approval, checkpoint, world>> /\ HistoryStays

Decides ==
  /\ Solo.pc = "run" /\ Solo.node = "w2_await"
  /\ approval'.status = ResolutionOf(Solo.value)
  /\ approval'.type = approval.type /\ approval'.amount = approval.amount
  /\ Goes("resolved")
  /\ UNCHANGED <<claim, events, toolCalls, checkpoint, world>> /\ HistoryStays

Approves ==
  /\ Solo.pc = "resolved" /\ approval.type = "pay" /\ Solo.value.kind # "reject"
  /\ Goes("lookup") /\ Solo'.pay = AmountToPay(Solo.value)
  /\ UNCHANGED <<durable, world>> /\ HistoryStays

Answers ==
  /\ Solo.pc = "lookup"
  /\ Goes("paid") /\ (Solo'.ok => PayKey \in toolCalls)
  /\ UNCHANGED <<durable, world>> /\ HistoryStays

Looks ==
  /\ Solo.pc = "lookup" /\ PayKey \notin toolCalls /\ Solo.pay > 0
  /\ Goes("rail") /\ Solo'.pay = Solo.pay
  /\ UNCHANGED <<durable, world>> /\ HistoryStays

Disburses ==
  /\ Solo.pc = "rail"
  /\ \E d \in Disbursement :
       /\ rail' = Append(rail, d)
       /\ d.amount = Solo.pay /\ d.workflow = Solo.agg.workflow
       /\ EvidenceOf(d) = RouterInputOf(Solo.agg)
       /\ d.investigation = Solo.agg.investigation
  /\ Goes("record") /\ Solo'.pay = Solo.pay
  /\ UNCHANGED <<durable, letters>> /\ HistoryStays

Records ==
  /\ Solo.pc = "record"
  /\ Goes("paid") /\ Solo'.pay = Solo.pay /\ Solo'.ok
  /\ UNCHANGED <<claim, events, approval, checkpoint, world>> /\ HistoryStays

Commits ==
  /\ Solo.pc = "commit" /\ Solo.todo # <<>>
  /\ claim' = Head(Solo.todo).row /\ events' = Append(events, Head(Solo.todo).event)
  /\ Goes("commit") /\ Solo'.goto = Solo.goto /\ Solo'.todo = Tail(Solo.todo)
  /\ UNCHANGED <<approval, toolCalls, checkpoint, world>> /\ HistoryStays

Finishes ==
  /\ Solo.pc = "commit" /\ Solo.todo = <<>> /\ Solo.goto # "RAISE"
  /\ checkpoint' = [next |-> Solo.goto, agg |-> Solo.agg, resume |-> NoResume]
  /\ IF Solo.goto \in Awaits \cup {"END"} THEN Solo' = IdleTask
     ELSE /\ Solo'.pc = "run" /\ Solo'.node = Solo.goto /\ Solo'.agg = Solo.agg
          /\ Solo'.value = NoResume
  /\ UNCHANGED <<claim, events, approval, toolCalls, world>> /\ HistoryStays

GivesUp ==
  /\ \/ Solo.pc = "raised"
     \/ Solo.pc = "commit" /\ Solo.todo = <<>> /\ Solo.goto = "RAISE"
  /\ claim'.state = "ESCALATED" /\ claim'.paid \in {0, checkpoint.agg.paid}
  /\ \E event \in Event : event.type = "ESCALATED" /\ events' = Append(events, event)
  /\ Solo' = IdleTask
  /\ UNCHANGED <<approval, toolCalls, checkpoint, world>> /\ HistoryStays

Injected ==
  /\ Solo.pc = "idle" /\ claim = NoRow
  /\ claim'.state = "RECEIVED" /\ claim'.paid = 0
  /\ \E event \in Event : event.type = "RECEIVED" /\ events' = Append(events, event)
  /\ Solo'.pc = "start" /\ Solo'.fresh /\ Solo'.value = NoResume
  /\ UNCHANGED <<approval, toolCalls, checkpoint, world>> /\ HistoryStays

Called ==
  /\ Solo.pc = "idle" /\ Solo'.pc = "start" /\ ~ Solo'.fresh
  /\ \/ /\ approval.status # "none"
        /\ Solo'.value \in {ResolveAs("approve", 0), ResolveAs("reject", 0)}
                             \cup {ResolveAs("modify", n) : n \in Nat}
        /\ decisions' = decisions \cup {Solo'.value}
     \/ /\ claim # NoRow
        /\ ~ strayed' => claim.state = "INFO_PENDING"
        /\ Solo'.value.kind = "documents"
        /\ UNCHANGED decisions
  /\ strayed => strayed'
  /\ UNCHANGED <<durable, world, crashes>>

Dies ==
  /\ Solo' = IdleTask
  /\ KeepsValue
  /\ crashes' = crashes + 1
  /\ UNCHANGED <<claim, events, approval, toolCalls, world, decisions, strayed>>

Rests ==
  /\ Solo' = Solo
  /\ UNCHANGED <<durable, world>> /\ HistoryStays

SoloStep ==
  \/ Begins \/ Resumes \/ HasNothingToRun \/ NodeEnds \/ Raises \/ Executes \/ Decides
  \/ Approves \/ Answers \/ Looks \/ Disburses \/ Records \/ Commits \/ Finishes
  \/ GivesUp \/ Injected \/ Called \/ Dies \/ Rests
-----------------------------------------------------------------------------
(* With one slot, every step of Next is one of these.                      *)

LEMMA SoloTask ==
  ASSUME TypeOK, Alone
  PROVE  /\ Slot \in Slots
         /\ Solo \in Task /\ Solo.agg \in Aggregate /\ Solo.value \in ResumeValue
         /\ Solo.todo \in Seq(Transition) /\ Solo.pay \in Nat
BY TaskType DEF Alone, Solo

LEMMA SoloBecomes ==
  ASSUME TypeOK, Alone, NEW task, Becomes(Slot, task)
  PROVE  Solo' = task
BY TaskType DEF Becomes, Solo, Alone

LEMMA SoloGoes ==
  ASSUME TypeOK, Alone, NEW pc
  PROVE  /\ MoveTo(Slot, pc) => Goes(pc) /\ Solo'.pay = Solo.pay
         /\ \A ok : PayAnswer(Slot, ok) => Goes("paid") /\ Solo'.pay = Solo.pay /\ Solo'.ok = ok
         /\ \A amount : Pay(Slot, amount) => Goes("lookup") /\ Solo'.pay = amount
<1>1. Solo \in Task /\ tasks[Slot] = Solo
  BY SoloTask DEF Solo
<1>2. ASSUME MoveTo(Slot, pc)
      PROVE  Goes(pc) /\ Solo'.pay = Solo.pay
  <2>1. Solo' = [Solo EXCEPT !.pc = pc]
    BY <1>1, <1>2, SoloBecomes DEF MoveTo
  <2> QED BY <1>1, <2>1 DEF Goes, Task
<1>3. ASSUME NEW ok, PayAnswer(Slot, ok)
      PROVE  Goes("paid") /\ Solo'.pay = Solo.pay /\ Solo'.ok = ok
  <2>1. Solo' = [Solo EXCEPT !.pc = "paid", !.ok = ok]
    BY <1>1, <1>3, SoloBecomes DEF PayAnswer
  <2> QED BY <1>1, <2>1 DEF Goes, Task
<1>4. ASSUME NEW amount, Pay(Slot, amount)
      PROVE  Goes("lookup") /\ Solo'.pay = amount
  <2>1. Solo' = [Solo EXCEPT !.pc = "lookup", !.pay = amount]
    BY <1>1, <1>4, SoloBecomes DEF Pay
  <2> QED BY <1>1, <2>1 DEF Goes, Task
<1> QED BY <1>2, <1>3, <1>4

LEMMA SoloReturns ==
  ASSUME TypeOK, Alone, NEW agg, NEW commits, NEW goto, Return(Slot, agg, commits, goto)
  PROVE  /\ Solo'.pc = "commit" /\ Solo'.agg = agg /\ Solo'.todo = commits
         /\ Solo'.goto = goto /\ Solo'.node = Solo.node /\ Solo'.value = Solo.value
<1>1. Solo \in Task /\ tasks[Slot] = Solo
  BY SoloTask DEF Solo
<1>2. Solo' = [Solo EXCEPT !.pc = "commit", !.agg = agg, !.todo = commits, !.goto = goto]
  BY <1>1, SoloBecomes DEF Return
<1> QED BY <1>1, <1>2 DEF Task

LEMMA OneWrite ==
  ASSUME NEW agg \in Aggregate, NEW type \in EventType
  PROVE  Writes(agg, <<Commit(agg, type)>>, type) /\ Len(<<Commit(agg, type)>>) = 1
<1> DEFINE c == Commit(agg, type)
<1>1. c \in Transition /\ c.row = RowOf(agg) /\ c.event.type = type
  BY CommitType DEF Commit
<1> HIDE DEF c
<1>2. Writes(agg, <<c>>, type) /\ Len(<<c>>) = 1
  BY <1>1 DEF Writes
<1> QED BY <1>2 DEF c

LEMMA TwoWrites ==
  ASSUME NEW agg \in Aggregate, NEW first \in EventType, NEW last \in EventType,
         first # "DOCUMENT_RECEIVED", last # "DOCUMENT_RECEIVED"
  PROVE  Writes(agg, <<Commit(agg, first), Commit(agg, last)>>, last)
<1> DEFINE c == Commit(agg, first)
           d == Commit(agg, last)
<1>1. /\ c \in Transition /\ c.row = RowOf(agg) /\ c.event.type = first
      /\ d \in Transition /\ d.row = RowOf(agg) /\ d.event.type = last
  BY CommitType DEF Commit
<1> HIDE DEF c, d
<1>2. Writes(agg, <<c, d>>, last)
  BY <1>1 DEF Writes
<1> QED BY <1>2 DEF c, d

LEMMA SoloEnds ==
  ASSUME TypeOK, Alone, NEW agg, NEW commits, NEW goto,
         Return(Slot, agg, commits, goto), Leaves(Solo, agg, commits, goto),
         Solo.node # "w2_propose", Elsewhere
  PROVE  NodeEnds
<1>1. Leaves(Solo, Solo'.agg, Solo'.todo, Solo'.goto)
  BY SoloReturns
<1> QED BY <1>1, SoloReturns DEF NodeEnds, Elsewhere, durable, world, bounds

LEMMA TriagingEnds ==
  ASSUME TypeOK, ProjectionInv, Alone, Triaging(Slot)
  PROVE  NodeEnds \/ Raises
<1> DEFINE a == Solo.agg
<1>0. a \in Aggregate /\ tasks[Slot] = Solo /\ Slot \in Slots
  BY SoloTask DEF Solo
<1>1. CASE Extract(Slot)
  <2>1. PICK reading \in Readings, cost \in TokenCosts :
          LET agg == [tasks[Slot].agg EXCEPT
                        !.extraction = Extracted(reading.fields, reading.low),
                        !.tokens = @ + cost, !.state = "TRIAGE"]
          IN  Return(Slot, agg, <<Commit(agg, "EXTRACTED")>>,
                     UnlessExhausted(agg, "classify"))
    BY <1>1 DEF Extract
  <2> DEFINE agg == [a EXCEPT !.extraction = Extracted(reading.fields, reading.low),
                              !.tokens = @ + cost, !.state = "TRIAGE"]
  <2>2. agg \in Aggregate /\ agg.state = "TRIAGE" /\ agg.paid = a.paid /\ agg.replans = a.replans
    <3>1. Extracted(reading.fields, reading.low) \in Extraction /\ cost \in Nat
      BY LifecycleAssumption, ExtractedType DEF Reading
    <3>2. a.tokens + cost \in Nat
      BY <1>0, <3>1 DEF Aggregate
    <3> HIDE DEF a
    <3> QED BY <1>0, <3>1, <3>2 DEF Aggregate, ClaimState
  <2>3. Return(Slot, agg, <<Commit(agg, "EXTRACTED")>>, UnlessExhausted(agg, "classify"))
    BY <1>0, <2>1
  <2> HIDE DEF agg
  <2>4. Writes(agg, <<Commit(agg, "EXTRACTED")>>, "EXTRACTED")
    BY <2>2, OneWrite DEF EventType
  <2>5. Solo.pc = "run" /\ Solo.node = "extract"
    BY <1>0, <1>1 DEF Extract, At
  <2>6. LeavesTriage(Solo, agg, <<Commit(agg, "EXTRACTED")>>, UnlessExhausted(agg, "classify"))
    BY <2>2, <2>4, <2>5 DEF LeavesTriage, UnlessExhausted
  <2> QED BY <1>1, <2>3, <2>5, <2>6, SoloEnds DEF Extract, Leaves
<1>2. CASE Classify(Slot)
  <2>1. PICK cls \in Classifications, cost \in TokenCosts :
          LET agg == [tasks[Slot].agg EXCEPT !.classification = cls, !.tokens = @ + cost]
          IN  Return(Slot, agg, <<Commit(agg, "CLASSIFIED")>>,
                     UnlessExhausted(agg, "investigate"))
    BY <1>2 DEF Classify
  <2> DEFINE agg == [a EXCEPT !.classification = cls, !.tokens = @ + cost]
  <2>2. Solo.pc = "run" /\ Solo.node = "classify" /\ a.state = "TRIAGE"
    BY <1>0, <1>2 DEF Classify, At, ProjectionInv, ProjectedTask
  <2>3. agg \in Aggregate /\ agg.state = "TRIAGE" /\ agg.paid = a.paid /\ agg.replans = a.replans
    <3>1. cls \in Classification /\ cost \in Nat
      BY LifecycleAssumption
    <3>2. a.tokens + cost \in Nat
      BY <1>0, <3>1 DEF Aggregate
    <3>3. a \in Aggregate /\ a.state = "TRIAGE"
      BY <1>0, <2>2
    <3> HIDE DEF a
    <3> QED BY <3>1, <3>2, <3>3 DEF Aggregate
  <2>4. Return(Slot, agg, <<Commit(agg, "CLASSIFIED")>>, UnlessExhausted(agg, "investigate"))
    BY <1>0, <2>1
  <2> HIDE DEF agg
  <2>5. Writes(agg, <<Commit(agg, "CLASSIFIED")>>, "CLASSIFIED")
    BY <2>3, OneWrite DEF EventType
  <2>6. LeavesTriage(Solo, agg, <<Commit(agg, "CLASSIFIED")>>,
                     UnlessExhausted(agg, "investigate"))
    BY <2>2, <2>3, <2>5 DEF LeavesTriage, UnlessExhausted
  <2> QED BY <1>2, <2>2, <2>4, <2>6, SoloEnds DEF Classify, Leaves
<1>3. CASE Investigate(Slot)
  <2>1. PICK inv \in Investigations, cost \in GroundedCosts :
          LET agg == [tasks[Slot].agg EXCEPT !.investigation = inv, !.tokens = @ + cost,
                                             !.state = "TRIAGE"]
          IN  Return(Slot, agg,
                     IF inv.degraded
                     THEN <<Commit(agg, "INVESTIGATED"), Commit(agg, "DEGRADED_MODE")>>
                     ELSE <<Commit(agg, "INVESTIGATED")>>,
                     UnlessExhausted(agg, "route"))
    BY <1>3 DEF Investigate
  <2> DEFINE agg == [a EXCEPT !.investigation = inv, !.tokens = @ + cost, !.state = "TRIAGE"]
  <2> DEFINE commits == IF inv.degraded
                        THEN <<Commit(agg, "INVESTIGATED"), Commit(agg, "DEGRADED_MODE")>>
                        ELSE <<Commit(agg, "INVESTIGATED")>>
  <2>2. agg \in Aggregate /\ agg.state = "TRIAGE" /\ agg.paid = a.paid /\ agg.replans = a.replans
    <3>1. inv \in Investigation /\ cost \in Nat
      BY LifecycleAssumption DEF GroundedCosts
    <3>2. a.tokens + cost \in Nat
      BY <1>0, <3>1 DEF Aggregate
    <3> HIDE DEF a
    <3> QED BY <1>0, <3>1, <3>2 DEF Aggregate, ClaimState
  <2>3. Return(Slot, agg, commits, UnlessExhausted(agg, "route"))
    BY <1>0, <2>1
  <2>4. \E last \in {"INVESTIGATED", "DEGRADED_MODE"} : Writes(agg, commits, last)
    <3> HIDE DEF agg
    <3>1. /\ Writes(agg, <<Commit(agg, "INVESTIGATED")>>, "INVESTIGATED")
          /\ Writes(agg, <<Commit(agg, "INVESTIGATED"), Commit(agg, "DEGRADED_MODE")>>,
                    "DEGRADED_MODE")
      BY <2>2, OneWrite, TwoWrites DEF EventType
    <3> QED BY <3>1
  <2>5. Solo.pc = "run" /\ Solo.node = "investigate"
    BY <1>0, <1>3 DEF Investigate, At
  <2> HIDE DEF agg, commits
  <2>6. LeavesTriage(Solo, agg, commits, UnlessExhausted(agg, "route"))
    BY <2>2, <2>4, <2>5 DEF LeavesTriage, UnlessExhausted
  <2> QED BY <1>3, <2>3, <2>5, <2>6, SoloEnds DEF Investigate, Leaves
<1>4. CASE RouteNode(Slot)
  <2>1. PICK r \in RoutesFor(a),
             cost \in IF NeedsTiebreak(a) THEN GroundedCosts ELSE {0} :
          LET agg == [tasks[Slot].agg EXCEPT !.workflow = r.workflow, !.rule_id = r.rule_id,
                                             !.state = "PLANNING", !.tokens = @ + cost]
          IN  Return(Slot, agg, <<Commit(agg, "ROUTED")>>,
                     UnlessExhausted(agg, NodeFor(r.workflow)))
    BY <1>0, <1>4 DEF RouteNode
  <2> DEFINE agg  == [a EXCEPT !.workflow = r.workflow, !.rule_id = r.rule_id,
                               !.state = "PLANNING", !.tokens = @ + cost]
             goto == UnlessExhausted(agg, NodeFor(r.workflow))
  <2>2. r.workflow \in Workflow /\ r.rule_id \in RuleId
    BY RouteType
  <2>3. /\ agg \in Aggregate /\ agg.state = "PLANNING" /\ agg.paid = a.paid
        /\ agg.replans = a.replans /\ agg.workflow = r.workflow /\ agg.rule_id = r.rule_id
        /\ agg.extraction = a.extraction /\ agg.classification = a.classification
        /\ agg.investigation = a.investigation
    <3>1. cost \in Nat
      BY LifecycleAssumption DEF GroundedCosts
    <3>2. a.tokens + cost \in Nat
      BY <1>0, <3>1 DEF Aggregate
    <3> HIDE DEF a
    <3> QED BY <1>0, <2>2, <3>1, <3>2 DEF Aggregate, ClaimState
  <2>4. Return(Slot, agg, <<Commit(agg, "ROUTED")>>, goto)
    BY <1>0, <2>1
  <2> HIDE DEF agg
  <2>5. Writes(agg, <<Commit(agg, "ROUTED")>>, "ROUTED")
    BY <2>3, OneWrite DEF EventType
  <2>6. Solo.pc = "run" /\ Solo.node = "route"
    BY <1>0, <1>4 DEF RouteNode, At
  <2>7. RoutedTo(NodeFor(r.workflow), agg)
    BY <2>3, RouteAdmits
  <2>8. /\ goto \in {"w1_execute", "w2_propose", "w3_fraud", "w4_request", "w5_escalate",
                     "RAISE"}
        /\ RoutedTo(goto, agg)
    BY <2>2, <2>7 DEF UnlessExhausted, NodeFor, Workflow, RoutedTo
  <2> HIDE DEF goto
  <2>9. LeavesRoute(Solo, agg, <<Commit(agg, "ROUTED")>>, goto)
    BY <2>3, <2>5, <2>6, <2>8 DEF LeavesRoute
  <2> QED BY <1>4, <2>4, <2>6, <2>9, SoloEnds DEF RouteNode, Leaves
<1>5. CASE LLMFails(Slot)
  <2>1. Goes("raised")
    BY <1>5, SoloGoes DEF LLMFails
  <2> QED BY <1>0, <1>5, <2>1
             DEF LLMFails, CallsLLM, Raises, KeepsValue, HistoryStays, Elsewhere, durable,
                 bounds
<1> QED BY <1>1, <1>2, <1>3, <1>4, <1>5 DEF Triaging

LEMMA W1Ends ==
  ASSUME TypeOK, Alone, InStep, W1Paid(Slot) \/ Settle(Slot) \/ Close(Slot)
  PROVE  NodeEnds
<1> DEFINE a == Solo.agg
<1>0. a \in Aggregate /\ tasks[Slot] = Solo /\ Slot \in Slots /\ Solo.pay \in Nat
  BY SoloTask DEF Solo
<1>1. CASE W1Paid(Slot)
  <2> DEFINE pay     == Solo.pay
             agg     == IF Solo.ok
                        THEN [a EXCEPT !.reserve = pay, !.paid = pay, !.state = "EXECUTING"]
                        ELSE Compensated(a)
             commits == IF Solo.ok THEN <<>> ELSE <<Commit(agg, "COMPENSATED")>>
  <2>1. Solo.pc = "paid" /\ Solo.node = "w1_execute"
    BY <1>0, <1>1 DEF W1Paid
  <2>2. Return(Slot, agg, commits, AfterW1(agg)) /\ Elsewhere
    BY <1>0, <1>1 DEF W1Paid
  <2>3. CASE Solo.ok
    <3>1. agg.state = "EXECUTING" /\ agg.paid = pay /\ agg.replans = a.replans
      <4> HIDE DEF a
      <4> QED BY <1>0, <2>3 DEF Aggregate
    <3>2. commits = <<>>
      BY <2>3
    <3>3. AfterW1(agg) = "settle"
      BY <3>1 DEF AfterW1
    <3> HIDE DEF agg, commits
    <3>4. LeavesPaid(Solo, agg, commits, AfterW1(agg))
      BY <2>1, <2>3, <3>1, <3>2, <3>3 DEF LeavesPaid
    <3> QED BY <2>1, <2>2, <3>4, SoloEnds DEF Leaves
  <2>4. CASE ~ Solo.ok
    <3>1. /\ agg \in Aggregate
          /\ agg.state = "REVIEW_PENDING" /\ agg.paid = 0 /\ agg.replans = a.replans
      <4> HIDE DEF a
      <4> QED BY <1>0, <2>4, CompensatedType DEF Aggregate, Compensated
    <3>2. commits = <<Commit(agg, "COMPENSATED")>>
      BY <2>4
    <3>3. AfterW1(agg) = "END"
      BY <3>1 DEF AfterW1
    <3> HIDE DEF agg, commits
    <3>4. Writes(agg, commits, "COMPENSATED")
      BY <3>1, <3>2, OneWrite DEF EventType
    <3>5. LeavesUnpaid(Solo, agg, commits, AfterW1(agg))
      BY <2>1, <2>4, <3>1, <3>3, <3>4 DEF LeavesUnpaid
    <3> QED BY <2>1, <2>2, <3>5, SoloEnds DEF Leaves
  <2> QED BY <2>3, <2>4
<1>2. CASE Settle(Slot)
  <2> DEFINE agg == [a EXCEPT !.state = "SETTLEMENT"]
  <2>1. Return(Slot, agg, <<Commit(agg, "SETTLED")>>, "close") /\ Elsewhere
    BY <1>0, <1>2 DEF Settle
  <2>2. Solo.pc = "run" /\ Solo.node = "settle"
    BY <1>0, <1>2 DEF Settle, At
  <2>3. agg \in Aggregate /\ agg.state = "SETTLEMENT" /\ agg.paid = a.paid /\ agg.replans = a.replans
    <3> HIDE DEF a
    <3> QED BY <1>0 DEF Aggregate, ClaimState
  <2> HIDE DEF agg
  <2>4. Writes(agg, <<Commit(agg, "SETTLED")>>, "SETTLED")
    BY <2>3, OneWrite DEF EventType
  <2>5. LeavesSettle(Solo, agg, <<Commit(agg, "SETTLED")>>, "close")
    BY <2>2, <2>3, <2>4 DEF LeavesSettle
  <2> QED BY <2>1, <2>2, <2>5, SoloEnds DEF Leaves
<1>3. CASE Close(Slot)
  <2> DEFINE agg == [a EXCEPT !.state = "CLOSED"]
  <2>1. Return(Slot, agg, <<Commit(agg, "CLOSED")>>, "END") /\ Elsewhere
    BY <1>0, <1>3 DEF Close
  <2>2. Solo.pc = "run" /\ Solo.node = "close"
    BY <1>0, <1>3 DEF Close, At
  <2>3. agg \in Aggregate /\ agg.state = "CLOSED" /\ agg.paid = a.paid /\ agg.replans = a.replans
    <3> HIDE DEF a
    <3> QED BY <1>0 DEF Aggregate, ClaimState
  <2> HIDE DEF agg
  <2>4. Writes(agg, <<Commit(agg, "CLOSED")>>, "CLOSED")
    BY <2>3, OneWrite DEF EventType
  <2>5. LeavesForGood(Solo, agg, <<Commit(agg, "CLOSED")>>, "END")
    BY <2>2, <2>3, <2>4 DEF LeavesForGood
  <2> QED BY <2>1, <2>2, <2>5, SoloEnds DEF Leaves
<1> QED BY <1>1, <1>2, <1>3

(* w2_propose ends with the approval row in place.                         *)
LEMMA ProposalEnds ==
  ASSUME TypeOK, Alone, W2Deny(Slot) \/ W2Pay(Slot)
  PROVE  NodeEnds
<1> DEFINE a == Solo.agg
<1>0. a \in Aggregate /\ tasks[Slot] = Solo /\ Slot \in Slots
  BY SoloTask DEF Solo
<1>1. Solo.pc = "run" /\ Solo.node = "w2_propose"
  BY <1>0 DEF W2Deny, W2Pay, At
<1>2. ASSUME NEW agg, agg \in Aggregate, agg.state = "REVIEW_PENDING", agg.paid = a.paid,
             agg.replans = a.replans, SameEvidenceAs(agg, a),
             NEW action \in {"deny", "pay"}, NEW amount, CreateApproval(action, amount),
             action = "deny" <=> Deny(a),
             Return(Slot, agg, <<Commit(agg, "APPROVAL_REQUESTED")>>,
                    UnlessExhausted(agg, "w2_await")),
             UNCHANGED <<claim, events, checkpoint, world, sanctionsDown, bounds>>,
             PayKey \in toolCalls' => PayKey \in toolCalls
      PROVE  NodeEnds
  <2>1. Writes(agg, <<Commit(agg, "APPROVAL_REQUESTED")>>, "APPROVAL_REQUESTED")
    BY <1>2, OneWrite DEF EventType
  <2>2. LeavesProposal(Solo, agg, <<Commit(agg, "APPROVAL_REQUESTED")>>,
                       UnlessExhausted(agg, "w2_await"))
    BY <1>1, <1>2, <2>1 DEF LeavesProposal, UnlessExhausted
  <2>3. Leaves(Solo, Solo'.agg, Solo'.todo, Solo'.goto) /\ Solo'.pc = "commit"
          /\ Solo'.node = Solo.node /\ Solo'.value = Solo.value
    BY <1>2, <2>2, SoloReturns DEF Leaves
  <2>4. /\ approval' # approval =>
             /\ approval.status = "none" /\ approval'.status = "pending"
             /\ approval'.type = "deny" <=> Deny(a)
        /\ approval'.status # "none"
    BY <1>2 DEF CreateApproval
  <2> QED BY <1>1, <1>2, <2>3, <2>4 DEF NodeEnds, world, bounds
<1>3. CASE W2Deny(Slot)
  <2>1. PICK cost \in TokenCosts :
          LET agg == [tasks[Slot].agg EXCEPT !.state = "REVIEW_PENDING", !.tokens = @ + cost]
          IN  Return(Slot, agg, <<Commit(agg, "APPROVAL_REQUESTED")>>,
                     UnlessExhausted(agg, "w2_await"))
    BY <1>3 DEF W2Deny
  <2> DEFINE agg == [a EXCEPT !.state = "REVIEW_PENDING", !.tokens = @ + cost]
  <2>2. Return(Slot, agg, <<Commit(agg, "APPROVAL_REQUESTED")>>,
               UnlessExhausted(agg, "w2_await"))
    BY <1>0, <2>1
  <2>3. /\ agg \in Aggregate /\ agg.state = "REVIEW_PENDING" /\ agg.paid = a.paid
        /\ agg.replans = a.replans /\ SameEvidenceAs(agg, a)
    <3>1. cost \in Nat
      BY LifecycleAssumption
    <3>2. a.tokens + cost \in Nat
      BY <1>0, <3>1 DEF Aggregate
    <3> HIDE DEF a
    <3> QED BY <1>0, <3>2 DEF Aggregate, ClaimState, SameEvidenceAs
  <2> HIDE DEF agg
  <2> QED BY <1>0, <1>2, <1>3, <2>2, <2>3 DEF W2Deny
<1>4. CASE W2Pay(Slot)
  <2> DEFINE amount == a.investigation.amount_est
             agg    == [a EXCEPT !.state = "REVIEW_PENDING", !.reserve = amount]
  <2>1. Return(Slot, agg, <<Commit(agg, "APPROVAL_REQUESTED")>>,
               UnlessExhausted(agg, "w2_await"))
    BY <1>0, <1>4 DEF W2Pay
  <2>2. CreateApproval("pay", amount) /\ ~ Deny(a)
    BY <1>0, <1>4 DEF W2Pay
  <2>3. /\ agg \in Aggregate /\ agg.state = "REVIEW_PENDING" /\ agg.paid = a.paid
        /\ agg.replans = a.replans /\ SameEvidenceAs(agg, a)
    <3>1. amount \in Nat
      BY <1>0 DEF Aggregate, Investigation
    <3> HIDE DEF a, amount
    <3> QED BY <1>0, <3>1 DEF Aggregate, ClaimState, SameEvidenceAs
  <2>4. PayKey \in toolCalls' => PayKey \in toolCalls
    BY <1>4 DEF W2Pay, PayKey, ReserveKey
  <2> HIDE DEF agg, amount
  <2> QED BY <1>2, <1>4, <2>1, <2>2, <2>3, <2>4 DEF W2Pay
<1> QED BY <1>3, <1>4

LEMMA W2Ends ==
  ASSUME TypeOK, Alone, InStep, W2Rejected(Slot) \/ W2Denied(Slot) \/ W2Paid(Slot)
  PROVE  NodeEnds
<1> DEFINE a == Solo.agg
<1>0. /\ a \in Aggregate /\ tasks[Slot] = Solo /\ Slot \in Slots /\ Solo.pay \in Nat
      /\ Solo.value \in ResumeValue
  BY SoloTask DEF Solo
<1>1. CASE W2Rejected(Slot)
  <2> DEFINE agg == [a EXCEPT !.state = "ESCALATED"]
  <2>1. Return(Slot, agg, <<Commit(agg, "APPROVAL_RESOLVED")>>, AfterW2(agg)) /\ Elsewhere
    BY <1>0, <1>1 DEF W2Rejected
  <2>2. Solo.pc = "resolved" /\ Solo.node = "w2_await" /\ Solo.value.kind = "reject"
    BY <1>0, <1>1 DEF W2Rejected, InStep, ResolutionOf
  <2>3. agg \in Aggregate /\ agg.state = "ESCALATED" /\ agg.paid = a.paid /\ agg.replans = a.replans
    <3> HIDE DEF a
    <3> QED BY <1>0 DEF Aggregate, ClaimState
  <2> HIDE DEF agg
  <2>4. Writes(agg, <<Commit(agg, "APPROVAL_RESOLVED")>>, "APPROVAL_RESOLVED")
    BY <2>3, OneWrite DEF EventType
  <2>5. LeavesForGood(Solo, agg, <<Commit(agg, "APPROVAL_RESOLVED")>>, AfterW2(agg))
    BY <2>2, <2>3, <2>4 DEF LeavesForGood, AfterW2
  <2> QED BY <2>1, <2>2, <2>5, SoloEnds DEF Leaves
<1>2. CASE W2Denied(Slot)
  <2> DEFINE agg     == [a EXCEPT !.state = "DENIED"]
             commits == <<Commit(agg, "APPROVAL_RESOLVED"), Commit(agg, "DENIED")>>
  <2>1. Return(Slot, agg, commits, AfterW2(agg))
    BY <1>0, <1>2 DEF W2Denied
  <2>2. Solo.pc = "resolved" /\ Solo.node = "w2_await" /\ Solo.value.kind # "reject"
    BY <1>0, <1>2 DEF W2Denied, InStep, ResolutionOf
  <2>3. agg \in Aggregate /\ agg.state = "DENIED" /\ agg.paid = a.paid /\ agg.replans = a.replans
    <3> HIDE DEF a
    <3> QED BY <1>0 DEF Aggregate, ClaimState
  <2>4. Writes(agg, commits, "DENIED")
    <3> HIDE DEF agg
    <3> QED BY <2>3, TwoWrites DEF EventType
  <2> HIDE DEF agg, commits
  <2>5. LeavesForGood(Solo, agg, commits, AfterW2(agg))
    BY <2>2, <2>3, <2>4 DEF LeavesForGood, AfterW2
  <2>6. Leaves(Solo, Solo'.agg, Solo'.todo, Solo'.goto) /\ Solo'.agg.state = "DENIED"
    BY <2>1, <2>3, <2>5, SoloReturns DEF Leaves
  <2> QED BY <1>2, <2>1, <2>2, <2>6, SoloReturns DEF W2Denied, NodeEnds, durable, bounds
<1>3. CASE W2Paid(Slot)
  <2> DEFINE pay     == Solo.pay
             agg     == IF Solo.ok
                        THEN [a EXCEPT !.reserve = IF @ > pay THEN @ ELSE pay,
                                       !.paid = pay, !.state = "SETTLEMENT"]
                        ELSE Compensated(a)
             last    == IF Solo.ok THEN "SETTLED" ELSE "COMPENSATED"
             commits == <<Commit(agg, "APPROVAL_RESOLVED"), Commit(agg, last)>>
  <2>1. Solo.pc = "paid" /\ Solo.node = "w2_await"
    BY <1>0, <1>3 DEF W2Paid
  <2>2. Return(Slot, agg, commits, AfterW2(agg)) /\ Elsewhere
    BY <1>0, <1>3 DEF W2Paid
  <2>3. agg \in Aggregate
    <3>1. [a EXCEPT !.reserve = IF @ > pay THEN @ ELSE pay, !.paid = pay,
                    !.state = "SETTLEMENT"] \in Aggregate
      <4>1. (IF a.reserve > pay THEN a.reserve ELSE pay) \in Nat
        BY <1>0 DEF Aggregate
      <4>2. pay \in Nat
        BY <1>0
      <4> HIDE DEF a, pay
      <4> QED BY <1>0, <4>1, <4>2 DEF Aggregate, ClaimState
    <3> HIDE DEF a, pay
    <3> QED BY <1>0, <3>1, CompensatedType
  <2>4. /\ Solo.ok => agg.state = "SETTLEMENT" /\ agg.paid = pay
        /\ ~ Solo.ok => agg.state = "REVIEW_PENDING" /\ agg.paid = 0
        /\ agg.replans = a.replans
    <3> HIDE DEF a, pay
    <3> QED BY <1>0 DEF Aggregate, Compensated
  <2>5. Writes(agg, commits, last)
    <3>1. last \in EventType /\ last # "DOCUMENT_RECEIVED"
      BY DEF EventType
    <3> HIDE DEF agg, last
    <3> QED BY <2>3, <3>1, TwoWrites DEF EventType
  <2>6. /\ Solo.ok => last = "SETTLED"
        /\ ~ Solo.ok => last = "COMPENSATED"
    OBVIOUS
  <2> HIDE DEF agg, commits, last
  <2>7. CASE Solo.ok
    <3>1. LeavesPaid(Solo, agg, commits, AfterW2(agg))
      BY <2>1, <2>4, <2>5, <2>6, <2>7 DEF LeavesPaid, AfterW2
    <3> QED BY <2>1, <2>2, <3>1, SoloEnds DEF Leaves
  <2>8. CASE ~ Solo.ok
    <3>1. LeavesUnpaid(Solo, agg, commits, AfterW2(agg))
      BY <2>1, <2>4, <2>5, <2>6, <2>8 DEF LeavesUnpaid, AfterW2
    <3> QED BY <2>1, <2>2, <3>1, SoloEnds DEF Leaves
  <2> QED BY <2>7, <2>8
<1> QED BY <1>1, <1>2, <1>3

LEMMA HandOverEnds ==
  ASSUME TypeOK, Alone, Escalate(Slot) \/ W4Request(Slot) \/ W4Await(Slot)
  PROVE  NodeEnds
<1> DEFINE a == Solo.agg
<1>0. /\ a \in Aggregate /\ tasks[Slot] = Solo /\ Slot \in Slots
      /\ Solo.value \in ResumeValue
  BY SoloTask DEF Solo
<1>1. CASE Escalate(Slot)
  <2> DEFINE agg == [a EXCEPT !.state = "ESCALATED"]
  <2>1. Return(Slot, agg, <<Commit(agg, "ESCALATED")>>, "END") /\ Elsewhere
    BY <1>0, <1>1 DEF Escalate
  <2>2. Solo.pc = "run" /\ Solo.node \in {"w3_fraud", "w5_escalate"}
    BY <1>0, <1>1 DEF Escalate, At
  <2>3. agg \in Aggregate /\ agg.state = "ESCALATED" /\ agg.paid = a.paid /\ agg.replans = a.replans
    <3> HIDE DEF a
    <3> QED BY <1>0 DEF Aggregate, ClaimState
  <2> HIDE DEF agg
  <2>4. Writes(agg, <<Commit(agg, "ESCALATED")>>, "ESCALATED")
    BY <2>3, OneWrite DEF EventType
  <2>5. LeavesForGood(Solo, agg, <<Commit(agg, "ESCALATED")>>, "END")
    BY <2>2, <2>3, <2>4 DEF LeavesForGood
  <2> QED BY <2>1, <2>2, <2>5, SoloEnds DEF Leaves
<1>2. CASE W4Request(Slot)
  <2> DEFINE agg == [a EXCEPT !.state = "INFO_PENDING"]
  <2>1. Return(Slot, agg, <<Commit(agg, "PARKED")>>, "w4_await") /\ Elsewhere
    BY <1>0, <1>2 DEF W4Request
  <2>2. Solo.pc = "run" /\ Solo.node = "w4_request"
    BY <1>0, <1>2 DEF W4Request, At
  <2>3. agg \in Aggregate /\ agg.state = "INFO_PENDING" /\ agg.paid = a.paid /\ agg.replans = a.replans
    <3> HIDE DEF a
    <3> QED BY <1>0 DEF Aggregate, ClaimState
  <2> HIDE DEF agg
  <2>4. Writes(agg, <<Commit(agg, "PARKED")>>, "PARKED")
    BY <2>3, OneWrite DEF EventType
  <2>5. LeavesRequest(Solo, agg, <<Commit(agg, "PARKED")>>, "w4_await")
    BY <2>2, <2>3, <2>4 DEF LeavesRequest
  <2> QED BY <2>1, <2>2, <2>5, SoloEnds DEF Leaves
<1>3. CASE W4Await(Slot)
  <2> DEFINE replans == a.replans + 1
             agg     == IF LimitReached(replans)
                        THEN [a EXCEPT !.state = "ESCALATED", !.replans = replans]
                        ELSE [a EXCEPT
                                !.extraction = WithDocuments(@, Solo.value.fields),
                                !.replans = replans, !.state = "TRIAGE"]
             last    == IF LimitReached(replans) THEN "REPLAN_LIMIT" ELSE "DOCUMENT_RECEIVED"
  <2>1. Return(Slot, agg, <<Commit(agg, last)>>, AfterW4(agg)) /\ Elsewhere
    BY <1>0, <1>3 DEF W4Await
  <2>2. Solo.pc = "run" /\ Solo.node = "w4_await"
    BY <1>0, <1>3 DEF W4Await, At
  <2>3. replans \in Nat
    BY <1>0 DEF Aggregate
  <2>4. agg \in Aggregate
    <3>1. WithDocuments(a.extraction, Solo.value.fields) \in Extraction
      BY <1>0, WithDocumentsType DEF Aggregate, ResumeValue
    <3> HIDE DEF a, replans
    <3> QED BY <1>0, <2>3, <3>1 DEF Aggregate, ClaimState
  <2>5. /\ agg.replans = replans /\ agg.paid = a.paid
        /\ LimitReached(replans) => agg.state = "ESCALATED" /\ last = "REPLAN_LIMIT"
        /\ ~ LimitReached(replans) => agg.state = "TRIAGE" /\ last = "DOCUMENT_RECEIVED"
    <3> HIDE DEF a, replans
    <3> QED BY <1>0 DEF Aggregate
  <2>6. Writes(agg, <<Commit(agg, last)>>, last) /\ Len(<<Commit(agg, last)>>) = 1
    <3>1. last \in EventType
      BY DEF EventType
    <3> HIDE DEF agg, last
    <3> QED BY <2>4, <3>1, OneWrite
  <2>7. ~ LimitReached(replans) => replans <= MaxReplans
    <3> HIDE DEF replans
    <3> QED BY <2>3, LifecycleAssumption DEF LimitReached
  <2> HIDE DEF agg, last
  <2>8. LeavesWait(Solo, agg, <<Commit(agg, last)>>, AfterW4(agg))
    BY <2>2, <2>5, <2>6, <2>7 DEF LeavesWait, AfterW4
  <2> QED BY <2>1, <2>2, <2>8, SoloEnds DEF Leaves
<1> QED BY <1>1, <1>2, <1>3

LEMMA PayingFlat ==
  ASSUME TypeOK, Alone, InStep, Paying(Slot)
  PROVE  Raises \/ Answers \/ Looks \/ Disburses \/ Records
<1>0. /\ Solo.agg \in Aggregate /\ tasks[Slot] = Solo /\ Slot \in Slots /\ Solo.pay \in Nat
      /\ checkpoint \in Checkpoint
  BY SoloTask DEF Solo, TypeOK
<1>1. CASE PayRefused(Slot)
  BY <1>0, <1>1, SoloGoes
     DEF PayRefused, Answers, HistoryStays, Elsewhere, durable, world, bounds
<1>2. CASE PayInvalid(Slot)
  <2>1. Goes("raised") /\ Solo.pc = "lookup"
    BY <1>0, <1>2, SoloGoes DEF PayInvalid
  <2>2. KeepsValue
    BY <1>0, <1>2 DEF PayInvalid, KeepsValue, Checkpoint, Awaits
  <2> QED BY <1>2, <2>1, <2>2 DEF PayInvalid, Raises, HistoryStays, world, bounds
<1>3. CASE PayLookup(Slot)
  <2>1. CASE AlreadyPaid
    BY <1>0, <1>3, <2>1, SoloGoes
       DEF PayLookup, Answers, AlreadyPaid, HistoryStays, Elsewhere, durable, world, bounds
  <2>2. CASE ~ AlreadyPaid
    <3>1. Goes("rail") /\ Solo'.pay = Solo.pay
      BY <1>3, <2>2, SoloGoes DEF PayLookup
    <3> QED BY <1>0, <1>3, <2>2, <3>1
               DEF PayLookup, Looks, AlreadyPaid, HistoryStays, Elsewhere, durable, world,
                   bounds
  <2> QED BY <2>1, <2>2
<1>4. CASE PayRail(Slot)
  <2> DEFINE d == [amount         |-> Solo.pay,
                   workflow       |-> Solo.agg.workflow,
                   extraction     |-> Solo.agg.extraction,
                   classification |-> Solo.agg.classification,
                   investigation  |-> Solo.agg.investigation]
  <2>1. Goes("record") /\ Solo'.pay = Solo.pay
    BY <1>4, SoloGoes DEF PayRail
  <2>2. /\ d \in Disbursement /\ d.amount = Solo.pay /\ d.workflow = Solo.agg.workflow
        /\ EvidenceOf(d) = RouterInputOf(Solo.agg)
        /\ d.investigation = Solo.agg.investigation
    BY <1>0 DEF Disbursement, Aggregate, EvidenceOf, RouterInputOf
  <2>3. rail' = Append(rail, d)
    BY <1>0, <1>4 DEF PayRail
  <2> HIDE DEF d
  <2> QED BY <1>0, <1>4, <2>1, <2>2, <2>3 DEF PayRail, Disburses, HistoryStays, durable, bounds
<1>5. CASE PayRecord(Slot)
  BY <1>0, <1>5, SoloGoes DEF PayRecord, Records, HistoryStays, world, bounds
<1> QED BY <1>1, <1>2, <1>3, <1>4, <1>5 DEF Paying

LEMMA InsideFlat ==
  ASSUME TypeOK, Alone, InStep, W1Execute(Slot) \/ W2Resolve(Slot) \/ W2Approved(Slot)
  PROVE  Executes \/ Decides \/ Approves
<1>0. /\ Solo.agg \in Aggregate /\ tasks[Slot] = Solo /\ Slot \in Slots
      /\ approval \in Approval /\ Solo.value \in ResumeValue
  BY SoloTask DEF Solo, TypeOK
<1>1. CASE W1Execute(Slot)
  <2> DEFINE e == Commit([Solo.agg EXCEPT !.state = "EXECUTING"], "EXECUTING")
  <2>1. [Solo.agg EXCEPT !.state = "EXECUTING"] \in Aggregate
          /\ [Solo.agg EXCEPT !.state = "EXECUTING"].state = "EXECUTING"
    BY <1>0 DEF Aggregate, ClaimState
  <2>2. e \in Transition /\ e.row.state = "EXECUTING" /\ e.event.type = "EXECUTING"
    BY <2>1, CommitType DEF Commit, RowOf, EventType
  <2>3. claim' = e.row /\ events' = Append(events, e.event)
    BY <1>0, <1>1 DEF W1Execute
  <2> HIDE DEF e
  <2>4. e.event \in Event
    BY <2>2 DEF Transition
  <2>5. Goes("lookup") /\ Solo.pc = "run" /\ Solo.node = "w1_execute"
    BY <1>0, <1>1, SoloGoes DEF W1Execute, At
  <2>6. PayKey \in toolCalls' => PayKey \in toolCalls
    BY <1>1 DEF W1Execute, PayKey, ReserveKey
  <2> QED BY <1>1, <2>2, <2>3, <2>4, <2>5, <2>6
             DEF W1Execute, Executes, HistoryStays, world, bounds
<1>2. CASE W2Resolve(Slot)
  <2>1. Goes("resolved") /\ Solo.pc = "run" /\ Solo.node = "w2_await"
    BY <1>0, <1>2, SoloGoes DEF W2Resolve, At
  <2>2. /\ approval'.status = ResolutionOf(Solo.value) /\ approval'.type = approval.type
        /\ approval'.amount = approval.amount
    BY <1>0, <1>2 DEF W2Resolve, Approval
  <2> QED BY <1>2, <2>1, <2>2 DEF W2Resolve, Decides, HistoryStays, world, bounds
<1>3. CASE W2Approved(Slot)
  <2>1. Goes("lookup") /\ Solo'.pay = AmountToPay(Solo.value)
    BY <1>0, <1>3, SoloGoes DEF W2Approved
  <2>2. Solo.value.kind # "reject"
    BY <1>0, <1>3 DEF W2Approved, ResolutionOf
  <2> QED BY <1>0, <1>3, <2>1, <2>2
             DEF W2Approved, Approves, HistoryStays, Elsewhere, durable, world, bounds
<1> QED BY <1>1, <1>2, <1>3

LEMMA StartsFlat ==
  ASSUME TypeOK, Alone, StartRun(Slot) \/ StartResume(Slot)
  PROVE  Begins \/ Resumes \/ HasNothingToRun
<1>0. tasks[Slot] = Solo /\ Slot \in Slots
  BY SoloTask DEF Solo
<1>1. CASE StartRun(Slot)
  <2>1. Solo' = [Running("extract", NewAggregate, NoResume) EXCEPT !.fresh = TRUE]
    BY <1>1, SoloBecomes DEF StartRun
  <2>2. Solo'.pc = "run" /\ Solo'.node = "extract" /\ Solo'.agg = NewAggregate
          /\ Solo'.value = NoResume
    BY <2>1 DEF Running, IdleTask
  <2> QED BY <1>0, <1>1, <2>2 DEF StartRun, Begins, HistoryStays, world, bounds
<1>2. CASE StartResume(Slot)
  <2>1. CASE NothingToRun /\ Becomes(Slot, IdleTask)
    <3>1. Solo' = IdleTask
      BY <2>1, SoloBecomes
    <3> QED BY <1>0, <1>2, <3>1
               DEF StartResume, HasNothingToRun, HistoryStays, Elsewhere, durable, world,
                   bounds
  <2>2. ASSUME checkpoint.next \in Node,
               NEW value \in {tasks[Slot].value, checkpoint.resume} \ {NoResume},
               Becomes(Slot, Running(checkpoint.next, checkpoint.agg, value))
        PROVE  Resumes
    <3>1. Solo' = Running(checkpoint.next, checkpoint.agg, value)
      BY <2>2, SoloBecomes
    <3>2. /\ Solo'.pc = "run" /\ Solo'.node = checkpoint.next
          /\ Solo'.agg = checkpoint.agg /\ Solo'.value = value
      BY <3>1 DEF Running, IdleTask
    <3> QED BY <1>0, <1>2, <2>2, <3>2
               DEF StartResume, Resumes, HistoryStays, Elsewhere, durable, world, bounds
  <2> QED BY <1>2, <2>1, <2>2 DEF StartResume
<1> QED BY <1>1, <1>2

LEMMA LeavingFlat ==
  ASSUME TypeOK, Alone, Leaving(Slot)
  PROVE  Commits \/ Finishes \/ GivesUp
<1>0. /\ Solo \in Task /\ Solo.agg \in Aggregate /\ tasks[Slot] = Solo /\ Slot \in Slots
      /\ checkpoint.agg \in Aggregate
  BY SoloTask DEF Solo, TypeOK, Checkpoint
<1>1. CASE CommitNext(Slot)
  <2>1. Solo' = [Solo EXCEPT !.todo = Tail(Solo.todo)]
    BY <1>0, <1>1, SoloBecomes DEF CommitNext
  <2>2. Solo.pc = "commit" /\ Solo.todo # <<>>
    BY <1>0, <1>1 DEF CommitNext
  <2>3. Goes("commit") /\ Solo'.goto = Solo.goto /\ Solo'.todo = Tail(Solo.todo)
    BY <1>0, <2>1, <2>2 DEF Goes, Task
  <2> QED BY <1>0, <1>1, <2>2, <2>3 DEF CommitNext, Commits, HistoryStays, world, bounds
<1>2. CASE Finish(Slot)
  <2>1. Solo.goto \in Awaits \cup {"END"} => Solo' = IdleTask
    BY <1>0, <1>2, SoloBecomes DEF Finish
  <2>2. ASSUME Solo.goto \notin Awaits \cup {"END"}
        PROVE  Solo'.pc = "run" /\ Solo'.node = Solo.goto /\ Solo'.agg = Solo.agg
                 /\ Solo'.value = NoResume
    <3>1. Solo' = [Running(Solo.goto, Solo.agg, NoResume) EXCEPT !.fresh = Solo.fresh]
      BY <1>0, <1>2, <2>2, SoloBecomes DEF Finish
    <3> QED BY <3>1 DEF Running, IdleTask
  <2> QED BY <1>0, <1>2, <2>1, <2>2 DEF Finish, Finishes, HistoryStays, world, bounds
<1>3. CASE RecordEscalation(Slot)
  <2> DEFINE base == IF Solo.fresh THEN NewAggregate ELSE checkpoint.agg
             e    == Commit([base EXCEPT !.state = "ESCALATED"], "ESCALATED")
  <2>1. base \in Aggregate /\ base.paid \in {0, checkpoint.agg.paid}
    BY <1>0, NewAggregateType DEF NewAggregate
  <2>2. /\ [base EXCEPT !.state = "ESCALATED"] \in Aggregate
        /\ [base EXCEPT !.state = "ESCALATED"].state = "ESCALATED"
        /\ [base EXCEPT !.state = "ESCALATED"].paid = base.paid
    <3> HIDE DEF base
    <3> QED BY <2>1 DEF Aggregate, ClaimState
  <2>3. /\ e.event \in Event /\ e.row.state = "ESCALATED" /\ e.row.paid = base.paid
        /\ e.event.type = "ESCALATED"
    <3> HIDE DEF base
    <3>1. e \in Transition
      BY <2>2, CommitType DEF EventType
    <3> QED BY <2>2, <3>1 DEF Commit, RowOf, Transition
  <2>4. claim' = e.row /\ events' = Append(events, e.event)
    BY <1>0, <1>3 DEF RecordEscalation
  <2>5. Solo' = IdleTask
    BY <1>3, SoloBecomes DEF RecordEscalation
  <2> HIDE DEF e, base
  <2> QED BY <1>0, <1>3, <2>1, <2>3, <2>4, <2>5
             DEF RecordEscalation, Escalating, GivesUp, HistoryStays, world, bounds
<1> QED BY <1>1, <1>2, <1>3 DEF Leaving

LEMMA CallFlat ==
  ASSUME TypeOK, Alone, Call(Slot)
  PROVE  Injected \/ Called
<1>0. tasks[Slot] = Solo /\ Slot \in Slots
  BY SoloTask DEF Solo
<1>1. CASE Inject(Slot)
  <2> DEFINE e == Commit(NewAggregate, "RECEIVED")
  <2>1. e \in Transition /\ e.row.state = "RECEIVED" /\ e.row.paid = 0 /\ e.event.type = "RECEIVED"
    BY NewAggregateType, CommitType DEF EventType, Commit, RowOf, NewAggregate
  <2>2. claim' = e.row /\ events' = Append(events, e.event)
    BY <1>1 DEF Inject
  <2> HIDE DEF e
  <2>3. Solo' = [IdleTask EXCEPT !.pc = "start", !.fresh = TRUE]
    BY <1>1, SoloBecomes DEF Inject
  <2>4. Solo'.pc = "start" /\ Solo'.fresh /\ Solo'.value = NoResume
    BY <2>3 DEF IdleTask
  <2>5. e.event \in Event
    BY <2>1 DEF Transition
  <2> QED BY <1>0, <1>1, <2>1, <2>2, <2>4, <2>5
             DEF Inject, Idle, Injected, HistoryStays, world, bounds
<1>2. ASSUME NEW value, Resume(Slot, value)
      PROVE  /\ Solo.pc = "idle" /\ Solo'.pc = "start" /\ ~ Solo'.fresh
             /\ Solo'.value = value
             /\ UNCHANGED <<durable, world, crashes>>
  <2>1. Solo' = [IdleTask EXCEPT !.pc = "start", !.value = value]
    BY <1>2, SoloBecomes DEF Resume
  <2> QED BY <1>0, <1>2, <2>1 DEF Resume, Idle, IdleTask
<1>3. CASE Resolve(Slot)
  <2>1. PICK value \in {ResolveAs("approve", 0), ResolveAs("reject", 0)}
                         \cup {ResolveAs("modify", n) :
                                    n \in ModifiedAmounts \cup {approval.amount}} :
          Resume(Slot, value) /\ decisions' = decisions \cup {value}
    BY <1>3 DEF Resolve
  <2>2. value \in {ResolveAs("approve", 0), ResolveAs("reject", 0)}
                    \cup {ResolveAs("modify", n) : n \in Nat}
    <3>1. approval.amount \in Nat
      BY DEF TypeOK, Approval
    <3> QED BY <2>1, <3>1, LifecycleAssumption
  <2> QED BY <1>2, <1>3, <2>1, <2>2 DEF Resolve, Offering, Called
<1>4. CASE SubmitDocuments(Slot)
  <2>1. PICK fields \in Uploads : Resume(Slot, DocumentsOf(fields))
    BY <1>4 DEF SubmitDocuments
  <2>2. DocumentsOf(fields).kind = "documents"
    BY DEF DocumentsOf
  <2> QED BY <1>2, <1>4, <2>1, <2>2 DEF SubmitDocuments, Offering, Called
<1> QED BY <1>1, <1>3, <1>4 DEF Call

LEMMA DeathFlat ==
  ASSUME TypeOK, Alone, TaskDies(Slot) \/ Crash
  PROVE  Dies
<1>0. tasks[Slot] = Solo /\ Slot \in Slots /\ checkpoint \in Checkpoint
  BY SoloTask DEF Solo, TypeOK
<1>1. CASE TaskDies(Slot)
  <2>1. Solo' = IdleTask
    BY <1>1, SoloBecomes DEF TaskDies
  <2>2. KeepsValue
    BY <1>0, <1>1 DEF TaskDies, Idle, KeepsValue, Checkpoint
  <2> QED BY <1>1, <2>1, <2>2 DEF TaskDies, Dies, world
<1>2. CASE Crash
  <2>1. Solo' = IdleTask
    BY <1>0, <1>2 DEF Crash, Solo
  <2> QED BY <1>2, <2>1 DEF Crash, Dies, KeepsValue, durable, world
<1> QED BY <1>1, <1>2

LEMMA OneOf ==
  ASSUME TypeOK, ProjectionInv, Alone, InStep, [Next]_vars
  PROVE  SoloStep
<1>1. CASE Step(Slot)
  BY <1>1, StartsFlat, TriagingEnds, W1Ends, ProposalEnds, W2Ends, HandOverEnds, InsideFlat,
     PayingFlat, LeavingFlat
     DEF Step, Executing, SoloStep
<1>2. CASE Call(Slot) \/ TaskDies(Slot) \/ Crash
  BY <1>2, CallFlat, DeathFlat DEF SoloStep
<1>3. CASE UNCHANGED vars
  BY <1>3 DEF vars, bounds, SoloStep, Rests, HistoryStays, Solo, durable, world
<1>4. \A t \in Slots : t = Slot
  BY DEF Alone
<1> QED BY <1>1, <1>2, <1>3, <1>4 DEF Next

-----------------------------------------------------------------------------
(* The shape of a lone thread is kept by every step.                       *)

LEMMA IdleFields ==
  /\ IdleTask.pc = "idle" /\ IdleTask.fresh = FALSE /\ IdleTask.value = NoResume
  /\ IdleTask.todo = <<>>
BY DEF IdleTask

LEMMA Todo ==
  ASSUME TypeOK, Alone, Solo.todo # <<>>
  PROVE  LET todo == Solo.todo
         IN  /\ Len(todo) \in Nat \ {0} /\ DOMAIN todo = 1..Len(todo)
             /\ 1 \in DOMAIN todo /\ Head(todo) = todo[1] /\ Head(todo) \in Transition
             /\ Tail(todo) \in Seq(Transition) /\ Len(Tail(todo)) = Len(todo) - 1
             /\ \A i \in DOMAIN Tail(todo) : i + 1 \in DOMAIN todo /\ Tail(todo)[i] = todo[i + 1]
             /\ Tail(todo) = <<>> <=> Len(todo) = 1
<1>1. Solo.todo \in Seq(Transition)
  BY SoloTask
<1> DEFINE todo == Solo.todo
<1> HIDE DEF todo
<1>2. todo \in Seq(Transition) /\ todo # <<>>
  BY <1>1 DEF todo
<1>3. /\ Len(todo) \in Nat \ {0} /\ DOMAIN todo = 1..Len(todo)
      /\ 1 \in DOMAIN todo /\ Head(todo) = todo[1] /\ Head(todo) \in Transition
  BY <1>2
<1>4. /\ Tail(todo) \in Seq(Transition) /\ Len(Tail(todo)) = Len(todo) - 1
      /\ \A i \in DOMAIN Tail(todo) : i + 1 \in DOMAIN todo /\ Tail(todo)[i] = todo[i + 1]
  BY <1>2
<1>5. Tail(todo) = <<>> <=> Len(todo) = 1
  <2>1. Tail(todo) = <<>> <=> Len(Tail(todo)) = 0
    <3> HIDE DEF todo
    <3> QED BY <1>4, EmptySeq
  <2> QED BY <1>3, <1>4, <2>1
<1> QED BY <1>3, <1>4, <1>5 DEF todo

LEMMA Written ==
  ASSUME NEW agg, NEW commits, NEW last, Writes(agg, commits, last)
  PROVE  commits # <<>> /\ \A i \in DOMAIN commits : commits[i].row = RowOf(agg)
<1>1. commits \in Seq(Transition) /\ Len(commits) \in 1..2
  BY DEF Writes
<1>2. commits # <<>>
  BY <1>1, EmptySeq
<1> QED BY <1>2 DEF Writes

LEMMA StepInStep ==
  ASSUME TypeOK, Alone, InStep, SoloStep
  PROVE  InStep'
<1>1. CASE NodeEnds
  BY <1>1 DEF NodeEnds, InStep, Stopped, Leaves, LeavesTriage, LeavesRoute, LeavesPaid,
              LeavesUnpaid, LeavesProposal, LeavesForGood, LeavesSettle, LeavesRequest,
              LeavesWait, Node
<1>2. CASE HasNothingToRun \/ GivesUp \/ Dies
  BY <1>2, IdleFields DEF HasNothingToRun, GivesUp, Dies, InStep, Stopped
<1>3. CASE Begins \/ Resumes \/ Injected \/ Called
  BY <1>3 DEF Begins, Resumes, Injected, Called, InStep, Stopped, Node, durable
<1>4. CASE Raises \/ Executes \/ Decides \/ Approves \/ Answers \/ Looks \/ Disburses \/ Records
  BY <1>4 DEF Raises, KeepsValue, Executes, Decides, Approves, Answers, Looks, Disburses,
              Records, Goes, InStep, Stopped, durable
<1>5. CASE Commits \/ Rests
  BY <1>5 DEF Commits, Rests, Goes, InStep, Stopped, durable
<1>6. CASE Finishes
  BY <1>6, IdleFields DEF Finishes, InStep, Stopped
<1> QED BY <1>1, <1>2, <1>3, <1>4, <1>5, <1>6 DEF SoloStep

LEMMA RowState ==
  ASSUME NEW agg \in Aggregate
  PROVE  /\ RowOf(agg).state = agg.state /\ RowOf(agg).paid = agg.paid
         /\ RowOf(agg) # NoRow
BY DEF RowOf, NoRow, Aggregate, ClaimState

LEMMA StepUntouched ==
  ASSUME TypeOK, Alone, InStep, Untouched, Posting, SoloStep
  PROVE  Untouched'
<1>0. Solo.agg \in Aggregate
  BY SoloTask
<1>1. CASE NodeEnds
  BY <1>1 DEF NodeEnds, Untouched, Leaves, LeavesTriage, LeavesRoute, LeavesPaid,
              LeavesUnpaid, LeavesProposal, LeavesForGood, LeavesSettle, LeavesRequest,
              LeavesWait
<1>2. CASE HasNothingToRun \/ Dies
  BY <1>2, IdleFields DEF HasNothingToRun, Dies, KeepsValue, Untouched, durable, world,
              NoCheckpoint, Awaits
<1>3. CASE GivesUp
  BY <1>3, IdleFields DEF GivesUp, Untouched, NoRow
<1>4. CASE Begins \/ Resumes \/ Raises \/ Decides \/ Approves \/ Answers \/ Looks \/ Disburses \/ Records
  BY <1>4 DEF Begins, Resumes, Raises, Decides, Approves, Answers, Looks, Disburses,
              Records, Goes, Untouched, durable, world
<1>5. CASE Executes
  BY <1>5 DEF Executes, Goes, Untouched, NoRow
<1>6. CASE Commits
  <2>1. Head(Solo.todo).row = RowOf(Solo.agg)
    BY <1>6, Todo DEF Commits, Posting
  <2> QED BY <1>0, <1>6, <2>1, RowState DEF Commits, Goes, Untouched
<1>7. CASE Finishes
  BY <1>7, IdleFields DEF Finishes, Untouched, world
<1>8. CASE Injected
  <2>1. PICK event \in Event : event.type = "RECEIVED" /\ events' = Append(events, event)
    BY <1>8 DEF Injected
  <2>2. \A i \in DOMAIN events : events[i].type = "RECEIVED"
    BY <1>8 DEF Injected, Untouched
  <2>3. \A i \in DOMAIN events' : events'[i].type = "RECEIVED"
    BY <2>1, <2>2 DEF TypeOK
  <2> QED BY <1>8, <2>3 DEF Injected, Untouched, world, NoRow
<1>9. CASE Called
  BY <1>9 DEF Called, Untouched, durable, world, NoApproval
<1>10. CASE Rests
  BY <1>10 DEF Rests, Untouched, durable, world
<1> QED BY <1>1, <1>2, <1>3, <1>4, <1>5, <1>6, <1>7, <1>8, <1>9, <1>10 DEF SoloStep

LEMMA StepPosting ==
  ASSUME TypeOK, Alone, InStep, Posting, SoloStep
  PROVE  Posting'
<1>1. CASE NodeEnds
  <2>1. /\ Solo'.todo = <<>> => Solo'.goto = "settle"
        /\ \A i \in DOMAIN Solo'.todo : Solo'.todo[i].row = RowOf(Solo'.agg)
    BY <1>1, Written DEF NodeEnds, Leaves, LeavesTriage, LeavesRoute, LeavesPaid,
                         LeavesUnpaid, LeavesProposal, LeavesForGood, LeavesSettle,
                         LeavesRequest, LeavesWait
  <2> QED BY <2>1 DEF Posting, RowOf
<1>2. CASE HasNothingToRun \/ GivesUp \/ Dies
  BY <1>2, IdleFields DEF HasNothingToRun, GivesUp, Dies, Posting
<1>3. CASE Begins \/ Resumes \/ Injected \/ Called \/ Raises \/ Executes \/ Decides \/ Approves
             \/ Answers \/ Looks \/ Disburses \/ Records
  BY <1>3 DEF Begins, Resumes, Injected, Called, Raises, Executes, Decides, Approves, Answers,
              Looks, Disburses, Records, Goes, Posting
<1>4. CASE Commits
  <2>1. Solo.todo # <<>>
    BY <1>4 DEF Commits
  <2>2. \A i \in DOMAIN Solo'.todo : Solo'.todo[i].row = RowOf(Solo'.agg)
    BY <1>4, <2>1, Todo DEF Commits, Goes, Posting
  <2>3. claim' = RowOf(Solo'.agg)
    BY <1>4, <2>1, Todo DEF Commits, Goes, Posting
  <2> QED BY <2>2, <2>3 DEF Posting, RowOf
<1>5. CASE Finishes
  BY <1>5, IdleFields DEF Finishes, Posting
<1>6. CASE Rests
  BY <1>6 DEF Rests, Posting, RowOf, durable
<1> QED BY <1>1, <1>2, <1>3, <1>4, <1>5, <1>6 DEF SoloStep

LEMMA InitThread ==
  ASSUME Init, Alone
  PROVE  ThreadInv
<1>1. Solo = IdleTask
  BY DEF Init, Alone, Solo
<1> QED BY <1>1, IdleFields DEF Init, ThreadInv, InStep, Stopped, Untouched, Posting

(* A lone thread is in step with its checkpoint, at every step and after   *)
(* every crash.                                                            *)
LEMMA ThreadAlways ==
  ASSUME Alone
  PROVE  Spec => [](TypeOK /\ ProjectionInv /\ ThreadInv)
<1>1. Init => ThreadInv
  BY InitThread
<1>2. TypeOK /\ ProjectionInv /\ ThreadInv /\ [Next]_vars => ThreadInv'
  BY OneOf, StepInStep, StepUntouched, StepPosting DEF ThreadInv
<1> QED BY <1>1, <1>2, TypeCorrect, ProjectionAlways, PTL DEF Spec

-----------------------------------------------------------------------------
(* A task that is about to pay has found no record of a payment, and while *)
(* it is alone nobody else makes one.                                      *)
FreshKey == Solo.pc = "rail" => PayKey \notin toolCalls

LEMMA StepFreshKey ==
  ASSUME FreshKey, SoloStep
  PROVE  FreshKey' /\ (rail' # rail => PayKey \notin toolCalls)
<1>1. CASE HasNothingToRun \/ GivesUp \/ Dies \/ Finishes
  BY <1>1, IdleFields DEF HasNothingToRun, GivesUp, Dies, Finishes, FreshKey, world
<1>2. CASE Rests
  BY <1>2 DEF Rests, FreshKey, durable, world
<1>3. CASE Looks \/ Disburses
  BY <1>3 DEF Looks, Disburses, Goes, FreshKey, durable, world
<1>4. CASE NodeEnds \/ Begins \/ Resumes \/ Raises \/ Executes \/ Decides \/ Approves \/ Answers
             \/ Records \/ Commits \/ Injected \/ Called
  BY <1>4 DEF NodeEnds, Begins, Resumes, Raises, Executes, Decides, Approves, Answers, Records,
              Commits, Injected, Called, Goes, FreshKey, world
<1> QED BY <1>1, <1>2, <1>3, <1>4 DEF SoloStep

(* Once the payment call is recorded nothing reaches the rail again,       *)
(* whatever is retried, resolved again or cut off (the idempotency key of  *)
(* payment_execute).                                                       *)
THEOREM PaidOnce ==
  ASSUME Alone
  PROVE  Spec => RecordedPaymentIsFinal
<1>1. Init => FreshKey
  BY DEF Init, FreshKey
<1>2. TypeOK /\ ProjectionInv /\ ThreadInv /\ FreshKey /\ [Next]_vars =>
        FreshKey' /\ (rail' # rail => PayKey \notin toolCalls)
  BY OneOf, StepFreshKey DEF ThreadInv
<1>3. TypeOK /\ ProjectionInv /\ ThreadInv /\ FreshKey /\ [Next]_vars =>
        [rail' # rail => PayKey \notin toolCalls]_vars
  BY <1>2
<1> QED BY <1>1, <1>2, <1>3, ThreadAlways, PTL DEF Spec, RecordedPaymentIsFinal

-----------------------------------------------------------------------------
(* What is paid was not to be denied.  The approval row is written once    *)
(* and outlives its proposal, so the invariant says that a thread between  *)
(* the proposal and its end still has the evidence the row was made for.   *)

AfterProposal == {"w2_await", "close", "END"}

Proposed(node, agg) ==
  approval.status # "none" =>
    /\ node \in AfterProposal \cup {"w2_propose"}
    /\ node \in {"w2_propose", "w2_await"} => (approval.type = "deny" <=> Deny(agg))

DenialInv ==
  /\ RoutedTo(checkpoint.next, checkpoint.agg)
  /\ Proposed(checkpoint.next, checkpoint.agg)
  /\ Solo.pc = "commit" =>
       /\ RoutedTo(Solo.goto, Solo.agg)
       /\ Solo.goto = "w2_await" =>
            Solo.node = "w2_propose" /\ (Deny(Solo.agg) <=> Deny(checkpoint.agg))
       /\ Solo.node \in AfterProposal \cup {"w2_propose"} =>
            Solo.goto \in AfterProposal \cup {"RAISE"}
  /\ Solo.pc \in {"lookup", "rail"} => Admits(Solo.agg)
  /\ DeniedClaimsAreNotPaid

LEMMA DenyAdmitsSame ==
  ASSUME NEW agg, NEW old, SameEvidenceAs(agg, old)
  PROVE  (Deny(agg) <=> Deny(old)) /\ (Admits(agg) <=> Admits(old))
BY DEF SameEvidenceAs, Deny, Admits, RouterInputOf

LEMMA DenialNodeEnds ==
  ASSUME TypeOK, Alone, InStep, Untouched, ApprovalBeforeAwait, DenialInv, NodeEnds
  PROVE  DenialInv'
<1>1. UNCHANGED <<checkpoint, rail>> /\ Solo'.pc = "commit" /\ Solo'.node = Solo.node
  BY DEF NodeEnds
<1>2. Solo.agg = checkpoint.agg /\ Solo.node = checkpoint.next
  BY DEF NodeEnds, InStep, Stopped, Leaves, LeavesTriage, LeavesRoute, LeavesPaid,
         LeavesUnpaid, LeavesProposal, LeavesForGood, LeavesSettle, LeavesRequest, LeavesWait
<1>3. RoutedTo(Solo'.goto, Solo'.agg)
  <2>1. CASE LeavesRoute(Solo, Solo'.agg, Solo'.todo, Solo'.goto)
    BY <2>1 DEF LeavesRoute
  <2>2. CASE LeavesProposal(Solo, Solo'.agg, Solo'.todo, Solo'.goto)
    <3>1. RoutedTo("w2_propose", Solo.agg)
      BY <1>2, <2>2 DEF LeavesProposal, DenialInv
    <3> QED BY <2>2, <3>1, DenyAdmitsSame DEF LeavesProposal, RoutedTo, SameEvidenceAs
  <2>3. CASE Solo'.goto \notin {"w1_execute", "w2_propose", "w2_await"}
    BY <2>3 DEF RoutedTo
  <2> QED BY <2>1, <2>2, <2>3
             DEF NodeEnds, Leaves, LeavesTriage, LeavesPaid, LeavesUnpaid, LeavesForGood,
                 LeavesSettle, LeavesRequest, LeavesWait
<1>4. /\ Solo'.goto = "w2_await" =>
           Solo.node = "w2_propose" /\ (Deny(Solo'.agg) <=> Deny(checkpoint.agg))
      /\ Solo.node \in AfterProposal \cup {"w2_propose"} =>
           Solo'.goto \in AfterProposal \cup {"RAISE"}
  <2>1. CASE LeavesProposal(Solo, Solo'.agg, Solo'.todo, Solo'.goto)
    BY <1>2, <2>1, DenyAdmitsSame DEF LeavesProposal, AfterProposal
  <2>2. CASE ~ LeavesProposal(Solo, Solo'.agg, Solo'.todo, Solo'.goto)
    BY <2>2 DEF NodeEnds, Leaves, LeavesTriage, LeavesRoute, LeavesPaid, LeavesUnpaid,
                LeavesForGood, LeavesSettle, LeavesRequest, LeavesWait, AfterProposal
  <2> QED BY <2>1, <2>2
<1>5. Proposed(checkpoint.next, checkpoint.agg)'
  BY <1>1, <1>2 DEF NodeEnds, DenialInv, Proposed, AfterProposal, Deny
<1>6. RoutedTo(checkpoint.next, checkpoint.agg)' /\ DeniedClaimsAreNotPaid'
  BY <1>1 DEF DenialInv, RoutedTo, Admits, Deny, RouterInputOf, DeniedClaimsAreNotPaid, EvidenceOf
<1> QED BY <1>1, <1>3, <1>4, <1>5, <1>6 DEF DenialInv, RoutedTo, Admits, Deny, RouterInputOf

LEMMA DenialFinishes ==
  ASSUME TypeOK, Alone, InStep, DenialInv, Finishes
  PROVE  DenialInv'
<1>1. /\ UNCHANGED <<approval, rail>>
      /\ checkpoint'.next = Solo.goto /\ checkpoint'.agg = Solo.agg
      /\ Solo'.pc \notin {"commit", "lookup", "rail"}
  BY IdleFields DEF Finishes, world
<1>2. /\ RoutedTo(Solo.goto, Solo.agg) /\ Solo.goto # "RAISE"
      /\ Solo.goto = "w2_await" => Solo.node = "w2_propose" /\ (Deny(Solo.agg) <=> Deny(checkpoint.agg))
      /\ Solo.node \in AfterProposal \cup {"w2_propose"} => Solo.goto \in AfterProposal
      /\ Solo.node = checkpoint.next
  BY DEF Finishes, DenialInv, InStep, Stopped
<1>3. RoutedTo(checkpoint'.next, checkpoint'.agg)
  BY <1>1, <1>2
<1>4. Proposed(checkpoint'.next, checkpoint'.agg)
  BY <1>1, <1>2 DEF DenialInv, Proposed, AfterProposal
<1>5. Proposed(checkpoint.next, checkpoint.agg)'
  BY <1>1, <1>4 DEF Proposed, Deny
<1>6. RoutedTo(checkpoint.next, checkpoint.agg)'
  BY <1>3 DEF RoutedTo, Admits, Deny, RouterInputOf
<1>7. DeniedClaimsAreNotPaid'
  BY <1>1 DEF DenialInv, DeniedClaimsAreNotPaid, EvidenceOf
<1> QED BY <1>1, <1>5, <1>6, <1>7 DEF DenialInv

LEMMA DenialDisburses ==
  ASSUME TypeOK, DenialInv, Disburses
  PROVE  DenialInv'
<1>1. PICK d \in Disbursement :
        /\ rail' = Append(rail, d)
        /\ EvidenceOf(d) = RouterInputOf(Solo.agg)
        /\ d.investigation = Solo.agg.investigation
  BY DEF Disburses
<1>2. ~ FastDeny(EvidenceOf(d), Config) /\ d.investigation.coverage.covered # "no"
  BY <1>1 DEF Disburses, DenialInv, Admits
<1>3. \A i \in DOMAIN rail :
        ~ FastDeny(EvidenceOf(rail[i]), Config) /\ rail[i].investigation.coverage.covered # "no"
  BY DEF DenialInv, DeniedClaimsAreNotPaid
<1> HIDE DEF TypeOK
<1>4. rail \in Seq(Disbursement)
  BY DEF TypeOK
<1>5. \A i \in DOMAIN rail' : (i \in DOMAIN rail /\ rail'[i] = rail[i]) \/ rail'[i] = d
  BY <1>1, <1>4
<1>6. \A i \in DOMAIN rail' :
        ~ FastDeny(EvidenceOf(rail'[i]), Config) /\ rail'[i].investigation.coverage.covered # "no"
  BY <1>2, <1>3, <1>5
<1>7. DeniedClaimsAreNotPaid'
  BY <1>6 DEF DeniedClaimsAreNotPaid, EvidenceOf
<1> QED BY <1>7 DEF Disburses, Goes, DenialInv, RoutedTo, Admits, Deny, RouterInputOf, Proposed, durable

LEMMA StepDenial ==
  ASSUME TypeOK, Alone, InStep, Untouched, ApprovalBeforeAwait, DenialInv, SoloStep
  PROVE  DenialInv'
<1> DEFINE Paid == rail' = rail /\ DeniedClaimsAreNotPaid => DeniedClaimsAreNotPaid'
<1>0. Paid
  BY DEF DeniedClaimsAreNotPaid, EvidenceOf
<1> HIDE DEF Paid
<1>1. CASE Begins
  <2>1. approval' = NoApproval
    BY <1>1 DEF Begins, Untouched
  <2> QED BY <1>0, <1>1, <2>1 DEF Paid, Begins, DenialInv, RoutedTo, Proposed, NoApproval
<1>2. CASE Approves
  <2>1. approval.status \in Resolution
    BY <1>2 DEF Approves, ApprovalBeforeAwait, Solo, Alone
  <2>2. Admits(Solo.agg)
    BY <1>2, <2>1 DEF Approves, InStep, Stopped, DenialInv, RoutedTo, Proposed, Resolution
  <2> QED BY <1>0, <1>2, <2>2 DEF Paid, Approves, Goes, DenialInv, RoutedTo, Proposed, Admits, Deny,
                            RouterInputOf, durable, world
<1>3. CASE Executes
  <2>1. Admits(Solo.agg)
    BY <1>3 DEF Executes, InStep, Stopped, DenialInv, RoutedTo
  <2> QED BY <1>0, <1>3, <2>1 DEF Paid, Executes, Goes, DenialInv, RoutedTo, Proposed, Admits, Deny,
                            RouterInputOf, world
<1>4. CASE Decides
  <2>1. approval.status # "none"
    BY <1>4 DEF Decides, ApprovalBeforeAwait, InStep, Stopped
  <2> QED BY <1>0, <1>4, <2>1 DEF Paid, Decides, Goes, DenialInv, RoutedTo, Proposed, Admits, Deny,
                            RouterInputOf, world
<1>5. CASE HasNothingToRun \/ GivesUp \/ Dies
  BY <1>0, <1>5, IdleFields DEF Paid, HasNothingToRun, GivesUp, Dies, KeepsValue, DenialInv, RoutedTo,
       Proposed, Admits, Deny, RouterInputOf, durable, world
<1>6. CASE Resumes \/ Raises \/ Answers \/ Looks \/ Records
  BY <1>0, <1>6 DEF Paid, Resumes, Raises, KeepsValue, Answers, Looks, Records, Goes, DenialInv,
       RoutedTo, Proposed, Admits, Deny, RouterInputOf, durable, world
<1>7. CASE Commits \/ Injected \/ Called \/ Rests
  BY <1>0, <1>7 DEF Paid, Commits, Injected, Called, Rests, Goes, DenialInv, RoutedTo, Proposed,
       Admits, Deny, RouterInputOf, durable, world
<1> QED BY <1>1, <1>2, <1>3, <1>4, <1>5, <1>6, <1>7, DenialNodeEnds, DenialFinishes,
           DenialDisburses DEF SoloStep

LEMMA DenialAlways ==
  ASSUME Alone
  PROVE  Spec => []DenialInv
<1>1. Init => DenialInv
  <2> SUFFICES ASSUME Init PROVE DenialInv
    OBVIOUS
  <2>1. Solo = IdleTask
    BY DEF Init, Alone, Solo
  <2> QED BY <2>1, IdleFields DEF Init, NoCheckpoint, NoApproval, DenialInv, RoutedTo, Proposed,
             DeniedClaimsAreNotPaid
<1>2. TypeOK /\ ProjectionInv /\ ThreadInv /\ ApprovalBeforeAwait /\ DenialInv /\ [Next]_vars
        => DenialInv'
  BY OneOf, StepDenial DEF ThreadInv
<1> QED BY <1>1, <1>2, ThreadAlways, ApprovalFirst, PTL DEF Spec

(* No money leaves for a claim the rules or the determination deny, over   *)
(* every re-plan, re-run and crash of its thread (route_node, w2_propose,  *)
(* w2_await).                                                              *)
THEOREM DeniedIsNotPaid ==
  ASSUME Alone
  PROVE  Spec => []DeniedClaimsAreNotPaid
<1>1. DenialInv => DeniedClaimsAreNotPaid
  BY DEF DenialInv
<1> QED BY <1>1, DenialAlways, PTL

-----------------------------------------------------------------------------
(* What w2_await pays is signed.  A signature comes in as the value of a   *)
(* resume, waits in a task or, with the node that failed, in a checkpoint, *)
(* and becomes an amount; and what comes in for w2_await is a resolution   *)
(* because documents are only offered while the thread is at w4_request or *)
(* w4_await.                                                               *)

Decided(value) ==
  /\ value.kind = "approve" => ResolveAs("approve", 0) \in decisions
  /\ value.kind = "modify"  => ResolveAs("modify", value.amount) \in decisions

Signed(amount) ==
  \/ amount = approval.amount /\ ResolveAs("approve", 0) \in decisions
  \/ ResolveAs("modify", amount) \in decisions

InW4 == {"w4_request", "w4_await"}

ParkedInv ==
  /\ claim.state = "INFO_PENDING" => checkpoint.next \in InW4
  /\ Solo.pc = "commit" =>
       /\ Solo.agg.state = "INFO_PENDING" => Solo.node = "w4_request" /\ Solo.goto = "w4_await"
       /\ Solo.goto = "settle" => Solo.node = "w1_execute"

ResolvedInv ==
  ~ strayed =>
    /\ Solo.pc = "start" /\ ~ Solo.fresh =>
         Solo.value.kind \in Resolution \/ checkpoint.next \in InW4
    /\ checkpoint.resume # NoResume =>
         checkpoint.resume.kind \in Resolution \/ checkpoint.next = "w4_await"
    /\ ~ Stopped /\ Solo.node = "w2_await" => Solo.value.kind \in Resolution
    /\ Solo.pc \in {"lookup", "rail"} /\ Solo.node = "w2_await" => Signed(Solo.pay)

SignInv ==
  /\ Decided(Solo.value) /\ Decided(checkpoint.resume)
  /\ approval.status = "none" => \A i \in DOMAIN rail : rail[i].workflow # "W2"
  /\ SignedPayments

LEMMA StepParked ==
  ASSUME TypeOK, Alone, InStep, Untouched, Posting, ParkedInv, SoloStep
  PROVE  ParkedInv'
<1>0. Solo.agg \in Aggregate
  BY SoloTask
<1>1. CASE NodeEnds
  BY <1>1 DEF NodeEnds, ParkedInv, Leaves, LeavesTriage, LeavesRoute, LeavesPaid, LeavesUnpaid,
              LeavesProposal, LeavesForGood, LeavesSettle, LeavesRequest, LeavesWait
<1>2. CASE Begins
  BY <1>2 DEF Begins, Untouched, ParkedInv, NoCheckpoint, InW4
<1>3. CASE HasNothingToRun \/ GivesUp \/ Dies
  BY <1>3, IdleFields DEF HasNothingToRun, GivesUp, Dies, KeepsValue, ParkedInv, durable
<1>4. CASE Resumes \/ Raises \/ Executes \/ Decides \/ Approves \/ Answers \/ Looks \/ Disburses
             \/ Records \/ Injected \/ Called \/ Rests
  BY <1>4 DEF Resumes, Raises, KeepsValue, Executes, Decides, Approves, Answers, Looks, Disburses,
              Records, Injected, Called, Rests, Goes, ParkedInv, durable
<1>5. CASE Commits
  <2>1. Head(Solo.todo).row = RowOf(Solo.agg)
    BY <1>5, Todo DEF Commits, Posting
  <2>2. claim'.state = Solo.agg.state
    BY <1>0, <1>5, <2>1, RowState DEF Commits
  <2> QED BY <1>5, <2>2 DEF Commits, Goes, ParkedInv, InStep, Stopped, InW4
<1>6. CASE Finishes
  <2>1. Solo.goto # "settle" => claim.state = Solo.agg.state
    BY <1>0, <1>6, RowState DEF Finishes, Posting
  <2> QED BY <1>6, <2>1, IdleFields DEF Finishes, ParkedInv, InStep, Stopped, InW4
<1> QED BY <1>1, <1>2, <1>3, <1>4, <1>5, <1>6 DEF SoloStep

LEMMA StepResolved ==
  ASSUME TypeOK, Alone, InStep, Untouched, ParkedInv, ResolvedInv, SoloStep,
         Decided(Solo.value)
  PROVE  ResolvedInv'
<1> SUFFICES ASSUME ~ strayed' PROVE ResolvedInv'
  BY DEF ResolvedInv
<1>0. ~ strayed /\ NoResume.kind = "none"
  BY DEF SoloStep, Begins, Resumes, HasNothingToRun, NodeEnds, Raises, Executes, Decides, Approves,
         Answers, Looks, Disburses, Records, Commits, Finishes, GivesUp, Injected, Called, Dies,
         Rests, HistoryStays, NoResume
<1>1. CASE NodeEnds
  <2>1. Solo'.value = Solo.value
    BY <1>1 DEF NodeEnds
  <2> QED BY <1>0, <1>1, <2>1 DEF NodeEnds, ResolvedInv, Stopped, Leaves, LeavesTriage, LeavesRoute,
             LeavesPaid, LeavesUnpaid, LeavesProposal, LeavesForGood, LeavesSettle,
             LeavesRequest, LeavesWait
<1>2. CASE Begins
  BY <1>0, <1>2 DEF Begins, ResolvedInv, Stopped
<1>3. CASE Resumes
  BY <1>0, <1>3 DEF Resumes, ResolvedInv, Stopped, durable, InW4
<1>4. CASE Raises \/ Dies
  <2>1. Solo.pc = "start" /\ Solo.fresh => checkpoint.next \notin Awaits
    BY DEF Untouched, NoCheckpoint, Awaits
  <2>2. checkpoint'.resume # NoResume =>
          checkpoint'.resume.kind \in Resolution \/ checkpoint'.next = "w4_await"
    BY <1>0, <1>4, <2>1 DEF Raises, Dies, KeepsValue, ResolvedInv, Stopped, Awaits, InW4
  <2>3. CASE Raises
    BY <1>0, <2>2, <2>3 DEF Raises, Goes, ResolvedInv, Stopped
  <2>4. CASE Dies
    BY <1>0, <2>2, <2>4, IdleFields DEF Dies, ResolvedInv, Stopped
  <2> QED BY <1>4, <2>3, <2>4
<1>5. CASE Approves
  <2>1. Solo.value.kind \in Resolution /\ Solo.node = "w2_await"
    BY <1>0, <1>5 DEF Approves, ResolvedInv, InStep, Stopped
  <2>2. Signed(Solo'.pay)
    BY <1>5, <2>1 DEF Approves, Signed, Decided, AmountToPay, Resolution
  <2>3. Signed(Solo.pay)'
    BY <1>5, <2>2 DEF Approves, Signed, HistoryStays, durable
  <2> QED BY <1>0, <1>5, <2>1, <2>3 DEF Approves, Goes, ResolvedInv, Stopped, durable
<1>6. CASE Executes \/ Decides \/ Answers \/ Disburses \/ Records \/ Commits
  <2>1. Executes => Solo.node # "w2_await"
    BY DEF Executes
  <2> QED BY <1>0, <1>6, <2>1 DEF Executes, Decides, Answers, Disburses, Records, Commits, Goes,
                            ResolvedInv, Stopped, durable
<1>7. CASE Looks \/ Rests
  BY <1>0, <1>7 DEF Looks, Rests, Goes, ResolvedInv, Stopped, Signed, HistoryStays, durable
<1>8. CASE HasNothingToRun \/ GivesUp \/ Finishes
  BY <1>0, <1>8, IdleFields DEF HasNothingToRun, GivesUp, Finishes, ResolvedInv, Stopped, durable, Awaits
<1>9. CASE Injected
  BY <1>0, <1>9 DEF Injected, ResolvedInv, Stopped
<1>10. CASE Called
  <2>1. Solo'.value.kind \in Resolution \/ checkpoint'.next \in InW4
    BY <1>0, <1>10 DEF Called, ResolveAs, Resolution, ParkedInv, durable
  <2> QED BY <1>0, <1>10, <2>1 DEF Called, ResolvedInv, Stopped, durable
<1> QED BY <1>1, <1>2, <1>3, <1>4, <1>5, <1>6, <1>7, <1>8, <1>9, <1>10 DEF SoloStep

LEMMA SignSame ==
  ASSUME SignInv, UNCHANGED <<rail, decisions>>,
         approval' = approval \/ approval.status = "none"
                              \/ (approval'.amount = approval.amount /\ approval'.status # "none"),
         strayed => strayed', approval'.status = "none" => approval.status = "none",
         Decided(Solo'.value), Decided(checkpoint'.resume)
  PROVE  SignInv'
<1>1. SignedPayments'
  BY DEF SignInv, SignedPayments
<1> QED BY <1>1 DEF SignInv, Decided

LEMMA SignDisburses ==
  ASSUME TypeOK, Alone, InStep, ApprovalBeforeAwait, DenialInv, ResolvedInv, SignInv, Disburses
  PROVE  SignInv'
<1>1. PICK d \in Disbursement :
        rail' = Append(rail, d) /\ d.amount = Solo.pay /\ d.workflow = Solo.agg.workflow
  BY DEF Disburses
<1>2. Solo.node \in {"w1_execute", "w2_await"} /\ Solo.node = checkpoint.next
        /\ Solo.agg = checkpoint.agg
  BY DEF Disburses, InStep, Stopped
<1>3. d.workflow = "W2" => Solo.node = "w2_await" /\ approval.status # "none"
  BY <1>1, <1>2 DEF DenialInv, RoutedTo, ApprovalBeforeAwait
<1>4. ~ strayed /\ d.workflow = "W2" => Signed(d.amount)
  BY <1>1, <1>3 DEF Disburses, ResolvedInv
<1>5. UNCHANGED <<approval, decisions, strayed, checkpoint>> /\ Solo'.value = Solo.value
  BY DEF Disburses, Goes, HistoryStays, durable
<1> DEFINE Fine(x) == /\ approval.status = "none" => x.workflow # "W2"
                      /\ ~ strayed /\ x.workflow = "W2" => Signed(x.amount)
<1>6. \A i \in DOMAIN rail : Fine(rail[i])
  BY DEF SignInv, SignedPayments, Signed
<1>7. Fine(d)
  BY <1>3, <1>4
<1> HIDE DEF TypeOK, Fine
<1>8. rail \in Seq(Disbursement)
  BY DEF TypeOK
<1>9. \A i \in DOMAIN rail' : Fine(rail'[i])
  BY <1>1, <1>6, <1>7, <1>8
<1>10. SignedPayments'
  BY <1>5, <1>9 DEF Fine, SignedPayments, Signed
<1> QED BY <1>5, <1>9, <1>10 DEF SignInv, Fine, Decided

LEMMA StepSign ==
  ASSUME TypeOK, Alone, InStep, ApprovalBeforeAwait, ApprovalBeforeAwait', DenialInv, ResolvedInv,
         SignInv, SoloStep
  PROVE  SignInv'
<1>0. NoResume.kind = "none" /\ Decided(NoResume) /\ Decided(Solo.value) /\ Decided(checkpoint.resume)
  BY DEF NoResume, Decided, SignInv
<1>1. CASE NodeEnds
  BY <1>0, <1>1, SignSame DEF NodeEnds
<1>2. CASE Begins \/ Resumes \/ Rests
  BY <1>0, <1>2, SignSame DEF Begins, Resumes, Rests, HistoryStays, durable, world
<1>3. CASE HasNothingToRun \/ GivesUp \/ Finishes
  <2>1. Solo'.value = NoResume
    BY <1>3, IdleFields DEF HasNothingToRun, GivesUp, Finishes
  <2>2. Decided(checkpoint'.resume)
    BY <1>0, <1>3 DEF HasNothingToRun, GivesUp, Finishes, durable
  <2> QED BY <1>0, <1>3, <2>1, <2>2, SignSame
             DEF HasNothingToRun, GivesUp, Finishes, HistoryStays, durable, world
<1>4. CASE Raises \/ Dies
  <2>1. Decided(checkpoint'.resume) /\ Decided(Solo'.value)
    BY <1>0, <1>4, IdleFields DEF Raises, Dies, KeepsValue, Goes
  <2> QED BY <1>4, <2>1, SignSame DEF Raises, Dies, HistoryStays, world
<1>5. CASE Decides
  <2>1. approval.status # "none"
    BY <1>5 DEF Decides, ApprovalBeforeAwait, InStep, Stopped
  <2>2. approval'.status # "none"
    BY <1>5 DEF Decides, ApprovalBeforeAwait, InStep, Stopped
  <2> QED BY <1>0, <1>5, <2>1, <2>2, SignSame DEF Decides, Goes, HistoryStays, world
<1>6. CASE Executes \/ Approves \/ Answers \/ Looks \/ Records \/ Commits
  BY <1>0, <1>6, SignSame DEF Executes, Approves, Answers, Looks, Records, Commits, Goes,
                              HistoryStays, durable, world
<1>7. CASE Injected
  BY <1>0, <1>7, SignSame DEF Injected, HistoryStays, world
<1>8. CASE Called
  <2>1. /\ UNCHANGED <<rail, approval, checkpoint>>
        /\ decisions \subseteq decisions' /\ (strayed => strayed')
        /\ Solo'.value.kind \in Resolution => Solo'.value \in decisions'
        /\ Solo'.value.kind = "approve" => Solo'.value = ResolveAs("approve", 0)
        /\ Solo'.value.kind = "modify" => Solo'.value = ResolveAs("modify", Solo'.value.amount)
    BY <1>8 DEF Called, ResolveAs, Resolution, durable, world
  <2>2. Decided(Solo.value)'
    BY <2>1 DEF Decided, Resolution
  <2>3. Decided(checkpoint.resume)'
    BY <1>0, <2>1 DEF Decided
  <2>4. SignedPayments'
    BY <2>1 DEF SignInv, SignedPayments
  <2> QED BY <2>1, <2>2, <2>3, <2>4 DEF SignInv
<1> QED BY <1>1, <1>2, <1>3, <1>4, <1>5, <1>6, <1>7, <1>8, SignDisburses DEF SoloStep

(* As long as only the dashboard's calls are made, what w2_await pays was  *)
(* approved, or modified to that amount, by a person.                      *)
THEOREM PaymentsAreSigned ==
  ASSUME Alone
  PROVE  Spec => []SignedPayments
<1>1. Init => ParkedInv /\ ResolvedInv /\ SignInv
  <2> SUFFICES ASSUME Init PROVE ParkedInv /\ ResolvedInv /\ SignInv
    OBVIOUS
  <2>1. Solo = IdleTask
    BY DEF Init, Alone, Solo
  <2> QED BY <2>1, IdleFields DEF Init, NoRow, NoCheckpoint, NoResume, NoApproval, ParkedInv, ResolvedInv,
             Stopped, SignInv, Decided, SignedPayments
<1>2. TypeOK /\ ProjectionInv /\ ThreadInv /\ ApprovalBeforeAwait /\ ApprovalBeforeAwait'
        /\ DenialInv /\ ParkedInv /\ ResolvedInv /\ SignInv /\ [Next]_vars
        => ParkedInv' /\ ResolvedInv' /\ SignInv'
  BY OneOf, StepParked, StepResolved, StepSign DEF ThreadInv, SignInv
<1>3. SignInv => SignedPayments
  BY DEF SignInv
<1> QED BY <1>1, <1>2, <1>3, ThreadAlways, ApprovalFirst, DenialAlways, PTL DEF Spec

-----------------------------------------------------------------------------
(* Documents are received once for each re-plan the checkpoint counts, and *)
(* once more for each node that was cut off after its commit: the event is *)
(* written before the count is, so a w4_await that has committed is one    *)
(* ahead of its checkpoint until it gets there.                            *)

Received(log) == {i \in DOMAIN log : log[i].type = "DOCUMENT_RECEIVED"}
Replanned     == Cardinality(Received(events))

Ahead == Solo.pc = "commit" /\ Solo.node = "w4_await" /\ Solo.todo = <<>>

ReplanInv ==
  /\ Replanned <= MaxReplans + crashes
  /\ Replanned <= checkpoint.agg.replans + crashes + (IF Ahead THEN 1 ELSE 0)
  /\ Solo.pc = "commit" =>
       /\ Solo.agg.replans = checkpoint.agg.replans + (IF Solo.node = "w4_await" THEN 1 ELSE 0)
       /\ Solo.node = "w4_await" => Solo.goto # "RAISE" /\ Len(Solo.todo) <= 1
       /\ \A i \in DOMAIN Solo.todo : Solo.todo[i].event.type = "DOCUMENT_RECEIVED" =>
            Solo.node = "w4_await" /\ Solo.agg.replans <= MaxReplans

LEMMA ReceivedFinite ==
  ASSUME NEW log \in Seq(Event)
  PROVE  IsFiniteSet(Received(log)) /\ Cardinality(Received(log)) \in Nat
<1>1. Len(log) \in Nat /\ DOMAIN log = 1..Len(log)
  OBVIOUS
<1>2. IsFiniteSet(1..Len(log))
  BY <1>1, FS_Interval
<1> QED BY <1>1, <1>2, FS_Subset, FS_CardinalityType DEF Received

LEMMA ReceivedAppend ==
  ASSUME NEW log \in Seq(Event), NEW event \in Event
  PROVE  Cardinality(Received(Append(log, event))) =
           Cardinality(Received(log)) + (IF event.type = "DOCUMENT_RECEIVED" THEN 1 ELSE 0)
<1> DEFINE new == Append(log, event)
           n   == Len(log)
<1>1. /\ n \in Nat /\ DOMAIN log = 1..n /\ DOMAIN new = 1..(n + 1)
      /\ new[n + 1] = event /\ \A i \in 1..n : new[i] = log[i]
  OBVIOUS
<1> HIDE DEF new, n
<1>2. CASE event.type = "DOCUMENT_RECEIVED"
  <2>1. Received(new) = Received(log) \cup {n + 1} /\ n + 1 \notin Received(log)
    BY <1>1, <1>2 DEF Received
  <2> QED BY <1>2, <2>1, ReceivedFinite, FS_AddElement DEF new
<1>3. CASE event.type # "DOCUMENT_RECEIVED"
  <2>1. Received(new) = Received(log)
    BY <1>1, <1>3 DEF Received
  <2> QED BY <1>3, <2>1, ReceivedFinite DEF new
<1> QED BY <1>2, <1>3

LEMMA ReplannedWith ==
  ASSUME TypeOK, NEW event \in Event, events' = Append(events, event)
  PROVE  Replanned' = Replanned + (IF event.type = "DOCUMENT_RECEIVED" THEN 1 ELSE 0)
BY ReceivedAppend DEF TypeOK, Replanned, Received

LEMMA ReplanNumbers ==
  ASSUME TypeOK, Alone
  PROVE  /\ Replanned \in Nat /\ crashes \in Nat /\ MaxReplans \in Nat
         /\ checkpoint.agg.replans \in Nat /\ Solo.agg.replans \in Nat
         /\ UNCHANGED events => Replanned' = Replanned
<1>1. Replanned \in Nat
  BY ReceivedFinite DEF TypeOK, Replanned
<1>2. checkpoint.agg.replans \in Nat /\ Solo.agg.replans \in Nat
  BY SoloTask DEF TypeOK, Checkpoint, Aggregate
<1> QED BY <1>1, <1>2, LifecycleAssumption DEF TypeOK, Replanned, Received, LifecycleAssumption

(* No step but a commit of w4_await receives documents.                    *)
LEMMA OnlyW4Receives ==
  ASSUME NEW agg, NEW commits, NEW last, Writes(agg, commits, last),
         last # "DOCUMENT_RECEIVED"
  PROVE  \A i \in DOMAIN commits : commits[i].event.type # "DOCUMENT_RECEIVED"
BY DEF Writes

LEMMA ReplanNodeEnds ==
  ASSUME TypeOK, Alone, InStep, ReplanInv, NodeEnds
  PROVE  ReplanInv'
<1> DEFINE new == Solo'
<1>1. /\ UNCHANGED <<events, checkpoint, crashes>>
      /\ new.pc = "commit" /\ new.node = Solo.node
      /\ Leaves(Solo, new.agg, new.todo, new.goto)
      /\ Solo.pc # "commit"
  BY DEF NodeEnds, Leaves, LeavesTriage, LeavesRoute, LeavesPaid, LeavesUnpaid, LeavesProposal,
         LeavesForGood, LeavesSettle, LeavesRequest, LeavesWait
<1>2. Solo.agg = checkpoint.agg
  BY DEF NodeEnds, InStep, Leaves, LeavesTriage, LeavesRoute, LeavesPaid, LeavesUnpaid,
         LeavesProposal, LeavesForGood, LeavesSettle, LeavesRequest, LeavesWait
<1>3. Replanned' = Replanned
  BY <1>1, ReplanNumbers
<1>4. CASE LeavesWait(Solo, new.agg, new.todo, new.goto)
  <2>1. PICK last \in {"REPLAN_LIMIT", "DOCUMENT_RECEIVED"} :
          /\ Writes(new.agg, new.todo, last)
          /\ last = "DOCUMENT_RECEIVED" => new.agg.replans <= MaxReplans
    BY <1>4 DEF LeavesWait
  <2>2. new.todo # <<>>
    BY <2>1, Written
  <2>3. \A i \in DOMAIN new.todo : new.todo[i].event.type = "DOCUMENT_RECEIVED" =>
          last = "DOCUMENT_RECEIVED"
    BY <2>1, OnlyW4Receives
  <2>4. Len(new.todo) <= 1
    BY <1>4 DEF LeavesWait
  <2>5. new.node = "w4_await" /\ new.goto # "RAISE" /\ new.agg.replans = checkpoint.agg.replans + 1
    BY <1>1, <1>2, <1>4 DEF LeavesWait
  <2> HIDE DEF new
  <2>6. Replanned <= MaxReplans + crashes /\ Replanned <= checkpoint.agg.replans + crashes
    BY <1>1, ReplanNumbers DEF ReplanInv, Ahead
  <2>7. ~ Ahead'
    BY <2>2 DEF Ahead, new
  <2> USE DEF new
  <2> QED BY <1>1, <1>3, <2>1, <2>3, <2>4, <2>5, <2>6, <2>7, ReplanNumbers DEF ReplanInv
<1>5. CASE ~ LeavesWait(Solo, new.agg, new.todo, new.goto)
  <2>1. new.agg.replans = checkpoint.agg.replans /\ Solo.node # "w4_await"
    BY <1>1, <1>2, <1>5, SoloTask DEF InStep, Leaves, LeavesTriage, LeavesRoute, LeavesPaid,
         LeavesUnpaid, LeavesProposal, LeavesForGood, LeavesSettle, LeavesRequest
  <2>2. \A i \in DOMAIN new.todo : new.todo[i].event.type # "DOCUMENT_RECEIVED"
    <3>1. \/ new.todo = <<>>
          \/ \E last \in EventType \ {"DOCUMENT_RECEIVED"} : Writes(new.agg, new.todo, last)
      BY <1>1, <1>5 DEF EventType, Leaves, LeavesTriage, LeavesRoute, LeavesPaid,
         LeavesUnpaid, LeavesProposal, LeavesForGood, LeavesSettle, LeavesRequest
    <3> QED BY <3>1, OnlyW4Receives
  <2>3. Replanned <= MaxReplans + crashes /\ Replanned <= checkpoint.agg.replans + crashes
    BY <1>1, ReplanNumbers DEF ReplanInv, Ahead
  <2>4. ~ Ahead'
    BY <1>1, <2>1 DEF Ahead
  <2> QED BY <1>1, <1>3, <2>1, <2>2, <2>3, <2>4, ReplanNumbers DEF ReplanInv
<1> QED BY <1>4, <1>5

(* A step that writes no commit and leaves the count of the checkpoint.    *)
LEMMA ReplanOther ==
  ASSUME TypeOK, Alone, ReplanInv, Replanned' = Replanned, Solo'.pc # "commit",
         \/ checkpoint'.agg.replans = checkpoint.agg.replans /\ crashes' = crashes /\ ~ Ahead
         \/ checkpoint'.agg.replans = checkpoint.agg.replans /\ crashes' = crashes + 1
  PROVE  ReplanInv'
<1>1. ~ Ahead'
  BY DEF Ahead
<1> QED BY <1>1, ReplanNumbers DEF ReplanInv

LEMMA StepReplan ==
  ASSUME TypeOK, TypeOK', Alone, InStep, Untouched, ReplanInv, SoloStep
  PROVE  ReplanInv'
<1>1. CASE Begins
  <2>1. Received(events) = {}
    BY <1>1 DEF Begins, Untouched, Received
  <2>2. Replanned' = 0 /\ Replanned = 0
    BY <1>1, <2>1, FS_EmptySet, ReplanNumbers DEF Begins, Replanned
  <2>3. checkpoint'.agg.replans = 0 /\ crashes' = crashes /\ ~ Ahead' /\ Solo'.pc # "commit"
    BY <1>1 DEF Begins, HistoryStays, NewAggregate, Ahead
  <2> QED BY <2>2, <2>3, ReplanNumbers DEF ReplanInv
<1>2. CASE Resumes \/ HasNothingToRun \/ Decides \/ Approves \/ Answers \/ Looks \/ Disburses
             \/ Records \/ Raises \/ Called
  <2>1. Solo'.pc # "commit" /\ Solo.pc # "commit" /\ UNCHANGED <<events, crashes>>
          /\ checkpoint'.agg = checkpoint.agg
    BY <1>2, IdleFields DEF Resumes, HasNothingToRun, Decides, Approves, Answers, Looks, Disburses,
         Records, Raises, KeepsValue, Called, Goes, HistoryStays, durable
  <2> QED BY <2>1, ReplanOther, ReplanNumbers DEF Ahead
<1>3. CASE Executes \/ Injected \/ GivesUp
  <2>1. Replanned' = Replanned
    <3>1. PICK event \in Event : event.type # "DOCUMENT_RECEIVED" /\ events' = Append(events, event)
      BY <1>3 DEF Executes, Injected, GivesUp
    <3> QED BY <3>1, ReplannedWith, ReplanNumbers
  <2>2. Solo'.pc # "commit" /\ UNCHANGED <<checkpoint, crashes>>
    BY <1>3, IdleFields DEF Executes, Injected, GivesUp, Goes, HistoryStays
  <2>3. ~ Ahead
    BY <1>3 DEF Executes, Injected, GivesUp, Ahead, ReplanInv
  <2> QED BY <2>1, <2>2, <2>3, ReplanOther
<1>4. CASE Dies
  <2>1. Solo'.pc # "commit" /\ checkpoint'.agg = checkpoint.agg /\ crashes' = crashes + 1
          /\ UNCHANGED events
    BY <1>4, IdleFields DEF Dies, KeepsValue
  <2> QED BY <2>1, ReplanOther, ReplanNumbers
<1>5. CASE Rests
  <2>1. Replanned' = Replanned /\ UNCHANGED <<checkpoint, crashes>> /\ Solo' = Solo
    BY <1>5, ReplanNumbers DEF Rests, HistoryStays, durable
  <2> QED BY <2>1 DEF ReplanInv, Ahead
<1>6. CASE Finishes
  <2>1. Replanned' = Replanned /\ crashes' = crashes
    BY <1>6, ReplanNumbers DEF Finishes, HistoryStays
  <2>2. checkpoint'.agg.replans = Solo.agg.replans /\ Solo'.pc # "commit" /\ ~ Ahead'
    BY <1>6, IdleFields DEF Finishes, Ahead
  <2>3. Replanned <= Solo.agg.replans + crashes
    BY <1>6, ReplanNumbers DEF Finishes, ReplanInv, Ahead
  <2> QED BY <2>1, <2>2, <2>3, ReplanNumbers DEF ReplanInv
<1>7. CASE Commits
  <2> DEFINE first == Head(Solo.todo)
  <2>1. /\ first \in Transition /\ first = Solo.todo[1] /\ 1 \in DOMAIN Solo.todo
        /\ Len(Solo.todo) \in Nat \ {0} /\ Solo'.todo = Tail(Solo.todo)
        /\ Len(Solo'.todo) = Len(Solo.todo) - 1
        /\ \A i \in DOMAIN Solo'.todo : i + 1 \in DOMAIN Solo.todo /\ Solo'.todo[i] = Solo.todo[i + 1]
        /\ Solo'.todo = <<>> <=> Len(Solo.todo) = 1
    BY <1>7, Todo DEF Commits
  <2>2. /\ UNCHANGED <<checkpoint, crashes>> /\ Solo.pc = "commit" /\ Solo'.pc = "commit"
        /\ Solo'.node = Solo.node /\ Solo'.agg = Solo.agg /\ Solo'.goto = Solo.goto
        /\ events' = Append(events, first.event) /\ Solo.todo # <<>>
    BY <1>7 DEF Commits, Goes, HistoryStays
  <2> HIDE DEF first
  <2>3. Replanned' = Replanned + (IF first.event.type = "DOCUMENT_RECEIVED" THEN 1 ELSE 0)
    BY <2>1, <2>2, ReplannedWith DEF Transition
  <2>4. ~ Ahead /\ Replanned <= checkpoint.agg.replans + crashes /\ Replanned <= MaxReplans + crashes
    BY <2>2, ReplanNumbers DEF Ahead, ReplanInv
  <2>5. first.event.type = "DOCUMENT_RECEIVED" =>
          Solo.node = "w4_await" /\ Solo.agg.replans <= MaxReplans
    BY <2>1, <2>2 DEF ReplanInv
  <2>6. Solo.node = "w4_await" => Len(Solo.todo) = 1 /\ Solo'.todo = <<>> /\ Ahead'
    BY <2>1, <2>2 DEF ReplanInv, Ahead
  <2>7. Solo.agg.replans = checkpoint.agg.replans + (IF Solo.node = "w4_await" THEN 1 ELSE 0)
    BY <2>2 DEF ReplanInv
  <2>8. Replanned' <= MaxReplans + crashes
          /\ Replanned' <= checkpoint.agg.replans + crashes + (IF Ahead' THEN 1 ELSE 0)
    BY <2>3, <2>4, <2>5, <2>6, <2>7, ReplanNumbers
  <2>9. /\ Solo.node = "w4_await" => Solo'.goto # "RAISE" /\ Len(Solo'.todo) <= 1
        /\ \A i \in DOMAIN Solo'.todo : Solo'.todo[i].event.type = "DOCUMENT_RECEIVED" =>
             Solo.node = "w4_await" /\ Solo.agg.replans <= MaxReplans
    BY <2>1, <2>2, <2>6 DEF ReplanInv
  <2> QED BY <2>2, <2>7, <2>8, <2>9 DEF ReplanInv
<1> QED BY <1>1, <1>2, <1>3, <1>4, <1>5, <1>6, <1>7, ReplanNodeEnds DEF SoloStep

(* The document loop re-plans at most MaxReplans times, plus once for each *)
(* node that was cut off between its commit and its checkpoint (w4_await). *)
THEOREM ReplansAreBounded ==
  ASSUME Alone
  PROVE  Spec => []ReplansBounded
<1>1. Init => ReplanInv
  <2> SUFFICES ASSUME Init PROVE ReplanInv
    OBVIOUS
  <2>1. Solo = IdleTask
    BY DEF Init, Alone, Solo
  <2>2. Received(events) = {}
    BY DEF Init, Received
  <2>3. Replanned = 0
    BY <2>2, FS_EmptySet DEF Replanned
  <2>4. checkpoint.agg.replans = 0 /\ crashes = 0 /\ MaxReplans \in Nat
    BY LifecycleAssumption DEF Init, NoCheckpoint, NewAggregate, LifecycleAssumption
  <2> QED BY <2>1, <2>3, <2>4, IdleFields DEF ReplanInv, Ahead
<1>2. TypeOK /\ TypeOK' /\ ProjectionInv /\ ThreadInv /\ ReplanInv /\ [Next]_vars => ReplanInv'
  BY OneOf, StepReplan DEF ThreadInv
<1>3. ReplanInv => ReplansBounded
  BY DEF ReplanInv, ReplansBounded, Replanned, Received
<1> QED BY <1>1, <1>2, <1>3, ThreadAlways, PTL DEF Spec

-----------------------------------------------------------------------------
(* Up to the first restart or death.                                       *)

LEMMA StaysUnbroken ==
  ASSUME TypeOK, SoloStep, Unbroken'
  PROVE  Unbroken /\ ~ Dies
<1>1. crashes \in Nat
  BY DEF TypeOK
<1>2. Dies => crashes' = crashes + 1
  BY DEF Dies
<1>3. ~ Dies => crashes' = crashes
  BY DEF SoloStep, Begins, Resumes, HasNothingToRun, NodeEnds, Raises, Executes, Decides, Approves,
         Answers, Looks, Disburses, Records, Commits, Finishes, GivesUp, Injected, Called, Rests,
         HistoryStays
<1> QED BY <1>1, <1>2, <1>3 DEF Unbroken

(* The amount that left, and the places where a claim can be once it has.  *)
Left == IF rail = <<>> THEN 0 ELSE rail[1].amount

AfterPay ==
  \/ Solo.pc = "record"
  \/ Solo.pc = "paid" /\ Solo.ok
  \/ Solo.pc = "commit" /\ Solo.goto \in {"settle", "close", "END"}
  \/ Solo.pc = "run" /\ Solo.node \in {"settle", "close"}
  \/ Waiting /\ checkpoint.next = "END"

(* At most one payment has left; from there on the amount is in the task,  *)
(* then in its aggregate, then in the checkpoint, and with the last commit *)
(* in the row.  Nothing that has paid raises, so no escalation rewrites    *)
(* the row of a claim that was paid.                                       *)
PaidInv ==
  /\ PayKey \in toolCalls => rail # <<>>
  /\ rail # <<>> => Len(rail) = 1 /\ rail[1].amount > 0 /\ AfterPay
  /\ Solo.pc = "rail" => Solo.pay > 0
  /\ Solo.pc = "record" \/ (Solo.pc = "paid" /\ Solo.ok) => rail # <<>> /\ Left = Solo.pay
  /\ Solo.pc = "commit" => Solo.agg.paid = Left
  /\ Solo.pc = "commit" /\ Solo.goto = "RAISE" => checkpoint.agg.paid = 0
  /\ Solo.pc \notin {"commit", "record", "paid"} => checkpoint.agg.paid = Left
  /\ Stopped => claim.paid = Left

LEMMA StepPaid ==
  ASSUME TypeOK, Alone, InStep, Untouched, Posting, PaidInv, SoloStep, ~ Dies
  PROVE  PaidInv'
<1>0. rail' = rail => Left' = Left
  BY DEF Left
<1>1. CASE NodeEnds
  <2> DEFINE new == Solo'
  <2>1. /\ rail' = rail /\ checkpoint' = checkpoint /\ (PayKey \in toolCalls' => PayKey \in toolCalls)
        /\ new.pc = "commit" /\ Leaves(Solo, new.agg, new.todo, new.goto)
    BY <1>1 DEF NodeEnds
  <2>2. CASE LeavesPaid(Solo, new.agg, new.todo, new.goto)
    BY <1>0, <2>1, <2>2 DEF LeavesPaid, PaidInv, AfterPay, Stopped
  <2>3. CASE LeavesUnpaid(Solo, new.agg, new.todo, new.goto)
    <3>1. rail = <<>>
      BY <2>3 DEF LeavesUnpaid, PaidInv, AfterPay, Waiting
    <3> QED BY <1>0, <2>1, <2>3, <3>1 DEF LeavesUnpaid, PaidInv, Left, Stopped
  <2>4. CASE Solo.pc \in {"run", "resolved"}
    <3>1. Solo.agg = checkpoint.agg /\ Solo.agg.paid = Left
      BY <2>4 DEF InStep, PaidInv
    <3>2. new.agg.paid = Left
      BY <2>1, <2>4, <3>1 DEF Leaves, LeavesTriage, LeavesRoute, LeavesPaid, LeavesUnpaid,
         LeavesProposal, LeavesForGood, LeavesSettle, LeavesRequest, LeavesWait
    <3>3. rail # <<>> => Solo.pc = "run" /\ Solo.node \in {"settle", "close"}
      BY <2>4 DEF PaidInv, AfterPay, Waiting
    <3>4. rail # <<>> => new.goto \in {"close", "END"}
      BY <2>1, <3>3 DEF Leaves, LeavesTriage, LeavesRoute, LeavesPaid, LeavesUnpaid,
         LeavesProposal, LeavesForGood, LeavesSettle, LeavesRequest, LeavesWait
    <3>5. new.goto = "RAISE" => checkpoint.agg.paid = 0
      BY <3>1, <3>4 DEF Left
    <3> QED BY <1>0, <2>1, <3>2, <3>4, <3>5 DEF PaidInv, AfterPay, Stopped
  <2> QED BY <2>1, <2>2, <2>3, <2>4 DEF Leaves, LeavesTriage, LeavesRoute, LeavesProposal,
                                       LeavesForGood, LeavesSettle, LeavesRequest, LeavesWait
<1>2. CASE Begins
  <2>1. rail = <<>> /\ toolCalls = {} /\ NewAggregate.paid = 0
    BY <1>2 DEF Begins, Untouched, NewAggregate
  <2> QED BY <1>0, <1>2, <2>1 DEF Begins, PaidInv, Left, Stopped
<1>3. CASE Resumes
  <2>1. rail = <<>>
    BY <1>3 DEF Resumes, PaidInv, AfterPay, Node
  <2> QED BY <1>0, <1>3, <2>1 DEF Resumes, PaidInv, Stopped, durable, world
<1>4. CASE HasNothingToRun \/ Called \/ Rests
  BY <1>0, <1>4, IdleFields DEF HasNothingToRun, Called, Rests, PaidInv, AfterPay, Waiting, Stopped,
                               durable, world
<1>5. CASE Raises \/ Executes \/ Decides \/ Approves \/ Looks
  <2>1. rail = <<>>
    BY <1>5 DEF Raises, Executes, Decides, Approves, Looks, PaidInv, AfterPay, Waiting
  <2> QED BY <1>0, <1>5, <2>1 DEF Raises, KeepsValue, Executes, Decides, Approves, Looks, Goes, PaidInv,
                                 Stopped, durable, world
<1>6. CASE Answers
  <2>1. rail = <<>> /\ PayKey \notin toolCalls
    BY <1>6 DEF Answers, PaidInv, AfterPay, Waiting
  <2> QED BY <1>0, <1>6, <2>1 DEF Answers, Goes, PaidInv, Stopped, durable, world
<1>7. CASE Disburses
  <2>1. PICK d \in Disbursement : rail' = Append(rail, d) /\ d.amount = Solo.pay
    BY <1>7 DEF Disburses
  <2>2. rail = <<>>
    BY <1>7 DEF Disburses, PaidInv, AfterPay, Waiting
  <2>3. rail' = <<d>>
    BY <2>1, <2>2
  <2>4. rail' # <<>> /\ Len(rail') = 1 /\ rail'[1].amount = Solo.pay /\ Left' = Solo.pay
    BY <2>1, <2>3 DEF Left
  <2> QED BY <1>7, <2>4 DEF Disburses, Goes, PaidInv, AfterPay, Stopped, durable
<1>8. CASE Records
  BY <1>0, <1>8 DEF Records, Goes, PaidInv, AfterPay, Stopped, world
<1>9. CASE Commits
  BY <1>0, <1>9 DEF Commits, Goes, PaidInv, AfterPay, Waiting, Stopped, world
<1>10. CASE Finishes
  <2>1. Solo.goto # "settle" => claim.paid = Left
    BY <1>10, SoloTask, RowState DEF Finishes, Posting, PaidInv
  <2>2. rail # <<>> => Solo.goto \in {"settle", "close", "END"}
    BY <1>10 DEF Finishes, PaidInv, AfterPay, Waiting
  <2>3. checkpoint'.next = Solo.goto /\ checkpoint'.agg.paid = Left
    BY <1>10 DEF Finishes, PaidInv
  <2>4. CASE Solo.goto \in Awaits \cup {"END"}
    BY <1>0, <1>10, <2>1, <2>2, <2>3, <2>4, IdleFields
       DEF Finishes, PaidInv, AfterPay, Waiting, Stopped, world, Awaits
  <2>5. CASE Solo.goto \notin Awaits \cup {"END"}
    BY <1>0, <1>10, <2>2, <2>3, <2>5 DEF Finishes, PaidInv, AfterPay, Stopped, world
  <2> QED BY <2>4, <2>5
<1>11. CASE GivesUp
  <2>1. rail = <<>>
    BY <1>11 DEF GivesUp, PaidInv, AfterPay, Waiting
  <2>2. checkpoint.agg.paid = 0
    BY <1>11, <2>1 DEF GivesUp, PaidInv, Left
  <2> QED BY <1>0, <1>11, <2>1, <2>2, IdleFields DEF GivesUp, PaidInv, Left, Stopped, world
<1>12. CASE Injected
  <2>1. rail = <<>>
    BY <1>12 DEF Injected, Untouched
  <2> QED BY <1>0, <1>12, <2>1 DEF Injected, PaidInv, Left, Stopped, world
<1> QED BY <1>1, <1>2, <1>3, <1>4, <1>5, <1>6, <1>7, <1>8, <1>9, <1>10, <1>11, <1>12 DEF SoloStep

-----------------------------------------------------------------------------
(* A claim that is over.                                                   *)
Over(state) ==
  \/ Solo.pc = "commit" /\ Solo.goto = "END" /\ Solo.agg.state = state
  \/ Waiting /\ checkpoint.next = "END"

(* A letter was sent only by the node that ends the thread; a rejection is *)
(* in the row before its node is done, and that node ends the thread too.  *)
RejectInv ==
  /\ letters > 0 => Over("DENIED")
  /\ approval.status = "reject" =>
       /\ rail = <<>> /\ letters = 0
       /\ \/ Solo.pc = "resolved" /\ Solo.value.kind = "reject"
          \/ Solo.pc = "commit" /\ Solo.goto = "END"
          \/ Waiting /\ checkpoint.next = "END"

ClosedInv ==
  /\ claim.state \in {"CLOSED", "DENIED"} => Over(claim.state)
  /\ Solo.pc = "commit" /\ Solo.agg.state \in {"CLOSED", "DENIED"} => Solo.goto = "END"

LEMMA NodeEndsAt ==
  ASSUME NodeEnds
  PROVE  Solo.pc \in {"run", "resolved", "paid"}
BY DEF NodeEnds, Leaves, LeavesTriage, LeavesRoute, LeavesPaid, LeavesUnpaid, LeavesProposal,
       LeavesForGood, LeavesSettle, LeavesRequest, LeavesWait

LEMMA StepReject ==
  ASSUME TypeOK, Alone, InStep, Untouched, PaidInv, RejectInv, SoloStep, ~ Dies
  PROVE  RejectInv' /\ (letters > 0 => letters' = letters)
<1>0. letters \in Nat
  BY DEF TypeOK
<1>1. CASE NodeEnds
  <2>1. letters = 0
    BY <1>0, <1>1, NodeEndsAt DEF RejectInv, Over, Waiting
  <2>2. /\ letters' # letters => letters' = 1 /\ Solo.pc = "resolved"
              /\ Solo.value.kind # "reject" /\ Solo'.agg.state = "DENIED"
        /\ Leaves(Solo, Solo'.agg, Solo'.todo, Solo'.goto) /\ Solo'.pc = "commit" /\ rail' = rail
        /\ approval'.status = "reject" => approval' = approval
    BY <1>1, <2>1 DEF NodeEnds
  <2>3. Solo.pc = "resolved" => Solo'.goto = "END"
    BY <2>2 DEF Leaves, LeavesTriage, LeavesRoute, LeavesPaid, LeavesUnpaid, LeavesProposal,
                LeavesForGood, LeavesSettle, LeavesRequest, LeavesWait
  <2>4. approval.status = "reject" =>
          rail = <<>> /\ Solo.pc = "resolved" /\ Solo.value.kind = "reject"
    BY <1>1, NodeEndsAt DEF RejectInv, Waiting
  <2> QED BY <2>1, <2>2, <2>3, <2>4 DEF RejectInv, Over
<1>2. CASE Begins \/ Injected
  <2>1. letters = 0 /\ approval = NoApproval
    BY <1>2 DEF Begins, Injected, Untouched
  <2> QED BY <1>2, <2>1 DEF Begins, Injected, RejectInv, NoApproval, world
<1>3. CASE Resumes
  <2>1. letters = 0 /\ approval.status # "reject"
    BY <1>0, <1>3 DEF Resumes, RejectInv, Over, Node
  <2> QED BY <1>3, <2>1 DEF Resumes, RejectInv, durable, world
<1>4. CASE HasNothingToRun \/ Called \/ Rests
  BY <1>4, IdleFields DEF HasNothingToRun, Called, Rests, RejectInv, Over, Waiting, durable, world
<1>5. CASE Raises \/ Executes \/ Approves \/ Answers \/ Looks \/ Disburses \/ Records
  <2>1. letters = 0 /\ approval.status # "reject"
    BY <1>0, <1>5 DEF Raises, Executes, Approves, Answers, Looks, Disburses, Records, RejectInv,
         Over, Waiting
  <2> QED BY <1>5, <2>1 DEF Raises, Executes, Approves, Answers, Looks, Disburses, Records, RejectInv,
         durable, world
<1>6. CASE Decides
  <2>1. letters = 0 /\ rail = <<>>
    BY <1>0, <1>6 DEF Decides, RejectInv, Over, Waiting, PaidInv, AfterPay
  <2>2. approval'.status = "reject" => Solo.value.kind = "reject"
    BY <1>6 DEF Decides, ResolutionOf
  <2> QED BY <1>6, <2>1, <2>2 DEF Decides, Goes, RejectInv, world
<1>7. CASE Commits
  BY <1>7 DEF Commits, Goes, RejectInv, Over, Waiting, world
<1>8. CASE Finishes
  <2>1. letters > 0 => Solo.goto = "END"
    BY <1>8 DEF Finishes, RejectInv, Over, Waiting
  <2>2. approval.status = "reject" => rail = <<>> /\ letters = 0 /\ Solo.goto = "END"
    BY <1>8 DEF Finishes, RejectInv, Waiting
  <2>3. Solo.goto = "END" => Waiting' /\ checkpoint'.next = "END"
    BY <1>8, IdleFields DEF Finishes, Waiting
  <2> QED BY <1>8, <2>1, <2>2, <2>3 DEF Finishes, RejectInv, Over, world
<1>9. CASE GivesUp
  <2>1. letters = 0 /\ approval.status # "reject"
    BY <1>0, <1>9 DEF GivesUp, RejectInv, Over, Waiting
  <2> QED BY <1>9, <2>1 DEF GivesUp, RejectInv, world
<1> QED BY <1>1, <1>2, <1>3, <1>4, <1>5, <1>6, <1>7, <1>8, <1>9 DEF SoloStep

LEMMA StepClosed ==
  ASSUME TypeOK, Alone, InStep, Posting, ClosedInv, SoloStep, ~ Dies
  PROVE  ClosedInv' /\ (claim.state \in {"CLOSED", "DENIED"} => claim'.state = claim.state)
<1>0. Solo.agg \in Aggregate
  BY SoloTask
<1>1. CASE NodeEnds
  <2>1. claim.state \notin {"CLOSED", "DENIED"} /\ claim' = claim
    BY <1>1, NodeEndsAt DEF NodeEnds, ClosedInv, Over, Waiting
  <2> QED BY <1>1, <2>1 DEF NodeEnds, ClosedInv, Leaves, LeavesTriage, LeavesRoute, LeavesPaid,
       LeavesUnpaid, LeavesProposal, LeavesForGood, LeavesSettle, LeavesRequest, LeavesWait
<1>2. CASE Begins \/ Resumes \/ Raises \/ Decides \/ Approves \/ Answers \/ Looks \/ Disburses
             \/ Records
  <2>1. claim.state \notin {"CLOSED", "DENIED"}
    BY <1>2 DEF Begins, Resumes, Raises, Decides, Approves, Answers, Looks, Disburses, Records,
         ClosedInv, Over, Waiting, Node
  <2> QED BY <1>2, <2>1 DEF Begins, Resumes, Raises, Decides, Approves, Answers, Looks, Disburses,
         Records, Goes, ClosedInv, durable
<1>3. CASE HasNothingToRun \/ Called \/ Rests
  BY <1>3, IdleFields DEF HasNothingToRun, Called, Rests, ClosedInv, Over, Waiting, durable
<1>4. CASE Executes \/ GivesUp \/ Injected
  <2>1. claim.state \notin {"CLOSED", "DENIED"}
    BY <1>4 DEF Executes, GivesUp, Injected, ClosedInv, Over, Waiting, NoRow
  <2> QED BY <1>4, <2>1, IdleFields DEF Executes, GivesUp, Injected, Goes, ClosedInv
<1>5. CASE Commits
  <2>1. Head(Solo.todo).row = RowOf(Solo.agg)
    BY <1>5, Todo DEF Commits, Posting
  <2>2. claim'.state = Solo.agg.state
    BY <1>0, <1>5, <2>1, RowState DEF Commits
  <2>3. claim.state \in {"CLOSED", "DENIED"} => Solo.agg.state = claim.state
    BY <1>5 DEF Commits, ClosedInv, Over, Waiting
  <2> QED BY <1>5, <2>2, <2>3 DEF Commits, Goes, ClosedInv, Over
<1>6. CASE Finishes
  <2>1. claim.state \in {"CLOSED", "DENIED"} => Solo.goto = "END"
    BY <1>6 DEF Finishes, ClosedInv, Over, Waiting
  <2>2. Solo.goto = "END" => Waiting' /\ checkpoint'.next = "END"
    BY <1>6, IdleFields DEF Finishes, Waiting
  <2>3. Solo'.pc # "commit" /\ claim' = claim
    BY <1>6, IdleFields DEF Finishes
  <2> QED BY <2>1, <2>2, <2>3 DEF ClosedInv, Over
<1> QED BY <1>1, <1>2, <1>3, <1>4, <1>5, <1>6 DEF SoloStep

-----------------------------------------------------------------------------
(* Where a claim waits.                                                    *)

(* The last event of the log once the task has committed all it has to.    *)
LastEvent == IF Solo.todo = <<>> THEN events[Len(events)] ELSE Solo.todo[Len(Solo.todo)].event

(* A task that is about to stop goes on with the state its stop stands     *)
(* for; a stopped claim has that state in its row.  The approval is still  *)
(* pending when w2_propose is done, because it cannot be resolved before.  *)
RestInv ==
  /\ Solo.pc = "commit" =>
       /\ Solo.goto = "w4_await" => Solo.agg.state = "INFO_PENDING"
       /\ Solo.goto = "w2_await" => Solo.agg.state = "REVIEW_PENDING" /\ approval.status = "pending"
       /\ Solo.goto = "END" =>
            \/ Solo.agg.state \in Terminal
            \/ Solo.agg.state = "REVIEW_PENDING" /\ LastEvent.type = "COMPENSATED"
  /\ checkpoint.next = "w2_propose" => approval.status \in {"none", "pending"}
  /\ Waiting /\ claim # NoRow =>
       \/ claim.state = "ESCALATED"
       \/ claim.state \in {"CLOSED", "DENIED"} /\ checkpoint.next = "END"
       \/ claim.state = "INFO_PENDING" /\ checkpoint.next = "w4_await"
       \/ /\ claim.state = "REVIEW_PENDING" /\ checkpoint.next = "w2_await"
          /\ approval.status = "pending"
       \/ /\ claim.state = "REVIEW_PENDING" /\ checkpoint.next = "END"
          /\ events[Len(events)].type = "COMPENSATED"

LEMMA LastCommitted ==
  ASSUME TypeOK, Alone, Commits
  PROVE  LastEvent' = LastEvent
<1>1. events \in Seq(Event)
  BY DEF TypeOK
<1>2. /\ Solo.todo # <<>> /\ Solo'.todo = Tail(Solo.todo)
      /\ events' = Append(events, Head(Solo.todo).event)
  BY DEF Commits
<1> DEFINE todo == Solo.todo
           rest == Solo'.todo
<1>3. /\ Len(todo) \in Nat \ {0} /\ 1 \in DOMAIN todo /\ Head(todo) = todo[1]
      /\ Head(todo) \in Transition /\ DOMAIN todo = 1..Len(todo)
      /\ rest \in Seq(Transition) /\ Len(rest) = Len(todo) - 1
      /\ \A i \in DOMAIN rest : i + 1 \in DOMAIN todo /\ rest[i] = todo[i + 1]
      /\ rest = <<>> <=> Len(todo) = 1
  BY <1>2, Todo
<1>4. Head(todo).event \in Event
  BY <1>3 DEF Transition
<1>5. events'[Len(events')] = Head(todo).event
  BY <1>1, <1>2, <1>4
<1>6. CASE rest = <<>>
  BY <1>2, <1>3, <1>5, <1>6 DEF LastEvent
<1>7. CASE rest # <<>>
  <2> HIDE DEF todo, rest
  <2>1. Len(rest) \in DOMAIN rest /\ Len(todo) = Len(rest) + 1
    BY <1>3, <1>7
  <2>2. rest[Len(rest)] = todo[Len(todo)]
    BY <1>3, <2>1
  <2> QED BY <1>2, <1>7, <2>2 DEF LastEvent, todo, rest
<1> QED BY <1>6, <1>7

LEMMA RestNodeEnds ==
  ASSUME TypeOK, Alone, InStep, RestInv, NodeEnds
  PROVE  RestInv'
<1> DEFINE new == Solo'
<1>1. /\ new.pc = "commit" /\ UNCHANGED <<events, checkpoint>>
      /\ Leaves(Solo, new.agg, new.todo, new.goto)
  BY DEF NodeEnds
<1>2. Solo.node = checkpoint.next
  BY NodeEndsAt DEF InStep, Stopped
<1>3. new.goto = "w4_await" => new.agg.state = "INFO_PENDING"
  BY <1>1 DEF Leaves, LeavesTriage, LeavesRoute, LeavesPaid, LeavesUnpaid, LeavesProposal,
       LeavesForGood, LeavesSettle, LeavesRequest, LeavesWait
<1>4. new.goto = "w2_await" => new.agg.state = "REVIEW_PENDING" /\ Solo.node = "w2_propose"
  BY <1>1 DEF Leaves, LeavesTriage, LeavesRoute, LeavesPaid, LeavesUnpaid, LeavesProposal,
       LeavesForGood, LeavesSettle, LeavesRequest, LeavesWait
<1>5. checkpoint.next = "w2_propose" => approval'.status = "pending"
  BY <1>2 DEF NodeEnds, RestInv
<1>6. LastEvent' = IF new.todo = <<>> THEN events[Len(events)] ELSE new.todo[Len(new.todo)].event
  BY <1>1 DEF LastEvent
<1>7. new.goto = "END" =>
        \/ new.agg.state \in Terminal
        \/ new.agg.state = "REVIEW_PENDING" /\ LastEvent'.type = "COMPENSATED"
  <2>1. CASE LeavesUnpaid(Solo, new.agg, new.todo, new.goto)
    BY <1>6, <2>1, Written DEF LeavesUnpaid, Writes
  <2>2. CASE ~ LeavesUnpaid(Solo, new.agg, new.todo, new.goto)
    BY <1>1, <2>2 DEF Terminal, Leaves, LeavesTriage, LeavesRoute, LeavesPaid, LeavesProposal,
       LeavesForGood, LeavesSettle, LeavesRequest, LeavesWait
  <2> QED BY <2>1, <2>2
<1> QED BY <1>1, <1>2, <1>3, <1>4, <1>5, <1>7 DEF RestInv, Waiting

LEMMA RestFinishes ==
  ASSUME TypeOK, Alone, InStep, Posting, DenialInv, RestInv, Finishes
  PROVE  RestInv'
<1>1. /\ checkpoint'.next = Solo.goto /\ Solo'.pc # "commit" /\ Solo.goto # "RAISE"
      /\ UNCHANGED <<claim, events, approval>> /\ Solo.todo = <<>> /\ Solo.pc = "commit"
      /\ Solo.goto \notin Awaits \cup {"END"} => Solo'.pc = "run"
  BY IdleFields DEF Finishes
<1>2. checkpoint'.next = "w2_propose" => approval.status = "none"
  BY <1>1 DEF DenialInv, Proposed, AfterProposal, InStep, Stopped
<1>3. Solo.goto \in Awaits \cup {"END"} => claim.state = Solo.agg.state
  BY <1>1, SoloTask, RowState DEF Posting, Awaits
<1>4. CASE Solo.goto \in Awaits \cup {"END"}
  BY <1>1, <1>2, <1>3, <1>4 DEF RestInv, LastEvent, Awaits, Terminal
<1>5. CASE Solo.goto \notin Awaits \cup {"END"}
  BY <1>1, <1>2, <1>5 DEF RestInv, Waiting
<1> QED BY <1>4, <1>5

LEMMA StepRest ==
  ASSUME TypeOK, Alone, InStep, Untouched, Posting, DenialInv, RestInv, SoloStep, ~ Dies
  PROVE  RestInv'
<1>1. CASE Begins
  BY <1>1 DEF Begins, Untouched, RestInv, Waiting
<1>2. CASE Resumes \/ Raises \/ Executes \/ Approves \/ Answers \/ Looks \/ Disburses \/ Records
  BY <1>2 DEF Resumes, Raises, KeepsValue, Executes, Approves, Answers, Looks, Disburses, Records,
       Goes, RestInv, Waiting, durable
<1>3. CASE Decides
  <2>1. checkpoint.next = "w2_await"
    BY <1>3 DEF Decides, InStep, Stopped
  <2> QED BY <1>3, <2>1 DEF Decides, Goes, RestInv, Waiting
<1>4. CASE HasNothingToRun \/ Called
  BY <1>4, IdleFields DEF HasNothingToRun, Called, RestInv, Waiting, durable
<1>5. CASE GivesUp
  BY <1>5, IdleFields DEF GivesUp, RestInv
<1>6. CASE Injected
  BY <1>6 DEF Injected, RestInv, Waiting
<1>7. CASE Commits
  <2>1. LastEvent' = LastEvent
    BY <1>7, LastCommitted
  <2> QED BY <1>7, <2>1 DEF Commits, Goes, RestInv, Waiting
<1>8. CASE Rests
  <2>1. LastEvent' = LastEvent
    BY <1>8 DEF Rests, LastEvent, durable
  <2> QED BY <1>8, <2>1 DEF Rests, RestInv, Waiting, durable
<1> QED BY <1>1, <1>2, <1>3, <1>4, <1>5, <1>6, <1>7, <1>8, RestNodeEnds, RestFinishes DEF SoloStep

-----------------------------------------------------------------------------
UnbrokenInv == Unbroken => PaidInv /\ RejectInv /\ ClosedInv /\ RestInv

LEMMA InitUnbroken ==
  ASSUME Init, Alone
  PROVE  PaidInv /\ RejectInv /\ ClosedInv /\ RestInv
<1>1. Solo = IdleTask
  BY DEF Init, Alone, Solo
<1>2. NoCheckpoint.agg.paid = 0 /\ NoCheckpoint.next = "none"
  BY DEF NoCheckpoint, NewAggregate
<1> QED BY <1>1, <1>2, IdleFields DEF Init, NoRow, NoApproval, PaidInv, Left, Stopped, RejectInv, ClosedInv,
           RestInv

LEMMA UnbrokenAlways ==
  ASSUME Alone
  PROVE  Spec => []UnbrokenInv
<1>1. Init => UnbrokenInv
  BY InitUnbroken DEF UnbrokenInv
<1>2. TypeOK /\ ProjectionInv /\ ThreadInv /\ DenialInv /\ UnbrokenInv /\ [Next]_vars
        => UnbrokenInv'
  <2> SUFFICES ASSUME TypeOK, ProjectionInv, ThreadInv, DenialInv, UnbrokenInv, [Next]_vars, Unbroken'
               PROVE  PaidInv' /\ RejectInv' /\ ClosedInv' /\ RestInv'
    BY DEF UnbrokenInv
  <2>1. SoloStep
    BY OneOf DEF ThreadInv
  <2>2. ~ Dies /\ PaidInv /\ RejectInv /\ ClosedInv /\ RestInv
    BY <2>1, StaysUnbroken DEF UnbrokenInv
  <2> QED BY <2>1, <2>2, StepPaid, StepReject, StepClosed, StepRest DEF ThreadInv
<1> QED BY <1>1, <1>2, ThreadAlways, DenialAlways, PTL DEF Spec

(* Once nothing is in flight the claims row shows what left on the rail:   *)
(* one payment of the amount in it, or none (commit_transition, settle).   *)
THEOREM RowIsTrue ==
  ASSUME Alone
  PROVE  Spec => []RowShowsRail
<1>1. UnbrokenInv => RowShowsRail
  BY DEF UnbrokenInv, PaidInv, Left, Stopped, RowShowsRail, Quiet, Idle, Solo, Alone
<1> QED BY <1>1, UnbrokenAlways, PTL

(* After a rejection nothing is paid and no letter goes out (w2_await).    *)
THEOREM RejectedIsOver ==
  ASSUME Alone
  PROVE  Spec => []RejectionHolds
<1>1. UnbrokenInv => RejectionHolds
  BY DEF UnbrokenInv, RejectInv, RejectionHolds
<1> QED BY <1>1, UnbrokenAlways, PTL

(* What the row says the claim waits for is what its thread waits for, and *)
(* a closed or denied claim has no thread left to resume.                  *)
THEOREM RestsAtItsRow ==
  ASSUME Alone
  PROVE  Spec => []RestsWhereItWaits
<1>1. UnbrokenInv => RestsWhereItWaits
  BY DEF UnbrokenInv, RestInv, Waiting, RestsWhereItWaits, Quiet, Idle, Solo, Alone, Terminal
<1> QED BY <1>1, UnbrokenAlways, PTL

(* A closed or denied claim stays so, and a letter is not sent twice.      *)
THEOREM ClosedStays ==
  ASSUME Alone
  PROVE  Spec => ClosedIsFinal
<1>1. TypeOK /\ ProjectionInv /\ ThreadInv /\ UnbrokenInv /\ [Next]_vars =>
        [Unbroken => /\ claim.state \in {"CLOSED", "DENIED"} => claim'.state = claim.state
                     /\ letters > 0 => letters' = letters]_vars
  <2> SUFFICES ASSUME TypeOK, ProjectionInv, ThreadInv, UnbrokenInv, [Next]_vars, Unbroken
               PROVE  /\ claim.state \in {"CLOSED", "DENIED"} => claim'.state = claim.state
                      /\ letters > 0 => letters' = letters
    OBVIOUS
  <2>1. SoloStep
    BY OneOf DEF ThreadInv
  <2>2. CASE Dies
    BY <2>2 DEF Dies, world
  <2>3. CASE ~ Dies
    BY <2>1, <2>3, StepReject, StepClosed DEF ThreadInv, UnbrokenInv
  <2> QED BY <2>2, <2>3
<1> QED BY <1>1, ThreadAlways, UnbrokenAlways, PTL DEF Spec, ClosedIsFinal
================================================================================
