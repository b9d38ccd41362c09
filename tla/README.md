# Adjuster Zero in TLA+

Specifications, model-checking runs and machine-checked proofs for the claims
agent in this repository.  Paths below are relative to
`agent/src/adjuster_zero/` unless they start with `docs/`, `db/`, `web/` or
`README.md`.  `PROJECT.json` maps every definition to the lines it models.

## 1. The system

A claim comes in as a text. A LangGraph graph of fourteen nodes
(`graph/lifecycle.py`) extracts and classifies it with an LLM, investigates it
with tools, routes it by a rule table to one of five workflows, and works it
off: W1 pays at once, W2 asks a person, W3 and W5 hand it to people, W4 asks the
claimant for documents and routes again. State is in Postgres: the `claims` row
and its append-only `claim_events`, the `approvals` row, `tool_calls` with the
idempotency keys, and LangGraph's checkpoint of the thread.  A job of `pg_cron`
reminds claimants of documents they owe.

### Inventory

| component | state it keeps | operations | what makes it correct |
|---|---|---|---|
| lifecycle graph (`graph/lifecycle.py`) | the aggregate, carried from node to node | 14 nodes, `run_claim`, `resume_claim`, `_record_escalation` | money leaves only where routing allows it, once, and for the amount decided; the loop ends; every claim ends or waits for somebody who can go on |
| API service (`api/service.py`, `api/claims.py`, `main.py`) | the set of asyncio tasks | inject, resolve an approval, submit documents, storm; start and stop | a call that is accepted is worked off; a stale call harms nothing |
| claim store (`persistence/postgres.py`, `persistence/memory.py`) | row, events, approval, tool calls | `commit_transition`, `get_events`, `create_approval`, `resolve_approval`, `record_tool_call`, idempotency `get` | overlapping transactions leave a log and a row that is its projection; the timeline is causal |
| timers (`db/migrations/002_timers.sql`) | rows of `claim_events` | reminder and SLA jobs | a claim that waits is reminded, and once a day at most |
| routing rules (`router/rules.py`) | none (pure); thresholds in the `config` table | `route` | order of the rules; what a threshold change may move |
| triage evidence (`planner/*`) | none (pure) | completeness, citation floor, fraud score | weights and floors fit the thresholds |
| tool handlers (`tools/handlers.py`) | mock systems of record (`seed/data.py`) | the look-ups, screens and estimates `investigate` calls | dates and windows at their boundaries; an outage neither denies nor pays |
| tool executor (`tools/executor.py` and its tables) | idempotency store, `tool_calls` | `execute` | a recorded success is found and not repeated; each gate holds |
| LLM client (`llm/client.py`, `llm/rate_limiter.py`) | a token bucket and a queue per model, `llm_usage` | `generate_structured`, `embed`, `acquire` | bounded retries; the rate per window; fair queues; what is counted is what was answered |
| dashboard (`web/`) | none | the calls people make | which calls are offered in which state |
| evals (`evals/run.py`) | report | replay of the golden set, quota guard | |
| retrieval, journey, analytics, contact, seed | read-only or unrelated | | |

### How the parts interact, and what is hard

`inject_*` commits RECEIVED and starts an asyncio task (`_run_fresh`).
`resolve_approval` and `submit_documents` each start another (`_resume`) on the
same thread, after looking at no more than whether the approval exists.  Nothing
serialises the tasks of one claim; they interleave at every `await`.  Each node
commits its transitions itself, one database transaction per transition, and
LangGraph writes the checkpoint afterwards, so a crash or an exception in
between leaves row and checkpoint at different places.  Inside a payment there
are three separate steps (look the key up, call the rail, record the call).
`_check_budget` raises after a node's commits and before its checkpoint, and
`run_claim` catches that exception (`EscalateToHuman`) and no other: anything
else ends the task where it is, and nobody is told.  Two transactions on one
claim take the time (`now()`), the row lock and the event id at three different
moments.  All LLM calls of the process share one limiter per model, whose lock
is held over its sleep.  The hard behaviours are therefore overlapping resumes,
stale calls, restarts and dying tasks between steps, exceptions after a commit,
overlapping transactions, failing tools whose defaults are routed on, retries
under a shared limit, and the ordering of gates.  `PROJECT.json` lists each
hazard at its line.

## 2. Modules

| module | models | checked by | proved in |
|---|---|---|---|
| `Routing` | `router/rules.py`, and the tiebreak and degraded cap of `route_node` | through those below | |
| `Triage` (extends `Routing`) | completeness, citation floor, fraud score, `WithDocuments`, assembly of `RouterInput` | through those below | |
| `TriageReplay` (extends `Triage`) | one claim's evidence getting worse, documents coming in, no guideline being found, and the ceiling raised by a new config version, the decision recomputed in every state | `MCTriageReplay` | `TriageReplayProofs` |
| `Investigation` (extends `Triage`) | `investigate` call by call: the handlers over a world of policies and histories, each outside call failing or not, routing, the document loop | `MCInvestigation` (two cfgs) | `InvestigationProofs` |
| `ClaimLifecycle` (extends `Triage`) | graph, store, checkpoint, payment, API calls, restarts, dying tasks | `MCClaimLifecycle` (two cfgs) | `ClaimLifecycleProofs`, `ClaimThreadProofs` |
| `ClaimDocs` (extends `ClaimLifecycle`) | two sentences of the documentation the code does not keep | `MCClaimDocs` (two cfgs) | |
| `ToolExecutor` | `execute` for every tool, over the `tool_calls` table that all tasks share and over a dictionary for each task | `MCToolExecutor` | `ToolExecutorProofs` |
| `ClaimLog` | abstract: a log of transitions and the claim as its projection | | |
| `ClaimTables` (instantiates `ClaimLog`) | the transactions on `claims` and `claim_events`, the reminder job, the clock | `MCClaimTables`, `DocsTimeline` | `ClaimTablesProofs` |
| `CallQueue` | abstract: a fair queue | | |
| `TokenBucket` (instantiates `CallQueue`) | `llm/rate_limiter.py` | `MCTokenBucket` | `TokenBucketProofs` |
| `GeminiClient` (instantiates `CallQueue` twice) | `llm/client.py` over one queue per model | `MCGeminiClient` | `GeminiClientProofs` |

How they compose.  `ClaimLifecycle` takes from a constant what `investigate`
leaves on the aggregate; `Investigation` computes it, and its `TypeOK` says that
every report is one the lifecycle allows.  `ClaimLifecycle` commits a transition
in one step; `ClaimTables` shows that the transactions implement that step
(`ImplementsClaimLog`).  The payment inside a node is the path of
`payment_execute` through `ToolExecutor`.  `GeminiClient` uses its limiters as
`CallQueue`, which `TokenBucket` implements, and ends in the two outcomes that
`ClaimLifecycle` knows of an LLM call.

An operator `Foo_Bar` next to `Foo` is `Foo` with a bug the code could have.  No
specification uses it; each property is tried against one, to show that it
would notice.

### ClaimLifecycle: state and actions

One claim, hence one thread, one row, one approval (its id is a function of the
claim id, `approval_id_for`) and one payment key.

| variable | code |
|---|---|
| `claim` | the `claims` row: state, workflow, reserve, paid |
| `events` | `claim_events`: the type, the workflow ROUTED names, the amount SETTLED names |
| `approval` | the `approvals` row: status, and type and amount of `requested_action` |
| `toolCalls` | `tool_calls.idempotency_key` of rows with `status = 'ok'` |
| `checkpoint` | latest LangGraph checkpoint: next node, aggregate, and the resume value an interrupted node that failed was given |
| `rail`, `letters` | what reached the outside: payments in order, each with the evidence it was routed on; denial letters |
| `tasks` | the asyncio tasks, each with its program counter, node, aggregate, payment in progress and transitions still to commit |
| `sanctionsDown` | `settings.sanctions_unavailable`, read anew at a restart |
| `decisions` | history variable: the resolutions people submitted |
| `strayed` | history variable: whether a client made a call the dashboard did not offer in that state (`Offering`) |
| `resumes`, `crashes` | counters of the bounds `MaxResumes`, `MaxCrashes` |

A node is one action that computes the aggregate and lists its transitions
(`Extract`, `Classify`, `Investigate`, `RouteNode`, `Settle`, `Close`, `W2Deny`,
`W2Pay`, `Escalate`, `W4Request`, `W4Await`); `CommitNext` then commits them one
by one and `Finish` writes the checkpoint and starts the next node, or
`RecordEscalation` if the node raised.  `W1Execute` commits EXECUTING itself,
because the payment comes after that commit.  A payment runs through
`PayRefused`, `PayInvalid`, `PayLookup`, `PayRail`, `PayRecord`, in the order of
`ToolExecutor.execute`, and comes back in `W1Paid` or `W2Paid`.  `w2_await` is
`W2Resolve` (the UPDATE) followed by `W2Rejected`, `W2Denied` or `W2Approved`.
`Inject`, `Resolve` and `SubmitDocuments` are the API; `Crash` ends all tasks, and
`TaskDies` ends one at any step, as every exception but `EscalateToHuman` does (a
lost database connection, a refused embedding).

Abstractions.  LLM answers, tool results and token costs are picked from
constant sets.  Scores are percentages, amounts whole dollars.  A field of an
extraction is a name with or without a value and high or low confidence.
Decision-log rows, rationales, letters' texts and read-only tool calls are left
out.  Reading an approval together with acting on it is safe to merge because
`requested_action` never changes after the insert (`ON CONFLICT DO NOTHING`).
`create_approval` and `reserve_set` are merged with the body of `w2_propose`:
each is an insert that a repeat leaves alone.  For the same reason a modify that
names no amount is modelled as one to the proposed amount, which it then pays
(`AmountToPay`).  The store is the one on Postgres, and so are the guarantees: without
a database the payment key is forgotten with the task that used it (see
`ToolExecutor`), and `RecordedPaymentIsFinal` does not hold.

LangGraph is external and modelled from how the code relies on it: a checkpoint
per completed node; a resume runs the node the latest checkpoint names, from its
beginning; the interrupt of an await node returns the resume value; a resume of
an unknown or finished thread runs nothing; invocations of one thread do not
exclude each other.  When an await node has raised, the value it was resumed
with is kept with its checkpoint, and a later resume may get either value, so
`StartResume` allows both.

### Investigation: state and actions

The locals of `investigate` are the record `found`, with the defaults the node
starts from; `facts`, `extraction` and `replans` are of the aggregate; `history` is
the claimant's past in the system of record; `settings` are read anew by every
process.  There is one action for each call of the node that reaches outside or
decides something: `LookUpPolicy` (with `coverage_check`), `Search`, `Determine`,
`ScreenNarrative`, `CheckDuplicates`, then `RouteClaim`.  The guideline index, the
narrative screen and the embeddings of the duplicate check can fail; the node then
goes on with its defaults, and the history variable `lost` keeps which control
failed.  `ReceiveDocuments` is `w4_await` and the loop back.  Days are numbers, a
policy is its number, a prior claim has a date, the same peril or another, and a
similarity.

### TriageReplay: state and actions

The state is one claim's evidence and the active config, and the decision (`Routes`) is
recomputed from them.  `lookup` is what `policy_lookup` and `coverage_check` reported,
`grounded` whether `guideline_search` gave chunks (and there was a policy id) to ask the
LLM with, `determination` what it answered.  `CoverageNow` is what the node hands on: the
determination under the citation floor if grounded, otherwise the pre-screen as it is,
with its confidence and without a citation.  Signals come up (`RaiseSignal`), citations and
controls go down (`LoseCitations`, `DegradeControl`), guidelines are not found
(`LoseGuidelines`), a claim in W4 gets documents, which clear its missing list whatever
they bring (`ReceiveDocuments`), and a config version raises the ceiling
(`RaiseCeiling`).

### ToolExecutor: state and actions

Each element of `Calls` is one `execute`, made by one of `Tasks`, each of which works on
one claim (`Subject`) and makes its calls one after the other (`Live`).  `Execute` is everything up to the first
await, with one disjunct per outcome (`Refuse`, `Block`, `Proceed`); `Look` is the
idempotency lookup; `Succeed`, `Fail` and `Malform` are what a handler may do,
including to act and raise; `Record` is the insert with its `ON CONFLICT`;
`DatabaseFails` raises from the lookup or the insert; `Crash` ends all tasks.  `acted`,
`late` and `life` are history.  `_build_deps` builds the executor and, without a
database, its dictionary anew for every task, so `cache` has one for each.  A key is
reduced to what decides a lookup: the claim and the tool for a tool that carries
an `idempotency_key`; for the others the hash of the arguments, which does not name the
claim and may be the same for two.  `Kept` says what a store owes: the table the keyed
successes, to every task for ever; a dictionary all successes, to its own task.

### ClaimTables: state and actions

`commit_transition` on Postgres is `Begin` (which fixes `now()`), `Upsert` (which waits
for the row), `InsertEvent` (which takes the id), `Commit`, or `Abort` at any of them;
in memory it is `CommitInMemory`.  The reminder job is `JobStarts`, which reads what is
committed, and `JobCommits`.  `Tick` is a day, and no transaction outlasts the day
after the one it began on.  `transitions` and `reminders` hold committed rows in the
order of their commits, `txn` and `job` what is under way, `holder` the row lock,
`lastId` the sequence.  `seen` is history: what was committed when a transaction began.

### TokenBucket and GeminiClient: state and actions

The bucket counts in ticks, so a token is `Cost` of them and nothing is rounded.
`level` is the bucket, `holder` and `waiters` the `asyncio.Lock`, `sleep` the sleep under
the lock, `ages` the history that `WindowBounded` is about.  `Acquire`, `GetLock` and
`WakeUp` each try once (`Try`); `Early` lets a timer fire before its time, upon which the
code sleeps again.

A call of `GeminiClient` moves through `queued`, `calling`, `counting` (the await of
`increment_rpd`), `backoff` and an end.  Its actions are named for what the provider
or the database does: `Refused`, `Answered` and so on, with the downgrade at the
second strike and one repair.  `usage` is `llm_usage`; `pool` says whether there is a
database, without which calls go on and nothing is counted.

## 3. Runs

| run | instance | shows |
|---|---|---|
| `triage_replay` | extractions, determinations, classifications and amounts on both sides of each threshold; six kinds of look-up, guidelines found or not, two uploads; four of the six signals, citation loss, a degraded control; two config versions | the thresholds, weights and floors fit together |
| `investigation` | three policies and an unknown number, losses on and off the edges of the cover, priors on and off 24 months and both similarity thresholds; every control may fail; two re-plans | what is paid is in force, known duplicates stop, outages deny nobody |
| `one_task` | 1 task at a time, any HTTP client, one death of a task or restart, `FairSpec` | row, rail, approval and checkpoint agree when the service is quiet; payments are signed and final; calls are worked off |
| `race` | 2 tasks, the dashboard's calls, one death or restart, slots symmetric | the four invariants that are also proved |
| `tool_executor` | 3 executions out of 7 requests, by 3 tasks of 2 claims, 1 restart, both stores, symmetric | keys, records and gates under overlap and failure |
| `claim_tables` | 2 writers, 3 days, 3 ids, both stores, `FairSpec` | the tables implement the log; the timeline is causal; reminders come, and not twice |
| `token_bucket` | 3 callers, 3 tokens of 2 ticks, timers 1 tick early, `FairSpec` | the bucket bounds every window and implements the fair queue |
| `gemini_client` | 2 calls, 4 attempts, with and without a database, `FairSpec` | calls end, answers are counted for the right model, the queues stay fair |
| `docs_*` | as `race` without the crash, `investigation`, `claim_tables` | four sentences of the docs that the code does not keep (section 5) |

Properties, by what they would catch:

- `AutoPaidIsClean`: a weight, a floor, a cap or a rule's position that lets a
  suspicious or duplicate claim, an uncited determination or a claim that lacks a
  required field through R-03, which itself tests little of this.  Two cases it has to
  leave open, because the code pays them: a pre-screen that stands for want of chunks
  has no citation, and an upload has cleared the missing list, so that of the required
  fields only the policy number is sure to be there.
- `WorseEvidenceNeverEases`, `CeilingOnlyAdmits`: non-monotone routing.  The second
  allows what the table really does: with a ceiling above `high_amount_min`, R-03
  takes claims that R-05 would have sent to a senior adjuster.
- `AutoPayIsInForce`: a policy, a date or a determination of an earlier round that
  survives an upload, or a window that is one day off.
- `KnownDuplicatesStop`: a duplicate that escapes at the edge of 24 months, or behind
  an earlier rule.
- `DenialsHaveGrounds`: an outage whose defaults read as "not covered".
- `RowShowsRail`: reserve or amount that differs from the money that left, double
  payments, compensation that forgets.
- `RejectionHolds`, `ClosedIsFinal`: a stale or repeated resolve that pays, sends a
  letter or reopens after the decision.
- `ReplansBounded`: the counter in the checkpoint, over several pauses; each node cut
  off between commit and checkpoint is counted once more.
- `RestsWhereItWaits`: the row says the claim waits for X and the thread waits for
  something else, or for an approval nobody will see.
- `ReceivedClaimsSettle`, `CallsAreServed`: an exception path or loop that leaves a
  claim in the middle for ever.
- `SignedPayments`, `DeniedClaimsAreNotPaid`: an approval acted on for another
  amount, or after a re-plan changed what is proposed.
- `RecordedPaymentIsFinal`: the idempotency key across retries and restarts, in the
  table.
- `StateIsProjection`, `DisbursementsAreRouted`, `ApprovalBeforeAwait`: what must
  survive overlapping tasks and crashes.
- `AnsweredIsFindable`, `RepeatsDoNotAct`: a failed attempt that takes the slot of its
  key, or a lookup in a store that does not outlive the task where it should.
- `CachedIsOwn`: a read answered with another claim's, whose hash is the same; a store
  of hashes wider than the task would do it.
- `EffectsAreGuarded`: a gate left out or passed before routing.
- `IdsFollowCommits`, `TimelineIsCausal`: an event that seems to precede its cause.
- `RemindersSpaced`, `OverdueIsReminded`: a slow job, the next run, or a transition in
  between, that reminds twice or never.
- `ImplementsClaimLog`, `ImplementsCallQueue`, `QueuesAreFair`: the refinements.
- `WindowBounded`: more calls within a minute than a full bucket and its refill.
- `UsageIsAnswers`, `EveryCallEnds`: what the quota guard reads after a downgrade or a
  repair, and an answer that a call goes on from uncounted; a retry loop that does not
  end.

Each module's `TypeOK` also carries its numeric bounds: scores stay percentages, the
reserve never goes negative, the bucket stays between empty and full, attempts stay
within the limit, no failed row has a key, ids are never reused.

**Which guarantees hold where.**  The properties of `one_task` are stated without
overlap, because the code has no lock per claim and no intent record for a payment.
Those that begin with `Unbroken` hold up to the first restart or death of a task,
since nothing takes up a task again; the others hold across them.  `SignedPayments`
further asks that people use the dashboard, which offers a call only where it fits
(`strayed`); what an upload at the wrong place does is `docs_signature`.
`KnownDuplicatesStop` is about a check that answered; what happens when it did not is
`docs_fail_closed`.  The places where guarantees end are hazards with a note, or the
findings of section 5.

**Bounds and why they are enough.**  In `one_task`, `MaxResumes` 3 (race 2) is more calls
than any path to an end needs (at most upload, upload, resolve), so stale calls on a
finished thread happen.  `MaxReplans` is 1 (2 in production): one re-plan passes and
the second reaches the limit; one of the two readings lacks the policy number and has a
field that an upload of the number leaves unreadable, so the loop does come round twice.
Costs {1, 9} against a budget of 9 exhaust it at any node, the first included, and also
not at all; the race uses cost 1, since its properties do not depend on
where a node raises and `LLMFails` makes nodes raise anyway.  The investigations lead
to each workflow, the tiebreak, a denial and an unknown policy; the
race keeps four that differ in how a payment ends, the degraded cap among them.  Modified
amounts {0, 1000} and the one proposed include the one the schema refuses.  One break (`MaxCrashes` 1, shared by `Crash` and
`TaskDies`) can hit any step; more change little, for a break forgets what it ends.
Two tasks suffice for every pairwise interleaving; what is proved about overlap holds
for any number.

`investigation` takes losses on days 999, 1000, 1500, 2000 and 2001 against a cover of
1000 to 2000, a text that is no date and none, priors 730 and 731 days before, and
similarities 84, 85 and 90; one claim meets every pair of document and notice.
`tool_executor` needs three executions: one that fails, one that succeeds, one that
repeats; the requests meet each gate from both sides, and one read asks the same for
every claim.  Two tasks of one claim and one of another are the ways two calls can be
related.  `claim_tables` needs two
overlapping transactions and a third after both (`MaxIds` 3, shared with reminders),
and three days so that two reminders, and a transaction that outlasts a day, fit;
the intervals are one day each.  `token_bucket` has as many callers as tokens, so that a
queue builds up while the bucket refills.  In `gemini_client` four attempts are one
before, one at and two after the downgrade, in each of the two rounds.

**Fairness.**  `ClaimLifecycle` has weak fairness of each task's next step, and of nothing
else: the event loop runs every task that can run, and each `await` inside a node
returns or raises.  People, clients and crashes owe the service nothing.  In
`ClaimTables` time passes, `pg_cron` runs its job, and a transaction that has begun ends
one way or the other; no task has to commit anything.  In `TokenBucket` time passes and
the event loop hands on the lock and wakes the sleeper; in `GeminiClient` each call goes
on, because the provider, the database and the limiter answer or raise.

**Deadlock** checking is on for `token_bucket`, which never stops.  Everywhere else the
system legitimately stops when the calls of the bound are spent and nobody owes
another one.

## 4. Proofs

All theorems hold for arbitrary constants: any number of tasks, executions, writers,
calls and callers, any evidence, policies, histories and config.  They use the named
assumptions on the constants, which TLC evaluates in the runs; those of
`ClaimThreadProofs` have one hypothesis more, explained there.  Every safety invariant
and every `[][A]_vars` property of the passing runs is proved.

`ClaimLifecycle` under any overlap (`ClaimLifecycleProofs`, from `LifecycleAssumption`):

- `TypeCorrect`: `Spec => []TypeOK`.  One lemma per group
  of actions.  The arithmetic that could leave the naturals is the reserve.
- `RoutedPayments`: `Spec => []DisbursementsAreRouted`.  Not
  inductive by itself: a rail entry is made long after routing, possibly by
  another task that started from a checkpoint.  `RoutedInv` adds that every
  aggregate that sits at or is on its way to a paying node, in a task or in the
  checkpoint, carries a workflow that its own evidence allows.  The core is a
  lemma on `RoutesOf`: W1 implies straight-through evidence and intact controls,
  W2 excludes a hard signal.
- `Projection`: `Spec => []StateIsProjection`.
  `ProjectionInv` adds that every transition a task still has to commit pairs its
  event with a state that goes with it; what W2's nodes and the compensation
  assume about the aggregate is discharged there.
- `ApprovalFirst`: `Spec => []ApprovalBeforeAwait`.
  `ApprovalInv` adds that an approval exists whenever the checkpoint or a task is
  at, or about to reach, `w2_await`, that existing approvals have a proposal, and
  that approvals are never un-created.
- `BoundedOverlap`: a claim is paid at most `Cardinality(Slots) * (crashes + 1)` times,
  for finitely many slots: once by each task that runs at the time, and again after each
  restart or dead task.  `OverlapInv` says why.  Before the first payment is recorded,
  every payment belongs to a task that is about to record it or was cut off; afterwards
  the lookup lets nobody through, and who is still at the rail is one payment to come.
  This is what is left of paying once where `Alone` does not hold, and it bounds the
  payment that a crash before the record repeats.

`ClaimLifecycle` with one task of a claim at a time (`ClaimThreadProofs`, the same
assumptions and the hypothesis `Alone`, that `Slots` has one element).  Calls, re-runs
after a raise, restarts and dying tasks are all still there; only overlap is not.  The
hypothesis is the line the code draws itself, for nothing in it serialises two resumes
of a claim, and none of the eight theorems holds without it: with two slots TLC finds a
counterexample to each property, after two calls, or three for `DeniedClaimsAreNotPaid`
(two uploads plan differently, the first one's proposal stays, the second one's
checkpoint is the one that is approved).

The common ground is `ThreadInv`, about the one task and the checkpoint it started from:
`InStep` (the task runs the node the checkpoint names, on its aggregate until the node is
done), `Untouched` (before the first node there is nothing but the row) and `Posting`
(what is left to commit are rows of the aggregate the task goes on with, and none left
means the table has it).  Each action is first reduced to one of nineteen short
forms (`SoloStep`: a node ends, the rail pays, a transition commits, the task dies, ...)
by the lemma `OneOf`, so that an invariant is shown against the forms and not once more
against every node.

- `PaidOnce` for `RecordedPaymentIsFinal`: `FreshKey`, that a task about to call the rail
  has looked the key up and nobody has recorded it since.
- `DeniedIsNotPaid` for `DeniedClaimsAreNotPaid`: the property looks at payments,
  `DenialInv` carries its reason from `route_node` on: a checkpoint at a paying node has
  the evidence its rule admits, and one at `w2_await` a proposal that denies exactly if
  the evidence does.  An approval row is there only from `w2_propose` on, and no way leads
  from there back to a re-plan, so `ON CONFLICT DO NOTHING` never keeps the proposal of an
  earlier plan.
- `PaymentsAreSigned` for `SignedPayments`: `SignInv` and `ResolvedInv`, that a value on
  which `w2_await` runs came from a resolution as long as nobody has strayed; an upload
  only ever reaches `w4_await` because INFO_PENDING in the row means that the thread is
  on its way there (`ParkedInv`).
- `ReplansAreBounded` for `ReplansBounded`: `ReplanInv` compares the log with the counter
  in the checkpoint: they differ by the cut-offs so far, and by the upload a task has
  committed and not yet checkpointed.
- `RowIsTrue`, `RejectedIsOver`, `RestsAtItsRow` and `ClosedStays`, for `RowShowsRail`,
  `RejectionHolds`, `RestsWhereItWaits` and `ClosedIsFinal`: four invariants that need
  each other, and hold until a task is cut off (`UnbrokenInv`).  `PaidInv` follows the
  amount from the rail through the result of the call, the aggregate and the checkpoint
  into the row, and knows that what comes after a payment is only `settle` and `close`,
  which neither pay nor raise before the amount is in the row.  `RejectInv` and
  `ClosedInv` say that a claim that is over has its thread at the end or on its way
  there.  `RestInv` says where a thread rests for each state a row can be in.

`Investigation` (`InvestigationProofs`, from `InvestigationAssumption` and
`FloorAssumption`, that the citation floor lies below `coverage_conf_min`):

- `TypeCorrect`: what the node leaves is what `ClaimLifecycle` takes from a constant.
- `InForce`: `Spec => []AutoPayIsInForce`.  The property is about a routed claim, its
  reasons were gathered calls earlier.  `InForceInv` carries, from the lookup to the
  routing, what `active` and the pre-screen say of the policy on file now, and that an
  uncited determination stays at the floor, so that R-03 cannot admit it.
- `Denials`: `Spec => []DenialsHaveGrounds`.  `DenialInv` adds to `InForceInv` that,
  whatever calls failed so far, what the locals say against the claim has its reason
  in the policy on file or the day of the loss until a grounded determination takes
  the place of the pre-screen, and that R-02 fires for no other reason.
- `DuplicatesStop`: `Spec => []KnownDuplicatesStop`.  `DuplicateInv` keeps what an
  answering check saw up to the routing, where R-00 comes first for an exact match,
  and the one signal of a narrative match already reaches `fraud_low`
  (`WeightAssumption`).  That the similarities have a largest one, which is the one the
  check reports, comes from the well-foundedness of the naturals.

`TriageReplay` (`TriageReplayProofs`, from `ReplayAssumption`, `ExtractedAssumption`,
`LookupAssumption` and `ThresholdAssumption`): the invariant `Replayed` is little more than types, the
work is in the rule table.  `OutcomeIs` reads the recorded workflows off the first
rule that fires.

- `CleanAutoPay`: `Spec => []AutoPaidIsClean`.  Each part comes from a different place:
  R-00 and R-02, the completeness floor (two of three required fields make 66
  percent), the citation floor, the cap, and the weight of an implausible narrative.
  After an upload, that the policy number is there comes from the look-up: without one
  nothing is looked up, and the claim has no active policy.
- `Monotone` and `CeilingAdmits`: the two action properties, from a relation `Worse`
  on inputs that every step of `Worsen` is in.  The point is in the citations: an
  uncited exclusion is *weaker* evidence for R-02, so losing the citation could let a
  claim pass it, and the same floor then shuts R-03.  `LoseGuidelines` is not in `Worsen`:
  it takes the doubts of the determination away too, and the pre-screen may be paid
  where the determination was not.

`ToolExecutor` (`ToolExecutorProofs`, from `ExecutorAssumption`):

- `TypeCorrect`, and `Findable` and `NoRepeat` for `AnsweredIsFindable` and
  `RepeatsDoNotAct`.  `IInv` adds that rows belong to executions that are over, that a
  success on its way to the record is remembered or about to be, and that an
  execution that began late finds its key whenever it looks: in the table for ever, in
  the dictionary of its task because only a restart empties it, which ends the task.
- `Guarded` for `EffectsAreGuarded`: `Passed` says that who looks, acts or has acted
  passed the allow-list and the argument checks with the request it still has.
- `CachedOwn` for `CachedIsOwn`: `OwnInv` says that every key that is remembered,
  recorded or answered from belongs to an execution that acted and succeeded with it.  A
  key of the table names claim and tool.  A hash names no claim, so the invariant keeps
  apart what each task's dictionary holds, and says that it came from that task.

`ClaimTables` (`ClaimTablesProofs`, from `TablesAssumption`):

- `TypeCorrect`.  The types of events and transactions depend on `lastId`, so
  `InsertEvent` and `JobCommits` widen them.
- `IdOrder` and `CausalTimeline`: `OrderInv` says that whoever is past the upsert holds the
  lock, that the newest id of a transition is the last in the sequence, and that
  what was committed when a transaction began has a smaller `ts`, or the same and a
  smaller id, than the transaction will write.
- `Spaced`: a job that has read but not committed is still due at the time it began,
  which is the time it will write, because nobody else writes reminders.
- `Implementation`: `Spec => ImplementsClaimLog`, step by step: `Commit` and
  `CommitInMemory` are transitions of the log, everything else stutters.

`TokenBucket` (`TokenBucketProofs`, from `BucketAssumption`):

- `TypeCorrect`, and `BoundedWindow` for `WindowBounded`.  The invariant bounds the calls
  of every suffix of the history by what the bucket could have held then and has been
  given since.
- `ServedInOrder`: `Spec => Queue!Order`, the steps of `ImplementsCallQueue`.  The line is
  the sleeper that holds the lock and those behind it, which takes `OneHolder`: at most
  one caller holds the lock.  A caller that finds the bucket empty joins although nobody
  is before it; falling asleep and waking too early are stutters.

`GeminiClient` (`GeminiClientProofs`, from `ClientAssumption`; `Calls` may be infinite):

- `TypeCorrect`: the attempts and rounds stay within their limits.  `CallsInv` goes with
  it: a call has one answer for each round it is through with, and the one it is about to
  count is the last, not marked yet, and of the model it will be counted for.
- `UsageCounts` for `UsageIsAnswers`: a step that counts marks one answer that was not
  marked, of the model whose row it increments; `UsageInv` carries that the marked ones
  are finitely many.  That with a database nothing but the last answer of a call can
  be unmarked follows the call through the count to its repair.
- `QueuesKeepOrder`: the steps of `QueuesAreFair`.  `QueueInv` says that whoever is in the
  line of a model is queued for it and stands in it once, so that a call never joins
  twice and the one that is let in is no longer waiting.  For each limiter every step is
  then a join, an admission, a leave or a stutter.

Only model-checked: what needs fairness or ENABLED, which TLAPS cannot prove.  These are
`ReceivedClaimsSettle`, `CallsAreServed`, `OverdueIsReminded`, `EveryCallEnds`, and of
`ImplementsCallQueue` and `QueuesAreFair` the part that nobody waits for ever.

## 5. What the documentation says and the code does not do

| run | the sentence | what happens |
|---|---|---|
| `docs_double_pay` | `docs/MANUAL.md:642` "you can't double-pay" | an approval is resolved twice; both resumes look the key up before either records its payment; two payments reach the rail |
| `docs_signature` | `README.md:20` "a hard-coded policy tier or a human signature" | two uploads are accepted while INFO_PENDING; the first takes the thread to `w2_await`; the second resumes it there without a resolution, which `w2_await` reads as "approve" |
| `docs_fail_closed` | `docs/MANUAL.md:450` "index down → degraded mode" | the embeddings of the duplicate check fail; the handler loses the exact matches it had, `investigate` goes on without any and `degraded` stays unset; a known duplicate goes to W1 |
| `docs_timeline` | `docs/MANUAL.md:580` "the claim is a projection of these" | of two overlapping commits the one that began first waits for the row and commits last; the row shows it, the timeline ends in the other |

Met while modelling, without a run of its own:

- `domain/states.py:28` calls ESCALATED terminal; `w2_propose` can list its approval and
  then raise for the budget, and resolving the listed approval runs the thread on.
- A compensated payment leaves REVIEW_PENDING with no pending approval and a thread at
  its end, where `docs/MANUAL.md:543` parks it for review.
- `docs/DECISIONS.md:366` defines completeness as a projection of the required facts; any
  upload sets it to 1.0 and clears the missing list (`graph/lifecycle.py:571`).
- A first run that raises after ROUTED writes its initial aggregate back, so the row
  loses its workflow (`graph/lifecycle.py:654`, against `domain/events.py:4`).
- `tools/workflows.py:5` has payment in W1's allow-list only; W2 has it too, as a later
  comment of the file says.
- A full bucket and a minute's refill admit up to twice the RPM of `llm/rate_limiter.py:3`.
- `llm/client.py:1` promises retries; `embed` has none.  A repair counts the tokens of its
  own answer and not of the one it repairs.
- The sanctions gate comes before the idempotency lookup (`tools/executor.py:104`): the
  repeat of a payment that was made reports a refusal.  Calls that are blocked or
  refused leave no `tool_calls` row.
- A narrative that is 0.82 to 0.85 similar is listed and adds no signal.
  `count_24m` of `claim_history` counts all priors (`tools/handlers.py:196`).
- A policy number that is unknown leads to a proposal to deny (R-02), where
  `docs/MANUAL.md:445` escalates.  A loss date that cannot be read skips the window.
- `claims.version` (`db/migrations/001_init.sql:57`, "optimistic lock") is incremented and
  never compared.  `sla_at` is always NULL, so the SLA job never finds a row.
- `docs/MANUAL.md:546` has uncited determinations floored to human review.  The floor is
  put on the LLM's determinations only.  When `guideline_search` finds no chunks, the rules
  pre-screen stands with its 0.94 and no citation (`graph/lifecycle.py:219`), and R-03 pays
  it straight through.
- Without a database each task has an idempotency store of its own
  (`api/service.py:68`), while the checkpoints last as long as the process: the next
  task that resumes the thread does not find the payment's key and pays again, against
  `docs/MANUAL.md:543` (payments "reconcile before any retry") and `docs/MANUAL.md:642`.
- `create_approval` in memory overwrites where Postgres keeps the first row.

## 6. Not modelled, and plan

Not modelled: evals (a batch loop that shares no state with the claims of the
service, and its quota guard); journey and analytics (read-side reports; the order
they rely on is checked in `ClaimTables`); the ranking of retrieval; contact intake;
the offline planner and the demo data; pool lifecycle and migrations; rendering.  Of
the service, the read endpoints and `storm`, which is a loop over `inject`; of the
store, the write-only logs of decisions, executions and leads.  The SLA job has no
behaviour to check, since its guard is false in every reachable state.

Possible next steps, in this order:

1. `ClaimContract`: an abstract claim (received, waiting, paid, denied, handed over) that
   `ClaimLifecycle` implements with one unbroken task at a time, checked as a
   refinement and then proved from `UnbrokenInv`.
2. `Evals`: the quota guard against what a run spends.
