----------------------------- MODULE ToolExecutor -----------------------------
(***************************************************************************)
(* The tool executor (tools/executor.py): every call the graph makes goes  *)
(* through execute, which checks the allow-list, the sanctions outage and  *)
(* the arguments, looks for an earlier result, invokes the handler and     *)
(* records the call.  The service builds an executor for each of its tasks *)
(* (api/service.py): a task is one run or resume of one claim, and its     *)
(* calls follow each other.  The idempotency store is the tool_calls table *)
(* (persistence/postgres.py), which all tasks share, or, without a         *)
(* database, a dictionary that is built with the executor.                 *)
(*                                                                         *)
(* Each element of Calls is one execution.  Those of different tasks, of   *)
(* one claim or of several, overlap at every await, and the service may    *)
(* stop anywhere.  What a handler does is left open: it succeeds, fails,   *)
(* breaks off after or before it acted, or returns something that is not a *)
(* result.                                                                 *)
(*                                                                         *)
(* An operator named Foo_Bar is Foo with a bug the code could have.  No    *)
(* specification uses it; it is what a property is tried against.          *)
(***************************************************************************)
EXTENDS Naturals, FiniteSets

CONSTANTS
  Calls,       \* the executions
  Tasks,       \* the tasks they are made by
  Claims,      \* the claims of the service
  Subject,     \* the claim a task works on
  Args,        \* arguments of tools without an idempotency_key
  Requests,    \* what the executions ask for
  MaxCrashes   \* bound: how often the service stops

-----------------------------------------------------------------------------
ReadOnly ==
  {"policy_lookup", "coverage_check", "repair_cost_estimator", "claim_history",
   "duplicate_claim_check", "fraud_signal_scan", "weather_event_verify",
   "guideline_search", "sanctions_watchlist_check"}

Writing  == {"reserve_set", "document_request_create", "escalate_to_human"}
External == {"payment_execute", "customer_comm_send"}

Tool == ReadOnly \cup Writing \cup External

RiskTier(tool) == IF tool \in ReadOnly THEN 0 ELSE IF tool \in Writing THEN 1 ELSE 2

Idempotent ==
  {"policy_lookup", "repair_cost_estimator", "reserve_set", "payment_execute",
   "claim_history", "duplicate_claim_check", "weather_event_verify",
   "sanctions_watchlist_check", "guideline_search"}

(* Tools whose arguments carry an idempotency_key.                         *)
Keyed == {"reserve_set", "payment_execute"}

Workflow == {"W1", "W2", "W3", "W4", "W5"}

AllowList(workflow) ==
  ReadOnly \cup
  CASE workflow = "W1" -> {"reserve_set", "payment_execute", "customer_comm_send"}
    [] workflow = "W2" -> {"reserve_set", "payment_execute", "customer_comm_send",
                           "escalate_to_human"}
    [] workflow = "W3" -> {"escalate_to_human"}
    [] workflow = "W4" -> {"customer_comm_send", "document_request_create",
                           "escalate_to_human"}
    [] workflow = "W5" -> {"customer_comm_send", "escalate_to_human"}

(* A call: before routing its workflow is "none".  Of the arguments only   *)
(* what the schemas judge and the keys distinguish is kept; args stands    *)
(* for all the hash is taken of, which may be the same for two claims.     *)
Request ==
  [workflow   : Workflow \cup {"none"},
   tool       : Tool \cup {"unknown"},
   args       : Args,
   amount     : Nat,
   authorized : BOOLEAN,      \* a gate or an approval is referred to
   send       : BOOLEAN]      \* mode of customer_comm_send

ASSUME ExecutorAssumption ==
  /\ Requests \subseteq Request
  /\ Requests # {}
  /\ Tasks # {}
  /\ Subject \in [Tasks -> Claims]
  /\ MaxCrashes \in Nat

VARIABLES
  call,      \* the executions
  rows,      \* tool_calls
  cache,     \* keys in the dictionary of each task
  acted,     \* history: the executions whose handler took effect
  store,     \* which idempotency store is configured
  outage,    \* settings.sanctions_unavailable
  crashes

vars == <<call, rows, cache, acted, store, outage, crashes>>

-----------------------------------------------------------------------------
Allowed_AnyBeforeRouting(req) ==
  IF req.workflow = "none" THEN TRUE ELSE req.tool \in AllowList(req.workflow)
Allowed(req) ==
  IF req.workflow = "none" THEN RiskTier(req.tool) = 0
                           ELSE req.tool \in AllowList(req.workflow)

Blocked(req) == req.tool = "payment_execute" /\ outage

ArgsValid(req) ==
  /\ req.tool = "payment_execute" => req.amount > 0 /\ req.authorized
  /\ req.tool = "customer_comm_send" /\ req.send => req.authorized

HasKey(req) == req.tool \in Keyed

(* The idempotency_key the nodes make of the claim's id and a suffix for   *)
(* the tool, or the hash of the arguments, which does not name the claim;  *)
(* no two idempotent tools have the same fields, so it tells tools apart.  *)
KeyOf(claim, req) ==
  IF HasKey(req) THEN <<"key", claim, req.tool>> ELSE <<"hash", req.args, req.tool>>

KeyFor(c) == KeyOf(Subject[call[c].task], call[c].req)

NewCall == [pc |-> "idle", task |-> CHOOSE t \in Tasks : TRUE,
            req |-> CHOOSE r \in Requests : TRUE, result |-> "none",
            cached |-> FALSE, late |-> FALSE, life |-> 0]

At(c, pc)      == call[c].pc = pc
Becomes(c, to) == call' = [call EXCEPT ![c] = to]
Ends(c, pc, result) == Becomes(c, [call[c] EXCEPT !.pc = pc, !.result = result])

(* Only a success takes the slot of its key.                               *)
KeyToRecord_FailuresToo(c) == HasKey(call[c].req)
KeyToRecord(c) == HasKey(call[c].req) /\ call[c].result = "ok"

(* SELECT ... WHERE idempotency_key = key AND status = 'ok'.               *)
RowFor(key) == {r \in rows : r.keyed /\ KeyFor(r.call) = key /\ r.status = "ok"}

Found_NoTable(t, key)     == key \in cache[t]
Found_ProcessWide(t, key) ==
  IF store = "postgres" THEN RowFor(key) # {} ELSE \E u \in Tasks : key \in cache[u]
Found(t, key) == IF store = "postgres" THEN RowFor(key) # {} ELSE key \in cache[t]

(* An execution that told its caller of a success the store of task t      *)
(* still has to know.  The table keeps the keyed ones for every task to    *)
(* come; a dictionary keeps all idempotent ones, for its own task.         *)
Kept(c, t) ==
  /\ At(c, "returned")
  /\ call[c].result = "ok"
  /\ \/ store = "postgres" /\ HasKey(call[c].req)
     \/ /\ store = "memory" /\ call[c].req.tool \in Idempotent
        /\ call[c].task = t /\ call[c].life = crashes

-----------------------------------------------------------------------------
(* A task makes one call after the other.  A call that raises ends it, and *)
(* so does the end of the process.                                         *)
Live(t) ==
  \A c \in Calls : ~ At(c, "idle") /\ call[c].task = t =>
    At(c, "returned") /\ call[c].life = crashes

(* Up to the first await of execute.                                       *)
WasAnswered(t, req) ==
  \E d \in Calls : Kept(d, t) /\ KeyFor(d) = KeyOf(Subject[t], req)

Started(t, req, pc, result) ==
  [pc |-> pc, task |-> t, req |-> req, result |-> result, cached |-> FALSE,
   late |-> WasAnswered(t, req), life |-> crashes]

Refuse(c, t, req) ==
  /\ \/ req.tool \notin Tool
     \/ ~ Allowed(req)
     \/ ~ Blocked(req) /\ ~ ArgsValid(req)
  /\ Becomes(c, Started(t, req, "raised", "refused"))

Block(c, t, req) ==
  /\ req.tool \in Tool
  /\ Allowed(req)
  /\ Blocked(req)
  /\ Becomes(c, Started(t, req, "returned", "COMPLIANCE_UNAVAILABLE"))

Proceed(c, t, req) ==
  /\ req.tool \in Tool
  /\ Allowed(req)
  /\ ~ Blocked(req)
  /\ ArgsValid(req)
  /\ Becomes(c, Started(t, req, IF req.tool \in Idempotent THEN "looking" ELSE "acting", "none"))

Execute(c) ==
  /\ At(c, "idle")
  /\ \E t \in Tasks, req \in Requests :
       Live(t) /\ (Refuse(c, t, req) \/ Block(c, t, req) \/ Proceed(c, t, req))
  /\ UNCHANGED <<rows, cache, acted, store, outage, crashes>>

Look(c) ==
  /\ At(c, "looking")
  /\ \/ /\ Found(call[c].task, KeyFor(c))
        /\ Becomes(c, [call[c] EXCEPT !.pc = "recording", !.result = "ok", !.cached = TRUE])
     \/ /\ ~ Found(call[c].task, KeyFor(c))
        /\ Becomes(c, [call[c] EXCEPT !.pc = "acting"])
  /\ UNCHANGED <<rows, cache, acted, store, outage, crashes>>

Acts(c) == acted' = acted \cup {c}

(* The handler returns a result; put remembers it, for its task.           *)
Succeed(c) ==
  /\ At(c, "acting")
  /\ Acts(c)
  /\ Ends(c, "recording", "ok")
  /\ cache' = IF store = "memory" /\ call[c].req.tool \in Idempotent
              THEN [cache EXCEPT ![call[c].task] = @ \cup {KeyFor(c)}] ELSE cache
  /\ UNCHANGED <<rows, store, outage, crashes>>

(* ToolFailure, or any exception: nobody knows then whether it acted.      *)
Fail(c) ==
  /\ At(c, "acting")
  /\ \/ Ends(c, "recording", "failed") /\ UNCHANGED acted
     \/ Ends(c, "recording", "TOOL_ERROR") /\ (Acts(c) \/ UNCHANGED acted)
  /\ UNCHANGED <<rows, cache, store, outage, crashes>>

(* The result does not fit its schema: nothing is recorded.                *)
Malform(c) ==
  /\ At(c, "acting")
  /\ Acts(c)
  /\ Ends(c, "raised", "TOOL_RESULT_INVALID")
  /\ UNCHANGED <<rows, cache, store, outage, crashes>>

Row(c) ==
  [call |-> c, keyed |-> KeyToRecord(c), cached |-> call[c].cached,
   status |-> IF call[c].result = "ok" THEN "ok" ELSE "error"]

(* ON CONFLICT (idempotency_key) DO NOTHING; the list in memory has no     *)
(* such constraint.                                                        *)
Conflicts(row) ==
  /\ store = "postgres"
  /\ row.keyed
  /\ \E r \in rows : r.keyed /\ KeyFor(r.call) = KeyFor(row.call)

Record(c) ==
  /\ At(c, "recording")
  /\ rows' = IF Conflicts(Row(c)) THEN rows ELSE rows \cup {Row(c)}
  /\ Becomes(c, [call[c] EXCEPT !.pc = "returned"])
  /\ UNCHANGED <<cache, acted, store, outage, crashes>>

(* The database cannot be reached: the lookup or the insert raises.        *)
DatabaseFails(c) ==
  /\ store = "postgres"
  /\ At(c, "looking") \/ At(c, "recording")
  /\ Becomes(c, [call[c] EXCEPT !.pc = "raised"])
  /\ UNCHANGED <<rows, cache, acted, store, outage, crashes>>

(* The service stops, which ends all tasks, and comes back, perhaps with   *)
(* other settings.                                                         *)
Crash ==
  /\ crashes < MaxCrashes
  /\ crashes' = crashes + 1
  /\ call' = [c \in Calls |-> IF call[c].pc \in {"looking", "acting", "recording"}
                              THEN [call[c] EXCEPT !.pc = "lost"] ELSE call[c]]
  /\ cache' = [t \in Tasks |-> {}]
  /\ outage' \in BOOLEAN
  /\ UNCHANGED <<rows, acted, store>>

Init ==
  /\ call = [c \in Calls |-> NewCall]
  /\ rows = {}
  /\ cache = [t \in Tasks |-> {}]
  /\ acted = {}
  /\ store \in {"postgres", "memory"}
  /\ outage \in BOOLEAN
  /\ crashes = 0

Next ==
  \/ Crash
  \/ \E c \in Calls : \/ Execute(c) \/ Look(c) \/ Succeed(c) \/ Fail(c) \/ Malform(c)
                      \/ Record(c) \/ DatabaseFails(c)

Spec == Init /\ [][Next]_vars

-----------------------------------------------------------------------------
PC == {"idle", "looking", "acting", "recording", "returned", "raised", "lost"}

Result == {"none", "ok", "failed", "TOOL_ERROR", "TOOL_RESULT_INVALID", "refused",
           "COMPLIANCE_UNAVAILABLE"}

Key == ({"key"} \X Claims \X Tool) \cup ({"hash"} \X Args \X Tool)

TypeOK ==
  /\ call \in [Calls -> [pc : PC, task : Tasks, req : Request, result : Result,
                         cached : BOOLEAN, late : BOOLEAN, life : 0..crashes]]
  /\ rows \subseteq [call : Calls, keyed : BOOLEAN, cached : BOOLEAN, status : {"ok", "error"}]
  /\ \A r \in rows : r.keyed => r.status = "ok"
  /\ cache \in [Tasks -> SUBSET Key]
  /\ acted \subseteq Calls
  /\ store \in {"postgres", "memory"}
  /\ outage \in BOOLEAN
  /\ crashes \in Nat

(* Whatever overlaps, fails or is repeated: a success that was reported    *)
(* is found by the next lookup of its key, by every task with the table    *)
(* and by its own with a dictionary, so a failed attempt before it must    *)
(* not have taken the slot (record_tool_call, _record, put).               *)
AnsweredIsFindable == \A c \in Calls, t \in Tasks : Kept(c, t) => Found(t, KeyFor(c))

(* Reconcile before retry: an execution that begins after a success with   *)
(* its key was reported does not act.  With the table this holds for every *)
(* task of the claim and across restarts; with a dictionary for the task   *)
(* that reported it, and the next task acts again (step 3 of execute,      *)
(* PostgresIdempotencyStore, _build_deps).                                 *)
RepeatsDoNotAct == \A c \in Calls : call[c].late => c \notin acted

(* A cached result is the result of the same tool for the same claim, and, *)
(* unless the key says so itself, of the same arguments in the same task.  *)
(* The lookup goes by the key alone and checks no schema (execute, lines   *)
(* 128 to 133), and a read hashes the same for every claim that asks the   *)
(* same: what keeps claims apart is that the table has no key for it and   *)
(* that no two tasks share a dictionary.                                   *)
CachedIsOwn ==
  \A c \in Calls : call[c].cached =>
    \E d \in acted :
      /\ call[d].result = "ok"
      /\ call[d].req.tool = call[c].req.tool
      /\ Subject[call[d].task] = Subject[call[c].task]
      /\ ~ HasKey(call[c].req) =>
           call[d].task = call[c].task /\ call[d].req.args = call[c].req.args

(* Nothing but reads happens before routing, money leaves only from W1 and *)
(* W2 and authorized, and siu cases (W3) are only escalated, whatever the  *)
(* lookup, a retry or a restart put between the gates and the handler      *)
(* (steps 1 to 4 of execute, tool_allowed).                                *)
EffectsAreGuarded ==
  \A c \in acted :
    LET req == call[c].req
    IN  /\ req.workflow = "none" => req.tool \in ReadOnly
        /\ req.workflow = "W3" => req.tool \in ReadOnly \cup {"escalate_to_human"}
        /\ req.tool = "payment_execute" => req.workflow \in {"W1", "W2"} /\ req.authorized
=============================================================================
