-------------------------- MODULE ToolExecutorProofs --------------------------
(***************************************************************************)
(* However many executions of however many tasks overlap, whatever they    *)
(* ask for and however often the service stops: a success that was         *)
(* reported is found by whom the store owes it to, an execution that       *)
(* begins after it does not act again, nothing takes effect past its       *)
(* gates, and a cached result is the asker's own.                          *)
(***************************************************************************)
EXTENDS ToolExecutor, TLAPS

-----------------------------------------------------------------------------
(* Type correctness.                                                       *)

CallType == [pc : PC, task : Tasks, req : Request, result : Result,
             cached : BOOLEAN, late : BOOLEAN, life : 0..crashes]

LEMMA StartedIs ==
  ASSUME TypeOK, NEW t \in Tasks, NEW req \in Requests, NEW pc \in PC, NEW result \in Result
  PROVE  Started(t, req, pc, result) \in CallType
<1>1. WasAnswered(t, req) \in BOOLEAN
  BY DEF WasAnswered
<1>2. crashes \in 0..crashes /\ req \in Request
  BY ExecutorAssumption DEF TypeOK
<1> QED BY <1>1, <1>2 DEF Started, CallType

(* A step that replaces one call by another well-typed one.                *)
LEMMA CallReplaced ==
  ASSUME TypeOK, NEW c \in Calls, NEW next \in CallType, Becomes(c, next), crashes' = crashes
  PROVE  call' \in [Calls -> [pc : PC, task : Tasks, req : Request, result : Result,
                              cached : BOOLEAN, late : BOOLEAN, life : 0..crashes']]
  BY DEF TypeOK, CallType, Becomes

(* What two equal keys have in common.                                     *)
LEMMA KeyTellsApart ==
  ASSUME NEW claim, NEW req, NEW owner, NEW other, KeyOf(claim, req) = KeyOf(owner, other)
  PROVE  /\ req.tool = other.tool
         /\ HasKey(req) => claim = owner
         /\ ~ HasKey(req) => req.args = other.args
  BY DEF KeyOf, HasKey

LEMMA KeyType ==
  ASSUME TypeOK, NEW c \in Calls, call[c].req.tool \in Idempotent
  PROVE  KeyFor(c) \in Key
<1>1. /\ call[c].req.args \in Args
      /\ call[c].task \in Tasks
  BY DEF TypeOK, Request
<1>2. /\ Subject[call[c].task] \in Claims
      /\ call[c].req.tool \in Tool
  BY <1>1, ExecutorAssumption DEF Idempotent, Tool, ReadOnly, Writing, External
<1> QED BY <1>1, <1>2 DEF KeyFor, KeyOf, Key

LEMMA TypeStep ==
  ASSUME TypeOK, [Next]_vars
  PROVE  TypeOK'
<1>1. CASE Crash
  <2>1. \A c \in Calls : call'[c] \in [pc : PC, task : Tasks, req : Request, result : Result,
                                       cached : BOOLEAN, late : BOOLEAN, life : 0..crashes']
    BY <1>1 DEF Crash, TypeOK, PC
  <2>2. call' = [c \in Calls |-> call'[c]]
    BY <1>1 DEF Crash
  <2> QED BY <1>1, <2>1, <2>2 DEF Crash, TypeOK
<1>2. ASSUME NEW c \in Calls, Execute(c)
      PROVE  TypeOK'
  <2>1. PICK t \in Tasks, req \in Requests :
             Refuse(c, t, req) \/ Block(c, t, req) \/ Proceed(c, t, req)
    BY <1>2 DEF Execute
  <2>2. PICK pc \in PC, result \in Result : Becomes(c, Started(t, req, pc, result))
    BY <2>1 DEF Refuse, Block, Proceed, PC, Result
  <2> QED BY <1>2, <2>2, StartedIs, CallReplaced DEF Execute, TypeOK
<1>3. ASSUME NEW c \in Calls, Look(c)
      PROVE  TypeOK'
  <2>1. \E next \in CallType : Becomes(c, next)
    BY <1>3 DEF Look, TypeOK, CallType, PC, Result
  <2> QED BY <1>3, <2>1, CallReplaced DEF Look, TypeOK
<1>4. ASSUME NEW c \in Calls, Succeed(c)
      PROVE  TypeOK'
  <2>1. \E next \in CallType : Becomes(c, next)
    BY <1>4 DEF Succeed, Ends, TypeOK, CallType, PC, Result
  <2>2. cache' \in [Tasks -> SUBSET Key]
    BY <1>4, KeyType DEF Succeed, TypeOK
  <2> QED BY <1>4, <2>1, <2>2, CallReplaced DEF Succeed, Acts, TypeOK
<1>5. ASSUME NEW c \in Calls, Fail(c)
      PROVE  TypeOK'
  <2>1. \E next \in CallType : Becomes(c, next)
    BY <1>5 DEF Fail, Ends, TypeOK, CallType, PC, Result
  <2> QED BY <1>5, <2>1, CallReplaced DEF Fail, Acts, TypeOK
<1>6. ASSUME NEW c \in Calls, Malform(c)
      PROVE  TypeOK'
  <2>1. \E next \in CallType : Becomes(c, next)
    BY <1>6 DEF Malform, Ends, TypeOK, CallType, PC, Result
  <2> QED BY <1>6, <2>1, CallReplaced DEF Malform, Acts, TypeOK
<1>7. ASSUME NEW c \in Calls, Record(c)
      PROVE  TypeOK'
  <2>1. \E next \in CallType : Becomes(c, next)
    BY <1>7 DEF Record, TypeOK, CallType, PC, Result
  <2>2. /\ Row(c) \in [call : Calls, keyed : BOOLEAN, cached : BOOLEAN, status : {"ok", "error"}]
        /\ Row(c).keyed => Row(c).status = "ok"
    BY DEF Row, KeyToRecord, HasKey, TypeOK
  <2> QED BY <1>7, <2>1, <2>2, CallReplaced DEF Record, TypeOK
<1>8. ASSUME NEW c \in Calls, DatabaseFails(c)
      PROVE  TypeOK'
  <2>1. \E next \in CallType : Becomes(c, next)
    BY <1>8 DEF DatabaseFails, TypeOK, CallType, PC, Result
  <2> QED BY <1>8, <2>1, CallReplaced DEF DatabaseFails, TypeOK
<1>9. CASE UNCHANGED vars
  BY <1>9 DEF vars, TypeOK
<1> QED BY <1>1, <1>2, <1>3, <1>4, <1>5, <1>6, <1>7, <1>8, <1>9 DEF Next

LEMMA TypeInit ==
  ASSUME Init
  PROVE  TypeOK
<1>1. NewCall \in [pc : PC, task : Tasks, req : Request, result : Result,
                   cached : BOOLEAN, late : BOOLEAN, life : 0..crashes]
  BY ExecutorAssumption DEF Init, NewCall, PC, Result
<1> QED BY <1>1 DEF Init, TypeOK

(* TypeOK: every variable keeps its type, and a row that holds a key is    *)
(* the row of a success (record_tool_call).                                *)
THEOREM TypeCorrect == Spec => []TypeOK
  BY TypeInit, TypeStep, PTL DEF Spec

-----------------------------------------------------------------------------
(* A reported success is found, and what begins after it does not act.     *)

(* A row that holds a key is of an execution that is over.                 *)
RowsDone ==
  \A r \in rows : ~ At(r.call, "idle") /\ (r.keyed => HasKey(call[r.call].req))

(* Without a database the task remembers before it records.                *)
Remembered ==
  \A c \in Calls : /\ store = "memory"
                   /\ At(c, "recording")
                   /\ call[c].result = "ok"
                   /\ call[c].req.tool \in Idempotent
                   => KeyFor(c) \in cache[call[c].task]

Fresh == \A c \in Calls : call[c].pc \in {"idle", "looking", "acting"} => c \notin acted

LateFinds ==
  \A c \in Calls : call[c].late =>
    /\ c \notin acted
    /\ call[c].pc \notin {"idle", "acting"}
    /\ At(c, "looking") => Found(call[c].task, KeyFor(c))

IInv ==
  /\ TypeOK
  /\ RowsDone
  /\ Remembered
  /\ Fresh
  /\ AnsweredIsFindable
  /\ LateFinds

(* Every step but a crash moves one execution and forgets nothing.         *)
StepOf(c) ==
  \/ Execute(c) \/ Look(c) \/ Succeed(c) \/ Fail(c) \/ Malform(c)
  \/ Record(c) \/ DatabaseFails(c)

LEMMA LookIs ==
  ASSUME TypeOK, NEW c \in Calls, Look(c)
  PROVE  /\ \A d \in Calls \ {c} : call'[d] = call[d]
         /\ call'[c].task = call[c].task
         /\ call'[c].req = call[c].req
         /\ call'[c].late = call[c].late
         /\ call'[c].life = call[c].life
         /\ call'[c].pc \in {"recording", "acting"}
         /\ call'[c].pc = "recording" <=> Found(call[c].task, KeyFor(c))
<1>1. call[c] \in CallType
  BY DEF TypeOK, CallType
<1>2. CASE Found(call[c].task, KeyFor(c))
  <2>1. call' = [call EXCEPT ![c] = [call[c] EXCEPT !.pc = "recording", !.result = "ok",
                                                    !.cached = TRUE]]
    BY <1>2 DEF Look, Becomes
  <2>2. call'[c] = [call[c] EXCEPT !.pc = "recording", !.result = "ok", !.cached = TRUE]
    BY <2>1 DEF TypeOK
  <2>3. \A d \in Calls \ {c} : call'[d] = call[d]
    BY <2>1 DEF TypeOK
  <2> QED BY <1>1, <1>2, <2>2, <2>3 DEF CallType
<1>3. CASE ~ Found(call[c].task, KeyFor(c))
  <2>1. call' = [call EXCEPT ![c] = [call[c] EXCEPT !.pc = "acting"]]
    BY <1>3 DEF Look, Becomes
  <2>2. call'[c] = [call[c] EXCEPT !.pc = "acting"]
    BY <2>1 DEF TypeOK
  <2>3. \A d \in Calls \ {c} : call'[d] = call[d]
    BY <2>1 DEF TypeOK
  <2> QED BY <1>1, <1>3, <2>2, <2>3 DEF CallType
<1> QED BY <1>2, <1>3

(* What the end of a handler leaves of its execution.                      *)
LEMMA EndsIs ==
  ASSUME TypeOK, NEW c \in Calls, NEW pc, NEW result, Ends(c, pc, result)
  PROVE  /\ \A d \in Calls \ {c} : call'[d] = call[d]
         /\ call'[c].pc = pc
         /\ call'[c].result = result
         /\ call'[c].task = call[c].task
         /\ call'[c].req = call[c].req
         /\ call'[c].cached = call[c].cached
         /\ call'[c].late = call[c].late
         /\ call'[c].life = call[c].life
<1>1. call[c] \in CallType
  BY DEF TypeOK, CallType
<1>2. call' = [call EXCEPT ![c] = [call[c] EXCEPT !.pc = pc, !.result = result]]
  BY DEF Ends, Becomes
<1>3. call'[c] = [call[c] EXCEPT !.pc = pc, !.result = result]
  BY <1>2 DEF TypeOK
<1>4. \A d \in Calls \ {c} : call'[d] = call[d]
  BY <1>2 DEF TypeOK
<1> QED BY <1>1, <1>3, <1>4 DEF CallType

LEMMA OneMoves ==
  ASSUME TypeOK, NEW c \in Calls, StepOf(c)
  PROVE  /\ \A d \in Calls \ {c} : call'[d] = call[d]
         /\ ~ At(c, "idle") => /\ call'[c].task = call[c].task
                              /\ call'[c].req = call[c].req
                              /\ call'[c].late = call[c].late
                              /\ call'[c].life = call[c].life
         /\ store' = store /\ crashes' = crashes
         /\ rows \subseteq rows'
         /\ \A t \in Tasks : cache[t] \subseteq cache'[t]
<1>1. CASE Execute(c)
  <2>1. PICK t \in Tasks, req \in Requests :
             Refuse(c, t, req) \/ Block(c, t, req) \/ Proceed(c, t, req)
    BY <1>1 DEF Execute
  <2>2. PICK pc \in PC, result \in Result : call' = [call EXCEPT ![c] = Started(t, req, pc, result)]
    BY <2>1 DEF Refuse, Block, Proceed, Becomes, PC, Result
  <2>3. \A d \in Calls \ {c} : call'[d] = call[d]
    BY <2>2 DEF TypeOK
  <2>4. At(c, "idle") /\ UNCHANGED <<rows, cache, acted, store, outage, crashes>>
    BY <1>1 DEF Execute
  <2> QED BY <2>3, <2>4
<1>2. CASE Look(c)
  BY <1>2, LookIs DEF Look
<1>3. CASE Succeed(c)
  BY <1>3 DEF Succeed, Ends, Becomes, TypeOK
<1>4. CASE Fail(c) \/ Malform(c)
  <2>1. \E pc, result : Ends(c, pc, result)
    BY <1>4 DEF Fail, Malform
  <2>2. UNCHANGED <<rows, cache, store, crashes>>
    BY <1>4 DEF Fail, Malform
  <2> QED BY <2>1, <2>2, EndsIs
<1>5. CASE Record(c)
  BY <1>5 DEF Record, Becomes, TypeOK
<1>6. CASE DatabaseFails(c)
  BY <1>6 DEF DatabaseFails, Becomes, TypeOK
<1> QED BY <1>1, <1>2, <1>3, <1>4, <1>5, <1>6 DEF StepOf

KeyAfter(c) == KeyOf(Subject[call'[c].task], call'[c].req)

FoundAfter(t, key) ==
  IF store' = "postgres"
  THEN \E r \in rows' : r.keyed /\ KeyAfter(r.call) = key /\ r.status = "ok"
  ELSE key \in cache'[t]

LEMMA KeyStays ==
  ASSUME TypeOK, NEW c \in Calls, StepOf(c), NEW d \in Calls, ~ At(d, "idle")
  PROVE  KeyAfter(d) = KeyFor(d)
<1>1. CASE d = c
  BY <1>1, OneMoves DEF KeyAfter, KeyFor
<1>2. CASE d # c
  BY <1>2, OneMoves DEF KeyAfter, KeyFor
<1> QED BY <1>1, <1>2

LEMMA FoundStays ==
  ASSUME TypeOK, RowsDone, NEW c \in Calls, StepOf(c)
  PROVE  \A t \in Tasks : \A key : Found(t, key) => FoundAfter(t, key)
<1>1. \A r \in rows : r \in rows' /\ KeyAfter(r.call) = KeyFor(r.call)
  BY OneMoves, KeyStays DEF RowsDone, TypeOK
<1> QED BY <1>1, OneMoves DEF Found, RowFor, FoundAfter

LEMMA FoundNext ==
  ASSUME NEW c \in Calls, NEW t \in Tasks, FoundAfter(t, KeyAfter(c))
  PROVE  Found(t, KeyFor(c))'
  BY DEF FoundAfter, KeyAfter, KeyFor, Found, RowFor

(* How an execution starts.                                                *)
LEMMA ExecuteStarts ==
  ASSUME IInv, NEW c \in Calls, Execute(c)
  PROVE  /\ call'[c].pc \in {"raised", "returned", "looking", "acting"}
         /\ call'[c].result # "ok"
         /\ call'[c].late => /\ call'[c].pc # "acting"
                            /\ Found(call'[c].task, KeyAfter(c))
<1>1. PICK t \in Tasks, req \in Requests :
           Refuse(c, t, req) \/ Block(c, t, req) \/ Proceed(c, t, req)
  BY DEF Execute
<1>a. PICK pc \in {"raised", "returned", "looking", "acting"},
           result \in {"refused", "COMPLIANCE_UNAVAILABLE", "none"} :
        /\ call' = [call EXCEPT ![c] = Started(t, req, pc, result)]
        /\ pc = "acting" => req.tool \notin Idempotent
  BY <1>1 DEF Refuse, Block, Proceed, Becomes
<1>b. call'[c] = Started(t, req, pc, result)
  BY <1>a DEF IInv, TypeOK
<1>2. /\ call'[c].req = req
      /\ call'[c].task = t
      /\ call'[c].late = WasAnswered(t, req)
      /\ call'[c].result = result
      /\ call'[c].pc = pc
  BY <1>b DEF Started
<1>3. ASSUME WasAnswered(t, req)
      PROVE  req.tool \in Idempotent /\ Found(t, KeyOf(Subject[t], req))
  <2>1. PICK d \in Calls : Kept(d, t) /\ KeyFor(d) = KeyOf(Subject[t], req)
    BY <1>3 DEF WasAnswered
  <2>2. Found(t, KeyOf(Subject[t], req))
    BY <2>1 DEF IInv, AnsweredIsFindable
  <2>3. call[d].req.tool \in Idempotent
    BY <2>1 DEF Kept, HasKey, Keyed, Idempotent
  <2>4. call[d].req.tool = req.tool
    BY <2>1, KeyTellsApart DEF KeyFor
  <2> QED BY <2>2, <2>3, <2>4
<1> QED BY <1>a, <1>2, <1>3 DEF KeyAfter

LEMMA StepRows ==
  ASSUME IInv, NEW c \in Calls, StepOf(c)
  PROVE  RowsDone' /\ Remembered' /\ Fresh'
<1> USE DEF At
<1>t. TypeOK
  BY DEF IInv
<1>1. \A d \in Calls \ {c} : call'[d] = call[d]
  BY <1>t, OneMoves
<1>k. \A d \in Calls : ~ At(d, "idle") => KeyAfter(d) = KeyFor(d)
  BY <1>t, KeyStays
<1>c. \A d \in Calls : call[d].task \in Tasks
  BY <1>t DEF TypeOK
<1>g. \A t \in Tasks : cache[t] \subseteq cache'[t]
  BY <1>t, OneMoves
<1>s. store' = store /\ rows \subseteq rows'
  BY <1>t, OneMoves
<1>r. \A r \in rows : r.call \in Calls
  BY <1>t DEF TypeOK
<1>o. ASSUME NEW d \in Calls, d # c, store' = "memory", call'[d].pc = "recording",
             call'[d].result = "ok", call'[d].req.tool \in Idempotent
      PROVE  KeyAfter(d) \in cache'[call'[d].task]
  <2>1. KeyFor(d) \in cache[call[d].task]
    BY <1>1, <1>o, <1>s DEF IInv, Remembered
  <2> QED BY <1>1, <1>o, <1>k, <1>c, <1>g, <2>1
<1>m. ASSUME /\ store' = "memory" /\ call'[c].pc = "recording" /\ call'[c].result = "ok"
             /\ call'[c].req.tool \in Idempotent
             => KeyAfter(c) \in cache'[call'[c].task]
      PROVE  Remembered'
  BY <1>m, <1>o DEF Remembered, KeyAfter, KeyFor
<1>2. CASE Execute(c)
  <2>1. /\ call'[c].pc \in {"raised", "returned", "looking", "acting"}
        /\ rows' = rows /\ acted' = acted /\ call[c].pc = "idle"
    BY <1>2, ExecuteStarts DEF Execute
  <2>2. RowsDone'
    BY <1>1, <1>r, <2>1 DEF IInv, RowsDone
  <2>3. Fresh'
    BY <1>1, <2>1 DEF IInv, Fresh
  <2> QED BY <1>m, <2>1, <2>2, <2>3
<1>3. CASE Look(c)
  <2>1. /\ call'[c].pc \in {"recording", "acting"}
        /\ call'[c].req = call[c].req /\ call'[c].task = call[c].task
        /\ call'[c].pc = "recording" => Found(call[c].task, KeyFor(c))
        /\ rows' = rows /\ cache' = cache /\ acted' = acted /\ call[c].pc = "looking"
    BY <1>3, <1>t, LookIs DEF Look
  <2>2. RowsDone'
    BY <1>1, <1>r, <2>1 DEF RowsDone, IInv
  <2>3. Remembered'
    BY <1>m, <1>k, <1>s, <2>1 DEF Found
  <2>4. Fresh'
    BY <1>1, <2>1 DEF Fresh, IInv
  <2> QED BY <2>2, <2>3, <2>4
<1>4. CASE Succeed(c)
  <2>1. /\ call'[c].pc = "recording"
        /\ call'[c].req = call[c].req /\ call'[c].task = call[c].task
        /\ acted' = acted \cup {c} /\ rows' = rows /\ call[c].pc = "acting"
    BY <1>4, <1>t DEF Succeed, Ends, Becomes, Acts, TypeOK
  <2>2. store = "memory" /\ call[c].req.tool \in Idempotent => KeyFor(c) \in cache'[call[c].task]
    BY <1>4, <1>t, <1>c DEF Succeed, TypeOK
  <2>3. RowsDone'
    BY <1>1, <1>r, <2>1 DEF RowsDone, IInv
  <2>4. Remembered'
    BY <1>m, <1>k, <1>s, <2>1, <2>2
  <2>5. Fresh'
    BY <1>1, <2>1 DEF Fresh, IInv
  <2> QED BY <2>3, <2>4, <2>5
<1>5. CASE Fail(c) \/ Malform(c)
  <2>1. /\ call'[c].pc \in {"recording", "raised"}
        /\ call'[c].pc = "recording" => call'[c].result # "ok"
        /\ call'[c].req = call[c].req
        /\ acted' \subseteq acted \cup {c} /\ rows' = rows /\ call[c].pc = "acting"
    <3>1. PICK pc, result : /\ Ends(c, pc, result)
                            /\ pc \in {"recording", "raised"}
                            /\ pc = "recording" => result # "ok"
      BY <1>5 DEF Fail, Malform
    <3>2. acted' \subseteq acted \cup {c} /\ rows' = rows /\ call[c].pc = "acting"
      BY <1>5 DEF Fail, Malform, Acts
    <3> QED BY <1>t, <3>1, <3>2, EndsIs
  <2>2. RowsDone'
    BY <1>1, <1>r, <2>1 DEF RowsDone, IInv
  <2>3. Fresh'
    BY <1>1, <2>1 DEF Fresh, IInv
  <2> QED BY <1>m, <2>1, <2>2, <2>3
<1>6. CASE Record(c)
  <2>1. /\ call'[c].pc = "returned"
        /\ acted' = acted
        /\ call'[c].req = call[c].req
    BY <1>6, <1>t DEF Record, Becomes, TypeOK
  <2>2. \A r \in rows' : r \in rows \/ r = Row(c)
    BY <1>6 DEF Record
  <2>3. Row(c).call = c /\ (Row(c).keyed => HasKey(call[c].req))
    BY DEF Row, KeyToRecord
  <2>4. RowsDone'
    BY <1>1, <1>r, <2>1, <2>2, <2>3 DEF RowsDone, IInv
  <2>5. Fresh'
    BY <1>1, <2>1 DEF Fresh, IInv
  <2> QED BY <1>m, <2>1, <2>4, <2>5
<1>7. CASE DatabaseFails(c)
  <2>1. /\ call'[c].pc = "raised" /\ call'[c].req = call[c].req
        /\ acted' = acted /\ rows' = rows
    BY <1>7, <1>t DEF DatabaseFails, Becomes, TypeOK
  <2>2. RowsDone'
    BY <1>1, <1>r, <2>1 DEF RowsDone, IInv
  <2>3. Fresh'
    BY <1>1, <2>1 DEF Fresh, IInv
  <2> QED BY <1>m, <2>1, <2>2, <2>3
<1> QED BY <1>2, <1>3, <1>4, <1>5, <1>6, <1>7 DEF StepOf

LEMMA StepAnswered ==
  ASSUME IInv, NEW c \in Calls, StepOf(c)
  PROVE  AnsweredIsFindable'
<1> SUFFICES ASSUME NEW d \in Calls, NEW t \in Tasks, Kept(d, t)'
             PROVE  FoundAfter(t, KeyAfter(d))
  BY FoundNext DEF AnsweredIsFindable
<1>t. TypeOK
  BY DEF IInv
<1>m. /\ \A e \in Calls \ {c} : call'[e] = call[e]
      /\ store' = store /\ crashes' = crashes
  BY <1>t, OneMoves
<1>0. /\ call'[d].pc = "returned" /\ call'[d].result = "ok"
      /\ \/ store = "postgres" /\ HasKey(call'[d].req)
         \/ /\ store = "memory" /\ call'[d].req.tool \in Idempotent
            /\ call'[d].task = t /\ call'[d].life = crashes
  BY <1>m DEF Kept, At
<1>s. \A key : Found(t, key) => FoundAfter(t, key)
  BY <1>t, FoundStays DEF IInv
<1>1. CASE d # c
  <2>1. Kept(d, t)
    BY <1>1, <1>0, <1>m DEF Kept, At
  <2>2. KeyAfter(d) = KeyFor(d)
    BY <1>1, <1>m DEF KeyAfter, KeyFor
  <2> QED BY <2>1, <2>2, <1>s DEF IInv, AnsweredIsFindable
<1>2. CASE d = c /\ Record(c)
  <2>1. /\ At(c, "recording") /\ call[c].result = "ok" /\ call'[c].req = call[c].req
        /\ call'[c].task = call[c].task /\ cache' = cache
        /\ rows' = IF Conflicts(Row(c)) THEN rows ELSE rows \cup {Row(c)}
    BY <1>0, <1>2, <1>t DEF Record, Becomes, TypeOK
  <2>k. KeyAfter(d) = KeyFor(c)
    BY <1>2, <2>1 DEF KeyAfter, KeyFor
  <2>2. CASE store = "memory"
    <3>1. call[c].req.tool \in Idempotent /\ call[c].task = t
      BY <1>0, <1>2, <2>1, <2>2
    <3>2. KeyFor(c) \in cache[t]
      BY <2>1, <2>2, <3>1 DEF IInv, Remembered
    <3> QED BY <2>k, <2>1, <2>2, <3>2, <1>m DEF FoundAfter
  <2>3. CASE store = "postgres" /\ Conflicts(Row(c))
    <3>1. PICK r \in rows : r.keyed /\ KeyFor(r.call) = KeyFor(c)
      BY <2>3 DEF Conflicts, Row
    <3>2. r.status = "ok"
      BY <3>1, <1>t DEF TypeOK
    <3>3. Found(t, KeyFor(c))
      BY <2>3, <3>1, <3>2 DEF Found, RowFor
    <3> QED BY <2>k, <3>3, <1>s
  <2>4. CASE store = "postgres" /\ ~ Conflicts(Row(c))
    <3>1. Row(c) \in rows' /\ Row(c).call = c /\ Row(c).status = "ok"
      BY <2>1, <2>4 DEF Row
    <3>2. Row(c).keyed
      BY <1>0, <1>2, <2>1, <2>4 DEF Row, KeyToRecord
    <3> QED BY <1>2, <2>4, <3>1, <3>2, <1>m DEF FoundAfter
  <2> QED BY <2>2, <2>3, <2>4, <1>t DEF TypeOK
<1>3. CASE d = c /\ ~ Record(c)
  <2>1. CASE Execute(c)
    BY <1>0, <1>3, <2>1, ExecuteStarts
  <2>2. CASE Look(c)
    BY <1>0, <1>3, <1>t, <2>2, LookIs
  <2>3. CASE Succeed(c)
    BY <1>0, <1>3, <2>3 DEF Succeed, Ends, Becomes, IInv, TypeOK
  <2>4. CASE Fail(c)
    BY <1>0, <1>3, <2>4 DEF Fail, Ends, Becomes, IInv, TypeOK
  <2>5. CASE Malform(c)
    BY <1>0, <1>3, <2>5 DEF Malform, Ends, Becomes, IInv, TypeOK
  <2>6. CASE DatabaseFails(c)
    BY <1>0, <1>3, <2>6 DEF DatabaseFails, Becomes, IInv, TypeOK
  <2> QED BY <1>3, <2>1, <2>2, <2>3, <2>4, <2>5, <2>6 DEF StepOf
<1> QED BY <1>1, <1>2, <1>3

LEMMA StepLate ==
  ASSUME IInv, NEW c \in Calls, StepOf(c)
  PROVE  LateFinds'
<1>t. TypeOK /\ TypeOK'
  BY TypeStep DEF IInv, Next, StepOf
<1> SUFFICES ASSUME NEW d \in Calls, call'[d].late
             PROVE  /\ d \notin acted'
                    /\ call'[d].pc \notin {"idle", "acting"}
                    /\ call'[d].pc = "looking" => FoundAfter(call'[d].task, KeyAfter(d))
  <2>1. \A d \in Calls : call'[d].task \in Tasks
    BY <1>t DEF TypeOK
  <2>2. \A d \in Calls : FoundAfter(call'[d].task, KeyAfter(d)) => Found(call[d].task, KeyFor(d))'
    BY <2>1 DEF FoundAfter, KeyAfter, KeyFor, Found, RowFor
  <2> QED BY <2>2 DEF LateFinds, At
<1>m. /\ \A e \in Calls \ {c} : call'[e] = call[e]
      /\ ~ At(c, "idle") => /\ call'[c].req = call[c].req /\ call'[c].late = call[c].late
                           /\ call'[c].task = call[c].task
  BY <1>t, OneMoves
<1>s. \A t \in Tasks : \A key : Found(t, key) => FoundAfter(t, key)
  BY <1>t, FoundStays DEF IInv
<1>a. acted' \subseteq acted \cup {c}
  BY DEF StepOf, Execute, Look, Succeed, Fail, Malform, Record, DatabaseFails, Acts
<1>1. CASE d # c
  <2>1. /\ call'[d] = call[d] /\ KeyAfter(d) = KeyFor(d) /\ call[d].task \in Tasks
    BY <1>1, <1>m, <1>t DEF KeyAfter, KeyFor, TypeOK
  <2>2. /\ d \notin acted /\ call[d].pc \notin {"idle", "acting"}
        /\ call[d].pc = "looking" => Found(call[d].task, KeyFor(d))
    BY <2>1 DEF IInv, LateFinds, At
  <2> QED BY <1>1, <1>a, <1>s, <2>1, <2>2
<1>2. CASE d = c /\ Execute(c)
  <2>1. c \notin acted'
    BY <1>2 DEF Execute, IInv, Fresh, At
  <2>2. /\ call'[c].pc \in {"raised", "returned", "looking"}
        /\ Found(call'[c].task, KeyAfter(c))
    BY <1>2, ExecuteStarts
  <2>3. call'[c].task \in Tasks
    BY <1>t DEF TypeOK
  <2> QED BY <1>2, <2>1, <2>2, <2>3, <1>s
<1>3. CASE d = c /\ ~ Execute(c)
  <2>1. ~ At(c, "idle") /\ ~ At(c, "acting")
    <3>1. ~ At(c, "idle")
      BY <1>3 DEF StepOf, Look, Succeed, Fail, Malform, Record, DatabaseFails, At
    <3> QED BY <3>1, <1>3, <1>m DEF IInv, LateFinds, At
  <2>2. call[c].late
    BY <1>3, <1>m, <2>1
  <2>3. CASE Look(c)
    <3>1. Found(call[c].task, KeyFor(c))
      BY <2>2, <2>3 DEF IInv, LateFinds, Look
    <3>2. call'[c].pc = "recording"
      BY <1>t, <2>3, <3>1, LookIs
    <3>3. c \notin acted /\ acted' = acted
      BY <2>2, <2>3 DEF Look, IInv, LateFinds
    <3> QED BY <1>3, <3>2, <3>3
  <2>4. CASE Record(c)
    BY <1>3, <2>2, <2>4 DEF Record, Becomes, IInv, TypeOK, LateFinds
  <2>5. CASE DatabaseFails(c)
    BY <1>3, <2>2, <2>5 DEF DatabaseFails, Becomes, IInv, TypeOK, LateFinds
  <2> QED BY <1>3, <2>1, <2>3, <2>4, <2>5 DEF StepOf, Succeed, Fail, Malform
<1> QED BY <1>1, <1>2, <1>3

LEMMA CrashStep ==
  ASSUME IInv, Crash
  PROVE  IInv'
<1> USE DEF At
<1>0. TypeOK'
  BY TypeStep DEF IInv, Next
<1>1. /\ rows' = rows /\ acted' = acted /\ store' = store
      /\ crashes' = crashes + 1
      /\ \A c \in Calls : /\ call'[c].req = call[c].req /\ call'[c].result = call[c].result
                          /\ call'[c].task = call[c].task
                          /\ call'[c].late = call[c].late /\ call'[c].life = call[c].life
                          /\ \/ call'[c].pc = call[c].pc
                             \/ call'[c].pc = "lost" /\ call[c].pc # "idle"
                          /\ call'[c].pc \notin {"looking", "acting", "recording"}
  BY DEF Crash, IInv, TypeOK
<1>2. \A r \in rows : r.call \in Calls
  BY DEF IInv, TypeOK
<1>3. RowsDone'
  BY <1>1, <1>2 DEF RowsDone, IInv
<1>4. Remembered' /\ Fresh'
  BY <1>1 DEF Remembered, Fresh, IInv
<1>5. AnsweredIsFindable'
  <2> SUFFICES ASSUME NEW c \in Calls, NEW t \in Tasks, Kept(c, t)'
               PROVE  Found(t, KeyFor(c))'
    BY DEF AnsweredIsFindable
  <2>1. call[c].life \in 0..crashes /\ crashes \in Nat
    BY DEF IInv, TypeOK
  <2>2. /\ store = "postgres" /\ Kept(c, t)
    BY <1>1, <2>1 DEF Kept
  <2>3. Found(t, KeyFor(c))
    BY <2>2 DEF IInv, AnsweredIsFindable
  <2>4. PICK r \in rows : r.keyed /\ KeyFor(r.call) = KeyFor(c) /\ r.status = "ok"
    BY <2>2, <2>3 DEF Found, RowFor
  <2>5. KeyFor(r.call)' = KeyFor(r.call) /\ KeyFor(c)' = KeyFor(c)
    BY <1>1, <1>2, <2>4 DEF KeyFor
  <2> QED BY <1>1, <2>2, <2>4, <2>5 DEF Found, RowFor
<1>6. LateFinds'
  BY <1>1 DEF LateFinds, IInv
<1> QED BY <1>0, <1>3, <1>4, <1>5, <1>6 DEF IInv

LEMMA Stutter ==
  ASSUME IInv, UNCHANGED vars
  PROVE  IInv'
  BY DEF vars, IInv, TypeOK, RowsDone, Remembered, Fresh, AnsweredIsFindable, Kept,
         LateFinds, Found, RowFor, KeyFor, At

LEMMA IInvStep ==
  ASSUME IInv, [Next]_vars
  PROVE  IInv'
<1>1. CASE Crash
  BY <1>1, CrashStep
<1>2. ASSUME NEW c \in Calls, StepOf(c)
      PROVE  IInv'
  BY <1>2, TypeStep, StepRows, StepAnswered, StepLate DEF IInv, Next, StepOf
<1>3. CASE UNCHANGED vars
  BY <1>3, Stutter
<1> QED BY <1>1, <1>2, <1>3 DEF Next, StepOf

LEMMA IInvInit ==
  ASSUME Init
  PROVE  IInv
<1>1. TypeOK
  BY TypeInit
<1> QED BY <1>1 DEF Init, NewCall, IInv, RowsDone, Remembered, Fresh, AnsweredIsFindable,
                    Kept, LateFinds, At

(* AnsweredIsFindable: the row of a success is there when the next         *)
(* execution looks for it, and without a database the key is in the        *)
(* dictionary of the task (execute, record_tool_call, _build_deps).        *)
THEOREM Findable == Spec => []AnsweredIsFindable
<1>1. IInv => AnsweredIsFindable
  BY DEF IInv
<1> QED BY <1>1, IInvInit, IInvStep, PTL DEF Spec

(* RepeatsDoNotAct: reconcile before retry (execute, step 3), with any     *)
(* number of executions in flight, and, on the table, any number of tasks  *)
(* and restarts.                                                           *)
THEOREM NoRepeat == Spec => []RepeatsDoNotAct
<1>1. IInv => RepeatsDoNotAct
  BY DEF IInv, LateFinds, RepeatsDoNotAct
<1> QED BY <1>1, IInvInit, IInvStep, PTL DEF Spec
-----------------------------------------------------------------------------
(* What has an effect went through the gates.                              *)

Passed == \A c \in Calls :
  c \in acted \/ call[c].pc \in {"looking", "acting"} =>
    Allowed(call[c].req) /\ ArgsValid(call[c].req)

LEMMA StepPassed ==
  ASSUME TypeOK, Fresh, Passed, NEW c \in Calls, StepOf(c)
  PROVE  Passed'
<1>m. /\ \A d \in Calls \ {c} : call'[d] = call[d]
      /\ ~ At(c, "idle") => call'[c].req = call[c].req
  BY OneMoves
<1>a. acted' \subseteq acted \cup {c}
  BY DEF StepOf, Execute, Look, Succeed, Fail, Malform, Record, DatabaseFails, Acts
<1> SUFFICES ASSUME c \in acted' \/ call'[c].pc \in {"looking", "acting"}
             PROVE  Allowed(call'[c].req) /\ ArgsValid(call'[c].req)
  BY <1>m, <1>a DEF Passed
<1>1. CASE Execute(c)
  <2>1. c \notin acted'
    BY <1>1 DEF Execute, Fresh, At
  <2>2. PICK t \in Tasks, req \in Requests :
             Refuse(c, t, req) \/ Block(c, t, req) \/ Proceed(c, t, req)
    BY <1>1 DEF Execute
  <2>3. PICK pc, result : /\ call' = [call EXCEPT ![c] = Started(t, req, pc, result)]
                          /\ pc \in {"looking", "acting"} => Allowed(req) /\ ArgsValid(req)
    BY <2>2 DEF Refuse, Block, Proceed, Becomes
  <2>4. call'[c].pc = pc /\ call'[c].req = req
    BY <2>3 DEF TypeOK, Started
  <2> QED BY <2>1, <2>3, <2>4
<1>2. CASE Look(c) \/ Succeed(c) \/ Fail(c) \/ Malform(c)
  <2>1. call[c].pc \in {"looking", "acting"}
    BY <1>2 DEF Look, Succeed, Fail, Malform, At
  <2> QED BY <2>1, <1>m DEF Passed, At
<1>3. CASE Record(c) \/ DatabaseFails(c)
  <2>1. /\ call[c].pc \in {"looking", "recording"} /\ acted' = acted
        /\ call'[c].pc \in {"returned", "raised"}
    BY <1>3 DEF Record, DatabaseFails, Becomes, At, TypeOK
  <2> QED BY <2>1, <1>m DEF Passed, At
<1> QED BY <1>1, <1>2, <1>3 DEF StepOf

LEMMA PassedStep ==
  ASSUME IInv, Passed, [Next]_vars
  PROVE  Passed'
<1>1. CASE Crash
  <2>1. /\ acted' = acted
        /\ \A c \in Calls : /\ call'[c].req = call[c].req
                            /\ call'[c].pc \notin {"looking", "acting"}
    BY <1>1 DEF Crash, IInv, TypeOK
  <2> QED BY <2>1 DEF Passed
<1>2. ASSUME NEW c \in Calls, StepOf(c)
      PROVE  Passed'
  BY <1>2, StepPassed DEF IInv
<1>3. CASE UNCHANGED vars
  BY <1>3 DEF vars, Passed
<1> QED BY <1>1, <1>2, <1>3 DEF Next, StepOf

(* EffectsAreGuarded: the allow-list, the arguments and the order in which *)
(* execute asks for them let no effect through before routing, none but an *)
(* escalation in W3, and no payment that nobody authorized.                *)
THEOREM Guarded == Spec => []EffectsAreGuarded
<1>1. Init => Passed
  BY DEF Init, NewCall, Passed
<1>2. IInv /\ Passed => EffectsAreGuarded
  <2> SUFFICES ASSUME TypeOK, Passed, NEW c \in acted
               PROVE  LET req == call[c].req
                      IN  /\ req.workflow = "none" => req.tool \in ReadOnly
                          /\ req.workflow = "W3" => req.tool \in ReadOnly \cup {"escalate_to_human"}
                          /\ req.tool = "payment_execute" =>
                               req.workflow \in {"W1", "W2"} /\ req.authorized
    BY DEF IInv, EffectsAreGuarded
  <2> DEFINE req == call[c].req
  <2>1. c \in Calls /\ req \in Request
    BY DEF TypeOK
  <2>2. Allowed(req) /\ ArgsValid(req)
    BY <2>1 DEF Passed
  <2> HIDE DEF req
  <2>3. req.workflow = "none" => req.tool \in ReadOnly
    BY <2>2 DEF Allowed, RiskTier
  <2>4. req.workflow = "W3" => req.tool \in ReadOnly \cup {"escalate_to_human"}
    BY <2>2 DEF Allowed, AllowList
  <2>5. req.tool = "payment_execute" => req.workflow \in {"W1", "W2"} /\ req.authorized
    BY <2>1, <2>2, <2>3 DEF Allowed, AllowList, ArgsValid, Request, Workflow, ReadOnly
  <2> QED BY <2>3, <2>4, <2>5 DEF req
<1> QED BY <1>1, <1>2, IInvInit, IInvStep, PassedStep, PTL DEF Spec

-----------------------------------------------------------------------------
(* Whose result a lookup finds.  A key of the table names its claim, so    *)
(* its source serves every task; a hash in a dictionary has its source in  *)
(* the dictionary's own task.                                              *)

Source(key, t) ==
  \E d \in acted : /\ KeyFor(d) = key
                   /\ call[d].result = "ok"
                   /\ HasKey(call[d].req) \/ call[d].task = t

SourceAfter(key, t) ==
  \E d \in acted' : /\ KeyAfter(d) = key
                    /\ call'[d].result = "ok"
                    /\ HasKey(call'[d].req) \/ call'[d].task = t

OwnInv ==
  /\ \A t \in Tasks : \A key \in cache[t] : Source(key, t)
  /\ \A r \in rows, t \in Tasks : r.keyed => Source(KeyFor(r.call), t)
  /\ \A c \in Calls :
       call[c].cached \/ (At(c, "recording") /\ call[c].result = "ok") =>
         Source(KeyFor(c), call[c].task)
  /\ \A c \in acted : call[c].pc \in {"recording", "returned", "raised", "lost"}

LEMMA FoundHasSource ==
  ASSUME OwnInv, NEW t \in Tasks, NEW key, Found(t, key)
  PROVE  Source(key, t)
  BY DEF OwnInv, Found, RowFor

(* The source of a key that names its claim serves every task.             *)
LEMMA KeyedServesAll ==
  ASSUME NEW c \in Calls, NEW t \in Tasks, NEW u \in Tasks,
         HasKey(call[c].req), Source(KeyFor(c), t)
  PROVE  Source(KeyFor(c), u)
<1>1. PICK d \in acted : KeyFor(d) = KeyFor(c) /\ call[d].result = "ok"
  BY DEF Source
<1>2. call[d].req.tool = call[c].req.tool
  BY <1>1, KeyTellsApart DEF KeyFor
<1> QED BY <1>1, <1>2 DEF Source, HasKey

(* An execution that acted keeps its result.                               *)
LEMMA SourceStays ==
  ASSUME TypeOK, OwnInv, NEW c \in Calls, StepOf(c)
  PROVE  /\ acted \subseteq acted'
         /\ \A key : \A t \in Tasks : Source(key, t) => SourceAfter(key, t)
<1>1. acted \subseteq acted'
  BY DEF StepOf, Execute, Look, Succeed, Fail, Malform, Record, DatabaseFails, Acts
<1>2. ASSUME NEW d \in acted
      PROVE  /\ call'[d].req = call[d].req /\ call'[d].result = call[d].result
             /\ call'[d].task = call[d].task /\ KeyAfter(d) = KeyFor(d)
  <2>1. d \in Calls /\ ~ At(d, "idle") /\ ~ At(d, "looking") /\ ~ At(d, "acting")
    BY DEF TypeOK, OwnInv, At
  <2>2. CASE d # c
    BY <2>1, <2>2, OneMoves DEF KeyAfter, KeyFor
  <2>3. CASE d = c
    <3>1. Record(c) \/ DatabaseFails(c)
      BY <2>1, <2>3 DEF StepOf, Execute, Look, Succeed, Fail, Malform
    <3>2. call'[d].result = call[d].result
      BY <2>3, <3>1 DEF Record, DatabaseFails, Becomes, TypeOK
    <3> QED BY <2>1, <2>3, <3>2, OneMoves, KeyStays
  <2> QED BY <2>2, <2>3
<1> QED BY <1>1, <1>2 DEF Source, SourceAfter

(* What a step adds has a source.                                          *)
LEMMA StepSource ==
  ASSUME IInv, OwnInv, NEW c \in Calls, StepOf(c)
  PROVE  /\ \A t \in Tasks : \A key \in cache'[t] : key \in cache[t] \/ SourceAfter(key, t)
         /\ \A r \in rows' : r \in rows \/ /\ r.call = c
                                           /\ r.keyed => \A t \in Tasks : SourceAfter(KeyAfter(c), t)
         /\ call'[c].cached \/ (call'[c].pc = "recording" /\ call'[c].result = "ok") =>
              SourceAfter(KeyAfter(c), call'[c].task)
         /\ \A d \in acted' : d \in acted \/ d = c
         /\ c \in acted' => call'[c].pc \in {"recording", "returned", "raised", "lost"}
<1>t. TypeOK
  BY DEF IInv
<1>s. \A key : \A t \in Tasks : Source(key, t) => SourceAfter(key, t)
  BY <1>t, SourceStays
<1>y. call[c].task \in Tasks
  BY <1>t DEF TypeOK
<1>k. ~ At(c, "idle") => KeyAfter(c) = KeyFor(c) /\ call'[c].task = call[c].task
  BY <1>t, KeyStays, OneMoves
<1>c. call[c].cached => SourceAfter(KeyFor(c), call[c].task)
  BY <1>s, <1>y DEF OwnInv
<1>1. CASE Execute(c)
  <2>1. PICK t, req, pc, result : call' = [call EXCEPT ![c] = Started(t, req, pc, result)]
    BY <1>1 DEF Execute, Refuse, Block, Proceed, Becomes
  <2>2. ~ call'[c].cached
    BY <2>1, <1>t DEF TypeOK, Started
  <2>3. call'[c].pc # "recording"
    BY <1>1, ExecuteStarts
  <2>4. c \notin acted /\ UNCHANGED <<rows, cache, acted>>
    BY <1>1 DEF Execute, IInv, Fresh, At
  <2> QED BY <2>2, <2>3, <2>4
<1>2. CASE Look(c)
  <2>1. /\ call'[c].pc = "recording" <=> Found(call[c].task, KeyFor(c))
        /\ call'[c].pc \in {"recording", "acting"}
    BY <1>2, <1>t, LookIs
  <2>2. call'[c].cached => call[c].cached \/ Found(call[c].task, KeyFor(c))
    BY <1>2, <1>t DEF Look, Becomes, TypeOK
  <2>3. c \notin acted /\ ~ At(c, "idle") /\ UNCHANGED <<rows, cache, acted>>
    BY <1>2 DEF Look, IInv, Fresh, At
  <2>4. Found(call[c].task, KeyFor(c)) => SourceAfter(KeyFor(c), call[c].task)
    BY FoundHasSource, <1>s, <1>y
  <2> QED BY <2>1, <2>2, <2>3, <2>4, <1>c, <1>k
<1>3. CASE Succeed(c)
  <2>1. /\ call'[c].result = "ok" /\ call'[c].pc = "recording" /\ ~ At(c, "idle")
        /\ acted' = acted \cup {c} /\ rows' = rows
    BY <1>3, <1>t DEF Succeed, Ends, Becomes, Acts, TypeOK, At
  <2>2. SourceAfter(KeyFor(c), call[c].task)
    BY <2>1, <1>k DEF SourceAfter
  <2>3. ASSUME NEW t \in Tasks, NEW key \in cache'[t]
        PROVE  key \in cache[t] \/ (key = KeyFor(c) /\ t = call[c].task)
    BY <1>3, <1>t, <1>y, <2>3 DEF Succeed, TypeOK
  <2> QED BY <2>1, <2>2, <2>3, <1>k
<1>4. CASE Fail(c)
  <2>1. /\ call'[c].result # "ok" /\ call'[c].pc = "recording"
        /\ call'[c].cached = call[c].cached /\ ~ At(c, "idle")
        /\ acted' \subseteq acted \cup {c} /\ rows' = rows /\ cache' = cache
    <3>1. PICK result \in {"failed", "TOOL_ERROR"} : Ends(c, "recording", result)
      BY <1>4 DEF Fail
    <3>2. call'[c] = [call[c] EXCEPT !.pc = "recording", !.result = result]
      BY <3>1, <1>t DEF Ends, Becomes, TypeOK
    <3>3. /\ call'[c].result = result
          /\ call'[c].pc = "recording" /\ call'[c].cached = call[c].cached
      BY <3>2, <1>t DEF TypeOK
    <3>4. acted' \subseteq acted \cup {c} /\ rows' = rows /\ cache' = cache /\ ~ At(c, "idle")
      BY <1>4 DEF Fail, Acts, At
    <3> QED BY <3>1, <3>3, <3>4
  <2> QED BY <2>1, <1>c, <1>k
<1>5. CASE Malform(c)
  <2>1. /\ call'[c].pc = "raised" /\ call'[c].cached = call[c].cached /\ ~ At(c, "idle")
        /\ acted' \subseteq acted \cup {c} /\ rows' = rows /\ cache' = cache
    BY <1>5, <1>t DEF Malform, Ends, Becomes, Acts, TypeOK, At
  <2> QED BY <2>1, <1>c, <1>k
<1>6. CASE Record(c)
  <2>1. /\ call'[c].pc = "returned" /\ At(c, "recording") /\ ~ At(c, "idle")
        /\ call'[c].cached = call[c].cached
        /\ acted' = acted /\ cache' = cache
        /\ rows' \subseteq rows \cup {Row(c)}
    BY <1>6, <1>t DEF Record, Becomes, TypeOK, At
  <2>2. Row(c).call = c /\ (Row(c).keyed => call[c].result = "ok" /\ HasKey(call[c].req))
    BY DEF Row, KeyToRecord
  <2>3. ASSUME Row(c).keyed, NEW t \in Tasks
        PROVE  SourceAfter(KeyFor(c), t)
    <3>1. Source(KeyFor(c), call[c].task)
      BY <2>1, <2>2, <2>3 DEF OwnInv
    <3> QED BY <3>1, <2>2, <2>3, <1>y, <1>s, KeyedServesAll
  <2> QED BY <2>1, <2>2, <2>3, <1>c, <1>k
<1>7. CASE DatabaseFails(c)
  <2>1. /\ call'[c].pc = "raised" /\ call'[c].cached = call[c].cached /\ ~ At(c, "idle")
        /\ UNCHANGED <<rows, cache, acted>>
    BY <1>7, <1>t DEF DatabaseFails, Becomes, TypeOK, At
  <2> QED BY <2>1, <1>c, <1>k DEF OwnInv
<1> QED BY <1>1, <1>2, <1>3, <1>4, <1>5, <1>6, <1>7 DEF StepOf

LEMMA OwnStep ==
  ASSUME IInv, OwnInv, [Next]_vars
  PROVE  OwnInv'
<1>1. CASE Crash
  <2>1. /\ rows' = rows /\ acted' = acted /\ \A t \in Tasks : cache'[t] = {}
        /\ \A c \in Calls : /\ call'[c].req = call[c].req /\ call'[c].result = call[c].result
                            /\ call'[c].cached = call[c].cached
                            /\ call'[c].task = call[c].task
                            /\ \/ call'[c].pc = call[c].pc
                               \/ call'[c].pc = "lost"
    BY <1>1 DEF Crash, IInv, TypeOK
  <2>2. acted \subseteq Calls /\ \A r \in rows : r.call \in Calls
    BY DEF IInv, TypeOK
  <2>3. \A c \in Calls : KeyFor(c)' = KeyFor(c)
    BY <2>1 DEF KeyFor
  <2>4. \A key : \A t \in Tasks : Source(key, t) => Source(key, t)'
    BY <2>1, <2>2, <2>3 DEF Source
  <2>5. \A c \in acted : call'[c].pc \in {"recording", "returned", "raised", "lost"}
    BY <2>1, <2>2 DEF OwnInv
  <2>6. \A r \in rows, t \in Tasks : r.keyed => Source(KeyFor(r.call), t)'
    BY <2>2, <2>3, <2>4 DEF OwnInv
  <2>7. ASSUME NEW c \in Calls,
               call'[c].cached \/ (call'[c].pc = "recording" /\ call'[c].result = "ok")
        PROVE  Source(KeyFor(c), call[c].task)'
    <3>1. Source(KeyFor(c), call[c].task) /\ call[c].task \in Tasks
      BY <2>1, <2>7 DEF OwnInv, At, IInv, TypeOK
    <3> QED BY <3>1, <2>1, <2>3, <2>4
  <2> QED BY <2>1, <2>5, <2>6, <2>7 DEF OwnInv, At
<1>2. ASSUME NEW c \in Calls, StepOf(c)
      PROVE  OwnInv'
  <2>t. TypeOK
    BY DEF IInv
  <2>s. \A key : \A t \in Tasks : Source(key, t) => SourceAfter(key, t)
    BY <1>2, <2>t, SourceStays
  <2>m. \A d \in Calls \ {c} : call'[d] = call[d] /\ KeyAfter(d) = KeyFor(d)
    BY <1>2, <2>t, OneMoves DEF KeyAfter, KeyFor
  <2>1. \A t \in Tasks : \A key \in cache'[t] : SourceAfter(key, t)
    BY <1>2, StepSource, <2>s DEF OwnInv
  <2>2. ASSUME NEW r \in rows', NEW t \in Tasks, r.keyed
        PROVE  SourceAfter(KeyAfter(r.call), t)
    <3>1. CASE r \in rows
      <4>1. r.call \in Calls /\ ~ At(r.call, "idle")
        BY <3>1 DEF IInv, TypeOK, RowsDone
      <4>2. KeyAfter(r.call) = KeyFor(r.call)
        BY <1>2, <4>1, <2>t, KeyStays
      <4> QED BY <3>1, <4>2, <2>2, <2>s DEF OwnInv
    <3>2. CASE r \notin rows
      BY <1>2, <2>2, <3>2, StepSource
    <3> QED BY <3>1, <3>2
  <2>3. ASSUME NEW d \in Calls,
               call'[d].cached \/ (call'[d].pc = "recording" /\ call'[d].result = "ok")
        PROVE  SourceAfter(KeyAfter(d), call'[d].task)
    <3>1. CASE d = c
      BY <1>2, <2>3, <3>1, StepSource
    <3>2. CASE d # c
      BY <2>3, <3>2, <2>m, <2>s, <2>t DEF OwnInv, At, TypeOK
    <3> QED BY <3>1, <3>2
  <2>4. ASSUME NEW d \in acted'
        PROVE  call'[d].pc \in {"recording", "returned", "raised", "lost"}
    <3>1. CASE d = c
      BY <1>2, <3>1, StepSource
    <3>2. CASE d # c
      <4>1. d \in acted /\ d \in Calls
        BY <1>2, <3>2, StepSource, <2>t DEF TypeOK
      <4> QED BY <3>2, <4>1, <2>m DEF OwnInv
    <3> QED BY <3>1, <3>2
  <2> QED BY <2>1, <2>2, <2>3, <2>4 DEF OwnInv, At, Source, SourceAfter, KeyAfter, KeyFor
<1>3. CASE UNCHANGED vars
  BY <1>3 DEF vars, OwnInv, Source, At, KeyFor
<1> QED BY <1>1, <1>2, <1>3 DEF Next, StepOf

(* CachedIsOwn: although the lookup goes by the key alone and a hash does  *)
(* not name the claim, what an execution finds is the success of the same  *)
(* tool for the same claim, and a read's is its own task's (execute,       *)
(* record_tool_call, the idempotency stores, _build_deps).                 *)
THEOREM CachedOwn == Spec => []CachedIsOwn
<1>1. Init => OwnInv
  BY DEF Init, NewCall, OwnInv, At
<1>2. TypeOK /\ OwnInv => CachedIsOwn
  <2> SUFFICES ASSUME TypeOK, OwnInv, NEW c \in Calls, call[c].cached
               PROVE  \E d \in acted :
                        /\ call[d].result = "ok"
                        /\ call[d].req.tool = call[c].req.tool
                        /\ Subject[call[d].task] = Subject[call[c].task]
                        /\ ~ HasKey(call[c].req) =>
                             call[d].task = call[c].task /\ call[d].req.args = call[c].req.args
    BY DEF CachedIsOwn
  <2>1. PICK d \in acted : /\ KeyFor(d) = KeyFor(c)
                           /\ call[d].result = "ok"
                           /\ HasKey(call[d].req) \/ call[d].task = call[c].task
    BY DEF OwnInv, Source
  <2>2. /\ call[d].req.tool = call[c].req.tool
        /\ HasKey(call[d].req) => Subject[call[d].task] = Subject[call[c].task]
        /\ ~ HasKey(call[d].req) => call[d].req.args = call[c].req.args
    BY <2>1, KeyTellsApart DEF KeyFor
  <2>3. HasKey(call[d].req) <=> HasKey(call[c].req)
    BY <2>2 DEF HasKey
  <2> QED BY <2>1, <2>2, <2>3
<1> QED BY <1>1, <1>2, IInvInit, IInvStep, OwnStep, PTL DEF Spec, IInv
=============================================================================
