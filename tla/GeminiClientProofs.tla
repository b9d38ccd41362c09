-------------------------- MODULE GeminiClientProofs --------------------------
(***************************************************************************)
(* Theorems about GeminiClient for any set of calls, any number of         *)
(* attempts and any token costs: the types, that llm_usage counts every    *)
(* answer once and for the model that gave it, and that each limiter is    *)
(* used in the order of CallQueue (its steps; that nobody waits for ever   *)
(* rests on fairness).                                                     *)
(***************************************************************************)
EXTENDS GeminiClient, FiniteSetTheorems, SequenceTheorems, TLAPS

-----------------------------------------------------------------------------
(* Type correctness.                                                       *)

LEMMA NewCallType == NewCall \in Call
<1>1. 0 \in 0..(MaxAttempts - 1) /\ <<>> \in Seq(Answer)
  BY ClientAssumption
<1> QED BY <1>1 DEF NewCall, Call, PC, Kind, Model, Reason

LEMMA BecomesType ==
  ASSUME TypeOK, NEW c \in Calls, NEW to \in Call, Becomes(c, to)
  PROVE  /\ call' \in [Calls -> Call] /\ call'[c] = to
         /\ \A d \in Calls : d # c => call'[d] = call[d]
BY DEF TypeOK, Becomes

LEMMA JoinsType ==
  ASSUME TypeOK, NEW c \in Calls, NEW model \in Model, Joins(c, model)
  PROVE  /\ queue' \in [Model -> Seq(Calls)] /\ queue'[model] = Append(queue[model], c)
         /\ \A m \in Model : m # model => queue'[m] = queue[m]
BY DEF TypeOK, Joins

LEMMA ModelType == \A kind : ModelForTask(kind) \in Model
BY DEF ModelForTask, Model

(* Booking the last answer.                                                *)
LEMMA BookedType ==
  ASSUME TypeOK, NEW c \in Calls, NEW n \in Nat \ {0}, Len(call[c].answers) = n
  PROVE  /\ Booked(c) \in Call
         /\ LET old == call[c].answers
                new == Booked(c).answers
            IN  /\ Len(new) = n
                /\ new[n] = [old[n] EXCEPT !.counted = pool]
                /\ \A i \in 1..n : i # n => new[i] = old[i]
<1> DEFINE old  == call[c].answers
           last == [old[n] EXCEPT !.counted = pool]
           new  == [old EXCEPT ![n] = last]
<1>1. call[c] \in Call
  BY DEF TypeOK
<1>2. old \in Seq(Answer) /\ n \in 1..Len(old)
  BY <1>1 DEF Call
<1>3. last \in Answer
  <2> HIDE DEF old
  <2>1. old[n] \in Answer
    BY <1>2
  <2> QED BY <2>1 DEF Answer, TypeOK
<1>4. Booked(c) = [call[c] EXCEPT !.answers = new]
  BY DEF Booked
<1> HIDE DEF old, last
<1>5. /\ new \in Seq(Answer) /\ Len(new) = Len(old)
      /\ \A i \in 1..Len(old) : new[i] = IF i = n THEN last ELSE old[i]
  BY <1>2, <1>3, ExceptSeq
<1> HIDE DEF new
<1>6. Booked(c) \in Call /\ Booked(c).answers = new
  BY <1>1, <1>4, <1>5 DEF Call
<1> USE DEF old
<1> QED BY <1>2, <1>5, <1>6 DEF last

-----------------------------------------------------------------------------
(* How many answers a call has, and whether they are counted: one for each *)
(* iteration that is over, and in counting one more, of the model in use,  *)
(* that is not counted yet.  With a database the others are.               *)

CountedIn(task) == IF task.kind # "embed" THEN task.current ELSE "embedding"

CallInv(task) ==
  /\ task.pc = "idle" => task.iteration = 0
  /\ task.pc \in {"idle", "queued", "calling", "backoff"} => Len(task.answers) = task.iteration
  /\ task.pc = "counting" =>
       /\ Len(task.answers) = task.iteration + 1
       /\ ~ task.answers[Len(task.answers)].counted
       /\ task.answers[Len(task.answers)].model = CountedIn(task)
  /\ pool => NoneUncounted(task)

CallsInv == \A c \in Calls : CallInv(call[c])

(* The i-th answer of a call is counted, for model m.                      *)
Has(task, i, m) ==
  i \in DOMAIN task.answers /\ task.answers[i].model = m /\ task.answers[i].counted

(* A step of a call that counts nothing, and one that counts.              *)
Plain(c) ==
  /\ \A d \in Calls : d # c => call'[d] = call[d]
  /\ call'[c] \in Call /\ CallInv(call'[c])
  /\ \A i \in 1..2, m \in Counted : Has(call'[c], i, m) <=> Has(call[c], i, m)
  /\ usage' = usage

Counting(c) ==
  /\ pool
  /\ At(c, "counting")
  /\ \A d \in Calls : d # c => call'[d] = call[d]
  /\ call'[c] \in Call /\ CallInv(call'[c])
  /\ call'[c].answers = Booked(c).answers
  /\ Count(c)

Typed == call' \in [Calls -> Call] /\ queue' \in [Model -> Seq(Calls)]

LEMMA SameAnswers ==
  ASSUME NEW c \in Calls, call'[c].answers = call[c].answers
  PROVE  \A i \in 1..2, m \in Counted : Has(call'[c], i, m) <=> Has(call[c], i, m)
BY DEF Has

LEMMA BeginShape ==
  ASSUME TypeOK, CallsInv, NEW c \in Calls, Begin(c)
  PROVE  Typed /\ Plain(c)
<1>1. PICK kind \in Kind :
        /\ Becomes(c, [NewCall EXCEPT !.pc = "queued", !.kind = kind,
                                      !.current = ModelForTask(kind)])
        /\ Joins(c, ModelForTask(kind))
  BY DEF Begin
<1> DEFINE to == [NewCall EXCEPT !.pc = "queued", !.kind = kind, !.current = ModelForTask(kind)]
<1>2. to \in Call /\ to.pc = "queued" /\ to.answers = <<>> /\ to.iteration = 0
  BY NewCallType, ModelType DEF Call, PC, NewCall
<1> HIDE DEF to
<1>3. Becomes(c, to) /\ ModelForTask(kind) \in Model
  BY <1>1, ModelType DEF to
<1>4. CallInv(to)
  BY <1>2 DEF CallInv, NoneUncounted
<1>5. call[c].answers = <<>>
  <2>1. call[c].answers \in Seq(Answer) /\ Len(call[c].answers) = 0
    BY DEF TypeOK, Call, CallsInv, CallInv, Begin, At
  <2> QED BY <2>1, EmptySeq
<1>6. call' \in [Calls -> Call] /\ call'[c] = to /\ \A d \in Calls : d # c => call'[d] = call[d]
  BY <1>2, <1>3, BecomesType
<1>7. queue' \in [Model -> Seq(Calls)]
  BY <1>1, <1>3, JoinsType
<1> QED BY <1>2, <1>4, <1>5, <1>6, <1>7, SameAnswers DEF Begin, Typed, Plain

LEMMA SameShape ==
  ASSUME TypeOK, NEW c \in Calls, NEW to \in Call, Becomes(c, to), CallInv(to),
         to.answers = call[c].answers, UNCHANGED usage
  PROVE  call' \in [Calls -> Call] /\ Plain(c)
BY BecomesType, SameAnswers DEF Plain

LEMMA WaitingShape ==
  ASSUME TypeOK, CallsInv, NEW c \in Calls,
         \/ Admitted(c) \/ Unconfigured(c) \/ Refused(c) \/ GivesUp(c) \/ Breaks(c)
         \/ BackoffEnds(c) \/ CountFails(c)
  PROVE  Typed /\ Plain(c)
<1>1. call[c] \in Call /\ CallInv(call[c])
  BY DEF TypeOK, CallsInv
<1>2. CASE Admitted(c)
  <2> DEFINE to == [call[c] EXCEPT !.pc = "calling"]
             model == call[c].current
  <2>1. to \in Call /\ CallInv(to) /\ to.answers = call[c].answers
    BY <1>1, <1>2 DEF Admitted, At, Call, PC, CallInv, NoneUncounted
  <2>2. queue[model] \in Seq(Calls) /\ queue[model] # <<>> /\ queue' = [queue EXCEPT ![model] = Tail(@)]
    BY <1>1, <1>2 DEF Admitted, TypeOK, Call
  <2>3. Tail(queue[model]) \in Seq(Calls)
    BY <2>2
  <2>4. queue' \in [Model -> Seq(Calls)]
    BY <2>2, <2>3 DEF TypeOK
  <2> QED BY <1>2, <2>1, <2>4, SameShape DEF Admitted, Typed
<1>3. CASE Unconfigured(c) \/ GivesUp(c) \/ Breaks(c) \/ CountFails(c)
  <2>1. PICK pc \in {"escalated", "raised"}, why \in Reason :
             Ends(c, pc, why) /\ (pc = "escalated" => call[c].pc = "calling")
    BY <1>3 DEF Unconfigured, GivesUp, Breaks, CountFails, Reason, At
  <2> DEFINE to == [call[c] EXCEPT !.pc = pc, !.reason = why]
  <2>a. to \in Call /\ to.pc = pc /\ to.answers = call[c].answers /\ Becomes(c, to)
    BY <1>1, <2>1 DEF Ends, Call, PC
  <2>b. call[c].pc \in {"calling", "counting"}
    BY <1>3 DEF Unconfigured, GivesUp, Breaks, CountFails, At
  <2>c. pool => NoneUncounted(to)
    <3> HIDE DEF to
    <3> QED BY <1>1, <2>1, <2>a, <2>b DEF CallInv, NoneUncounted
  <2>2. to \in Call /\ CallInv(to) /\ to.answers = call[c].answers /\ Becomes(c, to)
    <3> HIDE DEF to
    <3> QED BY <2>a, <2>c DEF CallInv
  <2>3. UNCHANGED <<queue, usage>>
    BY <1>3 DEF Unconfigured, GivesUp, Breaks, CountFails
  <2> HIDE DEF to
  <2> QED BY <2>2, <2>3, SameShape DEF Typed, TypeOK
<1>4. CASE Refused(c)
  <2> DEFINE to == [call[c] EXCEPT !.pc = "backoff", !.current = AfterStrike(call[c]),
                                   !.attempt = NextAttempt(@)]
  <2>1. NextAttempt(call[c].attempt) \in 0..(MaxAttempts - 1)
    BY <1>1, <1>4, ClientAssumption DEF Refused, LastAttempt, NextAttempt, Call
  <2>2. AfterStrike(call[c]) \in Model
    BY <1>1 DEF AfterStrike, Call, Model
  <2>3. to \in Call /\ CallInv(to) /\ to.answers = call[c].answers
    BY <1>1, <1>4, <2>1, <2>2 DEF Refused, At, Call, PC, CallInv, NoneUncounted
  <2> HIDE DEF to
  <2>4. Becomes(c, to) /\ UNCHANGED <<queue, usage>>
    BY <1>4 DEF Refused, to
  <2> QED BY <2>3, <2>4, SameShape DEF Typed, TypeOK
<1>5. CASE BackoffEnds(c)
  <2> DEFINE to == [call[c] EXCEPT !.pc = "queued"]
  <2>1. to \in Call /\ CallInv(to) /\ to.answers = call[c].answers /\ call[c].current \in Model
    BY <1>1, <1>5 DEF BackoffEnds, At, Call, PC, CallInv, NoneUncounted
  <2>2. queue' \in [Model -> Seq(Calls)]
    BY <1>5, <2>1, JoinsType DEF BackoffEnds
  <2> QED BY <1>5, <2>1, <2>2, SameShape DEF BackoffEnds, Typed
<1> QED BY <1>2, <1>3, <1>4, <1>5

LEMMA AnsweredShape ==
  ASSUME TypeOK, CallsInv, NEW c \in Calls, Answered(c)
  PROVE  Typed /\ Plain(c) /\ call'[c].pc = "counting"
<1>1. call[c] \in Call /\ CallInv(call[c]) /\ call[c].pc = "calling"
  BY DEF TypeOK, CallsInv, Answered, At
<1> DEFINE old == call[c].answers
           n   == call[c].iteration
<1>2. old \in Seq(Answer) /\ Len(old) = n /\ n \in 0..1
  BY <1>1 DEF Call, CallInv
<1>3. PICK text \in {"valid", "invalid", "empty"}, tokens \in Nat, answer \in Answer :
        /\ ~ answer.counted /\ answer.model = CountedIn(call[c])
        /\ Becomes(c, [call[c] EXCEPT !.pc = "counting", !.text = text, !.tokens = tokens,
                                      !.answers = Append(old, answer)])
  <2>1. CASE Structured(c)
    <3>1. PICK text \in {"valid", "invalid", "empty"}, tokens \in AnswerTokens :
            Becomes(c, [call[c] EXCEPT
               !.pc = "counting", !.text = text, !.tokens = tokens,
               !.answers = Append(@, [model |-> call[c].current, tokens |-> tokens,
                                      counted |-> FALSE])])
      BY <2>1 DEF Answered
    <3> DEFINE answer == [model |-> call[c].current, tokens |-> tokens, counted |-> FALSE]
    <3>2. tokens \in Nat /\ answer \in Answer /\ ~ answer.counted /\ answer.model = CountedIn(call[c])
      BY <1>1, <2>1, ClientAssumption DEF CountedIn, Structured, Answer, Counted, Call
    <3> HIDE DEF answer
    <3>3. Becomes(c, [call[c] EXCEPT !.pc = "counting", !.text = text, !.tokens = tokens,
                                     !.answers = Append(old, answer)])
      BY <3>1 DEF answer
    <3> QED BY <3>2, <3>3
  <2>2. CASE ~ Structured(c)
    <3> DEFINE answer == [model |-> "embedding", tokens |-> 0, counted |-> FALSE]
    <3>1. Becomes(c, [call[c] EXCEPT !.pc = "counting", !.text = "valid",
                                     !.answers = Append(old, answer)])
      BY <2>2 DEF Answered
    <3>2. /\ call[c].tokens \in Nat /\ answer \in Answer /\ ~ answer.counted
          /\ answer.model = CountedIn(call[c])
      BY <1>1, <2>2 DEF CountedIn, Structured, Answer, Counted, Call
    <3> HIDE DEF answer
    <3>3. [call[c] EXCEPT !.pc = "counting", !.text = "valid", !.answers = Append(old, answer)]
          = [call[c] EXCEPT !.pc = "counting", !.text = "valid", !.tokens = call[c].tokens,
                            !.answers = Append(old, answer)]
      BY <1>1 DEF Call
    <3> QED BY <3>1, <3>2, <3>3
  <2> QED BY <2>1, <2>2
<1> DEFINE new == Append(old, answer)
           to  == [call[c] EXCEPT !.pc = "counting", !.text = text, !.tokens = tokens,
                                  !.answers = new]
<1>4. answer \in Answer /\ ~ answer.counted /\ answer.model = CountedIn(call[c])
  BY <1>3
<1> HIDE DEF old, n
<1>5. /\ new \in Seq(Answer) /\ Len(new) = n + 1 /\ new[n + 1] = answer
      /\ DOMAIN new = 1..(n + 1) /\ DOMAIN old = 1..n
      /\ \A i \in 1..n : new[i] = old[i]
  BY <1>2, <1>4
<1> HIDE DEF new
<1>6. to \in Call /\ to.answers = new /\ to.pc = "counting"
  BY <1>1, <1>5 DEF Call, PC
<1>a. pool => NoneUncounted(to)
  <2>1. pool => \A i \in 1..n : old[i].counted
    BY <1>1, <1>5 DEF CallInv, NoneUncounted, old
  <2> HIDE DEF to
  <2> QED BY <1>2, <1>5, <1>6, <2>1 DEF NoneUncounted
<1>7. CallInv(to)
  BY <1>1, <1>2, <1>4, <1>5, <1>6, <1>a DEF CallInv, CountedIn, n, Call
<1> HIDE DEF to
<1>8. Becomes(c, to)
  BY <1>3 DEF to, new, old
<1>9. call' \in [Calls -> Call] /\ call'[c] = to /\ \A d \in Calls : d # c => call'[d] = call[d]
  BY <1>6, <1>8, BecomesType
<1>10. \A i \in 1..2, m \in Counted : Has(call'[c], i, m) <=> Has(call[c], i, m)
  BY <1>2, <1>4, <1>5, <1>6, <1>9 DEF Has, old
<1> QED BY <1>6, <1>7, <1>9, <1>10 DEF Answered, Typed, Plain, TypeOK

LEMMA CountingShape ==
  ASSUME TypeOK, CallsInv, NEW c \in Calls,
         Returns(c) \/ NoText(c) \/ Repair(c) \/ RepairFailed(c)
  PROVE  Typed /\ (Plain(c) \/ Counting(c))
<1>1. call[c] \in Call /\ CallInv(call[c]) /\ call[c].pc = "counting"
  BY DEF TypeOK, CallsInv, Returns, NoText, Repair, RepairFailed, At
<1>2. /\ call[c].iteration \in 0..1
      /\ Len(call[c].answers) = call[c].iteration + 1
  BY <1>1 DEF Call, CallInv
<1>3. PICK n \in Nat \ {0} : Len(call[c].answers) = n
  BY <1>2
<1> DEFINE old == call[c].answers
           new == Booked(c).answers
<1>4. /\ Booked(c) \in Call /\ Len(new) = n
      /\ new[n] = [old[n] EXCEPT !.counted = pool]
      /\ \A i \in 1..n : i # n => new[i] = old[i]
  BY <1>3, BookedType
<1>a. /\ old \in Seq(Answer) /\ new \in Seq(Answer)
      /\ DOMAIN old = 1..n /\ DOMAIN new = 1..n /\ n \in 1..n
  BY <1>1, <1>3, <1>4 DEF Call
<1>b. ~ old[n].counted /\ (pool => \A i \in 1..n : i # n => old[i].counted)
  BY <1>1, <1>3, <1>a DEF CallInv, NoneUncounted
<1> HIDE DEF old, new
<1>c. new[n].counted = pool
  <2>1. old[n] \in Answer
    BY <1>a
  <2> QED BY <1>4, <2>1 DEF Answer
<1>d. pool => \A i \in DOMAIN new : new[i].counted
  BY <1>4, <1>a, <1>b, <1>c
<1>e. ~ pool => \A i \in 1..2, m \in Counted :
        (i \in DOMAIN new /\ new[i].model = m /\ new[i].counted) <=> Has(call[c], i, m)
  BY <1>4, <1>a, <1>b, <1>c DEF Has, old
<1>f. ASSUME NEW to \in Call, Becomes(c, to), CallInv(to), to.answers = new, Count(c)
      PROVE  call' \in [Calls -> Call] /\ (Plain(c) \/ Counting(c))
  <2>1. call' \in [Calls -> Call] /\ call'[c] = to /\ \A d \in Calls : d # c => call'[d] = call[d]
    BY <1>f, BecomesType
  <2>2. CASE pool
    BY <1>1, <1>f, <2>1, <2>2 DEF Counting, At, new
  <2>3. CASE ~ pool
    <3>1. usage' = usage
      BY <1>f, <2>3 DEF Count
    <3> QED BY <1>e, <1>f, <2>1, <2>3, <3>1 DEF Plain, Has
  <2> QED BY <2>1, <2>2, <2>3
<1>5. /\ Booked(c).pc = "counting" /\ Booked(c).iteration = call[c].iteration
      /\ Booked(c).kind = call[c].kind
  BY <1>1 DEF Booked, Call
<1> DEFINE booked == Booked(c)
<1> HIDE DEF booked
<1>6. /\ booked \in Call /\ Len(booked.answers) = call[c].iteration + 1
      /\ booked.answers = new
  BY <1>2, <1>3, <1>4 DEF booked, new
<1>7. CASE Repair(c)
  <2> DEFINE to == [booked EXCEPT !.pc = "queued", !.iteration = 1, !.attempt = 0,
                                  !.current = ModelForTask(call[c].kind)]
  <2>1. 0 \in 0..(MaxAttempts - 1) /\ ModelForTask(call[c].kind) \in Model
    BY ClientAssumption, ModelType
  <2>2. /\ to \in Call /\ to.pc = "queued" /\ to.iteration = 1
        /\ to.answers = booked.answers
    <3>1. PICK model \in Model : model = ModelForTask(call[c].kind)
      BY <2>1
    <3>2. to = [booked EXCEPT !.pc = "queued", !.iteration = 1, !.attempt = 0, !.current = model]
      BY <3>1
    <3> HIDE DEF to
    <3>3. /\ to.pc = "queued" /\ to.iteration = 1 /\ to.attempt = 0 /\ to.current = model
          /\ to.kind = booked.kind /\ to.text = booked.text /\ to.tokens = booked.tokens
          /\ to.reason = booked.reason /\ to.answers = booked.answers
      BY <1>6, <3>2 DEF Call
    <3>4. "queued" \in PC /\ 1 \in 0..1
      BY DEF PC
    <3>5. to \in Call
      BY <1>6, <2>1, <3>1, <3>2, <3>4 DEF Call
    <3> QED BY <3>3, <3>5
  <2>3. Len(booked.answers) = 1
    BY <1>6, <1>7 DEF Repair
  <2> HIDE DEF to
  <2>4. CallInv(to)
    BY <1>6, <1>d, <2>2, <2>3 DEF CallInv, NoneUncounted
  <2>5. Becomes(c, to) /\ Count(c)
    BY <1>7 DEF Repair, to, booked
  <2>6. queue' \in [Model -> Seq(Calls)]
    BY <1>7, <2>1, JoinsType DEF Repair
  <2> QED BY <1>6, <1>f, <2>2, <2>4, <2>5, <2>6 DEF Typed
<1>8. CASE Returns(c) \/ NoText(c) \/ RepairFailed(c)
  <2>1. PICK pc \in {"returned", "escalated"}, why \in Reason :
          Becomes(c, [booked EXCEPT !.pc = pc, !.reason = why])
    <3>1. CASE Returns(c)
      <4>1. booked.reason \in Reason
            /\ [booked EXCEPT !.pc = "returned"]
                 = [booked EXCEPT !.pc = "returned", !.reason = booked.reason]
        BY <1>6 DEF Call
      <4> QED BY <3>1, <4>1 DEF Returns, booked
    <3>2. CASE NoText(c) \/ RepairFailed(c)
      BY <3>2 DEF NoText, RepairFailed, booked, Reason
    <3> QED BY <1>8, <3>1, <3>2
  <2> DEFINE to == [booked EXCEPT !.pc = pc, !.reason = why]
  <2>2. to \in Call /\ to.pc = pc /\ to.answers = booked.answers
    BY <1>6 DEF Call, PC
  <2> HIDE DEF to
  <2>4. CallInv(to)
    BY <1>6, <1>d, <2>2 DEF CallInv, NoneUncounted
  <2>3. Becomes(c, to) /\ Count(c) /\ UNCHANGED queue
    BY <1>8, <2>1 DEF Returns, NoText, RepairFailed, to
  <2> QED BY <1>6, <1>f, <2>2, <2>3, <2>4 DEF Typed, TypeOK
<1> QED BY <1>7, <1>8

LEMMA StepShape ==
  ASSUME TypeOK, CallsInv, NEW c \in Calls, Begin(c) \/ Step(c)
  PROVE  Typed /\ (Plain(c) \/ Counting(c))
BY BeginShape, WaitingShape, AnsweredShape, CountingShape DEF Step

LEMMA CountType ==
  ASSUME TypeOK, NEW c \in Calls, Count(c), pool
  PROVE  /\ CountedAs(c) \in Counted /\ usage' \in [Counted -> [requests : Nat, tokens : Nat]]
         /\ usage'[CountedAs(c)].requests = usage[CountedAs(c)].requests + 1
         /\ \A m \in Counted : m # CountedAs(c) => usage'[m] = usage[m]
<1>1. CountedAs(c) \in Counted /\ call[c].tokens \in Nat
  BY DEF TypeOK, Call, CountedAs, Counted
<1> DEFINE m == CountedAs(c)
           more == [requests |-> usage[m].requests + 1,
                    tokens   |-> usage[m].tokens + IF Structured(c) THEN call[c].tokens ELSE 0]
<1> HIDE DEF m
<1>2. usage[m] \in [requests : Nat, tokens : Nat]
  BY <1>1 DEF TypeOK, m
<1>3. more \in [requests : Nat, tokens : Nat] /\ more.requests = usage[m].requests + 1
  BY <1>1, <1>2
<1> HIDE DEF more
<1>4. usage' = [usage EXCEPT ![m] = more]
  BY DEF Count, more, m
<1> QED BY <1>1, <1>3, <1>4 DEF TypeOK, m

(* Typed calls: their types, and the number of answers each has.           *)
CallsTyped == TypeOK /\ CallsInv

LEMMA CallsTypedStep ==
  ASSUME CallsTyped, [Next]_vars
  PROVE  CallsTyped'
<1>1. ASSUME NEW c \in Calls, Begin(c) \/ Step(c)
      PROVE  CallsTyped'
  <2>1. Typed /\ (Plain(c) \/ Counting(c))
    BY <1>1, StepShape DEF CallsTyped
  <2>2. usage' \in [Counted -> [requests : Nat, tokens : Nat]]
    BY <2>1, CountType DEF Plain, Counting, CallsTyped, TypeOK
  <2>3. key' = key /\ pool' = pool
    BY <1>1 DEF Begin, Step, Admitted, Unconfigured, Refused, GivesUp, Breaks, BackoffEnds,
         Answered, Returns, NoText, Repair, RepairFailed, CountFails
  <2>4. \A d \in Calls : CallInv(call'[d])
    BY <2>1 DEF Plain, Counting, CallsTyped, CallsInv
  <2>5. CallsInv'
    BY <2>3, <2>4 DEF CallsInv, CallInv, CountedIn, NoneUncounted
  <2> QED BY <2>1, <2>2, <2>3, <2>5 DEF CallsTyped, TypeOK, Typed
<1>2. CASE UNCHANGED vars
  BY <1>2 DEF vars, CallsTyped, TypeOK, CallsInv, CallInv, CountedIn, NoneUncounted
<1> QED BY <1>1, <1>2 DEF Next

LEMMA CallsTypedAlways == Spec => []CallsTyped
<1>1. Init => CallsTyped
  <2> SUFFICES ASSUME Init PROVE CallsTyped
    OBVIOUS
  <2>1. TypeOK
    BY NewCallType DEF Init, TypeOK
  <2>2. CallInv(NewCall)
    BY DEF CallInv, NewCall, NoneUncounted
  <2> QED BY <2>1, <2>2 DEF Init, CallsTyped, CallsInv
<1>2. CallsTyped /\ [Next]_vars => CallsTyped'
  BY CallsTypedStep
<1> QED BY <1>1, <1>2, PTL DEF Spec

(* TypeOK: every variable keeps its type, for any number of attempts; in   *)
(* particular no call makes more attempts than MaxAttempts                 *)
(* (_MAX_429_ATTEMPTS).                                                    *)
THEOREM TypeCorrect == Spec => []TypeOK
<1>1. CallsTyped => TypeOK
  BY DEF CallsTyped
<1> QED BY <1>1, CallsTypedAlways, PTL

-----------------------------------------------------------------------------
(* llm_usage.                                                              *)

(* The set of counted answers is finite although Calls need not be.        *)
UsageInv ==
  \A m \in Counted :
    /\ IsFiniteSet(CountedAnswers(m))
    /\ usage[m].requests = Cardinality(CountedAnswers(m))

LEMMA CountedPlaces ==
  ASSUME NEW m
  PROVE  CountedAnswers(m) = {p \in Calls \X (1..2) : Has(call[p[1]], p[2], m)}
BY DEF CountedAnswers, Has

LEMMA PlainUsage ==
  ASSUME NEW c \in Calls, Plain(c), UsageInv
  PROVE  UsageInv'
<1>1. \A d \in Calls, i \in 1..2, m \in Counted : Has(call'[d], i, m) <=> Has(call[d], i, m)
  BY DEF Plain
<1>2. \A m \in Counted : CountedAnswers(m)' = CountedAnswers(m)
  BY <1>1, CountedPlaces DEF CountedAnswers, Has
<1> QED BY <1>2 DEF UsageInv, Plain

LEMMA CountingUsage ==
  ASSUME CallsTyped, NEW c \in Calls, Counting(c), UsageInv
  PROVE  UsageInv'
<1>1. call[c] \in Call /\ CallInv(call[c]) /\ call[c].pc = "counting"
  BY DEF CallsTyped, TypeOK, CallsInv, Counting, At
<1>2. PICK n \in 1..2, mine \in Counted : n = call[c].iteration + 1 /\ mine = CountedAs(c)
  BY <1>1, CountType DEF Counting, CallsTyped, Call
<1> DEFINE old  == call[c].answers
           new  == Booked(c).answers
<1>3. /\ Len(old) = n /\ old \in Seq(Answer)
      /\ ~ old[n].counted /\ old[n].model = mine
  BY <1>1, <1>2 DEF Call, CallInv, CountedIn, CountedAs, Structured
<1>4. /\ Len(new) = n /\ new[n] = [old[n] EXCEPT !.counted = TRUE]
      /\ \A i \in 1..n : i # n => new[i] = old[i]
      /\ new \in Seq(Answer)
  <2>1. n \in Nat \ {0} /\ TypeOK
    BY <1>2 DEF CallsTyped
  <2>2. /\ Booked(c) \in Call
        /\ Len(new) = n /\ new[n] = [old[n] EXCEPT !.counted = pool]
        /\ \A i \in 1..n : i # n => new[i] = old[i]
    BY <1>3, <2>1, BookedType
  <2>3. pool = TRUE
    BY <2>1 DEF Counting, TypeOK
  <2>4. new \in Seq(Answer)
    BY <2>2 DEF Call
  <2> HIDE DEF new, old
  <2> QED BY <2>2, <2>3, <2>4
<1>5. call'[c].answers = new /\ \A d \in Calls : d # c => call'[d] = call[d]
  BY DEF Counting
<1>6. mine \in Counted /\ usage'[mine].requests = usage[mine].requests + 1
         /\ \A m \in Counted : m # mine => usage'[m] = usage[m]
  BY <1>2, CountType DEF Counting, CallsTyped
<1> HIDE DEF old, new
<1>7. new[n].counted /\ new[n].model = mine
  <2>1. old[n] \in Answer
    BY <1>2, <1>3
  <2> QED BY <1>3, <1>4, <2>1 DEF Answer
<1>8. DOMAIN old = 1..n /\ DOMAIN new = 1..n
  BY <1>3, <1>4
<1>9. \A i \in 1..2, m \in Counted :
        Has(call'[c], i, m) <=> Has(call[c], i, m) \/ (i = n /\ m = mine)
  <2> SUFFICES ASSUME NEW i \in 1..2, NEW m \in Counted
               PROVE  Has(call'[c], i, m) <=> Has(call[c], i, m) \/ (i = n /\ m = mine)
    OBVIOUS
  <2>1. Has(call'[c], i, m) <=> i \in 1..n /\ new[i].model = m /\ new[i].counted
    BY <1>5, <1>8 DEF Has
  <2>2. Has(call[c], i, m) <=> i \in 1..n /\ old[i].model = m /\ old[i].counted
    BY <1>8 DEF Has, old
  <2>3. CASE i = n
    <3>1. ~ (old[i].model = m /\ old[i].counted)
      BY <1>3, <2>3
    <3>2. i \in 1..n /\ new[i].model = mine /\ new[i].counted
      BY <1>2, <1>7, <2>3
    <3> QED BY <2>1, <2>2, <2>3, <3>1, <3>2
  <2>4. CASE i # n
    <3>1. i \in 1..n => new[i] = old[i]
      BY <1>4, <2>4
    <3> QED BY <2>1, <2>2, <2>4, <3>1
  <2> QED BY <2>3, <2>4
<1>10. ~ Has(call[c], n, mine)
  BY <1>3 DEF Has, old
<1> DEFINE Now(m)  == {p \in Calls \X (1..2) : Has(call[p[1]], p[2], m)}
           Then(m) == {p \in Calls \X (1..2) : Has(call'[p[1]], p[2], m)}
<1>11. \A m \in Counted : m # mine => Then(m) = Now(m)
  BY <1>5, <1>9
<1>12. Then(mine) = Now(mine) \cup {<<c, n>>} /\ <<c, n>> \notin Now(mine)
  BY <1>2, <1>5, <1>9, <1>10
<1>13. \A m \in Counted : CountedAnswers(m) = Now(m) /\ CountedAnswers(m)' = Then(m)
  BY DEF CountedAnswers, Has
<1> HIDE DEF Now, Then
<1>14. \A m \in Counted : IsFiniteSet(Now(m)) /\ usage[m].requests = Cardinality(Now(m))
  BY <1>13 DEF UsageInv
<1>15. IsFiniteSet(Then(mine)) /\ Cardinality(Then(mine)) = Cardinality(Now(mine)) + 1
  BY <1>12, <1>14, FS_AddElement
<1>16. \A m \in Counted : IsFiniteSet(Then(m)) /\ usage'[m].requests = Cardinality(Then(m))
  BY <1>6, <1>11, <1>14, <1>15
<1> QED BY <1>13, <1>16 DEF UsageInv

(* llm_usage has every answer once and for the model that gave it, however *)
(* many calls overlap, are downgraded or repaired, and with a database no  *)
(* call goes on from an answer that is not counted (increment_rpd).        *)
THEOREM UsageCounts == Spec => []UsageIsAnswers
<1>1. Init => UsageInv
  <2> SUFFICES ASSUME Init, NEW m \in Counted
               PROVE  IsFiniteSet(CountedAnswers(m)) /\ usage[m].requests = Cardinality(CountedAnswers(m))
    BY DEF UsageInv
  <2>1. CountedAnswers(m) = {}
    BY CountedPlaces DEF Init, NewCall, Has
  <2> QED BY <2>1, FS_EmptySet DEF Init
<1>2. CallsTyped /\ UsageInv /\ [Next]_vars => UsageInv'
  <2> SUFFICES ASSUME CallsTyped, UsageInv, [Next]_vars PROVE UsageInv'
    OBVIOUS
  <2>1. ASSUME NEW c \in Calls, Begin(c) \/ Step(c)
        PROVE  UsageInv'
    BY <2>1, StepShape, PlainUsage, CountingUsage DEF CallsTyped
  <2>2. CASE UNCHANGED vars
    BY <2>2 DEF vars, UsageInv, CountedAnswers
  <2> QED BY <2>1, <2>2 DEF Next
<1>3. CallsTyped /\ UsageInv => UsageIsAnswers
  BY DEF CallsTyped, CallsInv, CallInv, UsageInv, UsageIsAnswers
<1> QED BY <1>1, <1>2, <1>3, CallsTypedAlways, PTL DEF Spec

-----------------------------------------------------------------------------
(* The limiters.  Who is in the queue of a model is queued for it, and is  *)
(* in it once: a call that is let in is not also waiting.                  *)

QueueInv ==
  \A m \in Model :
    /\ \A i \in DOMAIN queue[m] :
         call[queue[m][i]].pc = "queued" /\ call[queue[m][i]].current = m
    /\ \A i, j \in DOMAIN queue[m] : queue[m][i] = queue[m][j] => i = j

(* How a call moves, as far as the limiters see it.                        *)
Enters(c, model) ==
  /\ call[c].pc \notin {"queued", "calling"}
  /\ call'[c].pc = "queued" /\ call'[c].current = model
  /\ queue'[model] = Append(queue[model], c)
  /\ \A m \in Model : m # model => queue'[m] = queue[m]

LetInTo(c, model) ==
  /\ call[c].pc = "queued" /\ call[c].current = model
  /\ call'[c].pc = "calling" /\ call'[c].current = model
  /\ queue[model] # <<>> /\ c = Head(queue[model])
  /\ queue'[model] = Tail(queue[model])
  /\ \A m \in Model : m # model => queue'[m] = queue[m]

Goes(c) ==
  /\ call[c].pc # "queued" /\ call'[c].pc \notin {"queued", "calling"}
  /\ queue' = queue

Moves(c) ==
  /\ \A d \in Calls : d # c => call'[d] = call[d]
  /\ \/ \E model \in Model : Enters(c, model) \/ LetInTo(c, model)
     \/ Goes(c)

LEMMA StepMoves ==
  ASSUME CallsTyped, NEW c \in Calls, Begin(c) \/ Step(c)
  PROVE  Moves(c)
<1>1. call[c] \in Call /\ \A d \in Calls : d # c => call'[d] = call[d]
  BY StepShape DEF CallsTyped, TypeOK, Plain, Counting
<1>2. CASE Begin(c)
  <2>1. PICK kind \in Kind :
          /\ Becomes(c, [NewCall EXCEPT !.pc = "queued", !.kind = kind,
                                        !.current = ModelForTask(kind)])
          /\ Joins(c, ModelForTask(kind)) /\ At(c, "idle")
    BY <1>2 DEF Begin
  <2>2. call'[c].pc = "queued" /\ call'[c].current = ModelForTask(kind)
    BY <2>1 DEF CallsTyped, TypeOK, Becomes, NewCall
  <2>3. Enters(c, ModelForTask(kind))
    BY <2>1, <2>2, ModelType, JoinsType DEF CallsTyped, Enters, At
  <2> QED BY <1>1, <2>3, ModelType DEF Moves
<1>3. CASE Admitted(c)
  <2>1. call[c].current \in Model /\ call'[c] = [call[c] EXCEPT !.pc = "calling"]
    BY <1>1, <1>3 DEF Admitted, Becomes, CallsTyped, TypeOK, Call
  <2>2. LetInTo(c, call[c].current)
    BY <1>1, <1>3, <2>1 DEF Admitted, At, LetInTo, CallsTyped, TypeOK, Call
  <2> QED BY <1>1, <2>1, <2>2 DEF Moves
<1>4. CASE BackoffEnds(c)
  <2>1. call[c].current \in Model /\ call'[c] = [call[c] EXCEPT !.pc = "queued"]
    BY <1>1, <1>4 DEF BackoffEnds, Becomes, CallsTyped, TypeOK, Call
  <2>2. Enters(c, call[c].current)
    BY <1>1, <1>4, <2>1, JoinsType DEF BackoffEnds, At, Enters, CallsTyped, Call
  <2> QED BY <1>1, <2>1, <2>2 DEF Moves
<1>5. CASE Repair(c)
  <2>1. call'[c] = [Booked(c) EXCEPT !.pc = "queued", !.iteration = 1, !.attempt = 0,
                                     !.current = ModelForTask(call[c].kind)]
    BY <1>5 DEF Repair, Becomes, CallsTyped, TypeOK
  <2>2. call'[c].pc = "queued" /\ call'[c].current = ModelForTask(call[c].kind)
    BY <1>1, <2>1 DEF Booked, Call
  <2>3. Enters(c, ModelForTask(call[c].kind))
    BY <1>5, <2>2, ModelType, JoinsType DEF Repair, At, Enters, CallsTyped
  <2> QED BY <1>1, <2>3, ModelType DEF Moves
<1>6. CASE Unconfigured(c) \/ Refused(c) \/ GivesUp(c) \/ Breaks(c) \/ CountFails(c)
  <2>1. call'[c].pc \in {"escalated", "raised", "backoff"}
    <3>1. \E pc \in {"escalated", "raised"} : \E why : Ends(c, pc, why) \/ Refused(c)
      BY <1>6 DEF Unconfigured, GivesUp, Breaks, CountFails
    <3>2. call[c] \in Call /\ call \in [Calls -> Call]
      BY <1>1 DEF CallsTyped, TypeOK
    <3> QED BY <3>1, <3>2 DEF Refused, Ends, Becomes, Call
  <2>2. Goes(c)
    BY <1>6, <2>1 DEF Unconfigured, Refused, GivesUp, Breaks, CountFails, At, Goes
  <2> QED BY <1>1, <2>2 DEF Moves
<1>7. CASE Answered(c)
  <2>1. call'[c].pc = "counting"
    BY <1>7, AnsweredShape DEF CallsTyped
  <2>2. Goes(c)
    BY <1>7, <2>1 DEF Answered, At, Goes
  <2> QED BY <1>1, <2>2 DEF Moves
<1>8. CASE Returns(c) \/ NoText(c) \/ RepairFailed(c)
  <2>1. call'[c].pc \in {"returned", "escalated"}
    <3> DEFINE answers == call[c].answers
               booked  == [answers EXCEPT ![Len(answers)].counted = pool]
    <3>1. Booked(c) = [call[c] EXCEPT !.answers = booked]
      BY DEF Booked
    <3>2. call \in [Calls -> Call]
      BY DEF CallsTyped, TypeOK
    <3> HIDE DEF booked
    <3>3. CASE Returns(c)
      BY <1>1, <3>1, <3>2, <3>3 DEF Returns, Becomes, Call
    <3>4. ASSUME NEW why, Becomes(c, [Booked(c) EXCEPT !.pc = "escalated", !.reason = why])
          PROVE  call'[c].pc = "escalated"
      <4>1. Booked(c).pc = call[c].pc /\ DOMAIN Booked(c) = DOMAIN call[c]
        BY <3>1
      <4>2. call'[c] = [Booked(c) EXCEPT !.pc = "escalated", !.reason = why]
        BY <3>2, <3>4 DEF Becomes
      <4> QED BY <1>1, <3>1, <4>1, <4>2 DEF Call
    <3>5. CASE NoText(c) \/ RepairFailed(c)
      BY <3>4, <3>5 DEF NoText, RepairFailed
    <3> QED BY <1>8, <3>3, <3>5
  <2>2. Goes(c)
    BY <1>8, <2>1 DEF Returns, NoText, RepairFailed, At, Goes
  <2> QED BY <1>1, <2>2 DEF Moves
<1> QED BY <1>2, <1>3, <1>4, <1>5, <1>6, <1>7, <1>8 DEF Step

(* The positions of a queue that lost its head or got a new last member.   *)
LEMMA TailPlaces ==
  ASSUME NEW S, NEW q \in Seq(S), q # <<>>
  PROVE  /\ Head(q) = q[1] /\ 1 \in DOMAIN q
         /\ \A i \in DOMAIN Tail(q) : i + 1 \in DOMAIN q /\ i # 0 /\ Tail(q)[i] = q[i + 1]
OBVIOUS

LEMMA AppendPlaces ==
  ASSUME NEW S, NEW q \in Seq(S), NEW x \in S
  PROVE  \A i \in DOMAIN Append(q, x) :
           \/ i \in DOMAIN q /\ Append(q, x)[i] = q[i]
           \/ i = Len(q) + 1 /\ Append(q, x)[i] = x
OBVIOUS

LEMMA QueueStep ==
  ASSUME CallsTyped, QueueInv, NEW c \in Calls, Moves(c)
  PROVE  QueueInv'
<1> SUFFICES ASSUME NEW m \in Model
             PROVE  /\ \A i \in DOMAIN queue'[m] :
                         call'[queue'[m][i]].pc = "queued" /\ call'[queue'[m][i]].current = m
                    /\ \A i, j \in DOMAIN queue'[m] : queue'[m][i] = queue'[m][j] => i = j
  BY DEF QueueInv
<1> DEFINE q == queue[m]
<1>1. q \in Seq(Calls) /\ \A i \in DOMAIN q : q[i] \in Calls
  BY DEF CallsTyped, TypeOK
<1>2. /\ \A i \in DOMAIN q : call[q[i]].pc = "queued" /\ call[q[i]].current = m
      /\ \A i, j \in DOMAIN q : q[i] = q[j] => i = j
  BY DEF QueueInv
<1>3. \A d \in Calls : d # c => call'[d] = call[d]
  BY DEF Moves
<1> HIDE DEF q
<1>4. ASSUME \A i \in DOMAIN q : q[i] # c, queue'[m] = q
      PROVE  /\ \A i \in DOMAIN queue'[m] :
                  call'[queue'[m][i]].pc = "queued" /\ call'[queue'[m][i]].current = m
             /\ \A i, j \in DOMAIN queue'[m] : queue'[m][i] = queue'[m][j] => i = j
  BY <1>1, <1>2, <1>3, <1>4
<1>5. CASE Goes(c)
  BY <1>2, <1>4, <1>5 DEF Goes, q
<1>6. ASSUME NEW model \in Model, Enters(c, model), model # m
      PROVE  queue'[m] = q /\ \A i \in DOMAIN q : q[i] # c
  BY <1>2, <1>6 DEF Enters, q
<1>7. ASSUME NEW model \in Model, LetInTo(c, model), model # m
      PROVE  queue'[m] = q /\ \A i \in DOMAIN q : q[i] # c
  BY <1>2, <1>7 DEF LetInTo, q
<1>8. CASE Enters(c, m)
  <2>1. queue'[m] = Append(q, c) /\ call'[c].pc = "queued" /\ call'[c].current = m
          /\ \A i \in DOMAIN q : q[i] # c
    BY <1>2, <1>8 DEF Enters, q
  <2>2. \A i \in DOMAIN Append(q, c) :
          \/ i \in DOMAIN q /\ Append(q, c)[i] = q[i]
          \/ i = Len(q) + 1 /\ Append(q, c)[i] = c
    BY <1>1, AppendPlaces
  <2> QED BY <1>1, <1>2, <1>3, <2>1, <2>2
<1>9. CASE LetInTo(c, m)
  <2>1. queue'[m] = Tail(q) /\ q # <<>> /\ c = Head(q)
    BY <1>9 DEF LetInTo, q
  <2>2. /\ Head(q) = q[1] /\ 1 \in DOMAIN q
        /\ \A i \in DOMAIN Tail(q) : i + 1 \in DOMAIN q /\ i # 0 /\ Tail(q)[i] = q[i + 1]
    BY <1>1, <2>1, TailPlaces
  <2>3. \A i \in DOMAIN q : i \in Nat
    BY <1>1
  <2>4. \A i \in DOMAIN Tail(q) : i \in Nat
    BY <1>1, <2>1
  <2>5. \A i \in DOMAIN Tail(q) : Tail(q)[i] # c
    BY <1>2, <2>1, <2>2, <2>4
  <2>6. \A i, j \in DOMAIN Tail(q) : Tail(q)[i] = Tail(q)[j] => i = j
    BY <1>2, <2>2, <2>4
  <2>7. \A i \in DOMAIN Tail(q) : call'[Tail(q)[i]].pc = "queued" /\ call'[Tail(q)[i]].current = m
    BY <1>1, <1>2, <1>3, <2>2, <2>5
  <2> QED BY <2>1, <2>6, <2>7
<1> QED BY <1>4, <1>5, <1>6, <1>7, <1>8, <1>9 DEF Moves

(* What the limiter of model m sees of a step.                             *)
Joined(m) ==
  \E c \in Calls :
    /\ c \notin LetIn(m) /\ \A i \in DOMAIN queue[m] : queue[m][i] # c
    /\ queue'[m] = Append(queue[m], c) /\ LetIn(m)' = LetIn(m)

HeadIn(m) ==
  /\ queue[m] # <<>>
  /\ queue'[m] = Tail(queue[m]) /\ LetIn(m)' = LetIn(m) \cup {Head(queue[m])}

OneLeft(m) ==
  \E c \in LetIn(m) : LetIn(m)' = LetIn(m) \ {c} /\ queue'[m] = queue[m]

Untouched(m) == LetIn(m)' = LetIn(m) /\ queue'[m] = queue[m]

LEMMA LimiterStep ==
  ASSUME CallsTyped, QueueInv, NEW c \in Calls, Moves(c), NEW m \in Model
  PROVE  Joined(m) \/ HeadIn(m) \/ OneLeft(m) \/ Untouched(m)
<1>1. \A d \in Calls : d # c => call'[d] = call[d]
  BY DEF Moves
<1>2. CASE Goes(c)
  <2>1. LetIn(m)' = LetIn(m) \ {c} /\ queue' = queue
    BY <1>1, <1>2 DEF Goes, LetIn
  <2> QED BY <2>1 DEF OneLeft, Untouched
<1>3. ASSUME NEW model \in Model, Enters(c, model)
      PROVE  Joined(m) \/ Untouched(m)
  <2>1. LetIn(m)' = LetIn(m) /\ c \notin LetIn(m)
    BY <1>1, <1>3 DEF Enters, LetIn
  <2>2. CASE m = model
    <3>1. \A i \in DOMAIN queue[m] : queue[m][i] # c
      BY <1>3 DEF QueueInv, Enters
    <3> QED BY <1>3, <2>1, <2>2, <3>1 DEF Enters, Joined
  <2>3. CASE m # model
    BY <1>3, <2>1, <2>3 DEF Enters, Untouched
  <2> QED BY <2>2, <2>3
<1>4. ASSUME NEW model \in Model, LetInTo(c, model)
      PROVE  HeadIn(m) \/ Untouched(m)
  <2>1. CASE m = model
    <3>1. LetIn(m)' = LetIn(m) \cup {c}
      BY <1>1, <1>4, <2>1 DEF LetInTo, LetIn
    <3> QED BY <1>4, <2>1, <3>1 DEF LetInTo, HeadIn
  <2>2. CASE m # model
    <3>1. LetIn(m)' = LetIn(m)
      BY <1>1, <1>4, <2>2 DEF LetInTo, LetIn
    <3> QED BY <1>4, <2>2, <3>1 DEF LetInTo, Untouched
  <2> QED BY <2>1, <2>2
<1> QED BY <1>2, <1>3, <1>4 DEF Moves

LEMMA LimiterNext ==
  ASSUME CallsTyped, QueueInv, [Next]_vars, NEW m \in Model
  PROVE  Joined(m) \/ HeadIn(m) \/ OneLeft(m) \/ Untouched(m)
<1>1. CASE UNCHANGED vars
  BY <1>1 DEF vars, Untouched, LetIn
<1> QED BY <1>1, StepMoves, LimiterStep DEF Next

LEMMA QueueNext ==
  ASSUME CallsTyped, QueueInv, [Next]_vars
  PROVE  QueueInv'
<1>1. CASE UNCHANGED vars
  BY <1>1 DEF vars, QueueInv
<1> QED BY <1>1, StepMoves, QueueStep DEF Next

LEMMA FlashStep ==
  ASSUME CallsTyped, QueueInv, [Next]_vars
  PROVE  [FlashQueue!Next]_(FlashQueue!vars)
<1> DEFINE m == "flash"
<1>1. Joined(m) \/ HeadIn(m) \/ OneLeft(m) \/ Untouched(m)
  BY LimiterNext DEF Model
<1>2. ASSUME Joined(m) PROVE \E c \in Calls : FlashQueue!Join(c)
  BY <1>2 DEF Joined, FlashQueue!Join, FlashQueue!Outside, FlashQueue!Waiting
<1>3. ASSUME HeadIn(m) PROVE FlashQueue!Admit
  BY <1>3 DEF HeadIn, FlashQueue!Admit
<1>4. ASSUME OneLeft(m) PROVE \E c \in Calls : FlashQueue!Leave(c)
  BY <1>4 DEF OneLeft, LetIn, FlashQueue!Leave
<1>5. ASSUME Untouched(m) PROVE UNCHANGED FlashQueue!vars
  BY <1>5 DEF Untouched, FlashQueue!vars
<1> QED BY <1>1, <1>2, <1>3, <1>4, <1>5 DEF FlashQueue!Next

LEMMA LiteStep ==
  ASSUME CallsTyped, QueueInv, [Next]_vars
  PROVE  [LiteQueue!Next]_(LiteQueue!vars)
<1> DEFINE m == "flash-lite"
<1>1. Joined(m) \/ HeadIn(m) \/ OneLeft(m) \/ Untouched(m)
  BY LimiterNext DEF Model
<1>2. ASSUME Joined(m) PROVE \E c \in Calls : LiteQueue!Join(c)
  BY <1>2 DEF Joined, LiteQueue!Join, LiteQueue!Outside, LiteQueue!Waiting
<1>3. ASSUME HeadIn(m) PROVE LiteQueue!Admit
  BY <1>3 DEF HeadIn, LiteQueue!Admit
<1>4. ASSUME OneLeft(m) PROVE \E c \in Calls : LiteQueue!Leave(c)
  BY <1>4 DEF OneLeft, LetIn, LiteQueue!Leave
<1>5. ASSUME Untouched(m) PROVE UNCHANGED LiteQueue!vars
  BY <1>5 DEF Untouched, LiteQueue!vars
<1> QED BY <1>1, <1>2, <1>3, <1>4, <1>5 DEF LiteQueue!Next

(* Nobody jumps the line of a model's limiter, retries, downgrades and     *)
(* repairs of other calls included (_one_call, generate_structured,        *)
(* embed): the steps of QueuesAreFair.  That nobody waits for ever rests   *)
(* on fairness, and TLC checks it.                                         *)
THEOREM QueuesKeepOrder == Spec => FlashQueue!Order /\ LiteQueue!Order
<1>1. Init => QueueInv
  BY DEF Init, QueueInv
<1>2. CallsTyped /\ QueueInv /\ [Next]_vars => QueueInv'
  BY QueueNext
<1>3. Init => FlashQueue!Init /\ LiteQueue!Init
  BY DEF Init, NewCall, LetIn, Model, FlashQueue!Init, LiteQueue!Init
<1>4. CallsTyped /\ QueueInv /\ [Next]_vars
        => [FlashQueue!Next]_(FlashQueue!vars) /\ [LiteQueue!Next]_(LiteQueue!vars)
  BY FlashStep, LiteStep
<1> QED
  BY <1>1, <1>2, <1>3, <1>4, CallsTypedAlways, PTL DEF Spec, FlashQueue!Order, LiteQueue!Order
=============================================================================
