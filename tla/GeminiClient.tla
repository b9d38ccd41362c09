----------------------------- MODULE GeminiClient -----------------------------
(***************************************************************************)
(* The funnel for every LLM call (llm/client.py): calls that share one     *)
(* rate limiter per model, are refused and retried, downgraded, repaired   *)
(* once, and counted in llm_usage (db.py).                                 *)
(*                                                                         *)
(* Each element of Calls is one generate_structured or embed call.  Time   *)
(* is left out: the limiter of a model is the fair queue of CallQueue,     *)
(* which TokenBucket implements, and a backoff ends some time.  The        *)
(* provider answers every request somehow: with a text, an error it        *)
(* reports, or a connection that breaks.                                   *)
(*                                                                         *)
(* An operator named Foo_Bar is Foo with a bug the code could have.  No    *)
(* specification uses it; it is what a property is tried against.          *)
(***************************************************************************)
EXTENDS Naturals, Sequences, FiniteSets

CONSTANTS
  Calls,        \* the calls that are made
  MaxAttempts,  \* _MAX_429_ATTEMPTS
  AnswerTokens  \* tokens one answer may cost

ASSUME ClientAssumption ==
  /\ MaxAttempts \in Nat \ {0}
  /\ AnswerTokens \subseteq Nat

VARIABLES
  key,      \* whether GEMINI_API_KEY is set
  pool,     \* whether there is a database
  call,     \* the calls and how far each one is
  queue,    \* who waits for the limiter of each model
  usage     \* llm_usage: answers and tokens counted today, by model

vars == <<key, pool, call, queue, usage>>

-----------------------------------------------------------------------------
Model    == {"flash", "flash-lite"}
Counted  == Model \cup {"embedding"}

(* What a call is for, as far as the client tells calls apart: a task of   *)
(* either tier, or texts to embed.                                         *)
Kind == {"on-flash", "on-flash-lite", "embed"}

ModelForTask(kind) == IF kind = "on-flash" THEN "flash" ELSE "flash-lite"

PC == {"idle", "queued", "calling", "counting", "backoff",
       "returned", "escalated", "raised"}

Reason == {"none", "LLM_UNCONFIGURED", "LLM_TRANSPORT", "LLM_EMPTY",
           "SCHEMA_VIOLATION", "refused", "broken"}

(* One answer of the provider, and whether llm_usage has it.               *)
Answer == [model : Counted, tokens : Nat, counted : BOOLEAN]

Call ==
  [pc        : PC,
   kind      : Kind,
   iteration : 0..1,
   attempt   : 0..(MaxAttempts - 1),
   current   : Model,
   text      : {"none", "valid", "invalid", "empty"},
   tokens    : Nat,               \* meta.tokens_in + meta.tokens_out
   reason    : Reason,
   answers   : Seq(Answer)]       \* history: what came back

NewCall ==
  [pc |-> "idle", kind |-> "embed", iteration |-> 0, attempt |-> 0,
   current |-> "flash-lite", text |-> "none", tokens |-> 0, reason |-> "none",
   answers |-> <<>>]

At(c, pc)        == call[c].pc = pc
Structured(c)    == call[c].kind # "embed"
Becomes(c, to)   == call' = [call EXCEPT ![c] = to]
Ends(c, pc, why) == Becomes(c, [call[c] EXCEPT !.pc = pc, !.reason = why])

Joins_First(c, model) == queue' = [queue EXCEPT ![model] = <<c>> \o @]
Joins(c, model) == queue' = [queue EXCEPT ![model] = Append(@, c)]

-----------------------------------------------------------------------------
(* generate_structured and embed ask the limiter first.                    *)
Begin(c) ==
  /\ At(c, "idle")
  /\ \E kind \in Kind :
       /\ Becomes(c, [NewCall EXCEPT !.pc = "queued", !.kind = kind,
                                     !.current = ModelForTask(kind)])
       /\ Joins(c, ModelForTask(kind))
  /\ UNCHANGED <<key, pool, usage>>

(* acquire returns: the request goes out (or there is no client to send    *)
(* it with).                                                               *)
Admitted(c) ==
  LET model == call[c].current
  IN  /\ At(c, "queued")
      /\ queue[model] # <<>>
      /\ c = Head(queue[model])
      /\ queue' = [queue EXCEPT ![model] = Tail(@)]
      /\ Becomes(c, [call[c] EXCEPT !.pc = "calling"])
      /\ UNCHANGED <<key, pool, usage>>

Unconfigured(c) ==
  /\ At(c, "calling")
  /\ ~ key
  /\ Ends(c, "escalated", "LLM_UNCONFIGURED")
  /\ UNCHANGED <<key, pool, queue, usage>>

LastAttempt_OneMore(attempt) == attempt = MaxAttempts
LastAttempt(attempt) == attempt = MaxAttempts - 1

(* The second strike on flash takes the next attempt to flash-lite.        *)
AfterStrike(call_) == IF call_.attempt >= 1 THEN "flash-lite" ELSE call_.current

NextAttempt_Reset(attempt) == 0
NextAttempt(attempt) == attempt + 1

(* 429 or 5xx, with attempts left.                                         *)
Refused(c) ==
  /\ At(c, "calling")
  /\ key
  /\ Structured(c)
  /\ ~ LastAttempt(call[c].attempt)
  /\ Becomes(c, [call[c] EXCEPT !.pc = "backoff", !.current = AfterStrike(call[c]),
                                !.attempt = NextAttempt(@)])
  /\ UNCHANGED <<key, pool, queue, usage>>

(* 429 or 5xx for the last time, or an error that no retry mends.          *)
GivesUp(c) ==
  /\ At(c, "calling")
  /\ key
  /\ Structured(c)
  /\ Ends(c, "escalated", "LLM_TRANSPORT")
  /\ UNCHANGED <<key, pool, queue, usage>>

(* embed does not look at the error; nobody looks at a broken connection.  *)
Breaks(c) ==
  /\ At(c, "calling")
  /\ key
  /\ \/ Ends(c, "raised", "broken")
     \/ ~ Structured(c) /\ Ends(c, "raised", "refused")
  /\ UNCHANGED <<key, pool, queue, usage>>

BackoffEnds(c) ==
  /\ At(c, "backoff")
  /\ Becomes(c, [call[c] EXCEPT !.pc = "queued"])
  /\ Joins(c, call[c].current)
  /\ UNCHANGED <<key, pool, usage>>

(* An answer: its tokens overwrite what an earlier answer of this call     *)
(* cost.  An embedding reports none.                                       *)
Answered(c) ==
  /\ At(c, "calling")
  /\ key
  /\ \/ /\ Structured(c)
        /\ \E text \in {"valid", "invalid", "empty"}, tokens \in AnswerTokens :
             Becomes(c, [call[c] EXCEPT
               !.pc = "counting", !.text = text, !.tokens = tokens,
               !.answers = Append(@, [model |-> call[c].current, tokens |-> tokens,
                                      counted |-> FALSE])])
     \/ /\ ~ Structured(c)
        /\ Becomes(c, [call[c] EXCEPT
             !.pc = "counting", !.text = "valid",
             !.answers = Append(@, [model |-> "embedding", tokens |-> 0,
                                    counted |-> FALSE])])
  /\ UNCHANGED <<key, pool, queue, usage>>

-----------------------------------------------------------------------------
(* After increment_rpd.                                                    *)
CountedAs_TaskModel(c) ==
  IF Structured(c) THEN ModelForTask(call[c].kind) ELSE "embedding"
CountedAs(c) == IF Structured(c) THEN call[c].current ELSE "embedding"

(* Without a pool increment_rpd makes a row up and the call goes on.       *)
Count(c) ==
  usage' = IF pool
           THEN [usage EXCEPT ![CountedAs(c)] =
                   [requests |-> @.requests + 1,
                    tokens   |-> @.tokens + IF Structured(c) THEN call[c].tokens ELSE 0]]
           ELSE usage

(* The answer that was just counted, if anybody counts.                    *)
Booked(c) ==
  LET answers == call[c].answers
  IN  [call[c] EXCEPT !.answers = [answers EXCEPT ![Len(answers)].counted = pool]]

Returns(c) ==
  /\ At(c, "counting")
  /\ call[c].text = "valid"
  /\ Count(c)
  /\ Becomes(c, [Booked(c) EXCEPT !.pc = "returned"])
  /\ UNCHANGED <<key, pool, queue>>

NoText(c) ==
  /\ At(c, "counting")
  /\ call[c].text = "empty"
  /\ Count(c)
  /\ Becomes(c, [Booked(c) EXCEPT !.pc = "escalated", !.reason = "LLM_EMPTY"])
  /\ UNCHANGED <<key, pool, queue>>

(* The one repair starts over: all attempts, and the task's own model.     *)
Repair(c) ==
  /\ At(c, "counting")
  /\ call[c].text = "invalid"
  /\ call[c].iteration = 0
  /\ Count(c)
  /\ Becomes(c, [Booked(c) EXCEPT !.pc = "queued", !.iteration = 1, !.attempt = 0,
                                  !.current = ModelForTask(call[c].kind)])
  /\ Joins(c, ModelForTask(call[c].kind))
  /\ UNCHANGED <<key, pool>>

RepairFailed(c) ==
  /\ At(c, "counting")
  /\ call[c].text = "invalid"
  /\ call[c].iteration = 1
  /\ Count(c)
  /\ Becomes(c, [Booked(c) EXCEPT !.pc = "escalated", !.reason = "SCHEMA_VIOLATION"])
  /\ UNCHANGED <<key, pool, queue>>

(* The database does not take the count.                                   *)
CountFails(c) ==
  /\ pool
  /\ At(c, "counting")
  /\ Ends(c, "raised", "broken")
  /\ UNCHANGED <<key, pool, queue, usage>>

-----------------------------------------------------------------------------
Init ==
  /\ key \in BOOLEAN
  /\ pool \in BOOLEAN
  /\ call = [c \in Calls |-> NewCall]
  /\ queue = [m \in Model |-> <<>>]
  /\ usage = [m \in Counted |-> [requests |-> 0, tokens |-> 0]]

Step(c) ==
  \/ Admitted(c) \/ Unconfigured(c) \/ Refused(c) \/ GivesUp(c) \/ Breaks(c)
  \/ BackoffEnds(c) \/ Answered(c) \/ Returns(c) \/ NoText(c) \/ Repair(c)
  \/ RepairFailed(c) \/ CountFails(c)

Next == \E c \in Calls : Begin(c) \/ Step(c)

Spec == Init /\ [][Next]_vars

(* Nobody has to make a call.  One that is made goes on: the limiter lets  *)
(* it in (CallQueue), the provider answers and backoffs end.               *)
FairSpec == Spec /\ \A c \in Calls : WF_vars(Step(c))

-----------------------------------------------------------------------------
Done(c) == call[c].pc \in {"returned", "escalated", "raised"}

TypeOK ==
  /\ key \in BOOLEAN
  /\ pool \in BOOLEAN
  /\ call \in [Calls -> Call]
  /\ queue \in [Model -> Seq(Calls)]
  /\ usage \in [Counted -> [requests : Nat, tokens : Nat]]

(* The counted answers of a model, one per call and place.                 *)
CountedAnswers(m) ==
  {place \in Calls \X (1..2) :
     LET answers == call[place[1]].answers
         i       == place[2]
     IN  i \in DOMAIN answers /\ answers[i].model = m /\ answers[i].counted}

(* Every answer gets into the count, but the last one of a call that is    *)
(* about to count it or raised instead.                                    *)
NoneUncounted(task) ==
  \A i \in DOMAIN task.answers :
    ~ task.answers[i].counted =>
      i = Len(task.answers) /\ task.pc \in {"counting", "raised"}

(* llm_usage, which the quota guard reads, counts each answer once and for *)
(* the model that gave it, also after a downgrade and in a repair, and     *)
(* with a database no call goes on from an answer that is not counted      *)
(* (increment_rpd, _invoke).                                               *)
UsageIsAnswers ==
  /\ \A m \in Counted : usage[m].requests = Cardinality(CountedAnswers(m))
  /\ pool => \A c \in Calls : NoneUncounted(call[c])

(* Every call comes to an end: it returns, escalates or raises.            *)
EveryCallEnds == \A c \in Calls : call[c].pc = "queued" ~> Done(c)

(* The limiter of each model is used as the fair queue it is: nobody jumps *)
(* the line, retries and repairs of other calls included.                  *)
LetIn(m) == {c \in Calls : call[c].pc = "calling" /\ call[c].current = m}
FlashQueue == INSTANCE CallQueue WITH
  Callers <- Calls, queue <- queue["flash"], admitted <- LetIn("flash")
LiteQueue == INSTANCE CallQueue WITH
  Callers <- Calls, queue <- queue["flash-lite"], admitted <- LetIn("flash-lite")
QueuesAreFair == FlashQueue!Spec /\ LiteQueue!Spec
=============================================================================
