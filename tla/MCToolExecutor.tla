---------------------------- MODULE MCToolExecutor ----------------------------
(* Two tasks of one claim and one of another.  Requests that meet every    *)
(* guard of the executor: a payment where it may and may not be made, a    *)
(* read that asks the same for every claim, an unkeyed write, and calls    *)
(* that each check refuses.                                                *)
EXTENDS ToolExecutor, TLC

CONSTANTS t1, t2, t3, a, b, query

Asks(workflow, tool, amount, authorized) ==
  [workflow |-> workflow, tool |-> tool, args |-> query, amount |-> amount,
   authorized |-> authorized, send |-> tool = "customer_comm_send"]

MCRequests ==
  {Asks("W1", "payment_execute", 1, TRUE),
   Asks("W2", "payment_execute", 1, FALSE),
   Asks("W3", "payment_execute", 1, TRUE),
   Asks("none", "reserve_set", 1, FALSE),
   Asks("W1", "unknown", 1, TRUE),
   Asks("none", "guideline_search", 0, FALSE),
   Asks("W3", "escalate_to_human", 0, FALSE)}

MCTasks   == {t1, t2, t3}
MCClaims  == {a, b}
MCSubject == [t \in MCTasks |-> IF t = t3 THEN b ELSE a]
MCArgs    == {query}

(* t1 and t2 work on one claim, and what task an execution that has not    *)
(* begun happens to have is never read.                                    *)
Symmetry == Permutations(Calls) \cup Permutations({t1, t2})
=============================================================================
