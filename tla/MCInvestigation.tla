----------------------------- MODULE MCInvestigation -----------------------------
(* Two policies and a number nobody knows, losses on and off the edges of  *)
(* the window, and priors on and off the edges of 24 months and of the     *)
(* two similarity thresholds.                                              *)
EXTENDS Investigation, TLC

MCPolicies ==
  "A" :> [status |-> "active", from |-> 1000, to |-> 2000, carries |-> TRUE]
    @@ "B" :> [status |-> "active", from |-> 1000, to |-> 3000, carries |-> FALSE]
    @@ "C" :> [status |-> "lapsed", from |-> 1000, to |-> 2000, carries |-> TRUE]

Day(n) == [kind |-> "iso", day |-> n]
AText  == [kind |-> "text", day |-> 0]

MCNotices ==
  {[policy_number |-> n, loss_date |-> d, located |-> TRUE] :
     n \in {"A", "B", "X", NoPolicy}, d \in {Day(1000), Day(2000), Day(2001), AText, NoDate}}

MCDocuments ==
  {[policy_number |-> n, loss_date |-> d] :
     n \in {"A", "C", "X", NoPolicy}, d \in {Day(999), Day(1500), NoDate}}

PriorOn(day, same, similarity) ==
  [id |-> day, day |-> day, same_peril |-> same, similarity |-> similarity]

(* 730 and 731 days before the loss, another peril in the same words, in   *)
(* nearly the same words, and three old claims.                            *)
MCHistories ==
  {[priors |-> ps, raised |-> FALSE] :
     ps \in {{}, {PriorOn(1270, TRUE, 0)}, {PriorOn(1300, TRUE, 90)}, {PriorOn(1269, TRUE, 0)},
             {PriorOn(1300, FALSE, 85)}, {PriorOn(1300, FALSE, 84)},
             {PriorOn(1, FALSE, 0), PriorOn(2, FALSE, 0), PriorOn(3, FALSE, 0)}}}
  \cup {[priors |-> {PriorOn(1300, FALSE, 0)}, raised |-> TRUE]}

Determined(cov, conf, excl) ==
  {[covered |-> cov, confidence |-> conf, exclusions |-> excl, cited |-> c] : c \in BOOLEAN}

MCDeterminations == Determined("yes", 95, FALSE) \cup Determined("no", 95, TRUE)

MCClass == [severity |-> 2, confidence |-> 90, injury |-> FALSE, attorney |-> FALSE]
=============================================================================
