--------------------------- MODULE MCClaimLifecycle ---------------------------
(* Values for the constants of ClaimLifecycle: evidence that leads to each *)
(* workflow under the default thresholds.                                  *)
EXTENDS ClaimLifecycle, TLC

(* Complete; without a policy number and with another field nobody can     *)
(* read.  An upload brings the number, which still leaves that one, or     *)
(* both.                                                                   *)
MCReadings ==
  {[fields |-> Field, low |-> {}],
   [fields |-> Field \ {"policy_number"}, low |-> {"other"}]}

MCUploads == {{"policy_number"}, {"policy_number", "other"}}

MCClassifications ==
  {[severity |-> 2, confidence |-> 90, injury |-> FALSE, attorney |-> FALSE]}

Covering(conf) == [covered |-> "yes", confidence |-> conf, exclusions |-> FALSE, cited |-> TRUE]
NotCovering    == [covered |-> "no", confidence |-> 90, exclusions |-> FALSE, cited |-> TRUE]

Clean ==
  [policy_active |-> TRUE, coverage |-> Covering(90), fraud_score |-> 0,
   duplicate |-> FALSE, degraded |-> FALSE, amount_est |-> 2000]

Unknown == [Clean EXCEPT !.policy_active = FALSE, !.coverage = NoCoverage]

(* In this order: W1; W2 or W3 by the tiebreak; W5; a proposal to deny; no *)
(* policy.                                                                 *)
MCInvestigations ==
  {Clean,
   [Clean EXCEPT !.fraud_score = 40],
   [Clean EXCEPT !.amount_est = 30000],
   [Clean EXCEPT !.coverage = NotCovering],
   Unknown}

(* The race run keeps one investigation per outcome of a payment, the W2   *)
(* of the degraded cap among them.                                         *)
MCFewInvestigations ==
  {Clean, [Clean EXCEPT !.degraded = TRUE], [Clean EXCEPT !.fraud_score = 40], Unknown}

(* The slots of the event loop are interchangeable.                        *)
SlotSymmetry == Permutations(Slots)
=============================================================================
