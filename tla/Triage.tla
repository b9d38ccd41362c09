-------------------------------- MODULE Triage --------------------------------
(***************************************************************************)
(* How raw evidence becomes routing inputs: the deterministic intake       *)
(* completeness (planner/extract.py), the citation floor on a grounded     *)
(* coverage determination (planner/coverage.py), the weighted fraud scan   *)
(* (tools/handlers.py) and the way route_node assembles a RouterInput from *)
(* the aggregate (graph/lifecycle.py).  All pure.                          *)
(*                                                                         *)
(* A field is a name; only whether it has a value and whether its          *)
(* confidence is high matters to routing.  Percentages as in Routing; the  *)
(* code rounds its scores to two decimals, so no precision is lost.        *)
(***************************************************************************)
EXTENDS Routing, FiniteSets

(* REQUIRED_INTAKE_FIELDS, and one field that does not gate completeness.  *)
RequiredFields == {"policy_number", "loss_date", "loss_location"}
Field          == RequiredFields \cup {"other"}

(* Extraction: the fields that have a value, those whose confidence is     *)
(* low (a field may be reported without a value), and the two results of   *)
(* assess_completeness.                                                    *)
Extraction ==
  [fields           : SUBSET Field,
   low_confidence   : SUBSET Field,
   missing_required : SUBSET Field,
   completeness     : Percent]

NoExtraction ==
  [fields |-> {}, low_confidence |-> {}, missing_required |-> {}, completeness |-> 0]

(* present / 3, truncated to a percent: only 3/3 reaches 0.90.             *)
AssessCompleteness(fields) ==
  (100 * Cardinality(fields \cap RequiredFields)) \div Cardinality(RequiredFields)

MissingRequired(fields) == RequiredFields \ fields

(* What the extract node stores for an LLM answer that found these fields. *)
Extracted(fields, low) ==
  [fields           |-> fields,
   low_confidence   |-> low,
   missing_required |-> MissingRequired(fields),
   completeness     |-> AssessCompleteness(fields)]

(* What w4_await stores when the claimant provides some fields: they get   *)
(* confidence 0.95, nothing is missing any more and completeness is 1.0,   *)
(* whatever was provided.                                                  *)
WithDocuments(extraction, provided) ==
  [fields           |-> extraction.fields \cup provided,
   low_confidence   |-> extraction.low_confidence \ provided,
   missing_required |-> {},
   completeness     |-> 100]

(* min(present_conf): fields named missing are not counted, and without    *)
(* any field the minimum is 1.0.  50 and 95 stand for low and high.        *)
MinFieldConfidence(extraction) ==
  IF extraction.low_confidence \ extraction.missing_required # {} THEN 50 ELSE 95

-----------------------------------------------------------------------------
(* Classification: what the classifier LLM may answer.                     *)
Classification ==
  [severity : Nat, confidence : Percent, injury : BOOLEAN, attorney : BOOLEAN]

(* severity defaults to 3 when the classifier gave none.                   *)
NoClassification ==
  [severity |-> 3, confidence |-> 0, injury |-> FALSE, attorney |-> FALSE]

-----------------------------------------------------------------------------
(* Coverage, and the floor under an uncited determination.                 *)
Coverage ==
  [covered : Covered, confidence : Percent, exclusions : BOOLEAN, cited : BOOLEAN]

NoCoverage ==
  [covered |-> "unknown", confidence |-> 0, exclusions |-> FALSE, cited |-> FALSE]

CitationFloor == 50

ApplyCitationFloor(det) ==
  [det EXCEPT !.confidence =
     IF det.cited \/ det.confidence <= CitationFloor THEN det.confidence
     ELSE CitationFloor]

-----------------------------------------------------------------------------
(* The fraud scan: the sum of the weights of the signals raised, at most 1.*)
FraudSignal ==
  {"DUP_EXACT", "DUP_NARRATIVE", "NARRATIVE_IMPLAUSIBLE",
   "RECENT_COVERAGE_INCREASE", "FREQUENT_CLAIMS", "FIRST_SEEN"}

SignalWeight ==
  [s \in FraudSignal |->
     CASE s = "DUP_EXACT"                -> 35
       [] s = "DUP_NARRATIVE"            -> 35
       [] s = "NARRATIVE_IMPLAUSIBLE"    -> 40
       [] s = "RECENT_COVERAGE_INCREASE" -> 20
       [] s = "FREQUENT_CLAIMS"          -> 20
       [] s = "FIRST_SEEN"               -> 5]

WeightIf(s, signals) == IF s \in signals THEN SignalWeight[s] ELSE 0

FraudScore_Uncapped(signals) ==
  WeightIf("DUP_EXACT", signals) + WeightIf("DUP_NARRATIVE", signals)
    + WeightIf("NARRATIVE_IMPLAUSIBLE", signals)
    + WeightIf("RECENT_COVERAGE_INCREASE", signals)
    + WeightIf("FREQUENT_CLAIMS", signals) + WeightIf("FIRST_SEEN", signals)
FraudScore(signals) ==
  LET total == WeightIf("DUP_EXACT", signals) + WeightIf("DUP_NARRATIVE", signals)
               + WeightIf("NARRATIVE_IMPLAUSIBLE", signals)
               + WeightIf("RECENT_COVERAGE_INCREASE", signals)
               + WeightIf("FREQUENT_CLAIMS", signals) + WeightIf("FIRST_SEEN", signals)
  IN  IF total > 100 THEN 100 ELSE total

-----------------------------------------------------------------------------
(* Investigation: what the investigate node leaves on the aggregate.       *)
Investigation ==
  [policy_active : BOOLEAN,
   coverage      : Coverage,
   fraud_score   : Percent,
   duplicate     : BOOLEAN,
   degraded      : BOOLEAN,
   amount_est    : Nat]

NoInvestigation ==
  [policy_active |-> FALSE, coverage |-> NoCoverage, fraud_score |-> 0,
   duplicate |-> FALSE, degraded |-> FALSE, amount_est |-> 0]

(* route_node's RouterInput.  watchlist_hit is never set by the caller.    *)
InputOf(extraction, cls, inv) ==
  [completeness              |-> extraction.completeness,
   min_field_confidence      |-> MinFieldConfidence(extraction),
   policy_active             |-> inv.policy_active,
   coverage_covered          |-> inv.coverage.covered,
   coverage_confidence       |-> inv.coverage.confidence,
   clear_exclusion           |-> inv.coverage.exclusions,
   exclusion_confidence      |-> IF inv.coverage.exclusions THEN inv.coverage.confidence ELSE 0,
   fraud_score               |-> inv.fraud_score,
   severity                  |-> cls.severity,
   amount_est                |-> inv.amount_est,
   classification_confidence |-> cls.confidence,
   injury_flag               |-> cls.injury,
   attorney_flag             |-> cls.attorney,
   watchlist_hit             |-> FALSE,
   duplicate_hard_match      |-> inv.duplicate]
=============================================================================
