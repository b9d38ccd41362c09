------------------------------- MODULE Routing -------------------------------
(***************************************************************************)
(* The routing rule table R-00 .. R-99 of router/rules.py: a pure function *)
(* of typed inputs and of the versioned thresholds, evaluated top-down,    *)
(* first match wins; and the two adjustments graph/lifecycle.py applies to *)
(* its result (the R-06 tiebreak and the degraded-control cap).            *)
(*                                                                         *)
(* Scores and confidences, floats in [0, 1] in the code, are integers in   *)
(* 0..100: the rules only compare them with thresholds that carry two      *)
(* decimals.  Amounts are whole dollars.  The rationale texts and the      *)
(* input snapshot of a decision are left out.                              *)
(***************************************************************************)
EXTENDS Naturals

Workflow == {"W1", "W2", "W3", "W4", "W5"}
RuleId   == {"R-00", "R-01", "R-02", "R-03", "R-04", "R-05", "R-06", "R-99",
             "R-DEGRADED"}
Percent  == 0..100

(* RoutingConfig: the thresholds of the active row of the config table.    *)
RoutingConfig ==
  [auto_pay_ceiling   : Nat,
   fraud_low          : Percent,
   fraud_high         : Percent,
   severity_stp_max   : Nat,
   coverage_conf_min  : Percent,
   stp_confidence_min : Percent,
   completeness_min   : Percent,
   field_conf_min     : Percent,
   exclusion_conf_min : Percent,
   high_severity_min  : Nat,
   high_amount_min    : Nat,
   coverage_conf_low  : Percent]

(* The defaults of the class: what runs when no config row is active.      *)
DefaultConfig ==
  [auto_pay_ceiling   |-> 2500,
   fraud_low          |-> 30,
   fraud_high         |-> 70,
   severity_stp_max   |-> 2,
   coverage_conf_min  |-> 85,
   stp_confidence_min |-> 85,
   completeness_min   |-> 90,
   field_conf_min     |-> 80,
   exclusion_conf_min |-> 90,
   high_severity_min  |-> 4,
   high_amount_min    |-> 25000,
   coverage_conf_low  |-> 60]

(* Coverage.covered is True, False or None.                                *)
Covered == {"yes", "no", "unknown"}

RouterInput ==
  [completeness              : Percent,
   min_field_confidence      : Percent,
   policy_active             : BOOLEAN,
   coverage_covered          : Covered,
   coverage_confidence       : Percent,
   clear_exclusion           : BOOLEAN,
   exclusion_confidence      : Percent,
   fraud_score               : Percent,
   severity                  : Nat,
   amount_est                : Nat,
   classification_confidence : Percent,
   injury_flag               : BOOLEAN,
   attorney_flag             : BOOLEAN,
   watchlist_hit             : BOOLEAN,
   duplicate_hard_match      : BOOLEAN]

-----------------------------------------------------------------------------
(* The rules, one predicate each, in the order of the table.               *)

(* Foo_Bar is a variant of Foo with a bug the code could have; no          *)
(* specification uses it, the properties are tried against it.             *)
HardFraudSignal(inp) == inp.watchlist_hit \/ inp.duplicate_hard_match

Incomplete(inp, cfg) ==
  \/ inp.completeness < cfg.completeness_min
  \/ inp.min_field_confidence < cfg.field_conf_min

FastDeny(inp, cfg) ==
  \/ ~ inp.policy_active
  \/ inp.clear_exclusion /\ inp.exclusion_confidence >= cfg.exclusion_conf_min

StraightThrough(inp, cfg) ==
  /\ inp.fraud_score < cfg.fraud_low
  /\ inp.severity <= cfg.severity_stp_max
  /\ inp.amount_est <= cfg.auto_pay_ceiling
  /\ inp.coverage_covered = "yes"
  /\ inp.coverage_confidence >= cfg.coverage_conf_min
  /\ inp.classification_confidence >= cfg.stp_confidence_min
  /\ ~ inp.injury_flag
  /\ ~ inp.attorney_flag

HighFraud(inp, cfg) == inp.fraud_score > cfg.fraud_high

HighSeverity_TenCeilings(inp, cfg) ==
  \/ inp.severity >= cfg.high_severity_min
  \/ inp.injury_flag
  \/ inp.amount_est > 10 * cfg.auto_pay_ceiling
  \/ inp.attorney_flag
  \/ inp.coverage_covered # "unknown" /\ inp.coverage_confidence < cfg.coverage_conf_low
HighSeverity(inp, cfg) ==
  \/ inp.severity >= cfg.high_severity_min
  \/ inp.injury_flag
  \/ inp.amount_est > cfg.high_amount_min
  \/ inp.attorney_flag
  \/ inp.coverage_covered # "unknown" /\ inp.coverage_confidence < cfg.coverage_conf_low

AmbiguousFraud(inp, cfg) ==
  cfg.fraud_low <= inp.fraud_score /\ inp.fraud_score <= cfg.fraud_high

(* RoutingDecision without its texts: the workflow, the rule that fired    *)
(* and whether the LLM tiebreak may override it.                           *)
RoutingDecision ==
  [workflow : Workflow, rule_id : RuleId, needs_tiebreak : BOOLEAN]

Decision(wf, rule) ==
  [workflow |-> wf, rule_id |-> rule, needs_tiebreak |-> rule = "R-06"]

Route(inp, cfg) ==
  CASE HardFraudSignal(inp)      -> Decision("W3", "R-00")
    [] OTHER ->
  CASE Incomplete(inp, cfg)      -> Decision("W4", "R-01")
    [] OTHER ->
  CASE FastDeny(inp, cfg)        -> Decision("W2", "R-02")
    [] OTHER ->
  CASE StraightThrough(inp, cfg) -> Decision("W1", "R-03")
    [] OTHER ->
  CASE HighFraud(inp, cfg)       -> Decision("W3", "R-04")
    [] OTHER ->
  CASE HighSeverity(inp, cfg)    -> Decision("W5", "R-05")
    [] OTHER ->
  CASE AmbiguousFraud(inp, cfg)  -> Decision("W2", "R-06")
    [] OTHER                     -> Decision("W2", "R-99")

-----------------------------------------------------------------------------
(* What route_node makes of a decision.  tiebreaks is the set of answers   *)
(* the tiebreak may give: {"W2", "W3"} when the LLM is consulted.  A       *)
(* degraded fraud control then caps W1 at W2.                              *)
Tiebreak(d, grounded) ==
  IF d.needs_tiebreak /\ grounded
  THEN {[workflow |-> wf, rule_id |-> "R-06"] : wf \in {"W2", "W3"}}
  ELSE {[workflow |-> d.workflow, rule_id |-> d.rule_id]}

CapDegraded_Dropped(r, degraded) == r
CapDegraded_EveryWorkflow(r, degraded) ==
  IF degraded THEN [workflow |-> "W2", rule_id |-> "R-DEGRADED"] ELSE r
CapDegraded(r, degraded) ==
  IF degraded /\ r.workflow = "W1"
  THEN [workflow |-> "W2", rule_id |-> "R-DEGRADED"]
  ELSE r

(* Every (workflow, rule_id) route_node may record for these inputs.       *)
RoutesOf(inp, cfg, grounded, degraded) ==
  {CapDegraded(r, degraded) : r \in Tiebreak(Route(inp, cfg), grounded)}
=============================================================================
