---------------------------- MODULE MCTriageReplay ----------------------------
(* Evidence on both sides of every threshold of the default config.        *)
EXTENDS TriageReplay

MCExtractions ==
  {Extracted(Field, {}), Extracted(Field, {"other"}),
   Extracted(Field \ {"policy_number"}, {}), Extracted(Field \ {"loss_date"}, {})}

Det(cov, conf, excl) ==
  {[covered |-> cov, confidence |-> conf, exclusions |-> excl, cited |-> c] : c \in BOOLEAN}

MCDeterminations ==
  Det("yes", 85, FALSE) \cup Det("yes", 95, TRUE) \cup Det("yes", 84, FALSE)
    \cup Det("no", 95, TRUE) \cup {NoCoverage}

(* An active policy that carries the peril, does not, or is out of force   *)
(* on the day; a lapsed one; an unknown number, in the first round and in  *)
(* a later one.                                                            *)
Found(active, cov, conf, excl) ==
  [known |-> TRUE, active |-> active,
   prescreen |-> [covered |-> cov, confidence |-> conf, exclusions |-> excl, cited |-> FALSE]]

MCLookups ==
  {Found(TRUE, "yes", 94, FALSE), Found(TRUE, "no", 70, FALSE), Found(TRUE, "no", 92, TRUE),
   Found(FALSE, "no", 92, TRUE)}
    \cup {[known |-> k, active |-> FALSE, prescreen |-> NoCoverage] : k \in BOOLEAN}

MCUploads == {{}, {"policy_number", "other"}}

MCClassifications ==
  {[severity |-> 2, confidence |-> 85, injury |-> FALSE, attorney |-> FALSE],
   [severity |-> 4, confidence |-> 85, injury |-> FALSE, attorney |-> FALSE],
   [severity |-> 2, confidence |-> 84, injury |-> FALSE, attorney |-> FALSE],
   [severity |-> 2, confidence |-> 85, injury |-> TRUE, attorney |-> FALSE]}

(* The old ceiling, and more than high_amount_min.                         *)
MCAmounts == {2500, 25001}

(* Scores 0, 20, 35, 40, 55, 60, 75, ... : on both sides of 30 and of 70.  *)
MCSignals ==
  {"DUP_EXACT", "DUP_NARRATIVE", "NARRATIVE_IMPLAUSIBLE", "RECENT_COVERAGE_INCREASE"}

MCConfigs == {DefaultConfig, [DefaultConfig EXCEPT !.auto_pay_ceiling = 30000]}
=============================================================================
