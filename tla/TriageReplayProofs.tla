-------------------------- MODULE TriageReplayProofs --------------------------
(***************************************************************************)
(* Proofs about TriageReplay: type correctness, what straight-through      *)
(* payment implies, and the two monotonicity properties of the decision,   *)
(* for every set of extractions, determinations, classifications, amounts, *)
(* signals and config versions that satisfies the assumptions.             *)
(*                                                                         *)
(* Outcome names the workflows a rule table evaluation may record; lemma   *)
(* OutcomeIs reads them off the first rule that fires, and the two         *)
(* monotonicity lemmas are about Outcome alone.                            *)
(***************************************************************************)
EXTENDS TriageReplay, FiniteSetTheorems, TLAPS

Outcome(inp, cfg, dg) == {r.workflow : r \in RoutesOf(inp, cfg, TRUE, dg)}

-----------------------------------------------------------------------------
(* The rule table                                                          *)

LEMMA RuleOutcome ==
  ASSUME NEW inp, NEW cfg, NEW dg \in BOOLEAN, NEW wf, NEW rule, rule # "R-06",
         Route(inp, cfg) = Decision(wf, rule)
  PROVE  Outcome(inp, cfg, dg) = {IF dg /\ wf = "W1" THEN "W2" ELSE wf}
<1> DEFINE r == [workflow |-> wf, rule_id |-> rule]
<1>1. Tiebreak(Route(inp, cfg), TRUE) = {r}
  <2>1. Tiebreak(Decision(wf, rule), TRUE) = {r}
    BY DEF Tiebreak, Decision
  <2> QED BY <2>1
<1> HIDE DEF r
<1>2. RoutesOf(inp, cfg, TRUE, dg) = {CapDegraded(r, dg)}
  BY <1>1 DEF RoutesOf
<1>3. CapDegraded(r, dg).workflow = IF dg /\ wf = "W1" THEN "W2" ELSE wf
  BY DEF CapDegraded, r
<1> QED BY <1>2, <1>3 DEF Outcome

LEMMA TiebreakOutcome ==
  ASSUME NEW inp, NEW cfg, NEW dg \in BOOLEAN, NEW wf,
         Route(inp, cfg) = Decision(wf, "R-06")
  PROVE  Outcome(inp, cfg, dg) = {"W2", "W3"}
<1> DEFINE q(w) == [workflow |-> w, rule_id |-> "R-06"]
<1>1. Tiebreak(Decision(wf, "R-06"), TRUE) = {q(w) : w \in {"W2", "W3"}}
  BY DEF Tiebreak, Decision
<1>2. \A w \in {"W2", "W3"} : CapDegraded(q(w), dg) = q(w)
  BY DEF CapDegraded
<1>3. RoutesOf(inp, cfg, TRUE, dg) = {q("W2"), q("W3")}
  BY <1>1, <1>2 DEF RoutesOf
<1>4. q("W2").workflow = "W2" /\ q("W3").workflow = "W3"
  OBVIOUS
<1> HIDE DEF q
<1> QED BY <1>3, <1>4 DEF Outcome

LEMMA OutcomeIs ==
  ASSUME NEW inp, NEW cfg, NEW dg \in BOOLEAN
  PROVE  Outcome(inp, cfg, dg) =
           IF HardFraudSignal(inp)           THEN {"W3"}
           ELSE IF Incomplete(inp, cfg)      THEN {"W4"}
           ELSE IF FastDeny(inp, cfg)        THEN {"W2"}
           ELSE IF StraightThrough(inp, cfg) THEN {IF dg THEN "W2" ELSE "W1"}
           ELSE IF HighFraud(inp, cfg)       THEN {"W3"}
           ELSE IF HighSeverity(inp, cfg)    THEN {"W5"}
           ELSE IF AmbiguousFraud(inp, cfg)  THEN {"W2", "W3"}
           ELSE {"W2"}
<1> USE DEF Route
<1>1. CASE HardFraudSignal(inp)
  <2>1. Route(inp, cfg) = Decision("W3", "R-00") BY <1>1
  <2> QED BY <1>1, <2>1, RuleOutcome
<1>2. CASE ~ HardFraudSignal(inp) /\ Incomplete(inp, cfg)
  <2>1. Route(inp, cfg) = Decision("W4", "R-01") BY <1>2
  <2> QED BY <1>2, <2>1, RuleOutcome
<1> DEFINE Passed == ~ HardFraudSignal(inp) /\ ~ Incomplete(inp, cfg)
<1>3. CASE Passed /\ FastDeny(inp, cfg)
  <2>1. Route(inp, cfg) = Decision("W2", "R-02") BY <1>3
  <2> QED BY <1>3, <2>1, RuleOutcome
<1>4. CASE Passed /\ ~ FastDeny(inp, cfg) /\ StraightThrough(inp, cfg)
  <2>1. Route(inp, cfg) = Decision("W1", "R-03") BY <1>4
  <2> QED BY <1>4, <2>1, RuleOutcome
<1> DEFINE Judged == Passed /\ ~ FastDeny(inp, cfg) /\ ~ StraightThrough(inp, cfg)
<1>5. CASE Judged /\ HighFraud(inp, cfg)
  <2>1. Route(inp, cfg) = Decision("W3", "R-04") BY <1>5
  <2> QED BY <1>5, <2>1, RuleOutcome
<1>6. CASE Judged /\ ~ HighFraud(inp, cfg) /\ HighSeverity(inp, cfg)
  <2>1. Route(inp, cfg) = Decision("W5", "R-05") BY <1>6
  <2> QED BY <1>6, <2>1, RuleOutcome
<1>7. CASE /\ Judged /\ ~ HighFraud(inp, cfg) /\ ~ HighSeverity(inp, cfg)
           /\ AmbiguousFraud(inp, cfg)
  <2>1. Route(inp, cfg) = Decision("W2", "R-06") BY <1>7
  <2> QED BY <1>7, <2>1, TiebreakOutcome
<1>8. CASE /\ Judged /\ ~ HighFraud(inp, cfg) /\ ~ HighSeverity(inp, cfg)
           /\ ~ AmbiguousFraud(inp, cfg)
  <2>1. Route(inp, cfg) = Decision("W2", "R-99") BY <1>8
  <2> QED BY <1>8, <2>1, RuleOutcome
<1> QED BY <1>1, <1>2, <1>3, <1>4, <1>5, <1>6, <1>7, <1>8

(* Straight-through payment is recorded exactly when R-03 is the first     *)
(* rule that fires and no control is degraded.                             *)
LEMMA PaidByR03 ==
  ASSUME NEW inp, NEW cfg, NEW dg \in BOOLEAN
  PROVE  "W1" \in Outcome(inp, cfg, dg) <=>
           /\ ~ HardFraudSignal(inp) /\ ~ Incomplete(inp, cfg)
           /\ ~ FastDeny(inp, cfg) /\ StraightThrough(inp, cfg) /\ ~ dg
BY OutcomeIs

(* A claim that must go to SIU goes there by R-00 or by R-04.              *)
LEMMA ReferredByFraud ==
  ASSUME NEW inp, NEW cfg, NEW dg \in BOOLEAN
  PROVE  Outcome(inp, cfg, dg) = {"W3"} <=>
           \/ HardFraudSignal(inp)
           \/ /\ ~ Incomplete(inp, cfg) /\ ~ FastDeny(inp, cfg)
              /\ ~ StraightThrough(inp, cfg) /\ HighFraud(inp, cfg)
<1>1. {"W3"} # {"W4"} /\ {"W3"} # {"W2"} /\ {"W3"} # {"W5"} /\ {"W3"} # {"W1"}
      /\ {"W3"} # {"W2", "W3"}
  OBVIOUS
<1>2. {IF dg THEN "W2" ELSE "W1"} # {"W3"}
  OBVIOUS
<1> QED BY <1>1, <1>2, OutcomeIs

-----------------------------------------------------------------------------
(* Inputs b that differ from inputs a by worse evidence only.              *)
Worse(a, b, cfg) ==
  /\ \A field \in {"completeness", "min_field_confidence", "policy_active",
                   "coverage_covered", "clear_exclusion", "severity", "amount_est",
                   "classification_confidence", "injury_flag", "attorney_flag",
                   "watchlist_hit"} : b[field] = a[field]
  /\ a.fraud_score <= b.fraud_score
  /\ a.duplicate_hard_match => b.duplicate_hard_match
  /\ b.exclusion_confidence <= a.exclusion_confidence
  /\ \/ b.coverage_confidence < cfg.coverage_conf_min
     \/ /\ b.coverage_confidence = a.coverage_confidence
        /\ b.exclusion_confidence = a.exclusion_confidence

LEMMA WorseOutcome ==
  ASSUME NEW a \in RouterInput, NEW b \in RouterInput, NEW cfg \in RoutingConfig,
         NEW dga \in BOOLEAN, NEW dgb \in BOOLEAN, dga => dgb, Worse(a, b, cfg)
  PROVE  /\ "W1" \in Outcome(b, cfg, dgb) => "W1" \in Outcome(a, cfg, dga)
         /\ Outcome(a, cfg, dga) = {"W3"} => Outcome(b, cfg, dgb) = {"W3"}
<1> USE DEF RouterInput, RoutingConfig, Percent, Covered
<1>0. /\ b.completeness = a.completeness
      /\ b.min_field_confidence = a.min_field_confidence
      /\ b.policy_active = a.policy_active
      /\ b.coverage_covered = a.coverage_covered
      /\ b.clear_exclusion = a.clear_exclusion
      /\ b.severity = a.severity
      /\ b.amount_est = a.amount_est
      /\ b.classification_confidence = a.classification_confidence
      /\ b.injury_flag = a.injury_flag
      /\ b.attorney_flag = a.attorney_flag
      /\ b.watchlist_hit = a.watchlist_hit
      /\ a.fraud_score <= b.fraud_score
      /\ a.duplicate_hard_match => b.duplicate_hard_match
      /\ b.exclusion_confidence <= a.exclusion_confidence
      /\ \/ b.coverage_confidence < cfg.coverage_conf_min
         \/ /\ b.coverage_confidence = a.coverage_confidence
            /\ b.exclusion_confidence = a.exclusion_confidence
  BY DEF Worse
<1>9. \A inp \in {a, b} :
        /\ inp.fraud_score \in Nat /\ inp.coverage_confidence \in Nat
        /\ inp.exclusion_confidence \in Nat
  OBVIOUS
<1>10. /\ cfg.fraud_low \in Nat /\ cfg.fraud_high \in Nat
       /\ cfg.coverage_conf_min \in Nat /\ cfg.exclusion_conf_min \in Nat
  OBVIOUS
<1> HIDE DEF RouterInput, RoutingConfig, Percent, Covered
<1>1. HardFraudSignal(a) => HardFraudSignal(b)
  BY <1>0 DEF HardFraudSignal
<1>2. Incomplete(a, cfg) <=> Incomplete(b, cfg)
  BY <1>0 DEF Incomplete
<1>3. FastDeny(b, cfg) => FastDeny(a, cfg)
  BY <1>0, <1>9, <1>10 DEF FastDeny
<1>4. StraightThrough(b, cfg) => StraightThrough(a, cfg)
  BY <1>0, <1>9, <1>10 DEF StraightThrough
<1>5. StraightThrough(b, cfg) /\ FastDeny(a, cfg) => FastDeny(b, cfg)
  BY <1>0, <1>9, <1>10 DEF FastDeny, StraightThrough
<1>6. HighFraud(a, cfg) => HighFraud(b, cfg)
  BY <1>0, <1>9, <1>10 DEF HighFraud
<1>7. "W1" \in Outcome(b, cfg, dgb) => "W1" \in Outcome(a, cfg, dga)
  BY <1>1, <1>2, <1>4, <1>5, PaidByR03
<1>8. Outcome(a, cfg, dga) = {"W3"} => Outcome(b, cfg, dgb) = {"W3"}
  BY <1>1, <1>2, <1>3, <1>4, <1>6, ReferredByFraud
<1> QED BY <1>7, <1>8

LEMMA CeilingOutcome ==
  ASSUME NEW inp \in RouterInput, NEW cfg \in RoutingConfig, NEW c \in RoutingConfig,
         NEW dg \in BOOLEAN,
         c = [cfg EXCEPT !.auto_pay_ceiling = c.auto_pay_ceiling],
         c.auto_pay_ceiling > cfg.auto_pay_ceiling
  PROVE  Outcome(inp, c, dg) \in
           {Outcome(inp, cfg, dg), IF dg THEN {"W2"} ELSE {"W1"}}
<1> USE DEF RouterInput, RoutingConfig, Percent
<1>0. /\ c.fraud_low = cfg.fraud_low /\ c.fraud_high = cfg.fraud_high
      /\ c.severity_stp_max = cfg.severity_stp_max
      /\ c.coverage_conf_min = cfg.coverage_conf_min
      /\ c.stp_confidence_min = cfg.stp_confidence_min
      /\ c.completeness_min = cfg.completeness_min
      /\ c.field_conf_min = cfg.field_conf_min
      /\ c.exclusion_conf_min = cfg.exclusion_conf_min
      /\ c.high_severity_min = cfg.high_severity_min
      /\ c.high_amount_min = cfg.high_amount_min
      /\ c.coverage_conf_low = cfg.coverage_conf_low
  OBVIOUS
<1>1. /\ Incomplete(inp, c) <=> Incomplete(inp, cfg)
      /\ FastDeny(inp, c) <=> FastDeny(inp, cfg)
      /\ HighFraud(inp, c) <=> HighFraud(inp, cfg)
      /\ HighSeverity(inp, c) <=> HighSeverity(inp, cfg)
      /\ AmbiguousFraud(inp, c) <=> AmbiguousFraud(inp, cfg)
  BY <1>0 DEF Incomplete, FastDeny, HighFraud, HighSeverity, AmbiguousFraud
<1>2. StraightThrough(inp, cfg) => StraightThrough(inp, c)
  BY <1>0 DEF StraightThrough
<1> DEFINE Reached == ~ HardFraudSignal(inp) /\ ~ Incomplete(inp, c) /\ ~ FastDeny(inp, c)
<1>3. CASE Reached /\ StraightThrough(inp, c)
  <2>1. Outcome(inp, c, dg) = {IF dg THEN "W2" ELSE "W1"}
    BY <1>3, OutcomeIs
  <2> QED BY <2>1
<1>4. CASE ~ (Reached /\ StraightThrough(inp, c))
  <2>1. Outcome(inp, c, dg) = Outcome(inp, cfg, dg)
    BY <1>1, <1>2, <1>4, OutcomeIs
  <2> QED BY <2>1
<1> QED BY <1>3, <1>4

-----------------------------------------------------------------------------
(* The evidence                                                            *)

LEMMA ScoreType ==
  ASSUME NEW S \in SUBSET FraudSignal
  PROVE  FraudScore(S) \in Percent
BY DEF FraudScore, WeightIf, SignalWeight, FraudSignal, Percent

LEMMA ScoreGrows ==
  ASSUME NEW S \in SUBSET FraudSignal, NEW T \in SUBSET FraudSignal, S \subseteq T
  PROVE  FraudScore(S) <= FraudScore(T)
<1>1. \A s \in FraudSignal :
        /\ WeightIf(s, S) \in Nat /\ WeightIf(s, T) \in Nat
        /\ WeightIf(s, S) <= WeightIf(s, T)
  BY DEF WeightIf, SignalWeight, FraudSignal
<1> QED BY <1>1 DEF FraudScore, FraudSignal

LEMMA ImplausibleWeighs ==
  ASSUME NEW S \in SUBSET FraudSignal, "NARRATIVE_IMPLAUSIBLE" \in S
  PROVE  SignalWeight["NARRATIVE_IMPLAUSIBLE"] <= FraudScore(S)
<1>1. \A s \in FraudSignal : WeightIf(s, S) \in Nat
  BY DEF WeightIf, SignalWeight, FraudSignal
<1>2. /\ WeightIf("NARRATIVE_IMPLAUSIBLE", S) = 40
      /\ SignalWeight["NARRATIVE_IMPLAUSIBLE"] = 40
  BY DEF WeightIf, SignalWeight, FraudSignal
<1> QED BY <1>1, <1>2 DEF FraudScore, FraudSignal

LEMMA FlooredType ==
  ASSUME NEW det \in Coverage
  PROVE  ApplyCitationFloor(det) \in Coverage
BY DEF ApplyCitationFloor, Coverage, CitationFloor, Percent

LEMMA RequiredFieldsSize ==
  IsFiniteSet(RequiredFields) /\ Cardinality(RequiredFields) = 3
<1>1. IsFiniteSet({"policy_number"}) /\ Cardinality({"policy_number"}) = 1
  BY FS_Singleton
<1>2. IsFiniteSet({"policy_number", "loss_date"})
        /\ Cardinality({"policy_number", "loss_date"}) = 2
  <2>1. {"policy_number", "loss_date"} = {"policy_number"} \cup {"loss_date"}
    OBVIOUS
  <2> QED BY <1>1, <2>1, FS_AddElement
<1>3. RequiredFields = {"policy_number", "loss_date"} \cup {"loss_location"}
  BY DEF RequiredFields
<1> QED BY <1>2, <1>3, FS_AddElement

(* Two of the three required fields are 66 percent.                        *)
LEMMA CompleteHasRequired ==
  ASSUME NEW fields, AssessCompleteness(fields) > 66
  PROVE  RequiredFields \subseteq fields
<1> DEFINE found == fields \cap RequiredFields
           n     == Cardinality(found)
<1>1. IsFiniteSet(found) /\ n <= 3 /\ (n = 3 => found = RequiredFields)
  BY RequiredFieldsSize, FS_Subset
<1>2. n \in Nat
  BY <1>1, FS_CardinalityType
<1>3. n = 3
  <2>1. (100 * n) \div 3 > 66
    BY RequiredFieldsSize DEF AssessCompleteness
  <2> HIDE DEF n
  <2>2. n \in 0..3
    BY <1>1, <1>2
  <2> QED BY <2>1, <2>2
<1> QED BY <1>1, <1>3

LEMMA InputType ==
  ASSUME NEW e \in Extraction, NEW k \in Classification, NEW i \in Investigation
  PROVE  InputOf(e, k, i) \in RouterInput
BY DEF InputOf, RouterInput, MinFieldConfidence, Extraction, Classification,
       Investigation, Coverage, Percent

-----------------------------------------------------------------------------
(* The invariant: the evidence has its type, and what the assumptions are  *)
(* about stays what they are about.                                        *)
Replayed ==
  /\ extraction \in Extraction
  /\ uploaded \in BOOLEAN
  /\ ~ uploaded => extraction \in Extractions
  /\ lookup \in Lookups
  /\ lookup.active => "policy_number" \in extraction.fields
  /\ grounded \in BOOLEAN
  /\ determination \in Coverage
  /\ cls \in Classification
  /\ signals \in SUBSET FraudSignal
  /\ degraded \in BOOLEAN
  /\ amount \in Nat
  /\ config \in Configs

LEMMA ProvidedType ==
  ASSUME NEW e \in Extraction, NEW provided \in SUBSET Field
  PROVE  WithDocuments(e, provided) \in Extraction
BY DEF WithDocuments, Extraction, Percent

LEMMA DeterminedType ==
  ASSUME NEW chunks \in BOOLEAN PROVE Determined(chunks) \subseteq Coverage
<1>1. NoCoverage \in Coverage
  BY DEF NoCoverage, Coverage, Covered, Percent
<1> QED BY <1>1, ReplayAssumption DEF Determined

(* An active policy was looked up by its number.                           *)
LEMMA ActiveByNumber ==
  ASSUME NEW e, NEW l \in LookupsFor(e), l.active
  PROVE  "policy_number" \in e.fields
BY LookupAssumption DEF LookupsFor

LEMMA ReplayedInit == Init => Replayed
<1> SUFFICES ASSUME Init PROVE Replayed
  OBVIOUS
<1>1. lookup \in Lookups /\ lookup.known \in BOOLEAN
  BY ReplayAssumption DEF Init, LookupsFor, Lookup
<1>2. lookup.active => "policy_number" \in extraction.fields
  BY ActiveByNumber DEF Init
<1>3. grounded \in BOOLEAN
  BY <1>1 DEF Init
<1>4. determination \in Coverage
  BY <1>3, DeterminedType DEF Init
<1> QED BY <1>1, <1>2, <1>3, <1>4, ReplayAssumption DEF Init, Replayed

LEMMA ReplayedStep == Replayed /\ [Next]_vars => Replayed'
<1> SUFFICES ASSUME Replayed, [Next]_vars PROVE Replayed'
  OBVIOUS
<1> USE DEF Replayed
<1>1. ASSUME NEW s \in Signals, RaiseSignal(s) PROVE Replayed'
  BY <1>1, ReplayAssumption DEF RaiseSignal
<1>2. CASE LoseCitations
  BY <1>2 DEF LoseCitations, Coverage
<1>3. CASE DegradeControl
  BY <1>3 DEF DegradeControl
<1>4. CASE RaiseCeiling
  BY <1>4 DEF RaiseCeiling, evidence
<1>5. CASE LoseGuidelines
  <2>1. determination' \in Coverage
    BY <1>5 DEF LoseGuidelines, NoCoverage, Coverage, Covered, Percent
  <2>2. grounded' = FALSE /\ UNCHANGED <<extraction, uploaded, lookup, cls, signals,
                                        degraded, amount, config>>
    BY <1>5 DEF LoseGuidelines
  <2> QED BY <2>1, <2>2
<1>6. CASE ReceiveDocuments
  <2>1. extraction' \in Extraction
    BY <1>6, ReplayAssumption, ProvidedType DEF ReceiveDocuments
  <2>2. lookup' \in LookupsFor(extraction')
    BY <1>6 DEF ReceiveDocuments
  <2>3. lookup' \in Lookups /\ lookup'.known \in BOOLEAN
    BY <2>2, ReplayAssumption DEF LookupsFor, Lookup
  <2>4. lookup'.active => "policy_number" \in extraction'.fields
    BY <2>2, ActiveByNumber
  <2>5. grounded' \in BOOLEAN
    BY <1>6, <2>3 DEF ReceiveDocuments
  <2>6. determination' \in Coverage
    BY <1>6, <2>5, DeterminedType DEF ReceiveDocuments
  <2>7. uploaded' = TRUE /\ signals' = {} /\ UNCHANGED <<cls, degraded, amount, config>>
    BY <1>6 DEF ReceiveDocuments
  <2> QED BY <2>1, <2>3, <2>4, <2>5, <2>6, <2>7
<1>7. CASE UNCHANGED vars
  BY <1>7 DEF vars, evidence
<1> QED BY <1>1, <1>2, <1>3, <1>4, <1>5, <1>6, <1>7 DEF Next, Worsen

LEMMA Replays == Spec => []Replayed
BY ReplayedInit, ReplayedStep, PTL DEF Spec

LEMMA CoverageType == Replayed => CoverageNow \in Coverage
BY FlooredType, ReplayAssumption DEF Replayed, CoverageNow, Lookup

LEMMA InvestigatedType == Replayed => Investigated \in Investigation
<1> SUFFICES ASSUME Replayed PROVE Investigated \in Investigation
  OBVIOUS
<1>1. lookup.active \in BOOLEAN
  BY ReplayAssumption DEF Replayed, Lookup
<1> QED BY <1>1, CoverageType, ScoreType DEF Replayed, Investigated, Investigation

LEMMA InputTyped == Replayed => Input \in RouterInput
BY InvestigatedType, InputType DEF Replayed, Input

LEMMA InputTypedNext == Replayed' => Input' \in RouterInput
<1> DEFINE Typed == Input \in RouterInput
<1>1. Replayed => Typed
  BY InputTyped
<1> HIDE DEF Typed
<1>2. Replayed' => Typed'
  BY <1>1, PTL
<1> QED BY <1>2 DEF Typed

(* The routing inputs, read off the evidence.                              *)
LEMMA InputIs ==
  /\ Input.completeness = extraction.completeness
  /\ Input.min_field_confidence = MinFieldConfidence(extraction)
  /\ Input.policy_active = lookup.active
  /\ Input.coverage_covered = CoverageNow.covered
  /\ Input.coverage_confidence = CoverageNow.confidence
  /\ Input.clear_exclusion = CoverageNow.exclusions
  /\ Input.exclusion_confidence =
       IF CoverageNow.exclusions
       THEN CoverageNow.confidence ELSE 0
  /\ Input.fraud_score = FraudScore(signals)
  /\ Input.severity = cls.severity
  /\ Input.amount_est = amount
  /\ Input.classification_confidence = cls.confidence
  /\ Input.injury_flag = cls.injury
  /\ Input.attorney_flag = cls.attorney
  /\ Input.watchlist_hit = FALSE
  /\ Input.duplicate_hard_match = ("DUP_EXACT" \in signals)
BY DEF Input, InputOf, Investigated

(* The same after a step that leaves the rest of the claim alone.          *)
LEMMA InputNext ==
  ASSUME UNCHANGED <<extraction, lookup, cls, amount>>
  PROVE  /\ Input'.completeness = extraction.completeness
         /\ Input'.min_field_confidence = MinFieldConfidence(extraction)
         /\ Input'.policy_active = lookup.active
         /\ Input'.coverage_covered = CoverageNow'.covered
         /\ Input'.coverage_confidence = CoverageNow'.confidence
         /\ Input'.clear_exclusion = CoverageNow'.exclusions
         /\ Input'.exclusion_confidence =
              IF CoverageNow'.exclusions
              THEN CoverageNow'.confidence ELSE 0
         /\ Input'.fraud_score = FraudScore(signals')
         /\ Input'.severity = cls.severity
         /\ Input'.amount_est = amount
         /\ Input'.classification_confidence = cls.confidence
         /\ Input'.injury_flag = cls.injury
         /\ Input'.attorney_flag = cls.attorney
         /\ Input'.watchlist_hit = FALSE
         /\ Input'.duplicate_hard_match = ("DUP_EXACT" \in signals')
BY DEF Input, InputOf, Investigated

LEMMA WorkflowsAre ==
  /\ Workflows = Outcome(Input, config, degraded)
  /\ Workflows' = Outcome(Input', config', degraded')
BY DEF Workflows, Routes, Outcome

-----------------------------------------------------------------------------
(* Every part of the state, and the routing inputs, have their types.      *)
THEOREM TypeCorrect == Spec => []TypeOK
<1>1. Replayed => TypeOK
  BY InputTyped, ReplayAssumption DEF Replayed, TypeOK
<1> QED BY Replays, <1>1, PTL

(* Straight-through payment happens on a clean claim only.                 *)
THEOREM CleanAutoPay == Spec => []AutoPaidIsClean
<1>1. ASSUME Replayed, "W1" \in Workflows
      PROVE  /\ (IF uploaded THEN {"policy_number"} ELSE RequiredFields)
                  \subseteq extraction.fields
             /\ lookup.active
             /\ CoverageNow.covered = "yes"
             /\ grounded => determination.cited
             /\ amount <= config.auto_pay_ceiling
             /\ ~ degraded
             /\ signals \cap {"DUP_EXACT", "NARRATIVE_IMPLAUSIBLE"} = {}
  <2>1. /\ ~ HardFraudSignal(Input) /\ ~ Incomplete(Input, config)
        /\ ~ FastDeny(Input, config) /\ StraightThrough(Input, config) /\ ~ degraded
    BY <1>1, WorkflowsAre, PaidByR03 DEF Replayed
  <2>3. /\ Input.completeness = extraction.completeness
        /\ Input.policy_active = lookup.active
        /\ Input.coverage_covered = CoverageNow.covered
        /\ Input.coverage_confidence = CoverageNow.confidence
        /\ Input.fraud_score = FraudScore(signals)
        /\ Input.amount_est = amount
        /\ Input.duplicate_hard_match = ("DUP_EXACT" \in signals)
    BY InputIs
  <2>4. /\ config \in RoutingConfig
        /\ CitationFloor < config.coverage_conf_min
        /\ config.fraud_low <= SignalWeight["NARRATIVE_IMPLAUSIBLE"]
        /\ 66 < config.completeness_min
    BY <1>1, ReplayAssumption, ThresholdAssumption DEF Replayed
  <2>5. lookup.active
    BY <2>1, <2>3 DEF FastDeny
  <2>6. (IF uploaded THEN {"policy_number"} ELSE RequiredFields) \subseteq extraction.fields
    <3>1. CASE uploaded
      BY <1>1, <2>5, <3>1 DEF Replayed
    <3>2. CASE ~ uploaded
      <4>1. extraction.completeness = AssessCompleteness(extraction.fields)
        BY <1>1, <3>2, ExtractedAssumption DEF Replayed, Extracted
      <4>2. extraction.completeness \in Nat
        BY <1>1 DEF Replayed, Extraction, Percent
      <4>3. extraction.completeness > 66
        BY <2>1, <2>3, <2>4, <4>2 DEF Incomplete, RoutingConfig, Percent
      <4> QED BY <3>2, <4>1, <4>3, CompleteHasRequired
    <3> QED BY <3>1, <3>2
  <2>7. CoverageNow.covered = "yes" /\ (grounded => determination.cited)
    <3>1. CoverageNow.confidence \in Nat
      BY <1>1, CoverageType DEF Coverage, Percent
    <3>2. CoverageNow.covered = "yes" /\ CoverageNow.confidence > CitationFloor
      BY <2>1, <2>3, <2>4, <3>1
         DEF StraightThrough, RoutingConfig, Percent, CitationFloor
    <3>3. grounded /\ ~ determination.cited => CoverageNow.confidence <= CitationFloor
      BY <1>1 DEF Replayed, CoverageNow, ApplyCitationFloor, Coverage, CitationFloor, Percent
    <3> QED BY <1>1, <3>1, <3>2, <3>3 DEF Replayed, Coverage, CitationFloor
  <2>8. amount <= config.auto_pay_ceiling
    BY <2>1, <2>3 DEF StraightThrough
  <2>9. "DUP_EXACT" \notin signals
    BY <2>1, <2>3 DEF HardFraudSignal
  <2>10. "NARRATIVE_IMPLAUSIBLE" \notin signals
    <3> SUFFICES ASSUME "NARRATIVE_IMPLAUSIBLE" \in signals PROVE FALSE
      OBVIOUS
    <3>1. SignalWeight["NARRATIVE_IMPLAUSIBLE"] <= FraudScore(signals)
      BY <1>1, ImplausibleWeighs DEF Replayed
    <3>2. FraudScore(signals) < config.fraud_low
      BY <2>1, <2>3 DEF StraightThrough
    <3>3. FraudScore(signals) \in Nat /\ config.fraud_low \in Nat
          /\ SignalWeight["NARRATIVE_IMPLAUSIBLE"] \in Nat
      BY <1>1, <2>4, ScoreType
         DEF Replayed, RoutingConfig, Percent, SignalWeight, FraudSignal
    <3> QED BY <2>4, <3>1, <3>2, <3>3
  <2> QED BY <2>1, <2>5, <2>6, <2>7, <2>8, <2>9, <2>10
<1>2. Replayed => AutoPaidIsClean
  BY <1>1 DEF AutoPaidIsClean
<1> QED BY Replays, <1>2, PTL

-----------------------------------------------------------------------------
(* Every step of Worsen leads to worse inputs.                             *)
LEMMA WorsenIsWorse ==
  ASSUME Replayed, Replayed', Worsen
  PROVE  Worse(Input, Input', config) /\ config' = config /\ (degraded => degraded')
<1>0. UNCHANGED <<extraction, lookup, grounded, cls, amount, config>>
  BY DEF Worsen, RaiseSignal, LoseCitations, DegradeControl
<1>1. /\ signals \subseteq signals'
      /\ degraded => degraded'
      /\ \/ determination' = determination
         \/ /\ determination' = [determination EXCEPT !.cited = FALSE]
            /\ determination.cited
  BY DEF Worsen, RaiseSignal, LoseCitations, DegradeControl
<1> DEFINE was == CoverageNow
           is  == CoverageNow'
<1>2. /\ is.covered = was.covered
      /\ is.exclusions = was.exclusions
      /\ is.confidence <= was.confidence
      /\ is.confidence # was.confidence => is.confidence <= CitationFloor
      /\ is.confidence \in Nat /\ was.confidence \in Nat
  <2>1. was \in Coverage
    BY CoverageType
  <2>2. CASE determination' = determination \/ ~ grounded
    <3>1. is = was BY <1>0, <2>2 DEF CoverageNow
    <3> HIDE DEF is, was
    <3> QED BY <2>1, <3>1 DEF Coverage, Percent
  <2>3. CASE /\ determination' = [determination EXCEPT !.cited = FALSE]
             /\ determination.cited /\ grounded
    <3>1. was = ApplyCitationFloor(determination) /\ is = ApplyCitationFloor(determination')
      BY <1>0, <2>3 DEF CoverageNow
    <3> HIDE DEF is, was
    <3> QED BY <2>3, <3>1 DEF Replayed, ApplyCitationFloor, Coverage, CitationFloor, Percent
  <2> QED BY <1>1, <2>2, <2>3
<1>3. FraudScore(signals) <= FraudScore(signals')
  BY <1>1, ScoreGrows DEF Replayed
<1>4. /\ CitationFloor < config.coverage_conf_min
      /\ config.coverage_conf_min \in Nat
  BY ReplayAssumption, ThresholdAssumption DEF Replayed, RoutingConfig, Percent
<1>5. /\ Input'.coverage_confidence <= Input.coverage_confidence
      /\ \/ Input'.coverage_confidence < config.coverage_conf_min
         \/ Input'.coverage_confidence = Input.coverage_confidence
  BY <1>0, <1>2, <1>4, InputIs, InputNext DEF CitationFloor
<1>6. /\ Input'.exclusion_confidence <= Input.exclusion_confidence
      /\ Input'.coverage_confidence = Input.coverage_confidence =>
           Input'.exclusion_confidence = Input.exclusion_confidence
  BY <1>0, <1>2, InputIs, InputNext
<1>7. /\ Input.fraud_score <= Input'.fraud_score
      /\ Input.duplicate_hard_match => Input'.duplicate_hard_match
  BY <1>0, <1>1, <1>3, InputIs, InputNext
<1>8. \A field \in {"completeness", "min_field_confidence", "policy_active",
                    "coverage_covered", "clear_exclusion", "severity", "amount_est",
                    "classification_confidence", "injury_flag", "attorney_flag",
                    "watchlist_hit"} : Input'[field] = Input[field]
  BY <1>0, <1>2, InputIs, InputNext
<1> QED BY <1>0, <1>1, <1>5, <1>6, <1>7, <1>8 DEF Worse

(* Worse evidence never eases the decision.                                *)
THEOREM Monotone == Spec => WorseEvidenceNeverEases
<1>1. ASSUME Replayed, Replayed', Worsen
      PROVE  /\ "W1" \in Workflows' => "W1" \in Workflows
             /\ Workflows = {"W3"} => Workflows' = {"W3"}
  <2>1. /\ Input \in RouterInput /\ Input' \in RouterInput
        /\ config \in RoutingConfig
        /\ degraded \in BOOLEAN /\ degraded' \in BOOLEAN
    BY <1>1, InputTyped, InputTypedNext, ReplayAssumption DEF Replayed
  <2>2. Worse(Input, Input', config) /\ config' = config /\ (degraded => degraded')
    BY <1>1, WorsenIsWorse
  <2> QED BY <2>1, <2>2, WorkflowsAre, WorseOutcome
<1>2. Replayed /\ Replayed' /\ [Next]_vars =>
        [Worsen => /\ "W1" \in Workflows' => "W1" \in Workflows
                   /\ Workflows = {"W3"} => Workflows' = {"W3"}]_vars
  BY <1>1
<1> QED BY Replays, <1>2, PTL DEF Spec, WorseEvidenceNeverEases

(* Raising the ceiling admits claims to W1, and moves no claim elsewhere.  *)
THEOREM CeilingAdmits == Spec => CeilingOnlyAdmits
<1>1. ASSUME Replayed, RaiseCeiling
      PROVE  Workflows' \in {Workflows, IF degraded THEN {"W2"} ELSE {"W1"}}
  <2>1. PICK c \in Configs : /\ c.auto_pay_ceiling > config.auto_pay_ceiling
                             /\ c = [config EXCEPT !.auto_pay_ceiling = c.auto_pay_ceiling]
                             /\ config' = c
                             /\ UNCHANGED evidence
    BY <1>1 DEF RaiseCeiling
  <2>2. Workflows' = Outcome(Input, c, degraded)
    <3>1. Input' = Input /\ degraded' = degraded
      BY <2>1 DEF Input, Investigated, CoverageNow, evidence
    <3> QED BY <2>1, <3>1 DEF Workflows, Routes, Outcome
  <2>3. Input \in RouterInput /\ config \in RoutingConfig /\ c \in RoutingConfig
        /\ degraded \in BOOLEAN
    BY <1>1, InputTyped, ReplayAssumption DEF Replayed
  <2>4. Outcome(Input, c, degraded) \in
          {Outcome(Input, config, degraded), IF degraded THEN {"W2"} ELSE {"W1"}}
    BY <2>1, <2>3, CeilingOutcome
  <2> QED BY <2>2, <2>4, WorkflowsAre
<1>2. Replayed /\ [Next]_vars =>
        [RaiseCeiling =>
           Workflows' \in {Workflows, IF degraded THEN {"W2"} ELSE {"W1"}}]_vars
  BY <1>1
<1> QED BY Replays, <1>2, PTL DEF Spec, CeilingOnlyAdmits
=============================================================================
