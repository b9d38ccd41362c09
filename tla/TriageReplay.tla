----------------------------- MODULE TriageReplay -----------------------------
(***************************************************************************)
(* One claim's evidence and the routing decision it leads to, while the    *)
(* evidence and the policy change one piece at a time: a fraud signal      *)
(* comes up, a determination loses its citations, no guideline is found, a *)
(* control goes down, documents arrive, a new config version raises the    *)
(* auto-pay ceiling.  The decision is a pure function of evidence and      *)
(* config, so it is recomputed in every state, the way decisions are       *)
(* replayed against a changed rule table.  Gemini is configured; what the  *)
(* offline build does instead is in Investigation.                         *)
(***************************************************************************)
EXTENDS Triage

CONSTANTS
  Extractions,      \* extractions to replay
  Determinations,   \* LLM coverage determinations, before the citation floor
  Lookups,          \* what policy_lookup and coverage_check may report
  Classifications,  \* classifier answers
  Amounts,          \* estimates
  Signals,          \* the fraud signals that may come up
  Uploads,          \* the sets of fields an upload may provide
  Configs           \* config versions that may become active

(* known: the aggregate has a policy_id, of this lookup or an earlier one; *)
(* active: policy_status; prescreen: coverage_check, which cites nothing.  *)
Lookup == [known : BOOLEAN, active : BOOLEAN, prescreen : Coverage]

ASSUME ReplayAssumption ==
  /\ Extractions     \subseteq Extraction
  /\ Determinations  \subseteq Coverage
  /\ Lookups         \subseteq Lookup
  /\ Classifications \subseteq Classification
  /\ Amounts         \subseteq Nat
  /\ Signals         \subseteq FraudSignal
  /\ Uploads         \subseteq SUBSET Field
  /\ Configs         \subseteq RoutingConfig

(* Extractions are what the extract node stores.                           *)
ASSUME ExtractedAssumption ==
  \A e \in Extractions : e = Extracted(e.fields, e.low_confidence)

(* A status is of a record, and of a record there is a pre-screen; it says *)
(* yes of a policy that is active on the day of the loss only.             *)
ASSUME LookupAssumption ==
  \A l \in Lookups :
    /\ l.active => l.known /\ l.prescreen # NoCoverage
    /\ l.prescreen.covered = "yes" => l.active

(* What a config version has to respect for the weights and floors of the  *)
(* evidence to mean what they are meant to.                                *)
ASSUME ThresholdAssumption ==
  \A c \in Configs :
    /\ CitationFloor < c.coverage_conf_min
    /\ c.fraud_low <= SignalWeight["NARRATIVE_IMPLAUSIBLE"]
    /\ 66 < c.completeness_min      \* two of the three required fields

VARIABLES
  extraction,     \* of the aggregate
  uploaded,       \* whether documents have come in since it was extracted
  lookup,         \* what policy_lookup and coverage_check reported
  grounded,       \* whether there were chunks and a policy id to determine with
  determination,  \* the LLM's determination, if grounded
  cls, signals, degraded, amount,
  config

evidence ==
  <<extraction, uploaded, lookup, grounded, determination, cls, signals, degraded, amount>>
vars == <<evidence, config>>

(* The determination, floored, takes the place of the rules pre-screen if  *)
(* there are chunks to determine with.  Otherwise the pre-screen stands as *)
(* it is, with its confidence and without a citation.                      *)
CoverageNow_Unfloored == IF grounded THEN determination ELSE lookup.prescreen
CoverageNow == IF grounded THEN ApplyCitationFloor(determination) ELSE lookup.prescreen

(* The investigate node: settle the coverage, score the signals; an exact  *)
(* duplicate is both a signal and the hard match of R-00.                  *)
Investigated ==
  [policy_active |-> lookup.active,
   coverage      |-> CoverageNow,
   fraud_score   |-> FraudScore(signals),
   duplicate     |-> "DUP_EXACT" \in signals,
   degraded      |-> degraded,
   amount_est    |-> amount]

Input == InputOf(extraction, cls, Investigated)

(* The (workflow, rule) pairs route_node may record in this state.         *)
Routes    == RoutesOf(Input, config, TRUE, degraded)
Workflows == {r.workflow : r \in Routes}

-----------------------------------------------------------------------------
(* Without a policy number in hand nothing is looked up.                   *)
LookupsFor(e) ==
  {l \in Lookups : "policy_number" \notin e.fields => l.prescreen = NoCoverage}

(* What determine_coverage answers, if there are chunks to ask it with.    *)
Determined(chunks) == IF chunks THEN Determinations ELSE {NoCoverage}

Init ==
  /\ extraction \in Extractions
  /\ uploaded = FALSE
  /\ lookup \in LookupsFor(extraction)
  /\ lookup.known => lookup.prescreen # NoCoverage     \* the first look-up
  /\ grounded \in {FALSE, lookup.known}
  /\ determination \in Determined(grounded)
  /\ cls \in Classifications
  /\ signals = {}
  /\ degraded = FALSE
  /\ amount \in Amounts
  /\ config \in Configs

RaiseSignal(s) ==
  /\ s \notin signals
  /\ signals' = signals \cup {s}
  /\ UNCHANGED <<extraction, uploaded, lookup, grounded, determination, cls, degraded,
                 amount, config>>

LoseCitations ==
  /\ determination.cited
  /\ determination' = [determination EXCEPT !.cited = FALSE]
  /\ UNCHANGED <<extraction, uploaded, lookup, grounded, cls, signals, degraded, amount,
                 config>>

(* The same claim when guideline_search finds nothing.  It takes evidence  *)
(* away, the determination's doubts included, and may ease the decision.   *)
LoseGuidelines ==
  /\ grounded
  /\ grounded' = FALSE
  /\ determination' = NoCoverage
  /\ UNCHANGED <<extraction, uploaded, lookup, cls, signals, degraded, amount, config>>

DegradeControl ==
  /\ ~ degraded
  /\ degraded' = TRUE
  /\ UNCHANGED <<extraction, uploaded, lookup, grounded, determination, cls, signals,
                 amount, config>>

(* w4_await: what an upload provides goes into the extraction, and the     *)
(* investigation begins anew; a policy id once found is kept.              *)
ReceiveDocuments ==
  /\ Workflows = {"W4"}
  /\ \E provided \in Uploads : extraction' = WithDocuments(extraction, provided)
  /\ uploaded' = TRUE
  /\ lookup' \in {l \in LookupsFor(extraction') : lookup.known => l.known}
  /\ grounded' \in {FALSE, lookup'.known}
  /\ determination' \in Determined(grounded')
  /\ signals' = {}
  /\ UNCHANGED <<cls, degraded, amount, config>>

(* A config version that differs from the active one in its ceiling only.  *)
RaiseCeiling ==
  \E c \in Configs :
    /\ c.auto_pay_ceiling > config.auto_pay_ceiling
    /\ c = [config EXCEPT !.auto_pay_ceiling = c.auto_pay_ceiling]
    /\ config' = c
    /\ UNCHANGED evidence

Worsen == (\E s \in Signals : RaiseSignal(s)) \/ LoseCitations \/ DegradeControl

Next == Worsen \/ LoseGuidelines \/ ReceiveDocuments \/ RaiseCeiling

Spec == Init /\ [][Next]_vars

-----------------------------------------------------------------------------
TypeOK ==
  /\ extraction \in Extraction
  /\ uploaded \in BOOLEAN
  /\ lookup \in Lookup
  /\ grounded \in BOOLEAN
  /\ determination \in Coverage
  /\ cls \in Classification
  /\ signals \subseteq FraudSignal
  /\ degraded \in BOOLEAN
  /\ amount \in Nat
  /\ config \in RoutingConfig
  /\ Input \in RouterInput

(* Straight-through payment happens on an active policy whose coverage in  *)
(* effect says yes, within the ceiling, with all controls up, and neither  *)
(* on a known duplicate nor on an impossible narrative.  If the LLM        *)
(* determined the coverage, it cited a chunk; a pre-screen that stands for *)
(* want of chunks is not asked to.  All required facts are there, unless   *)
(* an upload has cleared the list of what is missing: then still the       *)
(* policy number.  R-03 tests little of this itself: the rules before it,  *)
(* the cap after it, the floor under an uncited confidence, the weight of  *)
(* a signal and the look-up have to cut off the rest.                      *)
AutoPaidIsClean ==
  "W1" \in Workflows =>
    /\ (IF uploaded THEN {"policy_number"} ELSE RequiredFields) \subseteq extraction.fields
    /\ lookup.active
    /\ CoverageNow.covered = "yes"
    /\ grounded => determination.cited
    /\ amount <= config.auto_pay_ceiling
    /\ ~ degraded
    /\ signals \cap {"DUP_EXACT", "NARRATIVE_IMPLAUSIBLE"} = {}

(* Worse evidence never eases the decision: no step that only adds         *)
(* suspicion turns another workflow into W1, and a claim that must go to   *)
(* SIU still must.                                                         *)
WorseEvidenceNeverEases ==
  [][Worsen => /\ "W1" \in Workflows' => "W1" \in Workflows
               /\ Workflows = {"W3"} => Workflows' = {"W3"}]_vars

(* Raising the auto-pay ceiling admits claims to W1, or, while a fraud     *)
(* control is degraded, to the W2 the cap puts in its place; it moves no   *)
(* claim anywhere else.  (R-03 stands before R-05: with a ceiling above    *)
(* high_amount_min it also takes claims that went to a senior adjuster.)   *)
CeilingOnlyAdmits ==
  [][RaiseCeiling =>
       Workflows' \in {Workflows, IF degraded THEN {"W2"} ELSE {"W1"}}]_vars
=============================================================================
