----------------------------- MODULE Investigation -----------------------------
(***************************************************************************)
(* The investigate node of graph/lifecycle.py call by call, with the tool  *)
(* handlers it calls (tools/handlers.py, tools/registry.py), the calls     *)
(* that can fail, the routing of what it finds, and the document loop that *)
(* runs it again.  ClaimLifecycle takes what investigate leaves on the     *)
(* aggregate from a constant; here it is computed from the world.          *)
(*                                                                         *)
(* The mock handlers are pure and fail only where they say so (a policy    *)
(* that does not exist).  What can fail for any other reason is what       *)
(* reaches outside: the guideline index (database, query embedding), the   *)
(* narrative screen (LLM) and the embeddings of the duplicate check.  The  *)
(* executor turns a handler's exception into a result without data, and    *)
(* the node goes on with the defaults.  A failing determine_coverage       *)
(* leaves the node (LLMFails and TaskDies in ClaimLifecycle).              *)
(*                                                                         *)
(* Dates are day numbers.  A policy is its number (its id says the same);  *)
(* the peril and the estimate belong to the claim and do not change, so a  *)
(* coverage code is carried or not.  Rationales, evidence texts and the    *)
(* weather call, whose result nothing reads, are left out.                 *)
(***************************************************************************)
EXTENDS Triage, Integers

CONSTANTS
  Policies,         \* POLICIES: the records that exist, by policy number
  Notices,          \* what extract may leave: [policy_number, loss_date, located]
  Histories,        \* CLAIM_HISTORY and RECENT_COVERAGE_INCREASE for the claimant
  Determinations,   \* what determine_coverage may answer
  Documents,        \* what an upload may provide: [policy_number, loss_date]
  Estimate,         \* the total of repair_cost_estimator for this peril
  Class,            \* what classify left
  Config,           \* the active routing config
  MaxReplans        \* settings.max_replans

NoPolicy == "none"
NoDate   == [kind |-> "none", day |-> 0]

(* A loss date is absent, a text that is no ISO date, or a day.            *)
LossDate == [kind : {"none", "text", "iso"}, day : Nat]

PolicyRecord == [status : {"active", "lapsed"}, from : Nat, to : Nat, carries : BOOLEAN]

(* A prior claim of the claimant: its date, whether it has this claim's    *)
(* peril, and the cosine of its narrative with this one's.                 *)
Prior   == [id : Nat, day : Nat, same_peril : BOOLEAN, similarity : Percent]
History == [priors : SUBSET Prior, raised : BOOLEAN]

Notice   == [policy_number : STRING, loss_date : LossDate, located : BOOLEAN]
Document == [policy_number : STRING, loss_date : LossDate]

ASSUME InvestigationAssumption ==
  /\ DOMAIN Policies \subseteq STRING \ {NoPolicy}
  /\ \A n \in DOMAIN Policies : Policies[n] \in PolicyRecord
  /\ \A n \in Notices   : n.policy_number \in STRING /\ n.loss_date \in LossDate
                          /\ n.located \in BOOLEAN
  /\ \A d \in Documents : d.policy_number \in STRING /\ d.loss_date \in LossDate
  /\ \A h \in Histories :
       /\ IsFiniteSet(h.priors) /\ h.raised \in BOOLEAN
       /\ \A p \in h.priors : p \in Prior
  /\ Determinations \subseteq Coverage
  /\ Estimate \in Nat
  /\ Class \in Classification
  /\ Config \in RoutingConfig
  /\ MaxReplans \in Nat

(* An uncited determination stays below what straight-through asks for.    *)
ASSUME FloorAssumption == CitationFloor < Config.coverage_conf_min

(* One duplicate narrative is too much for straight-through.               *)
ASSUME WeightAssumption == Config.fraud_low <= SignalWeight["DUP_NARRATIVE"]

VARIABLES
  step,        \* the call the node makes next, or where the claim rests
  facts,       \* of the aggregate: policy_number, policy_id, loss_date
  extraction,  \* of the aggregate
  replans,     \* of the aggregate
  history,     \* the claimant's past, in the mock system of record
  settings,    \* fraud_controls_degraded, and whether Gemini is configured
  found,       \* the node's locals
  lost,        \* history: the controls that failed in this round
  decided      \* the workflow and rule of the last routing

vars == <<step, facts, extraction, replans, history, settings, found, lost, decided>>

Step    == {"policy", "guidelines", "coverage", "narrative", "duplicates", "route",
            "parked", "routed"}
Control == {"guidelines", "narrative", "duplicates"}

(* What the node has gathered so far, with the defaults it starts from.    *)
NothingFound ==
  [active      |-> FALSE,
   coverage    |-> NoCoverage,
   grounded    |-> FALSE,       \* the determination is the LLM's
   chunks      |-> FALSE,
   implausible |-> FALSE,
   exact       |-> FALSE,
   similarity  |-> 0]

(* Read anew by every process; with Gemini configured embeddings,          *)
(* determination, screen and tiebreak are calls that leave the process.    *)
Settings == [controls_degraded : BOOLEAN, gemini : BOOLEAN]

Undecided == [workflow |-> "none", rule_id |-> "none"]

-----------------------------------------------------------------------------
(* The handlers.                                                           *)

(* _active_at: without a date that can be read, the status decides alone.  *)
ActiveAt_StatusOnly(rec, date) == rec.status = "active"
ActiveAt_Exclusive(rec, date) ==
  /\ rec.status = "active"
  /\ date.kind = "iso" => rec.from < date.day /\ date.day < rec.to
ActiveAt(rec, date) ==
  /\ rec.status = "active"
  /\ date.kind = "iso" => rec.from <= date.day /\ date.day <= rec.to

(* coverage_check                                                          *)
Prescreen(rec, date) ==
  IF ~ ActiveAt(rec, date)
  THEN [covered |-> "no", confidence |-> 92, exclusions |-> TRUE, cited |-> FALSE]
  ELSE [covered    |-> IF rec.carries THEN "yes" ELSE "no",
        confidence |-> IF rec.carries THEN 94 ELSE 70,
        exclusions |-> FALSE,
        cited      |-> FALSE]

RecentDays == 730

(* The date the mock takes for today when the claim has none.              *)
Today == 3000

(* _within_24m: a loss date that cannot be read counts as recent.          *)
Within24m_Exclusive(day, date) ==
  \/ date.kind = "text"
  \/ (IF date.kind = "iso" THEN date.day ELSE Today) - day < RecentDays
Within24m(day, date) ==
  \/ date.kind = "text"
  \/ (IF date.kind = "iso" THEN date.day ELSE Today) - day <= RecentDays

(* duplicate_claim_check                                                   *)
ExactMatches(date) ==
  {p \in history.priors : p.same_peril /\ Within24m(p.day, date)}

(* _SEMANTIC_DUP_THRESHOLD and the threshold of fraud_signal_scan.         *)
SemanticMatch == 82
NarrativeDuplicate == 85

SemanticMatches == {p \in history.priors : p.similarity >= SemanticMatch}

Similarity(matches) ==
  IF matches = {} THEN 0
  ELSE CHOOSE s \in {p.similarity : p \in matches} : \A p \in matches : p.similarity <= s

(* claim_history counts every prior claim.                                 *)
PriorCount == Cardinality(history.priors)

(* fraud_signal_scan                                                       *)
Signals ==
  {s \in FraudSignal :
     \/ s = "DUP_EXACT" /\ found.exact
     \/ s = "DUP_NARRATIVE" /\ found.similarity >= NarrativeDuplicate
     \/ s = "NARRATIVE_IMPLAUSIBLE" /\ found.implausible
     \/ s = "RECENT_COVERAGE_INCREASE" /\ history.raised
     \/ s = "FREQUENT_CLAIMS" /\ PriorCount >= 3
     \/ s = "FIRST_SEEN" /\ PriorCount = 0}

-----------------------------------------------------------------------------
(* The node, one outside call per step.                                    *)

(* policy_lookup, then coverage_check; without a record both are skipped   *)
(* or fail, and the id of an earlier round stays.                          *)
LooksUp(number) ==
  IF number \in DOMAIN Policies
  THEN [NothingFound EXCEPT !.active   = Policies[number].status = "active",
                            !.coverage = Prescreen(Policies[number], facts.loss_date)]
  ELSE NothingFound

LookUpPolicy ==
  /\ step = "policy"
  /\ found' = LooksUp(facts.policy_number)
  /\ facts' = IF facts.policy_number \in DOMAIN Policies
              THEN [facts EXCEPT !.policy_id = facts.policy_number] ELSE facts
  /\ lost' = {}
  /\ step' = "guidelines"
  /\ UNCHANGED <<extraction, replans, history, settings, decided>>

(* guideline_search                                                        *)
Search ==
  /\ step = "guidelines"
  /\ \/ found' = [found EXCEPT !.chunks = TRUE] /\ UNCHANGED lost
     \/ UNCHANGED found /\ lost' = lost \cup {"guidelines"}
  /\ step' = "coverage"
  /\ UNCHANGED <<facts, extraction, replans, history, settings, decided>>

(* The grounded determination replaces the pre-screen; offline the top     *)
(* chunk becomes its citation; without chunks the pre-screen stands.       *)
Grounding(det) ==
  /\ found.chunks /\ facts.policy_id # NoPolicy /\ settings.gemini
  /\ found' = [found EXCEPT !.coverage = ApplyCitationFloor(det), !.grounded = TRUE]

PrescreenStands ==
  /\ ~ (found.chunks /\ facts.policy_id # NoPolicy /\ settings.gemini)
  /\ found' = [found EXCEPT !.coverage.cited =
                 found.chunks /\ found.coverage.covered # "unknown"]

Determine ==
  /\ step = "coverage"
  /\ PrescreenStands \/ \E det \in Determinations : Grounding(det)
  /\ step' = "narrative"
  /\ UNCHANGED <<facts, extraction, replans, history, settings, lost, decided>>

(* assess_narrative; any exception leaves the narrative plausible.         *)
ScreenNarrative ==
  /\ step = "narrative"
  /\ \/ UNCHANGED <<found, lost>>
     \/ settings.gemini /\ found' = [found EXCEPT !.implausible = TRUE] /\ UNCHANGED lost
     \/ settings.gemini /\ UNCHANGED found /\ lost' = lost \cup {"narrative"}
  /\ step' = "duplicates"
  /\ UNCHANGED <<facts, extraction, replans, history, settings, decided>>

(* The exact matches are found before the narratives are embedded; an      *)
(* embedding that fails takes both with it.                                *)
CheckDuplicates ==
  /\ step = "duplicates"
  /\ \/ /\ found' = [found EXCEPT !.exact      = ExactMatches(facts.loss_date) # {},
                                  !.similarity = Similarity(SemanticMatches)]
        /\ UNCHANGED lost
     \/ /\ settings.gemini /\ history.priors # {}
        /\ UNCHANGED found
        /\ lost' = lost \cup {"duplicates"}
  /\ step' = "route"
  /\ UNCHANGED <<facts, extraction, replans, history, settings, decided>>

(* What the node leaves on the aggregate.  No tool ever reports that it    *)
(* is degraded: the setting is all that sets the flag.                     *)
Report ==
  [policy_active |-> found.active,
   coverage      |-> found.coverage,
   fraud_score   |-> FraudScore(Signals),
   duplicate     |-> found.exact,
   degraded      |-> settings.controls_degraded,
   amount_est    |-> Estimate]

RouteClaim ==
  /\ step = "route"
  /\ \E r \in RoutesOf(InputOf(extraction, Class, Report), Config, settings.gemini,
                     settings.controls_degraded) :
       /\ decided' = r
       /\ step' = IF r.workflow = "W4" THEN "parked" ELSE "routed"
  /\ UNCHANGED <<facts, extraction, replans, history, settings, found, lost>>

-----------------------------------------------------------------------------
(* Intake, and the documents a parked claim waits for (w4_await).          *)

FieldsOf(number, date) ==
  {f \in Field : \/ f = "policy_number" /\ number # NoPolicy
                 \/ f = "loss_date" /\ date # NoDate}

ReceiveDocuments ==
  /\ step = "parked"
  /\ replans < MaxReplans
  /\ replans' = replans + 1
  /\ \E d \in Documents :
       /\ extraction' = WithDocuments(extraction, FieldsOf(d.policy_number, d.loss_date))
       /\ facts' = [facts EXCEPT
            !.policy_number = IF d.policy_number = NoPolicy THEN @ ELSE d.policy_number,
            !.loss_date     = IF d.loss_date = NoDate THEN @ ELSE d.loss_date]
  /\ step' = "policy"
  /\ UNCHANGED <<history, settings, found, lost, decided>>

Init ==
  /\ step = "policy"
  /\ \E n \in Notices :
       /\ facts = [policy_number |-> n.policy_number, policy_id |-> NoPolicy,
                   loss_date |-> n.loss_date]
       /\ extraction = Extracted(FieldsOf(n.policy_number, n.loss_date)
                                   \cup (IF n.located THEN {"loss_location"} ELSE {}), {})
  /\ replans = 0
  /\ history \in Histories
  /\ settings \in Settings
  /\ found = NothingFound
  /\ lost = {}
  /\ decided = Undecided

Next ==
  \/ LookUpPolicy \/ Search \/ Determine \/ ScreenNarrative \/ CheckDuplicates
  \/ RouteClaim \/ ReceiveDocuments

Spec == Init /\ [][Next]_vars

-----------------------------------------------------------------------------
Facts ==
  [policy_number : STRING, policy_id : DOMAIN Policies \cup {NoPolicy}, loss_date : LossDate]

Found ==
  [active : BOOLEAN, coverage : Coverage, grounded : BOOLEAN, chunks : BOOLEAN,
   implausible : BOOLEAN, exact : BOOLEAN, similarity : Percent]

(* What investigate leaves is what ClaimLifecycle assumes of it.           *)
TypeOK ==
  /\ step \in Step
  /\ facts \in Facts
  /\ extraction \in Extraction
  /\ replans \in 0..MaxReplans
  /\ history \in Histories
  /\ settings \in Settings
  /\ found \in Found
  /\ lost \subseteq Control
  /\ decided = Undecided \/ (decided.workflow \in Workflow /\ decided.rule_id \in RuleId)
  /\ step = "route" => Report \in Investigation

Decided   == step \in {"parked", "routed"}
OnFile    == facts.policy_number \in DOMAIN Policies
PolicyNow == Policies[facts.policy_number]

InWindow(rec, date) == rec.from <= date.day /\ date.day <= rec.to

(* A claim is paid straight through only on the policy whose number is on  *)
(* file now, active, and carrying the peril in force on the day of the     *)
(* loss, unless a cited determination says so in its place; nothing of an  *)
(* earlier round or another policy is carried into it (investigate,        *)
(* policy_lookup, coverage_check, w4_await).                               *)
AutoPayIsInForce ==
  Decided /\ decided.workflow = "W1" =>
    /\ OnFile
    /\ facts.policy_id = facts.policy_number
    /\ PolicyNow.status = "active"
    /\ \/ found.grounded /\ found.coverage.cited
       \/ /\ PolicyNow.carries
          /\ facts.loss_date.kind = "iso" => InWindow(PolicyNow, facts.loss_date)

(* A duplicate the check has seen stops the claim wherever it was heading: *)
(* the same peril within 24 months goes to SIU, incomplete and lapsed      *)
(* claims included, and a narrative told before is never paid straight     *)
(* through.                                                                *)
KnownDuplicatesStop ==
  Decided /\ "duplicates" \notin lost =>
    \A p \in history.priors :
      /\ p.same_peril /\ facts.loss_date.kind = "iso" /\ facts.loss_date.day - p.day <= 730
           => decided.workflow = "W3"
      /\ p.similarity >= 85 => decided.workflow # "W1"

(* An outage denies nobody: what leads to a proposal to deny (rule R-02,   *)
(* or a coverage that says no, in w2_propose) is a policy that is not on   *)
(* file, not active, not in force or not carrying the peril, or the        *)
(* determination.                                                          *)
DenialsHaveGrounds ==
  /\ Decided /\ decided.workflow = "W2"
  /\ decided.rule_id = "R-02" \/ found.coverage.covered = "no"
  => \/ found.grounded
     \/ ~ OnFile
     \/ PolicyNow.status # "active"
     \/ ~ PolicyNow.carries
     \/ facts.loss_date.kind = "iso" /\ ~ InWindow(PolicyNow, facts.loss_date)

(* No claim is paid straight through while the duplicate check is down     *)
(* (investigate, duplicate_claim_check).                                   *)
LostDuplicateCheckIsCapped ==
  Decided /\ "duplicates" \in lost => decided.workflow # "W1"
=============================================================================
