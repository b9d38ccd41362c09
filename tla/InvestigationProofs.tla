-------------------------- MODULE InvestigationProofs --------------------------
(***************************************************************************)
(* The types, AutoPayIsInForce, DenialsHaveGrounds and                     *)
(* KnownDuplicatesStop for every set of policies, notices, histories,      *)
(* determinations and documents, and every routing config.                 *)
(*                                                                         *)
(* The properties speak of a routed claim; what makes them true is         *)
(* gathered steps earlier.  The invariants keep, from the lookup to the    *)
(* routing, what the locals of the node say about the policy on file, and  *)
(* that a determination without citations stays at the floor; and from the *)
(* duplicate check on, what it has seen.                                   *)
(***************************************************************************)
EXTENDS Investigation, FiniteSetTheorems, WellFoundedInduction, TLAPS

(* The locals are a record of this shape; how similar the priors are does  *)
(* not matter here.                                                        *)
Shape ==
  found \in [active : BOOLEAN, coverage : Coverage, grounded : BOOLEAN, chunks : BOOLEAN,
             implausible : BOOLEAN, exact : BOOLEAN, similarity : {found.similarity}]

FactsType ==
  facts \in [policy_number : STRING, policy_id : DOMAIN Policies \cup {NoPolicy},
             loss_date : LossDate]

(* What the lookup of this round said, and what became of the coverage.    *)
ActiveIsOnFile ==
  found.active =>
    OnFile /\ facts.policy_id = facts.policy_number /\ PolicyNow.status = "active"

PrescreenIsInForce ==
  ~ found.grounded /\ found.coverage.covered = "yes" =>
    /\ OnFile
    /\ PolicyNow.carries
    /\ facts.loss_date.kind = "iso" => InWindow(PolicyNow, facts.loss_date)

UncitedIsFloored ==
  found.grounded /\ ~ found.coverage.cited => found.coverage.confidence <= CitationFloor

Gathered == ActiveIsOnFile /\ PrescreenIsInForce /\ UncitedIsFloored

(* What W1 was routed on.                                                  *)
Admitted ==
  found.active /\ found.coverage.covered = "yes"
    /\ found.coverage.confidence >= Config.coverage_conf_min

InForceInv ==
  /\ Shape
  /\ FactsType
  /\ step # "policy" => Gathered
  /\ step \in {"guidelines", "coverage"} => ~ found.grounded
  /\ Decided /\ decided.workflow = "W1" => Admitted

-----------------------------------------------------------------------------
LEMMA PolicyType ==
  ASSUME NEW n \in DOMAIN Policies
  PROVE  Policies[n] \in PolicyRecord /\ n \in STRING /\ n # NoPolicy
BY InvestigationAssumption

LEMMA PrescreenType ==
  ASSUME NEW rec \in PolicyRecord, NEW date \in LossDate
  PROVE  /\ Prescreen(rec, date) \in Coverage
         /\ Prescreen(rec, date).covered = "yes" =>
              /\ rec.status = "active"
              /\ rec.carries
              /\ date.kind = "iso" => InWindow(rec, date)
BY DEF Prescreen, PolicyRecord, LossDate, Coverage, Covered, Percent, ActiveAt, InWindow

(* What R-03 admits, the tiebreak and the cap cannot add to.               *)
LEMMA AdmittedByRoute ==
  ASSUME NEW r, NEW inp, NEW gemini, NEW degraded,
         r \in RoutesOf(inp, Config, gemini, degraded), r.workflow = "W1"
  PROVE  StraightThrough(inp, Config) /\ ~ FastDeny(inp, Config)
<1> DEFINE d == Route(inp, Config)
<1>1. PICK q \in Tiebreak(d, gemini) : r = CapDegraded(q, degraded)
  BY DEF RoutesOf
<1>2. q.workflow = "W1"
  BY <1>1 DEF CapDegraded
<1>3. d.workflow = "W1"
  BY <1>1, <1>2 DEF Tiebreak
<1> QED BY <1>3 DEF Route, Decision

-----------------------------------------------------------------------------
LEMMA LookUpInForce == ASSUME InForceInv, LookUpPolicy PROVE InForceInv'
<1> USE DEF InForceInv, LookUpPolicy
<1>1. CASE facts.policy_number \in DOMAIN Policies
  <2> DEFINE rec == Policies[facts.policy_number]
  <2>1. /\ rec \in PolicyRecord
        /\ facts.policy_number \in STRING
    BY <1>1, PolicyType
  <2>2. facts.loss_date \in LossDate
    BY DEF FactsType
  <2>3. facts' = [facts EXCEPT !.policy_id = facts.policy_number]
    BY <1>1
  <2>4. /\ FactsType'
        /\ facts'.policy_number = facts.policy_number
        /\ facts'.policy_id = facts.policy_number
        /\ facts'.loss_date = facts.loss_date
    BY <1>1, <2>1, <2>3 DEF FactsType
  <2>5. found' = [NothingFound EXCEPT !.active = rec.status = "active",
                                      !.coverage = Prescreen(rec, facts.loss_date)]
    BY <1>1 DEF LooksUp
  <2> HIDE DEF rec
  <2> DEFINE cov == Prescreen(rec, facts.loss_date)
  <2>1a. /\ cov \in Coverage
         /\ cov.covered = "yes" =>
              /\ rec.carries
              /\ facts.loss_date.kind = "iso" => InWindow(rec, facts.loss_date)
    BY <2>1, <2>2, PrescreenType
  <2>1c. found' = [NothingFound EXCEPT !.active = rec.status = "active", !.coverage = cov]
    BY <2>5
  <2> HIDE DEF cov, InForceInv, LookUpPolicy
  <2>1d. found' = [active |-> rec.status = "active", coverage |-> cov, grounded |-> FALSE,
                   chunks |-> FALSE, implausible |-> FALSE, exact |-> FALSE,
                   similarity |-> 0]
    BY <2>1c DEF NothingFound
  <2>6a. Shape'
    BY <2>1a, <2>1d DEF Shape
  <2>6b. found'.active => rec.status = "active"
    BY <2>1d
  <2>6c. found'.coverage = cov /\ ~ found'.grounded
    BY <2>1d
  <2>1f. facts'.policy_number \in DOMAIN Policies /\ Policies[facts'.policy_number] = rec
    BY <1>1, <2>4 DEF rec
  <2>1g. ActiveIsOnFile'
    <3>1. found'.active => OnFile' /\ PolicyNow'.status = "active"
      BY <2>6b, <2>1f DEF OnFile, PolicyNow
    <3> QED BY <3>1, <2>4 DEF ActiveIsOnFile
  <2>1h. PrescreenIsInForce'
    BY <2>4, <2>6c, <2>1a, <2>1f DEF PrescreenIsInForce, OnFile, PolicyNow
  <2>7. Gathered'
    BY <2>6c, <2>1g, <2>1h DEF Gathered, UncitedIsFloored
  <2>8. step' = "guidelines"
    BY DEF LookUpPolicy
  <2> QED BY <2>4, <2>6a, <2>6c, <2>7, <2>8 DEF Decided, InForceInv
<1>2. CASE facts.policy_number \notin DOMAIN Policies
  <2>1. found' = NothingFound /\ facts' = facts
    BY <1>2 DEF LooksUp
  <2>2. Shape' /\ FactsType'
    BY <2>1 DEF Shape, FactsType, NothingFound, NoCoverage, Coverage, Covered, Percent
  <2>3. Gathered'
    BY <2>1 DEF Gathered, ActiveIsOnFile, PrescreenIsInForce, UncitedIsFloored,
                NothingFound, NoCoverage
  <2> QED BY <2>1, <2>2, <2>3 DEF Decided, NothingFound
<1> QED BY <1>1, <1>2

(* A step that leaves the policy, the coverage and where it came from.     *)
LEMMA Unrelated ==
  ASSUME InForceInv, Shape', UNCHANGED <<facts, decided>>,
         found'.active = found.active, found'.coverage = found.coverage,
         found'.grounded = found.grounded,
         step # "policy" \/ step' = "policy",
         step' \in {"guidelines", "coverage"} => step \in {"guidelines", "coverage"},
         Decided' => Decided
  PROVE  InForceInv'
BY DEF InForceInv, FactsType, Gathered, ActiveIsOnFile, PrescreenIsInForce, UncitedIsFloored,
       OnFile, PolicyNow, Admitted

LEMMA DetermineInForce == ASSUME InForceInv, Determine PROVE InForceInv'
<1> USE DEF InForceInv, Determine
<1>1. CASE PrescreenStands
  <2> DEFINE cited == found.chunks /\ found.coverage.covered # "unknown"
             cov   == [found.coverage EXCEPT !.cited = cited]
  <2>0. found' = [found EXCEPT !.coverage = cov] /\ cited \in BOOLEAN
    BY <1>1 DEF PrescreenStands, Shape
  <2> HIDE DEF cited
  <2>0a. /\ cov \in Coverage
        /\ cov.covered = found.coverage.covered
        /\ ~ found.grounded
    BY <2>0 DEF Shape, Coverage
  <2> HIDE DEF cov
  <2>1. /\ Shape'
        /\ found'.active = found.active
        /\ found'.grounded = found.grounded
        /\ found'.coverage.covered = found.coverage.covered
    BY <2>0, <2>0a DEF Shape
  <2>2. step' = "narrative" /\ facts' = facts
    OBVIOUS
  <2>3. UncitedIsFloored'
    BY <2>1, <2>0a DEF UncitedIsFloored
  <2>4. ActiveIsOnFile' /\ PrescreenIsInForce'
    BY <2>1, <2>2 DEF Gathered, ActiveIsOnFile, PrescreenIsInForce, OnFile, PolicyNow
  <2> QED BY <2>1, <2>2, <2>3, <2>4 DEF FactsType, Gathered, Decided
<1>2. CASE \E det \in Determinations : Grounding(det)
  <2>1. PICK det \in Determinations : Grounding(det)
    BY <1>2
  <2>2. det \in Coverage
    BY InvestigationAssumption
  <2>3. /\ ApplyCitationFloor(det) \in Coverage
        /\ ~ ApplyCitationFloor(det).cited =>
             ApplyCitationFloor(det).confidence <= CitationFloor
    BY <2>2 DEF ApplyCitationFloor, Coverage, Percent, CitationFloor
  <2>4. /\ Shape'
        /\ found'.active = found.active
        /\ found'.grounded
        /\ found'.coverage = ApplyCitationFloor(det)
    BY <2>1, <2>3 DEF Grounding, Shape
  <2>5. Gathered'
    BY <2>3, <2>4 DEF Gathered, ActiveIsOnFile, PrescreenIsInForce, UncitedIsFloored,
                      OnFile, PolicyNow
  <2> QED BY <2>4, <2>5 DEF FactsType, Decided
<1> QED BY <1>1, <1>2

LEMMA RouteInForce == ASSUME InForceInv, RouteClaim PROVE InForceInv'
<1> DEFINE inp == InputOf(extraction, Class, Report)
<1>1. PICK r \in RoutesOf(inp, Config, settings.gemini, settings.controls_degraded) :
        decided' = r
  BY DEF RouteClaim
<1>2. r.workflow = "W1" => StraightThrough(inp, Config) /\ ~ FastDeny(inp, Config)
  BY <1>1, AdmittedByRoute
<1>3. /\ inp.policy_active = found.active
      /\ inp.coverage_covered = found.coverage.covered
      /\ inp.coverage_confidence = found.coverage.confidence
  BY DEF InputOf, Report
<1> HIDE DEF inp
<1>4. r.workflow = "W1" => Admitted
  BY <1>2, <1>3 DEF StraightThrough, FastDeny, Admitted
<1>5. step # "policy" /\ step' # "policy" /\ UNCHANGED <<facts, found>>
  BY DEF RouteClaim
<1>6. Shape' /\ FactsType' /\ Gathered'
  BY <1>5 DEF InForceInv, Shape, FactsType, Gathered, ActiveIsOnFile, PrescreenIsInForce,
              UncitedIsFloored, OnFile, PolicyNow
<1>7. step' \in {"parked", "routed"}
  BY DEF RouteClaim
<1>8. decided'.workflow = "W1" => Admitted'
  BY <1>1, <1>4, <1>5 DEF Admitted
<1> QED BY <1>6, <1>7, <1>8 DEF InForceInv

LEMMA DocumentsInForce == ASSUME InForceInv, ReceiveDocuments PROVE InForceInv'
<1>1. PICK d \in Documents :
        facts' = [facts EXCEPT
          !.policy_number = IF d.policy_number = NoPolicy THEN @ ELSE d.policy_number,
          !.loss_date     = IF d.loss_date = NoDate THEN @ ELSE d.loss_date]
  BY DEF ReceiveDocuments
<1>2. d.policy_number \in STRING /\ d.loss_date \in LossDate
  BY InvestigationAssumption
<1>3. FactsType'
  BY <1>1, <1>2 DEF InForceInv, FactsType
<1>4. step' = "policy" /\ found' = found
  BY DEF ReceiveDocuments
<1> QED BY <1>3, <1>4 DEF InForceInv, Shape, Decided

LEMMA InForceInit == ASSUME Init PROVE InForceInv
<1>1. PICK n \in Notices :
        facts = [policy_number |-> n.policy_number, policy_id |-> NoPolicy,
                 loss_date |-> n.loss_date]
  BY DEF Init
<1>2. n.policy_number \in STRING /\ n.loss_date \in LossDate
  BY InvestigationAssumption
<1>3. FactsType
  BY <1>1, <1>2 DEF FactsType
<1>4. Shape
  BY DEF Init, Shape, NothingFound, NoCoverage, Coverage, Covered, Percent
<1> QED BY <1>3, <1>4 DEF Init, InForceInv, Decided

LEMMA InForceStep == ASSUME InForceInv, [Next]_vars PROVE InForceInv'
<1>1. CASE LookUpPolicy
  BY <1>1, LookUpInForce
<1>2. CASE Search
  <2>1. /\ Shape'
        /\ found'.active = found.active
        /\ found'.coverage = found.coverage
        /\ found'.grounded = found.grounded
    BY <1>2 DEF Search, InForceInv, Shape
  <2> QED BY <1>2, <2>1, Unrelated DEF Search, Decided
<1>3. CASE Determine
  BY <1>3, DetermineInForce
<1>4. CASE ScreenNarrative
  <2>1. /\ Shape'
        /\ found'.active = found.active
        /\ found'.coverage = found.coverage
        /\ found'.grounded = found.grounded
    BY <1>4 DEF ScreenNarrative, InForceInv, Shape
  <2> QED BY <1>4, <2>1, Unrelated DEF ScreenNarrative, Decided
<1>5. CASE CheckDuplicates
  <2>1. /\ Shape'
        /\ found'.active = found.active
        /\ found'.coverage = found.coverage
        /\ found'.grounded = found.grounded
    BY <1>5 DEF CheckDuplicates, InForceInv, Shape
  <2> QED BY <1>5, <2>1, Unrelated DEF CheckDuplicates, Decided
<1>6. CASE RouteClaim
  BY <1>6, RouteInForce
<1>7. CASE ReceiveDocuments
  BY <1>7, DocumentsInForce
<1>8. CASE UNCHANGED vars
  <2>1. Shape' /\ (Decided' => Decided)
    BY <1>8 DEF vars, InForceInv, Shape, Decided
  <2> QED BY <1>8, <2>1, Unrelated DEF vars
<1> QED BY <1>1, <1>2, <1>3, <1>4, <1>5, <1>6, <1>7, <1>8 DEF Next

(* A claim is paid straight through only on the policy on file now,        *)
(* active, in force and carrying the peril, or on a cited determination    *)
(* (investigate, policy_lookup, coverage_check, w4_await).                 *)
THEOREM InForce == Spec => []AutoPayIsInForce
<1>1. InForceInv => AutoPayIsInForce
  <2> SUFFICES ASSUME InForceInv, Decided, decided.workflow = "W1"
               PROVE  /\ OnFile
                      /\ facts.policy_id = facts.policy_number
                      /\ PolicyNow.status = "active"
                      /\ \/ found.grounded /\ found.coverage.cited
                         \/ /\ PolicyNow.carries
                            /\ facts.loss_date.kind = "iso" =>
                                 InWindow(PolicyNow, facts.loss_date)
    BY DEF AutoPayIsInForce
  <2>1. Gathered /\ Admitted
    BY DEF InForceInv, Decided
  <2>2. found.coverage.confidence \in Nat /\ Config.coverage_conf_min \in Nat
    BY InvestigationAssumption DEF InForceInv, Shape, Coverage, Percent, RoutingConfig
  <2>3. found.grounded => found.coverage.cited
    BY <2>1, <2>2, FloorAssumption DEF Gathered, Admitted, UncitedIsFloored, CitationFloor
  <2> QED BY <2>1, <2>3 DEF Gathered, ActiveIsOnFile, PrescreenIsInForce, Admitted
<1> QED BY <1>1, InForceInit, InForceStep, PTL DEF Spec

-----------------------------------------------------------------------------
(* Denials.                                                                *)

Grounds ==
  \/ ~ OnFile
  \/ PolicyNow.status # "active"
  \/ ~ PolicyNow.carries
  \/ facts.loss_date.kind = "iso" /\ ~ InWindow(PolicyNow, facts.loss_date)

(* Whatever has failed, what the locals say against the claim comes from   *)
(* the policy, as long as no determination has replaced the pre-screen.    *)
Explained ==
  /\ ~ found.active => Grounds
  /\ ~ found.grounded /\ (found.coverage.covered = "no" \/ found.coverage.exclusions) => Grounds

DenialInv ==
  /\ InForceInv
  /\ step # "policy" => Explained
  /\ Decided /\ decided.rule_id = "R-02" => ~ found.active \/ found.coverage.exclusions

LEMMA PrescreenGrounds ==
  ASSUME NEW rec \in PolicyRecord, NEW date \in LossDate,
         Prescreen(rec, date).covered = "no" \/ Prescreen(rec, date).exclusions
  PROVE  \/ rec.status # "active"
         \/ ~ rec.carries
         \/ date.kind = "iso" /\ ~ InWindow(rec, date)
BY DEF Prescreen, PolicyRecord, LossDate, ActiveAt, InWindow

LEMMA DeniedByRoute ==
  ASSUME NEW r, NEW inp, NEW gemini, NEW degraded,
         r \in RoutesOf(inp, Config, gemini, degraded), r.rule_id = "R-02"
  PROVE  FastDeny(inp, Config)
<1> DEFINE d == Route(inp, Config)
<1>1. PICK q \in Tiebreak(d, gemini) : r = CapDegraded(q, degraded)
  BY DEF RoutesOf
<1>2. q.rule_id = "R-02"
  BY <1>1 DEF CapDegraded
<1>3. d.rule_id = "R-02"
  BY <1>1, <1>2 DEF Tiebreak
<1> QED BY <1>3 DEF Route, Decision

LEMMA LookUpExplains == ASSUME InForceInv, LookUpPolicy PROVE Explained'
<1> USE DEF LookUpPolicy
<1>1. CASE facts.policy_number \in DOMAIN Policies
  <2> DEFINE rec == Policies[facts.policy_number]
             cov == Prescreen(rec, facts.loss_date)
  <2>1. rec \in PolicyRecord /\ facts.loss_date \in LossDate
    BY <1>1, PolicyType DEF InForceInv, FactsType
  <2>2. facts' = [facts EXCEPT !.policy_id = facts.policy_number]
    BY <1>1
  <2>3. /\ facts'.policy_number = facts.policy_number
        /\ facts'.loss_date = facts.loss_date
    BY <2>2 DEF InForceInv, FactsType
  <2>4. found' = [NothingFound EXCEPT !.active = rec.status = "active", !.coverage = cov]
    BY <1>1 DEF LooksUp
  <2>5. PolicyNow' = rec
    BY <2>3 DEF PolicyNow
  <2>6. cov.covered = "no" \/ cov.exclusions =>
          \/ rec.status # "active"
          \/ ~ rec.carries
          \/ facts.loss_date.kind = "iso" /\ ~ InWindow(rec, facts.loss_date)
    BY <2>1, PrescreenGrounds
  <2> HIDE DEF rec, cov, LookUpPolicy
  <2>7. found'.coverage = cov /\ (found'.active <=> rec.status = "active")
    BY <2>4 DEF NothingFound
  <2> QED BY <2>3, <2>5, <2>6, <2>7 DEF Explained, Grounds
<1>2. CASE facts.policy_number \notin DOMAIN Policies
  <2>1. ~ OnFile'
    BY <1>2 DEF OnFile
  <2> QED BY <2>1 DEF Explained, Grounds
<1> QED BY <1>1, <1>2

LEMMA DetermineExplains == ASSUME DenialInv, Determine PROVE Explained'
<1>1. Explained /\ Shape /\ facts' = facts
  BY DEF DenialInv, InForceInv, Determine
<1>2. Grounds' <=> Grounds
  BY <1>1 DEF Grounds, OnFile, PolicyNow
<1>3. CASE PrescreenStands
  <2> DEFINE cited == found.chunks /\ found.coverage.covered # "unknown"
             cov   == [found.coverage EXCEPT !.cited = cited]
  <2>1. found' = [found EXCEPT !.coverage = cov]
    BY <1>1, <1>3 DEF PrescreenStands, Shape
  <2>2. cov.covered = found.coverage.covered /\ cov.exclusions = found.coverage.exclusions
    BY <1>1 DEF Shape, Coverage
  <2> HIDE DEF cov
  <2>3. /\ found'.coverage = cov
        /\ found'.active = found.active
        /\ found'.grounded = found.grounded
    BY <1>1, <2>1 DEF Shape
  <2> QED BY <1>1, <1>2, <2>2, <2>3 DEF Explained
<1>4. CASE \E det \in Determinations : Grounding(det)
  <2>1. found'.grounded /\ found'.active = found.active
    BY <1>1, <1>4 DEF Grounding, Shape
  <2> QED BY <1>1, <1>2, <2>1 DEF Explained
<1> QED BY <1>3, <1>4 DEF Determine

LEMMA DenialStep == ASSUME DenialInv, InForceInv', [Next]_vars PROVE DenialInv'
<1>1. CASE LookUpPolicy
  <2>1. ~ Decided'
    BY <1>1 DEF LookUpPolicy, Decided
  <2> QED BY <1>1, <2>1, LookUpExplains DEF DenialInv
<1>2. CASE Determine
  <2>1. ~ Decided'
    BY <1>2 DEF Determine, Decided
  <2> QED BY <1>2, <2>1, DetermineExplains DEF DenialInv
<1>3. CASE Search \/ ScreenNarrative \/ CheckDuplicates
  <2>1. /\ found'.active = found.active
        /\ found'.coverage = found.coverage
        /\ found'.grounded = found.grounded
    BY <1>3 DEF Search, ScreenNarrative, CheckDuplicates, DenialInv, InForceInv, Shape
  <2>2. step # "policy" /\ facts' = facts /\ ~ Decided'
    BY <1>3 DEF Search, ScreenNarrative, CheckDuplicates, Decided
  <2>3. Explained'
    BY <2>1, <2>2 DEF DenialInv, Explained, Grounds, OnFile, PolicyNow
  <2> QED BY <2>2, <2>3 DEF DenialInv
<1>4. CASE RouteClaim
  <2> DEFINE inp == InputOf(extraction, Class, Report)
  <2>1. PICK r \in RoutesOf(inp, Config, settings.gemini, settings.controls_degraded) :
          decided' = r
    BY <1>4 DEF RouteClaim
  <2>2. r.rule_id = "R-02" => FastDeny(inp, Config)
    BY <2>1, DeniedByRoute
  <2>3. /\ inp.policy_active = found.active
        /\ inp.clear_exclusion = found.coverage.exclusions
    BY DEF InputOf, Report
  <2> HIDE DEF inp
  <2>4. step # "policy" /\ UNCHANGED <<facts, found>>
    BY <1>4 DEF RouteClaim
  <2>5. Explained'
    BY <2>4 DEF DenialInv, Explained, Grounds, OnFile, PolicyNow
  <2>6. decided'.rule_id = "R-02" => ~ found'.active \/ found'.coverage.exclusions
    BY <2>1, <2>2, <2>3, <2>4 DEF FastDeny
  <2> QED BY <2>5, <2>6 DEF DenialInv
<1>5. CASE ReceiveDocuments
  BY <1>5 DEF ReceiveDocuments, DenialInv, Decided
<1>6. CASE UNCHANGED vars
  BY <1>6 DEF vars, DenialInv, Explained, Grounds, OnFile, PolicyNow, Decided
<1> QED BY <1>1, <1>2, <1>3, <1>4, <1>5, <1>6 DEF Next

(* No outage denies a claim: a proposal to deny has its grounds in the     *)
(* policy on file, the day of the loss or the determination (investigate,  *)
(* coverage_check, R-02, w2_propose).                                      *)
THEOREM Denials == Spec => []DenialsHaveGrounds
<1>1. Init => DenialInv
  BY InForceInit DEF Init, DenialInv, Decided
<1>2. DenialInv /\ [Next]_vars => DenialInv'
  <2> SUFFICES ASSUME DenialInv, [Next]_vars PROVE DenialInv'
    OBVIOUS
  <2>1. InForceInv'
    BY InForceStep DEF DenialInv
  <2> QED BY <2>1, DenialStep
<1>3. DenialInv => DenialsHaveGrounds
  <2> SUFFICES ASSUME DenialInv, Decided,
                      decided.rule_id = "R-02" \/ found.coverage.covered = "no",
                      ~ found.grounded
               PROVE  Grounds
    BY DEF DenialsHaveGrounds, Grounds
  <2>1. Explained
    BY DEF DenialInv, Decided
  <2>2. CASE decided.rule_id = "R-02"
    BY <2>1, <2>2 DEF DenialInv, Explained
  <2>3. CASE found.coverage.covered = "no"
    BY <2>1, <2>3 DEF Explained
  <2> QED BY <2>2, <2>3
<1> QED BY <1>1, <1>2, <1>3, PTL DEF Spec

-----------------------------------------------------------------------------
(* Duplicates.                                                             *)

LEMMA LargestPercent ==
  ASSUME NEW S, S \subseteq Percent, S # {}
  PROVE  \E m \in S : \A s \in S : s <= m
<1> DEFINE T == {100 - s : s \in S}
<1>1. T \subseteq Nat
  <2>1. \A s \in S : 100 - s \in Nat
    BY DEF Percent
  <2> QED BY <2>1
<1>2. T # {}
  BY DEF Percent
<1> DEFINE R == OpToRel(<, Nat)
<1>3. IsWellFoundedOn(R, Nat)
  BY NatLessThanWellFounded
<1>4. \A x, y \in Nat : x < y => <<x, y>> \in R
  BY DEF OpToRel
<1> HIDE DEF R
<1>5. PICK x \in T : \A y \in T : <<y, x>> \notin R
  <2> HIDE DEF T
  <2> QED BY <1>1, <1>2, <1>3, WFMin
<1>6. PICK m \in S : x = 100 - m
  BY <1>5
<1>7. ASSUME NEW s \in S
      PROVE  s <= m
  <2>1. 100 - s \in T /\ 100 - s \in Nat /\ x \in Nat
    BY <1>1, <1>5
  <2>2. ~ (100 - s < x)
    BY <2>1, <1>4, <1>5
  <2>3. s \in Nat /\ m \in Nat
    BY DEF Percent
  <2> QED BY <2>2, <2>3, <1>6
<1> QED BY <1>7

(* The largest similarity is one of them, and reaches every other.         *)
LEMMA SimilarityReaches ==
  ASSUME NEW p \in history.priors, history \in Histories, p.similarity >= NarrativeDuplicate
  PROVE  Similarity(SemanticMatches) \in Nat /\ Similarity(SemanticMatches) >= NarrativeDuplicate
<1> DEFINE S == {q.similarity : q \in SemanticMatches}
<1>1. \A q \in history.priors : q.similarity \in Percent
  BY InvestigationAssumption DEF Prior
<1>2. p \in SemanticMatches
  BY <1>1 DEF SemanticMatches, SemanticMatch, NarrativeDuplicate, Percent
<1>3. S \subseteq Percent /\ p.similarity \in S
  BY <1>1, <1>2 DEF SemanticMatches
<1>4. \E m \in S : \A s \in S : s <= m
  BY <1>3, LargestPercent
<1>5. \E m \in S : \A q \in SemanticMatches : q.similarity <= m
  BY <1>4
<1>6. Similarity(SemanticMatches) \in S /\ p.similarity <= Similarity(SemanticMatches)
  BY <1>2, <1>5 DEF Similarity
<1>7. Similarity(SemanticMatches) \in Nat /\ p.similarity \in Nat
  BY <1>3, <1>6 DEF Percent
<1> QED BY <1>6, <1>7 DEF NarrativeDuplicate

(* What a check that answered has seen.                                    *)
Screened ==
  /\ \A p \in ExactMatches(facts.loss_date) : found.exact
  /\ \A p \in history.priors :
       p.similarity >= NarrativeDuplicate => found.similarity >= NarrativeDuplicate

Stopped ==
  /\ found.exact => decided.workflow = "W3"
  /\ found.similarity >= NarrativeDuplicate => decided.workflow # "W1"

DuplicateInv ==
  /\ history \in Histories
  /\ Shape
  /\ (step = "route" \/ Decided) /\ "duplicates" \notin lost => Screened
  /\ Decided => Stopped

(* The one signal reaches what straight-through asks for, whatever the     *)
(* others add.                                                             *)
LEMMA NarrativeScores ==
  ASSUME NEW signals \in SUBSET FraudSignal, "DUP_NARRATIVE" \in signals
  PROVE  FraudScore(signals) \in Nat /\ FraudScore(signals) >= SignalWeight["DUP_NARRATIVE"]
<1>1. \A s \in FraudSignal : WeightIf(s, signals) \in Nat
  BY DEF WeightIf, SignalWeight, FraudSignal
<1>2. /\ WeightIf("DUP_NARRATIVE", signals) = SignalWeight["DUP_NARRATIVE"]
      /\ SignalWeight["DUP_NARRATIVE"] = 35
  BY DEF WeightIf, SignalWeight, FraudSignal
<1>3. /\ WeightIf("DUP_EXACT", signals) \in Nat
      /\ WeightIf("NARRATIVE_IMPLAUSIBLE", signals) \in Nat
      /\ WeightIf("RECENT_COVERAGE_INCREASE", signals) \in Nat
      /\ WeightIf("FREQUENT_CLAIMS", signals) \in Nat
      /\ WeightIf("FIRST_SEEN", signals) \in Nat
  BY <1>1 DEF FraudSignal
<1> QED BY <1>2, <1>3 DEF FraudScore

LEMMA HardMatchRoutes ==
  ASSUME NEW r, NEW inp, NEW gemini, NEW degraded,
         r \in RoutesOf(inp, Config, gemini, degraded), inp.duplicate_hard_match
  PROVE  r.workflow = "W3"
<1>1. Route(inp, Config) = [workflow |-> "W3", rule_id |-> "R-00", needs_tiebreak |-> FALSE]
  BY DEF Route, HardFraudSignal, Decision
<1>2. PICK q \in Tiebreak(Route(inp, Config), gemini) : r = CapDegraded(q, degraded)
  BY DEF RoutesOf
<1>3. q = [workflow |-> "W3", rule_id |-> "R-00"]
  BY <1>1, <1>2 DEF Tiebreak
<1> QED BY <1>2, <1>3 DEF CapDegraded

LEMMA RouteStops == ASSUME DuplicateInv, RouteClaim PROVE Stopped'
<1> DEFINE inp == InputOf(extraction, Class, Report)
<1>1. PICK r \in RoutesOf(inp, Config, settings.gemini, settings.controls_degraded) :
        decided' = r
  BY DEF RouteClaim
<1>2. found' = found
  BY DEF RouteClaim
<1>3. inp.duplicate_hard_match = found.exact /\ inp.fraud_score = FraudScore(Signals)
  BY DEF InputOf, Report
<1> HIDE DEF inp
<1>4. found.exact => r.workflow = "W3"
  BY <1>1, <1>3, HardMatchRoutes
<1>5. ASSUME found.similarity >= NarrativeDuplicate
      PROVE  r.workflow # "W1"
  <2>1. Signals \in SUBSET FraudSignal /\ "DUP_NARRATIVE" \in Signals
    BY <1>5 DEF Signals, FraudSignal
  <2>2. /\ FraudScore(Signals) \in Nat
        /\ FraudScore(Signals) >= SignalWeight["DUP_NARRATIVE"]
    BY <2>1, NarrativeScores
  <2>3. SignalWeight["DUP_NARRATIVE"] = 35 /\ Config.fraud_low \in Nat
    BY InvestigationAssumption DEF SignalWeight, FraudSignal, RoutingConfig, Percent
  <2>4. ~ (FraudScore(Signals) < Config.fraud_low)
    BY <2>2, <2>3, WeightAssumption
  <2> QED BY <1>1, <1>3, <2>4, AdmittedByRoute DEF StraightThrough
<1> QED BY <1>1, <1>2, <1>4, <1>5 DEF Stopped

LEMMA DuplicateStep == ASSUME DuplicateInv, Shape', [Next]_vars PROVE DuplicateInv'
<1>1. CASE LookUpPolicy \/ Search \/ Determine \/ ScreenNarrative \/ ReceiveDocuments
  <2>1. history' = history /\ step' # "route" /\ ~ Decided'
    BY <1>1 DEF LookUpPolicy, Search, Determine, ScreenNarrative, ReceiveDocuments, Decided
  <2> QED BY <2>1 DEF DuplicateInv
<1>2. CASE CheckDuplicates
  <2>1. history' = history /\ facts' = facts /\ ~ Decided'
    BY <1>2 DEF CheckDuplicates, Decided
  <2>2. ASSUME "duplicates" \notin lost'
        PROVE  Screened'
    <3>1. found' = [found EXCEPT !.exact      = ExactMatches(facts.loss_date) # {},
                                 !.similarity = Similarity(SemanticMatches)]
      BY <1>2, <2>2 DEF CheckDuplicates
    <3>2. /\ found'.exact = (ExactMatches(facts.loss_date) # {})
          /\ found'.similarity = Similarity(SemanticMatches)
      BY <3>1 DEF DuplicateInv, Shape
    <3>3. ExactMatches(facts.loss_date)' = ExactMatches(facts.loss_date)
      BY <2>1 DEF ExactMatches
    <3>4. \A p \in history.priors :
            p.similarity >= NarrativeDuplicate => found'.similarity >= NarrativeDuplicate
      BY <3>2, SimilarityReaches DEF DuplicateInv
    <3> QED BY <2>1, <3>2, <3>3, <3>4 DEF Screened, NarrativeDuplicate
  <2> QED BY <2>1, <2>2 DEF DuplicateInv
<1>3. CASE RouteClaim
  <2>1. /\ step = "route" /\ Stopped'
        /\ UNCHANGED <<facts, history, found, lost>>
    BY <1>3, RouteStops DEF RouteClaim
  <2> QED BY <2>1 DEF DuplicateInv, Screened, ExactMatches
<1>4. CASE UNCHANGED vars
  BY <1>4 DEF vars, DuplicateInv, Screened, Stopped, ExactMatches, Decided
<1> QED BY <1>1, <1>2, <1>3, <1>4 DEF Next

(* A duplicate the check has seen stops the claim: the same peril within   *)
(* 24 months goes to SIU before any other rule can take the claim, and a   *)
(* narrative told before is never paid straight through, for every config  *)
(* whose fraud_low one signal reaches (duplicate_claim_check,              *)
(* fraud_signal_scan, R-00, R-03).                                         *)
THEOREM DuplicatesStop == Spec => []KnownDuplicatesStop
<1>1. Init => DuplicateInv
  <2>1. Init => Shape
    BY InForceInit DEF InForceInv
  <2> QED BY <2>1 DEF Init, DuplicateInv, Decided
<1>2. InForceInv' /\ DuplicateInv /\ [Next]_vars => DuplicateInv'
  BY DuplicateStep DEF InForceInv
<1>3. InForceInv /\ DuplicateInv => KnownDuplicatesStop
  <2> SUFFICES ASSUME InForceInv, DuplicateInv, Decided, "duplicates" \notin lost,
                      NEW p \in history.priors
               PROVE  /\ p.same_peril /\ facts.loss_date.kind = "iso"
                           /\ facts.loss_date.day - p.day <= 730
                           => decided.workflow = "W3"
                      /\ p.similarity >= 85 => decided.workflow # "W1"
    BY DEF KnownDuplicatesStop
  <2>1. Screened /\ Stopped
    BY DEF DuplicateInv
  <2>2. ASSUME p.same_peril, facts.loss_date.kind = "iso",
               facts.loss_date.day - p.day <= 730
        PROVE  decided.workflow = "W3"
    <3>1. p \in ExactMatches(facts.loss_date)
      BY <2>2 DEF ExactMatches, Within24m, RecentDays
    <3> QED BY <2>1, <3>1 DEF Screened, Stopped
  <2>3. p.similarity >= 85 => decided.workflow # "W1"
    BY <2>1 DEF Screened, Stopped, NarrativeDuplicate
  <2> QED BY <2>2, <2>3
<1> QED BY <1>1, <1>2, <1>3, InForceInit, InForceStep, PTL DEF Spec

-----------------------------------------------------------------------------
(* Type correctness.  Shape and FactsType are known by now; what is left   *)
(* are the rest of the aggregate, the similarity, and that the routing     *)
(* gives a workflow and a rule.                                            *)

LEMMA RequiredFieldsSize ==
  IsFiniteSet(RequiredFields) /\ Cardinality(RequiredFields) = 3
<1>1. IsFiniteSet({"policy_number"}) /\ Cardinality({"policy_number"}) = 1
  BY FS_Singleton
<1>2. IsFiniteSet({"policy_number", "loss_date"})
        /\ Cardinality({"policy_number", "loss_date"}) = 2
  <2>1. {"policy_number", "loss_date"} = {"policy_number"} \cup {"loss_date"}
    OBVIOUS
  <2> QED BY <1>1, <2>1, FS_AddElement
<1>3. RequiredFields = {"policy_number", "loss_date"} \cup {"loss_location"}
  BY DEF RequiredFields
<1> QED BY <1>2, <1>3, FS_AddElement

LEMMA CompletenessType ==
  ASSUME NEW fields
  PROVE  AssessCompleteness(fields) \in Percent
<1> DEFINE n == Cardinality(fields \cap RequiredFields)
<1>1. n \in 0..3
  <2>1. IsFiniteSet(fields \cap RequiredFields) /\ n <= 3
    BY RequiredFieldsSize, FS_Subset
  <2> QED BY <2>1, FS_CardinalityType
<1>2. (100 * n) \div 3 \in 0..100
  <2> HIDE DEF n
  <2> QED BY <1>1
<1> QED BY <1>2, RequiredFieldsSize DEF AssessCompleteness, Percent

LEMMA ExtractedType ==
  ASSUME NEW fields \in SUBSET Field, NEW low \in SUBSET Field
  PROVE  Extracted(fields, low) \in Extraction
BY CompletenessType DEF Extracted, Extraction, MissingRequired, Field

LEMMA WithDocumentsType ==
  ASSUME extraction \in Extraction, NEW fields \in SUBSET Field
  PROVE  WithDocuments(extraction, fields) \in Extraction
BY DEF WithDocuments, Extraction, Percent

LEMMA ScoreType ==
  ASSUME NEW signals \in SUBSET FraudSignal
  PROVE  FraudScore(signals) \in Percent
BY DEF FraudScore, WeightIf, SignalWeight, FraudSignal, Percent

LEMMA RouteType ==
  ASSUME NEW inp, NEW gemini, NEW degraded, NEW r \in RoutesOf(inp, Config, gemini, degraded)
  PROVE  r.workflow \in Workflow /\ r.rule_id \in RuleId
<1> DEFINE d == Route(inp, Config)
<1>1. d.workflow \in Workflow /\ d.rule_id \in RuleId
  BY DEF Route, Decision, Workflow, RuleId
<1>2. PICK q \in Tiebreak(d, gemini) : r = CapDegraded(q, degraded)
  BY DEF RoutesOf
<1>3. q.workflow \in Workflow /\ q.rule_id \in RuleId
  <2> HIDE DEF d
  <2> QED BY <1>1, <1>2 DEF Tiebreak, Workflow, RuleId
<1> QED BY <1>2, <1>3 DEF CapDegraded, Workflow, RuleId

LEMMA SimilarityType ==
  ASSUME history \in Histories
  PROVE  Similarity(SemanticMatches) \in Percent
<1> DEFINE S == {q.similarity : q \in SemanticMatches}
<1>1. \A q \in history.priors : q.similarity \in Percent
  BY InvestigationAssumption DEF Prior
<1>2. CASE SemanticMatches = {}
  BY <1>2 DEF Similarity, Percent
<1>3. CASE SemanticMatches # {}
  <2>1. S \subseteq Percent /\ S # {}
    BY <1>1, <1>3 DEF SemanticMatches
  <2>2. \E m \in S : \A s \in S : s <= m
    BY <2>1, LargestPercent
  <2>3. \E m \in S : \A q \in SemanticMatches : q.similarity <= m
    BY <2>2
  <2>4. Similarity(SemanticMatches) \in S
    BY <1>3, <2>3 DEF Similarity
  <2> QED BY <2>1, <2>4
<1> QED BY <1>2, <1>3

Typed ==
  /\ step \in Step
  /\ extraction \in Extraction
  /\ replans \in 0..MaxReplans
  /\ history \in Histories
  /\ settings \in Settings
  /\ found.similarity \in Percent
  /\ lost \subseteq Control
  /\ decided = Undecided \/ (decided.workflow \in Workflow /\ decided.rule_id \in RuleId)

LEMMA TypedInit == ASSUME Init PROVE Typed
<1>1. PICK n \in Notices :
        extraction = Extracted(FieldsOf(n.policy_number, n.loss_date)
                                 \cup (IF n.located THEN {"loss_location"} ELSE {}), {})
  BY DEF Init
<1>2. FieldsOf(n.policy_number, n.loss_date)
        \cup (IF n.located THEN {"loss_location"} ELSE {}) \in SUBSET Field
  BY DEF FieldsOf, Field, RequiredFields
<1>3. extraction \in Extraction
  BY <1>1, <1>2, ExtractedType
<1> QED BY <1>3, InvestigationAssumption
        DEF Init, Typed, Step, Control, NothingFound, Percent, Undecided

LEMMA TypedStep == ASSUME InForceInv, Typed, [Next]_vars PROVE Typed'
<1>1. CASE LookUpPolicy
  <2>1. found'.similarity = 0
    BY <1>1 DEF LookUpPolicy, LooksUp, NothingFound
  <2> QED BY <1>1, <2>1 DEF LookUpPolicy, Typed, Step, Percent
<1>2. CASE Search
  <2>1. found'.similarity = found.similarity
    BY <1>2 DEF Search, InForceInv, Shape
  <2> QED BY <1>2, <2>1 DEF Search, Typed, Step, Control
<1>3. CASE Determine
  <2>1. found'.similarity = found.similarity
    BY <1>3 DEF Determine, PrescreenStands, Grounding, InForceInv, Shape
  <2> QED BY <1>3, <2>1 DEF Determine, Typed, Step
<1>4. CASE ScreenNarrative
  <2>1. found'.similarity = found.similarity
    BY <1>4 DEF ScreenNarrative, InForceInv, Shape
  <2> QED BY <1>4, <2>1 DEF ScreenNarrative, Typed, Step, Control
<1>5. CASE CheckDuplicates
  <2>1. found'.similarity \in {found.similarity, Similarity(SemanticMatches)}
    BY <1>5 DEF CheckDuplicates, InForceInv, Shape
  <2>2. found'.similarity \in Percent
    BY <2>1, SimilarityType DEF Typed
  <2> QED BY <1>5, <2>2 DEF CheckDuplicates, Typed, Step, Control
<1>6. CASE RouteClaim
  <2>1. decided'.workflow \in Workflow /\ decided'.rule_id \in RuleId
    BY <1>6, RouteType DEF RouteClaim
  <2> QED BY <1>6, <2>1 DEF RouteClaim, Typed, Step
<1>7. CASE ReceiveDocuments
  <2>1. PICK d \in Documents :
          extraction' = WithDocuments(extraction, FieldsOf(d.policy_number, d.loss_date))
    BY <1>7 DEF ReceiveDocuments
  <2>2. FieldsOf(d.policy_number, d.loss_date) \in SUBSET Field
    BY DEF FieldsOf
  <2>3. extraction' \in Extraction
    BY <2>1, <2>2, WithDocumentsType DEF Typed
  <2>4. replans' \in 0..MaxReplans
    BY <1>7, InvestigationAssumption DEF ReceiveDocuments, Typed
  <2> QED BY <1>7, <2>3, <2>4 DEF ReceiveDocuments, Typed, Step
<1>8. CASE UNCHANGED vars
  BY <1>8 DEF vars, Typed
<1> QED BY <1>1, <1>2, <1>3, <1>4, <1>5, <1>6, <1>7, <1>8 DEF Next

(* TypeOK: the node's locals and the aggregate keep their types, and what  *)
(* investigate leaves for route_node is always one of the reports          *)
(* ClaimLifecycle takes from a constant, whatever has failed (investigate).*)
THEOREM TypeCorrect == Spec => []TypeOK
<1>1. Typed /\ InForceInv /\ [Next]_vars => Typed'
  BY TypedStep
<1>2. Typed /\ InForceInv => TypeOK
  <2> SUFFICES ASSUME Typed, InForceInv PROVE TypeOK
    OBVIOUS
  <2>1. found \in Found
    BY DEF Typed, InForceInv, Shape, Found
  <2>2. facts \in Facts
    BY DEF InForceInv, FactsType, Facts
  <2>3. FraudScore(Signals) \in Percent
    <3>1. Signals \in SUBSET FraudSignal
      BY DEF Signals
    <3> QED BY <3>1, ScoreType
  <2>4. Report \in Investigation
    BY <2>1, <2>3, InvestigationAssumption DEF Report, Investigation, Found, Typed, Settings
  <2> QED BY <2>1, <2>2, <2>4 DEF Typed, TypeOK
<1> QED BY <1>1, <1>2, TypedInit, InForceInit, InForceStep, PTL DEF Spec
=============================================================================
