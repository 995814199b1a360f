---------------------------- MODULE Assessment ----------------------------
(***************************************************************************)
(* What a role is judged to be for its owner, without any provider: its    *)
(* fit band, the confidence in it, and the eligibility.  The owner's       *)
(* profile grows while the posting and the target of the search stay; the  *)
(* assessment is computed anew from the approved facts of the moment.      *)
(*                                                                         *)
(* A description is a sequence of clauses; which skills, years and marks   *)
(* of emphasis the patterns find in one is part of it.  A title is the     *)
(* role groups and the saved families that its words show; a place, the    *)
(* modes, countries and saved places.  Years are counted in quarters.      *)
(***************************************************************************)
EXTENDS Integers, Sequences, FiniteSets, SequencesExt, FiniteSetsExt

CONSTANTS
  Postings,    \* postings, as New below shows them
  Targets,     \* families, levels and places of a saved search
  Skills, Statuses, Countries, Modes, Employments,
  Evidence,    \* pieces of evidence
  Shows,       \* the skills each of them shows
  MaxQuarters, \* bound of the experience of the owner
  Unstated

ASSUME PostingsAssumption ==
  \A p \in Postings :
    /\ p.place.countries \subseteq Countries
    /\ IsFiniteSet(DOMAIN p.clauses)
    /\ \A i \in DOMAIN p.clauses :
         /\ IsFiniteSet(p.clauses[i].skills) /\ IsFiniteSet(p.clauses[i].either)
         /\ p.clauses[i].quarters \in Nat
ASSUME QuartersAssumption == MaxQuarters \in Nat

VARIABLES
  posting, target,
  asks,        \* what the description of the posting asks, as it is read
  owner,       \* resume, evidence, quarters, authorized, modes, employments
  judgement    \* what the posting is judged to be

assessmentVars == <<posting, target, asks, owner, judgement>>

Adjacent == {"backend", "software", "platform"}

\* _SPECIALIST_ROLE_GROUPS: all but software.
Specialists(groups) == groups \ {"software"}

(***************************************************************************)
(* _requirement_clauses, _classify_skill_requirements.                     *)
(***************************************************************************)
\* A clause is soft when it says so, or stands under a heading that does and is none itself.
SoftHeadingBefore(clauses, i) ==
  \E h \in 1..i : /\ clauses[h].heading = "soft"
                  /\ \A k \in (h + 1)..i : clauses[k].heading # "hard"

Soft(clauses, i) ==
  \/ clauses[i].soft
  \/ SoftHeadingBefore(clauses, i) /\ clauses[i].heading # "hard"

Asking(clauses) ==
  {i \in DOMAIN clauses : ~ Soft(clauses, i) /\ ~ clauses[i].negated /\ clauses[i].skills # {}}

RequiredSkills(clauses) == UNION {clauses[i].skills \ clauses[i].either : i \in Asking(clauses)}

\* The groups of which one skill is enough, without what is required anyway.
Alternatives(clauses) ==
  {g \in {clauses[i].either \ RequiredSkills(clauses) : i \in Asking(clauses)} : Cardinality(g) >= 2}

\* _experience_requirement: the most years asked firmly, or else wished for.
Years(clauses) ==
  LET asked == {i \in DOMAIN clauses : clauses[i].quarters # 0}
      firm  == {i \in asked : ~ clauses[i].negated
                  /\ (clauses[i].firm \/ ~ (Soft(clauses, i) \/ clauses[i].wished))}
      from  == IF firm # {} THEN firm ELSE asked
  IN  [hard |-> firm # {}, quarters |-> Max({clauses[i].quarters : i \in from} \cup {0})]

Read(clauses) ==
  [required |-> RequiredSkills(clauses), alternatives |-> Alternatives(clauses), years |-> Years(clauses)]

Units == Cardinality(asks.required) + Cardinality(asks.alternatives)

\* _matched_requirement_units.
Matched(skills) == Cardinality(asks.required \cap skills)
                     + Cardinality({g \in asks.alternatives : g \cap skills # {}})

(***************************************************************************)
(* The parts of the assessment.  Each has the points earned of those that  *)
(* can be known, and a verdict.                                            *)
(***************************************************************************)
Part(earned, known, verdict) == [earned |-> earned, known |-> known, verdict |-> verdict]

\* _role_alignment.
RoleAlignment ==
  LET title  == posting.groups
      wanted == UNION {f.groups : f \in target.families}
      apart  == /\ Specialists(title) # {} /\ Specialists(wanted) # {}
                /\ Specialists(title) \cap Specialists(wanted) = {}
                /\ ~ (Specialists(title) \cup Specialists(wanted) \subseteq Adjacent)
  IN  CASE target.families = {} -> Part(0, 0, "uncertain")
        [] target.families # {} /\ apart -> Part(0, 30, "conflict")
        [] OTHER ->
             IF \/ \E f \in target.families : f.name \in posting.named
                \/ title \cap wanted # {}
                \/ title = {"software"} /\ "backend" \in wanted
             THEN Part(30, 30, "fits")
             ELSE IF title \cap Adjacent # {} /\ wanted \cap Adjacent # {}
             THEN Part(20, 30, "adjacent")
             ELSE Part(0, 30, IF title # {} /\ wanted # {} THEN "conflict" ELSE "uncertain")

\* _employment_alignment.
EmploymentAlignment ==
  IF posting.employment = Unstated \/ owner.employments = {} THEN Part(0, 0, "unknown")
  ELSE IF posting.employment \in owner.employments THEN Part(4, 4, "fits")
  ELSE Part(0, 4, "conflict")

TargetCountries == UNION {p.countries : p \in target.places}

\* _location_alignment.
LocationAlignment ==
  LET place == posting.place
      wrong == \/ /\ place.modes # {} /\ owner.modes # {} /\ place.modes \cap owner.modes = {}
               \/ /\ place.countries # {} /\ TargetCountries # {}
                  /\ place.countries \cap TargetCountries = {}
      right == \/ place.countries \cap TargetCountries # {}
               \/ \E p \in target.places : p.name \in place.named
  IN  CASE ~ place.given          -> Part(0, 0, "unknown")
        [] place.given /\ wrong   -> Part(0, 4, "conflict")
        [] place.given /\ ~ wrong -> IF right THEN Part(4, 4, "fits") ELSE Part(0, 0, "unknown")

\* _authorization_check: one country of those offered is enough.
Authorization ==
  LET offered == posting.place.countries
      open    == IF TargetCountries = {} THEN offered ELSE offered \cap TargetCountries
      has(s)  == \E c \in open : owner.authorized[c] \in s
  IN  IF open = {} \/ has({"permitted"}) THEN "fits"
      ELSE IF has({Unstated, "needs_sponsorship"}) THEN "unknown" ELSE "conflict"

\* _seniority_alignment.
SeniorityAlignment ==
  IF posting.level = Unstated \/ target.levels = {} THEN Part(0, 0, "unknown")
  ELSE IF posting.level \in target.levels THEN Part(2, 2, "fits")
  ELSE Part(0, 2, IF posting.level > Max(target.levels) THEN "above" ELSE "below")

\* Experience against the requirement, a quarter of a year is forgiven.
Experience ==
  LET asked == asks.years
  IN  IF asked.quarters = 0 THEN "fits"
      ELSE IF owner.quarters = Unstated THEN IF asked.hard THEN "unknown" ELSE "fits"
      ELSE IF owner.quarters + 1 >= asked.quarters THEN "fits"
      ELSE IF asked.hard THEN "conflict" ELSE "wish"

(***************************************************************************)
(* assess_opportunity.                                                     *)
(***************************************************************************)
Evidenced == UNION {Shows[e] : e \in owner.evidence}

\* Mutant of BackedUnits: the share of the evidence that supports the description.
BackedUnitsShare ==
  [part  |-> Cardinality({e \in owner.evidence : Matched(Shows[e]) > 0}),
   whole |-> Max({1, Cardinality(owner.evidence)})]

\* Up to three of what is required are supported by evidence.
BackedUnits == LET whole == Max({1, Min({3, Units})})
          IN  [part |-> Min({whole, Matched(Evidenced)}), whole |-> whole]

Eligibility(verdicts) ==
  IF "conflict" \in verdicts THEN "likely_ineligible"
  ELSE IF "unknown" \in verdicts THEN "uncertain" ELSE "eligible"

Signals == Units + IF asks.years.quarters # 0 THEN 1 ELSE 0

Sufficient == posting.length >= 200 /\ Signals >= 2

Confidence(known, eligibility) ==
  IF known >= 80 /\ posting.length >= 400 /\ Signals >= 3
  THEN IF eligibility = "uncertain" THEN "medium" ELSE "high"
  ELSE IF known >= 50 /\ Sufficient THEN "medium" ELSE "low"

Judged ==
  LET role        == RoleAlignment
      employment  == EmploymentAlignment
      location    == LocationAlignment
      seniority   == SeniorityAlignment
      units       == Units
      met         == Matched(owner.resume \cup Evidenced)
      skills      == (asks.required \cup UNION asks.alternatives) \cap (owner.resume \cup Evidenced)
      backed      == BackedUnits
      eligibility == Eligibility({employment.verdict, location.verdict, Authorization, Experience})
      known       == role.known + employment.known + location.known + seniority.known
                       + IF units = 0 THEN 0 ELSE 60
      points      == role.earned + employment.earned + location.earned + seniority.earned
      \* normalized_score >= percent, in integers.
      whole       == Max({1, units}) * backed.whole
      earned      == points * whole + 40 * met * backed.whole + 20 * backed.part * Max({1, units})
      scores(percent) == known > 0 /\ 100 * earned >= percent * known * whole
      confidence  == Confidence(known, eligibility)
      strong      == /\ scores(70) /\ known >= 70 /\ eligibility = "eligible"
                     /\ Cardinality(skills) >= 3 /\ Matched(Evidenced) >= 2
      promising   == scores(50) /\ known >= 50 /\ confidence # "low"
      \* What keeps a role from more than a stretch.
      capped      == \/ role.verdict \in {"uncertain", "adjacent"} \/ seniority.verdict = "above"
                     \/ units >= 4 /\ 10 * met < 4 * units
                     \/ Experience = "wish"
      band        == IF role.verdict = "conflict" \/ eligibility = "likely_ineligible" THEN "low"
                     ELSE IF ~ Sufficient THEN "insufficient_data"
                     ELSE IF strong /\ ~ capped THEN "strong"
                     ELSE IF ~ strong /\ promising /\ ~ capped THEN "promising"
                     ELSE IF strong \/ (confidence # "low" /\ scores(30)) THEN "stretch"
                     ELSE IF confidence # "low" THEN "low" ELSE "insufficient_data"
  IN  [band |-> band, confidence |-> confidence, eligibility |-> eligibility]

(***************************************************************************)
(* What the owner adds.                                                    *)
(***************************************************************************)
AssessmentInit ==
  /\ posting \in Postings /\ target \in Targets
  /\ asks = Read(posting.clauses)
  /\ owner = [resume |-> {}, evidence |-> {}, quarters |-> Unstated,
              authorized |-> [c \in Countries |-> Unstated], modes |-> {}, employments |-> {}]
  /\ judgement = Judged

Add ==
  \/ \E s \in Skills \ owner.resume : owner' = [owner EXCEPT !.resume = @ \cup {s}]
  \/ \E e \in Evidence \ owner.evidence : owner' = [owner EXCEPT !.evidence = @ \cup {e}]
  \/ \E q \in 0..MaxQuarters : /\ owner.quarters # Unstated => q > owner.quarters
                               /\ owner' = [owner EXCEPT !.quarters = q]
  \/ \E c \in Countries, s \in Statuses : /\ owner.authorized[c] \notin {s, "permitted"}
                                          /\ owner' = [owner EXCEPT !.authorized[c] = s]
  \/ \E m \in Modes \ owner.modes : owner' = [owner EXCEPT !.modes = @ \cup {m}]
  \/ \E e \in Employments \ owner.employments : owner' = [owner EXCEPT !.employments = @ \cup {e}]

\* Every request judges the role by the approved facts of the moment.
AssessmentNext == Add /\ UNCHANGED <<posting, target, asks>> /\ judgement' = Judged'

AssessmentSpec == AssessmentInit /\ [][AssessmentNext]_assessmentVars

(***************************************************************************)
(* Properties.                                                             *)
(***************************************************************************)
\* The owner shows more skill, more experience, a permission; or prefers more than before,
\* where a preference was stated.
Grown(o, p) ==
  /\ o.quarters = Unstated <=> p.quarters = Unstated
  /\ o.modes = {} <=> p.modes = {}
  /\ o.employments = {} <=> p.employments = {}
  /\ \A c \in Countries : p.authorized[c] \in {o.authorized[c], "permitted"}

BandRank == [strong |-> 4, promising |-> 3, stretch |-> 2, insufficient_data |-> 1, low |-> 0]
EligibilityRank == [eligible |-> 2, uncertain |-> 1, likely_ineligible |-> 0]
ConfidenceRank == [high |-> 2, medium |-> 1, low |-> 0]

\* More skills, evidence, years and permissions never lower what a role is judged to be; only
\* a preference or a fact stated for the first time does (opportunity_assessment.py:299-524).
GrowthNeverHurts ==
  [][Grown(owner, owner') =>
       /\ BandRank[judgement.band'] >= BandRank[judgement.band]
       /\ EligibilityRank[judgement.eligibility'] >= EligibilityRank[judgement.eligibility]
       /\ judgement.eligibility' = judgement.eligibility =>
            ConfidenceRank[judgement.confidence'] >= ConfidenceRank[judgement.confidence]]_assessmentVars
===========================================================================
