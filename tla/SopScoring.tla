------------------------------ MODULE SopScoring ------------------------------
(***************************************************************************)
(* The deterministic scoring of a deal: evaluateSop of                     *)
(* apps/worker/src/sop-evaluation.ts, from the organization's rules and    *)
(* the evidence of a deal to a score, a rating and a recommendation.       *)
(*                                                                         *)
(* Values are abstracted to what the function tells apart: an answer is    *)
(* "none" (absent, blank, or of a type that proves nothing), "text" or     *)
(* "true"; a name is "null", "blank" or "given".  Weights are in half      *)
(* points, so that the rounding of the score has something to round.       *)
(***************************************************************************)
EXTENDS Integers, FiniteSets

CONSTANTS DocumentTypes,  \* document types, among them "proof_of_funds"
          Keys,           \* answer keys that a rule or a weight can name
          NoRule,         \* a recommendation the template does not configure
          Rules,          \* the rules that templates configure
          Deals           \* the evidence there may be of a deal at first

VARIABLES template,  \* the rules of the deal's template
          evidence   \* what the latest evaluation of the deal has put together

scoringVars == <<template, evidence>>

Categories == {"documentCompleteness", "companyVerification"} \cup Keys
RuleKeys == {"missingProofOfFunds", "missingRequirements", "proceed"}

\* What a template configures, and what is known of a deal.  documents are the types of the
\* documents that are not failed; confirmed and followUp say whether a source of a red flag of
\* the latest research report was so decided by a reviewer.
RuleSets(Weights, Recommendations) ==
  [required : SUBSET DocumentTypes, needsName : BOOLEAN, redFlagKeys : SUBSET Keys,
   weight : [Categories -> Weights], recommend : [RuleKeys -> Recommendations \cup {NoRule}]]
Evidence ==
  [answer : [Keys -> {"none", "text", "true"}], names : [1..3 -> {"null", "blank", "given"}],
   documents : SUBSET DocumentTypes, confirmed : BOOLEAN, followUp : BOOLEAN]

ASSUME ScoringAssumption ==
  /\ IsFiniteSet(Keys)
  /\ \A r \in Rules : r \in RuleSets(Nat, {r.recommend[k] : k \in RuleKeys})
  /\ Deals \subseteq Evidence

-----------------------------------------------------------------------------
MissingDocuments(rules, deal) == rules.required \ deal.documents

\* companyName ?? answers.companyName ?? answers.legalName: the first that is not null decides,
\* also when it is blank.
HasName(deal) ==
  \E i \in 1..3 : deal.names[i] = "given" /\ \A k \in 1..(i - 1) : deal.names[k] = "null"

\* mandatoryFailures and missingRequirements always hold the same entries.
Failures(rules, deal) ==
  MissingDocuments(rules, deal)
    \cup {x \in {"company_name"} : rules.needsName /\ ~HasName(deal)}

\* The synthesis stores its red flags as objects, never as strings, so the comparison of research
\* flags with the rule's keys finds nothing: only answers and confirmed sources raise a flag.
RedFlags(rules, deal) ==
  {k \in rules.redFlagKeys : deal.answer[k] = "true"}
    \cup {x \in {"research_evidence"} : deal.confirmed}

Met(rules, deal, category) ==
  CASE category = "documentCompleteness" -> MissingDocuments(rules, deal) = {}
    [] category = "companyVerification"  -> HasName(deal)
    [] OTHER                             -> deal.answer[category] # "none"

MetCategories(rules, deal) == {c \in Categories : Met(rules, deal, c)}

\* The weight of a set of categories, in half points.
Weight(rules, categories) ==
  LET sum[C \in SUBSET categories] ==
        IF C = {} THEN 0 ELSE LET c == CHOOSE c \in C : TRUE IN rules.weight[c] + sum[C \ {c}]
  IN  sum[categories]

Rounded(halves) == (halves + 1) \div 2
Capped(points) == IF points > 100 THEN 100 ELSE IF points < 0 THEN 0 ELSE points

\* Faulty variant: the score is the share of what was met so far, not of what is configured.
ScoreOfAnswered(rules, deal) ==
  LET counted == MetCategories(rules, deal)
                   \cup {c \in Keys : deal.answer[c] = "text"}
                   \cup {c \in {"documentCompleteness"} : deal.documents # {}}
      total == Weight(rules, counted)
  IN  IF total = 0 THEN 0 ELSE (100 * Weight(rules, MetCategories(rules, deal))) \div total

Score(rules, deal) == Capped(Rounded(Weight(rules, MetCategories(rules, deal))))

\* Faulty variant: the bands are looked at first.
RatingByScoreFirst(rules, deal) ==
  LET score == Score(rules, deal) IN
  IF score >= 80                      THEN "A"
  ELSE IF score >= 60                 THEN "B"
  ELSE IF RedFlags(rules, deal) # {}  THEN "Reject"
  ELSE IF Failures(rules, deal) # {}  THEN "D"
  ELSE IF score >= 40                 THEN "C"
  ELSE "D"

Band(score) ==
  IF score >= 80 THEN "A" ELSE IF score >= 60 THEN "B" ELSE IF score >= 40 THEN "C" ELSE "D"

Rating(rules, deal) ==
  IF RedFlags(rules, deal) # {} THEN "Reject"
  ELSE IF Failures(rules, deal) # {} THEN "D" ELSE Band(Score(rules, deal))

\* The rule for what is missing, if something is and the template has one.
MissingRule(rules, deal) ==
  IF "proof_of_funds" \in MissingDocuments(rules, deal) THEN rules.recommend["missingProofOfFunds"]
  ELSE IF Failures(rules, deal) # {} THEN rules.recommend["missingRequirements"] ELSE NoRule

\* Faulty variant: the configured way forward comes before what mandatory rules found missing.
RecommendationOptimistic(rules, deal) ==
  IF deal.followUp                              THEN "manual_review"
  ELSE IF MissingRule(rules, deal) # NoRule     THEN MissingRule(rules, deal)
  ELSE IF RedFlags(rules, deal) # {}            THEN "manual_review"
  ELSE IF rules.recommend["proceed"] # NoRule   THEN rules.recommend["proceed"]
  ELSE IF Failures(rules, deal) # {}            THEN "request_missing_information"
  ELSE "manual_review"

Recommendation(rules, deal) ==
  IF deal.followUp                              THEN "manual_review"
  ELSE IF MissingRule(rules, deal) # NoRule     THEN MissingRule(rules, deal)
  ELSE IF RedFlags(rules, deal) # {}            THEN "manual_review"
  ELSE IF Failures(rules, deal) # {}            THEN "request_missing_information"
  ELSE IF rules.recommend["proceed"] # NoRule   THEN rules.recommend["proceed"]
  ELSE "manual_review"

-----------------------------------------------------------------------------
(* The calls.  evaluateDealSop collects a deal's evidence each time anew.  From one evaluation to   *)
(* the next, what reviewers decided of its research and which of its documents failed may differ. *)

ScoringInit == template \in Rules /\ evidence \in Deals

\* The sources of the latest report's red flags were decided, again or by another report's.
EvidenceDecided ==
  /\ \E c, f \in BOOLEAN : evidence' = [evidence EXCEPT !.confirmed = c, !.followUp = f]
  /\ UNCHANGED template

\* A document failed, or one that had failed was extracted.
DocumentSettled ==
  /\ \E t \in DocumentTypes :
       \E d \in {evidence.documents \cup {t}, evidence.documents \ {t}} :
         evidence' = [evidence EXCEPT !.documents = d]
  /\ UNCHANGED template

ScoringNext == EvidenceDecided \/ DocumentSettled
ScoringSpec == ScoringInit /\ [][ScoringNext]_scoringVars

-----------------------------------------------------------------------------
(* What the scoring promises of every evaluation. *)

Rank(rating) == CASE rating = "Reject" -> 0 [] rating = "D" -> 1 [] rating = "C" -> 2
                  [] rating = "B" -> 3 [] rating = "A" -> 4

\* The template configures a way forward, with a recommendation that stands for nothing else.
HasWayForward(rules) ==
  rules.recommend["proceed"] \notin
    {NoRule, "manual_review", "request_missing_information"}
      \cup {rules.recommend[k] : k \in RuleKeys \ {"proceed"}}

Proceeds(rules, deal) ==
  HasWayForward(rules) /\ Recommendation(rules, deal) = rules.recommend["proceed"]

\* Of two deals the second scores and rates at least as well, and is recommended to proceed if the
\* first is.
NoWorse(rules, deal, more) ==
  /\ Score(rules, deal) <= Score(rules, more)
  /\ Rank(Rating(rules, deal)) <= Rank(Rating(rules, more))
  /\ Proceeds(rules, deal) => Proceeds(rules, more)

\* README: scoring, rating and recommendation are deterministic functions of the evidence.  A
\* document, an answer in text or a name more never lowers the score or the rating, and never
\* takes a deal that was recommended to proceed out of that recommendation.
MoreEvidenceNeverHurts ==
  LET NoWorseThanNow(more) == NoWorse(template, evidence, more) IN
    /\ \A t \in DocumentTypes :
         NoWorseThanNow([evidence EXCEPT !.documents = evidence.documents \cup {t}])
    /\ \A k \in Keys :
         evidence.answer[k] = "none" => NoWorseThanNow([evidence EXCEPT !.answer[k] = "text"])
    /\ \A i \in 1..3 : NoWorseThanNow([evidence EXCEPT !.names[i] = "given"])

\* sop-evaluation.ts: the configured way forward is recommended only of a deal with everything
\* mandatory in place, no red flag raised or confirmed, and no follow-up open.
ProceedIsEarned ==
  Proceeds(template, evidence) =>
    /\ template.required \subseteq evidence.documents
    /\ template.needsName => HasName(evidence)
    /\ Rating(template, evidence) # "Reject" /\ ~evidence.confirmed /\ ~evidence.followUp

\* docs/portfolio/WALKTHROUGH.md: the reviewer's decisions count whatever else is known of the
\* deal: confirming a source of a red flag rejects the deal, an open follow-up asks for a manual
\* review, and neither of the two touches the score.
EvidenceFeedsBack ==
  /\ evidence.confirmed => Rating(template, evidence) = "Reject"
  /\ evidence.followUp => Recommendation(template, evidence) = "manual_review"
  /\ Score(template, evidence) =
       Score(template, [evidence EXCEPT !.confirmed = FALSE, !.followUp = FALSE])
=============================================================================
