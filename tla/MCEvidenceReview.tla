--------------------------- MODULE MCEvidenceReview ---------------------------
(***************************************************************************)
(* One deal on a small instance; and, in behaviours of its own, the scoring *)
(* of evidence over a few rule sets: weights on both sides of every band    *)
(* and of the cap, and templates with and without each configured           *)
(* recommendation.                                                          *)
(***************************************************************************)
EXTENDS EvidenceReview, SopScoring, TLC

VARIABLE running

Identities == Permutations(Workers) \cup Permutations(Requests) \cup Permutations(Sources)

\* Half points of the document, company and other categories.
Weights == {<<0, 0, 0>>, <<79, 40, 40>>, <<80, 39, 0>>, <<0, 121, 119>>, <<120, 120, 81>>}
mcRules ==
  {[required |-> req, needsName |-> name, redFlagKeys |-> flags,
    weight |-> [c \in Categories |-> CASE c = "documentCompleteness" -> w[1]
                                       [] c = "companyVerification"  -> w[2]
                                       [] OTHER                      -> w[3]],
    recommend |-> [k \in RuleKeys |-> IF k \in rec THEN k ELSE NoRule]] :
     req \in SUBSET DocumentTypes, name \in BOOLEAN, flags \in SUBSET Keys, w \in Weights,
     rec \in {{}, {"proceed"}, RuleKeys}}

\* Names that are absent, given at once, given behind an absent or behind a blank one.
Names == {<<"null", "null", "null">>, <<"given", "null", "null">>, <<"null", "null", "given">>,
          <<"null", "blank", "given">>, <<"blank", "given", "null">>}
mcDeals == {d \in Evidence :
              d.names \in Names /\ d.documents = {} /\ ~d.confirmed /\ ~d.followUp}

MCInit ==
  /\ Init /\ ScoringInit
  /\ running \in {"review", "scoring"}
  /\ running = "review" => template = CHOOSE r \in Rules : TRUE
  /\ running = "review" => evidence = CHOOSE d \in Deals : TRUE
MCNext ==
  \/ running = "review" /\ Next /\ UNCHANGED <<running, scoringVars>>
  \/ running = "scoring" /\ ScoringNext /\ UNCHANGED <<running, vars>>
MCSpec == MCInit /\ [][MCNext]_<<running, vars, scoringVars>>
=============================================================================
