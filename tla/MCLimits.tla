------------------------------ MODULE MCLimits ------------------------------
(* The two parts that ration requests and fall back from Redis to their own *)
(* process: the limiter of the public routes and the research scraper.      *)
(* They share nothing, so a behaviour runs one of them and rests the other. *)
EXTENDS PublicRateLimit, ResearchScraper

VARIABLE running

Init ==
  /\ LimitInit /\ ScraperInit
  /\ running \in {"limiter", "scraper"}
  /\ running = "limiter" => answering
Next ==
  \/ running = "limiter" /\ LimitNext /\ UNCHANGED <<running, scraperVars>>
  \/ running = "scraper" /\ ScraperNext /\ UNCHANGED <<running, limitVars>>
Spec == Init /\ [][Next]_<<running, limitVars, scraperVars>>
=============================================================================
