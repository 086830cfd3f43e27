--------------------------------- MODULE MCMaps ---------------------------------
(* The Google Maps half of the service for TLC: the job a search runs as, the  *)
(* browsers it takes, the page it reads, and the three families of requests.   *)
(* They meet through calls that each module models on its own side, so a       *)
(* behaviour is of one of them, chosen at the start.                           *)
EXTENDS ScrapeJobs, BrowserPool, ScraperFeed, AreaSearch, MapsSearch, MapsContent

VARIABLE part   \* the component this behaviour is of

\* The default, three results in five minutes, too little time for twenty, a
\* timeout at which the advice is refused, and the greatest.
BudgetsAsked == {<<20, 300>>, <<20, 120>>, <<45, 462>>, <<45, 600>>}

MCInit ==
  /\ part \in {"jobs", "pool", "feed", "area", "search", "content"}
  /\ JobsInit /\ Init /\ FeedInit /\ AreaInit /\ SearchInit /\ ContentInit

MCNext ==
  /\ UNCHANGED part
  /\ \/ /\ part = "jobs" /\ JobsNext
        /\ UNCHANGED <<vars, feedVars, areaVars, searchVars, contentVars>>
     \/ /\ part = "pool" /\ Next
        /\ UNCHANGED <<jobsVars, feedVars, areaVars, searchVars, contentVars>>
     \/ /\ part = "feed" /\ FeedNext
        /\ UNCHANGED <<jobsVars, vars, areaVars, searchVars, contentVars>>
     \/ /\ part = "area" /\ AreaNext
        /\ UNCHANGED <<jobsVars, vars, feedVars, searchVars, contentVars>>
     \/ /\ part = "search" /\ SearchNext
        /\ UNCHANGED <<jobsVars, vars, feedVars, areaVars, contentVars>>
     \/ /\ part = "content" /\ ContentNext
        /\ UNCHANGED <<jobsVars, vars, feedVars, areaVars, searchVars>>

mapsVars == <<part, jobsVars, vars, feedVars, areaVars, searchVars, contentVars>>

\* Each component's own fairness, of the behaviours that are of it.
MCFairness ==
  /\ \A j \in Jobs : /\ WF_jobsVars(part = "jobs" /\ TaskStep(j))
                     /\ WF_jobsVars(part = "jobs" /\ PollStep(j))
  /\ \A s \in Scrapers : WF_vars(part = "pool" /\ ScraperStep(s))
  /\ WF_feedVars(part = "feed" /\ FeedStep)
  /\ WF_areaVars(part = "area" /\ AreaSearchNext)
  /\ WF_areaVars(part = "area" /\ AreaTimeOut)
  /\ WF_areaVars(part = "area" /\ AreaTakeResult)
  /\ WF_areaVars(part = "area" /\ AreaReply)
  /\ \A a \in Askers : /\ SF_contentVars(part = "content" /\ OpenBrowser(a))
                       /\ WF_contentVars(part = "content" /\ ContentStep(a))

MCSpec == MCInit /\ [][MCNext]_mapsVars /\ MCFairness

\* The variables of every component keep their types.
MapsTypeOK ==
  TypeOK /\ JobsTypeOK /\ FeedTypeOK /\ AreaTypeOK /\ SearchTypeOK /\ ContentTypeOK

\* Nobody is kept for ever: a grid, bulk or single search is answered although
\* every browser may hang, a content request although its two pages need the one
\* permit in turn, and the scraper's search ends whatever its feed does.
RequestsAreAnswered ==
  /\ RequestIsAnswered /\ ContentIsAnswered
  /\ (part = "feed") => SearchEnds
================================================================================
