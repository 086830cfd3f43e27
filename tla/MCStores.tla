-------------------------------- MODULE MCStores --------------------------------
(* What the rest of the service keeps between requests, for TLC: cached        *)
(* answers, records, API objects, the accepted keys, HTTP clients, and what    *)
(* the upstream feeds said.  Nothing is shared between these components but    *)
(* Redis, which each models with its own keys, so a behaviour is of one of     *)
(* them, chosen at the start.                                                  *)
EXTENDS ResponseCache, TieredCache, RecordStore, Transcripts, AuthSnapshot,
        AppLifespan, UpstreamFeeds

VARIABLE part   \* the component this behaviour is of

TwoProxies == <<"p1", "p2">>

\* Proxying off, on, and on with the host of YouTube excluded.
ThreeDeployments == {[enabled |-> FALSE, excluded |-> FALSE],
                     [enabled |-> TRUE,  excluded |-> FALSE],
                     [enabled |-> TRUE,  excluded |-> TRUE]}

\* Before a key is revoked, and after.
TwoConfigs == {[on |-> TRUE, keys |-> {"k1"}], [on |-> TRUE, keys |-> {"k2"}]}

\* Each component starts in every way it can, and the others in one.
MCInit ==
  /\ part \in {"cache", "tiers", "records", "transcripts", "auth", "lifespan", "feeds"}
  /\ CacheInit /\ TierInit /\ StoreInit /\ TranscriptInit /\ AuthInit /\ LifeInit
  /\ FeedsInit
  /\ part # "cache" => linked = {}
  /\ part # "transcripts" =>
       ~setting.enabled /\ \A v \in Videos : thread[v].calls = 1
  /\ part # "auth" => environment.keys = {"k1"}
  /\ part # "feeds" => corpus = "noNltk" /\ router = "news"

MCNext ==
  /\ UNCHANGED part
  /\ \/ /\ part = "cache" /\ CacheNext
        /\ UNCHANGED <<tierVars, storeVars, transcriptVars, authVars, lifeVars, feedsVars>>
     \/ /\ part = "tiers" /\ TierNext
        /\ UNCHANGED <<cacheVars, storeVars, transcriptVars, authVars, lifeVars, feedsVars>>
     \/ /\ part = "records" /\ StoreNext
        /\ UNCHANGED <<cacheVars, tierVars, transcriptVars, authVars, lifeVars, feedsVars>>
     \/ /\ part = "transcripts" /\ TranscriptNext
        /\ UNCHANGED <<cacheVars, tierVars, storeVars, authVars, lifeVars, feedsVars>>
     \/ /\ part = "auth" /\ AuthNext
        /\ UNCHANGED <<cacheVars, tierVars, storeVars, transcriptVars, lifeVars, feedsVars>>
     \/ /\ part = "lifespan" /\ LifeNext
        /\ UNCHANGED <<cacheVars, tierVars, storeVars, transcriptVars, authVars, feedsVars>>
     \/ /\ part = "feeds" /\ FeedsNext
        /\ UNCHANGED <<cacheVars, tierVars, storeVars, transcriptVars, authVars, lifeVars>>

storesVars == <<part, cacheVars, tierVars, storeVars, transcriptVars, authVars, lifeVars,
                feedsVars>>

MCSpec == MCInit /\ [][MCNext]_storesVars

\* The variables of every component keep their types.
StoresTypeOK ==
  /\ CacheTypeOK /\ TierTypeOK /\ StoreTypeOK /\ TranscriptTypeOK
  /\ AuthTypeOK /\ LifeTypeOK /\ FeedsTypeOK

\* Whatever a cache answers is bounded in age, whichever store or tier it came
\* from, and however a failed call or another worker's write left the other one.
CachedIsRecent == StaleIsBounded /\ CopiesDie
================================================================================
