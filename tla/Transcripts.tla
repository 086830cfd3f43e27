------------------------------ MODULE Transcripts ------------------------------
(***************************************************************************)
(* YouTubeTranscriptsService: the retry loop, in as many threads at once   *)
(* as there are requests (asyncio.to_thread), over one dict of API objects *)
(* and one round-robin cursor; and the batch endpoint, which asks for      *)
(* several videos concurrently.                                            *)
(***************************************************************************)
EXTENDS Naturals, Sequences, FiniteSets

CONSTANTS
  Videos,       \* one thread per video asked for
  Proxies,      \* PROXY_URLS, in order
  Direct,       \* cache_key "no_proxy"
  MaxAttempts,  \* MAX_RETRY_ATTEMPTS
  Deployments   \* configurations considered: proxying on, the host excluded

ASSUME TranscriptAssumption ==
  /\ MaxAttempts \in Nat \ {0} /\ Proxies \in Seq(STRING) /\ Direct \notin {Proxies[i] : i \in DOMAIN Proxies}
  /\ Deployments \subseteq [enabled : BOOLEAN, excluded : BOOLEAN]

VARIABLES
  setting,   \* ENABLE_PROXY and NO_PROXY_HOSTS, fixed
  apis,      \* _api_cache: the keys that have an object
  cursor,    \* _proxy_iter: how far the cycle is
  thread,    \* what the thread of each video is at
  batch      \* what the endpoint answered

transcriptVars == <<setting, apis, cursor, thread, batch>>

Keys == {Direct} \cup {Proxies[i] : i \in DOMAIN Proxies}

\* What a call to YouTube ends in; the first line is retried.
Blocked    == {"ipBlocked", "proxyError", "timeout"}
Refused    == {"noTranscript", "disabled", "unavailable", "other"}
Outcomes   == {"ok"} \cup Blocked \cup Refused

\* _handle_youtube_exception; ConnectTimeout counts as a timeout.
StatusOf == [ipBlocked |-> 503, proxyError |-> 502, timeout |-> 504, noTranscript |-> 404,
             disabled |-> 403, unavailable |-> 404, other |-> 500, ok |-> 200]

\* A thread makes one call, or two: the transcript and then its metadata.
NewCall(left) == [at |-> "pick", calls |-> left, attempt |-> 0, key |-> Direct,
                  tried |-> <<>>, status |-> 200]
Threads == [at : {"pick", "lookup", "call", "rotate", "clear", "done"}, calls : 1 .. 2,
            attempt : 0 .. MaxAttempts, key : Keys,
            tried : UNION {[1 .. n -> [key : Keys, said : Outcomes]] : n \in 0 .. MaxAttempts},
            status : {StatusOf[o] : o \in Outcomes}]

TranscriptInit ==
  /\ setting \in Deployments
  /\ apis = {} /\ cursor = 0
  /\ \E calls \in 1 .. 2 : thread = [v \in Videos |-> NewCall(calls)]
  /\ batch = "running"

Is(v, at) == thread[v].at = at

\* The call ends with this status; a call that went well may have one to follow.
EndCall(v, status) ==
  thread' = [thread EXCEPT ![v] =
    IF status = 200 /\ @.calls = 2 THEN NewCall(1)
    ELSE [@ EXCEPT !.at = "done", !.status = status]]

---------------------------------------------------------------------------
\* proxy_for: the first proxy configured, unless the host goes direct.
CurrentKey ==
  IF setting.enabled /\ ~setting.excluded /\ Proxies # <<>> THEN Proxies[1] ELSE Direct

\* _get_youtube_api: the object is created where the dict has none.
PickApi(v) ==
  /\ Is(v, "pick")
  /\ apis' = apis \cup {CurrentKey}
  /\ thread' = [thread EXCEPT ![v].at = "lookup", ![v].key = CurrentKey]
  /\ UNCHANGED <<setting, cursor, batch>>

\* and then read from it: another thread may have cleared the dict, and the
\* KeyError is no error that is retried.
LookupApi(v) ==
  /\ Is(v, "lookup")
  /\ IF thread[v].key \in apis THEN thread' = [thread EXCEPT ![v].at = "call"]
     ELSE EndCall(v, StatusOf.other)
  /\ UNCHANGED <<setting, apis, cursor, batch>>

\* A slip: every failure is worth another attempt.
CallRetryingAll(v) ==
  /\ Is(v, "call")
  /\ \E said \in Outcomes :
       IF said = "ok" THEN EndCall(v, 200)
       ELSE thread' = [thread EXCEPT
              ![v].at = "rotate", ![v].attempt = @ + 1,
              ![v].tried = Append(@, [key |-> thread[v].key, said |-> said])]
  /\ UNCHANGED <<setting, apis, cursor, batch>>

Call(v) ==
  /\ Is(v, "call")
  /\ \E said \in Outcomes :
       IF said \in Blocked
       THEN thread' = [thread EXCEPT
              ![v].at = "rotate", ![v].attempt = @ + 1,
              ![v].tried = Append(@, [key |-> thread[v].key, said |-> said])]
       ELSE EndCall(v, StatusOf[said])
  /\ UNCHANGED <<setting, apis, cursor, batch>>

\* Before another attempt the cursor advances, if there is a proxy to go to;
\* after the last one the last failure is told.
Rotate(v) ==
  /\ Is(v, "rotate")
  /\ LET again == thread[v].attempt < MaxAttempts
         rotates == again /\ setting.enabled /\ ~setting.excluded /\ Proxies # <<>>
     IN /\ cursor' = IF rotates THEN (cursor + 1) % Len(Proxies) ELSE cursor
        /\ IF again THEN thread' = [thread EXCEPT ![v].at = IF rotates THEN "clear" ELSE "pick"]
           ELSE EndCall(v, StatusOf[thread[v].tried[Len(thread[v].tried)].said])
  /\ UNCHANGED <<setting, apis, batch>>

ClearApis(v) ==
  /\ Is(v, "clear")
  /\ apis' = {}
  /\ thread' = [thread EXCEPT ![v].at = "pick"]
  /\ UNCHANGED <<setting, cursor, batch>>

---------------------------------------------------------------------------
\* batch_get_transcripts gathers all; what failed becomes {"error": ...}, which
\* is no TranscriptResponse: the response model refuses the list as a whole.
BatchAnswers ==
  /\ batch = "running"
  /\ \A v \in Videos : Is(v, "done")
  /\ batch' = IF \A v \in Videos : thread[v].status = 200 THEN "answered" ELSE "invalid"
  /\ UNCHANGED <<setting, apis, cursor, thread>>

ThreadStep(v) == PickApi(v) \/ LookupApi(v) \/ Call(v) \/ Rotate(v) \/ ClearApis(v)

TranscriptNext == (\E v \in Videos : ThreadStep(v)) \/ BatchAnswers

TranscriptSpec == TranscriptInit /\ [][TranscriptNext]_transcriptVars

TranscriptTypeOK ==
  /\ setting \in Deployments /\ apis \subseteq Keys
  /\ cursor \in 0 .. Len(Proxies)
  /\ thread \in [Videos -> Threads]
  /\ batch \in {"running", "answered", "invalid"}

\* _execute_with_retry (youtube_transcripts_service.py:184-231): 502, 503 and
\* 504 are told only when every attempt was blocked, and say how the last one
\* was; what YouTube refused is told at once, and was not asked for again.
StatusTellsTheAttempts ==
  \A v \in Videos :
    LET t == thread[v] IN
    /\ \A i \in DOMAIN t.tried : t.tried[i].said \in Blocked
    /\ Is(v, "done") /\ t.status \in {StatusOf[o] : o \in Blocked} =>
         /\ Len(t.tried) = MaxAttempts
         /\ t.status = StatusOf[t.tried[MaxAttempts].said]

\* youtube_transcripts_service.py:207: "with rotation on, the slow hop is usually
\* the proxy, and the next attempt gets another".
NextAttemptUsesAnother ==
  \A v \in Videos :
    LET t == thread[v] IN
    Is(v, "call") /\ t.tried # <<>> /\ Len(Proxies) > 1 /\ setting.enabled /\ ~setting.excluded =>
      t.key # t.tried[Len(t.tried)].key
=============================================================================
