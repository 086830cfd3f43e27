---------------------------- MODULE WebhookDelivery ----------------------------
(***************************************************************************)
(* How a recorded change reaches its subscribers, and what the webhook     *)
(* records come to say about it.                                           *)
(*                                                                         *)
(* A firing is one call of _fire_monitor_webhooks: it lists the owner's    *)
(* subscribed webhooks and delivers to them one after another, then to the *)
(* monitor's inline webhook_url.  A delivery reads the webhook record,     *)
(* tries the target up to MAX_DELIVERY_ATTEMPTS times with re-validated    *)
(* redirects, and then reads the record again and puts it back with its    *)
(* counters moved.  Firings of different monitors and workers overlap, and *)
(* webhooks are registered and deleted under them.                         *)
(***************************************************************************)
EXTENDS Naturals, Sequences, FiniteSets

CONSTANTS
  Webhooks,      \* webhook ids of one owner, all subscribed to the event
  Firings,       \* calls of _fire_monitor_webhooks; each happens once
  Inline,        \* the monitor's webhook_url, a target without a record
  HasInline,     \* whether the monitor has one
  MaxAttempts,   \* MAX_DELIVERY_ATTEMPTS
  MaxHops,       \* MAX_REDIRECT_HOPS
  ListLimit,     \* webhooks one listing of the owner's returns at most
  FailingAfter,  \* consecutive failures after which a webhook is "failing"
  Nobody,        \* "no target in hand"
  Serial,        \* TRUE: one firing at a time (one worker, scheduler only)
  MaxAborts      \* bound: firings that die half way

ASSUME DeliveryAssumption ==
  /\ IsFiniteSet(Firings)
  /\ Inline \notin Webhooks /\ Nobody \notin Webhooks \cup {Inline}
  /\ HasInline \in BOOLEAN /\ Serial \in BOOLEAN
  /\ MaxAttempts \in Nat \ {0} /\ MaxHops \in Nat
  /\ FailingAfter \in Nat \ {0} /\ ListLimit \in Nat \ {0} /\ MaxAborts \in Nat

VARIABLES
  hook,      \* stored webhook records; Absent when there is none
  known,     \* webhook ids registered so far; a uuid4 is never reused
  pc,        \* where each firing is, between two awaits
  todo,      \* listed webhooks the firing has not come to yet
  target,    \* whom the firing is delivering to
  attempts,  \* the loop's counter
  hops,      \* redirects followed in this attempt
  copy,      \* the record _record_delivery_outcome read
  answers,   \* how each attempt of this delivery ended, in order
  posts,     \* history: requests this delivery sent
  listed,    \* history: webhooks that were subscribed when the firing listed them
  told,      \* history: targets whose delivery the firing completed
  deleted,   \* history: webhooks whose deletion was confirmed
  done,      \* history: done[w] = completed deliveries <<acknowledged, not>>
  unwritten, \* history: completed deliveries whose firing died unrecorded
  aborts     \* firings that died, for the bound

loop    == <<target, attempts, hops, copy, answers, posts>>
history == <<listed, told, deleted, done, unwritten>>
vars    == <<hook, known, pc, todo, loop, history, aborts>>

Absent  == [status |-> "absent", total |-> 0, ok |-> 0, failed |-> 0, streak |-> 0]
Fresh   == [Absent EXCEPT !.status = "active"]
Targets == Webhooks \cup {Inline}

Exists(w) == hook[w] # Absent

Init ==
  /\ hook = [w \in Webhooks |-> Absent] /\ known = {}
  /\ pc = [f \in Firings |-> "none"]
  /\ todo = [f \in Firings |-> {}]
  /\ target = [f \in Firings |-> Nobody]
  /\ attempts = [f \in Firings |-> 0] /\ hops = [f \in Firings |-> 0]
  /\ copy = [f \in Firings |-> Absent]
  /\ answers = [f \in Firings |-> <<>>] /\ posts = [f \in Firings |-> 0]
  /\ listed = [f \in Firings |-> {}] /\ told = [f \in Firings |-> {}]
  /\ deleted = {}
  /\ done = [t \in Targets |-> [ok |-> 0, failed |-> 0]]
  /\ unwritten = [t \in Targets |-> 0]
  /\ aborts = 0

---------------------------------------------------------------------------
(* API requests.                                                           *)

RegisterWebhook(w) ==
  /\ w \notin known
  /\ hook' = [hook EXCEPT ![w] = Fresh]
  /\ known' = known \cup {w}
  /\ UNCHANGED <<pc, todo, loop, history, aborts>>

DeleteWebhook(w) ==
  /\ Exists(w)
  /\ hook' = [hook EXCEPT ![w] = Absent]
  /\ deleted' = deleted \cup {w}
  /\ UNCHANGED <<known, pc, todo, loop, listed, told, done, unwritten,
                 aborts>>

---------------------------------------------------------------------------
(* _fire_monitor_webhooks.                                                 *)

\* What a listing of these webhooks may return: all of them, or as many as one
\* listing returns; which ones is a matter of their times of creation.
Listings(subscribed) ==
  IF Cardinality(subscribed) <= ListLimit THEN {subscribed}
  ELSE {page \in SUBSET subscribed : Cardinality(page) = ListLimit}

\* list_for_owner.  A record written or deleted between its SCAN and its GETs
\* is one that appears after, or is found gone by, the loop below.
StartFiring(f) ==
  /\ pc[f] = "none"
  /\ Serial => \A g \in Firings : pc[g] \in {"none", "done", "dead"}
  /\ LET subscribed == {w \in Webhooks : Exists(w)} IN
       /\ listed' = [listed EXCEPT ![f] = subscribed]
       /\ \E page \in Listings(subscribed) : todo' = [todo EXCEPT ![f] = page]
  /\ pc' = [pc EXCEPT ![f] = "next"]
  /\ UNCHANGED <<hook, known, loop, told, deleted, done, unwritten,
                 aborts>>

\* The head of a delivery: attempts = 0, then the first pass of its loop.
Deliver(f, t) ==
  /\ target' = [target EXCEPT ![f] = t]
  /\ attempts' = [attempts EXCEPT ![f] = 1]
  /\ hops' = [hops EXCEPT ![f] = 0]
  /\ answers' = [answers EXCEPT ![f] = <<>>]
  /\ posts' = [posts EXCEPT ![f] = 0]
  /\ pc' = [pc EXCEPT ![f] = "post"]
  /\ UNCHANGED copy

\* A slip: WebhookNotFound ends the loop over the subscribers.
NextWebhookOrStop(f, w) ==
  /\ pc[f] = "next" /\ w \in todo[f]
  /\ IF Exists(w)
       THEN todo' = [todo EXCEPT ![f] = @ \ {w}] /\ Deliver(f, w)
       ELSE todo' = [todo EXCEPT ![f] = {}] /\ UNCHANGED <<pc, loop>>
  /\ UNCHANGED <<hook, known, history, aborts>>

\* deliver_webhook reads the record; WebhookNotFound means `continue`.
NextWebhook(f, w) ==
  /\ pc[f] = "next" /\ w \in todo[f]
  /\ todo' = [todo EXCEPT ![f] = @ \ {w}]
  /\ IF Exists(w) THEN Deliver(f, w) ELSE UNCHANGED <<pc, loop>>
  /\ UNCHANGED <<hook, known, history, aborts>>

NextInline(f) ==
  /\ pc[f] = "next" /\ todo[f] = {} /\ HasInline /\ Inline \notin told[f]
  /\ Deliver(f, Inline)
  /\ UNCHANGED <<hook, known, todo, history, aborts>>

EndFiring(f) ==
  /\ pc[f] = "next" /\ todo[f] = {}
  /\ HasInline => Inline \in told[f]
  /\ pc' = [pc EXCEPT ![f] = "done"]
  /\ UNCHANGED <<hook, known, todo, loop, history, aborts>>

---------------------------------------------------------------------------
(* The attempt loop of deliver_webhook and _deliver_inline, with           *)
(* _post_with_redirect_guard inside it.                                    *)

\* What ends an attempt: a 2xx, a 4xx other than 408 and 429, a target or
\* redirect the guard rejects, or anything else (5xx, 408, 429, an exception).
Answers  == {"ok", "refused", "blocked", "retry"}
\* A slip: a 4xx is retried like a 5xx.
TerminalButRefused == {"ok", "blocked"}

Terminal == {"ok", "refused", "blocked"}

\* The loop is left: the outcome is known, and recorded next for a webhook.
LeaveLoop(f, answer) ==
  LET t == target[f] IN
  /\ told' = [told EXCEPT ![f] = @ \cup {t}]
  /\ done' = IF answer = "ok" THEN [done EXCEPT ![t].ok = @ + 1]
             ELSE [done EXCEPT ![t].failed = @ + 1]
  /\ pc' = [pc EXCEPT ![f] = IF t = Inline THEN "next" ELSE "read"]

\* A slip: the loop breaks before it notes how the attempt ended.
EndAttemptUnnoted(f, answer) ==
  IF answer \in Terminal \/ attempts[f] = MaxAttempts
    THEN LeaveLoop(f, answer) /\ UNCHANGED answers
    ELSE /\ answers' = [answers EXCEPT ![f] = Append(@, answer)]
         /\ pc' = [pc EXCEPT ![f] = "backoff"]
         /\ UNCHANGED <<told, done>>

EndAttempt(f, answer) ==
  /\ answers' = [answers EXCEPT ![f] = Append(@, answer)]
  /\ IF answer \in Terminal \/ attempts[f] = MaxAttempts
       THEN LeaveLoop(f, answer)
       ELSE pc' = [pc EXCEPT ![f] = "backoff"] /\ UNCHANGED <<told, done>>

\* validate_webhook_target rejects the URL before anything is sent.
TargetRejected(f) ==
  /\ pc[f] = "post"
  /\ EndAttempt(f, "blocked")
  /\ UNCHANGED <<hook, known, todo, target, attempts, hops, copy, posts, listed,
                 deleted, unwritten, aborts>>

Answered(f, answer) ==
  /\ pc[f] = "post"
  /\ posts' = [posts EXCEPT ![f] = @ + 1]
  /\ EndAttempt(f, answer)
  /\ UNCHANGED <<hook, known, todo, target, attempts, hops, copy, listed,
                 deleted, unwritten, aborts>>

\* A 3xx with a Location: one hop more, or one hop too many.
Redirected(f) ==
  /\ pc[f] = "post"
  /\ posts' = [posts EXCEPT ![f] = @ + 1]
  /\ hops' = [hops EXCEPT ![f] = @ + 1]
  /\ IF hops[f] + 1 > MaxHops
       THEN EndAttempt(f, "blocked")
       ELSE UNCHANGED <<pc, answers, told, done>>
  /\ UNCHANGED <<hook, known, todo, target, attempts, copy, listed, deleted,
                 unwritten, aborts>>

Backoff(f) ==
  /\ pc[f] = "backoff"
  /\ attempts' = [attempts EXCEPT ![f] = @ + 1]
  /\ hops' = [hops EXCEPT ![f] = 0]
  /\ pc' = [pc EXCEPT ![f] = "post"]
  /\ UNCHANGED <<hook, known, todo, target, copy, answers, posts, history, aborts>>

---------------------------------------------------------------------------
(* _record_delivery_outcome: get, then put the copy.                       *)

\* A slip: any answer of the receiver counts as delivered.
DeliveredWhenAnswered(f) == answers[f][Len(answers[f])] \in {"ok", "refused"}

Delivered(f) == answers[f][Len(answers[f])] = "ok"

\* A slip: only successful deliveries are counted in the total.
RecordedIfDelivered(record, delivered) ==
  IF delivered
    THEN [record EXCEPT !.total = @ + 1, !.ok = @ + 1, !.streak = 0,
                        !.status = "active"]
    ELSE [record EXCEPT !.failed = @ + 1, !.streak = @ + 1,
                        !.status = IF record.streak + 1 >= FailingAfter
                                   THEN "failing" ELSE @]

Recorded(record, delivered) ==
  IF delivered
    THEN [record EXCEPT !.total = @ + 1, !.ok = @ + 1, !.streak = 0,
                        !.status = "active"]
    ELSE [record EXCEPT !.total = @ + 1, !.failed = @ + 1, !.streak = @ + 1,
                        !.status = IF record.streak + 1 >= FailingAfter
                                   THEN "failing" ELSE @]

\* A slip: the outcome waits for a record that was deleted.
ReadRecordWaiting(f) ==
  /\ pc[f] = "read" /\ Exists(target[f])
  /\ copy' = [copy EXCEPT ![f] = hook[target[f]]]
  /\ pc' = [pc EXCEPT ![f] = "write"]
  /\ UNCHANGED <<hook, known, todo, target, attempts, hops, answers, posts,
                 history, aborts>>

ReadRecord(f) ==
  /\ pc[f] = "read"
  /\ IF Exists(target[f])
       THEN /\ copy' = [copy EXCEPT ![f] = hook[target[f]]]
            /\ pc' = [pc EXCEPT ![f] = "write"]
       ELSE pc' = [pc EXCEPT ![f] = "next"] /\ UNCHANGED copy
  /\ UNCHANGED <<hook, known, todo, target, attempts, hops, answers, posts,
                 history, aborts>>

WriteRecord(f) ==
  /\ pc[f] = "write"
  /\ hook' = [hook EXCEPT ![target[f]] = Recorded(copy[f], Delivered(f))]
  /\ copy' = [copy EXCEPT ![f] = Absent]
  /\ pc' = [pc EXCEPT ![f] = "next"]
  /\ UNCHANGED <<known, todo, target, attempts, hops, answers, posts, history,
                 aborts>>

\* A Redis error (only WebhookNotFound is caught per webhook), a cancelled
\* scheduler or a dead worker ends the firing where it is.
Abort(f) ==
  /\ pc[f] \notin {"none", "done", "dead"} /\ aborts < MaxAborts
  /\ aborts' = aborts + 1
  /\ unwritten' = IF pc[f] \in {"read", "write"}
                  THEN [unwritten EXCEPT ![target[f]] = @ + 1] ELSE unwritten
  /\ pc' = [pc EXCEPT ![f] = "dead"]
  /\ UNCHANGED <<hook, known, todo, loop, listed, told, deleted, done>>

FiringStep(f) ==
  \/ \E w \in Webhooks : NextWebhook(f, w)
  \/ NextInline(f) \/ EndFiring(f)
  \/ TargetRejected(f) \/ Redirected(f) \/ Backoff(f)
  \/ \E answer \in Answers \ {"blocked"} : Answered(f, answer)
  \/ ReadRecord(f) \/ WriteRecord(f)

Next ==
  \/ \E w \in Webhooks : RegisterWebhook(w) \/ DeleteWebhook(w)
  \/ \E f \in Firings : StartFiring(f) \/ FiringStep(f) \/ Abort(f)

Spec == Init /\ [][Next]_vars

\* Every POST has DELIVERY_TIMEOUT_SECONDS, every sleep ends, Redis calls time
\* out: a firing that has begun keeps taking steps.
FairSpec == Spec /\ \A f \in Firings : WF_vars(FiringStep(f))

---------------------------------------------------------------------------
(* Properties.                                                             *)

HookRecords == [status : {"absent", "active", "failing"}, total : Nat,
                ok : Nat, failed : Nat, streak : Nat]

FiringPC == {"none", "next", "post", "backoff", "read", "write", "done", "dead"}

\* Every variable keeps its type, and a firing past its loop has answers.
TypeOK ==
  /\ hook \in [Webhooks -> HookRecords] /\ known \subseteq Webhooks
  /\ pc \in [Firings -> FiringPC]
  /\ todo \in [Firings -> SUBSET Webhooks]
  /\ target \in [Firings -> Targets \cup {Nobody}]
  /\ attempts \in [Firings -> Nat] /\ hops \in [Firings -> Nat]
  /\ copy \in [Firings -> HookRecords]
  /\ answers \in [Firings -> Seq(Answers)] /\ posts \in [Firings -> Nat]
  /\ \A f \in Firings : pc[f] \in {"read", "write"} =>
       target[f] \in Webhooks /\ answers[f] # <<>>
  /\ listed \in [Firings -> SUBSET Webhooks]
  /\ told \in [Firings -> SUBSET Targets]
  /\ deleted \subseteq Webhooks
  /\ done \in [Targets -> [ok : Nat, failed : Nat]]
  /\ unwritten \in [Targets -> Nat]
  /\ aborts \in Nat

\* What list_webhooks shows is one story and no boast: under any overlap the
\* counters add up and "failing" means exactly a streak of FailingAfter failures;
\* and lost updates only ever hide deliveries, so that no overlap of firings,
\* death or deletion makes a record claim a delivery that did not happen.
HealthIsHonest ==
  \A w \in Webhooks : LET h == hook[w] IN
    /\ h.total = h.ok + h.failed
    /\ h.streak <= h.failed
    /\ h.status = "failing" <=> h.streak >= FailingAfter
    /\ h.ok <= done[w].ok /\ h.failed <= done[w].failed

\* The receiver is left alone once it has answered: an attempt follows only a
\* retryable one, there are at most MaxAttempts, a delivery that was never
\* answered for good has used them all, and retries and redirects together
\* cannot multiply into a storm.
StopsAtAnAnswer ==
  \A f \in Firings :
    /\ Len(answers[f]) <= MaxAttempts
    /\ \A i \in 1 .. Len(answers[f]) - 1 : answers[f][i] = "retry"
    /\ pc[f] = "backoff" => answers[f][Len(answers[f])] = "retry"
    /\ pc[f] \in {"read", "write"} =>
         \/ Len(answers[f]) = MaxAttempts
         \/ answers[f][Len(answers[f])] \in Terminal
    /\ posts[f] <= MaxAttempts * (MaxHops + 1)

\* One receiver's failure or removal does not cost another its event: a firing
\* that ends has delivered, of the webhooks that were subscribed when it listed
\* them, to all that a listing can return and that were not deleted (to all, up
\* to ListLimit of them), and to the inline url.
EverySubscriberIsTold ==
  \A f \in Firings : pc[f] = "done" =>
    /\ \E page \in Listings(listed[f]) : page \subseteq told[f] \cup deleted
    /\ HasInline => Inline \in told[f]

InProgress == \E f \in Firings : pc[f] \notin {"none", "done", "dead"}

\* list_webhooks' "real delivery health" (l.515): when nothing is under way a
\* record counts every completed delivery but those whose firing died.
HealthIsReal ==
  ~InProgress =>
    \A w \in Webhooks : Exists(w) =>
      hook[w].total + unwritten[w] = done[w].ok + done[w].failed

\* A firing ends, whatever its receivers do: the scheduler that awaits it gets
\* to its next monitor.
FiringEnds ==
  \A f \in Firings : pc[f] = "next" ~> pc[f] \in {"done", "dead"}
================================================================================
