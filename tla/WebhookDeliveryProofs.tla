------------------------- MODULE WebhookDeliveryProofs -------------------------
(***************************************************************************)
(* WebhookDelivery, for every number of webhooks, overlapping firings,     *)
(* attempts, redirects and deaths.                                         *)
(***************************************************************************)
EXTENDS WebhookDelivery, FiniteSetTheorems, SequenceTheorems, TLAPS

(***************************************************************************)
(* Types.  A firing that is posting has a target, which TypeOK alone does  *)
(* not say and the history of what was told needs.                         *)
(***************************************************************************)

HasTarget == \A f \in Firings : pc[f] \in {"post", "backoff"} => target[f] \in Targets

Typed == TypeOK /\ HasTarget

\* The records a delivery reads and writes.
LEMMA EmptyRecords == Absent \in HookRecords /\ Fresh \in HookRecords /\ Fresh # Absent
BY DEF Absent, Fresh, HookRecords

LEMMA RecordedIs ==
  ASSUME NEW r \in HookRecords
  PROVE  LET ok == Recorded(r, TRUE)
             bad == Recorded(r, FALSE)
         IN /\ ok \in HookRecords /\ ok # Absent
            /\ ok.total = r.total + 1 /\ ok.ok = r.ok + 1 /\ ok.failed = r.failed
            /\ ok.streak = 0 /\ ok.status = "active"
            /\ bad \in HookRecords /\ bad # Absent
            /\ bad.total = r.total + 1 /\ bad.ok = r.ok /\ bad.failed = r.failed + 1
            /\ bad.streak = r.streak + 1
            /\ bad.status = IF r.streak + 1 >= FailingAfter THEN "failing" ELSE r.status
<1>1. /\ r.total \in Nat /\ r.ok \in Nat /\ r.failed \in Nat /\ r.streak \in Nat
      /\ r.status \in {"absent", "active", "failing"}
      /\ r = [status |-> r.status, total |-> r.total, ok |-> r.ok,
              failed |-> r.failed, streak |-> r.streak]
  BY DEF HookRecords
<1> DEFINE ok == Recorded(r, TRUE)
           bad == Recorded(r, FALSE)
           status == IF r.streak + 1 >= FailingAfter THEN "failing" ELSE r.status
<1>2. ok = [status |-> "active", total |-> r.total + 1, ok |-> r.ok + 1,
            failed |-> r.failed, streak |-> 0]
  BY <1>1 DEF Recorded
<1>3. bad = [status |-> status, total |-> r.total + 1, ok |-> r.ok,
             failed |-> r.failed + 1, streak |-> r.streak + 1]
  BY <1>1 DEF Recorded
<1>4. status \in {"absent", "active", "failing"}
  BY <1>1
<1> HIDE DEF ok, bad, status
<1>5. ok \in HookRecords /\ bad \in HookRecords
  BY <1>1, <1>2, <1>3, <1>4 DEF HookRecords
<1>6. ok # Absent /\ bad # Absent
  BY <1>1, <1>2, <1>3 DEF Absent
<1>7. /\ ok.total = r.total + 1 /\ ok.ok = r.ok + 1 /\ ok.failed = r.failed
      /\ ok.streak = 0 /\ ok.status = "active"
      /\ bad.total = r.total + 1 /\ bad.ok = r.ok /\ bad.failed = r.failed + 1
      /\ bad.streak = r.streak + 1 /\ bad.status = status
  BY <1>2, <1>3
<1>8. QED BY <1>5, <1>6, <1>7 DEF ok, bad, status

\* What the end of an attempt does, to the firing and to the history.
LEMMA AttemptEnds ==
  ASSUME Typed, NEW f \in Firings, pc[f] = "post", NEW answer \in Answers,
         EndAttempt(f, answer)
  PROVE  /\ answers' \in [Firings -> Seq(Answers)]
         /\ \A g \in Firings \ {f} : answers'[g] = answers[g]
         /\ Len(answers'[f]) = Len(answers[f]) + 1 /\ answers'[f] # <<>>
         /\ \A i \in 1 .. Len(answers[f]) : answers'[f][i] = answers[f][i]
         /\ answers'[f][Len(answers[f]) + 1] = answer
         /\ target[f] \in Targets
         /\ LET over == answer \in Terminal \/ attempts[f] = MaxAttempts IN
            /\ pc' = [pc EXCEPT ![f] = IF ~over THEN "backoff"
                                       ELSE IF target[f] = Inline THEN "next" ELSE "read"]
            /\ told' = [told EXCEPT ![f] = IF over THEN told[f] \cup {target[f]} ELSE told[f]]
            /\ done' \in [Targets -> [ok : Nat, failed : Nat]]
            /\ \A t \in Targets :
                 /\ done'[t].ok = IF over /\ t = target[f] /\ answer = "ok"
                                  THEN done[t].ok + 1 ELSE done[t].ok
                 /\ done'[t].failed = IF over /\ t = target[f] /\ answer # "ok"
                                      THEN done[t].failed + 1 ELSE done[t].failed
<1> USE DEF Typed
<1> DEFINE over == answer \in Terminal \/ attempts[f] = MaxAttempts
           t == target[f]
<1>1. target[f] \in Targets
  BY DEF HasTarget
<1>2. /\ answers[f] \in Seq(Answers) /\ pc \in [Firings -> FiringPC]
      /\ told \in [Firings -> SUBSET Targets]
      /\ done \in [Targets -> [ok : Nat, failed : Nat]]
      /\ answers \in [Firings -> Seq(Answers)]
  BY DEF TypeOK
<1>3. answers' = [answers EXCEPT ![f] = Append(answers[f], answer)]
  BY DEF EndAttempt
<1>4. /\ Append(answers[f], answer) \in Seq(Answers)
      /\ Append(answers[f], answer) # <<>>
      /\ Len(Append(answers[f], answer)) = Len(answers[f]) + 1
      /\ \A i \in 1 .. Len(answers[f]) : Append(answers[f], answer)[i] = answers[f][i]
      /\ Append(answers[f], answer)[Len(answers[f]) + 1] = answer
  BY <1>2, AppendProperties
<1>5. CASE over
  <2>1. LeaveLoop(f, answer)
    BY <1>5 DEF EndAttempt
  <2>2. /\ told' = [told EXCEPT ![f] = told[f] \cup {t}]
        /\ pc' = [pc EXCEPT ![f] = IF t = Inline THEN "next" ELSE "read"]
    BY <2>1 DEF LeaveLoop
  <2>3. done' = IF answer = "ok"
                THEN [done EXCEPT ![t] = [ok |-> done[t].ok + 1, failed |-> done[t].failed]]
                ELSE [done EXCEPT ![t] = [ok |-> done[t].ok, failed |-> done[t].failed + 1]]
    <3>1. done[t] \in [ok : Nat, failed : Nat]
      BY <1>1, <1>2
    <3>2. /\ [done[t] EXCEPT !.ok = done[t].ok + 1] =
                [ok |-> done[t].ok + 1, failed |-> done[t].failed]
          /\ [done[t] EXCEPT !.failed = done[t].failed + 1] =
                [ok |-> done[t].ok, failed |-> done[t].failed + 1]
      BY <3>1
    <3>3. done' = IF answer = "ok"
                  THEN [done EXCEPT ![t] = [done[t] EXCEPT !.ok = done[t].ok + 1]]
                  ELSE [done EXCEPT ![t] = [done[t] EXCEPT !.failed = done[t].failed + 1]]
      BY <2>1, Zenon DEF LeaveLoop
    <3>4. QED BY <3>2, <3>3
  <2>4. done[t].ok + 1 \in Nat /\ done[t].failed + 1 \in Nat /\ done[t].ok \in Nat
        /\ done[t].failed \in Nat
    BY <1>1, <1>2
  <2> HIDE DEF t
  <2>5. /\ done' \in [Targets -> [ok : Nat, failed : Nat]]
        /\ \A u \in Targets :
             /\ done'[u].ok = IF u = t /\ answer = "ok" THEN done[u].ok + 1 ELSE done[u].ok
             /\ done'[u].failed = IF u = t /\ answer # "ok" THEN done[u].failed + 1
                                  ELSE done[u].failed
    BY <1>1, <1>2, <2>3, <2>4
  <2>6. QED BY <1>1, <1>2, <1>3, <1>4, <1>5, <2>2, <2>5 DEF t
<1>6. CASE ~over
  <2>1. pc' = [pc EXCEPT ![f] = "backoff"] /\ UNCHANGED <<told, done>>
    BY <1>6 DEF EndAttempt
  <2>2. QED BY <1>1, <1>2, <1>3, <1>4, <1>6, <2>1
<1>7. QED BY <1>5, <1>6

LEMMA InitTypes == Init => Typed
<1> SUFFICES ASSUME Init PROVE Typed
  OBVIOUS
<1>1. hook \in [Webhooks -> HookRecords] /\ copy \in [Firings -> HookRecords]
  BY EmptyRecords DEF Init
<1>2. answers \in [Firings -> Seq(Answers)]
  BY EmptySeq DEF Init
<1>3. QED BY <1>1, <1>2 DEF Init, Typed, TypeOK, HasTarget, FiringPC

LEMMA RequestTypes ==
  ASSUME Typed, NEW w \in Webhooks, RegisterWebhook(w) \/ DeleteWebhook(w)
  PROVE  Typed'
<1>1. CASE RegisterWebhook(w)
  BY <1>1, EmptyRecords DEF RegisterWebhook, Typed, TypeOK, HasTarget, loop, history
<1>2. CASE DeleteWebhook(w)
  BY <1>2, EmptyRecords DEF DeleteWebhook, Typed, TypeOK, HasTarget, loop
<1>3. QED BY <1>1, <1>2

\* A listing returns subscribed webhooks.
LEMMA ListingIsSubscribed ==
  ASSUME NEW subscribed \in SUBSET Webhooks, NEW page \in Listings(subscribed)
  PROVE  page \in SUBSET Webhooks
BY DEF Listings

\* The head of a delivery has a target and no answer yet.
LEMMA DeliverTypes ==
  ASSUME Typed, NEW f \in Firings, NEW t \in Targets, Deliver(f, t),
         UNCHANGED <<hook, known, history, aborts>>, todo' \in [Firings -> SUBSET Webhooks]
  PROVE  Typed'
BY EmptySeq DEF Deliver, Typed, TypeOK, HasTarget, FiringPC, history

LEMMA AttemptTypes ==
  ASSUME Typed, NEW f \in Firings, pc[f] = "post", NEW answer \in Answers,
         EndAttempt(f, answer), posts' \in [Firings -> Nat], hops' \in [Firings -> Nat],
         UNCHANGED <<hook, known, todo, target, attempts, copy, listed, deleted,
                     unwritten, aborts>>
  PROVE  Typed'
<1>1. /\ answers' \in [Firings -> Seq(Answers)]
      /\ \A g \in Firings \ {f} : answers'[g] = answers[g]
      /\ answers'[f] # <<>> /\ target[f] \in Targets
      /\ \/ pc' = [pc EXCEPT ![f] = "backoff"] \/ pc' = [pc EXCEPT ![f] = "next"]
         \/ pc' = [pc EXCEPT ![f] = "read"] /\ target[f] # Inline
      /\ \/ told' = [told EXCEPT ![f] = told[f] \cup {target[f]}]
         \/ told' = [told EXCEPT ![f] = told[f]]
      /\ done' \in [Targets -> [ok : Nat, failed : Nat]]
  <2> DEFINE over == answer \in Terminal \/ attempts[f] = MaxAttempts
  <2>1. /\ answers' \in [Firings -> Seq(Answers)]
        /\ \A g \in Firings \ {f} : answers'[g] = answers[g]
        /\ answers'[f] # <<>> /\ target[f] \in Targets
        /\ pc' = [pc EXCEPT ![f] = IF ~over THEN "backoff"
                                   ELSE IF target[f] = Inline THEN "next" ELSE "read"]
        /\ told' = [told EXCEPT ![f] = IF over THEN told[f] \cup {target[f]} ELSE told[f]]
        /\ done' \in [Targets -> [ok : Nat, failed : Nat]]
    BY AttemptEnds
  <2> HIDE DEF over
  <2>2. QED BY <2>1
<1>2. pc' \in [Firings -> FiringPC]
  BY <1>1 DEF Typed, TypeOK, FiringPC
<1>3. told' \in [Firings -> SUBSET Targets]
  <2>1. told \in [Firings -> SUBSET Targets]
    BY DEF Typed, TypeOK
  <2>2. told[f] \cup {target[f]} \in SUBSET Targets /\ told[f] \in SUBSET Targets
    BY <1>1, <2>1
  <2>3. QED BY <1>1, <2>1, <2>2
<1>4. \A g \in Firings : pc'[g] \in {"read", "write"} =>
        target'[g] \in Webhooks /\ answers'[g] # <<>>
  BY <1>1 DEF Typed, TypeOK, Targets
<1>5. HasTarget'
  BY <1>1 DEF Typed, TypeOK, HasTarget
<1>6. QED BY <1>1, <1>2, <1>3, <1>4, <1>5 DEF Typed, TypeOK

LEMMA FiringTypes ==
  ASSUME Typed, NEW f \in Firings, StartFiring(f) \/ FiringStep(f) \/ Abort(f)
  PROVE  Typed'
<1>1. CASE StartFiring(f)
  <2>1. todo' \in [Firings -> SUBSET Webhooks]
    <3> DEFINE subscribed == {w \in Webhooks : Exists(w)}
    <3>1. PICK page \in Listings(subscribed) : todo' = [todo EXCEPT ![f] = page]
      BY <1>1 DEF StartFiring
    <3>2. page \in SUBSET Webhooks
      BY <3>1, ListingIsSubscribed
    <3>3. QED BY <3>1, <3>2 DEF Typed, TypeOK
  <2>2. listed' \in [Firings -> SUBSET Webhooks]
    BY <1>1 DEF StartFiring, Typed, TypeOK
  <2>3. QED BY <1>1, <2>1, <2>2 DEF StartFiring, Typed, TypeOK, HasTarget, FiringPC, loop
<1>2. ASSUME NEW w \in Webhooks, NextWebhook(f, w)
      PROVE  Typed'
  <2>1. /\ todo' \in [Firings -> SUBSET Webhooks]
        /\ UNCHANGED <<hook, known, history, aborts>>
    BY <1>2 DEF NextWebhook, Typed, TypeOK
  <2>2. CASE Deliver(f, w)
    BY <2>1, <2>2, DeliverTypes DEF Targets
  <2>3. CASE UNCHANGED <<pc, loop>>
    BY <2>1, <2>3 DEF Typed, TypeOK, HasTarget, loop, history
  <2>4. QED BY <1>2, <2>2, <2>3 DEF NextWebhook
<1>3. CASE NextInline(f)
  <2>1. todo' \in [Firings -> SUBSET Webhooks] /\ Inline \in Targets
    BY <1>3 DEF NextInline, Typed, TypeOK, Targets
  <2>2. QED BY <1>3, <2>1, DeliverTypes DEF NextInline
<1>4. CASE EndFiring(f)
  BY <1>4 DEF EndFiring, Typed, TypeOK, HasTarget, FiringPC, loop, history
<1>5. CASE TargetRejected(f)
  <2>1. posts' \in [Firings -> Nat] /\ hops' \in [Firings -> Nat] /\ "blocked" \in Answers
    BY <1>5 DEF TargetRejected, Typed, TypeOK, Answers
  <2>2. QED BY <1>5, <2>1, AttemptTypes DEF TargetRejected
<1>6. ASSUME NEW answer \in Answers \ {"blocked"}, Answered(f, answer)
      PROVE  Typed'
  <2>1. posts' \in [Firings -> Nat] /\ hops' \in [Firings -> Nat]
    BY <1>6 DEF Answered, Typed, TypeOK
  <2>2. QED BY <1>6, <2>1, AttemptTypes DEF Answered
<1>7. CASE Redirected(f)
  <2>1. posts' \in [Firings -> Nat] /\ hops' \in [Firings -> Nat] /\ "blocked" \in Answers
    BY <1>7 DEF Redirected, Typed, TypeOK, Answers
  <2>2. CASE hops[f] + 1 > MaxHops
    BY <1>7, <2>1, <2>2, AttemptTypes DEF Redirected
  <2>3. CASE ~(hops[f] + 1 > MaxHops)
    BY <1>7, <2>1, <2>3 DEF Redirected, Typed, TypeOK, HasTarget
  <2>4. QED BY <2>2, <2>3
<1>8. CASE Backoff(f)
  BY <1>8 DEF Backoff, Typed, TypeOK, HasTarget, FiringPC, history
<1>9. CASE ReadRecord(f)
  <2>1. target[f] \in Webhooks
    BY <1>9 DEF ReadRecord, Typed, TypeOK
  <2>2. hook[target[f]] \in HookRecords
    BY <2>1 DEF Typed, TypeOK
  <2>3. CASE Exists(target[f])
    BY <1>9, <2>1, <2>2, <2>3 DEF ReadRecord, Typed, TypeOK, HasTarget, FiringPC, history
  <2>4. CASE ~Exists(target[f])
    BY <1>9, <2>4 DEF ReadRecord, Typed, TypeOK, HasTarget, FiringPC, history
  <2>5. QED BY <2>3, <2>4
<1>10. CASE WriteRecord(f)
  <2>1. copy[f] \in HookRecords /\ target[f] \in Webhooks
    BY <1>10 DEF WriteRecord, Typed, TypeOK
  <2>2. Recorded(copy[f], Delivered(f)) \in HookRecords
    <3>1. Delivered(f) \in BOOLEAN
      BY DEF Delivered
    <3>2. QED BY <2>1, <3>1, RecordedIs
  <2>3. QED
    BY <1>10, <2>1, <2>2, EmptyRecords
       DEF WriteRecord, Typed, TypeOK, HasTarget, FiringPC, history
<1>11. CASE Abort(f)
  BY <1>11 DEF Abort, Typed, TypeOK, HasTarget, FiringPC, loop, Targets
<1>12. QED
  BY <1>1, <1>2, <1>3, <1>4, <1>5, <1>6, <1>7, <1>8, <1>9, <1>10, <1>11 DEF FiringStep

LEMMA TypedInvariant == Spec => []Typed
<1>1. Typed /\ [Next]_vars => Typed'
  <2>1. Typed /\ UNCHANGED vars => Typed'
    BY DEF vars, loop, history, Typed, TypeOK, HasTarget
  <2>2. QED BY <2>1, RequestTypes, FiringTypes DEF Next
<1>2. QED BY <1>1, InitTypes, PTL DEF Spec

\* Every variable keeps its type, and a delivery that is recorded has answers.
THEOREM Types == Spec => []TypeOK
<1>1. Typed => TypeOK
  BY DEF Typed
<1>2. QED BY <1>1, TypedInvariant, PTL

\* A firing's step is its own: nothing of another firing moves.
LEMMA OthersStand ==
  ASSUME Typed, NEW f \in Firings, StartFiring(f) \/ FiringStep(f) \/ Abort(f),
         NEW g \in Firings \ {f}
  PROVE  /\ pc'[g] = pc[g] /\ todo'[g] = todo[g] /\ target'[g] = target[g]
         /\ attempts'[g] = attempts[g] /\ hops'[g] = hops[g] /\ copy'[g] = copy[g]
         /\ answers'[g] = answers[g] /\ posts'[g] = posts[g]
         /\ listed'[g] = listed[g] /\ told'[g] = told[g]
<1> USE DEF Typed, TypeOK
<1>1. CASE StartFiring(f)
  BY <1>1 DEF StartFiring, loop
<1>2. ASSUME NEW w \in Webhooks, NextWebhook(f, w)
      PROVE  /\ pc'[g] = pc[g] /\ todo'[g] = todo[g] /\ target'[g] = target[g]
             /\ attempts'[g] = attempts[g] /\ hops'[g] = hops[g] /\ copy'[g] = copy[g]
             /\ answers'[g] = answers[g] /\ posts'[g] = posts[g]
             /\ listed'[g] = listed[g] /\ told'[g] = told[g]
  BY <1>2 DEF NextWebhook, Deliver, loop, history
<1>3. CASE NextInline(f)
  BY <1>3 DEF NextInline, Deliver, history
<1>4. CASE EndFiring(f)
  BY <1>4 DEF EndFiring, loop, history
<1>5. ASSUME NEW answer \in Answers, pc[f] = "post", EndAttempt(f, answer)
      PROVE  pc'[g] = pc[g] /\ answers'[g] = answers[g] /\ told'[g] = told[g]
  BY <1>5, AttemptEnds
<1>6. CASE TargetRejected(f)
  <2>1. "blocked" \in Answers
    BY DEF Answers
  <2>2. QED BY <1>5, <1>6, <2>1 DEF TargetRejected
<1>7. ASSUME NEW answer \in Answers \ {"blocked"}, Answered(f, answer)
      PROVE  /\ pc'[g] = pc[g] /\ todo'[g] = todo[g] /\ target'[g] = target[g]
             /\ attempts'[g] = attempts[g] /\ hops'[g] = hops[g] /\ copy'[g] = copy[g]
             /\ answers'[g] = answers[g] /\ posts'[g] = posts[g]
             /\ listed'[g] = listed[g] /\ told'[g] = told[g]
  BY <1>5, <1>7 DEF Answered
<1>8. CASE Redirected(f)
  <2>1. "blocked" \in Answers
    BY DEF Answers
  <2>2. pc'[g] = pc[g] /\ answers'[g] = answers[g] /\ told'[g] = told[g]
    BY <1>5, <1>8, <2>1 DEF Redirected
  <2>3. QED BY <1>8, <2>2 DEF Redirected
<1>9. CASE Backoff(f)
  BY <1>9 DEF Backoff, history
<1>10. CASE ReadRecord(f)
  BY <1>10 DEF ReadRecord, history
<1>11. CASE WriteRecord(f)
  BY <1>11 DEF WriteRecord, history
<1>12. CASE Abort(f)
  BY <1>12 DEF Abort, loop
<1>13. QED
  BY <1>1, <1>2, <1>3, <1>4, <1>6, <1>7, <1>8, <1>9, <1>10, <1>11, <1>12 DEF FiringStep

---------------------------------------------------------------------------
(* The attempt loop.  The number of answers is the number of attempts that *)
(* ended, and the requests sent are bounded attempt by attempt.            *)

Retrying(f) == LET n == Len(answers[f]) IN
  /\ n <= MaxAttempts
  /\ \A i \in 1 .. n - 1 : answers[f][i] = "retry"
  /\ pc[f] = "post" =>
       /\ n + 1 = attempts[f] /\ attempts[f] <= MaxAttempts /\ hops[f] <= MaxHops
       /\ n > 0 => answers[f][n] = "retry"
       /\ posts[f] <= n * (MaxHops + 1) + hops[f]
  /\ pc[f] = "backoff" =>
       /\ n = attempts[f] /\ attempts[f] < MaxAttempts
       /\ n > 0 /\ answers[f][n] = "retry"
       /\ posts[f] <= n * (MaxHops + 1)
  /\ pc[f] \in {"read", "write"} => n = MaxAttempts \/ answers[f][n] \in Terminal
  /\ posts[f] <= MaxAttempts * (MaxHops + 1)

\* One attempt more costs at most MaxHops + 1 requests more.
LEMMA RequestsPerAttempt ==
  ASSUME NEW n \in Nat, n + 1 <= MaxAttempts
  PROVE  /\ n * (MaxHops + 1) \in Nat /\ MaxAttempts * (MaxHops + 1) \in Nat
         /\ (n + 1) * (MaxHops + 1) = n * (MaxHops + 1) + MaxHops + 1
         /\ (n + 1) * (MaxHops + 1) <= MaxAttempts * (MaxHops + 1)
<1> DEFINE S == MaxHops + 1
           more == MaxAttempts - (n + 1)
<1>1. S \in Nat /\ more \in Nat /\ MaxAttempts = (n + 1) + more
  BY DeliveryAssumption
<1>2. \A a, b, c \in Nat : a * c \in Nat /\ (a + b) * c = a * c + b * c /\ 1 * c = c
  OBVIOUS
<1>3. (n + 1) * S = n * S + S /\ n * S \in Nat
  <2> HIDE DEF S, more
  <2>1. (n + 1) * S = n * S + 1 * S
    BY <1>1, <1>2
  <2>2. QED BY <1>1, <1>2, <2>1
<1>4. MaxAttempts * S = (n + 1) * S + more * S /\ more * S \in Nat /\ (n + 1) * S \in Nat
  BY <1>1, <1>2
<1>5. (n + 1) * S <= MaxAttempts * S
  <2> HIDE DEF S, more
  <2>1. \A x, y \in Nat : x <= x + y
    OBVIOUS
  <2>2. QED BY <1>4, <2>1
<1>6. MaxAttempts * S \in Nat
  BY <1>1, DeliveryAssumption
<1>7. QED BY <1>1, <1>3, <1>5, <1>6, DeliveryAssumption

LEMMA AttemptRetrying ==
  ASSUME Typed, NEW f \in Firings, Retrying(f), pc[f] = "post", NEW answer \in Answers,
         EndAttempt(f, answer), posts'[f] \in Nat, posts'[f] <= posts[f] + 1,
         UNCHANGED attempts
  PROVE  Retrying(f)'
<1> DEFINE n == Len(answers[f])
           most == MaxAttempts * (MaxHops + 1)
           over == answer \in Terminal \/ attempts[f] = MaxAttempts
<1>1. /\ Len(answers'[f]) = n + 1
      /\ \A i \in 1 .. n : answers'[f][i] = answers[f][i]
      /\ answers'[f][n + 1] = answer
      /\ pc' = [pc EXCEPT ![f] = IF ~over THEN "backoff"
                                 ELSE IF target[f] = Inline THEN "next" ELSE "read"]
  BY AttemptEnds
<1>2. n \in Nat /\ posts[f] \in Nat /\ hops[f] \in Nat /\ attempts[f] \in Nat /\ MaxHops \in Nat
  BY LenProperties, DeliveryAssumption DEF Typed, TypeOK
<1>3. /\ n + 1 = attempts[f] /\ attempts[f] <= MaxAttempts /\ hops[f] <= MaxHops
      /\ n > 0 => answers[f][n] = "retry"
      /\ posts[f] <= n * (MaxHops + 1) + hops[f]
      /\ \A i \in 1 .. n - 1 : answers[f][i] = "retry"
  BY DEF Retrying
<1>4. pc'[f] = IF ~over THEN "backoff" ELSE IF target[f] = Inline THEN "next" ELSE "read"
  BY <1>1 DEF Typed, TypeOK
<1>5. /\ n * (MaxHops + 1) \in Nat /\ most \in Nat
      /\ (n + 1) * (MaxHops + 1) = n * (MaxHops + 1) + MaxHops + 1
      /\ (n + 1) * (MaxHops + 1) <= most
  BY <1>2, <1>3, RequestsPerAttempt
<1>6. \A i \in 1 .. n : answers'[f][i] = "retry"
  BY <1>1, <1>2, <1>3
<1>7. answer \notin Terminal => answer = "retry"
  BY DEF Answers, Terminal
<1> DEFINE spent == n * (MaxHops + 1)
           allowed == (n + 1) * (MaxHops + 1)
<1>8. posts'[f] <= allowed /\ posts'[f] <= most
  <2>1. /\ spent \in Nat /\ allowed = spent + MaxHops + 1 /\ allowed <= most
        /\ most \in Nat /\ posts[f] <= spent + hops[f]
    BY <1>3, <1>5
  <2> HIDE DEF spent, allowed, most
  <2>2. QED BY <1>2, <1>3, <2>1
<1> HIDE DEF n, most, spent
<1>9. (n + 1) - 1 = n /\ n + 1 > 0 /\ n + 1 <= MaxAttempts
  BY <1>2, <1>3
<1>10. pc'[f] = "backoff" => n + 1 < MaxAttempts /\ answer = "retry"
  BY <1>2, <1>3, <1>4, <1>7, DeliveryAssumption
<1>11. pc'[f] \in {"read", "write"} => n + 1 = MaxAttempts \/ answer \in Terminal
  BY <1>3, <1>4
<1>12. pc'[f] # "post"
  BY <1>4
<1> HIDE DEF over
<1>13. QED
  BY <1>1, <1>3, <1>6, <1>8, <1>9, <1>10, <1>11, <1>12 DEF Retrying, most

LEMMA RetryingStep ==
  ASSUME Typed, NEW f \in Firings, Retrying(f), StartFiring(f) \/ FiringStep(f) \/ Abort(f)
  PROVE  Retrying(f)'
<1> DEFINE n == Len(answers[f])
           most == MaxAttempts * (MaxHops + 1)
<1>0. /\ n \in Nat /\ posts[f] \in Nat /\ hops[f] \in Nat /\ attempts[f] \in Nat
      /\ MaxHops \in Nat /\ MaxAttempts \in Nat \ {0}
      /\ pc \in [Firings -> FiringPC]
  BY LenProperties, DeliveryAssumption DEF Typed, TypeOK
\* Leaving the loop's variables alone, from anywhere but into the loop.
<1>1. ASSUME UNCHANGED <<attempts, hops, answers, posts>>,
             pc'[f] \in {"next", "done", "dead"} \/ (pc[f] = "read" /\ pc'[f] = "write")
      PROVE  Retrying(f)'
  BY <1>1 DEF Retrying
<1>2. CASE StartFiring(f) \/ EndFiring(f) \/ Abort(f)
  BY <1>0, <1>1, <1>2 DEF StartFiring, EndFiring, Abort, loop
<1>3. CASE ReadRecord(f) \/ WriteRecord(f)
  BY <1>0, <1>1, <1>3 DEF ReadRecord, WriteRecord
<1>4. ASSUME NEW t, Deliver(f, t)
      PROVE  Retrying(f)'
  <2>1. pc'[f] = "post" /\ answers'[f] = <<>> /\ attempts'[f] = 1 /\ hops'[f] = 0 /\ posts'[f] = 0
    BY <1>4 DEF Deliver, Typed, TypeOK
  <2>2. Len(<<>>) = 0 /\ 0 * (MaxHops + 1) = 0 /\ most \in Nat
    BY <1>0
  <2> HIDE DEF most
  <2>3. QED BY <1>0, <2>1, <2>2 DEF Retrying, most
<1>5. ASSUME NEW w \in Webhooks, NextWebhook(f, w)
      PROVE  Retrying(f)'
  <2>1. pc[f] = "next"
    BY <1>5 DEF NextWebhook
  <2>2. Deliver(f, w) \/ UNCHANGED <<pc, loop>>
    BY <1>5 DEF NextWebhook
  <2>3. QED BY <1>1, <1>4, <2>1, <2>2 DEF loop
<1>6. CASE NextInline(f)
  BY <1>4, <1>6 DEF NextInline
<1>7. CASE TargetRejected(f)
  <2>1. "blocked" \in Answers /\ posts'[f] <= posts[f] + 1 /\ posts'[f] \in Nat
    BY <1>0, <1>7 DEF TargetRejected, Answers
  <2>2. QED BY <1>7, <2>1, AttemptRetrying DEF TargetRejected
<1>8. ASSUME NEW answer \in Answers, Answered(f, answer)
      PROVE  Retrying(f)'
  <2>1. posts'[f] <= posts[f] + 1 /\ posts'[f] \in Nat
    BY <1>0, <1>8 DEF Answered, Typed, TypeOK
  <2>2. QED BY <1>8, <2>1, AttemptRetrying DEF Answered
<1>9. CASE Redirected(f)
  <2>1. /\ posts'[f] = posts[f] + 1 /\ hops'[f] = hops[f] + 1 /\ "blocked" \in Answers
        /\ UNCHANGED attempts /\ pc[f] = "post"
    BY <1>9 DEF Redirected, Typed, TypeOK, Answers
  <2>2. CASE hops[f] + 1 > MaxHops
    BY <1>0, <1>9, <2>1, <2>2, AttemptRetrying DEF Redirected
  <2>3. CASE ~(hops[f] + 1 > MaxHops)
    <3>1. UNCHANGED <<pc, answers>>
      BY <1>9, <2>3 DEF Redirected
    <3>2. /\ n + 1 <= MaxAttempts /\ posts[f] <= n * (MaxHops + 1) + hops[f]
      BY <2>1 DEF Retrying
    <3>3. /\ n * (MaxHops + 1) \in Nat /\ most \in Nat
          /\ n * (MaxHops + 1) + MaxHops + 1 <= most
      BY <1>0, <3>2, RequestsPerAttempt
    <3> DEFINE spent == n * (MaxHops + 1)
    <3>4. posts'[f] <= spent + hops'[f] /\ posts'[f] <= most /\ hops'[f] <= MaxHops
      <4>1. /\ spent \in Nat /\ most \in Nat /\ spent + MaxHops + 1 <= most
            /\ posts[f] <= spent + hops[f]
        BY <3>2, <3>3
      <4> HIDE DEF spent, most
      <4>2. QED BY <1>0, <2>1, <2>3, <4>1
    <3> HIDE DEF spent, most
    <3>5. QED BY <2>1, <3>1, <3>4 DEF Retrying, spent, most
  <2>4. QED BY <2>2, <2>3
<1>10. CASE Backoff(f)
  <2>1. /\ pc[f] = "backoff" /\ pc'[f] = "post" /\ attempts'[f] = attempts[f] + 1
        /\ hops'[f] = 0 /\ UNCHANGED <<answers, posts>>
    BY <1>10 DEF Backoff, Typed, TypeOK
  <2>2. /\ n = attempts[f] /\ attempts[f] < MaxAttempts /\ n > 0
        /\ answers[f][n] = "retry" /\ posts[f] <= n * (MaxHops + 1)
    BY <2>1 DEF Retrying
  <2>3. n * (MaxHops + 1) + 0 = n * (MaxHops + 1)
    BY <1>0
  <2>4. attempts'[f] <= MaxAttempts /\ n + 1 = attempts'[f] /\ hops'[f] <= MaxHops
    BY <1>0, <2>1, <2>2
  <2>5. QED BY <2>1, <2>2, <2>3, <2>4 DEF Retrying
<1>11. QED
  BY <1>2, <1>3, <1>5, <1>6, <1>7, <1>8, <1>9, <1>10 DEF FiringStep

RetriesInv == \A f \in Firings : Retrying(f)

LEMMA RetriesInvariant == Spec => []RetriesInv
<1>1. Init => RetriesInv
  <2> SUFFICES ASSUME Init, NEW f \in Firings PROVE Retrying(f)
    BY DEF RetriesInv
  <2>1. pc[f] = "none" /\ answers[f] = <<>> /\ posts[f] = 0
    BY DEF Init
  <2>2. Len(<<>>) = 0 /\ MaxAttempts * (MaxHops + 1) \in Nat
    BY DeliveryAssumption
  <2>3. QED BY <2>1, <2>2, DeliveryAssumption DEF Retrying
<1>2. Typed /\ RetriesInv /\ [Next]_vars => RetriesInv'
  <2> SUFFICES ASSUME Typed, RetriesInv, [Next]_vars, NEW f \in Firings
               PROVE  Retrying(f)'
    BY DEF RetriesInv
  <2>1. ASSUME NEW g \in Firings, StartFiring(g) \/ FiringStep(g) \/ Abort(g)
        PROVE  Retrying(f)'
    <3>1. CASE f = g
      BY <2>1, <3>1, RetryingStep DEF RetriesInv
    <3>2. CASE f # g
      BY <2>1, <3>2, OthersStand DEF RetriesInv, Retrying
    <3>3. QED BY <3>1, <3>2
  <2>2. CASE (\E w \in Webhooks : RegisterWebhook(w) \/ DeleteWebhook(w)) \/ UNCHANGED vars
    <3>1. UNCHANGED <<pc, attempts, hops, answers, posts>>
      BY <2>2 DEF RegisterWebhook, DeleteWebhook, vars, loop
    <3>2. QED BY <3>1 DEF RetriesInv, Retrying
  <2>3. QED BY <2>1, <2>2 DEF Next
<1>3. QED BY <1>1, <1>2, TypedInvariant, PTL DEF Spec

\* A receiver that has answered is left alone, and retries and redirects together
\* stay within MaxAttempts * (MaxHops + 1) requests.
THEOREM LeftAlone == Spec => []StopsAtAnAnswer
<1>1. RetriesInv => StopsAtAnAnswer
  BY DEF RetriesInv, Retrying, StopsAtAnAnswer
<1>2. QED BY <1>1, RetriesInvariant, PTL

---------------------------------------------------------------------------
(* Who is told.  What a firing's listing returned and has neither been     *)
(* told nor lost to a deletion is still to come, or is being delivered.    *)

\* Webhook ids are never reused: one that is known and gone was deleted.
KnownInv ==
  /\ \A w \in Webhooks : /\ Exists(w) => w \in known
                         /\ w \in known /\ ~Exists(w) => w \in deleted
  /\ \A f \in Firings : todo[f] \subseteq known /\ target[f] \in known \cup {Inline, Nobody}

\* What a firing's step may do to the records and to what it has in hand.
LEMMA FiringMoves ==
  ASSUME Typed, NEW f \in Firings, StartFiring(f) \/ FiringStep(f) \/ Abort(f)
  PROVE  /\ known' = known /\ deleted' = deleted
         /\ hook' = hook \/ WriteRecord(f)
         /\ todo'[f] \subseteq todo[f] \/ todo'[f] \subseteq {w \in Webhooks : Exists(w)}
         /\ target'[f] = target[f] \/ target'[f] = Inline \/ target'[f] \in todo[f]
<1> USE DEF Typed, TypeOK
<1>1. CASE StartFiring(f)
  <2>1. \A page \in Listings({w \in Webhooks : Exists(w)}) : page \subseteq {w \in Webhooks : Exists(w)}
    BY DEF Listings
  <2>2. QED BY <1>1, <2>1 DEF StartFiring, loop
<1>2. ASSUME NEW w \in Webhooks, NextWebhook(f, w)
      PROVE  /\ known' = known /\ deleted' = deleted /\ hook' = hook
             /\ todo'[f] \subseteq todo[f] /\ (target'[f] = target[f] \/ target'[f] \in todo[f])
  BY <1>2 DEF NextWebhook, Deliver, loop, history
<1>3. CASE NextInline(f) \/ EndFiring(f)
  BY <1>3 DEF NextInline, EndFiring, Deliver, loop, history
<1>4. ASSUME NEW answer, Answered(f, answer)
      PROVE  UNCHANGED <<known, deleted, hook, todo, target>>
  BY <1>4 DEF Answered
<1>5. CASE TargetRejected(f) \/ Redirected(f) \/ Backoff(f)
  BY <1>5 DEF TargetRejected, Redirected, Backoff, history
<1>6. CASE ReadRecord(f) \/ WriteRecord(f) \/ Abort(f)
  BY <1>6 DEF ReadRecord, WriteRecord, Abort, history, loop
<1>7. QED BY <1>1, <1>2, <1>3, <1>4, <1>5, <1>6 DEF FiringStep

\* A record that is written exists.
LEMMA WrittenExists ==
  ASSUME Typed, NEW f \in Firings, WriteRecord(f)
  PROVE  /\ target[f] \in Webhooks /\ hook'[target[f]] # Absent
         /\ hook'[target[f]] = Recorded(copy[f], Delivered(f))
         /\ \A w \in Webhooks \ {target[f]} : hook'[w] = hook[w]
<1>1. target[f] \in Webhooks /\ copy[f] \in HookRecords
  BY DEF WriteRecord, Typed, TypeOK
<1>2. Recorded(copy[f], Delivered(f)) # Absent
  <2>1. Delivered(f) \in BOOLEAN
    BY DEF Delivered
  <2>2. QED BY <1>1, <2>1, RecordedIs
<1>3. QED BY <1>1, <1>2 DEF WriteRecord, Typed, TypeOK

LEMMA KnownStep ==
  ASSUME Typed, KnownInv, [Next]_vars
  PROVE  KnownInv'
<1>1. ASSUME NEW f \in Firings, StartFiring(f) \/ FiringStep(f) \/ Abort(f)
      PROVE  KnownInv'
  <2>1. known' = known /\ deleted' = deleted
    BY <1>1, FiringMoves
  <2>2. ASSUME NEW g \in Firings
        PROVE  todo'[g] \subseteq known /\ target'[g] \in known \cup {Inline, Nobody}
    <3>1. CASE g = f
      BY <1>1, <3>1, FiringMoves DEF KnownInv
    <3>2. CASE g # f
      BY <1>1, <3>2, OthersStand DEF KnownInv
    <3>3. QED BY <3>1, <3>2
  <2>3. CASE hook' = hook
    BY <2>1, <2>2, <2>3 DEF KnownInv, Exists
  <2>4. CASE WriteRecord(f)
    <3>1. target[f] \in Webhooks /\ target[f] # Inline /\ target[f] # Nobody
      BY <2>4, WrittenExists, DeliveryAssumption
    <3>2. target[f] \in known
      BY <3>1 DEF KnownInv
    <3>3. QED BY <2>1, <2>2, <2>4, <3>2, WrittenExists DEF KnownInv, Exists
  <2>5. QED BY <1>1, <2>3, <2>4, FiringMoves
<1>2. ASSUME NEW w \in Webhooks, RegisterWebhook(w)
      PROVE  KnownInv'
  <2>1. /\ hook' = [hook EXCEPT ![w] = Fresh] /\ known' = known \cup {w}
        /\ UNCHANGED <<todo, target, deleted>>
    BY <1>2 DEF RegisterWebhook, loop, history
  <2>2. QED BY <2>1, EmptyRecords DEF KnownInv, Exists, Typed, TypeOK
<1>3. ASSUME NEW w \in Webhooks, DeleteWebhook(w)
      PROVE  KnownInv'
  <2>1. /\ hook' = [hook EXCEPT ![w] = Absent] /\ deleted' = deleted \cup {w}
        /\ UNCHANGED <<todo, target, known>>
    BY <1>3 DEF DeleteWebhook, loop
  <2>2. QED BY <2>1 DEF KnownInv, Exists, Typed, TypeOK
<1>4. CASE UNCHANGED vars
  BY <1>4 DEF vars, loop, history, KnownInv, Exists
<1>5. QED BY <1>1, <1>2, <1>3, <1>4 DEF Next

LEMMA KnownInvariant == Spec => []KnownInv
<1>1. Init => KnownInv
  BY DEF Init, KnownInv, Exists
<1>2. Typed /\ KnownInv /\ [Next]_vars => KnownInv'
  BY KnownStep
<1>3. QED BY <1>1, <1>2, TypedInvariant, PTL DEF Spec

InLoop(f) == IF pc[f] \in {"post", "backoff"} THEN {target[f]} ELSE {}

Accounted(f) == todo[f] \cup InLoop(f) \cup told[f] \cup deleted

\* A firing's account of its list.
Accounts(f) ==
  /\ pc[f] \notin {"none", "dead"} =>
       \E page \in Listings(listed[f]) : page \subseteq Accounted(f)
  /\ pc[f] = "done" => todo[f] = {} /\ (HasInline => Inline \in told[f])

\* Nothing of the account is lost by a step that does not end the firing.
LEMMA AccountGrows ==
  ASSUME NEW f \in Firings, Accounts(f), pc[f] \notin {"none", "dead"},
         listed'[f] = listed[f], pc'[f] # "done", Accounted(f) \subseteq Accounted(f)'
  PROVE  Accounts(f)'
<1>1. Listings(listed[f])' = Listings(listed[f])
  BY DEF Listings
<1>2. PICK page \in Listings(listed[f]) : page \subseteq Accounted(f)
  BY DEF Accounts
<1>3. page \in Listings(listed[f])' /\ page \subseteq Accounted(f)'
  BY <1>1, <1>2
<1>4. QED BY <1>3 DEF Accounts

LEMMA AttemptAccounts ==
  ASSUME Typed, NEW f \in Firings, Accounts(f), pc[f] = "post", NEW answer \in Answers,
         EndAttempt(f, answer), UNCHANGED <<todo, target, listed, deleted>>
  PROVE  Accounts(f)'
<1> DEFINE over == answer \in Terminal \/ attempts[f] = MaxAttempts
<1>1. /\ pc' = [pc EXCEPT ![f] = IF ~over THEN "backoff"
                                 ELSE IF target[f] = Inline THEN "next" ELSE "read"]
      /\ told' = [told EXCEPT ![f] = IF over THEN told[f] \cup {target[f]} ELSE told[f]]
  BY AttemptEnds
<1> HIDE DEF over
<1>2. /\ pc'[f] = IF ~over THEN "backoff" ELSE IF target[f] = Inline THEN "next" ELSE "read"
      /\ told'[f] = IF over THEN told[f] \cup {target[f]} ELSE told[f]
  BY <1>1 DEF Typed, TypeOK
<1>3. Accounted(f) \subseteq Accounted(f)'
  BY <1>2 DEF Accounted, InLoop
<1>4. QED BY <1>2, <1>3, AccountGrows

LEMMA AccountsStep ==
  ASSUME Typed, KnownInv, NEW f \in Firings, Accounts(f),
         StartFiring(f) \/ FiringStep(f) \/ Abort(f)
  PROVE  Accounts(f)'
<1> USE DEF Typed, TypeOK
<1>1. CASE StartFiring(f)
  <2> DEFINE subscribed == {w \in Webhooks : Exists(w)}
  <2>1. PICK page \in Listings(subscribed) : todo' = [todo EXCEPT ![f] = page]
    BY <1>1 DEF StartFiring
  <2>2. listed'[f] = subscribed /\ pc'[f] = "next"
    BY <1>1 DEF StartFiring
  <2>3. todo'[f] = page
    BY <2>1
  <2>4. page \in Listings(listed[f])'
    BY <2>2 DEF Listings
  <2>5. QED BY <2>2, <2>3, <2>4 DEF Accounts, Accounted
<1>2. ASSUME NEW w \in Webhooks, NextWebhook(f, w)
      PROVE  Accounts(f)'
  <2>1. /\ pc[f] = "next" /\ w \in todo[f] /\ todo'[f] = todo[f] \ {w}
        /\ UNCHANGED <<told, listed, deleted>>
    BY <1>2 DEF NextWebhook, history
  <2>3. CASE Exists(w)
    <3>1. pc'[f] = "post" /\ target'[f] = w
      BY <1>2, <2>3 DEF NextWebhook, Deliver
    <3>2. Accounted(f) \subseteq Accounted(f)'
      BY <2>1, <3>1 DEF Accounted, InLoop
    <3>3. QED BY <2>1, <3>1, <3>2, AccountGrows
  <2>4. CASE ~Exists(w)
    <3>1. pc' = pc
      BY <1>2, <2>4 DEF NextWebhook
    <3>2. w \in deleted
      BY <2>1, <2>4 DEF KnownInv
    <3>3. Accounted(f) \subseteq Accounted(f)'
      BY <2>1, <3>1, <3>2 DEF Accounted, InLoop
    <3>4. QED BY <2>1, <3>1, <3>3, AccountGrows
  <2>5. QED BY <2>3, <2>4
<1>3. CASE NextInline(f)
  <2>1. /\ pc[f] = "next" /\ pc'[f] = "post" /\ todo'[f] = {} /\ todo[f] = {}
        /\ UNCHANGED <<told, listed, deleted>>
    BY <1>3 DEF NextInline, Deliver, history
  <2>2. Accounted(f) \subseteq Accounted(f)'
    BY <2>1 DEF Accounted, InLoop
  <2>3. QED BY <2>1, <2>2, AccountGrows
<1>4. CASE EndFiring(f)
  <2>1. /\ pc[f] = "next" /\ pc'[f] = "done" /\ todo[f] = {} /\ (HasInline => Inline \in told[f])
        /\ UNCHANGED <<todo, told, listed, deleted, target>>
    BY <1>4 DEF EndFiring, loop, history
  <2>2. Listings(listed[f])' = Listings(listed[f])
    BY <2>1 DEF Listings
  <2>3. PICK page \in Listings(listed[f]) : page \subseteq Accounted(f)
    BY <2>1 DEF Accounts
  <2>4. page \subseteq Accounted(f)'
    BY <2>1, <2>3 DEF Accounted, InLoop
  <2>5. QED BY <2>1, <2>2, <2>3, <2>4 DEF Accounts
<1>5. CASE TargetRejected(f)
  <2>1. "blocked" \in Answers
    BY DEF Answers
  <2>2. QED BY <1>5, <2>1, AttemptAccounts DEF TargetRejected
<1>6. ASSUME NEW answer \in Answers, Answered(f, answer)
      PROVE  Accounts(f)'
  BY <1>6, AttemptAccounts DEF Answered
<1>7. CASE Redirected(f)
  <2>1. "blocked" \in Answers
    BY DEF Answers
  <2>2. CASE hops[f] + 1 > MaxHops
    BY <1>7, <2>1, <2>2, AttemptAccounts DEF Redirected
  <2>3. CASE ~(hops[f] + 1 > MaxHops)
    <3>1. /\ pc[f] = "post" /\ UNCHANGED <<pc, todo, target, told, listed, deleted>>
      BY <1>7, <2>3 DEF Redirected
    <3>2. Accounted(f) \subseteq Accounted(f)'
      BY <3>1 DEF Accounted, InLoop
    <3>3. QED BY <3>1, <3>2, AccountGrows
  <2>4. QED BY <2>2, <2>3
<1>8. CASE Backoff(f)
  <2>1. /\ pc[f] = "backoff" /\ pc'[f] = "post" /\ UNCHANGED <<todo, target, told, listed, deleted>>
    BY <1>8 DEF Backoff, history
  <2>2. Accounted(f) \subseteq Accounted(f)'
    BY <2>1 DEF Accounted, InLoop
  <2>3. QED BY <2>1, <2>2, AccountGrows
<1>9. CASE ReadRecord(f) \/ WriteRecord(f)
  <2>1. /\ pc[f] \in {"read", "write"} /\ pc'[f] \in {"next", "write"}
        /\ UNCHANGED <<todo, told, listed, deleted>>
    BY <1>9 DEF ReadRecord, WriteRecord, history
  <2>2. Accounted(f) \subseteq Accounted(f)'
    BY <2>1 DEF Accounted, InLoop
  <2>3. QED BY <2>1, <2>2, AccountGrows
<1>10. CASE Abort(f)
  BY <1>10 DEF Abort, Accounts
<1>11. QED
  BY <1>1, <1>2, <1>3, <1>4, <1>5, <1>6, <1>7, <1>8, <1>9, <1>10 DEF FiringStep

ToldInv == \A f \in Firings : Accounts(f)

LEMMA ToldInvariant == Spec => []ToldInv
<1>1. Init => ToldInv
  BY DEF Init, ToldInv, Accounts
<1>2. Typed /\ KnownInv /\ ToldInv /\ [Next]_vars => ToldInv'
  <2> SUFFICES ASSUME Typed, KnownInv, ToldInv, [Next]_vars, NEW f \in Firings
               PROVE  Accounts(f)'
    BY DEF ToldInv
  <2>1. ASSUME NEW g \in Firings, StartFiring(g) \/ FiringStep(g) \/ Abort(g)
        PROVE  Accounts(f)'
    <3>1. CASE f = g
      BY <2>1, <3>1, AccountsStep DEF ToldInv
    <3>2. CASE f # g
      <4>1. deleted' = deleted
        BY <2>1, FiringMoves
      <4>2. Listings(listed[f])' = Listings(listed[f]) /\ Accounted(f)' = Accounted(f)
        BY <2>1, <3>2, <4>1, OthersStand DEF Listings, Accounted, InLoop
      <4>3. QED BY <2>1, <3>2, <4>2, OthersStand DEF ToldInv, Accounts
    <3>3. QED BY <3>1, <3>2
  <2>2. CASE (\E w \in Webhooks : RegisterWebhook(w) \/ DeleteWebhook(w)) \/ UNCHANGED vars
    <3>1. UNCHANGED <<pc, todo, target, listed, told>> /\ deleted \subseteq deleted'
      BY <2>2 DEF RegisterWebhook, DeleteWebhook, vars, loop, history
    <3>2. /\ Listings(listed[f])' = Listings(listed[f]) /\ Accounted(f) \subseteq Accounted(f)'
          /\ Accounts(f) /\ UNCHANGED <<pc[f], todo[f], told[f]>>
      BY <3>1 DEF Listings, Accounted, InLoop, ToldInv
    <3>3. ASSUME pc[f] \notin {"none", "dead"}
          PROVE  \E page \in Listings(listed[f])' : page \subseteq Accounted(f)'
      BY <3>2, <3>3 DEF Accounts
    <3>4. QED BY <3>2, <3>3 DEF Accounts
  <2>3. QED BY <2>1, <2>2 DEF Next
<1>3. QED BY <1>1, <1>2, TypedInvariant, KnownInvariant, PTL DEF Spec

\* A firing that ends has told every webhook its listing returned that was not
\* deleted, all that were subscribed up to ListLimit of them, and the inline url,
\* whatever any of them answered.
THEOREM SubscribersTold == Spec => []EverySubscriberIsTold
<1>1. ASSUME ToldInv, NEW f \in Firings, pc[f] = "done"
      PROVE  /\ \E page \in Listings(listed[f]) : page \subseteq told[f] \cup deleted
             /\ HasInline => Inline \in told[f]
  <2>1. Accounts(f)
    BY <1>1 DEF ToldInv
  <2>2. Accounted(f) = told[f] \cup deleted
    BY <1>1, <2>1 DEF Accounts, Accounted, InLoop
  <2>3. QED BY <1>1, <2>1, <2>2 DEF Accounts
<1>2. ToldInv => EverySubscriberIsTold
  BY <1>1 DEF EverySubscriberIsTold
<1>3. QED BY <1>2, ToldInvariant, PTL

---------------------------------------------------------------------------
(* What a record may claim.  A delivery counts as done before it is        *)
(* recorded, and several firings may hold copies of one record meanwhile:  *)
(* every record and every copy leaves room for all deliveries that are     *)
(* done and not recorded yet.                                              *)

Recording(f, w) == pc[f] \in {"read", "write"} /\ target[f] = w

PendingOk     == [w \in Webhooks |-> {f \in Firings : Recording(f, w) /\ Delivered(f)}]
PendingFailed == [w \in Webhooks |-> {f \in Firings : Recording(f, w) /\ ~Delivered(f)}]

LEMMA PendingIsFinite ==
  \A w \in Webhooks :
         /\ IsFiniteSet(PendingOk[w]) /\ Cardinality(PendingOk[w]) \in Nat
         /\ IsFiniteSet(PendingFailed[w]) /\ Cardinality(PendingFailed[w]) \in Nat
         /\ IsFiniteSet(PendingOk'[w]) /\ Cardinality(PendingOk'[w]) \in Nat
         /\ IsFiniteSet(PendingFailed'[w]) /\ Cardinality(PendingFailed'[w]) \in Nat
<1> TAKE w \in Webhooks
<1>1. /\ PendingOk[w] \in SUBSET Firings /\ PendingFailed[w] \in SUBSET Firings
      /\ PendingOk'[w] \in SUBSET Firings /\ PendingFailed'[w] \in SUBSET Firings
  BY DEF PendingOk, PendingFailed
<1>2. QED BY <1>1, DeliveryAssumption, FS_Subset, FS_CardinalityType

\* The end of a delivery to a webhook is one more done and one more pending.
LEMMA AttemptPends ==
  ASSUME Typed, NEW f \in Firings, pc[f] = "post", NEW answer \in Answers,
         EndAttempt(f, answer), target' = target, NEW w \in Webhooks
  PROVE  /\ done[w].ok + Cardinality(PendingOk'[w]) = done'[w].ok + Cardinality(PendingOk[w])
         /\ done[w].failed + Cardinality(PendingFailed'[w])
              = done'[w].failed + Cardinality(PendingFailed[w])
<1> DEFINE over == answer \in Terminal \/ attempts[f] = MaxAttempts
           ends == over /\ w = target[f]
<1>1. /\ answers' \in [Firings -> Seq(Answers)]
      /\ \A g \in Firings \ {f} : answers'[g] = answers[g]
      /\ Len(answers'[f]) = Len(answers[f]) + 1
      /\ answers'[f][Len(answers[f]) + 1] = answer
      /\ pc' = [pc EXCEPT ![f] = IF ~over THEN "backoff"
                                 ELSE IF target[f] = Inline THEN "next" ELSE "read"]
      /\ done'[w].ok = IF ends /\ answer = "ok" THEN done[w].ok + 1 ELSE done[w].ok
      /\ done'[w].failed = IF ends /\ answer # "ok" THEN done[w].failed + 1 ELSE done[w].failed
  <2>1. w \in Targets
    BY DEF Targets
  <2>2. QED BY <2>1, AttemptEnds
<1> HIDE DEF over
<1>2. /\ \A g \in Firings \ {f} : /\ Recording(g, w)' <=> Recording(g, w)
                                  /\ Delivered(g)' <=> Delivered(g)
      /\ ~Recording(f, w) /\ (Recording(f, w)' <=> ends) /\ (Delivered(f)' <=> answer = "ok")
  BY <1>1, DeliveryAssumption DEF Recording, Delivered, Typed, TypeOK
<1>3. /\ done[w].ok \in Nat /\ done[w].failed \in Nat
  BY DEF Typed, TypeOK, Targets
<1>4. CASE ends /\ answer = "ok"
  <2>1. /\ PendingOk'[w] = PendingOk[w] \cup {f} /\ f \notin PendingOk[w]
        /\ PendingFailed'[w] = PendingFailed[w]
    BY <1>2, <1>4 DEF PendingOk, PendingFailed
  <2>2. Cardinality(PendingOk'[w]) = Cardinality(PendingOk[w]) + 1
    BY <2>1, PendingIsFinite, FS_AddElement
  <2>3. QED BY <1>1, <1>3, <1>4, <2>1, <2>2, PendingIsFinite
<1>5. CASE ends /\ answer # "ok"
  <2>1. /\ PendingFailed'[w] = PendingFailed[w] \cup {f} /\ f \notin PendingFailed[w]
        /\ PendingOk'[w] = PendingOk[w]
    BY <1>2, <1>5 DEF PendingOk, PendingFailed
  <2>2. Cardinality(PendingFailed'[w]) = Cardinality(PendingFailed[w]) + 1
    BY <2>1, PendingIsFinite, FS_AddElement
  <2>3. QED BY <1>1, <1>3, <1>5, <2>1, <2>2, PendingIsFinite
<1>6. CASE ~ends
  <2>1. PendingFailed'[w] = PendingFailed[w] /\ PendingOk'[w] = PendingOk[w]
    BY <1>2, <1>6 DEF PendingOk, PendingFailed
  <2>2. QED BY <1>1, <1>6, <2>1
<1>7. QED BY <1>4, <1>5, <1>6

\* A step leaves at least the room there was for pending deliveries.
Room(w) ==
  /\ done[w].ok + Cardinality(PendingOk'[w]) <= done'[w].ok + Cardinality(PendingOk[w])
  /\ done[w].failed + Cardinality(PendingFailed'[w])
       <= done'[w].failed + Cardinality(PendingFailed[w])

\* A firing that records nothing new leaves at least the room there was.
LEMMA RoomStays ==
  ASSUME Typed, NEW f \in Firings, NEW w \in Webhooks, done' = done,
         \A g \in Firings \ {f} : (Recording(g, w)' <=> Recording(g, w)) /\ answers'[g] = answers[g],
         Recording(f, w)' => Recording(f, w) /\ answers'[f] = answers[f]
  PROVE  Room(w)
<1>1. PendingOk'[w] \subseteq PendingOk[w] /\ PendingFailed'[w] \subseteq PendingFailed[w]
  BY DEF PendingOk, PendingFailed, Delivered
<1>2. /\ Cardinality(PendingOk'[w]) <= Cardinality(PendingOk[w])
      /\ Cardinality(PendingFailed'[w]) <= Cardinality(PendingFailed[w])
  BY <1>1, PendingIsFinite, FS_Subset
<1>3. /\ done[w].ok \in Nat /\ done[w].failed \in Nat
  BY DEF Typed, TypeOK, Targets
<1>4. QED BY <1>2, <1>3, PendingIsFinite DEF Room

LEMMA RoomStep ==
  ASSUME Typed, NEW f \in Firings, StartFiring(f) \/ FiringStep(f) \/ Abort(f),
         NEW w \in Webhooks
  PROVE  Room(w)
<1>1. \A g \in Firings \ {f} : (Recording(g, w)' <=> Recording(g, w)) /\ answers'[g] = answers[g]
  BY OthersStand DEF Recording
<1>2. done[w].ok \in Nat /\ done[w].failed \in Nat /\ done'[w].ok \in Nat /\ done'[w].failed \in Nat
  BY FiringTypes DEF Typed, TypeOK, Targets
<1>3. ASSUME NEW answer \in Answers, pc[f] = "post", EndAttempt(f, answer), target' = target
      PROVE  Room(w)
  BY <1>2, <1>3, AttemptPends, PendingIsFinite DEF Room
<1>4. ASSUME done' = done, Recording(f, w)' => Recording(f, w) /\ answers'[f] = answers[f]
      PROVE  Room(w)
  BY <1>1, <1>4, RoomStays
<1>5. CASE StartFiring(f) \/ EndFiring(f) \/ Abort(f)
  <2>1. done' = done /\ pc'[f] \in {"next", "done", "dead"}
    BY <1>5 DEF StartFiring, EndFiring, Abort, history, Typed, TypeOK
  <2>2. QED BY <1>4, <2>1 DEF Recording
<1>6. CASE NextInline(f) \/ Backoff(f)
  <2>1. done' = done /\ pc'[f] = "post"
    BY <1>6 DEF NextInline, Backoff, Deliver, history, Typed, TypeOK
  <2>2. QED BY <1>4, <2>1 DEF Recording
<1>7. ASSUME NEW v \in Webhooks, NextWebhook(f, v)
      PROVE  Room(w)
  <2>1. done' = done /\ pc'[f] \in {"post", "next"}
    BY <1>7 DEF NextWebhook, Deliver, history, Typed, TypeOK
  <2>2. QED BY <1>4, <2>1 DEF Recording
<1>8. CASE TargetRejected(f)
  BY <1>3, <1>8 DEF TargetRejected, Answers
<1>9. ASSUME NEW answer \in Answers, Answered(f, answer)
      PROVE  Room(w)
  BY <1>3, <1>9 DEF Answered
<1>10. CASE Redirected(f)
  <2>1. pc[f] = "post" /\ target' = target /\ "blocked" \in Answers
    BY <1>10 DEF Redirected, Answers
  <2>2. EndAttempt(f, "blocked") \/ (pc' = pc /\ done' = done)
    BY <1>10 DEF Redirected
  <2>3. QED BY <1>3, <1>4, <2>1, <2>2 DEF Recording
<1>11. CASE ReadRecord(f) \/ WriteRecord(f)
  <2>1. /\ done' = done /\ target' = target /\ answers' = answers
        /\ pc[f] \in {"read", "write"}
    BY <1>11 DEF ReadRecord, WriteRecord, history
  <2>2. QED BY <1>4, <2>1 DEF Recording
<1>12. QED
  BY <1>5, <1>6, <1>7, <1>8, <1>9, <1>10, <1>11 DEF FiringStep

\* Writing a record takes its delivery out of the pending ones.
LEMMA WriteTakesRoom ==
  ASSUME Typed, NEW f \in Firings, WriteRecord(f), NEW w \in Webhooks, w = target[f]
  PROVE  /\ done' = done
         /\ Delivered(f) => /\ Cardinality(PendingOk'[w]) + 1 = Cardinality(PendingOk[w])
                            /\ PendingFailed'[w] = PendingFailed[w]
         /\ ~Delivered(f) => /\ Cardinality(PendingFailed'[w]) + 1 = Cardinality(PendingFailed[w])
                             /\ PendingOk'[w] = PendingOk[w]
<1>1. /\ pc[f] = "write" /\ pc' = [pc EXCEPT ![f] = "next"]
      /\ UNCHANGED <<target, answers, done>>
  BY DEF WriteRecord, history
<1>2. \A g \in Firings : /\ Recording(g, w)' <=> Recording(g, w) /\ g # f
                         /\ Delivered(g)' <=> Delivered(g)
  BY <1>1 DEF Recording, Delivered, Typed, TypeOK
<1>3. Recording(f, w)
  BY <1>1 DEF Recording
<1>4. CASE Delivered(f)
  <2>1. PendingOk'[w] = PendingOk[w] \ {f} /\ f \in PendingOk[w] /\ PendingFailed'[w] = PendingFailed[w]
    BY <1>2, <1>3, <1>4 DEF PendingOk, PendingFailed
  <2>2. Cardinality(PendingOk'[w]) = Cardinality(PendingOk[w]) - 1
    BY <2>1, PendingIsFinite, FS_RemoveElement
  <2>3. QED BY <1>1, <1>4, <2>1, <2>2, PendingIsFinite
<1>5. CASE ~Delivered(f)
  <2>1. PendingFailed'[w] = PendingFailed[w] \ {f} /\ f \in PendingFailed[w] /\ PendingOk'[w] = PendingOk[w]
    BY <1>2, <1>3, <1>5 DEF PendingOk, PendingFailed
  <2>2. Cardinality(PendingFailed'[w]) = Cardinality(PendingFailed[w]) - 1
    BY <2>1, PendingIsFinite, FS_RemoveElement
  <2>3. QED BY <1>1, <1>5, <2>1, <2>2, PendingIsFinite
<1>6. QED BY <1>4, <1>5

Consistent(h) ==
  /\ h.total = h.ok + h.failed
  /\ h.streak <= h.failed
  /\ h.status = "failing" <=> h.streak >= FailingAfter

Modest(h, w) ==
  /\ h.ok + Cardinality(PendingOk[w]) <= done[w].ok
  /\ h.failed + Cardinality(PendingFailed[w]) <= done[w].failed

HonestInv ==
  /\ \A w \in Webhooks : Consistent(hook[w]) /\ Modest(hook[w], w)
  /\ \A f \in Firings : /\ Consistent(copy[f])
                        /\ pc[f] = "write" => Modest(copy[f], target[f])

LEMMA EmptyIsConsistent == Consistent(Absent) /\ Consistent(Fresh)
<1>1. /\ Absent.total = 0 /\ Absent.ok = 0 /\ Absent.failed = 0 /\ Absent.streak = 0
      /\ Absent.status = "absent"
      /\ Fresh.total = 0 /\ Fresh.ok = 0 /\ Fresh.failed = 0 /\ Fresh.streak = 0
      /\ Fresh.status = "active"
  BY DEF Absent, Fresh
<1>2. FailingAfter \in Nat /\ FailingAfter > 0
  BY DeliveryAssumption
<1>3. QED BY <1>1, <1>2 DEF Consistent

LEMMA RecordedIsConsistent ==
  ASSUME NEW r \in HookRecords, Consistent(r), NEW d \in BOOLEAN
  PROVE  Consistent(Recorded(r, d))
<1>1. /\ r.total \in Nat /\ r.ok \in Nat /\ r.failed \in Nat /\ r.streak \in Nat
      /\ FailingAfter \in Nat /\ FailingAfter > 0
  BY DeliveryAssumption DEF HookRecords
<1>2. Consistent(Recorded(r, TRUE))
  <2> DEFINE ok == Recorded(r, TRUE)
  <2>1. /\ ok.total = r.total + 1 /\ ok.ok = r.ok + 1 /\ ok.failed = r.failed
        /\ ok.streak = 0 /\ ok.status = "active"
    BY RecordedIs
  <2> HIDE DEF ok
  <2>2. Consistent(ok)
    BY <1>1, <2>1 DEF Consistent
  <2>3. QED BY <2>2 DEF ok
<1>3. Consistent(Recorded(r, FALSE))
  <2> DEFINE bad == Recorded(r, FALSE)
  <2>1. /\ bad.total = r.total + 1 /\ bad.ok = r.ok /\ bad.failed = r.failed + 1
        /\ bad.streak = r.streak + 1
        /\ bad.status = IF r.streak + 1 >= FailingAfter THEN "failing" ELSE r.status
    BY RecordedIs
  <2> HIDE DEF bad
  <2>2. Consistent(bad)
    BY <1>1, <2>1 DEF Consistent
  <2>3. QED BY <2>2 DEF bad
<1>4. QED BY <1>2, <1>3

\* No firing's step makes a record or a copy claim too much.
LEMMA HonestFiring ==
  ASSUME Typed, KnownInv, HonestInv, NEW f \in Firings,
         StartFiring(f) \/ FiringStep(f) \/ Abort(f)
  PROVE  HonestInv'
<1>0. Typed'
  BY FiringTypes
<1>1. \A w \in Webhooks :
        /\ done[w].ok \in Nat /\ done[w].failed \in Nat
        /\ done'[w].ok \in Nat /\ done'[w].failed \in Nat
        /\ hook[w] \in HookRecords /\ hook[w].ok \in Nat /\ hook[w].failed \in Nat
  BY <1>0 DEF Typed, TypeOK, Targets, HookRecords
<1>2. \A g \in Firings : copy[g] \in HookRecords /\ copy[g].ok \in Nat /\ copy[g].failed \in Nat
  BY DEF Typed, TypeOK, HookRecords
\* What was modest before the step is modest after it.
<1>3. ASSUME NEW w \in Webhooks, NEW ok \in Nat, NEW failed \in Nat,
             ok + Cardinality(PendingOk[w]) <= done[w].ok,
             failed + Cardinality(PendingFailed[w]) <= done[w].failed
      PROVE  /\ ok + Cardinality(PendingOk'[w]) <= done'[w].ok
             /\ failed + Cardinality(PendingFailed'[w]) <= done'[w].failed
  BY <1>1, <1>3, RoomStep, PendingIsFinite DEF Room
<1>5. ASSUME NEW w \in Webhooks
      PROVE  Consistent(hook'[w]) /\ Modest(hook[w], w)'
  <2>1. CASE hook'[w] = hook[w]
    BY <1>1, <1>3, <2>1 DEF HonestInv, Modest
  <2>2. CASE hook'[w] # hook[w]
    <3>1. WriteRecord(f) /\ w = target[f] /\ hook'[w] = Recorded(copy[f], Delivered(f))
      BY <2>2, FiringMoves, WrittenExists
    <3>2. Delivered(f) \in BOOLEAN
      BY DEF Delivered
    <3>3. Consistent(hook'[w])
      BY <1>2, <3>1, <3>2, RecordedIsConsistent DEF HonestInv
    <3>4. /\ copy[f].ok + Cardinality(PendingOk[w]) <= done[w].ok
          /\ copy[f].failed + Cardinality(PendingFailed[w]) <= done[w].failed
      BY <3>1 DEF HonestInv, Modest, WriteRecord
    <3>5. CASE Delivered(f)
      <4>1. hook'[w].ok = copy[f].ok + 1 /\ hook'[w].failed = copy[f].failed
        <5>1. Delivered(f) = TRUE
          BY <3>5 DEF Delivered
        <5>2. hook'[w] = Recorded(copy[f], TRUE)
          BY <3>1, <5>1
        <5>3. QED BY <1>2, <5>2, RecordedIs
      <4>2. /\ done' = done /\ PendingFailed'[w] = PendingFailed[w]
            /\ Cardinality(PendingOk'[w]) + 1 = Cardinality(PendingOk[w])
        BY <3>1, <3>5, WriteTakesRoom
      <4>3. /\ hook'[w].ok + Cardinality(PendingOk'[w]) <= done'[w].ok
            /\ hook'[w].failed + Cardinality(PendingFailed'[w]) <= done'[w].failed
        BY <1>1, <1>2, <3>4, <4>1, <4>2, PendingIsFinite
      <4>4. QED BY <3>3, <4>3 DEF Modest
    <3>6. CASE ~Delivered(f)
      <4>1. hook'[w].ok = copy[f].ok /\ hook'[w].failed = copy[f].failed + 1
        <5>1. Delivered(f) = FALSE
          BY <3>6 DEF Delivered
        <5>2. hook'[w] = Recorded(copy[f], FALSE)
          BY <3>1, <5>1
        <5>3. QED BY <1>2, <5>2, RecordedIs
      <4>2. /\ done' = done /\ PendingOk'[w] = PendingOk[w]
            /\ Cardinality(PendingFailed'[w]) + 1 = Cardinality(PendingFailed[w])
        BY <3>1, <3>6, WriteTakesRoom
      <4>3. /\ hook'[w].ok + Cardinality(PendingOk'[w]) <= done'[w].ok
            /\ hook'[w].failed + Cardinality(PendingFailed'[w]) <= done'[w].failed
        BY <1>1, <1>2, <3>4, <4>1, <4>2, PendingIsFinite
      <4>4. QED BY <3>3, <4>3 DEF Modest
    <3>7. QED BY <3>5, <3>6
  <2>3. QED BY <2>1, <2>2
<1>6. ASSUME NEW g \in Firings
      PROVE  Consistent(copy'[g]) /\ (pc'[g] = "write" => Modest(copy[g], target[g])')
  <2>1. CASE copy'[g] = copy[g] /\ target'[g] = target[g] /\ (pc'[g] = "write" => pc[g] = "write")
    <3>1. pc[g] = "write" => target[g] \in Webhooks
      BY DEF Typed, TypeOK
    <3>2. QED BY <1>2, <1>3, <2>1, <3>1 DEF HonestInv, Modest
  <2>2. CASE g = f /\ ReadRecord(f) /\ Exists(target[f])
    <3>1. /\ target[f] \in Webhooks /\ copy'[f] = hook[target[f]] /\ target'[f] = target[f]
      BY <2>2 DEF ReadRecord, Typed, TypeOK
    <3>2. QED BY <1>1, <1>3, <2>2, <3>1 DEF HonestInv, Modest
  <2>3. CASE g = f /\ WriteRecord(f)
    <3>1. copy'[f] = Absent /\ pc'[f] = "next"
      BY <2>3 DEF WriteRecord, Typed, TypeOK
    <3>2. QED BY <2>3, <3>1, EmptyIsConsistent
  <2>4. CASE g = f /\ ~WriteRecord(f) /\ ~(ReadRecord(f) /\ Exists(target[f]))
    <3>1. copy'[f] = copy[f] /\ pc'[f] # "write"
      <4>1. ASSUME NEW answer \in Answers, pc[f] = "post", EndAttempt(f, answer)
            PROVE  pc'[f] # "write"
        <5>1. pc' = [pc EXCEPT ![f] = IF ~(answer \in Terminal \/ attempts[f] = MaxAttempts)
                                      THEN "backoff"
                                      ELSE IF target[f] = Inline THEN "next" ELSE "read"]
          BY <4>1, AttemptEnds
        <5>2. QED BY <5>1 DEF Typed, TypeOK
      <4>2. "blocked" \in Answers
        BY DEF Answers
      <4>3. CASE \E answer \in Answers \ {"blocked"} : Answered(f, answer)
        BY <4>1, <4>3 DEF Answered
      <4>4. CASE TargetRejected(f)
        BY <4>1, <4>2, <4>4 DEF TargetRejected
      <4>5. CASE Redirected(f)
        BY <4>1, <4>2, <4>5 DEF Redirected
      <4>6. CASE \E w \in Webhooks : NextWebhook(f, w)
        BY <4>6 DEF NextWebhook, Deliver, loop, Typed, TypeOK
      <4>7. CASE StartFiring(f) \/ EndFiring(f) \/ Abort(f) \/ NextInline(f) \/ Backoff(f)
        BY <4>7 DEF StartFiring, EndFiring, Abort, NextInline, Backoff, Deliver, loop, Typed, TypeOK
      <4>8. CASE ReadRecord(f)
        BY <2>4, <4>8 DEF ReadRecord, Typed, TypeOK
      <4>9. QED BY <2>4, <4>3, <4>4, <4>5, <4>6, <4>7, <4>8 DEF FiringStep
    <3>2. QED BY <2>4, <3>1 DEF HonestInv
  <2>5. QED BY <2>1, <2>2, <2>3, <2>4, OthersStand
<1>7. QED BY <1>5, <1>6 DEF HonestInv

LEMMA HonestRequest ==
  ASSUME Typed, KnownInv, HonestInv, NEW w \in Webhooks,
         RegisterWebhook(w) \/ DeleteWebhook(w)
  PROVE  HonestInv'
<1>1. /\ UNCHANGED <<pc, target, answers, copy, done>>
      /\ \/ hook' = [hook EXCEPT ![w] = Fresh] /\ w \notin known
         \/ hook' = [hook EXCEPT ![w] = Absent]
  BY DEF RegisterWebhook, DeleteWebhook, loop, history
<1>2. PendingOk' = PendingOk /\ PendingFailed' = PendingFailed
  BY <1>1 DEF PendingOk, PendingFailed, Recording, Delivered
<1>3. /\ Fresh.ok = 0 /\ Fresh.failed = 0 /\ Absent.ok = 0 /\ Absent.failed = 0
  BY DEF Fresh, Absent
<1>4. \A v \in Webhooks : hook'[v] = hook[v] \/ (v = w /\ hook'[v] \in {Fresh, Absent})
  BY <1>1 DEF Typed, TypeOK
<1>5. \A v \in Webhooks :
        /\ hook[v].ok \in Nat /\ hook[v].failed \in Nat
        /\ done[v].ok \in Nat /\ done[v].failed \in Nat
  BY DEF Typed, TypeOK, HookRecords, Targets
<1>6. /\ 0 + Cardinality(PendingOk[w]) <= done[w].ok
      /\ 0 + Cardinality(PendingFailed[w]) <= done[w].failed
  BY <1>5, PendingIsFinite DEF HonestInv, Modest
<1>7. \A v \in Webhooks : Consistent(hook'[v])
  BY <1>4, EmptyIsConsistent DEF HonestInv
<1>8. ASSUME NEW v \in Webhooks
      PROVE  /\ hook'[v].ok + Cardinality(PendingOk'[v]) <= done'[v].ok
             /\ hook'[v].failed + Cardinality(PendingFailed'[v]) <= done'[v].failed
  <2>1. CASE hook'[v] = hook[v]
    BY <1>1, <1>2, <2>1 DEF HonestInv, Modest
  <2>2. CASE v = w /\ hook'[v] \in {Fresh, Absent}
    <3>1. hook'[v].ok = 0 /\ hook'[v].failed = 0
      BY <1>3, <2>2
    <3>2. QED BY <1>1, <1>2, <1>6, <2>2, <3>1
  <2>3. QED BY <1>4, <2>1, <2>2
<1>9. \A f \in Firings : pc'[f] = "write" => Modest(copy[f], target[f])'
  BY <1>1, <1>2 DEF HonestInv, Modest
<1>10. QED BY <1>1, <1>7, <1>8, <1>9 DEF HonestInv, Modest

LEMMA HonestInvariant == Spec => []HonestInv
<1>1. Init => HonestInv
  <2> SUFFICES ASSUME Init PROVE HonestInv
    OBVIOUS
  <2>1. \A w \in Webhooks : PendingOk[w] = {} /\ PendingFailed[w] = {}
    BY DEF Init, PendingOk, PendingFailed, Recording
  <2>2. Absent.ok = 0 /\ Absent.failed = 0
    BY DEF Absent
  <2>3. \A w \in Webhooks : hook[w] = Absent /\ done[w].ok = 0 /\ done[w].failed = 0
    BY DEF Init, Targets
  <2>4. \A f \in Firings : copy[f] = Absent /\ pc[f] = "none"
    BY DEF Init
  <2>5. Cardinality({}) = 0
    BY FS_EmptySet
  <2>6. \A w \in Webhooks : Consistent(hook[w]) /\ \A f \in Firings : Consistent(copy[f])
    BY <2>3, <2>4, EmptyIsConsistent
  <2>7. ASSUME NEW w \in Webhooks PROVE Modest(hook[w], w)
    <3>1. /\ hook[w].ok = 0 /\ done[w].ok = 0 /\ Cardinality(PendingOk[w]) = 0
          /\ hook[w].failed = 0 /\ done[w].failed = 0 /\ Cardinality(PendingFailed[w]) = 0
      BY <2>1, <2>2, <2>3, <2>5
    <3>2. QED BY <3>1 DEF Modest
  <2>8. \A f \in Firings : Consistent(copy[f]) /\ pc[f] # "write"
    BY <2>4, EmptyIsConsistent
  <2>9. QED BY <2>6, <2>7, <2>8 DEF HonestInv
<1>2. Typed /\ KnownInv /\ HonestInv /\ [Next]_vars => HonestInv'
  <2> SUFFICES ASSUME Typed, KnownInv, HonestInv, [Next]_vars PROVE HonestInv'
    OBVIOUS
  <2>1. CASE UNCHANGED vars
    <3>1. UNCHANGED <<hook, pc, target, copy, answers, done>>
      BY <2>1 DEF vars, loop, history
    <3>2. PendingOk' = PendingOk /\ PendingFailed' = PendingFailed
      BY <3>1 DEF PendingOk, PendingFailed, Recording, Delivered
    <3>3. QED BY <3>1, <3>2 DEF HonestInv, Modest
  <2>2. QED BY <2>1, HonestFiring, HonestRequest DEF Next
<1>3. QED BY <1>1, <1>2, TypedInvariant, KnownInvariant, PTL DEF Spec

\* Under any overlap of firings, deaths and deletions a record's counters add up,
\* "failing" means a streak, and no delivery is claimed that did not happen.
THEOREM HonestHealth == Spec => []HealthIsHonest
<1>1. Typed /\ HonestInv => HealthIsHonest
  <2> SUFFICES ASSUME Typed, HonestInv, NEW w \in Webhooks
               PROVE  /\ hook[w].total = hook[w].ok + hook[w].failed
                      /\ hook[w].streak <= hook[w].failed
                      /\ hook[w].status = "failing" <=> hook[w].streak >= FailingAfter
                      /\ hook[w].ok <= done[w].ok /\ hook[w].failed <= done[w].failed
    BY DEF HealthIsHonest
  <2>1. /\ hook[w].ok \in Nat /\ hook[w].failed \in Nat
        /\ done[w].ok \in Nat /\ done[w].failed \in Nat
    BY DEF Typed, TypeOK, HookRecords, Targets
  <2>2. Consistent(hook[w]) /\ Modest(hook[w], w)
    BY DEF HonestInv
  <2>3. hook[w].ok <= done[w].ok /\ hook[w].failed <= done[w].failed
    BY <2>1, <2>2, PendingIsFinite DEF Modest
  <2>4. QED BY <2>2, <2>3 DEF Consistent
<1>2. QED BY <1>1, HonestInvariant, TypedInvariant, PTL

---------------------------------------------------------------------------
(* Real health.  With one firing at a time the only delivery that a record *)
(* does not count is the one being recorded.                               *)

Underway(f) == pc[f] \notin {"none", "done", "dead"}

Counted(w) == done[w].ok + done[w].failed

\* Deliveries to w that are done and are being recorded.
Owing(w) == IF \E f \in Firings : Recording(f, w) THEN 1 ELSE 0

\* A webhook nobody registered yet has no past.
UnknownInv ==
  \A w \in Webhooks \ known : done[w].ok = 0 /\ done[w].failed = 0 /\ unwritten[w] = 0

AloneInv ==
  /\ \A f, g \in Firings : Underway(f) /\ Underway(g) => f = g
  /\ \A w \in Webhooks : Exists(w) => hook[w].total + unwritten[w] + Owing(w) = Counted(w)
  /\ \A f \in Firings : pc[f] = "write" =>
       copy[f].total + unwritten[target[f]] + 1 = Counted(target[f])

\* What a firing's step may do to the past of a webhook.
LEMMA PastMoves ==
  ASSUME Typed, NEW f \in Firings, StartFiring(f) \/ FiringStep(f) \/ Abort(f),
         NEW w \in Webhooks
  PROVE  \/ /\ pc[f] = "post" /\ target[f] = w /\ pc'[f] = "read" /\ target'[f] = w
            /\ unwritten' = unwritten /\ Counted(w)' = Counted(w) + 1
         \/ /\ Recording(f, w) /\ pc'[f] = "dead" /\ done' = done
            /\ unwritten'[w] = unwritten[w] + 1
         \/ /\ Counted(w)' = Counted(w) /\ unwritten'[w] = unwritten[w]
            /\ done'[w].ok = done[w].ok /\ done'[w].failed = done[w].failed
            /\ Recording(f, w) => ReadRecord(f) \/ WriteRecord(f)
            /\ Recording(f, w)' => Recording(f, w) /\ Exists(w)
<1> USE DEF Counted
<1>0. /\ done[w].ok \in Nat /\ done[w].failed \in Nat /\ unwritten \in [Targets -> Nat]
      /\ w \in Targets /\ w # Inline /\ pc \in [Firings -> FiringPC]
  BY DeliveryAssumption DEF Typed, TypeOK, Targets
<1>1. ASSUME NEW answer \in Answers, pc[f] = "post", EndAttempt(f, answer),
             target' = target, unwritten' = unwritten
      PROVE  \/ /\ pc[f] = "post" /\ target[f] = w /\ pc'[f] = "read" /\ target'[f] = w
                /\ unwritten' = unwritten /\ Counted(w)' = Counted(w) + 1
             \/ /\ Counted(w)' = Counted(w) /\ unwritten'[w] = unwritten[w]
                /\ done'[w].ok = done[w].ok /\ done'[w].failed = done[w].failed
                /\ ~Recording(f, w) /\ ~Recording(f, w)'
  <2> DEFINE over == answer \in Terminal \/ attempts[f] = MaxAttempts
  <2>1. /\ pc' = [pc EXCEPT ![f] = IF ~over THEN "backoff"
                                   ELSE IF target[f] = Inline THEN "next" ELSE "read"]
        /\ done'[w].ok = IF over /\ w = target[f] /\ answer = "ok"
                         THEN done[w].ok + 1 ELSE done[w].ok
        /\ done'[w].failed = IF over /\ w = target[f] /\ answer # "ok"
                             THEN done[w].failed + 1 ELSE done[w].failed
    BY <1>0, <1>1, AttemptEnds
  <2> HIDE DEF over
  <2>2. pc'[f] = IF ~over THEN "backoff" ELSE IF target[f] = Inline THEN "next" ELSE "read"
    BY <1>0, <2>1
  <2>3. CASE over /\ w = target[f]
    BY <1>0, <1>1, <2>1, <2>2, <2>3
  <2>4. CASE ~(over /\ w = target[f])
    BY <1>0, <1>1, <2>1, <2>2, <2>4 DEF Recording
  <2>5. QED BY <2>3, <2>4
<1>2. CASE StartFiring(f) \/ EndFiring(f) \/ NextInline(f) \/ Backoff(f)
  <2>1. /\ done' = done /\ unwritten' = unwritten
        /\ pc[f] \in {"none", "next", "backoff"} /\ pc'[f] \in {"next", "done", "post"}
    BY <1>0, <1>2 DEF StartFiring, EndFiring, NextInline, Backoff, Deliver, history
  <2>2. QED BY <2>1 DEF Recording
<1>3. ASSUME NEW v \in Webhooks, NextWebhook(f, v)
      PROVE  /\ done' = done /\ unwritten' = unwritten /\ ~Recording(f, w) /\ ~Recording(f, w)'
  BY <1>0, <1>3 DEF NextWebhook, Deliver, history, Recording
<1>4. CASE TargetRejected(f)
  <2>1. "blocked" \in Answers
    BY DEF Answers
  <2>2. QED BY <1>1, <1>4, <2>1 DEF TargetRejected
<1>5. ASSUME NEW answer \in Answers, Answered(f, answer)
      PROVE  \/ /\ pc[f] = "post" /\ target[f] = w /\ pc'[f] = "read" /\ target'[f] = w
                /\ unwritten' = unwritten /\ Counted(w)' = Counted(w) + 1
             \/ /\ Counted(w)' = Counted(w) /\ unwritten'[w] = unwritten[w]
                /\ done'[w].ok = done[w].ok /\ done'[w].failed = done[w].failed
                /\ ~Recording(f, w) /\ ~Recording(f, w)'
  BY <1>1, <1>5 DEF Answered
<1>6. CASE Redirected(f)
  <2>1. "blocked" \in Answers
    BY DEF Answers
  <2>2. CASE hops[f] + 1 > MaxHops
    BY <1>1, <1>6, <2>1, <2>2 DEF Redirected
  <2>3. CASE ~(hops[f] + 1 > MaxHops)
    <3>1. pc[f] = "post" /\ pc'[f] = "post" /\ done' = done /\ unwritten' = unwritten
      BY <1>6, <2>3 DEF Redirected
    <3>2. QED BY <3>1 DEF Recording
  <2>4. QED BY <2>2, <2>3
<1>7. CASE ReadRecord(f)
  <2>1. done' = done /\ unwritten' = unwritten /\ target' = target /\ pc[f] = "read"
    BY <1>7 DEF ReadRecord, history
  <2>2. pc'[f] = "write" => Exists(target[f])
    BY <1>0, <1>7 DEF ReadRecord
  <2>3. pc'[f] \in {"write", "next"}
    BY <1>0, <1>7 DEF ReadRecord
  <2>4. QED BY <1>7, <2>1, <2>2, <2>3 DEF Recording
<1>8. CASE WriteRecord(f)
  <2>1. done' = done /\ unwritten' = unwritten /\ pc'[f] = "next"
    BY <1>0, <1>8 DEF WriteRecord, history
  <2>2. QED BY <1>8, <2>1 DEF Recording
<1>9. CASE Abort(f)
  <2>1. done' = done /\ pc'[f] = "dead" /\ target' = target
    BY <1>0, <1>9 DEF Abort, loop
  <2>2. CASE Recording(f, w)
    <3>1. unwritten' = [unwritten EXCEPT ![w] = unwritten[w] + 1]
      BY <1>9, <2>2 DEF Abort, Recording
    <3>2. QED BY <1>0, <2>1, <2>2, <3>1
  <2>3. CASE ~Recording(f, w)
    <3>1. unwritten'[w] = unwritten[w]
      BY <1>0, <1>9, <2>3 DEF Abort, Recording
    <3>2. QED BY <2>1, <2>3, <3>1 DEF Recording
  <2>4. QED BY <2>2, <2>3
<1>10. QED
  BY <1>2, <1>3, <1>4, <1>5, <1>6, <1>7, <1>8, <1>9 DEF FiringStep

LEMMA UnknownStep ==
  ASSUME Typed, KnownInv, UnknownInv, [Next]_vars
  PROVE  UnknownInv'
<1>1. ASSUME NEW f \in Firings, StartFiring(f) \/ FiringStep(f) \/ Abort(f)
      PROVE  UnknownInv'
  <2> SUFFICES ASSUME NEW w \in Webhooks, w \notin known'
               PROVE  done'[w].ok = 0 /\ done'[w].failed = 0 /\ unwritten'[w] = 0
    BY DEF UnknownInv
  <2>1. w \notin known /\ w # Inline /\ w # Nobody
    BY <1>1, FiringMoves, DeliveryAssumption
  <2>2. target[f] # w
    BY <2>1 DEF KnownInv
  <2>3. ~Recording(f, w)
    BY <2>2 DEF Recording
  <2>4. QED BY <1>1, <2>1, <2>2, <2>3, PastMoves DEF UnknownInv
<1>2. ASSUME NEW w \in Webhooks, RegisterWebhook(w) \/ DeleteWebhook(w)
      PROVE  UnknownInv'
  <2>1. UNCHANGED <<done, unwritten>> /\ known \subseteq known'
    BY <1>2 DEF RegisterWebhook, DeleteWebhook, history
  <2>2. QED BY <2>1 DEF UnknownInv
<1>3. CASE UNCHANGED vars
  BY <1>3 DEF vars, history, UnknownInv
<1>4. QED BY <1>1, <1>2, <1>3 DEF Next

LEMMA UnknownInvariant == Spec => []UnknownInv
<1>1. Init => UnknownInv
  BY DEF Init, UnknownInv, Targets
<1>2. Typed /\ KnownInv /\ UnknownInv /\ [Next]_vars => UnknownInv'
  BY UnknownStep
<1>3. QED BY <1>1, <1>2, TypedInvariant, KnownInvariant, PTL DEF Spec

LEMMA RecordedCountsOne ==
  ASSUME NEW r \in HookRecords, NEW d \in BOOLEAN
  PROVE  Recorded(r, d).total = r.total + 1
<1>1. Recorded(r, TRUE).total = r.total + 1 /\ Recorded(r, FALSE).total = r.total + 1
  BY RecordedIs
<1>2. CASE d = TRUE
  BY <1>1, <1>2
<1>3. CASE d = FALSE
  BY <1>1, <1>3
<1>4. QED BY <1>2, <1>3

\* Under Serial the firing that acts is the only one under way.
LEMMA ActsAlone ==
  ASSUME Serial, Typed, AloneInv, NEW f \in Firings,
         StartFiring(f) \/ FiringStep(f) \/ Abort(f)
  PROVE  \A g \in Firings \ {f} : ~Underway(g) /\ ~Underway(g)'
<1> SUFFICES ASSUME NEW g \in Firings, g # f
             PROVE  ~Underway(g) /\ ~Underway(g)'
  OBVIOUS
<1>1. pc'[g] = pc[g]
  BY OthersStand
<1>2. CASE StartFiring(f)
  BY <1>1, <1>2 DEF StartFiring, Underway
<1>3. CASE FiringStep(f) \/ Abort(f)
  <2>1. Underway(f)
    BY <1>3 DEF FiringStep, NextWebhook, NextInline, EndFiring, TargetRejected, Redirected,
                Backoff, Answered, ReadRecord, WriteRecord, Abort, Underway
  <2>2. QED BY <1>1, <2>1 DEF AloneInv, Underway
<1>4. QED BY <1>2, <1>3

LEMMA AloneFiring ==
  ASSUME Serial, Typed, Typed', AloneInv, NEW f \in Firings,
         StartFiring(f) \/ FiringStep(f) \/ Abort(f)
  PROVE  AloneInv'
<1>1. \A g \in Firings \ {f} : ~Underway(g) /\ ~Underway(g)'
  BY ActsAlone
<1>2. \A g \in Firings \ {f}, w \in Webhooks : ~Recording(g, w) /\ ~Recording(g, w)'
  BY <1>1 DEF Underway, Recording
<1>3. WriteRecord(f) => pc[f] = "write" /\ pc'[f] = "next"
  BY DEF WriteRecord, Typed, TypeOK
<1>4. \A g, h \in Firings : Underway(g)' /\ Underway(h)' => g = h
  BY <1>1
<1>5. ASSUME NEW w \in Webhooks, Exists(w)'
      PROVE  (hook[w].total + unwritten[w] + Owing(w) = Counted(w))'
  <2>1. Owing(w) = IF Recording(f, w) THEN 1 ELSE 0
    BY <1>2 DEF Owing
  <2>2. Owing(w)' = IF Recording(f, w)' THEN 1 ELSE 0
    BY <1>2 DEF Owing
  <2>3. /\ hook[w].total \in Nat /\ unwritten[w] \in Nat /\ Counted(w) \in Nat
        /\ hook'[w].total \in Nat /\ unwritten'[w] \in Nat
    <3>1. /\ hook[w] \in HookRecords /\ hook'[w] \in HookRecords
          /\ unwritten[w] \in Nat /\ unwritten'[w] \in Nat
          /\ done[w] \in [ok : Nat, failed : Nat]
      BY DEF Typed, TypeOK, Targets
    <3>2. QED BY <3>1 DEF HookRecords, Counted
  <2>4. Exists(w) => hook[w].total + unwritten[w] + Owing(w) = Counted(w)
    BY DEF AloneInv
  <2>5. CASE WriteRecord(f) /\ target[f] = w
    <3>1. hook'[w] = Recorded(copy[f], Delivered(f)) /\ copy[f] \in HookRecords
      BY <2>5, WrittenExists DEF Typed, TypeOK
    <3>2. Delivered(f) \in BOOLEAN
      BY DEF Delivered
    <3>3. hook'[w].total = copy[f].total + 1
      BY <3>1, <3>2, RecordedCountsOne
    <3>4. copy[f].total + unwritten[w] + 1 = Counted(w) /\ copy[f].total \in Nat
      BY <1>3, <2>5, <3>1 DEF AloneInv, HookRecords
    <3>5. Counted(w)' = Counted(w) /\ unwritten'[w] = unwritten[w]
      BY <1>3, <2>5, PastMoves
    <3>6. Owing(w)' = 0
      BY <1>3, <2>2, <2>5 DEF Recording
    <3>7. QED BY <2>3, <3>3, <3>4, <3>5, <3>6
  <2>6. CASE ~(WriteRecord(f) /\ target[f] = w)
    <3>1. hook'[w] = hook[w] /\ Exists(w)
      BY <1>5, <2>6, FiringMoves, WrittenExists DEF Exists
    <3>2. CASE pc[f] = "post" /\ target[f] = w /\ pc'[f] = "read" /\ target'[f] = w
               /\ unwritten' = unwritten /\ Counted(w)' = Counted(w) + 1
      <4>1. Owing(w) = 0 /\ Owing(w)' = 1
        BY <2>1, <2>2, <3>2 DEF Recording
      <4>2. QED BY <2>3, <2>4, <3>1, <3>2, <4>1
    <3>3. CASE Recording(f, w) /\ pc'[f] = "dead" /\ done' = done
               /\ unwritten'[w] = unwritten[w] + 1
      <4>1. Owing(w) = 1 /\ Owing(w)' = 0 /\ Counted(w)' = Counted(w)
        BY <2>1, <2>2, <3>3 DEF Recording, Counted
      <4>2. QED BY <2>3, <2>4, <3>1, <3>3, <4>1
    <3>4. CASE /\ Counted(w)' = Counted(w) /\ unwritten'[w] = unwritten[w]
               /\ Recording(f, w) => ReadRecord(f) \/ WriteRecord(f)
               /\ Recording(f, w)' => Recording(f, w) /\ Exists(w)
      <4>1. Recording(f, w) => Recording(f, w)'
        BY <2>6, <3>1, <3>4 DEF Recording, ReadRecord, Typed, TypeOK
      <4>2. Owing(w)' = Owing(w)
        BY <2>1, <2>2, <3>4, <4>1
      <4>3. QED BY <2>3, <2>4, <3>1, <3>4, <4>2
    <3>5. QED BY <3>2, <3>3, <3>4, PastMoves
  <2>7. QED BY <2>5, <2>6
<1>6. ASSUME NEW g \in Firings, pc'[g] = "write"
      PROVE  (copy[g].total + unwritten[target[g]] + 1 = Counted(target[g]))'
  <2>1. g = f
    BY <1>1, <1>6 DEF Underway
  <2>2. target'[f] \in Webhooks
    BY <1>6, <2>1 DEF Typed, TypeOK
  <2>3. PICK w \in Webhooks : target'[f] = w
    BY <2>2
  <2>4. Recording(f, w)' /\ pc'[f] = "write"
    BY <1>6, <2>1, <2>3 DEF Recording
  <2>5. /\ Recording(f, w) /\ Exists(w) /\ ReadRecord(f)
        /\ Counted(w)' = Counted(w) /\ unwritten'[w] = unwritten[w]
    BY <1>3, <2>4, PastMoves
  <2>6. copy'[f] = hook[w] /\ target[f] = w
    BY <2>5 DEF ReadRecord, Recording, Typed, TypeOK
  <2>7. Owing(w) = 1
    BY <2>5 DEF Owing
  <2>8. hook[w].total + unwritten[w] + 1 = Counted(w)
    BY <2>5, <2>7 DEF AloneInv
  <2>9. copy'[f].total + unwritten'[w] + 1 = done'[w].ok + done'[w].failed
    BY <2>5, <2>6, <2>8 DEF Counted
  <2>10. QED BY <2>1, <2>3, <2>9 DEF Counted
<1>7. QED BY <1>4, <1>5, <1>6 DEF AloneInv

LEMMA AloneRequest ==
  ASSUME Typed, KnownInv, UnknownInv, AloneInv, NEW w \in Webhooks,
         RegisterWebhook(w) \/ DeleteWebhook(w)
  PROVE  AloneInv'
<1>1. /\ UNCHANGED <<pc, target, copy, done, unwritten>>
      /\ \/ hook' = [hook EXCEPT ![w] = Fresh] /\ w \notin known
         \/ hook' = [hook EXCEPT ![w] = Absent]
  BY DEF RegisterWebhook, DeleteWebhook, loop, history
<1>2. \A v \in Webhooks : Counted(v)' = Counted(v) /\ Owing(v)' = Owing(v)
  BY <1>1 DEF Counted, Owing, Recording
<1>3. ASSUME NEW v \in Webhooks, Exists(v)'
      PROVE  (hook[v].total + unwritten[v] + Owing(v) = Counted(v))'
  <2>1. CASE hook'[v] = hook[v]
    BY <1>1, <1>2, <1>3, <2>1 DEF AloneInv, Exists
  <2>2. CASE v = w /\ hook'[v] = Fresh /\ w \notin known
    <3>1. Fresh.total = 0
      BY DEF Fresh, Absent
    <3>2. done[v].ok = 0 /\ done[v].failed = 0 /\ unwritten[v] = 0
      BY <2>2 DEF UnknownInv
    <3>3. Owing(v) = 0
      BY <2>2, DeliveryAssumption DEF Owing, Recording, KnownInv
    <3>4. QED BY <1>1, <1>2, <2>2, <3>1, <3>2, <3>3 DEF Counted
  <2>3. v # w => hook'[v] = hook[v]
    BY <1>1 DEF Typed, TypeOK
  <2>4. v = w => (hook'[v] = Fresh /\ w \notin known) \/ hook'[v] = Absent
    BY <1>1 DEF Typed, TypeOK
  <2>5. QED BY <1>3, <2>1, <2>2, <2>3, <2>4 DEF Exists
<1>4. ASSUME NEW g \in Firings, pc'[g] = "write"
      PROVE  (copy[g].total + unwritten[target[g]] + 1 = Counted(target[g]))'
  <2>1. copy[g].total + unwritten[target[g]] + 1 = Counted(target[g])
    BY <1>1, <1>4 DEF AloneInv
  <2>2. QED BY <1>1, <2>1 DEF Counted
<1>5. \A f, g \in Firings : Underway(f)' /\ Underway(g)' => f = g
  BY <1>1 DEF AloneInv, Underway
<1>6. QED BY <1>3, <1>4, <1>5 DEF AloneInv

LEMMA AloneInvariant == Serial => (Spec => []AloneInv)
<1> SUFFICES ASSUME Serial PROVE Spec => []AloneInv
  OBVIOUS
<1>1. Init => AloneInv
  BY DEF Init, AloneInv, Underway, Exists
<1>2. Typed /\ Typed' /\ KnownInv /\ UnknownInv /\ AloneInv /\ [Next]_vars => AloneInv'
  <2> SUFFICES ASSUME Typed, Typed', KnownInv, UnknownInv, AloneInv, [Next]_vars
               PROVE  AloneInv'
    OBVIOUS
  <2>1. CASE UNCHANGED vars
    BY <2>1 DEF vars, loop, history, AloneInv, Underway, Exists, Owing, Recording, Counted
  <2>2. QED BY <2>1, AloneFiring, AloneRequest DEF Next
<1>3. QED BY <1>1, <1>2, TypedInvariant, KnownInvariant, UnknownInvariant, PTL DEF Spec

\* One firing at a time (one worker, the scheduler's own deliveries): whatever the
\* receivers answer and whichever firings die, every webhook record shows the
\* deliveries that were completed, less those whose firing died before its put.
THEOREM RealHealth == Serial => (Spec => []HealthIsReal)
<1>1. Typed /\ AloneInv => HealthIsReal
  <2> SUFFICES ASSUME Typed, AloneInv, ~InProgress, NEW w \in Webhooks, Exists(w)
               PROVE  hook[w].total + unwritten[w] = done[w].ok + done[w].failed
    BY DEF HealthIsReal
  <2>1. Owing(w) = 0
    BY DEF InProgress, Owing, Recording
  <2>2. hook[w].total \in Nat /\ unwritten[w] \in Nat
    BY DEF Typed, TypeOK, HookRecords, Targets
  <2>3. QED BY <2>1, <2>2 DEF AloneInv, Counted
<1>2. QED BY <1>1, AloneInvariant, TypedInvariant, PTL
================================================================================
