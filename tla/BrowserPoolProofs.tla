--------------------------- MODULE BrowserPoolProofs ---------------------------
(***************************************************************************)
(* BrowserPool, for every number of scrapers, every cap and any number of  *)
(* reconfigurations: no permit is lost or made, nobody waits for a free    *)
(* permit, every running browser holds one, and so the cap holds.          *)
(*                                                                         *)
(* The invariants hold together or not at all.  A release hands its permit *)
(* to the head of a queue, which conserves permits because whoever waits   *)
(* holds none; nobody else is woken because a waiter stands in one place   *)
(* of one queue; and the cap follows because the first semaphore was made  *)
(* with the cap (FirstSemaphoreIsTheCap) and a running browser holds one   *)
(* of its permits.                                                         *)
(***************************************************************************)
EXTENDS BrowserPool, FiniteSetTheorems, SequenceTheorems, TLAPS

\* Where a scraper must hold a permit, where it must not, where it may run.
PermitByPlace ==
  \A s \in Scrapers :
    /\ pc[s] \in {"launch", "use", "close"} => held[s] # 0
    /\ pc[s] \in {"new", "wait", "closed"} => held[s] = 0
    /\ chromium[s] = "live" => pc[s] \in {"use", "close"}

\* Until the first reconfiguration there is one semaphore, made with the cap.
FirstSemaphoreIsTheCap ==
  /\ current = 0 => made <= configured
  /\ configured = 0 /\ made # 0 => size[1] = cap

\* Nobody waits for a semaphore that is not made yet.
UnmadeAreUnused == \A g \in Semaphores : g > made => queue[g] = <<>>

PoolInv ==
  /\ TypeOK /\ FirstSemaphoreIsTheCap /\ UnmadeAreUnused /\ PermitByPlace
  /\ NobodyWaitsForAFreePermit /\ PermitsAreConserved

\* RemoveAt closes the gap and keeps every other entry.
LEMMA RemoveAtEntries ==
  ASSUME NEW S, NEW q \in Seq(S), NEW i \in 1 .. Len(q)
  PROVE  /\ RemoveAt(q, i) \in Seq(S)
         /\ Len(RemoveAt(q, i)) = Len(q) - 1
         /\ \A j \in 1 .. Len(q) - 1 :
              RemoveAt(q, i)[j] = IF j < i THEN q[j] ELSE q[j + 1]
<1> DEFINE before == SubSeq(q, 1, i - 1)
           after  == SubSeq(q, i + 1, Len(q))
<1>1. Len(q) \in Nat /\ i \in Nat /\ \A j \in 1 .. Len(q) : q[j] \in S
  OBVIOUS
<1>2. /\ before \in Seq(S) /\ Len(before) = i - 1
      /\ \A j \in 1 .. i - 1 : before[j] = q[j]
  BY <1>1, SubSeqProperties
<1>3. /\ after \in Seq(S) /\ Len(after) = Len(q) - i
      /\ \A j \in 1 .. Len(q) - i : after[j] = q[i + j]
  <2>1. \A j \in i + 1 .. Len(q) : q[j] \in S
    BY <1>1
  <2>2. /\ after \in Seq(S)
        /\ Len(after) = IF i + 1 <= Len(q) THEN Len(q) - (i + 1) + 1 ELSE 0
        /\ \A j \in 1 .. Len(q) - (i + 1) + 1 : after[j] = q[(i + 1) + j - 1]
    BY <1>1, <2>1, SubSeqProperties
  <2> HIDE DEF after
  <2>3. /\ Len(q) - (i + 1) + 1 = Len(q) - i
        /\ ~(i + 1 <= Len(q)) => Len(q) - i = 0
    BY <1>1
  <2>4. Len(after) = Len(q) - i
    <3>1. Len(after) = IF i + 1 <= Len(q) THEN Len(q) - (i + 1) + 1 ELSE 0
      BY <2>2, Zenon
    <3>2. QED BY <2>3, <3>1, Zenon
  <2>5. ASSUME NEW j \in 1 .. Len(q) - i
        PROVE  after[j] = q[i + j]
    <3>1. (i + 1) + j - 1 = i + j
      BY <1>1
    <3>2. j \in 1 .. Len(q) - (i + 1) + 1
      BY <2>3
    <3>3. after[j] = q[(i + 1) + j - 1]
      BY <2>2, <3>2
    <3>4. QED BY <3>1, <3>3
  <2>6. QED BY <2>2, <2>4, <2>5
<1> HIDE DEF before, after
<1>4. /\ before \o after \in Seq(S)
      /\ Len(before \o after) = Len(before) + Len(after)
      /\ \A j \in 1 .. Len(before) + Len(after) : (before \o after)[j] =
           IF j <= Len(before) THEN before[j] ELSE after[j - Len(before)]
  BY <1>2, <1>3, ConcatProperties
<1>5. RemoveAt(q, i) = before \o after
  BY DEF RemoveAt, before, after
<1>6. ASSUME NEW j \in 1 .. Len(q) - 1
      PROVE  (before \o after)[j] = IF j < i THEN q[j] ELSE q[j + 1]
  <2>1. j \in 1 .. Len(before) + Len(after)
    BY <1>1, <1>2, <1>3
  <2>2. CASE j < i
    BY <1>1, <1>2, <1>4, <2>1, <2>2
  <2>3. CASE ~(j < i)
    <3>1. j - (i - 1) \in 1 .. Len(q) - i /\ i + (j - (i - 1)) = j + 1
      BY <1>1, <2>3
    <3>2. (before \o after)[j] = after[j - (i - 1)]
      BY <1>1, <1>2, <1>4, <2>1, <2>3
    <3>3. QED BY <1>3, <2>3, <3>1, <3>2
  <2>4. QED BY <2>2, <2>3
<1>7. Len(before \o after) = Len(q) - 1
  BY <1>1, <1>2, <1>3, <1>4
<1>8. /\ before \o after \in Seq(S)
      /\ \A j \in 1 .. Len(q) - 1 :
           (before \o after)[j] = IF j < i THEN q[j] ELSE q[j + 1]
  BY <1>4, <1>6
<1>9. QED BY <1>5, <1>7, <1>8, Zenon

---------------------------------------------------------------------------
(* Counting permits.                                                       *)

\* A scraper that held nothing takes a permit of semaphore g.
LEMMA TakingCounts ==
  ASSUME TypeOK, NEW s \in Scrapers, NEW g \in Semaphores, held[s] = 0,
         held' = [held EXCEPT ![s] = g]
  PROVE  \A h \in Semaphores : Cardinality(Holders(h))' =
           IF h = g THEN Cardinality(Holders(h)) + 1 ELSE Cardinality(Holders(h))
<1> SUFFICES ASSUME NEW h \in Semaphores
             PROVE  Cardinality(Holders(h))' =
                      IF h = g THEN Cardinality(Holders(h)) + 1
                      ELSE Cardinality(Holders(h))
  OBVIOUS
<1>1. IsFiniteSet(Holders(h))
  BY PoolAssumption, FS_Subset DEF Holders
<1>2. CASE h = g
  <2>1. Holders(h)' = Holders(h) \cup {s} /\ s \notin Holders(h)
    BY <1>2 DEF Holders, TypeOK, Semaphores
  <2>2. QED BY <1>1, <1>2, <2>1, FS_AddElement
<1>3. CASE h # g
  <2>1. Holders(h)' = Holders(h)
    BY <1>3 DEF Holders, TypeOK, Semaphores
  <2>2. QED BY <1>3, <2>1
<1>4. QED BY <1>2, <1>3

\* A scraper gives back the permit it held.
LEMMA GivingBackCounts ==
  ASSUME TypeOK, NEW s \in Scrapers, NEW g \in Semaphores, held[s] = g,
         held' = [held EXCEPT ![s] = 0]
  PROVE  \A h \in Semaphores : Cardinality(Holders(h))' =
           IF h = g THEN Cardinality(Holders(h)) - 1 ELSE Cardinality(Holders(h))
<1> SUFFICES ASSUME NEW h \in Semaphores
             PROVE  Cardinality(Holders(h))' =
                      IF h = g THEN Cardinality(Holders(h)) - 1
                      ELSE Cardinality(Holders(h))
  OBVIOUS
<1>1. IsFiniteSet(Holders(h))
  BY PoolAssumption, FS_Subset DEF Holders
<1>2. CASE h = g
  <2>1. Holders(h)' = Holders(h) \ {s} /\ s \in Holders(h)
    BY <1>2 DEF Holders, TypeOK, Semaphores
  <2>2. QED BY <1>1, <1>2, <2>1, FS_RemoveElement
<1>3. CASE h # g
  <2>1. Holders(h)' = Holders(h)
    BY <1>3 DEF Holders, TypeOK, Semaphores
  <2>2. QED BY <1>3, <2>1
<1>4. QED BY <1>2, <1>3

\* A scraper hands its permit to one that held none.
LEMMA HandingOverCounts ==
  ASSUME TypeOK, NEW s \in Scrapers, NEW t \in Scrapers, NEW g \in Semaphores,
         held[s] = g, held[t] = 0,
         held' = [held EXCEPT ![s] = 0, ![t] = g]
  PROVE  \A h \in Semaphores : Cardinality(Holders(h))' = Cardinality(Holders(h))
<1> SUFFICES ASSUME NEW h \in Semaphores
             PROVE  Cardinality(Holders(h))' = Cardinality(Holders(h))
  OBVIOUS
<1>1. IsFiniteSet(Holders(h)) /\ IsFiniteSet(Holders(h) \ {s})
  BY PoolAssumption, FS_Subset DEF Holders
<1>2. CASE h = g
  <2>1. /\ Holders(h)' = (Holders(h) \ {s}) \cup {t}
        /\ s \in Holders(h) /\ t \notin Holders(h) \ {s}
    BY <1>2 DEF Holders, TypeOK, Semaphores
  <2>2. Cardinality(Holders(h) \ {s}) = Cardinality(Holders(h)) - 1
    BY <1>1, <2>1, FS_RemoveElement
  <2>3. Cardinality((Holders(h) \ {s}) \cup {t}) = Cardinality(Holders(h) \ {s}) + 1
    BY <1>1, <2>1, FS_AddElement
  <2>4. Cardinality(Holders(h)) \in Nat
    BY <1>1, FS_CardinalityType
  <2>5. QED BY <2>1, <2>2, <2>3, <2>4
<1>3. CASE h # g
  <2>1. Holders(h)' = Holders(h)
    BY <1>3 DEF Holders, TypeOK, Semaphores
  <2>2. QED BY <2>1
<1>4. QED BY <1>2, <1>3

---------------------------------------------------------------------------
(* The queues.                                                             *)

\* When entry i leaves the queue of semaphore g, which becomes q, and its
\* scraper stops to wait, the queues still hold exactly those who wait.
LEMMA LeavingKeepsQueues ==
  ASSUME TypeOK, NobodyWaitsForAFreePermit,
         NEW g \in Semaphores, NEW i \in DOMAIN queue[g],
         NEW q \in Seq(Scrapers), Len(q) = Len(queue[g]) - 1,
         \A j \in 1 .. Len(q) :
           q[j] = IF j < i THEN queue[g][j] ELSE queue[g][j + 1],
         queue' = [queue EXCEPT ![g] = q],
         \A x \in Scrapers : pc'[x] = "wait" <=> pc[x] = "wait" /\ x # queue[g][i],
         \A h \in Semaphores : queue'[h] # <<>> => free'[h] = 0
  PROVE  NobodyWaitsForAFreePermit'
<1> DEFINE from(h, j) == IF h = g /\ j >= i THEN j + 1 ELSE j
<1>1. /\ \A h \in Semaphores : queue[h] \in Seq(Scrapers) /\ Len(queue[h]) \in Nat
      /\ \A h \in Semaphores : DOMAIN queue[h] = 1 .. Len(queue[h])
      /\ i \in 1 .. Len(queue[g])
      /\ \A h \in Semaphores : queue'[h] = IF h = g THEN q ELSE queue[h]
      /\ DOMAIN q = 1 .. Len(q)
  BY DEF TypeOK
<1>2. ASSUME NEW h \in Semaphores, NEW j \in DOMAIN queue'[h]
      PROVE  /\ from(h, j) \in DOMAIN queue[h]
             /\ queue'[h][j] = queue[h][from(h, j)]
             /\ h = g => from(h, j) # i
  <2>1. CASE h = g
    BY <1>1, <2>1
  <2>2. CASE h # g
    BY <1>1, <2>2
  <2>3. QED BY <2>1, <2>2
<1>3. \A h, k \in Semaphores : \A j \in DOMAIN queue'[h], l \in DOMAIN queue'[k] :
        queue'[h][j] = queue'[k][l] => h = k /\ j = l
  <2> SUFFICES ASSUME NEW h \in Semaphores, NEW k \in Semaphores,
                      NEW j \in DOMAIN queue'[h], NEW l \in DOMAIN queue'[k],
                      queue'[h][j] = queue'[k][l]
               PROVE  h = k /\ j = l
    OBVIOUS
  <2>1. h = k /\ from(h, j) = from(k, l)
    BY <1>2 DEF NobodyWaitsForAFreePermit
  <2>2. j \in Nat /\ l \in Nat
    BY <1>1
  <2>3. i \in Nat
    BY <1>1
  <2>4. QED BY <2>1, <2>2, <2>3
<1>4. ASSUME NEW x \in Scrapers, pc'[x] = "wait"
      PROVE  \E h \in Semaphores : x \in Waiting(h)'
  <2>0. PICK h \in Semaphores : x \in Waiting(h)
    BY <1>4 DEF NobodyWaitsForAFreePermit
  <2>1. PICK k \in DOMAIN queue[h] : queue[h][k] = x
    BY <2>0 DEF Waiting
  <2>2. CASE h = g
    <3>1. k # i
      BY <1>4, <2>1, <2>2
    <3>2. k \in 1 .. Len(queue[g]) /\ i \in Nat /\ k \in Nat
      BY <1>1, <2>2
    <3>3. CASE k < i
      <4>1. k \in 1 .. Len(q) /\ q[k] = x
        BY <1>1, <2>1, <2>2, <3>2, <3>3
      <4>2. QED BY <1>1, <4>1 DEF Waiting
    <3>4. CASE k > i
      <4>1. k - 1 \in 1 .. Len(q) /\ q[k - 1] = x
        BY <1>1, <2>1, <2>2, <3>2, <3>4
      <4>2. QED BY <1>1, <4>1 DEF Waiting
    <3>5. QED BY <3>1, <3>2, <3>3, <3>4
  <2>3. CASE h # g
    BY <1>1, <2>1, <2>3 DEF Waiting
  <2>4. QED BY <2>2, <2>3
<1>5. ASSUME NEW x \in Scrapers, NEW h \in Semaphores, x \in Waiting(h)'
      PROVE  pc'[x] = "wait"
  <2>1. PICK j \in DOMAIN queue'[h] : queue'[h][j] = x
    BY <1>5 DEF Waiting
  <2>2. from(h, j) \in DOMAIN queue[h] /\ queue[h][from(h, j)] = x
    BY <1>2, <2>1
  <2>3. pc[x] = "wait"
    BY <2>2 DEF NobodyWaitsForAFreePermit, Waiting
  <2>4. x # queue[g][i]
    <3>1. ASSUME x = queue[g][i] PROVE h = g /\ from(h, j) = i
      BY <2>2, <3>1 DEF NobodyWaitsForAFreePermit
    <3>2. h = g => from(h, j) # i
      BY <1>2
    <3>3. QED BY <3>1, <3>2
  <2>5. QED BY <2>3, <2>4
<1>6. \A h \in Semaphores : queue'[h] # <<>> => free'[h] = 0
  OBVIOUS
<1> HIDE DEF from
<1>7. QED BY <1>3, <1>4, <1>5, <1>6 DEF NobodyWaitsForAFreePermit

\* A scraper that did not wait joins the end of a queue it has to wait in.
LEMMA JoiningKeepsQueues ==
  ASSUME TypeOK, NobodyWaitsForAFreePermit,
         NEW g \in Semaphores, NEW s \in Scrapers, pc[s] # "wait",
         free[g] = 0 \/ queue[g] # <<>>,
         queue' = [queue EXCEPT ![g] = Append(@, s)],
         pc' = [pc EXCEPT ![s] = "wait"], free' = free
  PROVE  NobodyWaitsForAFreePermit'
<1>1. /\ \A h \in Semaphores : queue[h] \in Seq(Scrapers) /\ Len(queue[h]) \in Nat
      /\ \A h \in Semaphores : DOMAIN queue[h] = 1 .. Len(queue[h])
      /\ \A h \in Semaphores \ {g} : queue'[h] = queue[h]
      /\ queue'[g] = Append(queue[g], s)
      /\ DOMAIN queue'[g] = 1 .. Len(queue[g]) + 1
      /\ \A j \in 1 .. Len(queue[g]) : queue'[g][j] = queue[g][j]
      /\ queue'[g][Len(queue[g]) + 1] = s
  BY DEF TypeOK
<1>2. \A h \in Semaphores : \A j \in DOMAIN queue[h] : queue[h][j] # s
  BY DEF NobodyWaitsForAFreePermit, Waiting
<1>3. \A h \in Semaphores : \A j \in DOMAIN queue'[h] :
        \/ j \in DOMAIN queue[h] /\ queue'[h][j] = queue[h][j]
        \/ h = g /\ j = Len(queue[g]) + 1 /\ queue'[h][j] = s
  <2> SUFFICES ASSUME NEW h \in Semaphores, NEW j \in DOMAIN queue'[h]
               PROVE  \/ j \in DOMAIN queue[h] /\ queue'[h][j] = queue[h][j]
                      \/ h = g /\ j = Len(queue[g]) + 1 /\ queue'[h][j] = s
    OBVIOUS
  <2>1. CASE h = g
    BY <1>1, <2>1
  <2>2. CASE h # g
    BY <1>1, <2>2
  <2>3. QED BY <2>1, <2>2
<1>4. \A h, k \in Semaphores : \A j \in DOMAIN queue'[h], l \in DOMAIN queue'[k] :
        queue'[h][j] = queue'[k][l] => h = k /\ j = l
  BY <1>2, <1>3 DEF NobodyWaitsForAFreePermit
<1>5. ASSUME NEW x \in Scrapers, pc'[x] = "wait"
      PROVE  \E h \in Semaphores : x \in Waiting(h)'
  <2>1. CASE x = s
    <3>1. Len(queue[g]) + 1 \in DOMAIN queue'[g]
      BY <1>1
    <3>2. QED BY <1>1, <2>1, <3>1 DEF Waiting
  <2>2. CASE x # s
    <3>1. pc[x] = "wait"
      BY <1>5, <2>2 DEF TypeOK
    <3>a. PICK h \in Semaphores : x \in Waiting(h)
      BY <3>1 DEF NobodyWaitsForAFreePermit
    <3>2. PICK k \in DOMAIN queue[h] : queue[h][k] = x
      BY <3>a DEF Waiting
    <3>3. k \in DOMAIN queue'[h] /\ queue'[h][k] = x
      BY <1>1, <3>2
    <3>4. QED BY <3>3 DEF Waiting
  <2>3. QED BY <2>1, <2>2
<1>6. ASSUME NEW x \in Scrapers, NEW h \in Semaphores, x \in Waiting(h)'
      PROVE  pc'[x] = "wait"
  <2>1. PICK j \in DOMAIN queue'[h] : queue'[h][j] = x
    BY <1>6 DEF Waiting
  <2>2. CASE x = s
    BY <2>2 DEF TypeOK
  <2>3. CASE x # s
    <3>1. j \in DOMAIN queue[h] /\ queue[h][j] = x
      BY <1>3, <2>1, <2>3
    <3>2. pc[x] = "wait"
      BY <3>1 DEF NobodyWaitsForAFreePermit, Waiting
    <3>3. QED BY <2>3, <3>2 DEF TypeOK
  <2>4. QED BY <2>2, <2>3
<1>7. ASSUME NEW h \in Semaphores, queue'[h] # <<>> PROVE free'[h] = 0
  <2>1. CASE h = g
    BY <2>1 DEF NobodyWaitsForAFreePermit
  <2>2. CASE h # g
    BY <1>1, <1>7, <2>2 DEF NobodyWaitsForAFreePermit
  <2>3. QED BY <2>1, <2>2
<1>8. QED BY <1>4, <1>5, <1>6, <1>7 DEF NobodyWaitsForAFreePermit

\* Nobody joined or left a queue, and no permit came free where one waits.
LEMMA StandingKeepsQueues ==
  ASSUME NobodyWaitsForAFreePermit, queue' = queue,
         \A x \in Scrapers : pc'[x] = "wait" <=> pc[x] = "wait",
         \A h \in Semaphores : queue[h] # <<>> => free'[h] = 0
  PROVE  NobodyWaitsForAFreePermit'
BY DEF NobodyWaitsForAFreePermit, Waiting

---------------------------------------------------------------------------
(* The initial state, and each action.                                     *)

\* No semaphore is made and nobody holds anything.
LEMMA InitPool == Init => PoolInv
<1> SUFFICES ASSUME Init PROVE PoolInv
  OBVIOUS
<1>1. TypeOK
  BY PoolAssumption DEF Init, TypeOK, Semaphores
<1>2. FirstSemaphoreIsTheCap /\ UnmadeAreUnused /\ PermitByPlace
  BY DEF Init, FirstSemaphoreIsTheCap, UnmadeAreUnused, PermitByPlace
<1>3. NobodyWaitsForAFreePermit
  <2>1. \A g \in Semaphores : queue[g] = <<>> /\ DOMAIN queue[g] = {}
    BY DEF Init
  <2>2. \A s \in Scrapers : pc[s] # "wait"
    BY DEF Init
  <2>3. QED BY <2>1, <2>2 DEF NobodyWaitsForAFreePermit, Waiting
<1>4. PermitsAreConserved
  <2>1. \A g \in Semaphores : Holders(g) = {} /\ free[g] = 0 /\ size[g] = 0
    BY DEF Init, Holders, Semaphores
  <2>2. QED BY <2>1, FS_EmptySet DEF PermitsAreConserved
<1>5. QED BY <1>1, <1>2, <1>3, <1>4 DEF PoolInv

\* The holders depend on nothing but held, the permits on nothing else.
LEMMA SameHolders ==
  ASSUME held' = held PROVE \A g \in Semaphores : Holders(g)' = Holders(g)
BY DEF Holders

\* The old semaphore keeps its holders and its queue.
LEMMA ConfigureLimitsKeeps ==
  ASSUME PoolInv, NEW c \in Caps, ConfigureLimits(c) PROVE PoolInv'
<1>1. TypeOK'
  BY PoolAssumption DEF PoolInv, TypeOK, ConfigureLimits
<1>2. FirstSemaphoreIsTheCap' /\ UnmadeAreUnused' /\ PermitByPlace'
  BY PoolAssumption DEF PoolInv, TypeOK, ConfigureLimits, FirstSemaphoreIsTheCap,
     UnmadeAreUnused, PermitByPlace
<1>3. NobodyWaitsForAFreePermit'
  BY StandingKeepsQueues DEF PoolInv, ConfigureLimits, NobodyWaitsForAFreePermit
<1>4. PermitsAreConserved'
  BY SameHolders DEF PoolInv, ConfigureLimits, PermitsAreConserved
<1>5. QED BY <1>1, <1>2, <1>3, <1>4 DEF PoolInv

\* The new semaphore has nobody in its queue and one holder.
LEMMA AcquireFirstKeeps ==
  ASSUME PoolInv, NEW s \in Scrapers, AcquireFirst(s) PROVE PoolInv'
<1>1. /\ made + 1 \in Semaphores /\ made <= configured
      /\ configured \in 0 .. MaxConfigures /\ made \in Nat /\ cap \in Nat \ {0}
  BY PoolAssumption DEF PoolInv, TypeOK, AcquireFirst, FirstSemaphoreIsTheCap, Semaphores
<1>2. held[s] = 0
  BY DEF PoolInv, PermitByPlace, AcquireFirst
<1>3. TypeOK'
  BY <1>1, PoolAssumption DEF PoolInv, TypeOK, AcquireFirst
<1>4. FirstSemaphoreIsTheCap'
  BY <1>1 DEF PoolInv, TypeOK, AcquireFirst, FirstSemaphoreIsTheCap
<1>5. UnmadeAreUnused'
  BY <1>1 DEF PoolInv, AcquireFirst, UnmadeAreUnused, Semaphores
<1>6. PermitByPlace'
  BY <1>1 DEF PoolInv, TypeOK, AcquireFirst, PermitByPlace
<1>7. NobodyWaitsForAFreePermit'
  <2>1. queue[made + 1] = <<>>
    BY <1>1 DEF PoolInv, UnmadeAreUnused
  <2>2. \A h \in Semaphores : queue[h] # <<>> => free'[h] = 0
    BY <1>1, <2>1 DEF PoolInv, TypeOK, AcquireFirst, NobodyWaitsForAFreePermit
  <2>3. \A x \in Scrapers : pc'[x] = "wait" <=> pc[x] = "wait"
    BY DEF PoolInv, TypeOK, AcquireFirst
  <2>4. QED BY <2>2, <2>3, StandingKeepsQueues DEF PoolInv, AcquireFirst
<1>8. PermitsAreConserved'
  <2>1. \A h \in Semaphores : Cardinality(Holders(h))' =
          IF h = made + 1 THEN Cardinality(Holders(h)) + 1 ELSE Cardinality(Holders(h))
    BY <1>1, <1>2, TakingCounts DEF PoolInv, AcquireFirst
  <2>2. Holders(made + 1) = {}
    BY <1>1 DEF PoolInv, TypeOK, Holders
  <2>3. Cardinality(Holders(made + 1)) = 0
    BY <2>2, FS_EmptySet
  <2>4. /\ free'[made + 1] = cap - 1 /\ size'[made + 1] = cap
        /\ \A h \in Semaphores \ {made + 1} : free'[h] = free[h] /\ size'[h] = size[h]
    BY <1>1 DEF PoolInv, TypeOK, AcquireFirst
  <2>5. SUFFICES ASSUME NEW h \in Semaphores
                 PROVE  free'[h] + Cardinality(Holders(h))' = size'[h]
    BY DEF PermitsAreConserved
  <2>6. CASE h = made + 1
    BY <1>1, <2>1, <2>3, <2>4, <2>6
  <2>7. CASE h # made + 1
    <3>1. free[h] + Cardinality(Holders(h)) = size[h]
      BY DEF PoolInv, PermitsAreConserved
    <3>2. QED BY <2>1, <2>4, <2>7, <3>1
  <2>8. QED BY <2>6, <2>7
<1>9. QED BY <1>3, <1>4, <1>5, <1>6, <1>7, <1>8 DEF PoolInv

\* A semaphore in use is one of those made, and within the bound.
LEMMA CurrentIsMade ==
  ASSUME PoolInv
  PROVE  /\ current # 0 => current \in Semaphores /\ current <= made
         /\ \A s \in Scrapers : held[s] # 0 => held[s] \in Semaphores /\ held[s] <= made
BY PoolAssumption DEF PoolInv, TypeOK, Semaphores

\* A permit that is free goes to somebody who holds none.
LEMMA AcquireKeeps ==
  ASSUME PoolInv, NEW s \in Scrapers, Acquire(s) PROVE PoolInv'
<1>1. current \in Semaphores /\ current <= made
  BY CurrentIsMade DEF Acquire
<1>2. held[s] = 0
  BY DEF PoolInv, PermitByPlace, Acquire
<1>3. /\ free[current] \in Nat \ {0}
      /\ \A h \in Semaphores : free'[h] = IF h = current THEN free[h] - 1 ELSE free[h]
  BY <1>1 DEF PoolInv, TypeOK, Acquire
<1>4. TypeOK'
  BY <1>1, <1>3 DEF PoolInv, TypeOK, Acquire
<1>5. FirstSemaphoreIsTheCap' /\ UnmadeAreUnused'
  BY DEF PoolInv, Acquire, FirstSemaphoreIsTheCap, UnmadeAreUnused
<1>6. PermitByPlace'
  BY <1>1 DEF PoolInv, TypeOK, Acquire, PermitByPlace
<1>7. NobodyWaitsForAFreePermit'
  <2>1. \A h \in Semaphores : queue[h] # <<>> => free'[h] = 0
    BY <1>3 DEF PoolInv, Acquire, NobodyWaitsForAFreePermit
  <2>2. \A x \in Scrapers : pc'[x] = "wait" <=> pc[x] = "wait"
    BY DEF PoolInv, TypeOK, Acquire
  <2>3. QED BY <2>1, <2>2, StandingKeepsQueues DEF PoolInv, Acquire
<1>8. PermitsAreConserved'
  <2>1. \A h \in Semaphores : Cardinality(Holders(h))' =
          IF h = current THEN Cardinality(Holders(h)) + 1 ELSE Cardinality(Holders(h))
    BY <1>1, <1>2, TakingCounts DEF PoolInv, Acquire
  <2>2. SUFFICES ASSUME NEW h \in Semaphores
                 PROVE  free'[h] + Cardinality(Holders(h))' = size[h]
    BY DEF PermitsAreConserved, Acquire
  <2>3. /\ free[h] + Cardinality(Holders(h)) = size[h]
        /\ free[h] \in Nat /\ Cardinality(Holders(h)) \in Nat
    BY PoolAssumption, FS_Subset, FS_CardinalityType
    DEF PoolInv, TypeOK, PermitsAreConserved, Holders
  <2>4. QED BY <1>3, <2>1, <2>3
<1>9. QED BY <1>4, <1>5, <1>6, <1>7, <1>8 DEF PoolInv

\* Who cannot have a permit now stands at the end of the queue.
LEMMA EnqueueKeeps ==
  ASSUME PoolInv, NEW s \in Scrapers, Enqueue(s) PROVE PoolInv'
<1>1. current \in Semaphores /\ current <= made
  BY CurrentIsMade DEF Enqueue
<1>2. queue'[current] = Append(queue[current], s) /\ queue'[current] \in Seq(Scrapers)
  BY <1>1 DEF PoolInv, TypeOK, Enqueue
<1>3. TypeOK'
  BY <1>1, <1>2 DEF PoolInv, TypeOK, Enqueue
<1>4. FirstSemaphoreIsTheCap'
  BY DEF PoolInv, Enqueue, FirstSemaphoreIsTheCap
<1>5. UnmadeAreUnused'
  BY <1>1 DEF PoolInv, TypeOK, Enqueue, UnmadeAreUnused, Semaphores
<1>6. PermitByPlace'
  BY DEF PoolInv, TypeOK, Enqueue, PermitByPlace
<1>7. NobodyWaitsForAFreePermit'
  <2>1. pc[s] # "wait"
    BY DEF Enqueue
  <2>2. QED BY <1>1, <2>1, JoiningKeepsQueues DEF PoolInv, Enqueue
<1>8. PermitsAreConserved'
  BY SameHolders DEF PoolInv, Enqueue, PermitsAreConserved
<1>9. QED BY <1>3, <1>4, <1>5, <1>6, <1>7, <1>8 DEF PoolInv

\* A cancelled waiter leaves its place, and the others keep their order.
LEMMA CancelWaitKeeps ==
  ASSUME PoolInv, NEW s \in Scrapers, CancelWait(s) PROVE PoolInv'
<1>1. PICK g \in Semaphores : \E i \in DOMAIN queue[g] :
        queue[g][i] = s /\ queue' = [queue EXCEPT ![g] = RemoveAt(@, i)]
  BY DEF CancelWait
<1>2. PICK i \in DOMAIN queue[g] :
        queue[g][i] = s /\ queue' = [queue EXCEPT ![g] = RemoveAt(@, i)]
  BY <1>1
<1> DEFINE q == RemoveAt(queue[g], i)
<1>3. queue[g] \in Seq(Scrapers) /\ i \in 1 .. Len(queue[g])
  BY DEF PoolInv, TypeOK
<1>4. /\ q \in Seq(Scrapers) /\ Len(q) = Len(queue[g]) - 1
      /\ \A j \in 1 .. Len(queue[g]) - 1 :
           q[j] = IF j < i THEN queue[g][j] ELSE queue[g][j + 1]
  BY <1>3, RemoveAtEntries
<1>5. queue' = [queue EXCEPT ![g] = q]
  BY <1>2
<1> HIDE DEF q
<1>6. TypeOK'
  BY <1>4, <1>5 DEF PoolInv, TypeOK, CancelWait
<1>7. FirstSemaphoreIsTheCap'
  BY DEF PoolInv, CancelWait, FirstSemaphoreIsTheCap
<1>8. UnmadeAreUnused'
  <2>1. queue[g] # <<>>
    BY <1>3
  <2>2. ~(g > made)
    BY <2>1 DEF PoolInv, UnmadeAreUnused
  <2>3. \A h \in Semaphores \ {g} : queue'[h] = queue[h]
    BY <1>5 DEF PoolInv, TypeOK
  <2>4. QED BY <2>2, <2>3 DEF PoolInv, UnmadeAreUnused, CancelWait
<1>9. PermitByPlace'
  BY DEF PoolInv, TypeOK, CancelWait, PermitByPlace
<1>10. NobodyWaitsForAFreePermit'
  <2>1. \A x \in Scrapers : pc'[x] = "wait" <=> pc[x] = "wait" /\ x # queue[g][i]
    BY <1>2 DEF PoolInv, TypeOK, CancelWait
  <2>2. ASSUME NEW h \in Semaphores, queue'[h] # <<>> PROVE free'[h] = 0
    <3>1. CASE h = g
      <4>1. queue[g] # <<>>
        BY <1>3
      <4>2. QED BY <3>1, <4>1 DEF PoolInv, CancelWait, NobodyWaitsForAFreePermit
    <3>2. CASE h # g
      <4>1. queue'[h] = queue[h]
        BY <1>5, <3>2 DEF PoolInv, TypeOK
      <4>2. QED BY <2>2, <4>1 DEF PoolInv, CancelWait, NobodyWaitsForAFreePermit
    <3>3. QED BY <3>1, <3>2
  <2>3. \A j \in 1 .. Len(q) : q[j] = IF j < i THEN queue[g][j] ELSE queue[g][j + 1]
    BY <1>4
  <2>4. QED BY <1>4, <1>5, <2>1, <2>2, <2>3, LeavingKeepsQueues DEF PoolInv
<1>11. PermitsAreConserved'
  BY SameHolders DEF PoolInv, CancelWait, PermitsAreConserved
<1>12. QED BY <1>6, <1>7, <1>8, <1>9, <1>10, <1>11 DEF PoolInv

\* Steps in which a scraper that holds its permit goes on with its browser.
LEMMA UsingKeeps ==
  ASSUME PoolInv, NEW s \in Scrapers, Launch(s) \/ Finish(s) \/ CloseBrowser(s)
  PROVE  PoolInv'
<1>1. UNCHANGED <<cap, configured, current, made, size, free, queue, held>>
  BY DEF Launch, Finish, CloseBrowser, semaphores
<1>2. TypeOK'
  BY <1>1 DEF PoolInv, TypeOK, Launch, Finish, CloseBrowser
<1>3. FirstSemaphoreIsTheCap' /\ UnmadeAreUnused'
  BY <1>1 DEF PoolInv, FirstSemaphoreIsTheCap, UnmadeAreUnused
<1>4. PermitByPlace'
  BY <1>1 DEF PoolInv, TypeOK, Launch, Finish, CloseBrowser, PermitByPlace
<1>5. NobodyWaitsForAFreePermit'
  <2>1. \A x \in Scrapers : pc'[x] = "wait" <=> pc[x] = "wait"
    BY DEF PoolInv, TypeOK, Launch, Finish, CloseBrowser
  <2>2. QED BY <1>1, <2>1, StandingKeepsQueues DEF PoolInv, NobodyWaitsForAFreePermit
<1>6. PermitsAreConserved'
  BY <1>1, SameHolders DEF PoolInv, PermitsAreConserved
<1>7. QED BY <1>2, <1>3, <1>4, <1>5, <1>6 DEF PoolInv

\* A permit that is given back goes to the head of the queue, or becomes free.
LEMMA ReleaseKeeps ==
  ASSUME PoolInv, NEW s \in Scrapers, NEW next \in {"stop", "closed"},
         pc[s] \in {"launch", "close", "stop"}, Release(s, next),
         UNCHANGED <<cap, configured, current, made, size>>,
         chromium' \in [Scrapers -> {"none", "live", "hung"}],
         chromium'[s] # "live",
         \A x \in Scrapers \ {s} : chromium'[x] = chromium[x]
  PROVE  PoolInv'
<1>1. FirstSemaphoreIsTheCap'
  BY DEF PoolInv, FirstSemaphoreIsTheCap
<1>2. CASE held[s] = 0
  <2>1. pc' = [pc EXCEPT ![s] = next] /\ UNCHANGED <<free, queue, held>>
    BY <1>2 DEF Release
  <2>2. TypeOK'
    BY <2>1 DEF PoolInv, TypeOK
  <2>3. UnmadeAreUnused' /\ PermitByPlace'
    BY <1>2, <2>1 DEF PoolInv, TypeOK, UnmadeAreUnused, PermitByPlace
  <2>4. \A x \in Scrapers : pc'[x] = "wait" <=> pc[x] = "wait"
    BY <2>1 DEF PoolInv, TypeOK
  <2>5. NobodyWaitsForAFreePermit'
    BY <2>1, <2>4, StandingKeepsQueues DEF PoolInv, NobodyWaitsForAFreePermit
  <2>6. PermitsAreConserved'
    BY <2>1, SameHolders DEF PoolInv, PermitsAreConserved
  <2>7. QED BY <1>1, <2>2, <2>3, <2>5, <2>6 DEF PoolInv
<1>3. CASE held[s] # 0
  <2> DEFINE g == held[s]
  <2>1. held[s] = g /\ g \in Semaphores /\ g <= made /\ g # 0
    BY <1>3, CurrentIsMade
  <2>2. \A h \in Semaphores : /\ free[h] + Cardinality(Holders(h)) = size[h]
                              /\ free[h] \in Nat /\ Cardinality(Holders(h)) \in Nat
    BY PoolAssumption, FS_Subset, FS_CardinalityType
    DEF PoolInv, TypeOK, PermitsAreConserved, Holders
  <2>3. CASE queue[g] = <<>>
    <3>1. /\ free' = [free EXCEPT ![g] = @ + 1] /\ held' = [held EXCEPT ![s] = 0]
          /\ pc' = [pc EXCEPT ![s] = next] /\ UNCHANGED queue
      BY <1>3, <2>3 DEF Release
    <3>2. \A h \in Semaphores : free'[h] = IF h = g THEN free[h] + 1 ELSE free[h]
      BY <2>1, <3>1 DEF PoolInv, TypeOK
    <3>3. TypeOK'
      BY <2>1, <3>1 DEF PoolInv, TypeOK
    <3>4. UnmadeAreUnused' /\ PermitByPlace'
      BY <3>1 DEF PoolInv, TypeOK, UnmadeAreUnused, PermitByPlace
    <3>5. NobodyWaitsForAFreePermit'
      <4>1. \A h \in Semaphores : queue[h] # <<>> => free'[h] = 0
        BY <2>3, <3>2 DEF PoolInv, NobodyWaitsForAFreePermit
      <4>2. \A x \in Scrapers : pc'[x] = "wait" <=> pc[x] = "wait"
        BY <3>1 DEF PoolInv, TypeOK
      <4>3. QED BY <3>1, <4>1, <4>2, StandingKeepsQueues DEF PoolInv
    <3>6. PermitsAreConserved'
      <4>1. \A h \in Semaphores : Cardinality(Holders(h))' =
              IF h = g THEN Cardinality(Holders(h)) - 1 ELSE Cardinality(Holders(h))
        BY <2>1, <3>1, GivingBackCounts DEF PoolInv
      <4>2. \A h \in Semaphores : free'[h] + Cardinality(Holders(h))' = size[h]
        BY <2>2, <3>2, <4>1
      <4>3. QED BY <4>2 DEF PermitsAreConserved
    <3>7. QED BY <1>1, <3>3, <3>4, <3>5, <3>6 DEF PoolInv
  <2>4. CASE queue[g] # <<>>
    <3> DEFINE t == Head(queue[g])
               q == Tail(queue[g])
    <3>1. /\ queue' = [queue EXCEPT ![g] = q]
          /\ held' = [held EXCEPT ![s] = 0, ![t] = g]
          /\ pc' = [pc EXCEPT ![s] = next, ![t] = "launch"]
          /\ UNCHANGED free
      BY <1>3, <2>4 DEF Release
    <3>2. queue[g] \in Seq(Scrapers)
      BY <2>1 DEF PoolInv, TypeOK
    <3>3. /\ t \in Scrapers /\ t = queue[g][1] /\ 1 \in DOMAIN queue[g]
          /\ q \in Seq(Scrapers) /\ Len(q) = Len(queue[g]) - 1
          /\ \A j \in 1 .. Len(q) : q[j] = queue[g][j + 1]
      <4>1. /\ t \in Scrapers /\ q \in Seq(Scrapers) /\ Len(q) = Len(queue[g]) - 1
            /\ \A j \in 1 .. Len(q) : q[j] = queue[g][j + 1]
        BY <2>4, <3>2, HeadTailProperties
      <4>2. t = queue[g][1] /\ 1 \in DOMAIN queue[g]
        BY <2>4, <3>2
      <4>3. QED BY <4>1, <4>2
    <3>4. t \in Waiting(g)
      BY <3>3 DEF Waiting
    <3>5. pc[t] = "wait" /\ t # s /\ held[t] = 0
      BY <2>1, <3>3, <3>4 DEF PoolInv, NobodyWaitsForAFreePermit, PermitByPlace
    <3> HIDE DEF g, t, q
    <3>6. TypeOK'
      <4>1. held' \in [Scrapers -> 0 .. made] /\ queue' \in [Semaphores -> Seq(Scrapers)]
        <5>1. g \in 0 .. made /\ 0 \in 0 .. made
          BY <2>1 DEF PoolInv, TypeOK, Semaphores
        <5>2. QED BY <3>1, <3>3, <5>1 DEF PoolInv, TypeOK
      <4>2. pc' \in [Scrapers -> {"new", "wait", "launch", "use", "close", "stop", "closed"}]
        BY <3>1 DEF PoolInv, TypeOK
      <4>3. QED BY <3>1, <4>1, <4>2 DEF PoolInv, TypeOK
    <3>7. UnmadeAreUnused'
      <4>1. \A h \in Semaphores \ {g} : queue'[h] = queue[h]
        BY <3>1 DEF PoolInv, TypeOK
      <4>2. ~(g > made)
        BY <2>1, <2>4 DEF PoolInv, UnmadeAreUnused
      <4>3. QED BY <4>1, <4>2 DEF PoolInv, UnmadeAreUnused
    <3>8. PermitByPlace'
      BY <2>1, <3>1, <3>3, <3>5 DEF PoolInv, TypeOK, PermitByPlace
    <3>9. NobodyWaitsForAFreePermit'
      <4>1. \A j \in 1 .. Len(q) : q[j] = IF j < 1 THEN queue[g][j] ELSE queue[g][j + 1]
        BY <3>3
      <4>2. \A x \in Scrapers : pc'[x] = "wait" <=> pc[x] = "wait" /\ x # queue[g][1]
        BY <3>1, <3>3, <3>5 DEF PoolInv, TypeOK
      <4>3. ASSUME NEW h \in Semaphores, queue'[h] # <<>> PROVE free'[h] = 0
        <5>1. queue[h] # <<>>
          BY <2>4, <3>1, <4>3 DEF PoolInv, TypeOK
        <5>2. QED BY <3>1, <5>1 DEF PoolInv, NobodyWaitsForAFreePermit
      <4>4. TypeOK /\ NobodyWaitsForAFreePermit
        BY DEF PoolInv
      <4>5. /\ g \in Semaphores /\ 1 \in DOMAIN queue[g]
            /\ q \in Seq(Scrapers) /\ Len(q) = Len(queue[g]) - 1
            /\ queue' = [queue EXCEPT ![g] = q]
        BY <2>1, <3>1, <3>3
      <4>6. QED BY <4>1, <4>2, <4>3, <4>4, <4>5, LeavingKeepsQueues
    <3>10. PermitsAreConserved'
      <4>1. \A h \in Semaphores : Cardinality(Holders(h))' = Cardinality(Holders(h))
        BY <2>1, <3>1, <3>3, <3>5, HandingOverCounts DEF PoolInv
      <4>2. QED BY <2>2, <3>1, <4>1 DEF PermitsAreConserved
    <3>11. QED BY <1>1, <3>6, <3>7, <3>8, <3>9, <3>10 DEF PoolInv
  <2>5. QED BY <2>3, <2>4
<1>4. QED BY <1>2, <1>3

\* The three steps that release: each leaves no running browser behind.
LEMMA ReleasingKeeps ==
  ASSUME PoolInv, NEW s \in Scrapers,
         LaunchFails(s) \/ CloseRaises(s) \/ StopPlaywright(s)
  PROVE  PoolInv'
<1>1. CASE LaunchFails(s)
  <2>1. chromium[s] # "live"
    BY <1>1 DEF PoolInv, PermitByPlace, LaunchFails
  <2>2. QED BY <1>1, <2>1, ReleaseKeeps DEF PoolInv, TypeOK, LaunchFails
<1>2. CASE CloseRaises(s)
  BY <1>2, ReleaseKeeps DEF PoolInv, TypeOK, CloseRaises
<1>3. CASE StopPlaywright(s)
  <2>1. chromium[s] # "live"
    BY <1>3 DEF PoolInv, PermitByPlace, StopPlaywright
  <2>2. QED BY <1>3, <2>1, ReleaseKeeps DEF PoolInv, TypeOK, StopPlaywright
<1>4. QED BY <1>1, <1>2, <1>3

\* PoolInv is inductive.
LEMMA NextKeepsPool == PoolInv /\ [Next]_vars => PoolInv'
<1> SUFFICES ASSUME PoolInv, [Next]_vars PROVE PoolInv'
  OBVIOUS
<1>1. ASSUME NEW c \in Caps, ConfigureLimits(c) PROVE PoolInv'
  BY <1>1, ConfigureLimitsKeeps
<1>2. ASSUME NEW s \in Scrapers, ScraperStep(s) PROVE PoolInv'
  BY <1>2, AcquireFirstKeeps, AcquireKeeps, EnqueueKeeps, UsingKeeps, ReleasingKeeps
  DEF ScraperStep
<1>3. ASSUME NEW s \in Scrapers, CancelWait(s) PROVE PoolInv'
  BY <1>3, CancelWaitKeeps
<1>4. CASE UNCHANGED vars
  BY <1>4 DEF vars, semaphores, PoolInv, TypeOK, FirstSemaphoreIsTheCap,
     UnmadeAreUnused, PermitByPlace, NobodyWaitsForAFreePermit, Waiting,
     PermitsAreConserved, Holders
<1>5. QED BY <1>1, <1>2, <1>3, <1>4 DEF Next

\* PoolInv holds in every reachable state.
LEMMA PoolInvariant == Spec => []PoolInv
BY InitPool, NextKeepsPool, PTL DEF Spec

---------------------------------------------------------------------------
(* The theorems.                                                           *)

\* The state of the pool and its semaphores keeps its types.
THEOREM PoolTypes == Spec => []TypeOK
<1>1. PoolInv => TypeOK
  BY DEF PoolInv
<1>2. QED BY <1>1, PoolInvariant, PTL

\* _init_browser, _release_semaphore and close lose no permit and make none,
\* whatever fails, is cancelled or is reconfigured meanwhile.
THEOREM PermitsConserved == Spec => []PermitsAreConserved
<1>1. PoolInv => PermitsAreConserved
  BY DEF PoolInv
<1>2. QED BY <1>1, PoolInvariant, PTL

\* A scraper waits in one place of one queue, and only while no permit is free.
THEOREM NoIdlePermit == Spec => []NobodyWaitsForAFreePermit
<1>1. PoolInv => NobodyWaitsForAFreePermit
  BY DEF PoolInv
<1>2. QED BY <1>1, PoolInvariant, PTL

\* A browser runs only under a permit its scraper holds.
THEOREM RunningIsPermitted == Spec => []RunningHoldsAPermit
<1>1. PoolInv => RunningHoldsAPermit
  BY DEF PoolInv, PermitByPlace, RunningHoldsAPermit, Running
<1>2. QED BY <1>1, PoolInvariant, PTL

\* GOOGLE_MAPS_MAX_CONCURRENT_BROWSERS bounds the browsers that run, for every
\* number of scrapers and every cap: they are holders of the one semaphore.
THEOREM CapIsKept == Spec => []CapHolds
<1>1. ASSUME PoolInv, configured = 0 PROVE Cardinality(Running) <= cap
  <2>1. \A s \in Running : held[s] # 0
    BY <1>1 DEF PoolInv, PermitByPlace, Running
  <2>2. made \in 0 .. 1 /\ cap \in Nat /\ 1 \in Semaphores
    BY <1>1, PoolAssumption DEF PoolInv, TypeOK, Semaphores
  <2>3. CASE made = 0
    <3>1. Running = {}
      BY <1>1, <2>1, <2>3 DEF PoolInv, TypeOK, Running
    <3>2. QED BY <2>2, <3>1, FS_EmptySet
  <2>4. CASE made = 1
    <3>1. Running \subseteq Holders(1)
      BY <1>1, <2>1, <2>4 DEF PoolInv, TypeOK, Running, Holders
    <3>2. IsFiniteSet(Holders(1))
      BY PoolAssumption, FS_Subset DEF Holders
    <3>3. /\ Cardinality(Running) <= Cardinality(Holders(1))
          /\ Cardinality(Running) \in Nat /\ Cardinality(Holders(1)) \in Nat
      BY <3>1, <3>2, FS_Subset, FS_CardinalityType
    <3>4. free[1] + Cardinality(Holders(1)) = cap /\ free[1] \in Nat
      BY <1>1, <2>2, <2>4
      DEF PoolInv, TypeOK, PermitsAreConserved, FirstSemaphoreIsTheCap
    <3>5. QED BY <2>2, <3>3, <3>4
  <2>5. QED BY <2>2, <2>3, <2>4
<1>2. PoolInv => CapHolds
  BY <1>1 DEF CapHolds
<1>3. QED BY <1>2, PoolInvariant, PTL
================================================================================
