------------------------- MODULE MonitorRegistryProofs -------------------------
(***************************************************************************)
(* MonitorRegistry, for every number of monitors, owners, workers and      *)
(* requests, every TTL and every interval: the types, the rule that a live *)
(* monitor's owner-index entry outlives it, and the one that a monitor     *)
(* checked in time does not lapse.                                         *)
(*                                                                         *)
(* IndexOutlivesMonitor is not inductive alone: RememberOwner restores it  *)
(* only because no record can outlive a TTL counted from now (WithinTTL),  *)
(* and only for the owner the actor has in hand (TypeOK).                  *)
(***************************************************************************)
EXTENDS MonitorRegistry, TLAPS

RegistryInv == TypeOK /\ WithinTTL /\ IndexOutlivesMonitor

\* Init gives every variable its type.
LEMMA InitTypes == Init => TypeOK
BY RegistryAssumption
   DEF Init, TypeOK, Actors, ActorPC

\* The step of every actor keeps the types: the requests' own steps.
LEMMA ClientTypes ==
  ASSUME TypeOK, NEW c \in Clients, ClientStep(c)
  PROVE  TypeOK'
<1> USE RegistryAssumption DEF TypeOK, Actors, ActorPC, Release, PutMonitor,
        DropMonitor, tick, ledger, store
<1>1. CASE \E m \in Monitors : CreateMonitor(c, m)
  BY <1>1 DEF CreateMonitor
<1>2. CASE \E m \in Monitors : DeleteMonitor(c, m)
  BY <1>2 DEF DeleteMonitor
<1>3. ASSUME NEW m \in Monitors, CheckNow(c, m)
      PROVE  TypeOK'
  <2>1. pc' = [pc EXCEPT ![c] = "fetch"] /\ mon' = [mon EXCEPT ![c] = m]
    BY <1>3 DEF CheckNow, ReadForCheck
  <2>2. startedAt' = [startedAt EXCEPT ![c] = clock]
    BY <1>3 DEF CheckNow, ReadForCheck
  <2>3. QED BY <1>3, <2>1, <2>2 DEF CheckNow
<1>4. CASE ScanOwner(c)
  BY <1>4 DEF ScanOwner, OwnedBy
<1>5. CASE ReadScanned(c)
  BY <1>5 DEF ReadScanned
<1>6. CASE ForgetOwner(c)
  BY <1>6 DEF ForgetOwner
<1>7. QED BY <1>1, <1>2, <1>3, <1>4, <1>5, <1>6 DEF ClientStep

\* The schedulers' own steps.
LEMMA SchedulerTypes ==
  ASSUME TypeOK, NEW s \in Schedulers, SchedulerStep(s)
  PROVE  TypeOK'
<1> USE RegistryAssumption DEF TypeOK, Actors, ActorPC, tick, ledger, store, hand
<1>1. CASE Wake(s)
  BY <1>1 DEF Wake
<1>2. CASE EndTick(s)
  BY <1>2 DEF EndTick
<1>3. CASE \E o \in Owners : ListDue(s, o)
  BY <1>3 DEF ListDue, OwnedBy
<1>4. ASSUME NEW m \in Monitors, CheckDue(s, m)
      PROVE  TypeOK'
  <2>1. due' \in [Schedulers -> SUBSET Monitors]
    BY <1>4 DEF CheckDue
  <2>2. CASE Stored(m)
    BY <1>4, <2>1, <2>2 DEF CheckDue, ReadForCheck
  <2>3. CASE ~Stored(m)
    BY <1>4, <2>1, <2>3 DEF CheckDue, ReadForCheck
  <2>4. QED BY <2>2, <2>3
<1>5. QED BY <1>1, <1>2, <1>3, <1>4 DEF SchedulerStep

\* The two steps a check shares between schedulers and requests.
LEMMA CheckTypes ==
  ASSUME TypeOK, NEW a \in Actors, CheckStep(a)
  PROVE  TypeOK'
<1> USE RegistryAssumption DEF TypeOK, ActorPC, tick, ledger, hand
<1>1. CASE PutChecked(a)
  <2>1. mon[a] \in Monitors
    BY <1>1 DEF PutChecked
  <2>2. startedAt[a] + Interval[mon[a]] \in Nat
    BY <2>1
  <2>3. QED BY <1>1, <2>1, <2>2 DEF PutChecked, PutMonitor
<1>2. CASE RememberOwner(a)
  <2>1. mon[a] \in Monitors /\ OwnerOf[mon[a]] \in Owners
    BY <1>2 DEF RememberOwner
  <2>2. Rest(a) \in {"tick", "idle"}
    BY DEF Rest
  <2>3. pc' \in [Actors -> ActorPC]
    BY <1>2, <2>2 DEF RememberOwner
  <2>4. indexExpiry' \in [Owners -> Nat]
    BY <1>2, <2>1 DEF RememberOwner
  <2>5. exposed' \subseteq Owners /\ registered' \subseteq Monitors
    BY <1>2, <2>1 DEF RememberOwner
  <2>6. QED BY <1>2, <2>2, <2>3, <2>4, <2>5 DEF RememberOwner, Release
<1>3. QED BY <1>1, <1>2 DEF CheckStep

\* Failures, expiry and the passing of time.
LEMMA EnvironmentTypes ==
  ASSUME TypeOK, Environment
  PROVE  TypeOK'
<1> USE RegistryAssumption DEF TypeOK, ActorPC, tick, ledger, hand, store,
        DropMonitor
<1>1. ASSUME NEW a \in Actors, Abandon(a)
      PROVE  /\ exposed' \subseteq Owners /\ failures' \in Nat
             /\ mon' = [mon EXCEPT ![a] = NoMonitor]
             /\ mon' \in [Actors -> Monitors \cup {NoMonitor}]
             /\ startedAt' \in [Actors -> Nat]
             /\ scanned' \in [Actors -> SUBSET Monitors]
  BY <1>1 DEF Abandon, Release
<1>2. ASSUME NEW a \in Actors, StoreError(a)
      PROVE  TypeOK'
  <2>1. Abandon(a) /\ Rest(a) \in {"tick", "idle"}
    BY <1>2 DEF StoreError, Rest
  <2>2. pc' \in [Actors -> ActorPC]
    BY <1>2, <2>1 DEF StoreError
  <2>3. QED BY <1>1, <1>2, <2>1, <2>2 DEF StoreError, Abandon
<1>3. ASSUME NEW a \in Actors, Crash(a)
      PROVE  TypeOK'
  <2>1. Abandon(a)
    BY <1>3 DEF Crash
  <2>2. CASE a \in Schedulers
    <3>1. pc' \in [Actors -> ActorPC] /\ pc'[a] = "sleep"
      BY <1>3, <2>2 DEF Crash
    <3>2. /\ owners' \in [Schedulers -> SUBSET Owners]
          /\ due' \in [Schedulers -> SUBSET Monitors]
          /\ cutoff' \in [Schedulers -> Nat]
      BY <1>3, <2>2 DEF Crash
    <3>3. \A b \in Actors : pc'[b] \notin {"idle", "sleep", "tick"}
                             => mon'[b] \in Monitors
      BY <1>1, <1>3, <2>1, <2>2, <3>1 DEF Crash
    <3>4. QED BY <1>1, <2>1, <3>1, <3>2, <3>3 DEF Abandon
  <2>3. CASE a \notin Schedulers
    BY <1>1, <1>3, <2>1, <2>3 DEF Crash, Abandon
  <2>4. QED BY <2>2, <2>3
<1>4. CASE \E s \in Schedulers, o \in Owners : ListError(s, o)
  BY <1>4 DEF ListError
<1>5. CASE \E m \in Monitors : ExpireMonitor(m)
  BY <1>5 DEF ExpireMonitor
<1>6. CASE \E o \in Owners : ExpireOwner(o)
  BY <1>6 DEF ExpireOwner
<1>7. CASE AdvanceClock
  BY <1>7 DEF AdvanceClock
<1>8. QED BY <1>2, <1>3, <1>4, <1>5, <1>6, <1>7 DEF Environment

\* No step, of the program or of its environment, breaks a type.
LEMMA NextTypes == TypeOK /\ [Next]_vars => TypeOK'
<1>1. CASE UNCHANGED vars
  BY <1>1 DEF TypeOK, vars, store, hand, tick, ledger
<1>2. QED
  BY <1>1, ClientTypes, SchedulerTypes, CheckTypes, EnvironmentTypes DEF Next

\* Every variable keeps its type in every state of the registry, whatever the
\* numbers of monitors, owners, workers and requests.
THEOREM RegistryTypes == Spec => []TypeOK
BY InitTypes, NextTypes, PTL DEF Spec

---------------------------------------------------------------------------
(* The index rule.  Every action is one of three shapes: records decay (or  *)
(* nothing happens to them), one monitor is written by an actor that will   *)
(* remember its owner next, or an owner is remembered.                      *)

Renewing == {"remember_created", "remember"}

\* Records only disappear, and an index entry only when it has run out, when
\* its owner has no monitor left, or when its owner becomes exposed.
Decay ==
  /\ clock' >= clock /\ exposed \subseteq exposed'
  /\ \A m \in Monitors : expiry'[m] \in {expiry[m], 0}
  /\ \A o \in Owners :
       \/ indexExpiry'[o] = indexExpiry[o]
       \/ /\ indexExpiry'[o] = 0
          /\ \/ indexExpiry[o] <= clock
             \/ o \in exposed'
             \/ \A m \in OwnedBy(o) : ~Stored(m)
  /\ \A b \in Actors : pc[b] \in Renewing =>
       \/ pc'[b] = pc[b] /\ mon'[b] = mon[b]
       \/ OwnerOf[mon[b]] \in exposed'

\* A step in which records only decay keeps the index entries outliving their
\* live monitors.
LEMMA DecayKeepsIndex ==
  ASSUME RegistryInv, TypeOK', Decay
  PROVE  WithinTTL' /\ IndexOutlivesMonitor'
<1> USE RegistryAssumption
<1>1. clock \in Nat /\ clock' \in Nat /\ clock' >= clock /\ TTL \in Nat
  BY DEF RegistryInv, TypeOK, Decay
<1>2. ASSUME NEW m \in Monitors PROVE expiry'[m] <= clock' + TTL
  <2>1. expiry[m] \in Nat /\ expiry[m] <= clock + TTL /\ expiry'[m] \in {expiry[m], 0}
    BY DEF RegistryInv, TypeOK, WithinTTL, Decay
  <2>2. QED BY <1>1, <2>1
<1>3. ASSUME NEW o \in Owners PROVE indexExpiry'[o] <= clock' + TTL
  <2>1. indexExpiry[o] \in Nat /\ indexExpiry[o] <= clock + TTL
    BY DEF RegistryInv, TypeOK, WithinTTL
  <2>2. indexExpiry'[o] \in {indexExpiry[o], 0}
    BY DEF Decay
  <2>3. QED BY <1>1, <2>1, <2>2
<1>4. SUFFICES ASSUME NEW m \in Monitors, Live(m)', OwnerOf[m] \notin exposed',
                      ~Remembering(OwnerOf[m])'
               PROVE  expiry'[m] <= indexExpiry'[OwnerOf[m]]
  BY <1>2, <1>3 DEF IndexOutlivesMonitor, WithinTTL
<1>5. expiry[m] \in Nat /\ expiry'[m] > clock' /\ expiry'[m] \in {expiry[m], 0}
  BY <1>4 DEF Live, RegistryInv, TypeOK, Decay
<1>6. expiry'[m] = expiry[m] /\ Live(m) /\ Stored(m)
  BY <1>1, <1>5 DEF Live, Stored
<1>7. ~Remembering(OwnerOf[m]) /\ OwnerOf[m] \notin exposed
  BY <1>4 DEF Remembering, Renewing, Decay
<1>8. expiry[m] <= indexExpiry[OwnerOf[m]] /\ m \in OwnedBy(OwnerOf[m])
  BY <1>6, <1>7 DEF RegistryInv, IndexOutlivesMonitor, OwnedBy
<1>9. OwnerOf[m] \in Owners /\ indexExpiry[OwnerOf[m]] \in Nat
  BY DEF RegistryInv, TypeOK
<1>10. indexExpiry'[OwnerOf[m]] = indexExpiry[OwnerOf[m]]
  <2>1. ~(indexExpiry[OwnerOf[m]] <= clock)
    BY <1>1, <1>5, <1>6, <1>8, <1>9
  <2>2. QED BY <1>4, <1>6, <1>8, <1>9, <2>1 DEF Decay
<1>11. QED BY <1>6, <1>8, <1>10

\* create_monitor and check_monitor put a monitor and go on to remember it.
LEMMA WriteKeepsIndex ==
  ASSUME RegistryInv, TypeOK', NEW a \in Actors, NEW m \in Monitors,
         UNCHANGED <<clock, indexExpiry, exposed>>,
         expiry' = [expiry EXCEPT ![m] = clock + TTL],
         pc[a] \notin Renewing, pc'[a] \in Renewing, mon'[a] = m,
         \A b \in Actors \ {a} : pc'[b] = pc[b] /\ mon'[b] = mon[b]
  PROVE  WithinTTL' /\ IndexOutlivesMonitor'
<1> USE RegistryAssumption DEF Renewing
<1>1. WithinTTL'
  BY DEF RegistryInv, WithinTTL, TypeOK
<1>2. SUFFICES ASSUME NEW n \in Monitors, Live(n)', OwnerOf[n] \notin exposed',
                      ~Remembering(OwnerOf[n])'
               PROVE  expiry'[n] <= indexExpiry'[OwnerOf[n]]
  BY <1>1 DEF IndexOutlivesMonitor
<1>3. OwnerOf[n] # OwnerOf[m]
  BY <1>2 DEF Remembering
<1>4. ~Remembering(OwnerOf[n])
  BY <1>2 DEF Remembering
<1>5. expiry'[n] = expiry[n]
  BY <1>3 DEF RegistryInv, TypeOK
<1>6. QED
  BY <1>2, <1>4, <1>5 DEF RegistryInv, IndexOutlivesMonitor, Live

\* _remember_owner gives the entry a full TTL, which no record exceeds.
LEMMA RememberKeepsIndex ==
  ASSUME RegistryInv, NEW a \in Actors, RememberOwner(a)
  PROVE  WithinTTL' /\ IndexOutlivesMonitor'
<1> USE RegistryAssumption
<1> DEFINE o == OwnerOf[mon[a]]
<1>1. mon[a] \in Monitors /\ o \in Owners
  BY DEF RememberOwner, RegistryInv, TypeOK
<1>2. /\ UNCHANGED <<clock, expiry>>
      /\ indexExpiry' = [indexExpiry EXCEPT ![o] = clock + TTL]
      /\ exposed \ {o} \subseteq exposed'
  BY DEF RememberOwner
<1>3. WithinTTL'
  BY <1>1, <1>2 DEF RegistryInv, WithinTTL, TypeOK
<1>4. SUFFICES ASSUME NEW m \in Monitors, Live(m)', OwnerOf[m] \notin exposed',
                      ~Remembering(OwnerOf[m])'
               PROVE  expiry'[m] <= indexExpiry'[OwnerOf[m]]
  BY <1>3 DEF IndexOutlivesMonitor
<1>5. CASE OwnerOf[m] = o
  <2>1. indexExpiry'[OwnerOf[m]] = clock + TTL
    BY <1>1, <1>2, <1>5 DEF RegistryInv, TypeOK
  <2>2. expiry'[m] <= clock + TTL
    BY <1>2 DEF RegistryInv, WithinTTL
  <2>3. QED BY <2>1, <2>2
<1>6. CASE OwnerOf[m] # o
  <2>1. Live(m) /\ OwnerOf[m] \notin exposed
    BY <1>2, <1>4, <1>6 DEF Live
  <2>2. ~Remembering(OwnerOf[m])
    BY <1>4, <1>6 DEF Remembering, RememberOwner, Release, RegistryInv, TypeOK
  <2>3. expiry[m] <= indexExpiry[OwnerOf[m]]
    BY <2>1, <2>2 DEF RegistryInv, IndexOutlivesMonitor
  <2>4. QED BY <1>1, <1>2, <1>6, <2>3 DEF RegistryInv, TypeOK
<1>7. QED BY <1>5, <1>6

\* An actor outside _remember_owner moves on, and the store stays as it is.
LEMMA ReadingIsDecay ==
  ASSUME RegistryInv, UNCHANGED <<clock, store, exposed>>, NEW a \in Actors,
         pc[a] \notin Renewing,
         \A b \in Actors \ {a} : pc'[b] = pc[b] /\ mon'[b] = mon[b]
  PROVE  Decay
<1>1. clock' >= clock
  BY DEF RegistryInv, TypeOK
<1>2. QED BY <1>1 DEF Decay, store

\* A request's step keeps the index entries outliving the live monitors.
LEMMA ClientIndex ==
  ASSUME RegistryInv, TypeOK', NEW c \in Clients, ClientStep(c)
  PROVE  WithinTTL' /\ IndexOutlivesMonitor'
<1> USE RegistryAssumption
<1>0. c \in Actors /\ Rest(c) = "idle" /\ clock \in Nat
  BY DEF Actors, Rest, RegistryInv, TypeOK
<1>t. /\ pc \in [Actors -> ActorPC] /\ mon \in [Actors -> Monitors \cup {NoMonitor}]
      /\ expiry \in [Monitors -> Nat] /\ indexExpiry \in [Owners -> Nat]
  BY DEF RegistryInv, TypeOK
<1>1. ASSUME NEW m \in Monitors, CreateMonitor(c, m)
      PROVE  WithinTTL' /\ IndexOutlivesMonitor'
  BY <1>0, <1>t, <1>1, WriteKeepsIndex DEF CreateMonitor, PutMonitor, Renewing
<1>2. ASSUME NEW m \in Monitors, DeleteMonitor(c, m)
      PROVE  Decay
  BY <1>0, <1>t, <1>2 DEF DeleteMonitor, DropMonitor, Decay, Renewing
<1>3. ASSUME NEW m \in Monitors, CheckNow(c, m)
      PROVE  Decay
  BY <1>0, <1>t, <1>3, ReadingIsDecay DEF CheckNow, ReadForCheck, Renewing
<1>4. ASSUME ScanOwner(c) PROVE Decay
  BY <1>0, <1>t, <1>4, ReadingIsDecay DEF ScanOwner, Renewing
<1>5. ASSUME ReadScanned(c) PROVE Decay
  BY <1>0, <1>t, <1>5, ReadingIsDecay DEF ReadScanned, Release, Renewing
<1>6. ASSUME ForgetOwner(c) PROVE Decay
  BY <1>0, <1>t, <1>6 DEF ForgetOwner, Release, Decay, Renewing
<1>7. QED
  BY <1>1, <1>2, <1>3, <1>4, <1>5, <1>6, DecayKeepsIndex DEF ClientStep

\* A scheduler's step does so too: it only reads and picks.
LEMMA SchedulerIndex ==
  ASSUME RegistryInv, NEW s \in Schedulers, SchedulerStep(s)
  PROVE  Decay
<1>0. /\ s \in Actors
      /\ pc \in [Actors -> ActorPC] /\ mon \in [Actors -> Monitors \cup {NoMonitor}]
  BY DEF Actors, RegistryInv, TypeOK
<1>1. CASE Wake(s)
  BY <1>0, <1>1, ReadingIsDecay DEF Wake, hand, Renewing
<1>2. CASE EndTick(s)
  BY <1>0, <1>2, ReadingIsDecay DEF EndTick, hand, Renewing
<1>3. ASSUME NEW o \in Owners, ListDue(s, o)
      PROVE  Decay
  BY <1>0, <1>3, ReadingIsDecay DEF ListDue, hand, Renewing
<1>4. ASSUME NEW m \in Monitors, CheckDue(s, m)
      PROVE  Decay
  BY <1>0, <1>4, ReadingIsDecay DEF CheckDue, ReadForCheck, Renewing
<1>5. QED BY <1>1, <1>2, <1>3, <1>4 DEF SchedulerStep

\* So do the two writes at the end of a check.
LEMMA CheckIndex ==
  ASSUME RegistryInv, TypeOK', NEW a \in Actors, CheckStep(a)
  PROVE  WithinTTL' /\ IndexOutlivesMonitor'
<1>1. CASE PutChecked(a)
  <2>1. mon[a] \in Monitors
    BY <1>1 DEF PutChecked, RegistryInv, TypeOK
  <2>2. pc \in [Actors -> ActorPC]
    BY DEF RegistryInv, TypeOK
  <2>3. QED
    BY <1>1, <2>1, <2>2, WriteKeepsIndex DEF PutChecked, PutMonitor, hand, Renewing
<1>2. CASE RememberOwner(a)
  BY <1>2, RememberKeepsIndex
<1>3. QED BY <1>1, <1>2 DEF CheckStep

\* So do errors, deaths of workers, expiry and the passing of an hour.
LEMMA EnvironmentIndex ==
  ASSUME RegistryInv, Environment
  PROVE  Decay
<1>0. /\ clock \in Nat
      /\ pc \in [Actors -> ActorPC] /\ mon \in [Actors -> Monitors \cup {NoMonitor}]
      /\ expiry \in [Monitors -> Nat] /\ indexExpiry \in [Owners -> Nat]
  BY DEF RegistryInv, TypeOK
<1>1. ASSUME NEW a \in Actors, StoreError(a)
      PROVE  Decay
  BY <1>0, <1>1 DEF StoreError, Abandon, Release, store, Decay, Renewing
<1>2. ASSUME NEW a \in Actors, Crash(a)
      PROVE  Decay
  <2>1. \A b \in Actors \ {a} : pc'[b] = pc[b]
    BY <1>0, <1>2 DEF Crash
  <2>2. QED BY <1>0, <1>2, <2>1 DEF Crash, Abandon, Release, store, Decay, Renewing
<1>3. CASE \E s \in Schedulers, o \in Owners : ListError(s, o)
  BY <1>0, <1>3 DEF ListError, store, hand, Decay
<1>4. CASE \E m \in Monitors : ExpireMonitor(m)
  BY <1>0, <1>4 DEF ExpireMonitor, DropMonitor, hand, Decay
<1>5. CASE \E o \in Owners : ExpireOwner(o)
  BY <1>0, <1>5 DEF ExpireOwner, hand, Decay
<1>6. CASE AdvanceClock
  BY <1>0, <1>6 DEF AdvanceClock, store, hand, Decay
<1>7. QED BY <1>1, <1>2, <1>3, <1>4, <1>5, <1>6 DEF Environment

\* The empty store satisfies the inductive invariant.
LEMMA InitRegistryInv == Init => RegistryInv
<1> SUFFICES ASSUME Init PROVE WithinTTL /\ IndexOutlivesMonitor
  BY InitTypes DEF RegistryInv
<1>1. QED BY RegistryAssumption DEF Init, WithinTTL, IndexOutlivesMonitor, Live

\* Every step preserves the inductive invariant.
LEMMA NextRegistryInv == RegistryInv /\ [Next]_vars => RegistryInv'
<1> SUFFICES ASSUME RegistryInv, [Next]_vars PROVE RegistryInv'
  OBVIOUS
<1>1. TypeOK'
  BY NextTypes DEF RegistryInv
<1>2. CASE UNCHANGED vars
  <2>1. Decay
    BY <1>2 DEF vars, store, hand, Decay, RegistryInv, TypeOK
  <2>2. QED BY <1>1, <2>1, DecayKeepsIndex DEF RegistryInv
<1>3. CASE Next
  BY <1>1, <1>3, ClientIndex, SchedulerIndex, CheckIndex, EnvironmentIndex,
     DecayKeepsIndex DEF Next, RegistryInv
<1>4. QED BY <1>2, <1>3

\* A live monitor's owner-index entry outlives it, except during the renewal
\* itself and for owners exposed by the two windows the module names: those two
\* windows are the only ways the scheduler can lose sight of a live monitor.
THEOREM IndexAlwaysOutlives == Spec => []IndexOutlivesMonitor
<1>1. RegistryInv => IndexOutlivesMonitor
  BY DEF RegistryInv
<1>2. QED BY <1>1, InitRegistryInv, NextRegistryInv, PTL DEF Spec

(***************************************************************************)
(* A monitor that is checked in time is never lost to its TTL.             *)
(*                                                                         *)
(* Nothing is said of records alone: a record's life is a TTL from its     *)
(* check, its next check an interval from the moment the check began, so   *)
(* a record outlives its next check by TTL less interval only because the  *)
(* clock stands still during a check (Prompt); and the hour ends with      *)
(* nothing due only for owners the scheduler sees, which is what           *)
(* IndexOutlivesMonitor tells of a live monitor when nobody is mid-write.  *)
(***************************************************************************)

InTime == \A a \in Actors : pc[a] = "fetch" => startedAt[a] = clock
Paced  == \A m \in Monitors : Stored(m) => nextCheck[m] + TTL <= expiry[m] + Interval[m]

LapseInv == RegistryInv /\ InTime /\ Paced /\ MonitorNeverLapses

\* A step within the hour that renews no record and covers no owner again.
Quiet ==
  /\ clock' = clock /\ exposed \subseteq exposed' /\ InTime'
  /\ \A m \in Monitors :
       expiry'[m] = 0 \/ (expiry'[m] = expiry[m] /\ nextCheck'[m] = nextCheck[m])

LEMMA QuietKeepsPace ==
  ASSUME Paced, MonitorNeverLapses, Quiet
  PROVE  InTime' /\ Paced' /\ MonitorNeverLapses'
BY DEF Quiet, Paced, MonitorNeverLapses, Stored, Live

\* A write of monitor m during the hour its check began.
LEMMA WriteKeepsPace ==
  ASSUME RegistryInv, InTime, Paced, MonitorNeverLapses, NEW m \in Monitors,
         PutMonitor(m, clock + Interval[m]), UNCHANGED <<clock, exposed, startedAt>>,
         \A a \in Actors : pc'[a] = "fetch" => pc[a] = "fetch"
  PROVE  InTime' /\ Paced' /\ MonitorNeverLapses'
<1>1. /\ clock \in Nat /\ expiry \in [Monitors -> Nat] /\ nextCheck \in [Monitors -> Nat]
      /\ Interval[m] \in Nat /\ TTL \in Nat \ {0}
  BY RegistryAssumption DEF RegistryInv, TypeOK
<1>2. /\ expiry'[m] = clock + TTL /\ nextCheck'[m] = clock + Interval[m]
      /\ \A n \in Monitors \ {m} : expiry'[n] = expiry[n] /\ nextCheck'[n] = nextCheck[n]
  BY <1>1 DEF PutMonitor
<1>3. InTime'
  BY DEF InTime
<1>4. Paced'
  BY <1>1, <1>2 DEF Paced, Stored
<1>5. MonitorNeverLapses'
  BY <1>1, <1>2 DEF MonitorNeverLapses, Stored, Live
<1>6. QED BY <1>3, <1>4, <1>5

LEMMA ClientPace ==
  ASSUME LapseInv, NEW c \in Clients, ClientStep(c)
  PROVE  InTime' /\ Paced' /\ MonitorNeverLapses'
<1>0. /\ c \in Actors
      /\ clock \in Nat /\ expiry \in [Monitors -> Nat] /\ nextCheck \in [Monitors -> Nat]
      /\ pc \in [Actors -> ActorPC] /\ startedAt \in [Actors -> Nat]
  BY DEF Actors, LapseInv, RegistryInv, TypeOK
<1>1. ASSUME NEW m \in Monitors, CreateMonitor(c, m)
      PROVE  InTime' /\ Paced' /\ MonitorNeverLapses'
  BY <1>0, <1>1, WriteKeepsPace DEF CreateMonitor, LapseInv
<1>2. ASSUME NEW m \in Monitors, DeleteMonitor(c, m)
      PROVE  Quiet
  BY <1>0, <1>2 DEF DeleteMonitor, DropMonitor, LapseInv, InTime, Quiet
<1>3. ASSUME NEW m \in Monitors, CheckNow(c, m)
      PROVE  Quiet
  BY <1>0, <1>3 DEF CheckNow, ReadForCheck, store, LapseInv, InTime, Quiet
<1>4. ASSUME ScanOwner(c) PROVE Quiet
  BY <1>0, <1>4 DEF ScanOwner, store, LapseInv, InTime, Quiet
<1>5. ASSUME ReadScanned(c) PROVE Quiet
  BY <1>0, <1>5 DEF ReadScanned, Release, store, LapseInv, InTime, Quiet
<1>6. ASSUME ForgetOwner(c) PROVE Quiet
  BY <1>0, <1>6 DEF ForgetOwner, Release, LapseInv, InTime, Quiet
<1>7. QED
  BY <1>1, <1>2, <1>3, <1>4, <1>5, <1>6, QuietKeepsPace DEF ClientStep, LapseInv

LEMMA SchedulerPace ==
  ASSUME LapseInv, NEW s \in Schedulers, SchedulerStep(s)
  PROVE  Quiet
<1>0. /\ s \in Actors /\ pc \in [Actors -> ActorPC] /\ startedAt \in [Actors -> Nat]
  BY DEF Actors, LapseInv, RegistryInv, TypeOK
<1>1. CASE Wake(s)
  BY <1>0, <1>1 DEF Wake, store, hand, LapseInv, InTime, Quiet
<1>2. CASE EndTick(s)
  BY <1>0, <1>2 DEF EndTick, store, hand, LapseInv, InTime, Quiet
<1>3. CASE \E o \in Owners : ListDue(s, o)
  BY <1>0, <1>3 DEF ListDue, store, hand, LapseInv, InTime, Quiet
<1>4. CASE \E m \in Monitors : CheckDue(s, m)
  BY <1>0, <1>4 DEF CheckDue, ReadForCheck, store, LapseInv, InTime, Quiet
<1>5. QED BY <1>1, <1>2, <1>3, <1>4 DEF SchedulerStep

\* The write of a check belongs to the hour of its read; and an owner's index
\* entry covers its monitors again only when none of them has lapsed.
LEMMA CheckPace ==
  ASSUME LapseInv, NEW a \in Actors, CheckStep(a)
  PROVE  InTime' /\ Paced' /\ MonitorNeverLapses'
<1>0. /\ pc \in [Actors -> ActorPC] /\ startedAt \in [Actors -> Nat]
      /\ pc[a] \notin {"idle", "sleep", "tick"} => mon[a] \in Monitors
  BY DEF LapseInv, RegistryInv, TypeOK
<1>1. CASE PutChecked(a)
  <2>1. mon[a] \in Monitors /\ startedAt[a] = clock
    BY <1>0, <1>1 DEF PutChecked, LapseInv, InTime
  <2>2. /\ PutMonitor(mon[a], clock + Interval[mon[a]])
        /\ UNCHANGED <<clock, exposed, startedAt>>
    BY <1>1, <2>1 DEF PutChecked, hand
  <2>3. \A b \in Actors : pc'[b] = "fetch" => pc[b] = "fetch"
    BY <1>0, <1>1 DEF PutChecked
  <2>4. QED BY <2>1, <2>2, <2>3, WriteKeepsPace DEF LapseInv
<1>2. CASE RememberOwner(a)
  <2>1. UNCHANGED <<clock, expiry, nextCheck>>
    BY <1>2 DEF RememberOwner
  <2>2. InTime'
    BY <1>0, <1>2 DEF RememberOwner, Release, Rest, LapseInv, InTime
  <2>3. Paced'
    BY <2>1 DEF LapseInv, Paced, Stored
  <2>4. ASSUME NEW m \in Monitors, Stored(m), OwnerOf[m] \notin exposed'
        PROVE  Live(m)
    <3>1. CASE OwnerOf[m] \in exposed
      <4>1. OwnerOf[m] = OwnerOf[mon[a]]
        BY <1>2, <2>4, <3>1 DEF RememberOwner
      <4>2. \A n \in OwnedBy(OwnerOf[mon[a]]) : Stored(n) => Live(n)
        BY <1>2, <2>4, <3>1 DEF RememberOwner
      <4>3. QED BY <2>4, <4>1, <4>2 DEF OwnedBy
    <3>2. CASE OwnerOf[m] \notin exposed
      BY <2>4, <3>2 DEF LapseInv, MonitorNeverLapses
    <3>3. QED BY <3>1, <3>2
  <2>5. QED BY <2>1, <2>2, <2>3, <2>4 DEF MonitorNeverLapses, Stored, Live
<1>3. QED BY <1>1, <1>2 DEF CheckStep

\* An hour ends with nothing due that the scheduler can see.
LEMMA HourKeepsPace ==
  ASSUME LapseInv, Prompt, \A m \in Monitors : Interval[m] < TTL, AdvanceClock
  PROVE  InTime' /\ Paced' /\ MonitorNeverLapses'
<1>1. /\ clock \in Nat /\ clock' = clock + 1
      /\ UNCHANGED <<expiry, nextCheck, indexExpiry, pc, exposed>>
      /\ \A m \in Monitors : Stored(m) => Live(m)
      /\ \A a \in Actors : pc[a] \in {"idle", "sleep"}
      /\ \A m \in Monitors : Indexed(OwnerOf[m]) => ~Due(m)
  BY DEF AdvanceClock, Settled, store, LapseInv, RegistryInv, TypeOK
<1>2. InTime'
  BY <1>1 DEF InTime
<1>3. Paced'
  BY <1>1 DEF LapseInv, Paced, Stored
<1>4. ASSUME NEW m \in Monitors, Stored(m), OwnerOf[m] \notin exposed
      PROVE  expiry[m] > clock + 1
  <2>1. ~Remembering(OwnerOf[m])
    BY <1>1 DEF Remembering
  <2>2. expiry[m] <= indexExpiry[OwnerOf[m]] /\ Live(m)
    BY <1>1, <1>4, <2>1 DEF LapseInv, RegistryInv, IndexOutlivesMonitor
  <2>3. /\ expiry[m] \in Nat /\ indexExpiry[OwnerOf[m]] \in Nat /\ nextCheck[m] \in Nat
        /\ Interval[m] \in Nat /\ TTL \in Nat
    BY RegistryAssumption DEF LapseInv, RegistryInv, TypeOK
  <2>4. Indexed(OwnerOf[m])
    BY <1>1, <2>2, <2>3 DEF Indexed, Live
  <2>5. nextCheck[m] > clock
    BY <1>1, <1>4, <2>3, <2>4 DEF Due
  <2>6. nextCheck[m] + TTL <= expiry[m] + Interval[m] /\ Interval[m] < TTL
    BY <1>4 DEF LapseInv, Paced
  <2>7. QED BY <1>1, <2>3, <2>5, <2>6
<1>5. QED BY <1>1, <1>2, <1>3, <1>4 DEF MonitorNeverLapses, Stored, Live

LEMMA EnvironmentPace ==
  ASSUME LapseInv, Prompt, \A m \in Monitors : Interval[m] < TTL, Environment
  PROVE  InTime' /\ Paced' /\ MonitorNeverLapses'
<1>0. /\ pc \in [Actors -> ActorPC] /\ startedAt \in [Actors -> Nat]
      /\ expiry \in [Monitors -> Nat] /\ nextCheck \in [Monitors -> Nat]
  BY DEF LapseInv, RegistryInv, TypeOK
<1>1. ASSUME \E a \in Actors : StoreError(a) PROVE Quiet
  BY <1>0, <1>1 DEF StoreError, Abandon, Release, Rest, store, LapseInv, InTime, Quiet
<1>2. ASSUME \E a \in Actors : Crash(a) PROVE Quiet
  BY <1>0, <1>2 DEF Crash, Abandon, Release, store, LapseInv, InTime, Quiet
<1>3. ASSUME \E s \in Schedulers, o \in Owners : ListError(s, o) PROVE Quiet
  BY <1>3 DEF ListError, store, hand, LapseInv, InTime, Quiet
<1>4. ASSUME \E m \in Monitors : ExpireMonitor(m) PROVE Quiet
  BY <1>0, <1>4 DEF ExpireMonitor, DropMonitor, hand, LapseInv, InTime, Quiet
<1>5. ASSUME \E o \in Owners : ExpireOwner(o) PROVE Quiet
  BY <1>5 DEF ExpireOwner, hand, LapseInv, InTime, Quiet
<1>6. CASE AdvanceClock
  BY <1>6, HourKeepsPace
<1>7. QED
  BY <1>1, <1>2, <1>3, <1>4, <1>5, <1>6, QuietKeepsPace DEF Environment, LapseInv

LEMMA InitLapseInv == Init => LapseInv
<1> SUFFICES ASSUME Init PROVE InTime /\ Paced /\ MonitorNeverLapses
  BY InitRegistryInv DEF LapseInv
<1>1. \A a \in Actors : pc[a] # "fetch"
  BY DEF Init
<1>2. QED BY <1>1 DEF Init, InTime, Paced, MonitorNeverLapses, Stored

\* Where schedulers keep up and every interval is shorter than the TTL, the
\* record of a monitor the scheduler can see is renewed before its TTL runs out.
\* The request schema also accepts an interval equal to the TTL, which breaks it.
THEOREM CheckedInTime ==
  Prompt /\ (\A m \in Monitors : Interval[m] < TTL) => (Spec => []MonitorNeverLapses)
<1> SUFFICES ASSUME Prompt, \A m \in Monitors : Interval[m] < TTL
             PROVE  Spec => []MonitorNeverLapses
  OBVIOUS
<1>1. LapseInv /\ [Next]_vars => LapseInv'
  <2> SUFFICES ASSUME LapseInv, [Next]_vars PROVE LapseInv'
    OBVIOUS
  <2>1. RegistryInv'
    BY NextRegistryInv DEF LapseInv
  <2>2. CASE UNCHANGED vars
    <3>1. Quiet
      BY <2>2 DEF vars, store, hand, LapseInv, InTime, Quiet
    <3>2. QED BY <2>1, <3>1, QuietKeepsPace DEF LapseInv
  <2>3. CASE Next
    <3>1. InTime' /\ Paced' /\ MonitorNeverLapses'
      BY <2>3, ClientPace, SchedulerPace, CheckPace, EnvironmentPace, QuietKeepsPace
         DEF Next, LapseInv
    <3>2. QED BY <2>1, <3>1 DEF LapseInv
  <2>4. QED BY <2>2, <2>3
<1>2. LapseInv => MonitorNeverLapses
  BY DEF LapseInv
<1>3. QED BY <1>1, <1>2, InitLapseInv, PTL DEF Spec
================================================================================
