--------------------------- MODULE MonitorCheckProofs ---------------------------
(***************************************************************************)
(* MonitorCheck, for every number of fields, values, overlapping checks    *)
(* and history entries.                                                    *)
(***************************************************************************)
EXTENDS MonitorCheck, FiniteSetTheorems, SequenceTheorems, TLAPS

(***************************************************************************)
(* The operators of a check.                                               *)
(***************************************************************************)

\* A partial function is a function on its own domain.
LEMMA PartialFunctions ==
  \A D, R, g : g \in Partial(D, R) <=> DOMAIN g \subseteq D /\ g \in [DOMAIN g -> R]
BY DEF Partial

\* A monitor that was never checked has no snapshot, and every dict is one.
LEMMA NoneIsNoSnapshot == NoSnapshot \notin Snapshots
BY CheckAssumption DEF Snapshots, Partial

LEMMA EmptyIsSnapshot == Empty \in Snapshots /\ DOMAIN Empty = {}
<1>1. DOMAIN Empty = {} /\ Empty \in [{} -> Values]
  BY DEF Empty
<1>2. QED BY <1>1, PartialFunctions DEF Snapshots

LEMMA SnapshotType ==
  ASSUME place \in [Fields -> Values], NEW visible \in SUBSET Fields
  PROVE  Snapshot(visible) \in Snapshots
<1>1. DOMAIN Snapshot(visible) = visible /\ Snapshot(visible) \in [visible -> Values]
  BY DEF Snapshot
<1>2. QED BY <1>1, PartialFunctions DEF Snapshots

\* What a diff of two snapshots says, field by field.
LEMMA DiffOf ==
  ASSUME NEW previous \in Snapshots \cup {NoSnapshot}, NEW current \in Snapshots
  PROVE  /\ Diff(previous, current) \in Changes
         /\ previous = NoSnapshot => DOMAIN Diff(previous, current) = {}
         /\ \A f \in DOMAIN Diff(previous, current) :
              /\ previous \in Snapshots
              /\ f \in DOMAIN previous /\ f \in DOMAIN current
              /\ Diff(previous, current)[f] = [old |-> previous[f], new |-> current[f]]
              /\ previous[f] # current[f]
         /\ \A f \in DOMAIN previous \cap DOMAIN current :
              previous \in Snapshots /\ f \notin DOMAIN Diff(previous, current)
                => previous[f] = current[f]
<1> DEFINE both == IF previous = NoSnapshot THEN {}
                   ELSE {f \in DOMAIN current \cap DOMAIN previous :
                           previous[f] # current[f]}
           D == Diff(previous, current)
<1>1. /\ DOMAIN D = both
      /\ \A f \in both : D[f] = [old |-> previous[f], new |-> current[f]]
  BY DEF Diff
<1>2. previous # NoSnapshot => previous \in Snapshots
  OBVIOUS
<1>3. current \in [DOMAIN current -> Values] /\ DOMAIN current \subseteq Fields
  BY PartialFunctions DEF Snapshots
<1>4. previous # NoSnapshot => previous \in [DOMAIN previous -> Values]
  BY <1>2, PartialFunctions DEF Snapshots
<1>5. D \in [both -> [old : Values, new : Values]]
  <2>1. \A f \in both : previous[f] \in Values /\ current[f] \in Values
    BY <1>3, <1>4
  <2>2. D = [f \in both |-> [old |-> previous[f], new |-> current[f]]]
    BY DEF Diff
  <2>3. QED BY <2>1, <2>2
<1>6. D \in Changes
  BY <1>1, <1>3, <1>5, PartialFunctions DEF Changes
<1>7. QED BY <1>1, <1>2, <1>6, NoneIsNoSnapshot

\* What the merge of two snapshots says: the new one where it speaks.
LEMMA MergedOf ==
  ASSUME NEW previous \in Snapshots \cup {NoSnapshot}, NEW current \in Snapshots
  PROVE  /\ Merged(previous, current) \in Snapshots
         /\ Merged(previous, current) # NoSnapshot
         /\ \A f \in DOMAIN current :
              /\ f \in DOMAIN Merged(previous, current)
              /\ Merged(previous, current)[f] = current[f]
         /\ previous \in Snapshots =>
              \A f \in DOMAIN previous \ DOMAIN current :
                /\ f \in DOMAIN Merged(previous, current)
                /\ Merged(previous, current)[f] = previous[f]
         /\ \A f \in DOMAIN Merged(previous, current) :
              f \in DOMAIN current \/ (previous \in Snapshots /\ f \in DOMAIN previous)
<1> DEFINE before == IF previous = NoSnapshot THEN Empty ELSE previous
           M == Merged(previous, current)
<1>1. /\ DOMAIN M = DOMAIN before \cup DOMAIN current
      /\ \A f \in DOMAIN M : M[f] = IF f \in DOMAIN current THEN current[f] ELSE before[f]
      /\ M = [f \in DOMAIN before \cup DOMAIN current |->
                IF f \in DOMAIN current THEN current[f] ELSE before[f]]
  BY DEF Merged
<1>2. before \in Snapshots /\ DOMAIN Empty = {}
  BY EmptyIsSnapshot
<1> HIDE DEF before, M
<1>3. /\ DOMAIN before \subseteq Fields /\ before \in [DOMAIN before -> Values]
      /\ DOMAIN current \subseteq Fields /\ current \in [DOMAIN current -> Values]
  BY <1>2, PartialFunctions DEF Snapshots
<1>4. M \in [DOMAIN before \cup DOMAIN current -> Values]
  BY <1>1, <1>3
<1>5. M \in Snapshots
  BY <1>1, <1>3, <1>4, PartialFunctions DEF Snapshots
<1>6. previous \in Snapshots => before = previous
  BY NoneIsNoSnapshot DEF before
<1>7. previous \notin Snapshots => DOMAIN before = {}
  BY <1>2 DEF before
<1>8. QED BY <1>1, <1>5, <1>6, <1>7, NoneIsNoSnapshot DEF M

\* history[-N:] keeps the last N entries, in place.
LEMMA LatestOf ==
  ASSUME NEW history \in Seq(Entries)
  PROVE  /\ Latest(history) \in Seq(Entries)
         /\ Len(Latest(history)) =
              IF Len(history) <= HistoryCap THEN Len(history) ELSE HistoryCap
         /\ LET shift == IF Len(history) <= HistoryCap THEN 0
                         ELSE Len(history) - HistoryCap
            IN \A i \in 1 .. Len(Latest(history)) :
                 /\ i + shift \in 1 .. Len(history)
                 /\ Latest(history)[i] = history[i + shift]
<1> USE CheckAssumption
<1>1. CASE Len(history) <= HistoryCap
  BY <1>1, LenProperties DEF Latest
<1>2. CASE ~(Len(history) <= HistoryCap)
  <2> DEFINE m == Len(history) - HistoryCap + 1
             n == Len(history)
  <2>1. m \in 1 .. n /\ n \in Nat /\ n - m + 1 = HistoryCap
    BY <1>2, LenProperties
  <2>2. \A i \in m .. n : history[i] \in Entries
    BY <2>1, ElementOfSeq
  <2>3. Latest(history) = SubSeq(history, m, n)
    BY <1>2 DEF Latest
  <2> HIDE DEF m, n
  <2>4. /\ SubSeq(history, m, n) \in Seq(Entries)
        /\ Len(SubSeq(history, m, n)) = HistoryCap
        /\ \A i \in 1 .. HistoryCap : SubSeq(history, m, n)[i] = history[m + i - 1]
    BY <2>1, <2>2, SubSeqProperties
  <2>5. \A i \in 1 .. HistoryCap : m + i - 1 = i + (Len(history) - HistoryCap)
    BY <2>1 DEF m, n
  <2>6. \A i \in 1 .. HistoryCap : i + (Len(history) - HistoryCap) \in 1 .. Len(history)
    BY <2>1 DEF m, n
  <2>7. QED BY <1>2, <2>3, <2>4, <2>5, <2>6
<1>3. QED BY <1>1, <1>2

LEMMA EntryType ==
  ASSUME NEW previous \in Snapshots \cup {NoSnapshot}, NEW current \in Snapshots
  PROVE  Entry(previous, current) \in Entries
BY DiffOf DEF Entry, Entries

LEMMA NewRecordType == NewRecord \in Records
BY EmptySeq DEF NewRecord, Records

\* What a check puts back, of whatever record it read, is a record.
LEMMA CheckedType ==
  ASSUME NEW data \in Records, NEW current \in Snapshots
  PROVE  Checked(data, current) \in Records
<1>1. data.snapshot \in Snapshots \cup {NoSnapshot} /\ data.history \in Seq(Entries)
      /\ data.checks \in Nat /\ data.changes \in Nat
  BY DEF Records
<1>2. Merged(data.snapshot, current) \in Snapshots
  BY <1>1, MergedOf
<1>3. Append(data.history, Entry(data.snapshot, current)) \in Seq(Entries)
  BY <1>1, EntryType, AppendProperties
<1>4. Latest(Append(data.history, Entry(data.snapshot, current))) \in Seq(Entries)
  BY <1>3, LatestOf
<1>5. QED BY <1>1, <1>2, <1>4 DEF Checked, Records

LEMMA InVainType ==
  ASSUME NEW data \in Records
  PROVE  CheckedInVain(data) \in Records
<1>1. data.checks + 1 \in Nat /\ TRUE \in BOOLEAN
  BY DEF Records
<1>2. QED BY <1>1, Zenon DEF CheckedInVain, Records

---------------------------------------------------------------------------
(* Types.                                                                  *)

LEMMA InitTypes == Init => TypeOK
<1> SUFFICES ASSUME Init PROVE TypeOK
  OBVIOUS
<1>1. record \in Records /\ copy \in [Checkers -> Records]
  BY NewRecordType DEF Init
<1>2. seen \in [Checkers -> Snapshots]
  BY EmptyIsSnapshot DEF Init
<1>3. shown \subseteq Fields \X Values
  BY CheckAssumption DEF Init
<1>4. fired \in Seq(Changes)
  BY EmptySeq DEF Init
<1>5. place \in [Fields -> Values]
  BY CheckAssumption DEF Init
<1>6. QED BY <1>1, <1>2, <1>3, <1>4, <1>5 DEF Init, TypeOK

LEMMA FinishTypes ==
  ASSUME TypeOK, NEW c \in Checkers, Finish(c)
  PROVE  /\ pc' \in [Checkers -> {"idle", "fetch", "put", "put_failed", "fire"}]
         /\ copy' \in [Checkers -> Records]
         /\ seen' \in [Checkers -> Snapshots]
BY NewRecordType, EmptyIsSnapshot DEF TypeOK, Finish

LEMMA StepTypes ==
  ASSUME TypeOK, [Next]_vars
  PROVE  TypeOK'
<1>1. ASSUME NEW c \in Checkers, Begin(c)
      PROVE  TypeOK'
  BY <1>1 DEF TypeOK, Begin, world
<1>2. ASSUME NEW c \in Checkers, ScrapeReturns(c)
      PROVE  TypeOK'
  <2>1. seen' \in [Checkers -> Snapshots]
    BY <1>2, SnapshotType DEF TypeOK, ScrapeReturns
  <2>2. QED BY <1>2, <2>1 DEF TypeOK, ScrapeReturns, world
<1>3. ASSUME NEW c \in Checkers, ScrapeFails(c)
      PROVE  TypeOK'
  BY <1>3 DEF TypeOK, ScrapeFails, world
<1>4. ASSUME NEW c \in Checkers, PutChecked(c)
      PROVE  TypeOK'
  <2>1. record' \in Records
    BY <1>4, CheckedType DEF TypeOK, PutChecked
  <2>2. CASE Changed(copy[c], seen[c])
    BY <1>4, <2>1, <2>2 DEF TypeOK, PutChecked, world
  <2>3. CASE ~Changed(copy[c], seen[c])
    <3>1. Finish(c)
      BY <1>4, <2>3 DEF PutChecked
    <3>2. UNCHANGED <<place, shown, edits, fired, dropped, overlapped, begun>>
      BY <1>4 DEF PutChecked, world
    <3>3. QED BY <2>1, <3>1, <3>2, FinishTypes DEF TypeOK
  <2>4. QED BY <2>2, <2>3
<1>5. ASSUME NEW c \in Checkers, PutFailed(c)
      PROVE  TypeOK'
  <2>1. record' \in Records
    BY <1>5, InVainType DEF TypeOK, PutFailed
  <2>2. Finish(c) /\ UNCHANGED <<place, shown, edits, fired, dropped, overlapped, begun>>
    BY <1>5 DEF PutFailed, world
  <2>3. QED BY <2>1, <2>2, FinishTypes DEF TypeOK
<1>6. ASSUME NEW c \in Checkers, Fire(c)
      PROVE  TypeOK'
  <2>1. Diff(copy[c].snapshot, seen[c]) \in Changes
    <3>1. copy[c].snapshot \in Snapshots \cup {NoSnapshot} /\ seen[c] \in Snapshots
      BY DEF TypeOK, Records
    <3>2. QED BY <3>1, DiffOf
  <2>2. fired' \in Seq(Changes)
    BY <1>6, <2>1, AppendProperties DEF TypeOK, Fire
  <2>3. Finish(c) /\ UNCHANGED <<place, shown, edits, record, dropped, overlapped, begun>>
    BY <1>6 DEF Fire, world
  <2>4. QED BY <2>2, <2>3, FinishTypes DEF TypeOK
<1>7. ASSUME NEW c \in Checkers, Abort(c)
      PROVE  TypeOK'
  <2>1. Finish(c) /\ UNCHANGED <<place, shown, edits, record, fired, overlapped, begun>>
    BY <1>7 DEF Abort, world
  <2>2. dropped' \in Nat
    BY <1>7 DEF Abort, TypeOK
  <2>3. QED BY <2>1, <2>2, FinishTypes DEF TypeOK
<1>8. CASE EditPlace
  <2>1. PICK f \in Fields, v \in Values :
          place' = [place EXCEPT ![f] = v] /\ shown' = shown \cup {<<f, v>>}
    BY <1>8 DEF EditPlace
  <2>2. place' \in [Fields -> Values] /\ shown' \subseteq Fields \X Values
    BY <2>1 DEF TypeOK
  <2>3. QED BY <1>8, <2>2 DEF EditPlace, TypeOK
<1>9. CASE UNCHANGED vars
  BY <1>9 DEF vars, world, TypeOK
<1>10. QED
  BY <1>1, <1>2, <1>3, <1>4, <1>5, <1>6, <1>7, <1>8, <1>9 DEF Next, CheckStep

\* Every variable keeps its type: every record any check reads or writes is one.
THEOREM Types == Spec => []TypeOK
<1>1. Init => TypeOK
  BY InitTypes
<1>2. TypeOK /\ [Next]_vars => TypeOK'
  BY StepTypes
<1>3. QED BY <1>1, <1>2, PTL DEF Spec

---------------------------------------------------------------------------
(* The history.  Both of its properties hold of every copy a check has in  *)
(* hand as well: what a check puts back is made of its copy alone.         *)

\* HistoryMatchesCounts, said of any record.
CountsRight(r) ==
  LET written == r.changes + (IF r.snapshot = NoSnapshot THEN 0 ELSE 1)
  IN /\ Len(r.history) = IF written <= HistoryCap THEN written ELSE HistoryCap
     /\ r.changes <= r.checks
     /\ \A i \in 1 .. Len(r.history) :
          (r.history[i].kind = "baseline") <=> (i = 1 /\ written <= HistoryCap)
     /\ r.snapshot = NoSnapshot => r.changes = 0

\* HistoryIsOneStory, said of any history and snapshot.
OneStory(history, snapshot) ==
  /\ \A f \in Fields, i \in 1 .. Len(history) :
       LastSight(history, Len(history), f, i) =>
         f \in DOMAIN snapshot /\ snapshot[f] = history[i].snapshot[f]
  /\ \A k \in 1 .. Len(history) : \A f \in DOMAIN history[k].changes :
       LET change == history[k].changes[f] IN
       /\ change.old # change.new
       /\ history[k].snapshot[f] = change.new
       /\ \A i \in 1 .. k - 1 :
            LastSight(history, k - 1, f, i) => history[i].snapshot[f] = change.old

Sound(r) == CountsRight(r) /\ OneStory(r.history, r.snapshot)

\* No step writes a record that is not a checked copy, and a check's copy is
\* always the record as it is read, or its own.
LEMMA RecordSteps ==
  ASSUME TypeOK, [Next]_vars
  PROVE  /\ \/ record' = record
            \/ \E c \in Checkers : \/ record' = Checked(copy[c], seen[c])
                                   \/ record' = CheckedInVain(copy[c])
         /\ \A c \in Checkers : copy'[c] = copy[c] \/ copy'[c] = record \/ copy'[c] = NewRecord
<1> USE DEF TypeOK
<1>1. ASSUME NEW c \in Checkers, Begin(c)
      PROVE  record' = record /\ copy' = [copy EXCEPT ![c] = record]
  BY <1>1 DEF Begin
<1>2. ASSUME NEW c \in Checkers, ScrapeReturns(c) \/ ScrapeFails(c)
      PROVE  UNCHANGED <<record, copy>>
  BY <1>2 DEF ScrapeReturns, ScrapeFails
<1>3. ASSUME NEW c \in Checkers, PutChecked(c)
      PROVE  /\ record' = Checked(copy[c], seen[c])
             /\ copy' = copy \/ copy' = [copy EXCEPT ![c] = NewRecord]
  BY <1>3 DEF PutChecked, Finish
<1>4. ASSUME NEW c \in Checkers, PutFailed(c)
      PROVE  record' = CheckedInVain(copy[c]) /\ copy' = [copy EXCEPT ![c] = NewRecord]
  BY <1>4 DEF PutFailed, Finish
<1>5. ASSUME NEW c \in Checkers, Fire(c) \/ Abort(c)
      PROVE  record' = record /\ copy' = [copy EXCEPT ![c] = NewRecord]
  BY <1>5 DEF Fire, Abort, Finish
<1>6. EditPlace \/ UNCHANGED vars => UNCHANGED <<record, copy>>
  BY DEF EditPlace, vars
<1>7. QED
  BY <1>1, <1>2, <1>3, <1>4, <1>5, <1>6 DEF Next, CheckStep

LEMMA NewRecordIsSound == Sound(NewRecord)
BY CheckAssumption, EmptySeq DEF NewRecord, Sound, CountsRight, OneStory

LEMMA InVainIsSound ==
  ASSUME NEW data \in Records, Sound(data)
  PROVE  Sound(CheckedInVain(data))
<1>1. /\ CheckedInVain(data).snapshot = data.snapshot
      /\ CheckedInVain(data).history = data.history
      /\ CheckedInVain(data).changes = data.changes
      /\ CheckedInVain(data).checks = data.checks + 1
  BY DEF CheckedInVain, Records
<1>2. data.checks \in Nat /\ data.changes \in Nat
  BY DEF Records
<1>3. QED BY <1>1, <1>2 DEF Sound, CountsRight

\* A check appends the baseline first and one change at a time after it.
LEMMA CheckedCountsRight ==
  ASSUME NEW data \in Records, NEW current \in Snapshots, CountsRight(data)
  PROVE  CountsRight(Checked(data, current))
<1> DEFINE previous == data.snapshot
           entry == Entry(previous, current)
           longer == Append(data.history, entry)
           next == Checked(data, current)
           written == data.changes + (IF previous = NoSnapshot THEN 0 ELSE 1)
           writes == previous = NoSnapshot \/ Changed(data, current)
<1>1. /\ previous \in Snapshots \cup {NoSnapshot} /\ data.history \in Seq(Entries)
      /\ data.checks \in Nat /\ data.changes \in Nat
  BY DEF Records
<1>2. previous = NoSnapshot => ~Changed(data, current) /\ data.changes = 0
  BY <1>1, DiffOf DEF Changed, CountsRight
<1>3. next.snapshot # NoSnapshot
  BY <1>1, MergedOf DEF Checked
<1>4. /\ next.checks = data.checks + 1
      /\ next.changes = IF Changed(data, current) THEN data.changes + 1 ELSE data.changes
      /\ next.history = IF writes THEN Latest(longer) ELSE data.history
  BY DEF Checked
<1>5. next.changes + 1 = IF writes THEN written + 1 ELSE written
  BY <1>1, <1>2, <1>4
<1>6. /\ Len(data.history) = IF written <= HistoryCap THEN written ELSE HistoryCap
      /\ data.changes <= data.checks
      /\ \A i \in 1 .. Len(data.history) :
           (data.history[i].kind = "baseline") <=> (i = 1 /\ written <= HistoryCap)
  BY DEF CountsRight
<1>7. CASE ~writes
  BY <1>1, <1>3, <1>4, <1>5, <1>6, <1>7 DEF CountsRight
<1>8. CASE writes
  <2>1. /\ longer \in Seq(Entries) /\ Len(longer) = Len(data.history) + 1
        /\ \A i \in 1 .. Len(data.history) : longer[i] = data.history[i]
        /\ longer[Len(data.history) + 1] = entry
    <3>1. entry \in Entries
      BY <1>1, EntryType
    <3> HIDE DEF entry
    <3>2. QED BY <1>1, <3>1, AppendProperties
  <2>2. entry.kind = "baseline" <=> written = 0
    BY <1>1, <1>2 DEF Entry
  <2>3. \A i \in 1 .. Len(longer) :
          (longer[i].kind = "baseline") <=> (i = 1 /\ written <= HistoryCap)
    <3> SUFFICES ASSUME NEW i \in 1 .. Len(longer)
                 PROVE (longer[i].kind = "baseline") <=> (i = 1 /\ written <= HistoryCap)
      OBVIOUS
    <3>1. Len(data.history) \in Nat /\ written \in Nat /\ HistoryCap \in Nat \ {0}
      BY <1>1, LenProperties, CheckAssumption
    <3>2. CASE i <= Len(data.history)
      BY <1>6, <2>1, <3>1, <3>2
    <3>3. CASE i = Len(data.history) + 1
      <4>1. i = 1 /\ written <= HistoryCap <=> written = 0
        BY <1>6, <3>1, <3>3
      <4>2. QED BY <2>1, <2>2, <3>3, <4>1
    <3>4. QED BY <2>1, <3>1, <3>2, <3>3
  <2> DEFINE shift == IF Len(longer) <= HistoryCap THEN 0 ELSE Len(longer) - HistoryCap
             kept == Latest(longer)
  <2>4. /\ kept \in Seq(Entries)
        /\ Len(kept) = IF Len(longer) <= HistoryCap THEN Len(longer) ELSE HistoryCap
        /\ \A i \in 1 .. Len(kept) :
             i + shift \in 1 .. Len(longer) /\ kept[i] = longer[i + shift]
    BY <2>1, LatestOf
  <2>5. next.history = kept /\ next.changes + 1 = written + 1
    BY <1>4, <1>5, <1>8
  <2> HIDE DEF longer, kept, entry, next, writes
  <2>6. /\ Len(data.history) \in Nat /\ Len(longer) \in Nat /\ Len(kept) \in Nat
        /\ written \in Nat /\ HistoryCap \in Nat \ {0}
    BY <1>1, <2>1, <2>4, LenProperties, CheckAssumption
  <2>7. Len(kept) = IF written + 1 <= HistoryCap THEN written + 1 ELSE HistoryCap
    BY <1>6, <2>1, <2>4, <2>6
  <2>8. \A i \in 1 .. Len(kept) :
          (kept[i].kind = "baseline") <=> (i = 1 /\ written + 1 <= HistoryCap)
    <3> SUFFICES ASSUME NEW i \in 1 .. Len(kept)
                 PROVE  (kept[i].kind = "baseline") <=> (i = 1 /\ written + 1 <= HistoryCap)
      OBVIOUS
    <3>1. i + shift = 1 /\ written <= HistoryCap <=> i = 1 /\ written + 1 <= HistoryCap
      BY <1>6, <2>1, <2>6
    <3>2. QED BY <2>3, <2>4, <3>1
  <2>9. next.changes = written /\ next.changes <= next.checks
    <3>1. next.changes \in Nat
      BY <1>1, <1>4
    <3>2. QED BY <1>1, <1>2, <1>4, <1>6, <2>5, <2>6, <3>1
  <2>10. QED
    BY <1>3, <2>5, <2>7, <2>8, <2>9 DEF CountsRight, next
<1>9. QED BY <1>7, <1>8

\* What a longer history saw of a field before one of the old positions.
LEMMA SightsAreStable ==
  ASSUME NEW old, NEW new, NEW n \in Nat, NEW shift \in Nat, NEW f, NEW i \in 1 .. n,
         \A j \in 1 .. n : new[j] = old[j + shift],
         LastSight(new, n, f, i)
  PROVE  LastSight(old, n + shift, f, i + shift)
<1>1. i + shift \in 1 .. n + shift /\ f \in DOMAIN old[i + shift].snapshot
  BY DEF LastSight
<1>2. ASSUME NEW j \in i + shift + 1 .. n + shift
      PROVE  f \notin DOMAIN old[j].snapshot
  <2>1. j - shift \in i + 1 .. n /\ j - shift \in 1 .. n /\ (j - shift) + shift = j
    OBVIOUS
  <2>2. QED BY <2>1 DEF LastSight
<1>3. QED BY <1>1, <1>2 DEF LastSight

\* The story of a history survives the loss of its oldest entries.
LEMMA TrimmedStory ==
  ASSUME NEW history \in Seq(Entries), NEW snapshot, OneStory(history, snapshot)
  PROVE  OneStory(Latest(history), snapshot)
<1> DEFINE kept == Latest(history)
           shift == IF Len(history) <= HistoryCap THEN 0 ELSE Len(history) - HistoryCap
<1>1. /\ kept \in Seq(Entries)
      /\ Len(kept) = IF Len(history) <= HistoryCap THEN Len(history) ELSE HistoryCap
      /\ \A i \in 1 .. Len(kept) : i + shift \in 1 .. Len(history) /\ kept[i] = history[i + shift]
  BY LatestOf
<1>2. Len(history) \in Nat /\ Len(kept) \in Nat /\ HistoryCap \in Nat
  BY <1>1, LenProperties, CheckAssumption
<1>3. shift \in Nat /\ Len(kept) + shift = Len(history)
  BY <1>1, <1>2
<1> HIDE DEF kept, shift
<1>4. ASSUME NEW f \in Fields, NEW i \in 1 .. Len(kept), LastSight(kept, Len(kept), f, i)
      PROVE  f \in DOMAIN snapshot /\ snapshot[f] = kept[i].snapshot[f]
  <2>1. LastSight(history, Len(kept) + shift, f, i + shift)
    BY <1>1, <1>2, <1>3, <1>4, SightsAreStable
  <2>2. QED BY <1>1, <1>3, <2>1 DEF OneStory
<1>5. ASSUME NEW k \in 1 .. Len(kept), NEW f \in DOMAIN kept[k].changes
      PROVE  LET change == kept[k].changes[f] IN
             /\ change.old # change.new
             /\ kept[k].snapshot[f] = change.new
             /\ \A i \in 1 .. k - 1 :
                  LastSight(kept, k - 1, f, i) => kept[i].snapshot[f] = change.old
  <2>1. k + shift \in 1 .. Len(history) /\ kept[k] = history[k + shift]
    BY <1>1
  <2>2. ASSUME NEW i \in 1 .. k - 1, LastSight(kept, k - 1, f, i)
        PROVE  kept[i].snapshot[f] = kept[k].changes[f].old
    <3>1. k - 1 \in Nat /\ (k - 1) + shift = (k + shift) - 1
      BY <1>2, <1>3
    <3>2. \A j \in 1 .. k - 1 : kept[j] = history[j + shift]
      BY <1>1, <1>2
    <3>3. LastSight(history, (k + shift) - 1, f, i + shift)
      BY <1>3, <2>2, <3>1, <3>2, SightsAreStable
    <3>4. i + shift \in 1 .. (k + shift) - 1
      BY <1>2, <1>3
    <3>5. history[i + shift].snapshot[f] = history[k + shift].changes[f].old
      BY <2>1, <3>3, <3>4 DEF OneStory
    <3>6. QED BY <2>1, <3>2, <3>5
  <2>3. QED BY <2>1, <2>2 DEF OneStory
<1>6. QED BY <1>4, <1>5 DEF OneStory, kept

\* A check continues the story: its entry says what it saw, and a change starts
\* from what the story last said of the field.
LEMMA ContinuedStory ==
  ASSUME NEW data \in Records, NEW current \in Snapshots, Sound(data),
         data.snapshot = NoSnapshot \/ Changed(data, current)
  PROVE  OneStory(Append(data.history, Entry(data.snapshot, current)),
                  Merged(data.snapshot, current))
<1> DEFINE previous == data.snapshot
           entry == Entry(previous, current)
           longer == Append(data.history, entry)
           n == Len(data.history)
<1>1. previous \in Snapshots \cup {NoSnapshot} /\ data.history \in Seq(Entries)
  BY DEF Records
<1>2. entry \in Entries
  BY <1>1, EntryType
<1> HIDE DEF entry
<1>3. /\ longer \in Seq(Entries) /\ Len(longer) = n + 1
      /\ \A i \in 1 .. n : longer[i] = data.history[i]
      /\ longer[n + 1] = entry
  BY <1>1, <1>2, AppendProperties
<1>4. n \in Nat
  BY <1>1, LenProperties
<1>5. previous = NoSnapshot => n = 0
  BY CheckAssumption DEF Sound, CountsRight
<1>6. entry.snapshot = current /\ entry.changes = Diff(previous, current)
  BY DEF entry, Entry
<1> HIDE DEF longer, n
<1>7. \A f, m, i : m \in 0 .. n /\ i \in 1 .. m /\ LastSight(longer, m, f, i)
                     => LastSight(data.history, m, f, i)
  BY <1>3, <1>4 DEF LastSight
<1>8. ASSUME NEW f \in Fields, NEW i \in 1 .. n, LastSight(data.history, n, f, i)
      PROVE  /\ previous \in Snapshots /\ f \in DOMAIN previous
             /\ previous[f] = data.history[i].snapshot[f]
  BY <1>1, <1>4, <1>5, <1>8 DEF Sound, OneStory, n
<1>9. ASSUME NEW f \in Fields, NEW i \in 1 .. n + 1, LastSight(longer, n + 1, f, i)
      PROVE  /\ f \in DOMAIN Merged(previous, current)
             /\ Merged(previous, current)[f] = longer[i].snapshot[f]
  <2>1. CASE i = n + 1
    <3>1. f \in DOMAIN current
      BY <1>3, <1>6, <1>9, <2>1 DEF LastSight
    <3>2. QED BY <1>1, <1>3, <1>6, <2>1, <3>1, MergedOf
  <2>2. CASE i # n + 1
    <3>1. i \in 1 .. n /\ n + 1 \in i + 1 .. n + 1
      BY <1>4, <2>2
    <3>2. f \notin DOMAIN current
      BY <1>3, <1>6, <1>9, <3>1 DEF LastSight
    <3>3. LastSight(longer, n, f, i)
      BY <1>4, <1>9, <3>1 DEF LastSight
    <3>4. LastSight(data.history, n, f, i)
      BY <1>4, <1>7, <3>1, <3>3
    <3>5. previous \in Snapshots /\ f \in DOMAIN previous
          /\ previous[f] = data.history[i].snapshot[f]
      BY <1>8, <3>1, <3>4
    <3>6. f \in DOMAIN Merged(previous, current) /\ Merged(previous, current)[f] = previous[f]
      BY <3>2, <3>5, MergedOf
    <3>7. QED BY <1>3, <3>1, <3>5, <3>6
  <2>3. QED BY <2>1, <2>2
<1>10. ASSUME NEW k \in 1 .. n + 1, NEW f \in DOMAIN longer[k].changes
       PROVE  LET change == longer[k].changes[f] IN
              /\ change.old # change.new
              /\ longer[k].snapshot[f] = change.new
              /\ \A i \in 1 .. k - 1 :
                   LastSight(longer, k - 1, f, i) => longer[i].snapshot[f] = change.old
  <2>1. CASE k = n + 1
    <3>1. /\ f \in DOMAIN Diff(previous, current) /\ longer[k] = entry /\ k - 1 = n
      BY <1>3, <1>4, <1>6, <2>1
    <3>2. /\ previous[f] # current[f] /\ f \in DOMAIN current
          /\ Diff(previous, current)[f] = [old |-> previous[f], new |-> current[f]]
      BY <1>1, <3>1, DiffOf
    <3>3. f \in Fields
      BY <3>2, PartialFunctions DEF Snapshots
    <3>4. ASSUME NEW i \in 1 .. n, LastSight(longer, n, f, i)
          PROVE  longer[i].snapshot[f] = previous[f]
      <4>1. LastSight(data.history, n, f, i)
        BY <1>4, <1>7, <3>4
      <4>2. QED BY <1>3, <1>8, <3>3, <4>1
    <3>5. QED BY <1>6, <3>1, <3>2, <3>4
  <2>2. CASE k # n + 1
    <3>1. k \in 1 .. n /\ k - 1 \in 0 .. n /\ longer[k] = data.history[k]
      BY <1>3, <1>4, <2>2
    <3>2. ASSUME NEW i \in 1 .. k - 1, LastSight(longer, k - 1, f, i)
          PROVE  LastSight(data.history, k - 1, f, i) /\ longer[i] = data.history[i]
      BY <1>3, <1>4, <1>7, <3>1, <3>2
    <3>3. QED BY <3>1, <3>2 DEF Sound, OneStory, n
  <2>3. QED BY <2>1, <2>2
<1>11. QED
  BY <1>3, <1>9, <1>10 DEF OneStory, longer, entry, n

LEMMA CheckedStory ==
  ASSUME NEW data \in Records, NEW current \in Snapshots, Sound(data)
  PROVE  OneStory(Checked(data, current).history, Checked(data, current).snapshot)
<1>1. data.snapshot \in Snapshots \cup {NoSnapshot} /\ data.history \in Seq(Entries)
  BY DEF Records
<1>2. CASE data.snapshot = NoSnapshot \/ Changed(data, current)
  <2>1. Append(data.history, Entry(data.snapshot, current)) \in Seq(Entries)
    BY <1>1, EntryType, AppendProperties
  <2>2. OneStory(Latest(Append(data.history, Entry(data.snapshot, current))),
                 Merged(data.snapshot, current))
    BY <1>2, <2>1, ContinuedStory, TrimmedStory
  <2>3. QED BY <1>2, <2>2 DEF Checked
<1>3. CASE ~(data.snapshot = NoSnapshot \/ Changed(data, current))
  <2> DEFINE previous == data.snapshot
  <2>1. previous \in Snapshots /\ DOMAIN Diff(previous, current) = {}
    BY <1>1, <1>3 DEF Changed
  <2>2. \A f \in DOMAIN previous : /\ f \in DOMAIN Merged(previous, current)
                                   /\ Merged(previous, current)[f] = previous[f]
    BY <2>1, DiffOf, MergedOf
  <2>3. QED BY <1>3, <2>2 DEF Checked, Sound, OneStory
<1>4. QED BY <1>2, <1>3

\* The record and every copy of it are sound.
HistoryInv == Sound(record) /\ \A c \in Checkers : Sound(copy[c])

LEMMA HistoryStep ==
  ASSUME TypeOK, HistoryInv, [Next]_vars
  PROVE  HistoryInv'
<1>1. \A c \in Checkers : copy[c] \in Records /\ seen[c] \in Snapshots
  BY DEF TypeOK
<1>2. \A c \in Checkers : Sound(Checked(copy[c], seen[c])) /\ Sound(CheckedInVain(copy[c]))
  BY <1>1, CheckedCountsRight, CheckedStory, InVainIsSound DEF HistoryInv, Sound
<1>3. Sound(record')
  BY <1>2, RecordSteps DEF HistoryInv
<1>4. ASSUME NEW c \in Checkers
      PROVE  Sound(copy'[c])
  BY RecordSteps, NewRecordIsSound DEF HistoryInv
<1>5. QED BY <1>3, <1>4 DEF HistoryInv

LEMMA HistoryInvariant == Spec => []HistoryInv
<1>1. Init => HistoryInv
  BY NewRecordIsSound DEF Init, HistoryInv
<1>2. TypeOK /\ HistoryInv /\ [Next]_vars => HistoryInv'
  BY HistoryStep
<1>3. QED BY <1>1, <1>2, Types, PTL DEF Spec

\* With any number of overlapping checks, lost writes and dead checks, the
\* history holds exactly the baseline and the changes the record counts.
THEOREM HistoryCounts == Spec => []HistoryMatchesCounts
<1>1. HistoryInv => HistoryMatchesCounts
  BY DEF HistoryInv, Sound, CountsRight, HistoryMatchesCounts
<1>2. QED BY <1>1, HistoryInvariant, PTL

\* And it tells one story: each change starts from what the history said last,
\* and last_snapshot is where the story ends.
THEOREM HistoryStory == Spec => []HistoryIsOneStory
<1>1. HistoryInv => HistoryIsOneStory
  BY DEF HistoryInv, Sound, OneStory, HistoryIsOneStory
<1>2. QED BY <1>1, HistoryInvariant, PTL

---------------------------------------------------------------------------
(* Firing.                                                                 *)

\* Firings, dead firings and firings still to come.
Owing == Len(fired) + dropped + Cardinality(Firing)

\* No record, stored or in hand, counts a change that is not among them.
FeedCovers ==
  /\ record.changes <= Owing
  /\ \A c \in Checkers : copy[c].changes <= Owing

\* What subscribers were last told of a field is what the snapshot says of it.
ToldLast(snapshot) ==
  \A i \in DOMAIN fired : \A f \in DOMAIN fired[i] :
    (\A k \in i + 1 .. Len(fired) : f \notin DOMAIN fired[k])
      => snapshot # NoSnapshot /\ f \in DOMAIN snapshot /\ snapshot[f] = fired[i][f].new

Gapless ==
  \A i, j \in DOMAIN fired : \A f \in DOMAIN fired[i] \cap DOMAIN fired[j] :
    (i < j /\ \A k \in i + 1 .. j - 1 : f \notin DOMAIN fired[k])
      => fired[j][f].old = fired[i][f].new

\* One check at a time: its copy is the record until it puts, and the record is
\* its copy brought up to date after that.
InHand(c) ==
  /\ pc[c] \in {"fetch", "put", "put_failed"} => copy[c] = record
  /\ pc[c] = "fire" => record = Checked(copy[c], seen[c])

OneAtATime ==
  /\ \A c, d \in Checkers : pc[c] # "idle" /\ pc[d] # "idle" => c = d
  /\ \A c \in Checkers : InHand(c)
  /\ record.changes = Owing
  /\ dropped = 0 =>
       /\ Gapless
       /\ \A c \in Firing : ToldLast(copy[c].snapshot)
       /\ Firing = {} => ToldLast(record.snapshot)

OwesAChange == \A c \in Firing : Changed(copy[c], seen[c])

FiringInv == OwesAChange /\ FeedCovers /\ (~overlapped => OneAtATime)

LEMMA FiringIsFinite ==
  /\ IsFiniteSet(Firing) /\ Cardinality(Firing) \in Nat
  /\ IsFiniteSet(Firing') /\ Cardinality(Firing') \in Nat
<1>1. Firing \in SUBSET Checkers /\ Firing' \in SUBSET Checkers
  BY DEF Firing
<1>2. QED BY <1>1, CheckAssumption, FS_Subset, FS_CardinalityType

\* What each step does to the firings: nothing, one more to come, or one done.
LEMMA FiringSteps ==
  ASSUME TypeOK, NEW c \in Checkers
  PROVE  /\ PutChecked(c) /\ Changed(copy[c], seen[c]) =>
              Firing' = Firing \cup {c} /\ Owing' = Owing + 1
         /\ PutChecked(c) /\ ~Changed(copy[c], seen[c]) => Firing' = Firing /\ Owing' = Owing
         /\ Begin(c) \/ ScrapeReturns(c) \/ ScrapeFails(c) \/ PutFailed(c) =>
              Firing' = Firing /\ Owing' = Owing
         /\ Fire(c) => Firing' = Firing \ {c} /\ Owing' = Owing
         /\ Abort(c) => Firing' = Firing \ {c} /\ Owing' = Owing
<1> USE DEF TypeOK
<1>1. Len(fired) \in Nat /\ dropped \in Nat
  BY LenProperties
<1>2. ASSUME PutChecked(c), Changed(copy[c], seen[c])
      PROVE  Firing' = Firing \cup {c} /\ Owing' = Owing + 1
  <2>1. Firing' = Firing \cup {c} /\ c \notin Firing
    BY <1>2 DEF PutChecked, Firing
  <2>2. Cardinality(Firing') = Cardinality(Firing) + 1
    BY <2>1, FiringIsFinite, FS_AddElement
  <2>3. UNCHANGED <<fired, dropped>>
    BY <1>2 DEF PutChecked
  <2>4. QED BY <1>1, <2>1, <2>2, <2>3, FiringIsFinite DEF Owing
<1>3. ASSUME PutChecked(c), ~Changed(copy[c], seen[c])
      PROVE  Firing' = Firing /\ Owing' = Owing
  <2>1. Firing' = Firing
    BY <1>3 DEF PutChecked, Finish, Firing
  <2>2. QED BY <1>3, <2>1 DEF PutChecked, Owing
<1>4. ASSUME Begin(c) \/ ScrapeReturns(c) \/ ScrapeFails(c) \/ PutFailed(c)
      PROVE  Firing' = Firing /\ Owing' = Owing
  <2>1. Firing' = Firing /\ UNCHANGED <<fired, dropped>>
    BY <1>4 DEF Begin, ScrapeReturns, ScrapeFails, PutFailed, Finish, Firing
  <2>2. QED BY <2>1 DEF Owing
<1>5. ASSUME Fire(c)
      PROVE  Firing' = Firing \ {c} /\ Owing' = Owing
  <2>1. Firing' = Firing \ {c} /\ c \in Firing /\ dropped' = dropped
    BY <1>5 DEF Fire, Finish, Firing
  <2>2. Cardinality(Firing') = Cardinality(Firing) - 1
    BY <2>1, FiringIsFinite, FS_RemoveElement
  <2>3. copy[c].snapshot \in Snapshots \cup {NoSnapshot} /\ seen[c] \in Snapshots
    BY DEF Records
  <2>4. Len(fired') = Len(fired) + 1
    BY <1>5, <2>3, DiffOf, AppendProperties DEF Fire
  <2>5. QED BY <1>1, <2>1, <2>2, <2>4, FiringIsFinite DEF Owing
<1>6. ASSUME Abort(c)
      PROVE  Firing' = Firing \ {c} /\ Owing' = Owing
  <2>1. Firing' = Firing \ {c} /\ fired' = fired
    BY <1>6 DEF Abort, Finish, Firing
  <2>2. CASE c \in Firing
    <3>1. Cardinality(Firing') = Cardinality(Firing) - 1
      BY <2>1, <2>2, FiringIsFinite, FS_RemoveElement
    <3>2. dropped' = dropped + 1
      BY <1>6, <2>2 DEF Abort, Firing
    <3>3. QED BY <1>1, <2>1, <3>1, <3>2, FiringIsFinite DEF Owing
  <2>3. CASE c \notin Firing
    <3>1. Firing' = Firing /\ dropped' = dropped
      BY <1>6, <2>1, <2>3 DEF Abort, Firing
    <3>2. QED BY <2>1, <3>1 DEF Owing
  <2>4. QED BY <2>1, <2>2, <2>3
<1>7. QED BY <1>2, <1>3, <1>4, <1>5, <1>6

\* A check that is about to fire has something to fire.
LEMMA OwesStep ==
  ASSUME TypeOK, OwesAChange, [Next]_vars
  PROVE  OwesAChange'
<1> USE DEF TypeOK, OwesAChange, Firing
<1>1. ASSUME NEW c \in Checkers, PutChecked(c)
      PROVE  OwesAChange'
  <2>1. CASE Changed(copy[c], seen[c])
    BY <1>1, <2>1 DEF PutChecked
  <2>2. CASE ~Changed(copy[c], seen[c])
    BY <1>1, <2>2 DEF PutChecked, Finish
  <2>3. QED BY <2>1, <2>2
<1>2. ASSUME NEW c \in Checkers, Begin(c) \/ ScrapeReturns(c) \/ ScrapeFails(c)
      PROVE  OwesAChange'
  BY <1>2 DEF Begin, ScrapeReturns, ScrapeFails
<1>3. ASSUME NEW c \in Checkers, PutFailed(c) \/ Fire(c) \/ Abort(c)
      PROVE  OwesAChange'
  BY <1>3 DEF PutFailed, Fire, Abort, Finish
<1>4. EditPlace \/ UNCHANGED vars => OwesAChange'
  BY DEF EditPlace, vars
<1>5. QED BY <1>1, <1>2, <1>3, <1>4 DEF Next, CheckStep

LEMMA OwingIsNat == TypeOK => Owing \in Nat
<1> SUFFICES ASSUME TypeOK PROVE Owing \in Nat
  OBVIOUS
<1>1. Len(fired) \in Nat /\ dropped \in Nat
  BY LenProperties DEF TypeOK
<1>2. QED BY <1>1, FiringIsFinite DEF Owing

\* The counter of a record and of all its copies stays covered.
LEMMA CoversStep ==
  ASSUME TypeOK, FeedCovers, [Next]_vars
  PROVE  FeedCovers'
<1>1. /\ Owing \in Nat /\ record.changes \in Nat /\ NewRecord.changes = 0
      /\ \A c \in Checkers : copy[c].changes \in Nat
  BY OwingIsNat DEF TypeOK, Records, NewRecord
<1>2. ASSUME NEW c \in Checkers, PutChecked(c)
      PROVE  /\ record'.changes <= Owing' /\ Owing <= Owing'
             /\ \A d \in Checkers : copy'[d] = copy[d] \/ copy'[d] = NewRecord
  <2>1. record'.changes = IF Changed(copy[c], seen[c]) THEN copy[c].changes + 1
                          ELSE copy[c].changes
    BY <1>2 DEF PutChecked, Checked
  <2>2. Owing' = IF Changed(copy[c], seen[c]) THEN Owing + 1 ELSE Owing
    BY <1>2, FiringSteps
  <2>3. \A d \in Checkers : copy'[d] = copy[d] \/ copy'[d] = NewRecord
    BY <1>2 DEF PutChecked, Finish, TypeOK
  <2>4. QED BY <1>1, <2>1, <2>2, <2>3 DEF FeedCovers
<1>3. ASSUME NEW c \in Checkers, PutFailed(c)
      PROVE  /\ record'.changes <= Owing' /\ Owing' = Owing
             /\ \A d \in Checkers : copy'[d] = copy[d] \/ copy'[d] = NewRecord
  <2>1. record'.changes = copy[c].changes
    BY <1>3 DEF PutFailed, CheckedInVain, TypeOK, Records
  <2>2. Owing' = Owing
    BY <1>3, FiringSteps
  <2>3. \A d \in Checkers : copy'[d] = copy[d] \/ copy'[d] = NewRecord
    BY <1>3 DEF PutFailed, Finish, TypeOK
  <2>4. QED BY <2>1, <2>2, <2>3 DEF FeedCovers
<1>4. ASSUME NEW c \in Checkers,
             Begin(c) \/ ScrapeReturns(c) \/ ScrapeFails(c) \/ Fire(c) \/ Abort(c)
      PROVE  record' = record /\ Owing' = Owing
  BY <1>4, FiringSteps DEF Begin, ScrapeReturns, ScrapeFails, Fire, Abort
<1>5. EditPlace \/ UNCHANGED vars => record' = record /\ Owing' = Owing
  BY DEF EditPlace, vars, Owing, Firing
<1>6. \A d \in Checkers : copy'[d] = copy[d] \/ copy'[d] = record \/ copy'[d] = NewRecord
  BY RecordSteps
<1>7. CASE record' = record /\ Owing' = Owing
  BY <1>1, <1>6, <1>7 DEF FeedCovers
<1>8. CASE \E c \in Checkers : PutChecked(c) \/ PutFailed(c)
  <2>1. /\ record'.changes <= Owing' /\ Owing <= Owing'
        /\ \A d \in Checkers : copy'[d] = copy[d] \/ copy'[d] = NewRecord
    BY <1>1, <1>2, <1>3, <1>8
  <2>2. Owing' \in Nat
    BY StepTypes, OwingIsNat, <1>1, <1>8, <1>2, <1>3, FiringSteps
  <2>3. QED BY <1>1, <2>1, <2>2 DEF FeedCovers
<1>9. QED BY <1>4, <1>5, <1>7, <1>8 DEF Next, CheckStep

\* A check that finds nothing different leaves what it knew, and a check that
\* does agrees with its own diff.
LEMMA CheckedSnapshot ==
  ASSUME NEW data \in Records, NEW current \in Snapshots, data.snapshot # NoSnapshot
  PROVE  /\ Checked(data, current).snapshot # NoSnapshot
         /\ \A f \in DOMAIN data.snapshot :
              /\ f \in DOMAIN Checked(data, current).snapshot
              /\ Checked(data, current).snapshot[f] =
                   IF f \in DOMAIN Diff(data.snapshot, current)
                   THEN Diff(data.snapshot, current)[f].new ELSE data.snapshot[f]
<1> DEFINE previous == data.snapshot
<1>1. previous \in Snapshots
  BY DEF Records
<1>2. Checked(data, current).snapshot = Merged(previous, current)
  BY DEF Checked
<1>3. QED BY <1>1, <1>2, DiffOf, MergedOf

\* The feed goes on: what is fired next starts from what was told last.
LEMMA FireContinues ==
  ASSUME TypeOK, NEW c \in Checkers, Fire(c), Gapless, ToldLast(copy[c].snapshot),
         record = Checked(copy[c], seen[c])
  PROVE  Gapless' /\ ToldLast(record.snapshot)'
<1> DEFINE before == copy[c].snapshot
           after == record.snapshot
           change == Diff(before, seen[c])
           n == Len(fired)
<1>1. /\ copy[c] \in Records /\ seen[c] \in Snapshots /\ before \in Snapshots \cup {NoSnapshot}
      /\ n \in Nat /\ DOMAIN fired = 1 .. n /\ fired \in Seq(Changes)
  BY LenProperties DEF TypeOK, Records
<1>2. change \in Changes
  BY <1>1, DiffOf
<1>3. /\ fired' = Append(fired, change) /\ record' = record
  BY DEF Fire
<1>4. /\ fired' \in Seq(Changes) /\ Len(fired') = n + 1 /\ DOMAIN fired' = 1 .. n + 1
      /\ \A i \in 1 .. n : fired'[i] = fired[i]
      /\ fired'[n + 1] = change
  BY <1>1, <1>2, <1>3, AppendProperties, LenProperties
<1>5. \A f \in DOMAIN change : /\ before # NoSnapshot /\ f \in DOMAIN before
                               /\ change[f].old = before[f]
  BY <1>1, DiffOf, NoneIsNoSnapshot
<1>6. before # NoSnapshot =>
        /\ after # NoSnapshot
        /\ \A f \in DOMAIN before :
             /\ f \in DOMAIN after
             /\ after[f] = IF f \in DOMAIN change THEN change[f].new ELSE before[f]
  BY <1>1, CheckedSnapshot
<1> HIDE DEF before, after, change, n
<1>7. ASSUME NEW i \in 1 .. n, NEW f \in DOMAIN fired[i],
             \A k \in i + 1 .. n : f \notin DOMAIN fired[k]
      PROVE  before # NoSnapshot /\ f \in DOMAIN before /\ before[f] = fired[i][f].new
  BY <1>1, <1>7 DEF ToldLast, before, n
<1>8. ASSUME NEW i \in 1 .. n + 1, NEW f \in DOMAIN fired'[i],
             \A k \in i + 1 .. n + 1 : f \notin DOMAIN fired'[k]
      PROVE  after # NoSnapshot /\ f \in DOMAIN after /\ after[f] = fired'[i][f].new
  <2>1. CASE i = n + 1
    BY <1>4, <1>5, <1>6, <2>1
  <2>2. CASE i # n + 1
    <3>1. i \in 1 .. n /\ n + 1 \in i + 1 .. n + 1 /\ fired'[i] = fired[i]
      BY <1>1, <1>4, <2>2
    <3>2. f \notin DOMAIN change
      BY <1>4, <1>8, <3>1
    <3>3. \A k \in i + 1 .. n : f \notin DOMAIN fired[k]
      BY <1>1, <1>4, <1>8, <3>1
    <3>4. before # NoSnapshot /\ f \in DOMAIN before /\ before[f] = fired[i][f].new
      BY <1>7, <3>1, <3>3
    <3>5. QED BY <1>6, <3>1, <3>2, <3>4
  <2>3. QED BY <2>1, <2>2
<1>9. ASSUME NEW i \in 1 .. n + 1, NEW j \in 1 .. n + 1,
             NEW f \in DOMAIN fired'[i] \cap DOMAIN fired'[j],
             i < j, \A k \in i + 1 .. j - 1 : f \notin DOMAIN fired'[k]
      PROVE  fired'[j][f].old = fired'[i][f].new
  <2>1. i \in 1 .. n /\ fired'[i] = fired[i]
    BY <1>1, <1>4, <1>9
  <2>2. CASE j = n + 1
    <3>1. \A k \in i + 1 .. n : f \notin DOMAIN fired[k]
      BY <1>1, <1>4, <1>9, <2>2
    <3>2. before[f] = fired[i][f].new
      BY <1>7, <2>1, <3>1
    <3>3. QED BY <1>4, <1>5, <2>1, <2>2, <3>2
  <2>3. CASE j # n + 1
    <3>1. j \in 1 .. n /\ fired'[j] = fired[j]
      BY <1>1, <1>4, <2>3
    <3>2. \A k \in i + 1 .. j - 1 : f \notin DOMAIN fired[k]
      BY <1>1, <1>4, <1>9, <3>1
    <3>3. QED BY <1>1, <1>9, <2>1, <3>1, <3>2 DEF Gapless
  <2>4. QED BY <2>2, <2>3
<1>10. Gapless'
  BY <1>4, <1>9 DEF Gapless
<1>11. ToldLast(record.snapshot)'
  BY <1>3, <1>4, <1>8 DEF ToldLast, after
<1>12. QED BY <1>10, <1>11

\* With one check under way, its step leaves every other one idle.
LEMMA OthersIdle ==
  ASSUME TypeOK, OneAtATime, NEW c \in Checkers, pc[c] # "idle",
         NEW stage, pc' = [pc EXCEPT ![c] = stage]
  PROVE  /\ \A d \in Checkers \ {c} : pc[d] = "idle" /\ pc'[d] = "idle"
         /\ pc'[c] = stage
         /\ pc[c] # "fire" => Firing = {}
         /\ Firing' = IF stage = "fire" THEN {c} ELSE {}
         /\ \A d, e \in Checkers : pc'[d] # "idle" /\ pc'[e] # "idle" => d = e
<1>1. \A d \in Checkers \ {c} : pc[d] = "idle" /\ pc'[d] = "idle"
  BY DEF TypeOK, OneAtATime
<1>2. pc'[c] = stage
  BY DEF TypeOK
<1>3. QED BY <1>1, <1>2 DEF Firing

LEMMA BeginAlone ==
  ASSUME TypeOK, ~overlapped => OneAtATime, NEW c \in Checkers, Begin(c), ~overlapped'
  PROVE  OneAtATime'
<1>1. ~overlapped /\ \A d \in Checkers : pc[d] = "idle"
  BY DEF Begin, TypeOK
<1>2. /\ pc' = [pc EXCEPT ![c] = "fetch"] /\ copy' = [copy EXCEPT ![c] = record]
      /\ UNCHANGED <<record, seen, fired, dropped>>
  BY DEF Begin
<1>3. Firing = {} /\ Firing' = {}
  BY <1>1, <1>2 DEF Firing, TypeOK
<1>4. Owing' = Owing
  BY <1>2, <1>3 DEF Owing
<1>5. \A d, e \in Checkers : pc'[d] # "idle" /\ pc'[e] # "idle" => d = e
  BY <1>1, <1>2 DEF TypeOK
<1>6. \A d \in Checkers : InHand(d)'
  BY <1>1, <1>2 DEF TypeOK, InHand
<1>7. dropped' = 0 => Gapless' /\ ToldLast(record.snapshot)'
  BY <1>1, <1>2, <1>3 DEF OneAtATime, Gapless, ToldLast
<1>8. record'.changes = Owing'
  BY <1>1, <1>2, <1>4 DEF OneAtATime
<1>9. QED BY <1>3, <1>5, <1>6, <1>7, <1>8 DEF OneAtATime

\* A scrape, or a check that dies before its put, touches nothing that counts.
LEMMA QuietAlone ==
  ASSUME TypeOK, OneAtATime, NEW c \in Checkers, pc[c] # "idle", pc[c] # "fire",
         NEW stage \in {"idle", "put", "put_failed"}, pc' = [pc EXCEPT ![c] = stage],
         stage # "idle" => copy' = copy,
         UNCHANGED <<record, fired, dropped>>
  PROVE  OneAtATime'
<1>1. /\ \A d \in Checkers \ {c} : pc'[d] = "idle"
      /\ pc'[c] = stage /\ Firing = {} /\ Firing' = {}
      /\ \A d, e \in Checkers : pc'[d] # "idle" /\ pc'[e] # "idle" => d = e
  BY OthersIdle
<1>2. pc[c] \in {"fetch", "put", "put_failed"}
  BY DEF TypeOK
<1>3. Owing' = Owing
  BY <1>1 DEF Owing
<1>4. \A d \in Checkers : InHand(d)'
  BY <1>1, <1>2 DEF OneAtATime, InHand
<1>5. dropped' = 0 => Gapless' /\ ToldLast(record.snapshot)'
  BY <1>1 DEF OneAtATime, Gapless, ToldLast
<1>6. QED BY <1>1, <1>3, <1>4, <1>5 DEF OneAtATime

LEMMA PutCheckedAlone ==
  ASSUME TypeOK, OneAtATime, NEW c \in Checkers, PutChecked(c)
  PROVE  OneAtATime'
<1> DEFINE changed == Changed(copy[c], seen[c])
<1>1. /\ pc[c] = "put" /\ copy[c] = record /\ record' = Checked(record, seen[c])
      /\ UNCHANGED <<fired, dropped>>
  BY DEF PutChecked, OneAtATime, InHand
<1>2. /\ pc' = [pc EXCEPT ![c] = IF changed THEN "fire" ELSE "idle"]
      /\ changed => UNCHANGED <<copy, seen>>
  BY DEF PutChecked, Finish
<1>3. /\ \A d \in Checkers \ {c} : pc'[d] = "idle"
      /\ pc'[c] = (IF changed THEN "fire" ELSE "idle")
      /\ Firing = {} /\ Firing' = IF changed THEN {c} ELSE {}
      /\ \A d, e \in Checkers : pc'[d] # "idle" /\ pc'[e] # "idle" => d = e
  BY <1>1, <1>2, OthersIdle
<1>4. \A d \in Checkers : InHand(d)'
  BY <1>1, <1>2, <1>3 DEF InHand
<1>5. record'.changes = Owing'
  <2>1. record'.changes = IF changed THEN record.changes + 1 ELSE record.changes
    BY <1>1 DEF Checked
  <2>2. Owing' = IF changed THEN Owing + 1 ELSE Owing
    BY FiringSteps
  <2>3. QED BY <2>1, <2>2 DEF OneAtATime
<1>6. dropped' = 0 => Gapless' /\ ToldLast(record.snapshot)
  BY <1>1, <1>3 DEF OneAtATime, Gapless
<1>7. CASE changed
  <2>1. ToldLast(record.snapshot) => ToldLast(copy[c].snapshot)'
    BY <1>1, <1>2, <1>7 DEF ToldLast
  <2>2. QED BY <1>3, <1>4, <1>5, <1>6, <1>7, <2>1 DEF OneAtATime
<1>8. CASE ~changed
  <2>1. ToldLast(record.snapshot) => ToldLast(record.snapshot)'
    <3>1. record \in Records /\ seen[c] \in Snapshots
      BY DEF TypeOK
    <3>2. DOMAIN Diff(record.snapshot, seen[c]) = {}
      BY <1>1, <1>8 DEF Changed
    <3>3. record.snapshot # NoSnapshot =>
            /\ record'.snapshot # NoSnapshot
            /\ \A f \in DOMAIN record.snapshot :
                 f \in DOMAIN record'.snapshot /\ record'.snapshot[f] = record.snapshot[f]
      BY <1>1, <3>1, <3>2, CheckedSnapshot
    <3>4. QED BY <1>1, <3>3 DEF ToldLast
  <2>2. QED BY <1>3, <1>4, <1>5, <1>6, <1>8, <2>1 DEF OneAtATime
<1>9. QED BY <1>7, <1>8

LEMMA PutFailedAlone ==
  ASSUME TypeOK, OneAtATime, NEW c \in Checkers, PutFailed(c)
  PROVE  OneAtATime'
<1>1. /\ pc[c] = "put_failed" /\ copy[c] = record /\ record' = CheckedInVain(record)
      /\ UNCHANGED <<fired, dropped>>
      /\ pc' = [pc EXCEPT ![c] = "idle"]
  BY DEF PutFailed, Finish, OneAtATime, InHand
<1>2. record'.snapshot = record.snapshot /\ record'.changes = record.changes
  BY <1>1 DEF CheckedInVain, TypeOK, Records
<1>3. /\ \A d \in Checkers \ {c} : pc'[d] = "idle"
      /\ pc'[c] = "idle" /\ Firing = {} /\ Firing' = {}
      /\ \A d, e \in Checkers : pc'[d] # "idle" /\ pc'[e] # "idle" => d = e
  BY <1>1, OthersIdle
<1>4. \A d \in Checkers : InHand(d)'
  BY <1>3 DEF InHand
<1>5. Owing' = Owing
  BY <1>1, <1>3 DEF Owing
<1>6. dropped' = 0 => Gapless' /\ ToldLast(record.snapshot)'
  BY <1>1, <1>2, <1>3 DEF OneAtATime, Gapless, ToldLast
<1>7. QED BY <1>2, <1>3, <1>4, <1>5, <1>6 DEF OneAtATime

LEMMA FireAlone ==
  ASSUME TypeOK, OneAtATime, NEW c \in Checkers, Fire(c)
  PROVE  OneAtATime'
<1>1. /\ pc[c] = "fire" /\ record = Checked(copy[c], seen[c])
      /\ UNCHANGED <<record, dropped>> /\ c \in Firing
      /\ pc' = [pc EXCEPT ![c] = "idle"]
  BY DEF Fire, Finish, OneAtATime, InHand, Firing
<1>2. /\ \A d \in Checkers \ {c} : pc'[d] = "idle"
      /\ pc'[c] = "idle" /\ Firing' = {}
      /\ \A d, e \in Checkers : pc'[d] # "idle" /\ pc'[e] # "idle" => d = e
  BY <1>1, OthersIdle
<1>3. \A d \in Checkers : InHand(d)'
  BY <1>2 DEF InHand
<1>4. Owing' = Owing
  BY FiringSteps
<1>5. dropped' = 0 => Gapless' /\ ToldLast(record.snapshot)'
  BY <1>1, FireContinues DEF OneAtATime
<1>6. QED BY <1>1, <1>2, <1>3, <1>4, <1>5 DEF OneAtATime

LEMMA AbortAlone ==
  ASSUME TypeOK, OneAtATime, NEW c \in Checkers, Abort(c)
  PROVE  OneAtATime'
<1>1. /\ pc[c] # "idle" /\ pc' = [pc EXCEPT ![c] = "idle"] /\ UNCHANGED <<record, fired>>
      /\ dropped' = IF pc[c] = "fire" THEN dropped + 1 ELSE dropped
  BY DEF Abort, Finish
<1>2. CASE pc[c] # "fire"
  BY <1>1, <1>2, QuietAlone
<1>3. CASE pc[c] = "fire"
  <2>1. /\ \A d \in Checkers \ {c} : pc'[d] = "idle"
        /\ pc'[c] = "idle" /\ Firing' = {}
        /\ \A d, e \in Checkers : pc'[d] # "idle" /\ pc'[e] # "idle" => d = e
    BY <1>1, OthersIdle
  <2>2. \A d \in Checkers : InHand(d)'
    BY <2>1 DEF InHand
  <2>3. Owing' = Owing
    BY FiringSteps
  <2>4. dropped' # 0
    BY <1>1, <1>3 DEF TypeOK
  <2>5. QED BY <1>1, <2>1, <2>2, <2>3, <2>4 DEF OneAtATime
<1>4. QED BY <1>2, <1>3

LEMMA AloneStep ==
  ASSUME TypeOK, ~overlapped => OneAtATime, [Next]_vars, ~overlapped'
  PROVE  OneAtATime'
<1>1. CASE \E c \in Checkers : Begin(c)
  BY <1>1, BeginAlone
<1>2. ASSUME NEW c \in Checkers, CheckStep(c) \/ Abort(c)
      PROVE  OneAtATime'
  <2>1. ~overlapped
    BY <1>2 DEF CheckStep, ScrapeReturns, ScrapeFails, PutChecked, PutFailed, Fire, Abort
  <2>2. CASE ScrapeReturns(c)
    BY <2>1, <2>2, QuietAlone DEF ScrapeReturns
  <2>3. CASE ScrapeFails(c)
    BY <2>1, <2>3, QuietAlone DEF ScrapeFails
  <2>4. QED
    BY <1>2, <2>1, <2>2, <2>3, PutCheckedAlone, PutFailedAlone, FireAlone, AbortAlone
       DEF CheckStep
<1>3. CASE EditPlace \/ UNCHANGED vars
  <2>1. UNCHANGED <<record, pc, copy, seen, fired, dropped, overlapped>>
    BY <1>3 DEF EditPlace, vars
  <2>2. QED BY <2>1 DEF OneAtATime, InHand, Owing, Firing, Gapless, ToldLast
<1>4. QED BY <1>1, <1>2, <1>3 DEF Next

LEMMA InitFiring == Init => FiringInv
<1> SUFFICES ASSUME Init PROVE FiringInv
  OBVIOUS
<1>1. Firing = {} /\ Cardinality(Firing) = 0 /\ Len(fired) = 0 /\ DOMAIN fired = {}
  <2>1. Firing = {}
    BY DEF Init, Firing
  <2>2. fired = <<>>
    BY DEF Init
  <2>3. QED BY <2>1, <2>2, FS_EmptySet
<1>2. Owing = 0
  BY <1>1 DEF Owing, Init
<1>3. record.changes = 0 /\ \A c \in Checkers : copy[c].changes = 0 /\ pc[c] = "idle"
  BY DEF Init, NewRecord
<1>4. QED
  BY <1>1, <1>2, <1>3 DEF FiringInv, OwesAChange, FeedCovers, OneAtATime, InHand, Gapless, ToldLast

LEMMA FiringInvariant == Spec => []FiringInv
<1>1. TypeOK /\ FiringInv /\ [Next]_vars => FiringInv'
  BY OwesStep, CoversStep, AloneStep DEF FiringInv
<1>2. QED BY <1>1, InitFiring, Types, PTL DEF Spec

\* No counted change is skipped; with one check at a time each is fired once or
\* dies with its check, and what is fired has no repetition and no gap.
THEOREM CountedIsFired == Spec => []CountedChangeIsFired
<1>1. TypeOK /\ FiringInv => CountedChangeIsFired
  BY DEF FiringInv, FeedCovers, OneAtATime, Owing, Gapless, CountedChangeIsFired
<1>2. QED BY <1>1, FiringInvariant, Types, PTL

---------------------------------------------------------------------------
(* The refinement: a check implements ChangeFeed.                          *)

\* Whatever a record, a copy or a scrape says of a field, the place has shown.
Witnessed(snapshot) ==
  snapshot # NoSnapshot => \A f \in DOMAIN snapshot : <<f, snapshot[f]>> \in shown

HonestInv ==
  /\ \A f \in Fields : <<f, place[f]>> \in shown
  /\ Witnessed(record.snapshot)
  /\ \A c \in Checkers : Witnessed(copy[c].snapshot) /\ Witnessed(seen[c])

LEMMA WitnessedMerge ==
  ASSUME NEW data \in Records, NEW current \in Snapshots,
         Witnessed(data.snapshot), Witnessed(current)
  PROVE  Witnessed(Checked(data, current).snapshot)
<1>1. data.snapshot \in Snapshots \cup {NoSnapshot}
  BY DEF Records
<1>2. ASSUME NEW f \in DOMAIN Merged(data.snapshot, current)
      PROVE  <<f, Merged(data.snapshot, current)[f]>> \in shown
  <2>1. CASE f \in DOMAIN current
    <3>1. current # NoSnapshot
      BY NoneIsNoSnapshot
    <3>2. QED BY <1>1, <2>1, <3>1, MergedOf DEF Witnessed
  <2>2. CASE f \notin DOMAIN current
    <3>1. data.snapshot \in Snapshots /\ f \in DOMAIN data.snapshot
      BY <1>1, <1>2, <2>2, MergedOf
    <3>2. data.snapshot # NoSnapshot
      BY <3>1, NoneIsNoSnapshot
    <3>3. QED BY <1>1, <2>2, <3>1, <3>2, MergedOf DEF Witnessed
  <2>3. QED BY <2>1, <2>2
<1>3. QED BY <1>2 DEF Witnessed, Checked

LEMMA NothingToWitness == Witnessed(NewRecord.snapshot) /\ Witnessed(Empty)
BY EmptyIsSnapshot DEF Witnessed, NewRecord

LEMMA HonestStep ==
  ASSUME TypeOK, HonestInv, [Next]_vars
  PROVE  HonestInv'
<1>1. shown \subseteq shown'
  <2>1. ASSUME NEW c \in Checkers, Begin(c) \/ CheckStep(c) \/ Abort(c)
        PROVE  shown' = shown
    BY <2>1 DEF CheckStep, Begin, ScrapeReturns, ScrapeFails, PutChecked, PutFailed,
                Fire, Abort, world
  <2>2. EditPlace \/ UNCHANGED vars => shown \subseteq shown'
    BY DEF EditPlace, vars, world
  <2>3. QED BY <2>1, <2>2 DEF Next
<1>2. \A f \in Fields : <<f, place'[f]>> \in shown'
  <2>1. CASE EditPlace
    <3>1. PICK f \in Fields, v \in Values :
            place' = [place EXCEPT ![f] = v] /\ shown' = shown \cup {<<f, v>>}
      BY <2>1 DEF EditPlace
    <3>2. QED BY <3>1 DEF HonestInv, TypeOK
  <2>2. CASE ~EditPlace
    <3>1. place' = place
      BY <2>2 DEF Next, CheckStep, Begin, ScrapeReturns, ScrapeFails, PutChecked,
                  PutFailed, Fire, Abort, vars, world
    <3>2. QED BY <1>1, <3>1 DEF HonestInv
  <2>3. QED BY <2>1, <2>2
<1>3. Witnessed(record'.snapshot) /\ \A c \in Checkers : Witnessed(copy'[c].snapshot)
  <2>1. \A c \in Checkers : /\ Witnessed(Checked(copy[c], seen[c]).snapshot)
                            /\ Witnessed(CheckedInVain(copy[c]).snapshot)
    <3> SUFFICES ASSUME NEW c \in Checkers
                 PROVE  /\ Witnessed(Checked(copy[c], seen[c]).snapshot)
                        /\ Witnessed(CheckedInVain(copy[c]).snapshot)
      OBVIOUS
    <3>1. copy[c] \in Records /\ seen[c] \in Snapshots
      BY DEF TypeOK
    <3>2. CheckedInVain(copy[c]).snapshot = copy[c].snapshot
      BY <3>1 DEF CheckedInVain, Records
    <3>3. QED BY <3>1, <3>2, WitnessedMerge DEF HonestInv
  <2>2. QED BY <2>1, RecordSteps, NothingToWitness DEF HonestInv
<1>4. \A c \in Checkers : Witnessed(seen'[c])
  <2>1. ASSUME NEW c \in Checkers, ScrapeReturns(c)
        PROVE  \A d \in Checkers : Witnessed(seen'[d])
    <3>1. PICK visible \in SUBSET Fields : seen' = [seen EXCEPT ![c] = Snapshot(visible)]
      BY <2>1 DEF ScrapeReturns
    <3>2. Witnessed(Snapshot(visible))
      BY DEF Snapshot, Witnessed, HonestInv
    <3>3. QED BY <3>1, <3>2 DEF HonestInv, TypeOK
  <2>2. ASSUME NEW c \in Checkers, PutChecked(c) \/ PutFailed(c) \/ Fire(c) \/ Abort(c)
        PROVE  \A d \in Checkers : seen'[d] = seen[d] \/ seen'[d] = Empty
    BY <2>2 DEF PutChecked, PutFailed, Fire, Abort, Finish, TypeOK
  <2>3. ASSUME NEW c \in Checkers, Begin(c) \/ ScrapeFails(c)
        PROVE  seen' = seen
    BY <2>3 DEF Begin, ScrapeFails
  <2>4. EditPlace \/ UNCHANGED vars => seen' = seen
    BY DEF EditPlace, vars
  <2>5. QED BY <2>1, <2>2, <2>3, <2>4, NothingToWitness DEF Next, CheckStep, HonestInv
<1>5. \A s : Witnessed(s) => (s # NoSnapshot => \A f \in DOMAIN s : <<f, s[f]>> \in shown')
  BY <1>1 DEF Witnessed
<1>6. QED BY <1>2, <1>3, <1>4, <1>5 DEF HonestInv, Witnessed

LEMMA HonestInvariant == Spec => []HonestInv
<1>1. Init => HonestInv
  BY NothingToWitness DEF Init, HonestInv
<1>2. TypeOK /\ HonestInv /\ [Next]_vars => HonestInv'
  BY HonestStep
<1>3. QED BY <1>1, <1>2, Types, PTL DEF Spec

\* What the checks about to fire owe.
Owed == [c \in Firing |-> Diff(copy[c].snapshot, seen[c])]

LEMMA FeedInit == Init => Feed!Init
<1> SUFFICES ASSUME Init PROVE Feed!Init
  OBVIOUS
<1>1. Firing = {}
  BY DEF Init, Firing
<1>2. Owed = [o \in {} |-> <<>>]
  BY <1>1 DEF Owed
<1>3. QED BY <1>2 DEF Init, Feed!Init, Owed

\* A put that finds something different is where the feed notices a change.
LEMMA FeedNotices ==
  ASSUME TypeOK, HonestInv, NEW c \in Checkers, PutChecked(c), Changed(copy[c], seen[c])
  PROVE  Feed!Notice(c)
<1> DEFINE change == Diff(copy[c].snapshot, seen[c])
<1>1. /\ pc[c] = "put" /\ pc' = [pc EXCEPT ![c] = "fire"]
      /\ UNCHANGED <<copy, seen, shown, fired, dropped>>
  BY DEF PutChecked, world
<1>2. Firing' = Firing \cup {c} /\ c \notin Firing
  BY <1>1 DEF Firing, TypeOK
<1>3. copy[c].snapshot \in Snapshots \cup {NoSnapshot} /\ seen[c] \in Snapshots
  BY DEF TypeOK, Records
<1>4. change \in Changes
  BY <1>3, DiffOf
<1>5. change \in Feed!Changes
  BY <1>4 DEF Changes, Partial, Feed!Changes
<1>6. Feed!Real(change)
  <2>1. DOMAIN change # {}
    BY DEF Changed
  <2>2. \A f \in DOMAIN change :
          /\ <<f, change[f].old>> \in shown /\ <<f, change[f].new>> \in shown
          /\ change[f].old # change[f].new
    <3> SUFFICES ASSUME NEW f \in DOMAIN change
                 PROVE  /\ <<f, change[f].old>> \in shown /\ <<f, change[f].new>> \in shown
                        /\ change[f].old # change[f].new
      OBVIOUS
    <3>1. /\ copy[c].snapshot \in Snapshots
          /\ f \in DOMAIN copy[c].snapshot /\ f \in DOMAIN seen[c]
          /\ change[f].old = copy[c].snapshot[f] /\ change[f].new = seen[c][f]
          /\ copy[c].snapshot[f] # seen[c][f]
      BY <1>3, DiffOf
    <3>2. copy[c].snapshot # NoSnapshot /\ seen[c] # NoSnapshot
      BY <1>3, <3>1, NoneIsNoSnapshot
    <3>3. QED BY <3>1, <3>2 DEF HonestInv, Witnessed
  <2>3. QED BY <2>1, <2>2 DEF Feed!Real
<1>7. DOMAIN Owed = Firing /\ c \notin DOMAIN Owed
  BY <1>2 DEF Owed
<1>8. Owed' = [p \in DOMAIN Owed \cup {c} |-> IF p = c THEN change ELSE Owed[p]]
  BY <1>1, <1>2, <1>7 DEF Owed
<1>9. QED BY <1>1, <1>5, <1>6, <1>7, <1>8 DEF Feed!Notice, Owed

\* The end of a check takes what it owed off the feed.
LEMMA OwedAfter ==
  ASSUME TypeOK, NEW c \in Checkers, Finish(c)
  PROVE  /\ Owed' = [p \in DOMAIN Owed \ {c} |-> Owed[p]]
         /\ c \notin Firing => Owed' = Owed
<1>1. Firing' = Firing \ {c} /\ Firing \subseteq Checkers
  BY DEF Finish, Firing, TypeOK
<1>2. \A p \in Firing \ {c} : copy'[p] = copy[p] /\ seen'[p] = seen[p]
  BY <1>1 DEF Finish, TypeOK
<1>3. Owed' = [p \in Firing \ {c} |-> Diff(copy[p].snapshot, seen[p])]
  BY <1>1, <1>2 DEF Owed
<1>4. QED BY <1>3 DEF Owed

LEMMA FeedStep ==
  ASSUME TypeOK, HonestInv, [Next]_vars
  PROVE  [Feed!Next]_(Feed!feedVars)
<1>1. ASSUME NEW c \in Checkers, Begin(c) \/ ScrapeReturns(c) \/ ScrapeFails(c)
      PROVE  UNCHANGED Feed!feedVars
  <2>1. /\ \A d \in Checkers : pc'[d] = "fire" <=> pc[d] = "fire"
        /\ \A d \in Firing : copy'[d] = copy[d] /\ seen'[d] = seen[d]
        /\ UNCHANGED <<shown, fired, dropped>>
    BY <1>1 DEF Begin, ScrapeReturns, ScrapeFails, Firing, world, TypeOK
  <2>2. Firing' = Firing
    BY <2>1 DEF Firing
  <2>3. Owed' = Owed
    BY <2>1, <2>2 DEF Owed
  <2>4. QED BY <2>1, <2>3 DEF Feed!feedVars, Owed
<1>2. ASSUME NEW c \in Checkers, PutChecked(c), ~Changed(copy[c], seen[c])
      PROVE  UNCHANGED Feed!feedVars
  <2>1. Finish(c) /\ c \notin Firing /\ UNCHANGED <<shown, fired, dropped>>
    BY <1>2 DEF PutChecked, Firing, world
  <2>2. QED BY <2>1, OwedAfter DEF Feed!feedVars, Owed
<1>3. ASSUME NEW c \in Checkers, PutFailed(c)
      PROVE  UNCHANGED Feed!feedVars
  <2>1. Finish(c) /\ c \notin Firing /\ UNCHANGED <<shown, fired, dropped>>
    BY <1>3 DEF PutFailed, Firing, world
  <2>2. QED BY <2>1, OwedAfter DEF Feed!feedVars, Owed
<1>4. ASSUME NEW c \in Checkers, Fire(c)
      PROVE  Feed!Tell(c)
  <2>1. Finish(c) /\ c \in Firing /\ UNCHANGED <<shown, dropped>>
    BY <1>4 DEF Fire, Firing, world
  <2>2. c \in DOMAIN Owed /\ fired' = Append(fired, Owed[c])
    BY <1>4, <2>1 DEF Fire, Owed
  <2>3. QED BY <2>1, <2>2, OwedAfter DEF Feed!Tell, Feed!Without, Owed
<1>5. ASSUME NEW c \in Checkers, Abort(c)
      PROVE  Feed!Lose(c) \/ UNCHANGED Feed!feedVars
  <2>1. Finish(c) /\ UNCHANGED <<shown, fired>>
    BY <1>5 DEF Abort, world
  <2>2. CASE c \in Firing
    <3>1. dropped' = dropped + 1 /\ c \in DOMAIN Owed
      BY <1>5, <2>2 DEF Abort, Firing, Owed
    <3>2. QED BY <2>1, <3>1, OwedAfter DEF Feed!Lose, Feed!Without, Owed
  <2>3. CASE c \notin Firing
    <3>1. dropped' = dropped
      BY <1>5, <2>3 DEF Abort, Firing
    <3>2. QED BY <2>1, <2>3, <3>1, OwedAfter DEF Feed!feedVars, Owed
  <2>4. QED BY <2>2, <2>3
<1>6. EditPlace => Feed!Show
  <2> SUFFICES ASSUME EditPlace PROVE Feed!Show
    OBVIOUS
  <2>1. UNCHANGED <<pc, copy, seen, fired, dropped>>
    BY DEF EditPlace
  <2>2. Owed' = Owed
    BY <2>1 DEF Owed, Firing
  <2>3. \E f \in Fields, v \in Values : shown' = shown \cup {<<f, v>>}
    BY DEF EditPlace
  <2>4. QED BY <2>1, <2>2, <2>3 DEF Feed!Show, Owed
<1>7. UNCHANGED vars => UNCHANGED Feed!feedVars
  <2> SUFFICES ASSUME UNCHANGED vars PROVE UNCHANGED Feed!feedVars
    OBVIOUS
  <2>1. UNCHANGED <<pc, copy, seen, fired, dropped, shown>>
    BY DEF vars, world
  <2>2. Owed' = Owed
    BY <2>1 DEF Owed, Firing
  <2>3. QED BY <2>1, <2>2 DEF Feed!feedVars, Owed
<1>8. QED
  BY <1>1, <1>2, <1>3, <1>4, <1>5, <1>6, <1>7, FeedNotices DEF Next, CheckStep, Feed!Next

\* A check is an honest, at-most-once change feed, however checks overlap, die
\* or overwrite one another's record.
THEOREM ChangeFeedRefined == Spec => ImplementsChangeFeed
<1>1. Init => Feed!Init
  BY FeedInit
<1>2. TypeOK /\ HonestInv /\ [Next]_vars => [Feed!Next]_(Feed!feedVars)
  BY FeedStep
<1>3. QED
  BY <1>1, <1>2, Types, HonestInvariant, PTL DEF Spec, ImplementsChangeFeed, Feed!Spec
================================================================================
