------------------------------ MODULE MonitorCheck ------------------------------
(***************************************************************************)
(* What one monitor's record comes to say about its place.                 *)
(*                                                                         *)
(* check_monitor reads the whole record, scrapes the place, and puts the   *)
(* whole record back: a snapshot, a bounded history of changes and two     *)
(* counters.  Several checks of one monitor may overlap (each worker has a *)
(* scheduler, and check_monitor_now is another caller), the place changes  *)
(* under them, a scrape sees only some of the fields, and a check may die  *)
(* at any await.  Whether the record exists at all is MonitorRegistry's    *)
(* subject; here it exists.                                                *)
(***************************************************************************)
EXTENDS Naturals, Sequences, FiniteSets

CONSTANTS
  Fields,       \* track_fields of the monitor
  Values,       \* what a field may show
  Checkers,     \* concurrent runs of check_monitor
  HistoryCap,   \* MAX_HISTORY_ENTRIES
  NoSnapshot,   \* last_snapshot of a monitor that was never checked
  FirstPlace,   \* what the place shows at first
  MaxEdits,     \* bound: times the place changes
  MaxChecks     \* bound: checks begun

ASSUME CheckAssumption ==
  /\ HistoryCap \in Nat \ {0}
  /\ IsFiniteSet(Checkers)
  /\ NoSnapshot \notin UNION {[d -> Values] : d \in SUBSET Fields}  \* None is no dict
  /\ FirstPlace \in [Fields -> Values]
  /\ MaxEdits \in Nat /\ MaxChecks \in Nat

VARIABLES
  place,     \* what Google shows now
  record,    \* the stored monitor: data["last_snapshot"], "history", counters
  pc,        \* where each check is, between two awaits
  copy,      \* the record as the check read it
  seen,      \* the snapshot the check scraped
  fired,     \* changes handed to _fire_monitor_webhooks, in order
  dropped,   \* history: changes written whose check died before firing
  overlapped, \* history: whether two checks were ever under way at once
  shown,     \* history: every <<field, value>> the place has shown
  edits,     \* edits of the place so far, for the bound
  begun      \* checks begun so far, for the bound

world == <<place, shown, edits>>
vars  == <<world, record, pc, copy, seen, fired, dropped, overlapped, begun>>

Empty == [f \in {} |-> FirstPlace]

\* The record create_monitor puts.
NewRecord == [snapshot |-> NoSnapshot, history |-> <<>>, checks |-> 0,
              changes |-> 0, failed |-> FALSE]

Init ==
  /\ place = FirstPlace
  /\ record = NewRecord
  /\ pc = [c \in Checkers |-> "idle"]
  /\ copy = [c \in Checkers |-> NewRecord]
  /\ seen = [c \in Checkers |-> Empty]
  /\ fired = <<>> /\ dropped = 0 /\ overlapped = FALSE
  /\ shown = {<<f, FirstPlace[f]>> : f \in Fields}
  /\ edits = 0 /\ begun = 0

---------------------------------------------------------------------------
(* The pure part of a check.                                               *)

\* A slip: a tracked field the scrape missed is recorded as None.
SnapshotWithGaps(visible) ==
  [f \in Fields |-> IF f \in visible THEN place[f] ELSE NoSnapshot]

\* _snapshot: the tracked fields this scrape returned, the others omitted.
Snapshot(visible) == [f \in visible |-> place[f]]

\* _diff: fields seen both before and now whose value differs.
Diff(previous, current) ==
  LET both == IF previous = NoSnapshot THEN {}
              ELSE {f \in DOMAIN current \cap DOMAIN previous :
                      previous[f] # current[f]}
  IN [f \in both |-> [old |-> previous[f], new |-> current[f]]]

\* A slip: the snapshot is replaced, and the missed fields forgotten.
MergedByReplacing(previous, current) == current

\* {**(previous or {}), **snapshot}
Merged(previous, current) ==
  LET before == IF previous = NoSnapshot THEN Empty ELSE previous
  IN [f \in DOMAIN before \cup DOMAIN current |->
        IF f \in DOMAIN current THEN current[f] ELSE before[f]]

\* A slip: the slice keeps one entry too many.
LatestAndOneMore(history) ==
  IF Len(history) <= HistoryCap THEN history
  ELSE SubSeq(history, Len(history) - HistoryCap, Len(history))

\* history[-MAX_HISTORY_ENTRIES:]
Latest(history) ==
  IF Len(history) <= HistoryCap THEN history
  ELSE SubSeq(history, Len(history) - HistoryCap + 1, Len(history))

Entry(previous, current) ==
  [kind     |-> IF previous = NoSnapshot THEN "baseline" ELSE "change",
   changes  |-> Diff(previous, current),
   snapshot |-> current]

Changed(data, current) == DOMAIN Diff(data.snapshot, current) # {}

\* The record a successful scrape puts back.
Checked(data, current) ==
  [snapshot |-> Merged(data.snapshot, current),
   history  |-> IF data.snapshot = NoSnapshot \/ Changed(data, current)
                THEN Latest(Append(data.history, Entry(data.snapshot, current)))
                ELSE data.history,
   checks   |-> data.checks + 1,
   changes  |-> IF Changed(data, current) THEN data.changes + 1
                ELSE data.changes,
   failed   |-> FALSE]

\* The record a failed scrape puts back: no observation, not even "no change".
CheckedInVain(data) == [data EXCEPT !.checks = @ + 1, !.failed = TRUE]

---------------------------------------------------------------------------
(* check_monitor, one action per stretch between awaits.                   *)

Finish(c) ==
  /\ pc' = [pc EXCEPT ![c] = "idle"]
  /\ copy' = [copy EXCEPT ![c] = NewRecord]
  /\ seen' = [seen EXCEPT ![c] = Empty]

Begin(c) ==
  /\ pc[c] = "idle" /\ begun < MaxChecks
  /\ pc' = [pc EXCEPT ![c] = "fetch"]
  /\ copy' = [copy EXCEPT ![c] = record]
  /\ begun' = begun + 1
  /\ overlapped' = (overlapped \/ \E d \in Checkers : pc[d] # "idle")
  /\ UNCHANGED <<world, record, seen, fired, dropped>>

\* The scrape returned a place with some of the tracked fields.
ScrapeReturns(c) ==
  /\ pc[c] = "fetch"
  /\ \E visible \in SUBSET Fields :
       seen' = [seen EXCEPT ![c] = Snapshot(visible)]
  /\ pc' = [pc EXCEPT ![c] = "put"]
  /\ UNCHANGED <<world, record, copy, fired, dropped, overlapped, begun>>

\* The scrape raised, returned an error or returned no place.
ScrapeFails(c) ==
  /\ pc[c] = "fetch"
  /\ pc' = [pc EXCEPT ![c] = "put_failed"]
  /\ UNCHANGED <<world, record, copy, seen, fired, dropped, overlapped, begun>>

\* A slip: the diff that decides on firing is taken after the merge.
PutCheckedThenDiffed(c) ==
  /\ pc[c] = "put"
  /\ record' = Checked(copy[c], seen[c])
  /\ IF Changed(record', seen[c])
       THEN pc' = [pc EXCEPT ![c] = "fire"] /\ UNCHANGED <<copy, seen>>
       ELSE Finish(c)
  /\ UNCHANGED <<world, fired, dropped, overlapped, begun>>

PutChecked(c) ==
  /\ pc[c] = "put"
  /\ record' = Checked(copy[c], seen[c])
  /\ IF Changed(copy[c], seen[c])
       THEN pc' = [pc EXCEPT ![c] = "fire"] /\ UNCHANGED <<copy, seen>>
       ELSE Finish(c)
  /\ UNCHANGED <<world, fired, dropped, overlapped, begun>>

PutFailed(c) ==
  /\ pc[c] = "put_failed"
  /\ record' = CheckedInVain(copy[c])
  /\ Finish(c)
  /\ UNCHANGED <<world, fired, dropped, overlapped, begun>>

\* A slip: the change is fired again and again.
FireRepeatedly(c) ==
  /\ pc[c] = "fire"
  /\ fired' = Append(fired, Diff(copy[c].snapshot, seen[c]))
  /\ UNCHANGED <<world, record, pc, copy, seen, dropped, overlapped, begun>>

\* _fire_monitor_webhooks starts; its deliveries are in WebhookDelivery.
Fire(c) ==
  /\ pc[c] = "fire"
  /\ fired' = Append(fired, Diff(copy[c].snapshot, seen[c]))
  /\ Finish(c)
  /\ UNCHANGED <<world, record, dropped, overlapped, begun>>

\* A Redis error (also in _remember_owner, after the put), a cancelled
\* scheduler or a dead worker ends the check where it is.
Abort(c) ==
  /\ pc[c] # "idle"
  /\ dropped' = IF pc[c] = "fire" THEN dropped + 1 ELSE dropped
  /\ Finish(c)
  /\ UNCHANGED <<world, record, fired, overlapped, begun>>

\* Somebody edits the place on Google.
EditPlace ==
  /\ edits < MaxEdits
  /\ \E f \in Fields : \E v \in Values \ {place[f]} :
       /\ place' = [place EXCEPT ![f] = v]
       /\ shown' = shown \cup {<<f, v>>}
  /\ edits' = edits + 1
  /\ UNCHANGED <<record, pc, copy, seen, fired, dropped, overlapped, begun>>

CheckStep(c) ==
  \/ ScrapeReturns(c) \/ ScrapeFails(c)
  \/ PutChecked(c) \/ PutFailed(c) \/ Fire(c)

Next ==
  \/ \E c \in Checkers : Begin(c) \/ CheckStep(c) \/ Abort(c)
  \/ EditPlace

Spec == Init /\ [][Next]_vars

---------------------------------------------------------------------------
(* Properties.                                                             *)

Partial(D, R) == UNION {[d -> R] : d \in SUBSET D}

Snapshots == Partial(Fields, Values)
Changes   == Partial(Fields, [old : Values, new : Values])
Entries   == [kind : {"baseline", "change"}, changes : Changes,
              snapshot : Snapshots]
Records   == [snapshot : Snapshots \cup {NoSnapshot}, history : Seq(Entries),
              checks : Nat, changes : Nat, failed : BOOLEAN]

\* Every variable keeps its type.
TypeOK ==
  /\ place \in [Fields -> Values]
  /\ record \in Records
  /\ pc \in [Checkers -> {"idle", "fetch", "put", "put_failed", "fire"}]
  /\ copy \in [Checkers -> Records]
  /\ seen \in [Checkers -> Snapshots]
  /\ fired \in Seq(Changes) /\ dropped \in Nat
  /\ overlapped \in BOOLEAN
  /\ shown \subseteq Fields \X Values
  /\ edits \in Nat /\ begun \in Nat

\* Writes of one record never mix: with any number of overlapping checks, the
\* history holds exactly the baseline and the counted changes, newest kept.
HistoryMatchesCounts ==
  LET written == record.changes + (IF record.snapshot = NoSnapshot THEN 0 ELSE 1)
  IN /\ Len(record.history) =
          IF written <= HistoryCap THEN written ELSE HistoryCap
     /\ record.changes <= record.checks
     /\ \A i \in 1 .. Len(record.history) :
          (record.history[i].kind = "baseline")
            <=> (i = 1 /\ written <= HistoryCap)

\* The latest history entry that saw field f, before position n.
LastSight(history, n, f, i) ==
  /\ i \in 1 .. n /\ f \in DOMAIN history[i].snapshot
  /\ \A j \in i + 1 .. n : f \notin DOMAIN history[j].snapshot

\* get_place_history tells one story.  What the history last saw of a field is
\* what last_snapshot says, even when scrapes between them missed the field (the
\* merge of l.981-984); a change's new value is what its entry saw, and its old
\* value what the previous entry that saw the field recorded.
HistoryIsOneStory ==
  LET history == record.history IN
  /\ \A f \in Fields, i \in 1 .. Len(history) :
       LastSight(history, Len(history), f, i) =>
         /\ f \in DOMAIN record.snapshot
         /\ record.snapshot[f] = history[i].snapshot[f]
  /\ \A k \in 1 .. Len(history) : \A f \in DOMAIN history[k].changes :
       LET change == history[k].changes[f] IN
       /\ change.old # change.new
       /\ history[k].snapshot[f] = change.new
       /\ \A i \in 1 .. k - 1 : LastSight(history, k - 1, f, i) =>
            history[i].snapshot[f] = change.old

Firing == {c \in Checkers : pc[c] = "fire"}

\* A change that the record counts was fired, is about to be, or belonged to a
\* check that died first; overlapping checks may fire one twice, never skip it.
\* As long as checks have not overlapped (one worker, no check_monitor_now), it
\* is fired exactly once or dies with its check, and what the subscribers are
\* told of a field, one firing after another, has no repetition and no gap that
\* a dead check does not explain.
CountedChangeIsFired ==
  /\ record.changes <= Len(fired) + dropped + Cardinality(Firing)
  /\ ~overlapped =>
       /\ record.changes = Len(fired) + dropped + Cardinality(Firing)
       /\ dropped = 0 =>
            \A i, j \in DOMAIN fired : \A f \in DOMAIN fired[i] \cap DOMAIN fired[j] :
              (i < j /\ \A k \in i + 1 .. j - 1 : f \notin DOMAIN fired[k])
                => fired[j][f].old = fired[i][f].new

\* What subscribers see of all this: a check owes the change it is about to fire.
Feed == INSTANCE ChangeFeed WITH
  Observers <- Checkers,
  owed <- [c \in Firing |-> Diff(copy[c].snapshot, seen[c])],
  told <- fired,
  lost <- dropped

\* A check implements an at-most-once, honest change feed (_snapshot's and
\* _diff's docstrings: no invented observation): both values of a change that is
\* fired were really shown by the place, a change noticed is fired once or is
\* counted as lost, and nothing is fired that no check noticed.
ImplementsChangeFeed == Feed!Spec
================================================================================
