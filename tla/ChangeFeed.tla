------------------------------- MODULE ChangeFeed -------------------------------
(***************************************************************************)
(* What a monitor promises its subscribers, without records, scrapes,      *)
(* snapshots or history: a change they are told of is one the place really *)
(* went through, and it is told at most once; it may be lost, and then the *)
(* loss is counted.                                                        *)
(***************************************************************************)
EXTENDS Naturals, Sequences

CONSTANTS
  Fields,      \* what is watched
  Values,      \* what a field may show
  Observers,   \* who may have noticed a change and not told it yet
  FirstPlace   \* what the place shows at first

VARIABLES
  shown,   \* every <<field, value>> the place has shown
  owed,    \* changes noticed and not told yet: a function from some observers
  told,    \* changes told, in order
  lost     \* changes noticed that nobody will be told

feedVars == <<shown, owed, told, lost>>

\* Both values of a field that changed were there to be seen.
Real(change) ==
  /\ DOMAIN change # {}
  /\ \A f \in DOMAIN change :
       /\ <<f, change[f].old>> \in shown /\ <<f, change[f].new>> \in shown
       /\ change[f].old # change[f].new

Changes == UNION {[d -> [old : Values, new : Values]] : d \in SUBSET Fields}

Init ==
  /\ shown = {<<f, FirstPlace[f]>> : f \in Fields}
  /\ owed = [o \in {} |-> <<>>]
  /\ told = <<>> /\ lost = 0

Without(o) == [p \in DOMAIN owed \ {o} |-> owed[p]]

Show ==
  /\ \E f \in Fields, v \in Values : shown' = shown \cup {<<f, v>>}
  /\ UNCHANGED <<owed, told, lost>>

Notice(o) ==
  /\ o \notin DOMAIN owed
  /\ \E change \in Changes :
       /\ Real(change)
       /\ owed' = [p \in DOMAIN owed \cup {o} |-> IF p = o THEN change ELSE owed[p]]
  /\ UNCHANGED <<shown, told, lost>>

Tell(o) ==
  /\ o \in DOMAIN owed
  /\ told' = Append(told, owed[o]) /\ owed' = Without(o)
  /\ UNCHANGED <<shown, lost>>

Lose(o) ==
  /\ o \in DOMAIN owed
  /\ owed' = Without(o) /\ lost' = lost + 1
  /\ UNCHANGED <<shown, told>>

Next == Show \/ \E o \in Observers : Notice(o) \/ Tell(o) \/ Lose(o)

Spec == Init /\ [][Next]_feedVars
================================================================================
