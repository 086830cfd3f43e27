---------------------------- MODULE MCMonitorCheck ----------------------------
(* Small instances of MonitorCheck for TLC.                                *)
EXTENDS MonitorCheck, TLC

CONSTANTS open, closed

\* Every field first shows the same value.
AllOpen == [f \in Fields |-> open]

Symmetry == Permutations(Checkers) \cup Permutations(Fields)
================================================================================
