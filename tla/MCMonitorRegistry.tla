--------------------------- MODULE MCMonitorRegistry ---------------------------
(* Small instances of MonitorRegistry for TLC.                             *)
EXTENDS MonitorRegistry, TLC

CONSTANTS m1, m2, alice

\* Both monitors belong to one owner, who shares one index entry.
OneOwner == [m \in Monitors |-> alice]

\* Every hour, and the weekly interval the request schema still accepts.
Hourly == [m \in Monitors |-> 1]
Weekly == [m \in Monitors |-> TTL]

ClientSymmetry == Permutations(Clients) \cup Permutations(Monitors)
================================================================================
