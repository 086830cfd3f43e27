------------------------------ MODULE MapsCommon ------------------------------
(***************************************************************************)
(* What every Google Maps handler does with the dict its service call      *)
(* returned.                                                               *)
(***************************************************************************)
EXTENDS Naturals

\* upstream_error: 400 and 404 pass, everything else is a 500.
PassedOn(code) == IF code \in {400, 404} THEN code ELSE 500
================================================================================
