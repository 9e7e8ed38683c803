---------------------------- MODULE MCFtsOrdered ----------------------------
(* Instances of FtsOrdered for TLC. *)
EXTENDS FtsOrdered, TLC

\* Documents 1 and 2 tie, 3 is ranked first, 4 last, whatever the statistics.
SteadyTf == <<2, 2, 3, 1>>
SteadyLen == <<3, 3, 2, 4>>

ASSUME SteadyInstance == Steady /\ NDocs <= CapFloor
=============================================================================
