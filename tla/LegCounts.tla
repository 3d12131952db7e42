------------------------------ MODULE LegCounts ------------------------------
(***************************************************************************)
(* How many legs validateMissionFile makes of a file's GOTOWP records: it  *)
(* counts the record, leaves the loop when the count is COUNT and only     *)
(* then stores it.  MissionManager takes these counts as one step and      *)
(* MissionFile shows that the loop computes them.                          *)
(***************************************************************************)
EXTENDS Naturals

CONSTANT Count      \* AutoMissionData::COUNT, 50

Smaller(a, b) == IF a < b THEN a ELSE b
TotalFor(gotowps) == Smaller(gotowps, Count)
StoredFor(gotowps) == Smaller(gotowps, Count - 1)
=============================================================================
