--------------------------- MODULE MCMissionFile ---------------------------
(***************************************************************************)
(* MissionFile for TLC: records with right and wrong ids and sizes, and    *)
(* two waypoints, one of them with every field out of the ordinary.        *)
(***************************************************************************)
EXTENDS MissionFile

CONSTANTS p0, p1

mcWaypoint == [position |-> p1, depth |-> -3, radius |-> 1]
mcOddWaypoint == [position |-> NotNumber, depth |-> NotNumber, radius |-> 5]

Record(id, op, size, wp) ==
    [id |-> id, op |-> op, size |-> size, wp |-> wp]

(* Ids up to the bound, and one that is 0 modulo 2^32.                     *)
mcIds == (0 .. MaxLines - 1) \cup {IdModulus}

mcLines ==
    {Record(id, op, FieldCount[op], mcWaypoint) :
        id \in mcIds, op \in {"CONFIG", "CONFIGS", "GOTOWP", "HOVERING", "ENDMISSION"}}
    \cup {Record(id, "GOTOWP", 17, mcOddWaypoint) : id \in mcIds}
    \cup {Record(NotNumber, "CONFIG", 10, mcWaypoint),
          Record(0, "unknown", 12, mcWaypoint),
          Record(1, "CONFIGS", 30, mcWaypoint), Record(2, "GOTOWP", 3, mcWaypoint)}
=============================================================================
