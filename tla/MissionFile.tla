----------------------------- MODULE MissionFile -----------------------------
(***************************************************************************)
(* select_mission: MissionParser::parseFile reads the mission file line by *)
(* line, then validateMissionFile makes legs of its GOTOWP records.  The   *)
(* file is chosen as it is read, one line at a time; text keeps it.  All   *)
(* the state is local to the call, so a line is a step of its own only to  *)
(* compare the loops with what they are meant to compute.                  *)
(***************************************************************************)
EXTENDS Integers, Sequences, FiniteSets, LegCounts

CONSTANTS
    Lines,         \* the lines a file may have, besides the blank one
    Blank,         \* an empty line, or a lone carriage return
    NotNumber,     \* text that std::stoul and std::stol throw on
    Positions,     \* latitude, longitude and speed of a waypoint
    ZeroPosition,  \* ... as they are in a GoToWpOperation op {}
    IdModulus,     \* ids are uint32_t: 2^32
    RadiusModulus, \* misnRadius is uint8_t: 256
    MaxLines       \* bound of the lines of a file

FieldCount == [CONFIG |-> 10, CONFIGS |-> 31, GOTOWP |-> 17, HOVERING |-> 12,
               FLOATING |-> 12, SURFACING |-> 11, ENDMISSION |-> 12]
Operations == DOMAIN FieldCount

(* A line is its id, its operation, its number of fields and the waypoint  *)
(* fields of a GOTOWP; nothing reads the checksum.                         *)
WaypointTexts == [position : Positions \cup {NotNumber},
                  depth : Int \cup {NotNumber}, radius : Nat \cup {NotNumber}]

ASSUME FileAssumption ==
    /\ Count \in Nat \ {0}
    /\ IdModulus \in Nat /\ MaxLines \in Nat /\ MaxLines < IdModulus
    /\ RadiusModulus \in Nat \ {0}
    /\ ZeroPosition \in Positions
    /\ Blank \notin Lines
    /\ NotNumber \notin Int
    /\ \A l \in Lines :
          /\ l.id \in Nat \cup {NotNumber} /\ l.size \in Nat
          /\ l.op \in Operations \cup {"unknown"}
          /\ l.wp \in WaypointTexts

VARIABLES
    phase,         \* idle, reading, loading
    text,          \* the lines read so far, the file once it is read
    lineNumber, expectedId, configsSeen,
    operations,    \* result.missionData.operations
    error, errorLine,
    next,          \* the operation the loading loop is at
    total, i, misn,
    answer         \* what validateMissionFile returned last

parserVars == <<text, lineNumber, expectedId, configsSeen, operations>>
resultVars == <<error, errorLine>>
loaderVars == <<next, total, i, misn>>
vars == <<phase, parserVars, resultVars, loaderVars, answer>>

Leg == [position : Positions, depth : Nat, radius : 0 .. RadiusModulus - 1]
ZeroLeg == [position |-> ZeroPosition, depth |-> 0, radius |-> 0]

NoLegs == [k \in 0 .. Count - 1 |-> ZeroLeg]

Init ==
    /\ phase = "idle" /\ answer = "none"
    /\ text = <<>> /\ lineNumber = 0 /\ expectedId = 0
    /\ configsSeen = FALSE /\ operations = <<>>
    /\ error = "NONE" /\ errorLine = 0
    /\ next = 1 /\ total = 0 /\ i = 0 /\ misn = NoLegs

-----------------------------------------------------------------------------
(* MissionParser::parseFile.                                               *)

(* The locals of a new call of validateMissionFile and parseFile.          *)
Open ==
    /\ phase = "idle"
    /\ text' = <<>> /\ lineNumber' = 0 /\ expectedId' = 0
    /\ configsSeen' = FALSE /\ operations' = <<>> /\ errorLine' = 0
    /\ next' = 1 /\ total' = 0 /\ i' = 0 /\ misn' = NoLegs

OpenFile == Open /\ phase' = "reading" /\ answer' = "none" /\ error' = "NONE"

OpenFails ==
    Open /\ UNCHANGED phase /\ answer' = "refused" /\ error' = "FILE_OPEN_FAILED"

(* makeError returns a new result, without the operations read so far.     *)
Refuse(e, line) ==
    /\ error' = e /\ errorLine' = line
    /\ operations' = <<>>
    /\ phase' = "idle" /\ answer' = "refused"
    /\ UNCHANGED loaderVars

(* Text that is no number leaves the field of op{} as it is: zero.         *)
Number(x, zero) == IF x = NotNumber THEN zero ELSE x

(* Slip: GOTOWP accepted before CONFIGS.                                   *)
VerdictAnyOrder(l) ==
    IF l.size < 4 THEN "INVALID_FIELD_COUNT"
    ELSE IF l.id = NotNumber THEN "INVALID_NUMERIC_VALUE"
    ELSE IF l.id % IdModulus # expectedId THEN "INVALID_ID_SEQUENCE"
    ELSE IF l.op \notin Operations THEN "INVALID_OPERATION"
    ELSE IF l.size # FieldCount[l.op] THEN "INVALID_FIELD_COUNT"
    ELSE "NONE"

(* The checks of a line in their order; validateChecksum returns true.     *)
Verdict(l) ==
    IF l.size < 4 THEN "INVALID_FIELD_COUNT"
    ELSE IF l.id = NotNumber THEN "INVALID_NUMERIC_VALUE"
    ELSE IF l.id % IdModulus # expectedId THEN "INVALID_ID_SEQUENCE"
    ELSE IF l.op \notin Operations THEN "INVALID_OPERATION"
    ELSE IF l.op = "GOTOWP" /\ ~configsSeen THEN "CONFIGS_REQUIRED_BEFORE_GOTOWP"
    ELSE IF l.size # FieldCount[l.op] THEN "INVALID_FIELD_COUNT"
    ELSE "NONE"

(* The MissionDataPoint of a line.                                         *)
Point(l) ==
    [id |-> l.id % IdModulus, type |-> l.op,
     wp |-> [position |-> Number(l.wp.position, ZeroPosition),
             depth |-> Number(l.wp.depth, 0),
             radius |-> Number(l.wp.radius, 0)]]

(* Slip: only records are counted as lines.                                *)
ReadBlankUncounted ==
    /\ phase = "reading" /\ Len(text) < MaxLines
    /\ text' = Append(text, Blank)
    /\ UNCHANGED <<phase, lineNumber, expectedId, configsSeen, operations,
                   resultVars, loaderVars, answer>>

ReadBlank ==
    /\ phase = "reading" /\ Len(text) < MaxLines
    /\ text' = Append(text, Blank)
    /\ lineNumber' = lineNumber + 1
    /\ UNCHANGED <<phase, expectedId, configsSeen, operations, resultVars,
                   loaderVars, answer>>

ReadLine(l) ==
    /\ phase = "reading" /\ Len(text) < MaxLines
    /\ Verdict(l) = "NONE"
    /\ text' = Append(text, l)
    /\ lineNumber' = lineNumber + 1
    /\ expectedId' = (expectedId + 1) % IdModulus
    /\ configsSeen' = (configsSeen \/ l.op = "CONFIGS")
    /\ operations' = Append(operations, Point(l))
    /\ UNCHANGED <<phase, resultVars, loaderVars, answer>>

RefuseLine(l) ==
    /\ phase = "reading" /\ Len(text) < MaxLines
    /\ Verdict(l) # "NONE"
    /\ text' = Append(text, l)
    /\ lineNumber' = lineNumber + 1
    /\ Refuse(Verdict(l), lineNumber + 1)
    /\ UNCHANGED <<expectedId, configsSeen>>

(* The checks after the last line, and the line each one reports.          *)
EndVerdict ==
    IF operations = <<>> THEN [error |-> "EMPTY_FILE", line |-> 0]
    ELSE IF operations[1].type # "CONFIG"
    THEN [error |-> "CONFIG_NOT_FIRST", line |-> 1]
    ELSE IF operations[Len(operations)].type # "ENDMISSION"
    THEN [error |-> "ENDMISSION_NOT_LAST", line |-> lineNumber]
    ELSE [error |-> "NONE", line |-> 0]

EndOfFile ==
    /\ phase = "reading"
    /\ IF EndVerdict.error = "NONE"
       THEN phase' = "loading" /\ UNCHANGED <<operations, resultVars, loaderVars, answer>>
       ELSE Refuse(EndVerdict.error, EndVerdict.line)
    /\ UNCHANGED <<text, lineNumber, expectedId, configsSeen>>

-----------------------------------------------------------------------------
(* validateMissionFile, once the file is parsed.                           *)

(* Scaled, made positive, and cut to the width of the array.               *)
Stored(wp) ==
    [position |-> wp.position,
     depth |-> IF wp.depth < 0 THEN -wp.depth ELSE wp.depth,
     radius |-> wp.radius % RadiusModulus]

Save == phase' = "idle" /\ answer' = "executed"

(* Slips: every record a leg; no limit to the legs.                        *)
AnyRecord(op) == op.type # "CONFIG"
Unlimited(legs) == FALSE
IsLeg(op) == op.type = "GOTOWP"
LimitReached(legs) == legs = Count

LoadOperation ==
    /\ phase = "loading" /\ next <= Len(operations)
    /\ LET op == operations[next]
       IN IF ~IsLeg(op)
          THEN next' = next + 1 /\ UNCHANGED <<phase, answer, total, i, misn>>
          ELSE /\ total' = total + 1
               /\ IF LimitReached(total + 1)
                  THEN Save /\ UNCHANGED <<next, i, misn>>
                  ELSE /\ misn' = [misn EXCEPT ![i] = Stored(op.wp)]
                       /\ i' = i + 1
                       /\ next' = next + 1
                       /\ UNCHANGED <<phase, answer>>
    /\ UNCHANGED <<parserVars, resultVars>>

LoadEnd ==
    /\ phase = "loading" /\ next > Len(operations)
    /\ Save
    /\ UNCHANGED <<parserVars, resultVars, loaderVars>>

-----------------------------------------------------------------------------
Next ==
    \/ OpenFile \/ OpenFails \/ ReadBlank \/ EndOfFile \/ LoadOperation \/ LoadEnd
    \/ \E l \in Lines : ReadLine(l) \/ RefuseLine(l)

Spec == Init /\ [][Next]_vars

-----------------------------------------------------------------------------
Errors == {"NONE", "FILE_OPEN_FAILED", "EMPTY_FILE", "INVALID_FIELD_COUNT",
           "INVALID_OPERATION", "INVALID_ID_SEQUENCE", "CONFIG_NOT_FIRST",
           "ENDMISSION_NOT_LAST", "CONFIGS_REQUIRED_BEFORE_GOTOWP",
           "INVALID_NUMERIC_VALUE"}
LineErrors == Errors \ {"NONE", "FILE_OPEN_FAILED", "EMPTY_FILE",
                        "CONFIG_NOT_FIRST", "ENDMISSION_NOT_LAST"}

(* Types; i stays an index of the arrays, and the legs are whole legs.     *)
TypeOK ==
    /\ phase \in {"idle", "reading", "loading"}
    /\ answer \in {"none", "refused", "executed"}
    /\ text \in Seq(Lines \cup {Blank}) /\ Len(text) <= MaxLines
    /\ lineNumber = Len(text)
    /\ expectedId \in 0 .. IdModulus - 1 /\ configsSeen \in BOOLEAN
    /\ Len(operations) <= MaxLines
    /\ error \in Errors /\ errorLine \in 0 .. MaxLines
    /\ next \in 1 .. MaxLines + 1
    /\ total \in 0 .. Count /\ i \in 0 .. Count - 1
    /\ misn \in [0 .. Count - 1 -> Leg]

(* What a mission file is: the records, blank lines left out.              *)
Records(t) == {k \in 1 .. Len(t) : t[k] # Blank}
Before(t, k) == Cardinality({j \in Records(t) : j < k})

GoodRecord(t, k) ==
    /\ t[k].op \in Operations
    /\ t[k].size = FieldCount[t[k].op]
    /\ t[k].id # NotNumber
    /\ t[k].id % IdModulus = Before(t, k)
    /\ t[k].op = "GOTOWP" => \E j \in Records(t) : j < k /\ t[j].op = "CONFIGS"

ConfigFirst(t) ==
    \E k \in Records(t) : t[k].op = "CONFIG" /\ \A j \in Records(t) : k <= j

EndMissionLast(t) ==
    \E k \in Records(t) : t[k].op = "ENDMISSION" /\ \A j \in Records(t) : j <= k

AllGood(t) == \A k \in Records(t) : GoodRecord(t, k)

WellFormed(t) == AllGood(t) /\ ConfigFirst(t) /\ EndMissionLast(t)

Parsed == phase = "loading" \/ (phase = "idle" /\ answer # "none"
                                /\ error # "FILE_OPEN_FAILED")

(* The parser, which decides line by line with a counter and a flag,       *)
(* accepts the well-formed files and no others.                            *)
AcceptsExactly == Parsed => (error = "NONE" <=> WellFormed(text))

(* What the operator is told of a refused file, blank lines counted.  If   *)
(* there is a bad record, its line, the first of them.  If there is none,  *)
(* the order is wrong, and the line need not be that of a record: of a     *)
(* file without CONFIG in front it is always line 1, of one without        *)
(* ENDMISSION at the end the last line read, either may be blank; of a     *)
(* file without records, or that does not open, it is 0.                   *)
ReportsLine ==
    answer = "refused" =>
        \/ /\ error \in LineErrors
           /\ errorLine \in Records(text) /\ ~GoodRecord(text, errorLine)
           /\ \A k \in Records(text) : k < errorLine => GoodRecord(text, k)
        \/ /\ AllGood(text)
           /\ \/ error = "CONFIG_NOT_FIRST" /\ ~ConfigFirst(text) /\ errorLine = 1
              \/ /\ error = "ENDMISSION_NOT_LAST" /\ ConfigFirst(text)
                 /\ ~EndMissionLast(text) /\ errorLine = Len(text)
              \/ error = "EMPTY_FILE" /\ Records(text) = {} /\ errorLine = 0
        \/ error = "FILE_OPEN_FAILED" /\ errorLine = 0

Gotowps(t) == {k \in Records(t) : t[k].op = "GOTOWP"}
Rank(t, k) == Cardinality({j \in Gotowps(t) : j < k})

(* A leg says what the record does: the position, the depth made positive  *)
(* and a radius that fits the array; text that is no number gives zero.    *)
SaysWaypoint(leg, wp) ==
    /\ leg.position = IF wp.position = NotNumber THEN ZeroPosition ELSE wp.position
    /\ wp.depth = NotNumber => leg.depth = 0
    /\ wp.depth # NotNumber => leg.depth >= 0 /\ leg.depth \in {wp.depth, -wp.depth}
    /\ wp.radius = NotNumber => leg.radius = 0
    /\ wp.radius # NotNumber /\ wp.radius < RadiusModulus => leg.radius = wp.radius

(* The legs of an accepted file are its GOTOWP records in their order,     *)
(* whatever lies between them: up to Count of them are counted and up to   *)
(* Count - 1 stored, the rest of the arrays is zero.  So when the arrays   *)
(* are full the last leg that is counted is one of zeros.                  *)
LegsFromFile ==
    answer = "executed" =>
        LET n == Cardinality(Gotowps(text))
        IN /\ total = IF n < Count THEN n ELSE Count
           /\ \A k \in Gotowps(text) : Rank(text, k) < Count - 1 =>
                 SaysWaypoint(misn[Rank(text, k)], text[k].wp)
           /\ \A k \in 0 .. Count - 1 : k >= n \/ k = Count - 1 => misn[k] = ZeroLeg
=============================================================================
