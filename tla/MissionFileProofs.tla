-------------------------- MODULE MissionFileProofs --------------------------
(***************************************************************************)
(* Proofs about MissionFile, for any lines, any number of them, any array  *)
(* size and any width of radius: the parser accepts exactly the well-      *)
(* formed files, reports the line that its checks have for the others, and *)
(* the loader makes the legs of the GOTOWP records in their order.         *)
(***************************************************************************)
EXTENDS MissionFile, FiniteSetTheorems, TLAPS

(* What the loops of the parser have made of the lines read so far: the    *)
(* counter is the number of records, the flag says that CONFIGS was among  *)
(* them, and the operations are the records one by one.                    *)
CountInv ==
    /\ expectedId = Cardinality(Records(text))
    /\ configsSeen <=> \E j \in Records(text) : text[j].op = "CONFIGS"

Points == {Point(l) : l \in Lines}

OperationsInv ==
    /\ operations \in Seq(Points)
    /\ Len(operations) = Cardinality(Records(text))
    /\ \A k \in Records(text) : operations[Before(text, k) + 1] = Point(text[k])
    /\ \A n \in 1 .. Len(operations) : \E k \in Records(text) : Before(text, k) + 1 = n

ParseInv ==
    phase \in {"reading", "loading"} =>
        /\ error = "NONE" /\ answer = "none"
        /\ CountInv /\ OperationsInv
        /\ \A k \in Records(text) : GoodRecord(text, k)

(* What the loading loop has made of the operations before next.           *)
Done == {k \in Gotowps(text) : Before(text, k) + 1 < next}

LoadInv ==
    /\ phase = "reading" => next = 1 /\ total = 0 /\ i = 0 /\ misn = NoLegs
    /\ phase = "loading" =>
        /\ WellFormed(text)
        /\ total = Cardinality(Done) /\ i = total
        /\ \A k \in Done : misn[Rank(text, k)] = Stored(Point(text[k]).wp)
        /\ \A n \in total .. Count - 1 : misn[n] = ZeroLeg

Inv ==
    /\ TypeOK /\ ParseInv /\ LoadInv
    /\ AcceptsExactly /\ ReportsLine /\ LegsFromFile

-----------------------------------------------------------------------------
(* Counting the smaller elements of a finite set of numbers: the rank is   *)
(* a number below the size of the set, it grows with the element, and a    *)
(* new largest element has the size of the set as its rank.                *)
Below(S, k) == {j \in S : j < k}

LEMMA BelowFinite ==
    ASSUME NEW S, IsFiniteSet(S), NEW k
    PROVE  IsFiniteSet(Below(S, k)) /\ Cardinality(Below(S, k)) \in Nat
  BY FS_Subset, FS_CardinalityType DEF Below

LEMMA BelowLess ==
    ASSUME NEW S \in SUBSET Nat, IsFiniteSet(S), NEW j \in S, NEW k \in Nat, j < k
    PROVE  Cardinality(Below(S, j)) < Cardinality(Below(S, k))
  <1>1. Below(S, j) \cup {j} \subseteq Below(S, k) /\ j \notin Below(S, j)
    <2>1. \A x \in S : x < j => x < k
      OBVIOUS
    <2>2. ~(j < j)
      OBVIOUS
    <2> QED
      BY <2>1, <2>2 DEF Below
  <1>2. Cardinality(Below(S, j) \cup {j}) = Cardinality(Below(S, j)) + 1
    BY <1>1, BelowFinite, FS_AddElement
  <1>3. Cardinality(Below(S, j) \cup {j}) <= Cardinality(Below(S, k))
    BY <1>1, BelowFinite, FS_Subset
  <1> QED
    BY <1>2, <1>3, BelowFinite

LEMMA BelowInSize ==
    ASSUME NEW S \in SUBSET Nat, IsFiniteSet(S), NEW k \in S
    PROVE  Cardinality(Below(S, k)) < Cardinality(S)
  <1>1. Below(S, k) \subseteq S /\ k \notin Below(S, k)
    BY DEF Below
  <1>2. Cardinality(Below(S, k)) <= Cardinality(S)
        /\ (Cardinality(S) = Cardinality(Below(S, k)) => S = Below(S, k))
    BY <1>1, FS_Subset
  <1> QED
    BY <1>1, <1>2, BelowFinite, FS_CardinalityType

LEMMA BelowOrder ==
    ASSUME NEW S \in SUBSET Nat, IsFiniteSet(S), NEW j \in S, NEW k \in S
    PROVE  j < k <=> Cardinality(Below(S, j)) < Cardinality(Below(S, k))
  <1>1. CASE j < k
    BY <1>1, BelowLess
  <1>2. CASE j = k
    BY <1>2, BelowFinite
  <1>3. CASE k < j
    <2>1. Cardinality(Below(S, k)) < Cardinality(Below(S, j))
      BY <1>3, BelowLess
    <2> QED
      BY <2>1, <1>3, BelowFinite
  <1> QED
    BY <1>1, <1>2, <1>3

-----------------------------------------------------------------------------
(* The records of a file to which a line is added.                         *)
Texts == Seq(Lines \cup {Blank})

LEMMA IntervalSize ==
    ASSUME NEW n \in Nat
    PROVE  IsFiniteSet(1 .. n) /\ Cardinality(1 .. n) = n
  <1>1. IsFiniteSet(1 .. n) /\ Cardinality(1 .. n) = IF 1 > n THEN 0 ELSE n - 1 + 1
    BY FS_Interval
  <1> QED
    BY <1>1

LEMMA RecordsFinite ==
    ASSUME NEW t \in Texts
    PROVE  /\ Records(t) \in SUBSET Nat /\ IsFiniteSet(Records(t))
           /\ Cardinality(Records(t)) \in 0 .. Len(t)
           /\ \A k \in Records(t) : k \in 1 .. Len(t) /\ t[k] \in Lines
  <1>1. Len(t) \in Nat /\ Records(t) \subseteq 1 .. Len(t)
    BY DEF Texts, Records
  <1>2. IsFiniteSet(1 .. Len(t)) /\ Cardinality(1 .. Len(t)) = Len(t)
    BY <1>1, IntervalSize
  <1>3. IsFiniteSet(Records(t)) /\ Cardinality(Records(t)) <= Len(t)
    BY <1>1, <1>2, FS_Subset
  <1>4. Cardinality(Records(t)) \in Nat
    BY <1>3, FS_CardinalityType
  <1>5. \A k \in Records(t) : k \in 1 .. Len(t) /\ t[k] \in Lines
    BY DEF Texts, Records
  <1> QED
    BY <1>1, <1>3, <1>4, <1>5

LEMMA AppendBlank ==
    ASSUME NEW t \in Texts
    PROVE  Append(t, Blank) \in Texts /\ Records(Append(t, Blank)) = Records(t)
  BY DEF Texts, Records

LEMMA AppendLine ==
    ASSUME NEW t \in Texts, NEW l \in Lines
    PROVE  /\ Append(t, l) \in Texts
           /\ Records(Append(t, l)) = Records(t) \cup {Len(t) + 1}
           /\ Len(t) + 1 \notin Records(t)
           /\ Append(t, l)[Len(t) + 1] = l
  BY FileAssumption DEF Texts, Records

(* A line more changes nothing about the records before it.                *)
LEMMA EarlierRecords ==
    ASSUME NEW t \in Texts, NEW x \in Lines \cup {Blank}, NEW k \in Records(t)
    PROVE  /\ Append(t, x)[k] = t[k]
           /\ Before(Append(t, x), k) = Before(t, k)
           /\ GoodRecord(Append(t, x), k) <=> GoodRecord(t, k)
  <1>1. \A j \in 1 .. Len(t) : Append(t, x)[j] = t[j]
    BY DEF Texts
  <1>2. k \in 1 .. Len(t) /\ Len(t) \in Nat /\ Len(Append(t, x)) = Len(t) + 1
    BY DEF Texts, Records
  <1>3. \A j : j \in Records(Append(t, x)) /\ j < k <=> j \in Records(t) /\ j < k
    BY <1>1, <1>2 DEF Records
  <1>4. {j \in Records(Append(t, x)) : j < k} = {j \in Records(t) : j < k}
    BY <1>3
  <1>5. Before(Append(t, x), k) = Before(t, k)
    BY <1>4 DEF Before
  <1>6. (\E j \in Records(Append(t, x)) : j < k /\ Append(t, x)[j].op = "CONFIGS")
            <=> \E j \in Records(t) : j < k /\ t[j].op = "CONFIGS"
    BY <1>1, <1>3 DEF Records
  <1> QED
    BY <1>1, <1>2, <1>5, <1>6 DEF GoodRecord

LEMMA LastRecord ==
    ASSUME NEW t \in Texts, NEW l \in Lines
    PROVE  /\ Before(Append(t, l), Len(t) + 1) = Cardinality(Records(t))
           /\ \A j \in Records(t) : j < Len(t) + 1
  <1>1. \A j \in Records(t) : j < Len(t) + 1 /\ j \in Nat
    BY DEF Texts, Records
  <1>2. Len(t) + 1 \in Nat
    BY DEF Texts
  <1>3. {j \in Records(Append(t, l)) : j < Len(t) + 1} = Records(t)
    BY <1>1, <1>2, AppendLine
  <1> QED
    BY <1>1, <1>3 DEF Before

(* Records keep their order in the numbers they are given.                 *)
LEMMA BeforeOrder ==
    ASSUME NEW t \in Texts, NEW j \in Records(t), NEW k \in Records(t)
    PROVE  /\ Before(t, j) \in Nat /\ Before(t, j) < Cardinality(Records(t))
           /\ j < k <=> Before(t, j) < Before(t, k)
  <1>1. \A x : Before(t, x) = Cardinality(Below(Records(t), x))
    BY DEF Before, Below
  <1> QED
    BY <1>1, RecordsFinite, BelowFinite, BelowInSize, BelowOrder

-----------------------------------------------------------------------------
(* The checks of a line say whether the record is good.                    *)
LEMMA FieldCounts ==
    /\ {"CONFIG", "CONFIGS", "GOTOWP", "ENDMISSION"} \subseteq Operations
    /\ \A op \in Operations : FieldCount[op] \in Nat /\ FieldCount[op] >= 4
  BY DEF Operations, FieldCount

LEMMA VerdictTypes ==
    ASSUME NEW l
    PROVE  Verdict(l) \in LineErrors \cup {"NONE"}
  BY DEF Verdict, LineErrors, Errors

LEMMA VerdictIsRight ==
    ASSUME TypeOK, CountInv, NEW l \in Lines
    PROVE  Verdict(l) = "NONE" <=> GoodRecord(Append(text, l), Len(text) + 1)
  <1> DEFINE longer == Append(text, l)
             here == Len(text) + 1
  <1>1. text \in Texts
    BY DEF TypeOK, Texts
  <1>2. longer[here] = l /\ Records(longer) = Records(text) \cup {here}
    BY <1>1, AppendLine
  <1>3. Before(longer, here) = expectedId
    BY <1>1, LastRecord DEF CountInv
  <1>4. (\E j \in Records(longer) : j < here /\ longer[j].op = "CONFIGS") <=> configsSeen
    <2>1. \A j \in Records(text) : j < here /\ longer[j] = text[j]
      BY <1>1, LastRecord, EarlierRecords
    <2>2. ~(here < here)
      BY <1>1 DEF Texts
    <2> QED
      BY <1>2, <2>1, <2>2 DEF CountInv
  <1> HIDE DEF longer, here
  <1>5. GoodRecord(longer, here) <=>
            /\ l.op \in Operations /\ l.size = FieldCount[l.op] /\ l.id # NotNumber
            /\ l.id % IdModulus = expectedId
            /\ l.op = "GOTOWP" => configsSeen
    BY <1>2, <1>3, <1>4 DEF GoodRecord
  <1>6. l.size \in Nat
    BY FileAssumption
  <1>7. l.op \in Operations /\ l.size = FieldCount[l.op] => ~(l.size < 4)
    BY FieldCounts, <1>6
  <1>8. Verdict(l) = "NONE" <=> GoodRecord(longer, here)
    BY <1>5, <1>7 DEF Verdict
  <1> QED
    BY <1>8 DEF longer, here

(* What a record becomes on its way to the arrays.                         *)
LEMMA StoredTypes == ASSUME NEW op \in Points PROVE Stored(op.wp) \in Leg
  <1>1. PICK l \in Lines : op = Point(l)
    BY DEF Points
  <1> DEFINE depth == Number(l.wp.depth, 0)
             radius == Number(l.wp.radius, 0)
  <1>2. /\ Number(l.wp.position, ZeroPosition) \in Positions
        /\ depth \in Int /\ radius \in Nat
    BY FileAssumption DEF WaypointTexts, Number
  <1>3. op.wp = [position |-> Number(l.wp.position, ZeroPosition),
                 depth |-> depth, radius |-> radius]
    BY <1>1 DEF Point
  <1> HIDE DEF depth, radius
  <1>4. radius % RadiusModulus \in 0 .. RadiusModulus - 1
    BY <1>2, FileAssumption
  <1>5. (IF depth < 0 THEN -depth ELSE depth) \in Nat
    BY <1>2
  <1> QED
    BY <1>2, <1>3, <1>4, <1>5 DEF Stored, Leg

(* A stored leg says what its record does.                                 *)
LEMMA StoredSays ==
    ASSUME NEW l \in Lines
    PROVE  SaysWaypoint(Stored(Point(l).wp), l.wp)
  <1> DEFINE wp == l.wp
             depth == Number(wp.depth, 0)
             radius == Number(wp.radius, 0)
             leg == Stored(Point(l).wp)
  <1>1. wp.depth \in Int \cup {NotNumber} /\ wp.radius \in Nat \cup {NotNumber}
    BY FileAssumption DEF WaypointTexts
  <1>2. Point(l).wp = [position |-> Number(wp.position, ZeroPosition),
                       depth |-> depth, radius |-> radius]
    BY DEF Point
  <1> HIDE DEF depth, radius, wp
  <1>3. /\ leg.position = Number(wp.position, ZeroPosition)
        /\ leg.depth = IF depth < 0 THEN -depth ELSE depth
        /\ leg.radius = radius % RadiusModulus
    BY <1>2 DEF Stored
  <1> HIDE DEF leg
  <1>4. leg.position = IF wp.position = NotNumber THEN ZeroPosition ELSE wp.position
    BY <1>3 DEF Number
  <1>5. wp.depth = NotNumber => leg.depth = 0
    BY <1>3 DEF Number, depth
  <1>6. wp.depth # NotNumber => leg.depth >= 0 /\ leg.depth \in {wp.depth, -wp.depth}
    BY <1>1, <1>3 DEF Number, depth
  <1>7. wp.radius = NotNumber => leg.radius = 0
    BY <1>3, FileAssumption DEF Number, radius
  <1>8. wp.radius # NotNumber /\ wp.radius < RadiusModulus => leg.radius = wp.radius
    BY <1>1, <1>3, FileAssumption DEF Number, radius
  <1> QED
    BY <1>4, <1>5, <1>6, <1>7, <1>8 DEF SaysWaypoint, wp, leg

-----------------------------------------------------------------------------
LEMMA NoRecords ==
    /\ <<>> \in Texts /\ Len(<<>>) = 0 /\ Records(<<>>) = {}
    /\ Cardinality(Records(<<>>)) = 0 /\ NoLegs \in [0 .. Count - 1 -> Leg]
  <1>1. Records(<<>>) = {}
    BY DEF Records
  <1>2. ZeroLeg \in Leg
    BY FileAssumption DEF ZeroLeg, Leg
  <1> QED
    BY <1>1, <1>2, FS_EmptySet DEF Texts, NoLegs

LEMMA SmallestValues ==
    /\ 0 \in 0 .. IdModulus - 1 /\ 0 \in 0 .. MaxLines /\ 1 \in 1 .. MaxLines + 1
    /\ 0 \in 0 .. Count /\ 0 \in 0 .. Count - 1 /\ 0 <= MaxLines
  BY FileAssumption

LEMMA InitInv == Init => Inv
  <1> SUFFICES ASSUME Init PROVE Inv
    OBVIOUS
  <1>1. TypeOK
    BY NoRecords, SmallestValues DEF Init, TypeOK, Texts, Errors
  <1> QED
    BY <1>1 DEF Init, Inv, ParseInv, LoadInv, AcceptsExactly, Parsed, ReportsLine,
                LineErrors, Errors, LegsFromFile

LEMMA OpenInv ==
    ASSUME Inv, OpenFile \/ OpenFails
    PROVE  Inv'
  <1>1. TypeOK'
    BY NoRecords, SmallestValues DEF Inv, TypeOK, OpenFile, OpenFails, Open, Texts, Errors
  <1>2. ParseInv' /\ LoadInv'
    <2>1. CASE OpenFile
      <3>1. phase' = "reading" /\ answer' = "none" /\ error' = "NONE" /\ text' = <<>>
            /\ expectedId' = 0 /\ configsSeen' = FALSE /\ operations' = <<>>
            /\ next' = 1 /\ total' = 0 /\ i' = 0 /\ misn' = NoLegs
        BY <2>1 DEF OpenFile, Open
      <3>2. CountInv'
        BY <3>1, NoRecords DEF CountInv
      <3>3. OperationsInv'
        BY <3>1, NoRecords DEF OperationsInv
      <3> QED
        BY <3>1, <3>2, <3>3, NoRecords DEF ParseInv, LoadInv
    <2>2. CASE OpenFails
      <3>1. phase' = "idle"
        BY <2>2 DEF OpenFails, Open
      <3> QED
        BY <3>1 DEF ParseInv, LoadInv
    <2> QED
      BY <2>1, <2>2
  <1>3. AcceptsExactly' /\ ReportsLine' /\ LegsFromFile'
    BY DEF OpenFile, OpenFails, Open, AcceptsExactly, Parsed, ReportsLine, LineErrors,
           Errors, LegsFromFile
  <1> QED
    BY <1>1, <1>2, <1>3 DEF Inv

-----------------------------------------------------------------------------
(* Reading a line.                                                         *)
LEMMA ReadBlankInv ==
    ASSUME Inv, ReadBlank
    PROVE  Inv'
  <1>0. /\ phase = "reading" /\ Len(text) < MaxLines /\ text' = Append(text, Blank)
        /\ lineNumber' = lineNumber + 1
        /\ UNCHANGED <<phase, expectedId, configsSeen, operations, error, errorLine, next, total,
                       i, misn, answer>>
    BY DEF ReadBlank, resultVars, loaderVars
  <1>1. text \in Texts /\ Len(text) \in Nat
    BY DEF Inv, TypeOK, Texts
  <1>2. text' \in Texts /\ Records(text') = Records(text) /\ Len(text') = Len(text) + 1
    BY <1>0, <1>1, AppendBlank DEF Texts
  <1>3. \A k \in Records(text) : /\ text'[k] = text[k] /\ Before(text', k) = Before(text, k)
                                 /\ GoodRecord(text', k) <=> GoodRecord(text, k)
    BY <1>0, <1>1, EarlierRecords
  <1>4. TypeOK'
    BY <1>0, <1>1, <1>2, FileAssumption DEF Inv, TypeOK, Texts
  <1>5. CountInv' /\ OperationsInv'
    BY <1>0, <1>2, <1>3 DEF Inv, ParseInv, CountInv, OperationsInv
  <1>6. ParseInv' /\ LoadInv'
    BY <1>0, <1>2, <1>3, <1>5 DEF Inv, ParseInv, LoadInv
  <1>7. AcceptsExactly' /\ ReportsLine' /\ LegsFromFile'
    BY <1>0 DEF Inv, ParseInv, AcceptsExactly, Parsed, ReportsLine, LineErrors,
                LegsFromFile
  <1> QED
    BY <1>4, <1>6, <1>7 DEF Inv

LEMMA ReadLineInv ==
    ASSUME Inv, NEW l \in Lines, ReadLine(l)
    PROVE  Inv'
  <1> DEFINE here == Len(text) + 1
             size == Cardinality(Records(text))
  <1>0. /\ phase = "reading" /\ Len(text) < MaxLines /\ Verdict(l) = "NONE"
        /\ text' = Append(text, l) /\ lineNumber' = lineNumber + 1
        /\ expectedId' = (expectedId + 1) % IdModulus
        /\ configsSeen' = (configsSeen \/ l.op = "CONFIGS")
        /\ operations' = Append(operations, Point(l))
        /\ UNCHANGED <<phase, error, errorLine, next, total, i, misn, answer>>
    BY DEF ReadLine, resultVars, loaderVars
  <1>1. text \in Texts /\ Len(text) \in Nat /\ Len(text) < MaxLines
    BY <1>0 DEF Inv, TypeOK, Texts
  <1>2. /\ error = "NONE" /\ answer = "none" /\ CountInv /\ OperationsInv
        /\ \A k \in Records(text) : GoodRecord(text, k)
    BY <1>0 DEF Inv, ParseInv
  <1>3. size \in 0 .. Len(text) /\ IsFiniteSet(Records(text))
    BY <1>1, RecordsFinite
  <1>4. /\ text' \in Texts /\ Len(text') = here /\ text'[here] = l
        /\ Records(text') = Records(text) \cup {here} /\ here \notin Records(text)
    BY <1>0, <1>1, AppendLine DEF Texts
  <1>5. \A k \in Records(text) : /\ text'[k] = text[k] /\ Before(text', k) = Before(text, k)
                                 /\ GoodRecord(text', k) <=> GoodRecord(text, k)
    BY <1>0, <1>1, EarlierRecords
  <1>6. Before(text', here) = size
    BY <1>0, <1>1, LastRecord
  <1>7. Cardinality(Records(text')) = size + 1
    BY <1>3, <1>4, FS_AddElement
  <1>8. operations \in Seq(Points) /\ Len(operations) = size /\ Point(l) \in Points
    BY <1>2 DEF OperationsInv, Points
  <1> HIDE DEF here, size
  <1>9. /\ operations' \in Seq(Points) /\ Len(operations') = size + 1
        /\ operations'[size + 1] = Point(l)
        /\ \A n \in 1 .. size : operations'[n] = operations[n]
    BY <1>0, <1>8
  <1>10. CountInv'
    <2>1. size + 1 <= MaxLines /\ size \in Nat /\ MaxLines < IdModulus /\ IdModulus \in Nat
          /\ MaxLines \in Nat
      BY <1>1, <1>3, FileAssumption
    <2>2. (size + 1) % IdModulus = size + 1
      BY <2>1
    <2>3. expectedId' = size + 1
      BY <1>0, <1>2, <2>2 DEF CountInv, size
    <2>4. configsSeen' <=> \E j \in Records(text') : text'[j].op = "CONFIGS"
      BY <1>0, <1>2, <1>4, <1>5 DEF CountInv
    <2> QED
      BY <1>7, <2>3, <2>4 DEF CountInv
  <1>11. OperationsInv'
    <2>1. \A k \in Records(text) : Before(text, k) + 1 \in 1 .. size
      BY <1>1, <1>3, BeforeOrder DEF size
    <2>2. \A k \in Records(text') : operations'[Before(text', k) + 1] = Point(text'[k])
      BY <1>2, <1>4, <1>5, <1>6, <1>9, <2>1 DEF OperationsInv
    <2>3. \A n \in 1 .. size + 1 : \E k \in Records(text') : Before(text', k) + 1 = n
      <3>1. ASSUME NEW n \in 1 .. size PROVE \E k \in Records(text') : Before(text', k) + 1 = n
        BY <1>2, <1>4, <1>5, <1>8 DEF OperationsInv
      <3>2. \A n \in 1 .. size + 1 : n \in 1 .. size \/ n = size + 1
        BY <1>3
      <3> QED
        BY <1>4, <1>6, <3>1, <3>2
    <2> QED
      BY <1>7, <1>9, <2>2, <2>3 DEF OperationsInv
  <1>12. \A k \in Records(text') : GoodRecord(text', k)
    <2>1. GoodRecord(text', here)
      BY <1>0, <1>2, VerdictIsRight DEF Inv, here
    <2> QED
      BY <1>2, <1>4, <1>5, <2>1
  <1>13. TypeOK'
    <2>1. expectedId' \in 0 .. IdModulus - 1
      BY <1>0, FileAssumption DEF Inv, TypeOK
    <2>2. Len(operations') <= MaxLines
      BY <1>1, <1>3, <1>9, FileAssumption
    <2>3. lineNumber' = Len(text') /\ Len(text') <= MaxLines
      BY <1>0, <1>1, <1>4, FileAssumption DEF Inv, TypeOK, here
    <2>4. text' \in Seq(Lines \cup {Blank})
      BY <1>4 DEF Texts
    <2>5. configsSeen' \in BOOLEAN
      BY <1>0
    <2> QED
      BY <1>0, <2>1, <2>2, <2>3, <2>4, <2>5 DEF Inv, TypeOK
  <1>14. ParseInv' /\ LoadInv'
    BY <1>0, <1>2, <1>10, <1>11, <1>12 DEF Inv, ParseInv, LoadInv
  <1>15. AcceptsExactly' /\ ReportsLine' /\ LegsFromFile'
    BY <1>0, <1>2 DEF AcceptsExactly, Parsed, ReportsLine, LineErrors, LegsFromFile
  <1> QED
    BY <1>13, <1>14, <1>15 DEF Inv

LEMMA RefuseLineInv ==
    ASSUME Inv, NEW l \in Lines, RefuseLine(l)
    PROVE  Inv'
  <1> DEFINE here == Len(text) + 1
  <1>0. /\ phase = "reading" /\ Len(text) < MaxLines /\ Verdict(l) # "NONE"
        /\ text' = Append(text, l) /\ lineNumber' = lineNumber + 1
        /\ error' = Verdict(l) /\ errorLine' = lineNumber + 1 /\ operations' = <<>>
        /\ phase' = "idle" /\ answer' = "refused"
        /\ UNCHANGED <<expectedId, configsSeen, next, total, i, misn>>
    BY DEF RefuseLine, Refuse, loaderVars
  <1>1. /\ text \in Texts /\ Len(text) \in Nat /\ lineNumber = Len(text)
        /\ here \in 0 .. MaxLines
    BY <1>0, FileAssumption DEF Inv, TypeOK, Texts
  <1>2. CountInv /\ \A k \in Records(text) : GoodRecord(text, k)
    BY <1>0 DEF Inv, ParseInv
  <1>3. /\ text' \in Texts /\ Len(text') = here
        /\ Records(text') = Records(text) \cup {here}
    BY <1>0, <1>1, AppendLine DEF Texts
  <1>4. \A k \in Records(text) : GoodRecord(text', k)
    BY <1>0, <1>1, <1>2, EarlierRecords
  <1>5. ~GoodRecord(text', here)
    BY <1>0, <1>2, VerdictIsRight DEF Inv
  <1>6. errorLine' = here
    BY <1>0, <1>1
  <1> HIDE DEF here
  <1>7. error' \in LineErrors
    BY <1>0, VerdictTypes
  <1>8. TypeOK'
    <2>1. error' \in Errors
      BY <1>7 DEF LineErrors
    <2>2. Len(operations') <= MaxLines
      BY <1>0, FileAssumption
    <2>3. Len(text') <= MaxLines /\ lineNumber' = Len(text')
      BY <1>0, <1>1, <1>3 DEF here
    <2>4. text' \in Seq(Lines \cup {Blank})
      BY <1>3 DEF Texts
    <2> QED
      BY <1>0, <1>1, <1>6, <2>1, <2>2, <2>3, <2>4 DEF Inv, TypeOK
  <1>9. ParseInv' /\ LoadInv' /\ LegsFromFile'
    BY <1>0 DEF ParseInv, LoadInv, LegsFromFile
  <1>10. AcceptsExactly'
    BY <1>0, <1>3, <1>5 DEF AcceptsExactly, WellFormed, AllGood
  <1>11. ReportsLine'
    <2>1. ~(here < here)
      BY <1>1
    <2> QED
      BY <1>3, <1>4, <1>5, <1>6, <1>7, <2>1 DEF ReportsLine
  <1> QED
    BY <1>8, <1>9, <1>10, <1>11 DEF Inv

-----------------------------------------------------------------------------
(* The end of the file: the first and the last operation are those of the  *)
(* first and the last record.                                              *)
LEMMA FirstAndLast ==
    ASSUME text \in Texts, OperationsInv, operations # <<>>
    PROVE  /\ operations[1].type = "CONFIG" <=> ConfigFirst(text)
           /\ operations[Len(operations)].type = "ENDMISSION" <=> EndMissionLast(text)
  <1> DEFINE size == Cardinality(Records(text))
  <1>1. /\ Len(operations) = size /\ size \in Nat \ {0}
        /\ \A k \in Records(text) : operations[Before(text, k) + 1].type = text[k].op
    <2>1. operations \in Seq(Points) /\ Len(operations) = size
      BY DEF OperationsInv
    <2>2. Len(operations) \in Nat \ {0}
      BY <2>1
    <2>3. \A l : Point(l).type = l.op
      BY DEF Point
    <2>4. \A k \in Records(text) : operations[Before(text, k) + 1] = Point(text[k])
      BY DEF OperationsInv
    <2> QED
      BY <2>1, <2>2, <2>3, <2>4
  <1>2. \A j, k \in Records(text) :
            /\ j \in Nat /\ k \in Nat /\ Before(text, j) \in Nat /\ Before(text, k) \in Nat
            /\ Before(text, j) < size /\ Before(text, k) < size
            /\ j < k <=> Before(text, j) < Before(text, k)
    BY BeforeOrder, RecordsFinite
  <1>3. PICK first \in Records(text) : Before(text, first) + 1 = 1
    BY <1>1 DEF OperationsInv
  <1>4. PICK last \in Records(text) : Before(text, last) + 1 = size
    BY <1>1 DEF OperationsInv
  <1> HIDE DEF size
  <1>5. \A j \in Records(text) : first <= j /\ j <= last
    BY <1>1, <1>2, <1>3, <1>4
  <1>6. \A k \in Records(text) : (\A j \in Records(text) : k <= j) => k = first
    BY <1>2, <1>5
  <1>7. \A k \in Records(text) : (\A j \in Records(text) : j <= k) => k = last
    BY <1>2, <1>5
  <1>8. operations[1].type = text[first].op
    BY <1>1, <1>3
  <1>9. operations[Len(operations)].type = text[last].op
    BY <1>1, <1>4
  <1> QED
    BY <1>5, <1>6, <1>7, <1>8, <1>9 DEF ConfigFirst, EndMissionLast

(* What is reported of a file without a bad record.                        *)
EndReport(e, line) ==
    \/ e = "CONFIG_NOT_FIRST" /\ ~ConfigFirst(text) /\ line = 1
    \/ /\ e = "ENDMISSION_NOT_LAST" /\ ConfigFirst(text)
       /\ ~EndMissionLast(text) /\ line = Len(text)
    \/ e = "EMPTY_FILE" /\ Records(text) = {} /\ line = 0

LEMMA EndVerdictIsRight ==
    ASSUME TypeOK, ParseInv, phase = "reading"
    PROVE  /\ EndVerdict.error = "NONE" <=> WellFormed(text)
           /\ EndVerdict.error \in Errors \ LineErrors
           /\ EndVerdict.line \in 0 .. MaxLines
           /\ AllGood(text)
           /\ EndVerdict.error # "NONE" => EndReport(EndVerdict.error, EndVerdict.line)
  <1>1. /\ text \in Texts /\ OperationsInv /\ AllGood(text)
        /\ lineNumber \in 0 .. MaxLines /\ lineNumber = Len(text) /\ Len(operations) <= MaxLines
        /\ operations \in Seq(Points)
    BY DEF TypeOK, ParseInv, OperationsInv, Texts, AllGood
  <1>2. CASE operations = <<>>
    <2>1. Cardinality(Records(text)) = 0
      BY <1>1, <1>2 DEF OperationsInv
    <2>2. Records(text) = {}
      BY <1>1, <2>1, RecordsFinite, FS_EmptySet
    <2>3. 0 \in 0 .. MaxLines
      BY FileAssumption
    <2> QED
      BY <1>1, <1>2, <2>2, <2>3 DEF EndVerdict, EndReport, WellFormed, ConfigFirst, Errors, LineErrors
  <1>3. CASE operations # <<>>
    <2>1. 0 \in 0 .. MaxLines /\ 1 \in 0 .. MaxLines
      BY <1>1, <1>3, FileAssumption
    <2> QED
      BY <1>1, <1>3, <2>1, FirstAndLast DEF EndVerdict, EndReport, WellFormed, Errors, LineErrors
  <1> QED
    BY <1>2, <1>3

LEMMA EndOfFileInv ==
    ASSUME Inv, EndOfFile
    PROVE  Inv'
  <1>0. phase = "reading" /\ UNCHANGED <<text, lineNumber, expectedId, configsSeen>>
    BY DEF EndOfFile
  <1>1. /\ text \in Texts /\ error = "NONE" /\ answer = "none" /\ CountInv /\ OperationsInv
        /\ \A k \in Records(text) : GoodRecord(text, k)
        /\ next = 1 /\ total = 0 /\ i = 0 /\ misn = NoLegs
    BY <1>0 DEF Inv, ParseInv, LoadInv, TypeOK, Texts
  <1>2. CASE EndVerdict.error = "NONE"
    <2>1. phase' = "loading"
          /\ UNCHANGED <<operations, error, errorLine, next, total, i, misn, answer>>
      BY <1>2 DEF EndOfFile, resultVars, loaderVars
    <2>2. WellFormed(text)
      BY <1>0, <1>2, EndVerdictIsRight DEF Inv
    <2>3. Done' = {}
      <3>1. \A k \in Records(text) : Before(text, k) \in Nat
        BY <1>1, BeforeOrder
      <3>2. \A k \in Records(text) : ~(Before(text, k) + 1 < 1)
        BY <3>1
      <3> QED
        BY <1>0, <1>1, <2>1, <3>2 DEF Done, Gotowps
    <2>4. \A n \in 0 .. Count - 1 : misn[n] = ZeroLeg
      BY <1>1 DEF NoLegs
    <2>5. TypeOK'
      BY <1>0, <2>1 DEF Inv, TypeOK
    <2>6. ParseInv'
      BY <1>0, <1>1, <2>1 DEF ParseInv, CountInv, OperationsInv
    <2>7. LoadInv'
      BY <1>0, <1>1, <2>1, <2>2, <2>3, <2>4, FS_EmptySet DEF LoadInv
    <2>8. AcceptsExactly' /\ ReportsLine' /\ LegsFromFile'
      BY <1>0, <1>1, <2>1, <2>2 DEF AcceptsExactly, ReportsLine, LineErrors, LegsFromFile
    <2> QED
      BY <2>5, <2>6, <2>7, <2>8 DEF Inv
  <1>3. CASE EndVerdict.error # "NONE"
    <2>1. /\ phase' = "idle" /\ answer' = "refused" /\ operations' = <<>>
          /\ error' = EndVerdict.error /\ errorLine' = EndVerdict.line
          /\ UNCHANGED <<next, total, i, misn>>
      BY <1>3 DEF EndOfFile, Refuse, loaderVars
    <2>2. /\ ~WellFormed(text) /\ error' \in Errors \ LineErrors
          /\ errorLine' \in 0 .. MaxLines
          /\ AllGood(text) /\ EndReport(error', errorLine')
      BY <1>0, <1>3, <2>1, EndVerdictIsRight DEF Inv
    <2>3. TypeOK'
      <3>1. Len(operations') <= MaxLines
        BY <2>1, FileAssumption
      <3> QED
        BY <1>0, <2>1, <2>2, <3>1 DEF Inv, TypeOK
    <2>4. ParseInv' /\ LoadInv' /\ LegsFromFile'
      BY <2>1, <2>2 DEF ParseInv, LoadInv, LegsFromFile
    <2>5. ReportsLine'
      BY <1>0, <2>2 DEF ReportsLine, EndReport, AllGood, ConfigFirst, EndMissionLast
    <2>6. AcceptsExactly'
      BY <1>0, <1>3, <2>1, <2>2 DEF AcceptsExactly
    <2> QED
      BY <2>3, <2>4, <2>5, <2>6 DEF Inv
  <1> QED
    BY <1>2, <1>3

-----------------------------------------------------------------------------
(* The loading loop.                                                       *)
LEMMA RanksOfGotowps ==
    ASSUME NEW t \in Texts
    PROVE  /\ Gotowps(t) \in SUBSET Nat /\ IsFiniteSet(Gotowps(t))
           /\ Gotowps(t) \subseteq Records(t)
           /\ Cardinality(Gotowps(t)) \in Nat
           /\ \A j, k \in Gotowps(t) :
                /\ Rank(t, j) \in Nat /\ Rank(t, j) < Cardinality(Gotowps(t))
                /\ j < k <=> Rank(t, j) < Rank(t, k)
  <1>1. Gotowps(t) \in SUBSET Nat /\ IsFiniteSet(Gotowps(t)) /\ Gotowps(t) \subseteq Records(t)
    BY RecordsFinite, FS_Subset DEF Gotowps
  <1>2. \A k : Rank(t, k) = Cardinality(Below(Gotowps(t), k))
    BY DEF Rank, Below
  <1> QED
    BY <1>1, <1>2, BelowFinite, BelowInSize, BelowOrder, FS_CardinalityType

(* The records done are those before the one at hand, and as many as legs  *)
(* have been counted.                                                      *)
LEMMA DoneSoFar ==
    ASSUME Inv, phase = "loading"
    PROVE  /\ text \in Texts /\ Done \subseteq Gotowps(text) /\ IsFiniteSet(Done)
           /\ total = Cardinality(Done) /\ i = total /\ total \in 0 .. Count - 1
           /\ next \in 1 .. MaxLines + 1 /\ Len(operations) \in Nat
           /\ \A k \in Done : Rank(text, k) < total
           /\ \A j \in Gotowps(text) \ Done : total <= Rank(text, j)
  <1>1. /\ text \in Texts /\ total = Cardinality(Done) /\ i = total
        /\ i \in 0 .. Count - 1 /\ next \in 1 .. MaxLines + 1 /\ operations \in Seq(Points)
    BY DEF Inv, TypeOK, LoadInv, ParseInv, OperationsInv, Texts
  <1>2. Done \subseteq Gotowps(text) /\ IsFiniteSet(Done)
    BY <1>1, RanksOfGotowps, FS_Subset DEF Done
  <1>3. \A j, k \in Gotowps(text) :
            /\ j \in Nat /\ k \in Nat /\ Before(text, j) \in Nat /\ Before(text, k) \in Nat
            /\ j < k <=> Before(text, j) < Before(text, k)
    BY <1>1, RanksOfGotowps, BeforeOrder
  <1>4. \A k \in Done : Rank(text, k) < total
    <2> TAKE k \in Done
    <2>1. Below(Gotowps(text), k) \subseteq Below(Done, k)
      BY <1>1, <1>2, <1>3 DEF Below, Done
    <2>2. Below(Done, k) \subseteq Below(Gotowps(text), k)
      BY <1>2 DEF Below
    <2>3. Rank(text, k) = Cardinality(Below(Done, k))
      BY <2>1, <2>2 DEF Rank, Below
    <2> QED
      BY <1>1, <1>2, <2>3, RanksOfGotowps, BelowInSize
  <1>5. \A j \in Gotowps(text) \ Done : total <= Rank(text, j)
    <2> TAKE j \in Gotowps(text) \ Done
    <2>1. Done \subseteq Below(Gotowps(text), j)
      BY <1>1, <1>2, <1>3 DEF Below, Done
    <2>2. Cardinality(Done) <= Cardinality(Below(Gotowps(text), j))
      BY <1>1, <2>1, RanksOfGotowps, BelowFinite, FS_Subset
    <2> QED
      BY <1>1, <2>2 DEF Rank, Below
  <1> QED
    BY <1>1, <1>2, <1>4, <1>5

(* When the loop ends it has counted and stored what LegCounts says, and   *)
(* the number of legs and the arrays are as stated.                        *)
LEMMA LegsStored ==
    ASSUME Inv, phase = "loading", NEW t, NEW n, n = Cardinality(Gotowps(text)),
           t = TotalFor(n), StoredFor(n) = total
    PROVE  /\ t = IF n < Count THEN n ELSE Count
           /\ \A k \in Gotowps(text) : Rank(text, k) < Count - 1 =>
                 SaysWaypoint(misn[Rank(text, k)], text[k].wp)
           /\ \A k \in 0 .. Count - 1 : k >= n \/ k = Count - 1 => misn[k] = ZeroLeg
  <1>1. /\ \A k \in Done : misn[Rank(text, k)] = Stored(Point(text[k]).wp)
        /\ \A k \in total .. Count - 1 : misn[k] = ZeroLeg
    BY DEF Inv, LoadInv
  <1>2. \A k \in Gotowps(text) : Rank(text, k) < total => k \in Done
    <2>1. \A k \in Gotowps(text) : Rank(text, k) \in Nat
      BY DoneSoFar, RanksOfGotowps
    <2> QED
      BY <2>1, DoneSoFar
  <1>3. n \in Nat /\ Count \in Nat \ {0} /\ total = IF n < Count - 1 THEN n ELSE Count - 1
    BY DoneSoFar, RanksOfGotowps, FileAssumption DEF StoredFor, Smaller
  <1>4. t = IF n < Count THEN n ELSE Count
    BY DEF TotalFor, Smaller
  <1>5. ASSUME NEW k \in Gotowps(text), Rank(text, k) < Count - 1
        PROVE  SaysWaypoint(misn[Rank(text, k)], text[k].wp)
    <2>1. Rank(text, k) \in Nat /\ Rank(text, k) < n
      BY DoneSoFar, RanksOfGotowps
    <2>2. Rank(text, k) < total
      BY <1>3, <1>5, <2>1
    <2>3. misn[Rank(text, k)] = Stored(Point(text[k]).wp)
      BY <1>1, <1>2, <2>2
    <2>4. text[k] \in Lines
      BY DoneSoFar, RanksOfGotowps, RecordsFinite
    <2> QED
      BY <2>3, <2>4, StoredSays
  <1>6. ASSUME NEW k \in 0 .. Count - 1, k >= n \/ k = Count - 1
        PROVE  misn[k] = ZeroLeg
    <2>1. k \in total .. Count - 1
      BY <1>3, <1>6
    <2> QED
      BY <1>1, <2>1
  <1> QED
    BY <1>4, <1>5, <1>6

LEMMA LoadEndInv ==
    ASSUME Inv, LoadEnd
    PROVE  Inv'
  <1>0. /\ phase = "loading" /\ next > Len(operations) /\ phase' = "idle" /\ answer' = "executed"
        /\ UNCHANGED <<text, lineNumber, expectedId, configsSeen, operations, error, errorLine,
                       next, total, i, misn>>
    BY DEF LoadEnd, Save, parserVars, resultVars, loaderVars
  <1>1. /\ text \in Texts /\ OperationsInv /\ error = "NONE" /\ WellFormed(text)
        /\ total \in 0 .. Count - 1 /\ next \in 1 .. MaxLines + 1 /\ Len(operations) \in Nat
        /\ total = Cardinality(Done)
    BY <1>0, DoneSoFar DEF Inv, ParseInv, LoadInv
  <1>2. Done = Gotowps(text)
    <2>1. \A k \in Gotowps(text) : Before(text, k) \in Nat /\ Before(text, k) < Len(operations)
      BY <1>1, RanksOfGotowps, BeforeOrder DEF OperationsInv
    <2>2. \A k \in Gotowps(text) : Before(text, k) + 1 < next
      BY <1>0, <1>1, <2>1
    <2> QED
      BY <2>2 DEF Done
  <1> DEFINE n == Cardinality(Gotowps(text))
  <1>3. total = TotalFor(n) /\ StoredFor(n) = total
    BY <1>1, <1>2, FileAssumption DEF TotalFor, StoredFor, Smaller
  <1>4. LegsFromFile'
    BY <1>0, <1>3, LegsStored DEF LegsFromFile
  <1>5. TypeOK'
    BY <1>0 DEF Inv, TypeOK
  <1>6. ParseInv' /\ LoadInv' /\ AcceptsExactly' /\ ReportsLine'
    BY <1>0, <1>1 DEF ParseInv, LoadInv, AcceptsExactly, ReportsLine, LineErrors
  <1> QED
    BY <1>4, <1>5, <1>6 DEF Inv

(* The operation at hand is a record, and the records before it are done.  *)
LEMMA AtHand ==
    ASSUME Inv, phase = "loading", next <= Len(operations)
    PROVE  \E k \in Records(text) :
            /\ operations[next] = Point(text[k])
            /\ IsLeg(operations[next]) <=> k \in Gotowps(text)
            /\ \A j \in Records(text) :
                /\ Before(text, j) + 1 < next <=> j < k
                /\ Before(text, j) + 1 < next + 1 <=> j < k \/ j = k
  <1>1. /\ text \in Texts /\ OperationsInv /\ next \in 1 .. Len(operations)
    BY DoneSoFar DEF Inv, ParseInv
  <1>2. PICK k \in Records(text) : Before(text, k) + 1 = next
    BY <1>1 DEF OperationsInv
  <1>3. operations[next] = Point(text[k])
    BY <1>1, <1>2 DEF OperationsInv
  <1>4. IsLeg(operations[next]) <=> k \in Gotowps(text)
    BY <1>3 DEF IsLeg, Point, Gotowps
  <1>5. \A j \in Records(text) :
            /\ j \in Nat /\ k \in Nat /\ Before(text, j) \in Nat /\ Before(text, k) \in Nat
            /\ j < k <=> Before(text, j) < Before(text, k)
            /\ k < j <=> Before(text, k) < Before(text, j)
    BY <1>1, BeforeOrder, RecordsFinite
  <1>6. \A j \in Records(text) :
            /\ Before(text, j) + 1 < next <=> j < k
            /\ Before(text, j) + 1 < next + 1 <=> j < k \/ j = k
    BY <1>2, <1>5
  <1> QED
    BY <1>3, <1>4, <1>6

LEMMA LoadOperationInv ==
    ASSUME Inv, LoadOperation
    PROVE  Inv'
  <1>0. /\ phase = "loading" /\ next <= Len(operations)
        /\ UNCHANGED <<text, lineNumber, expectedId, configsSeen, operations, error, errorLine>>
    BY DEF LoadOperation, parserVars, resultVars
  <1>1. /\ text \in Texts /\ OperationsInv /\ CountInv /\ error = "NONE" /\ answer = "none"
        /\ WellFormed(text) /\ \A j \in Records(text) : GoodRecord(text, j)
        /\ total \in 0 .. Count - 1 /\ i = total /\ total = Cardinality(Done)
        /\ Done \subseteq Gotowps(text) /\ IsFiniteSet(Done)
        /\ next \in 1 .. MaxLines /\ misn \in [0 .. Count - 1 -> Leg]
    BY <1>0, DoneSoFar, FileAssumption DEF Inv, TypeOK, ParseInv, LoadInv
  <1>2. PICK k \in Records(text) :
            /\ operations[next] = Point(text[k])
            /\ IsLeg(operations[next]) <=> k \in Gotowps(text)
            /\ \A j \in Records(text) :
                /\ Before(text, j) + 1 < next <=> j < k
                /\ Before(text, j) + 1 < next + 1 <=> j < k \/ j = k
    BY <1>0, AtHand
  <1>3. /\ Gotowps(text) \subseteq Records(text) /\ k \in Nat /\ ~(k < k)
    BY <1>1, RanksOfGotowps, RecordsFinite
  <1>4. Done = {j \in Gotowps(text) : j < k} /\ k \notin Done
    BY <1>2, <1>3 DEF Done
  <1>5. next + 1 \in 1 .. MaxLines + 1
    BY <1>1, FileAssumption
  <1>6. CASE ~IsLeg(operations[next])
    <2>1. next' = next + 1 /\ UNCHANGED <<phase, answer, total, i, misn>>
      BY <1>6 DEF LoadOperation
    <2>2. Done' = Done
      BY <1>0, <1>2, <1>3, <1>4, <1>6, <2>1 DEF Done
    <2>3. TypeOK'
      BY <1>0, <1>5, <2>1 DEF Inv, TypeOK
    <2>4. ParseInv' /\ LoadInv'
      BY <1>0, <2>1, <2>2 DEF Inv, ParseInv, CountInv, OperationsInv, LoadInv
    <2>5. AcceptsExactly' /\ ReportsLine' /\ LegsFromFile'
      BY <1>0, <1>1, <2>1 DEF AcceptsExactly, ReportsLine, LineErrors, LegsFromFile
    <2> QED
      BY <2>3, <2>4, <2>5 DEF Inv
  <1>7. CASE IsLeg(operations[next]) /\ LimitReached(total + 1)
    <2>1. /\ total' = total + 1 /\ phase' = "idle" /\ answer' = "executed"
          /\ UNCHANGED <<next, i, misn>> /\ total + 1 = Count
      BY <1>7 DEF LoadOperation, Save, LimitReached
    <2> DEFINE n == Cardinality(Gotowps(text))
    <2>2. n \in Nat /\ total + 1 <= n
      <3>1. Done \cup {k} \subseteq Gotowps(text) /\ IsFiniteSet(Gotowps(text)) /\ n \in Nat
        BY <1>1, <1>2, <1>7, RanksOfGotowps
      <3>2. Cardinality(Done \cup {k}) = total + 1
        BY <1>1, <1>4, FS_AddElement
      <3> QED
        BY <3>1, <3>2, FS_Subset
    <2>3. total' = TotalFor(n) /\ StoredFor(n) = total
      BY <1>1, <2>1, <2>2, FileAssumption DEF TotalFor, StoredFor, Smaller
    <2>4. LegsFromFile'
      BY <1>0, <2>1, <2>3, LegsStored DEF LegsFromFile
    <2>5. TypeOK'
      <3>1. total' \in 0 .. Count
        BY <2>1, FileAssumption
      <3> QED
        BY <1>0, <2>1, <3>1 DEF Inv, TypeOK
    <2>6. ParseInv' /\ LoadInv' /\ AcceptsExactly' /\ ReportsLine'
      BY <1>0, <1>1, <2>1 DEF ParseInv, LoadInv, AcceptsExactly, ReportsLine, LineErrors
    <2> QED
      BY <2>4, <2>5, <2>6 DEF Inv
  <1>8. CASE IsLeg(operations[next]) /\ ~LimitReached(total + 1)
    <2>1. /\ total' = total + 1 /\ misn' = [misn EXCEPT ![i] = Stored(operations[next].wp)]
          /\ i' = i + 1 /\ next' = next + 1 /\ total + 1 # Count
          /\ UNCHANGED <<phase, answer>>
      BY <1>8 DEF LoadOperation, LimitReached
    <2>2. /\ total' \in 0 .. Count /\ i' \in 0 .. Count - 1 /\ i' = total'
      BY <1>1, <2>1, FileAssumption
    <2>3. k \in Gotowps(text) /\ Rank(text, k) = total
      BY <1>1, <1>2, <1>4, <1>8 DEF Rank
    <2>4. Done' = Done \cup {k}
      BY <1>0, <1>2, <1>3, <1>4, <2>1, <2>3 DEF Done
    <2>5. total' = Cardinality(Done')
      BY <1>1, <1>4, <2>1, <2>4, FS_AddElement
    <2>6. Stored(operations[next].wp) \in Leg
      <3>1. operations[next] \in Points
        BY <1>2, <1>1, RecordsFinite DEF Points
      <3> QED
        BY <3>1, StoredTypes
    <2>7. /\ misn' \in [0 .. Count - 1 -> Leg]
          /\ misn'[total] = Stored(Point(text[k]).wp)
          /\ \A n \in 0 .. Count - 1 : n # total => misn'[n] = misn[n]
      BY <1>1, <1>2, <2>1, <2>6
    <2>8. \A j \in Done' : misn'[Rank(text, j)] = Stored(Point(text[j]).wp)
      <3>1. ASSUME NEW j \in Done
            PROVE  misn'[Rank(text, j)] = Stored(Point(text[j]).wp)
        <4>1. Rank(text, j) \in 0 .. Count - 1 /\ Rank(text, j) # total
          <5>1. Rank(text, j) < total
            BY <1>0, DoneSoFar
          <5>2. j \in Gotowps(text)
            BY <1>1
          <5>3. Rank(text, j) \in Nat
            BY <1>1, <5>2, RanksOfGotowps
          <5>4. total <= Count - 1 /\ total \in Nat /\ Count \in Nat
            BY <1>1, FileAssumption
          <5> QED
            BY <5>1, <5>3, <5>4
        <4>2. misn[Rank(text, j)] = Stored(Point(text[j]).wp)
          BY <1>0 DEF Inv, LoadInv
        <4> QED
          BY <2>7, <4>1, <4>2
      <3> QED
        BY <2>3, <2>4, <2>7, <3>1
    <2>9. \A n \in total' .. Count - 1 : misn'[n] = ZeroLeg
      <3>1. \A n \in total .. Count - 1 : misn[n] = ZeroLeg
        BY <1>0 DEF Inv, LoadInv
      <3>2. \A n \in total' .. Count - 1 : n \in total .. Count - 1 /\ n \in 0 .. Count - 1 /\ n # total
        BY <1>1, <2>1, FileAssumption
      <3> QED
        BY <2>7, <3>1, <3>2
    <2>10. TypeOK'
      BY <1>0, <1>5, <2>1, <2>2, <2>7 DEF Inv, TypeOK
    <2>11. ParseInv'
      BY <1>0, <2>1 DEF Inv, ParseInv, CountInv, OperationsInv
    <2>12. LoadInv'
      BY <1>0, <1>1, <2>1, <2>2, <2>5, <2>8, <2>9 DEF LoadInv
    <2>13. AcceptsExactly' /\ ReportsLine' /\ LegsFromFile'
      BY <1>0, <1>1, <2>1 DEF AcceptsExactly, ReportsLine, LineErrors, LegsFromFile
    <2> QED
      BY <2>10, <2>11, <2>12, <2>13 DEF Inv
  <1> QED
    BY <1>6, <1>7, <1>8

-----------------------------------------------------------------------------
LEMMA NextInv == Inv /\ [Next]_vars => Inv'
  <1> SUFFICES ASSUME Inv, [Next]_vars PROVE Inv'
    OBVIOUS
  <1>1. CASE UNCHANGED vars
    BY <1>1 DEF vars, parserVars, resultVars, loaderVars, Inv, TypeOK, ParseInv, CountInv,
                OperationsInv, LoadInv, Done, AcceptsExactly, Parsed, ReportsLine,
                LegsFromFile
  <1>2. CASE OpenFile \/ OpenFails
    BY <1>2, OpenInv
  <1>3. CASE ReadBlank \/ EndOfFile
    BY <1>3, ReadBlankInv, EndOfFileInv
  <1>4. CASE LoadOperation \/ LoadEnd
    BY <1>4, LoadOperationInv, LoadEndInv
  <1>5. ASSUME NEW l \in Lines, ReadLine(l) \/ RefuseLine(l) PROVE Inv'
    BY <1>5, ReadLineInv, RefuseLineInv
  <1> QED
    BY <1>1, <1>2, <1>3, <1>4, <1>5 DEF Next

(* The loops' state is what the file read so far makes of it.              *)
THEOREM FileInvariant == Spec => []Inv
  BY InitInv, NextInv, PTL DEF Spec

(* The counters stay within their types and i within the arrays, whatever  *)
(* the file has in it.                                                     *)
THEOREM FileTypes == Spec => []TypeOK
  <1>1. Inv => TypeOK
    BY DEF Inv
  <1> QED
    BY <1>1, FileInvariant, PTL

(* parseFile returns no error for the well-formed files and for no others. *)
THEOREM ParserAccepts == Spec => []AcceptsExactly
  <1>1. Inv => AcceptsExactly
    BY DEF Inv
  <1> QED
    BY <1>1, FileInvariant, PTL

(* The line of a refusal is the first bad record; of a file with none, 1   *)
(* or the last line for the order of the records, and 0 for no records.    *)
THEOREM ParserReports == Spec => []ReportsLine
  <1>1. Inv => ReportsLine
    BY DEF Inv
  <1> QED
    BY <1>1, FileInvariant, PTL

(* validateMissionFile: the legs are the waypoints of the file, in order;  *)
(* up to Count are counted and the first Count - 1 stored.                 *)
THEOREM LegsAreTheFiles == Spec => []LegsFromFile
  <1>1. Inv => LegsFromFile
    BY DEF Inv
  <1> QED
    BY <1>1, FileInvariant, PTL
=============================================================================
