---------------------------- MODULE FramesProofs ----------------------------
(***************************************************************************)
(* Facts about the frames of any length: a frame passes the check if its   *)
(* sender has summed its body, and no frame passes it with one bit turned  *)
(* over.                                                                   *)
(***************************************************************************)
EXTENDS Frames, Integers, FiniteSetTheorems, TLAPS

LEMMA ByteType == ASSUME NEW n PROVE Byte(n) \in Bytes
  BY DEF Byte, Bytes

(* The host's byte order undone is the frame's.                            *)
LEMMA TwoBytes ==
    ASSUME NEW high, NEW low
    PROVE  endianConverter(<<high, low>>) = <<low, high>>
  BY DEF endianConverter, Reverse

-----------------------------------------------------------------------------
(* The checksum: one bit of it is the parity of the bytes with this bit.   *)
Having(data, b) == {i \in DOMAIN data : b \in data[i]}

LEMMA IntervalFinite == ASSUME NEW n \in Nat PROVE IsFiniteSet(1 .. n)
  BY FS_Interval

LEMMA HavingFinite ==
    ASSUME NEW data \in Seq(Bytes), NEW b
    PROVE  IsFiniteSet(Having(data, b)) /\ Cardinality(Having(data, b)) \in Nat
  <1>1. DOMAIN data = 1 .. Len(data) /\ Len(data) \in Nat
    OBVIOUS
  <1>2. IsFiniteSet(DOMAIN data)
    BY <1>1, IntervalFinite
  <1>3. Having(data, b) \subseteq DOMAIN data
    BY DEF Having
  <1>4. IsFiniteSet(Having(data, b))
    BY <1>2, <1>3, FS_Subset
  <1> QED
    BY <1>4, FS_CardinalityType

(* An element more or less changes the parity of a set's size.             *)
LEMMA ParityChanges ==
    ASSUME NEW S, NEW T, NEW x, IsFiniteSet(S),
           (x \in S /\ T = S \ {x}) \/ (x \notin S /\ T = S \cup {x})
    PROVE  Cardinality(T) % 2 = 1 <=> Cardinality(S) % 2 # 1
  <1>1. Cardinality(S) \in Nat
    BY FS_CardinalityType
  <1>2. \A n \in Nat : (n + 1) % 2 = 1 <=> n % 2 # 1
    OBVIOUS
  <1>3. CASE x \in S /\ T = S \ {x}
    <2>1. Cardinality(T) = Cardinality(S) - 1 /\ Cardinality(T) \in Nat
      BY <1>3, FS_RemoveElement, FS_CardinalityType
    <2>2. Cardinality(S) = Cardinality(T) + 1
      BY <1>1, <2>1
    <2> QED
      BY <1>2, <2>1, <2>2
  <1>4. CASE x \notin S /\ T = S \cup {x}
    <2>1. Cardinality(T) = Cardinality(S) + 1
      BY <1>4, FS_AddElement
    <2> QED
      BY <1>1, <1>2, <2>1
  <1> QED
    BY <1>3, <1>4

LEMMA ChecksumType == ASSUME NEW data PROVE calculateChecksum(data) \in Bytes
  BY DEF calculateChecksum, Bytes

(* The checksum's own byte, still zero, adds nothing to it.                *)
LEMMA ZeroAddsNothing ==
    ASSUME NEW data \in Seq(Bytes)
    PROVE  calculateChecksum(Append(data, Zero)) = calculateChecksum(data)
  <1>1. \A b : Having(Append(data, Zero), b) = Having(data, b)
    BY DEF Having, Zero
  <1>2. \A b : {i \in DOMAIN Append(data, Zero) : b \in Append(data, Zero)[i]}
                    = {i \in DOMAIN data : b \in data[i]}
    BY <1>1 DEF Having
  <1> QED
    BY <1>2 DEF calculateChecksum

LEMMA FlippedByte ==
    ASSUME NEW byte \in Bytes, NEW b \in Bits
    PROVE  /\ Flipped(byte, b) \in Bytes /\ Flipped(byte, b) # byte
           /\ b \in Flipped(byte, b) <=> b \notin byte
  BY DEF Flipped, Bytes

(* One bit turned over turns one bit of the checksum over.                 *)
LEMMA ChecksumChanges ==
    ASSUME NEW data \in Seq(Bytes), NEW seen \in Seq(Bytes), NEW i \in 1 .. Len(data), NEW b \in Bits,
           Len(seen) = Len(data), seen[i] = Flipped(data[i], b),
           \A j \in 1 .. Len(data) : j # i => seen[j] = data[j]
    PROVE  calculateChecksum(seen) # calculateChecksum(data)
  <1>1. DOMAIN data = 1 .. Len(data) /\ DOMAIN seen = 1 .. Len(data) /\ data[i] \in Bytes
    OBVIOUS
  <1>2. IsFiniteSet(Having(data, b))
    BY HavingFinite
  <1>3. b \in seen[i] <=> b \notin data[i]
    BY <1>1, FlippedByte
  <1>4. \/ i \in Having(data, b) /\ Having(seen, b) = Having(data, b) \ {i}
        \/ i \notin Having(data, b) /\ Having(seen, b) = Having(data, b) \cup {i}
    BY <1>1, <1>3 DEF Having
  <1>5. Cardinality(Having(seen, b)) % 2 = 1 <=> Cardinality(Having(data, b)) % 2 # 1
    BY <1>2, <1>4, ParityChanges
  <1>6. b \in calculateChecksum(seen) <=> b \notin calculateChecksum(data)
    BY <1>5 DEF calculateChecksum, Having
  <1> QED
    BY <1>6

-----------------------------------------------------------------------------
(* What a sender's frame has where.                                        *)
LEMMA FrameShape ==
    ASSUME NEW body \in Seq(Bytes), NEW summed
    PROVE  LET d == Frame(body, summed) IN
           /\ d \in Seq(Bytes) /\ Len(d) = Len(body) + 3
           /\ d[1] = StartMsg /\ d[Len(d)] = EndMsg
           /\ d[Len(d) - 1] = calculateChecksum(summed)
           /\ \A j \in 1 .. Len(body) : d[j + 1] = body[j]
  <1>1. StartMsg \in Bytes /\ EndMsg \in Bytes
    BY ByteType DEF StartMsg, EndMsg
  <1>2. calculateChecksum(summed) \in Bytes
    BY ChecksumType
  <1> DEFINE check == calculateChecksum(summed)
  <1> HIDE DEF check
  <1>3. check \in Bytes
    BY <1>2 DEF check
  <1>4. /\ (<<StartMsg>> \o body \o <<check, EndMsg>>) \in Seq(Bytes)
        /\ Len(<<StartMsg>> \o body \o <<check, EndMsg>>) = Len(body) + 3
    BY <1>1, <1>3
  <1>5. /\ (<<StartMsg>> \o body \o <<check, EndMsg>>)[1] = StartMsg
        /\ (<<StartMsg>> \o body \o <<check, EndMsg>>)[Len(body) + 3] = EndMsg
        /\ (<<StartMsg>> \o body \o <<check, EndMsg>>)[Len(body) + 2] = check
    BY <1>1, <1>3
  <1>6. \A j \in 1 .. Len(body) : (<<StartMsg>> \o body \o <<check, EndMsg>>)[j + 1] = body[j]
    BY <1>1, <1>3
  <1> QED
    BY <1>4, <1>5, <1>6 DEF Frame, check

LEMMA FrameBody ==
    ASSUME NEW body \in Seq(Bytes), NEW summed
    PROVE  LET d == Frame(body, summed) IN SubSeq(d, 2, Len(d) - 2) = body
  <1> DEFINE d == Frame(body, summed)
  <1>1. d \in Seq(Bytes) /\ Len(d) = Len(body) + 3 /\ \A j \in 1 .. Len(body) : d[j + 1] = body[j]
    BY FrameShape
  <1> HIDE DEF d
  <1>2. SubSeq(d, 2, Len(d) - 2) = body
    BY <1>1
  <1> QED
    BY <1>2 DEF d

(* A frame passes the check of the receiver if what its sender summed has  *)
(* the checksum of the body.                                               *)
THEOREM FrameValid ==
    ASSUME NEW body \in Seq(Bytes), Len(body) >= 3, NEW summed,
           calculateChecksum(summed) = calculateChecksum(body)
    PROVE  validatePacket(Frame(body, summed))
  <1> DEFINE d == Frame(body, summed)
  <1>1. /\ Len(d) = Len(body) + 3 /\ d[1] = StartMsg /\ d[Len(d)] = EndMsg
        /\ d[Len(d) - 1] = calculateChecksum(body)
    BY FrameShape
  <1>2. SubSeq(d, 2, Len(d) - 2) = body
    BY FrameBody
  <1>3. Len(d) >= MinLength
    BY <1>1 DEF MinLength
  <1> HIDE DEF d
  <1>4. validatePacket(d)
    BY <1>1, <1>2, <1>3 DEF validatePacket
  <1> QED
    BY <1>4 DEF d

(* A frame of any length that passes the check passes it no more with any  *)
(* one bit turned over: delimiters and checksum leave no gap.              *)
THEOREM OneBitDetected ==
    ASSUME NEW d \in Seq(Bytes), validatePacket(d), NEW seen \in Flips(d)
    PROVE  ~validatePacket(seen)
  <1> DEFINE len == Len(d)
  <1>1. PICK i \in 1 .. len, b \in Bits : seen = [d EXCEPT ![i] = Flipped(@, b)]
    BY DEF Flips
  <1>2. d[i] \in Bytes /\ Flipped(d[i], b) \in Bytes /\ Flipped(d[i], b) # d[i]
    BY FlippedByte
  <1>3. /\ seen \in Seq(Bytes) /\ Len(seen) = len /\ seen[i] = Flipped(d[i], b)
        /\ \A j \in 1 .. len : j # i => seen[j] = d[j]
    BY <1>1, <1>2
  <1>4. /\ len \in Nat /\ len >= 6 /\ d[1] = StartMsg /\ d[len] = EndMsg
        /\ d[len - 1] = calculateChecksum(SubSeq(d, 2, len - 2))
    BY DEF validatePacket, MinLength
  <1> HIDE DEF len
  <1>5. SUFFICES ASSUME seen[1] = StartMsg, seen[len] = EndMsg,
                        seen[len - 1] = calculateChecksum(SubSeq(seen, 2, len - 2))
                 PROVE  FALSE
    BY <1>3 DEF validatePacket
  <1>6. i \in 2 .. len - 1
    BY <1>2, <1>3, <1>4, <1>5
  <1> DEFINE body == SubSeq(d, 2, len - 2)
             seenBody == SubSeq(seen, 2, len - 2)
  <1>7. /\ body \in Seq(Bytes) /\ Len(body) = len - 3
        /\ \A j \in 1 .. len - 3 : body[j] = d[j + 1]
    BY <1>4 DEF len
  <1>8. /\ seenBody \in Seq(Bytes) /\ Len(seenBody) = len - 3
        /\ \A j \in 1 .. len - 3 : seenBody[j] = seen[j + 1]
    BY <1>3, <1>4
  <1> HIDE DEF body, seenBody
  <1>9. CASE i = len - 1
    <2>1. \A j \in 1 .. len - 3 : seenBody[j] = body[j]
      <3>1. \A j \in 1 .. len - 3 : j + 1 \in 1 .. len /\ j + 1 # i
        BY <1>4, <1>9
      <3> QED
        BY <1>3, <1>7, <1>8, <3>1
    <2>2. seenBody = body
      BY <1>7, <1>8, <2>1
    <2> QED
      BY <1>2, <1>3, <1>4, <1>5, <1>9, <2>2 DEF body, seenBody
  <1>10. CASE i \in 2 .. len - 2
    <2>1. i - 1 \in 1 .. len - 3 /\ len - 1 \in 1 .. len /\ len - 1 # i
      BY <1>4, <1>10
    <2>2. seenBody[i - 1] = Flipped(body[i - 1], b)
      BY <1>3, <1>4, <1>7, <1>8, <2>1
    <2>3. \A j \in 1 .. len - 3 : j # i - 1 => seenBody[j] = body[j]
      <3>1. \A j \in 1 .. len - 3 : j # i - 1 => j + 1 \in 1 .. len /\ j + 1 # i
        BY <1>4, <1>10
      <3> QED
        BY <1>3, <1>7, <1>8, <3>1
    <2>4. calculateChecksum(seenBody) # calculateChecksum(body)
      BY <1>7, <1>8, <2>1, <2>2, <2>3, ChecksumChanges
    <2>5. seen[len - 1] = d[len - 1]
      BY <1>3, <2>1
    <2> QED
      BY <1>4, <1>5, <2>4, <2>5 DEF body, seenBody
  <1> QED
    BY <1>4, <1>6, <1>9, <1>10
=============================================================================
