---------------------------- MODULE GuiLinkProofs ----------------------------
(***************************************************************************)
(* The link implements RemoteCommand, for any requests that fit the        *)
(* vehicle's buffer or are invalid when cut to it (CutsAreRejected): what  *)
(* the network damages is not handled, and what the operator is told comes *)
(* from a handling of this request.                                        *)
(***************************************************************************)
EXTENDS GuiLink, FramesProofs

(* A frame of the vehicle is one of its own accord or the answer to a      *)
(* request that has been handled.                                          *)
IsAnswer(d, h) ==
    /\ \E t \in 1 .. MaxRequests : h.time = Time(t)
    /\ h.answer \in Codes
    /\ d = Acknowledgement(endianConverter(h.time), h.answer)

Genuine(d) ==
    \/ d \in {MotorFrame(VehicleTime), StatusFrame(VehicleTime)}
    \/ \E h \in handled : IsAnswer(d, h)

FramesInv ==
    /\ \A d \in toGcs : Genuine(d)
    /\ turn = "ack" => \E h \in handled : IsAnswer(reply, h)

(* The GCS has no answer to the request it waits for, nor to a later one.  *)
WaitInv ==
    /\ waiting => told[Len(asked)] = Untold
    /\ \A t \in 1 .. MaxRequests : t > Len(asked) => told[t] = Untold

Inv == TypeOK /\ FramesInv /\ WaitInv

-----------------------------------------------------------------------------
(* The identifiers and codes are different bytes.                          *)
LEMMA DifferentBytes ==
    /\ ack_motor # ack_std /\ vu_status_pck # ack_std
    /\ NOT_RECOGNIZED # NO_RESPONSE /\ REFUSED # NO_RESPONSE /\ EXECUTED # NO_RESPONSE
  <1>1. 1 \in Byte(159) /\ 1 \in Byte(151) /\ 1 \notin Byte(157)
    BY DEF Byte, Bits
  <1>2. 0 \in Byte(255) /\ 1 \notin Byte(0) /\ 0 \in Byte(1) /\ 0 \notin Byte(2) /\ 1 \in Byte(2)
    BY DEF Byte, Bits
  <1>3. ack_motor # ack_std /\ vu_status_pck # ack_std
    BY <1>1 DEF ack_motor, ack_std, vu_status_pck
  <1>4. NOT_RECOGNIZED # NO_RESPONSE /\ REFUSED # NO_RESPONSE /\ EXECUTED # NO_RESPONSE
    BY <1>2 DEF NOT_RECOGNIZED, REFUSED, EXECUTED, NO_RESPONSE
  <1> QED
    BY <1>3, <1>4

LEMMA IdBytes ==
    ack_std \in Bytes /\ ack_motor \in Bytes /\ vu_status_pck \in Bytes
  BY ByteType DEF ack_std, ack_motor, vu_status_pck

LEMMA TwoByteTime ==
    ASSUME NEW high \in Bytes, NEW low \in Bytes
    PROVE  <<high, low>> \in Seq(Bytes) /\ Len(<<high, low>>) = 2
  OBVIOUS

LEMMA TimeShape ==
    ASSUME NEW t
    PROVE  /\ Time(t) \in Seq(Bytes) /\ Len(Time(t)) = 2
           /\ endianConverter(Time(t)) \in Seq(Bytes) /\ Len(endianConverter(Time(t))) = 2
           /\ endianConverter(endianConverter(Time(t))) = Time(t)
  <1> DEFINE high == Byte(t \div 256)
             low == Byte(t % 256)
  <1>1. high \in Bytes /\ low \in Bytes
    BY ByteType
  <1>2. Time(t) = <<high, low>>
    BY DEF Time
  <1> HIDE DEF high, low
  <1>3. endianConverter(<<high, low>>) = <<low, high>> /\ endianConverter(<<low, high>>) = <<high, low>>
    BY TwoBytes
  <1>4. endianConverter(Time(t)) = <<low, high>> /\ endianConverter(endianConverter(Time(t))) = <<high, low>>
    BY <1>2, <1>3
  <1>5. Time(t) \in Seq(Bytes) /\ Len(Time(t)) = 2
    BY <1>1, <1>2, TwoByteTime
  <1>6. endianConverter(Time(t)) \in Seq(Bytes) /\ Len(endianConverter(Time(t))) = 2
    BY <1>1, <1>4, TwoByteTime
  <1> QED
    BY <1>2, <1>4, <1>5, <1>6

LEMMA VehicleTimeShape ==
    endianConverter(VehicleTime) \in Seq(Bytes) /\ Len(endianConverter(VehicleTime)) = 2
  <1> DEFINE ff == Byte(255)
  <1>1. ff \in Bytes
    BY ByteType
  <1>2. VehicleTime = <<ff, ff>>
    BY DEF VehicleTime
  <1> HIDE DEF ff
  <1>3. endianConverter(VehicleTime) = <<ff, ff>>
    BY <1>2, TwoBytes
  <1> QED
    BY <1>1, <1>3, TwoByteTime

-----------------------------------------------------------------------------
(* Where a body of an identifier, a time and the rest has what.            *)
Body(id, time, data) == <<id>> \o time \o data

LEMMA Joined ==
    ASSUME NEW s \in Seq(Bytes), NEW u \in Seq(Bytes)
    PROVE  /\ s \o u \in Seq(Bytes) /\ Len(s \o u) = Len(s) + Len(u)
           /\ \A i \in 1 .. Len(s) : (s \o u)[i] = s[i]
           /\ \A i \in 1 .. Len(u) : (s \o u)[i + Len(s)] = u[i]
  <1>1. s \o u \in Seq(Bytes) /\ Len(s \o u) = Len(s) + Len(u)
    OBVIOUS
  <1>2. \A i \in 1 .. Len(s) : (s \o u)[i] = s[i]
    OBVIOUS
  <1>3. \A i \in 1 .. Len(u) : (s \o u)[i + Len(s)] = u[i]
    OBVIOUS
  <1> QED
    BY <1>1, <1>2, <1>3

LEMMA SameSequence ==
    ASSUME NEW s \in Seq(Bytes), NEW u \in Seq(Bytes), Len(s) = Len(u),
           \A j \in 1 .. Len(u) : s[j] = u[j]
    PROVE  s = u
  OBVIOUS

LEMMA BodyShape ==
    ASSUME NEW id \in Bytes, NEW time \in Seq(Bytes), Len(time) = 2,
           NEW data \in Seq(Bytes)
    PROVE  LET body == Body(id, time, data) IN
           /\ body \in Seq(Bytes) /\ Len(body) = Len(data) + 3 /\ body[1] = id
           /\ body[2] = time[1] /\ body[3] = time[2]
           /\ \A j \in 1 .. Len(data) : body[j + 3] = data[j]
  <1> DEFINE body == Body(id, time, data)
             one == <<id>>
             front == one \o time
  <1>1. one \in Seq(Bytes) /\ Len(one) = 1 /\ one[1] = id
    OBVIOUS
  <1>2. body = front \o data
    BY DEF Body
  <1>3. front = one \o time
    OBVIOUS
  <1> HIDE DEF one, front, body
  <1>4. /\ front \in Seq(Bytes) /\ Len(front) = Len(one) + Len(time)
        /\ \A i \in 1 .. Len(one) : front[i] = one[i]
        /\ \A i \in 1 .. Len(time) : front[i + Len(one)] = time[i]
    BY <1>1, <1>3, Joined
  <1>5. Len(front) = 3 /\ front[1] = id /\ front[1 + 1] = time[1] /\ front[2 + 1] = time[2]
    BY <1>1, <1>4
  <1>6. /\ body \in Seq(Bytes) /\ Len(body) = Len(front) + Len(data)
        /\ \A i \in 1 .. Len(front) : body[i] = front[i]
        /\ \A i \in 1 .. Len(data) : body[i + Len(front)] = data[i]
    BY <1>2, <1>4, Joined
  <1>7. Len(data) \in Nat
    OBVIOUS
  <1>8. Len(body) = Len(data) + 3 /\ body[1] = front[1] /\ body[2] = front[2] /\ body[3] = front[3]
    BY <1>5, <1>6, <1>7
  <1>9. \A j \in 1 .. Len(data) : body[j + 3] = data[j]
    BY <1>5, <1>6
  <1> QED
    BY <1>5, <1>6, <1>8, <1>9 DEF body

(* What a frame says is what its sender wrote: the identifier, the two     *)
(* bytes of the time and the rest.                                         *)
LEMMA FrameParts ==
    ASSUME NEW body \in Seq(Bytes), Len(body) >= 3, NEW summed
    PROVE  LET d == Frame(body, summed) IN
           /\ d \in Seq(Bytes) /\ d # Nothing
           /\ packetId(d) = body[1]
           /\ timestamp(d) \in Seq(Bytes) /\ Len(timestamp(d)) = 2
           /\ timestamp(d)[1] = body[2] /\ timestamp(d)[2] = body[3]
           /\ payload(d) \in Seq(Bytes) /\ Len(payload(d)) = Len(body) - 3
           /\ \A j \in 1 .. Len(body) - 3 : payload(d)[j] = body[j + 3]
  <1> DEFINE d == Frame(body, summed)
             len == Len(body)
  <1>1. d \in Seq(Bytes) /\ Len(d) = len + 3 /\ \A j \in 1 .. len : d[j + 1] = body[j]
    BY FrameShape
  <1>2. len \in Nat /\ len >= 3
    OBVIOUS
  <1> HIDE DEF d, len
  <1>3. packetId(d) = body[1]
    <2>1. d[1 + 1] = body[1]
      BY <1>1, <1>2
    <2> QED
      BY <2>1 DEF packetId
  <1>4. /\ timestamp(d) \in Seq(Bytes) /\ Len(timestamp(d)) = 2
        /\ timestamp(d)[1] = body[2] /\ timestamp(d)[2] = body[3]
    <2>1. d[2 + 1] = body[2] /\ d[3 + 1] = body[3]
      BY <1>1, <1>2
    <2>2. SubSeq(d, 3, 4) \in Seq(Bytes) /\ Len(SubSeq(d, 3, 4)) = 2
          /\ SubSeq(d, 3, 4)[1] = d[3] /\ SubSeq(d, 3, 4)[2] = d[4]
      BY <1>1, <1>2
    <2> QED
      BY <2>1, <2>2 DEF timestamp
  <1>5. /\ payload(d) \in Seq(Bytes) /\ Len(payload(d)) = len - 3
        /\ \A j \in 1 .. len - 3 : payload(d)[j] = body[j + 3]
    <2>1. \A j \in 1 .. len - 3 : j + 3 \in 1 .. len /\ j + 4 = (j + 3) + 1
      BY <1>2
    <2>2. \A j \in 1 .. len - 3 : d[j + 4] = body[j + 3]
      BY <1>1, <2>1
    <2>3. /\ SubSeq(d, 5, len + 1) \in Seq(Bytes) /\ Len(SubSeq(d, 5, len + 1)) = len - 3
          /\ \A j \in 1 .. len - 3 : SubSeq(d, 5, len + 1)[j] = d[j + 4]
      BY <1>1, <1>2
    <2>4. payload(d) = SubSeq(d, 5, len + 1)
      BY <1>1, <1>2 DEF payload
    <2> QED
      BY <2>2, <2>3, <2>4
  <1>6. d # Nothing
    BY <1>1, <1>2 DEF Nothing
  <1> QED
    BY <1>1, <1>3, <1>4, <1>5, <1>6 DEF d, len

LEMMA FrameSays ==
    ASSUME NEW id \in Bytes, NEW time \in Seq(Bytes), Len(time) = 2,
           NEW data \in Seq(Bytes), NEW summed,
           calculateChecksum(summed) = calculateChecksum(Body(id, time, data))
    PROVE  LET d == Frame(Body(id, time, data), summed) IN
           /\ d \in Seq(Bytes) /\ validatePacket(d) /\ d # Nothing
           /\ packetId(d) = id /\ timestamp(d) = time /\ payload(d) = data
  <1> DEFINE body == Body(id, time, data)
             d == Frame(body, summed)
  <1>1. /\ body \in Seq(Bytes) /\ Len(body) = Len(data) + 3 /\ body[1] = id
        /\ body[2] = time[1] /\ body[3] = time[2]
        /\ \A j \in 1 .. Len(data) : body[j + 3] = data[j]
    BY BodyShape
  <1>2. calculateChecksum(summed) = calculateChecksum(body)
    OBVIOUS
  <1>3. d = Frame(body, summed)
    OBVIOUS
  <1> HIDE DEF body, d
  <1>4. Len(data) \in Nat /\ Len(body) >= 3 /\ Len(body) - 3 = Len(data)
    BY <1>1
  <1>5. validatePacket(d)
    BY <1>1, <1>2, <1>3, <1>4, FrameValid
  <1>6. /\ d \in Seq(Bytes) /\ d # Nothing
        /\ packetId(d) = body[1]
        /\ timestamp(d) \in Seq(Bytes) /\ Len(timestamp(d)) = 2
        /\ timestamp(d)[1] = body[2] /\ timestamp(d)[2] = body[3]
        /\ payload(d) \in Seq(Bytes) /\ Len(payload(d)) = Len(body) - 3
        /\ \A j \in 1 .. Len(body) - 3 : payload(d)[j] = body[j + 3]
    BY <1>1, <1>3, <1>4, FrameParts
  <1>7. timestamp(d) = time
    <2>1. \A j \in 1 .. 2 : timestamp(d)[j] = time[j]
      BY <1>1, <1>6
    <2> QED
      BY <1>6, <2>1, SameSequence
  <1>8. payload(d) = data
    <2>1. \A j \in 1 .. Len(data) : payload(d)[j] = data[j]
      BY <1>1, <1>4, <1>6
    <2>2. Len(payload(d)) = Len(data)
      BY <1>4, <1>6
    <2> QED
      BY <1>6, <2>1, <2>2, SameSequence
  <1> QED
    BY <1>1, <1>5, <1>6, <1>7, <1>8 DEF body, d

LEMMA RequestSays ==
    ASSUME NEW r \in Requests, NEW t, NEW d, d = Request(r, t)
    PROVE  /\ d \in Seq(Bytes) /\ validatePacket(d)
           /\ packetId(d) = r.id /\ timestamp(d) = Time(t) /\ payload(d) = r.data
  <1> DEFINE body == Body(r.id, Time(t), r.data)
  <1>1. r.id \in Bytes /\ r.data \in Seq(Bytes)
    BY RequestsAssumption
  <1>2. d = Frame(body, body)
    BY DEF Request, Body
  <1>3. Time(t) \in Seq(Bytes) /\ Len(Time(t)) = 2
    BY TimeShape
  <1>4. body = Body(r.id, Time(t), r.data)
    OBVIOUS
  <1> HIDE DEF body
  <1> QED
    BY <1>1, <1>2, <1>3, <1>4, FrameSays

LEMMA AcknowledgementSays ==
    ASSUME NEW t, NEW code \in Bytes,
           NEW d, d = Acknowledgement(endianConverter(Time(t)), code)
    PROVE  /\ validatePacket(d) /\ d # Nothing /\ packetId(d) = ack_std
           /\ timestamp(d) = Time(t) /\ payload(d)[1] = code
  <1> DEFINE rest == <<code>>
             body == Body(ack_std, Time(t), rest)
             summed == Append(body, Zero)
  <1>1. Time(t) \in Seq(Bytes) /\ Len(Time(t)) = 2 /\ endianConverter(endianConverter(Time(t))) = Time(t)
    BY TimeShape
  <1>2. rest \in Seq(Bytes) /\ rest[1] = code
    OBVIOUS
  <1>3. body \in Seq(Bytes)
    BY <1>1, <1>2, IdBytes, BodyShape
  <1>4. d = Frame(body, summed)
    BY <1>1 DEF Body, Acknowledgement
  <1>5. body = Body(ack_std, Time(t), rest)
    OBVIOUS
  <1>6. calculateChecksum(summed) = calculateChecksum(body)
    BY <1>3, ZeroAddsNothing
  <1> HIDE DEF rest, body, summed
  <1>7. /\ validatePacket(d) /\ d # Nothing /\ packetId(d) = ack_std
        /\ timestamp(d) = Time(t) /\ payload(d) = rest
    BY <1>1, <1>2, <1>4, <1>5, <1>6, IdBytes, FrameSays
  <1> QED
    BY <1>2, <1>7

LEMMA OwnFramesSay ==
    /\ validatePacket(MotorFrame(VehicleTime)) /\ packetId(MotorFrame(VehicleTime)) = ack_motor
    /\ validatePacket(StatusFrame(VehicleTime)) /\ packetId(StatusFrame(VehicleTime)) = vu_status_pck
  <1> DEFINE time == endianConverter(VehicleTime)
  <1>1. time \in Seq(Bytes) /\ Len(time) = 2
    BY VehicleTimeShape
  <1>2. \A id \in Bytes : /\ <<id>> \o time \in Seq(Bytes)
                          /\ <<id>> \o time \o <<>> = <<id>> \o time
    BY <1>1
  <1>3. Nothing \in Seq(Bytes)
    BY DEF Nothing
  <1>4. validatePacket(MotorFrame(VehicleTime)) /\ packetId(MotorFrame(VehicleTime)) = ack_motor
    <2> DEFINE body == <<ack_motor>> \o time
               summed == Append(body, Zero)
               d == MotorFrame(VehicleTime)
    <2>1. d = Frame(body, summed)
      BY DEF MotorFrame
    <2>2. body = Body(ack_motor, time, Nothing) /\ body \in Seq(Bytes)
      BY <1>2, IdBytes DEF Body, Nothing
    <2>3. calculateChecksum(summed) = calculateChecksum(body)
      BY <2>2, ZeroAddsNothing
    <2> HIDE DEF body, summed, time, d
    <2>4. validatePacket(d) /\ packetId(d) = ack_motor
      BY <1>1, <1>3, <2>1, <2>2, <2>3, IdBytes, FrameSays
    <2> QED
      BY <2>4 DEF d
  <1>5. validatePacket(StatusFrame(VehicleTime)) /\ packetId(StatusFrame(VehicleTime)) = vu_status_pck
    <2> DEFINE body == <<vu_status_pck>> \o time
               d == StatusFrame(VehicleTime)
    <2>1. d = Frame(body, body)
      BY DEF StatusFrame
    <2>2. body = Body(vu_status_pck, time, Nothing) /\ body \in Seq(Bytes)
      BY <1>2, IdBytes DEF Body, Nothing
    <2> HIDE DEF body, time, d
    <2>4. validatePacket(d) /\ packetId(d) = vu_status_pck
      BY <1>1, <1>3, <2>1, <2>2, IdBytes, FrameSays
    <2> QED
      BY <2>4 DEF d
  <1> QED
    BY <1>4, <1>5

-----------------------------------------------------------------------------
(* Of the ways in which a request may arrive, only the one that was sent   *)
(* may be accepted.                                                        *)
LEMMA AcceptedIsSent ==
    ASSUME NEW t \in 1 .. MaxRequests, NEW r \in Requests
    PROVE  Accepted[Datagram[t][r]] \subseteq {Datagram[t][r]}
  <1> DEFINE d == Datagram[t][r]
  <1>1. d = Request(r, t)
    BY DEF Datagram
  <1>2. d \in {Datagram[u][q] : u \in 1 .. MaxRequests, q \in Requests}
    OBVIOUS
  <1> HIDE DEF d
  <1>3. d \in Seq(Bytes) /\ validatePacket(d)
    BY <1>1, RequestSays
  <1>4. \A seen \in Flips(d) : ~validatePacket(seen)
    BY <1>3, OneBitDetected
  <1>5. CASE Fits(d)
    <2>1. Accepted[d] = {seen \in {d} \cup Flips(d) : validatePacket(seen)}
      BY <1>2, <1>5 DEF Accepted, Arrivals, Received
    <2> QED
      BY <1>4, <2>1 DEF d
  <1>6. CASE ~Fits(d)
    BY <1>6, CutsAreRejected DEF d
  <1> QED
    BY <1>5, <1>6

(* The codes that are sent, and the answers that a handling may give.      *)
LEMMA CodeBytes ==
    /\ \A ret \in Codes : ret \in Bytes /\ ret # NO_RESPONSE
    /\ \A r : \A ret \in Outcomes(r) : NeedsAnswer(ret) => ret \in Codes
  <1>1. NOT_RECOGNIZED \in Bytes /\ REFUSED \in Bytes /\ EXECUTED \in Bytes
    BY ByteType DEF NOT_RECOGNIZED, REFUSED, EXECUTED
  <1>2. \A ret \in Codes : ret \in Bytes /\ ret # NO_RESPONSE
    BY <1>1, DifferentBytes DEF Codes
  <1>3. \A r : \A ret \in Outcomes(r) : NeedsAnswer(ret) => ret \in Codes
    BY DEF Outcomes, NeedsAnswer, Codes
  <1> QED
    BY <1>2, <1>3

(* What handling the t-th request does: it answers this request.           *)
LEMMA ProcessAnswers ==
    ASSUME NEW t \in 1 .. MaxRequests, NEW r \in Requests,
           Datagram[t][r] \in Accepted[Datagram[t][r]],
           NEW h \in processPacket[Datagram[t][r]]
    PROVE  \E ret \in Outcomes(r) :
             /\ h.entry = [time |-> Time(t), request |-> r, answer |-> ret]
             /\ h.ack = Acknowledgement(endianConverter(Time(t)), ret)
             /\ h.sent \subseteq {MotorFrame(VehicleTime)}
  <1> DEFINE d == Datagram[t][r]
  <1>1. d = Request(r, t)
    BY DEF Datagram
  <1>2. d \in UNION {Accepted[e] : e \in DOMAIN Accepted}
    <2>1. d \in DOMAIN Accepted
      BY DEF Accepted
    <2>2. d \in Accepted[d]
      OBVIOUS
    <2> HIDE DEF d
    <2> QED
      BY <2>1, <2>2
  <1>3. h \in processPacket[d]
    OBVIOUS
  <1> HIDE DEF d
  <1>4. packetId(d) = r.id /\ timestamp(d) = Time(t) /\ payload(d) = r.data
    BY <1>1, RequestSays
  <1>5. r = [id |-> r.id, data |-> r.data]
    BY RequestsAssumption
  <1> DEFINE q == [id |-> packetId(d), data |-> payload(d)]
             Does(ret) == [entry |-> [time |-> timestamp(d), request |-> q, answer |-> ret],
                           sent |-> IF q.id = motor_state THEN {MotorFrame(VehicleTime)} ELSE {},
                           ack |-> Acknowledgement(endianConverter(timestamp(d)), ret)]
  <1>6. processPacket[d] = {Does(ret) : ret \in Outcomes(q)}
    BY <1>2 DEF processPacket
  <1>7. q = r
    BY <1>4, <1>5
  <1>8. \A ret : /\ Does(ret).entry = [time |-> Time(t), request |-> r, answer |-> ret]
                 /\ Does(ret).ack = Acknowledgement(endianConverter(Time(t)), ret)
                 /\ Does(ret).sent \subseteq {MotorFrame(VehicleTime)}
    BY <1>4, <1>7
  <1>9. PICK ret \in Outcomes(q) : h = Does(ret)
    BY <1>3, <1>6
  <1> HIDE DEF Does, q
  <1> QED
    BY <1>7, <1>8, <1>9

(* What is on its way to the vehicle is a request that was made.           *)
LEMMA Arrives ==
    ASSUME TypeOK, NEW d \in toVehicle
    PROVE  \E t \in DOMAIN asked :
             /\ t \in 1 .. MaxRequests /\ asked[t] \in Requests /\ d = Datagram[t][asked[t]]
  <1>1. PICK t \in DOMAIN asked : d = Datagram[t][asked[t]]
    BY DEF TypeOK
  <1>2. t \in 1 .. MaxRequests /\ asked[t] \in Requests
    <2>1. asked \in Seq(Requests) /\ Len(asked) <= MaxRequests /\ MaxRequests \in Nat
      BY RequestsAssumption DEF TypeOK
    <2> QED
      BY <2>1
  <1> QED
    BY <1>1, <1>2

(* What answers the request the GCS waits for is the acknowledgement of a  *)
(* handling of it: a frame that the vehicle sends of its own accord has    *)
(* another identifier.                                                     *)
LEMMA AnswerOfHandling ==
    ASSUME Inv, NEW d \in toGcs, AnswersLast(d)
    PROVE  \E h \in handled : /\ h.time = Time(Len(asked)) /\ h.answer \in Codes
                              /\ payload(d)[1] = h.answer
  <1>1. packetId(d) = ack_std /\ timestamp(d) = Time(Len(asked))
    BY DEF AnswersLast
  <1>2. Genuine(d)
    BY DEF Inv, FramesInv
  <1>3. d # MotorFrame(VehicleTime) /\ d # StatusFrame(VehicleTime)
    BY <1>1, OwnFramesSay, DifferentBytes
  <1>4. PICK h \in handled : IsAnswer(d, h)
    BY <1>2, <1>3 DEF Genuine
  <1>5. PICK t \in 1 .. MaxRequests : h.time = Time(t)
    BY <1>4 DEF IsAnswer
  <1>6. h.answer \in Codes /\ h.answer \in Bytes /\ d = Acknowledgement(endianConverter(Time(t)), h.answer)
    BY <1>4, <1>5, CodeBytes DEF IsAnswer
  <1>7. timestamp(d) = Time(t) /\ payload(d)[1] = h.answer
    BY <1>6, AcknowledgementSays
  <1> QED
    BY <1>1, <1>5, <1>6, <1>7

(* What the vehicle has sent stays an answer as more is handled.           *)
LEMMA GenuineStays ==
    ASSUME handled \subseteq handled', NEW d, Genuine(d)
    PROVE  Genuine(d)'
  BY DEF Genuine, IsAnswer

-----------------------------------------------------------------------------
(* The steps.                                                              *)
LEMMA InitInv == Init => Inv
  <1> SUFFICES ASSUME Init PROVE Inv
    OBVIOUS
  <1> USE DEF Init
  <1>1. TypeOK
    <2>1. asked \in Seq(Requests) /\ Len(asked) = 0 /\ DOMAIN asked = {}
      OBVIOUS
    <2>2. told \in [1 .. MaxRequests -> Codes \cup {Untold}]
      OBVIOUS
    <2>3. waiting \in BOOLEAN /\ ~waiting /\ turn = "recv" /\ turn # "ack" /\ toVehicle = {} /\ reply = Nothing
      BY DEF Nothing
    <2> QED
      BY <2>1, <2>2, <2>3, RequestsAssumption DEF TypeOK
  <1>2. FramesInv
    BY DEF FramesInv
  <1>3. WaitInv
    BY DEF WaitInv
  <1> QED
    BY <1>1, <1>2, <1>3 DEF Inv

(* The requests made so far are numbered as the GCS numbers them.          *)
LEMMA Numbered ==
    ASSUME TypeOK
    PROVE  /\ MaxRequests \in Nat /\ Len(asked) \in Nat /\ Len(asked) <= MaxRequests
           /\ DOMAIN asked = 1 .. Len(asked) /\ DOMAIN asked \subseteq 1 .. MaxRequests
           /\ waiting => Len(asked) \in 1 .. MaxRequests /\ Len(asked) \in DOMAIN asked
  <1>1. asked \in Seq(Requests) /\ Len(asked) <= MaxRequests /\ MaxRequests \in Nat
    BY RequestsAssumption DEF TypeOK
  <1>2. waiting => asked # <<>>
    BY DEF TypeOK
  <1> QED
    BY <1>1, <1>2

LEMMA AskInv == Inv /\ Ask => Inv'
  <1> SUFFICES ASSUME Inv, Ask PROVE Inv'
    OBVIOUS
  <1> DEFINE len == Len(asked)
  <1>1. TypeOK /\ FramesInv /\ WaitInv
    BY DEF Inv
  <1>2. PICK r \in Requests :
          /\ asked' = Append(asked, r)
          /\ toVehicle' \in {toVehicle, toVehicle \cup {Datagram[len + 1][r]}}
    BY DEF Ask
  <1>3. asked \in Seq(Requests) /\ len \in Nat /\ len < MaxRequests /\ MaxRequests \in Nat
    BY <1>1, Numbered DEF TypeOK, Ask
  <1>4. /\ asked' \in Seq(Requests) /\ Len(asked') = len + 1
        /\ asked'[len + 1] = r /\ \A t \in DOMAIN asked : t \in DOMAIN asked' /\ asked'[t] = asked[t]
        /\ len + 1 \in DOMAIN asked'
    BY <1>2, <1>3
  <1>5. asked' # <<>>
    BY <1>4, <1>3
  <1>6. toVehicle' \subseteq {Datagram[t][asked'[t]] : t \in DOMAIN asked'}
    <2>1. toVehicle \subseteq {Datagram[t][asked[t]] : t \in DOMAIN asked}
      BY <1>1 DEF TypeOK
    <2> QED
      BY <1>2, <1>4, <2>1
  <1>7. waiting' \in BOOLEAN
    BY DEF Ask, Answered
  <1>8. UNCHANGED <<told, toGcs, turn, reply, handled>>
    BY DEF Ask, vehicleVars
  <1>9. TypeOK'
    BY <1>1, <1>3, <1>4, <1>5, <1>6, <1>7, <1>8 DEF TypeOK, Codes
  <1>10. FramesInv'
    BY <1>1, <1>8 DEF FramesInv, Genuine, IsAnswer
  <1>11. WaitInv'
    <2>1. \A t \in 1 .. MaxRequests : t >= len + 1 => told[t] = Untold
      BY <1>1, <1>3 DEF WaitInv
    <2> HIDE DEF len
    <2>2. len + 1 \in 1 .. MaxRequests
      BY <1>3
    <2>3. \A t \in 1 .. MaxRequests : t > len + 1 => t >= len + 1
      BY <1>3
    <2> QED
      BY <1>3, <1>4, <1>8, <2>1, <2>2, <2>3 DEF WaitInv, Untold
  <1> QED
    BY <1>9, <1>10, <1>11 DEF Inv

LEMMA GcsInv == Inv /\ (Repeat \/ GiveUp \/ Ignore) => Inv'
  <1> SUFFICES ASSUME Inv, Repeat \/ GiveUp \/ Ignore PROVE Inv'
    OBVIOUS
  <1>1. TypeOK /\ FramesInv /\ WaitInv
    BY DEF Inv
  <1>2. UNCHANGED <<asked, told, turn, reply, handled>>
    BY DEF Repeat, GiveUp, Ignore, gcsVars, vehicleVars
  <1>3. toVehicle' \subseteq {Datagram[t][asked[t]] : t \in DOMAIN asked}
    <2>1. toVehicle \subseteq {Datagram[t][asked[t]] : t \in DOMAIN asked}
      BY <1>1 DEF TypeOK
    <2>2. CASE Repeat
      BY <1>1, <2>1, <2>2, Numbered DEF Repeat, LastRequest
    <2>3. CASE GiveUp \/ Ignore
      BY <2>1, <2>3 DEF GiveUp, Ignore
    <2> QED
      BY <2>2, <2>3
  <1>4. waiting' \in BOOLEAN /\ (waiting' => waiting)
    <2>1. waiting \in BOOLEAN
      BY <1>1 DEF TypeOK
    <2>2. CASE Repeat \/ Ignore
      BY <2>1, <2>2 DEF Repeat, Ignore, gcsVars
    <2>3. CASE GiveUp
      BY <2>3 DEF GiveUp
    <2> QED
      BY <2>2, <2>3
  <1>5. toGcs' \subseteq toGcs
    BY DEF Repeat, GiveUp, Ignore, gcsVars
  <1>6. TypeOK'
    BY <1>1, <1>2, <1>3, <1>4 DEF TypeOK, Codes
  <1>7. FramesInv'
    BY <1>1, <1>2, <1>5 DEF FramesInv, Genuine, IsAnswer
  <1>8. WaitInv'
    BY <1>1, <1>2, <1>4 DEF WaitInv, Untold
  <1> QED
    BY <1>6, <1>7, <1>8 DEF Inv

LEMMA LearnInv == Inv /\ Learn => Inv'
  <1> SUFFICES ASSUME Inv, Learn PROVE Inv'
    OBVIOUS
  <1>1. TypeOK /\ FramesInv /\ WaitInv
    BY DEF Inv
  <1>2. PICK d \in toGcs : AnswersLast(d) /\ told' = [told EXCEPT ![Len(asked)] = payload(d)[1]]
    BY DEF Learn
  <1>3. payload(d)[1] \in Codes
    BY <1>2, AnswerOfHandling
  <1>4. UNCHANGED <<asked, toVehicle, turn, reply, handled>> /\ toGcs' \subseteq toGcs /\ waiting' = FALSE
    BY DEF Learn, vehicleVars
  <1>5. Len(asked) \in 1 .. MaxRequests /\ Len(asked) \in Nat
    BY <1>1, <1>2, Numbered DEF AnswersLast
  <1>6. told' \in [1 .. MaxRequests -> Codes \cup {Untold}]
    BY <1>1, <1>2, <1>3 DEF TypeOK
  <1>7. TypeOK'
    <2>1. waiting' \in BOOLEAN /\ ~waiting'
      BY <1>4
    <2> QED
      BY <1>1, <1>4, <1>6, <2>1 DEF TypeOK, Codes, Untold
  <1>8. FramesInv'
    BY <1>1, <1>4 DEF FramesInv, Genuine, IsAnswer
  <1>9. \A t \in 1 .. MaxRequests : t > Len(asked) => told'[t] = told[t]
    BY <1>1, <1>2, <1>5 DEF TypeOK
  <1>10. WaitInv'
    BY <1>1, <1>4, <1>9 DEF WaitInv, Untold
  <1> QED
    BY <1>7, <1>8, <1>10 DEF Inv

LEMMA ProcessInv ==
    ASSUME Inv, NEW d \in toVehicle, NEW seen \in Accepted[d], Process(d, seen)
    PROVE  Inv'
  <1>1. TypeOK /\ FramesInv /\ WaitInv
    BY DEF Inv
  <1>2. PICK t \in DOMAIN asked :
          t \in 1 .. MaxRequests /\ asked[t] \in Requests /\ d = Datagram[t][asked[t]]
    BY <1>1, Arrives
  <1>3. seen = Datagram[t][asked[t]] /\ seen \in Accepted[Datagram[t][asked[t]]]
    <2>1. Accepted[d] \subseteq {d}
      BY <1>2, AcceptedIsSent
    <2> QED
      BY <1>2, <2>1
  <1>4. PICK h \in processPacket[seen] :
          /\ handled' = handled \cup {h.entry}
          /\ IF NeedsAnswer(h.entry.answer)
             THEN turn' = "ack" /\ reply' = h.ack
             ELSE turn' = "status" /\ UNCHANGED reply
          /\ toGcs' \in {toGcs, toGcs \cup h.sent}
    BY DEF Process
  <1>5. PICK ret \in Outcomes(asked[t]) :
          /\ h.entry = [time |-> Time(t), request |-> asked[t], answer |-> ret]
          /\ h.ack = Acknowledgement(endianConverter(Time(t)), ret)
          /\ h.sent \subseteq {MotorFrame(VehicleTime)}
    BY <1>2, <1>3, <1>4, ProcessAnswers
  <1>6. UNCHANGED <<asked, waiting, told>> /\ toVehicle' \subseteq toVehicle /\ turn = "recv"
    BY DEF Process, Taken, gcsVars
  <1>7. reply = Nothing
    BY <1>1, <1>6 DEF TypeOK
  <1>8. h.entry.time = Time(t) /\ h.entry.answer = ret /\ h.entry \in handled'
    BY <1>4, <1>5
  <1>9. handled \subseteq handled'
    BY <1>4
  <1>10. \A e \in toGcs : Genuine(e)'
    BY <1>1, <1>9, GenuineStays DEF FramesInv
  <1>11. \A e \in toGcs' : Genuine(e)'
    <2>1. Genuine(MotorFrame(VehicleTime))'
      BY DEF Genuine
    <2> QED
      BY <1>4, <1>5, <1>10, <2>1
  <1>12. WaitInv'
    BY <1>1, <1>6 DEF WaitInv, Untold
  <1>13. CASE NeedsAnswer(ret)
    <2>1. ret \in Codes /\ ret \in Bytes
      BY <1>13, CodeBytes
    <2>2. turn' = "ack" /\ reply' = Acknowledgement(endianConverter(Time(t)), ret)
      BY <1>4, <1>5, <1>8, <1>13
    <2>3. reply' # Nothing /\ packetId(reply') = ack_std /\ payload(reply')[1] = ret
      BY <2>1, <2>2, AcknowledgementSays
    <2>4. TypeOK'
      BY <1>1, <1>6, <2>1, <2>2, <2>3 DEF TypeOK, Codes, Nothing
    <2>5. FramesInv'
      BY <1>2, <1>8, <1>11, <2>1, <2>2 DEF FramesInv, IsAnswer
    <2> QED
      BY <1>12, <2>4, <2>5 DEF Inv
  <1>14. CASE ~NeedsAnswer(ret)
    <2>1. turn' = "status" /\ reply' = Nothing
      BY <1>4, <1>7, <1>8, <1>14
    <2>2. TypeOK'
      BY <1>1, <1>6, <2>1 DEF TypeOK, Codes, Nothing
    <2>3. FramesInv'
      BY <1>11, <2>1 DEF FramesInv
    <2> QED
      BY <1>12, <2>2, <2>3 DEF Inv
  <1> QED
    BY <1>13, <1>14

LEMMA NoRequestInv ==
    ASSUME Inv, ReceiveNothing \/ \E d \in toVehicle : Reject(d)
    PROVE  Inv'
  <1>1. TypeOK /\ FramesInv /\ WaitInv
    BY DEF Inv
  <1>2. /\ UNCHANGED <<asked, waiting, told, toGcs, reply, handled>>
        /\ toVehicle' \subseteq toVehicle /\ turn = "recv" /\ turn' = "status"
    BY DEF ReceiveNothing, Reject, Taken, gcsVars
  <1>3. TypeOK'
    BY <1>1, <1>2 DEF TypeOK, Codes, Nothing
  <1>4. FramesInv'
    BY <1>1, <1>2 DEF FramesInv, Genuine, IsAnswer
  <1>5. WaitInv'
    BY <1>1, <1>2 DEF WaitInv, Untold
  <1> QED
    BY <1>3, <1>4, <1>5 DEF Inv

LEMMA SendInv ==
    ASSUME Inv, AckArrives \/ AckLost \/ sendStatusPacket
    PROVE  Inv'
  <1>1. TypeOK /\ FramesInv /\ WaitInv
    BY DEF Inv
  <1>2. UNCHANGED <<asked, waiting, told, toVehicle, handled>> /\ turn' # "ack"
    BY DEF AckArrives, AckLost, sendAckPacket, sendStatusPacket, gcsVars
  <1>3. turn' \in {"recv", "status"} /\ reply' = Nothing
    <2>1. CASE AckArrives \/ AckLost
      BY <2>1 DEF AckArrives, AckLost, sendAckPacket
    <2>2. CASE sendStatusPacket
      BY <1>1, <2>2 DEF TypeOK, sendStatusPacket
    <2> QED
      BY <2>1, <2>2
  <1>4. \A d \in toGcs' : Genuine(d)
    <2>1. \A d \in toGcs : Genuine(d)
      BY <1>1 DEF FramesInv
    <2>2. CASE AckArrives
      <3>1. Genuine(reply)
        BY <1>1, <2>2 DEF FramesInv, Genuine, AckArrives, sendAckPacket
      <3> QED
        BY <2>1, <2>2, <3>1 DEF AckArrives, sendAckPacket
    <2>3. CASE AckLost
      BY <2>1, <2>3 DEF AckLost, sendAckPacket
    <2>4. CASE sendStatusPacket
      <3>1. Genuine(StatusFrame(VehicleTime))
        BY DEF Genuine
      <3> QED
        BY <2>1, <2>4, <3>1 DEF sendStatusPacket
    <2> QED
      BY <2>2, <2>3, <2>4
  <1>5. TypeOK'
    BY <1>1, <1>2, <1>3 DEF TypeOK, Codes, Nothing
  <1>6. FramesInv'
    BY <1>2, <1>4 DEF FramesInv, Genuine, IsAnswer
  <1>7. WaitInv'
    BY <1>1, <1>2 DEF WaitInv, Untold
  <1> QED
    BY <1>5, <1>6, <1>7 DEF Inv

LEMMA NextInv == Inv /\ [Next]_vars => Inv'
  <1> SUFFICES ASSUME Inv, [Next]_vars PROVE Inv'
    OBVIOUS
  <1>1. CASE Ask
    BY <1>1, AskInv
  <1>2. CASE Repeat \/ GiveUp \/ Ignore
    BY <1>2, GcsInv
  <1>3. CASE Learn
    BY <1>3, LearnInv
  <1>4. CASE Receive
    <2>1. CASE ReceiveNothing \/ \E d \in toVehicle : Reject(d)
      BY <2>1, NoRequestInv
    <2>2. CASE \E d \in toVehicle : \E seen \in Accepted[d] : Process(d, seen)
      BY <2>2, ProcessInv
    <2> QED
      BY <1>4, <2>1, <2>2 DEF Receive
  <1>5. CASE AckArrives \/ AckLost \/ sendStatusPacket
    BY <1>5, SendInv
  <1>6. CASE UNCHANGED vars
    BY <1>6 DEF vars, Inv, TypeOK, FramesInv, WaitInv, Genuine, IsAnswer, Codes, Untold, Nothing
  <1> QED
    BY <1>1, <1>2, <1>3, <1>4, <1>5, <1>6 DEF Next, task

-----------------------------------------------------------------------------
(* The results.                                                            *)

(* Every frame of the vehicle is one of its own, with the checksum that    *)
(* validatePacket computes.                                                *)
LEMMA InvOwnFrames == Inv => OwnFramesValid
  <1> SUFFICES ASSUME Inv, NEW d \in toGcs PROVE validatePacket(d)
    BY DEF OwnFramesValid
  <1>1. Genuine(d)
    BY DEF Inv, FramesInv
  <1>2. CASE d \in {MotorFrame(VehicleTime), StatusFrame(VehicleTime)}
    BY <1>2, OwnFramesSay
  <1>3. CASE \E h \in handled : IsAnswer(d, h)
    <2>1. PICK h \in handled, t \in 1 .. MaxRequests :
            h.time = Time(t) /\ h.answer \in Codes /\ d = Acknowledgement(endianConverter(h.time), h.answer)
      BY <1>3 DEF IsAnswer
    <2>2. h.answer \in Bytes /\ d = Acknowledgement(endianConverter(Time(t)), h.answer)
      BY <2>1, CodeBytes
    <2> QED
      BY <2>2, AcknowledgementSays
  <1> QED
    BY <1>1, <1>2, <1>3 DEF Genuine

LEMMA NumberedTimes ==
    /\ DOMAIN Times = 1 .. MaxRequests /\ Len(Times) = MaxRequests
    /\ \A t \in 1 .. MaxRequests : Times[t] = Time(t)
  BY RequestsAssumption DEF Times

(* Nothing has been asked, told or handled.                                *)
LEMMA InitCommand == Init => Command!Init
  BY NumberedTimes DEF Init, Command!Init

(* Each step of the link is one of RemoteCommand, or none that it sees.    *)
LEMMA AskCommand == Inv /\ Ask => Command!Ask
  <1> SUFFICES ASSUME Inv, Ask PROVE Command!Ask
    OBVIOUS
  <1>1. Len(asked) < Len(Times)
    BY NumberedTimes DEF Ask
  <1>2. \E r \in Requests : asked' = Append(asked, r)
    BY DEF Ask
  <1>3. UNCHANGED <<told, handled>>
    BY DEF Ask, vehicleVars
  <1> QED
    BY <1>1, <1>2, <1>3 DEF Command!Ask

LEMMA LearnCommand == Inv /\ Learn => Command!Learn
  <1> SUFFICES ASSUME Inv, Learn PROVE Command!Learn
    OBVIOUS
  <1> DEFINE t == Len(asked)
  <1>1. TypeOK /\ WaitInv
    BY DEF Inv
  <1>2. PICK d \in toGcs : AnswersLast(d) /\ told' = [told EXCEPT ![t] = payload(d)[1]]
    BY DEF Learn
  <1>3. PICK h \in handled : h.time = Time(t) /\ h.answer \in Codes /\ payload(d)[1] = h.answer
    BY <1>2, AnswerOfHandling
  <1>4. t \in DOMAIN asked /\ t \in 1 .. MaxRequests
    BY <1>1, <1>2, Numbered DEF AnswersLast
  <1>5. told[t] = Untold
    BY <1>1, <1>2 DEF WaitInv, AnswersLast
  <1>6. h.time = Times[t] /\ h.answer # NO_RESPONSE
    BY <1>3, <1>4, NumberedTimes, CodeBytes
  <1>7. UNCHANGED <<asked, handled>>
    BY DEF Learn, vehicleVars
  <1>8. told' = [told EXCEPT ![t] = h.answer]
    BY <1>2, <1>3
  <1> HIDE DEF t
  <1> QED
    BY <1>4, <1>5, <1>6, <1>7, <1>8 DEF Command!Learn

LEMMA ProcessCommand ==
    ASSUME Inv, NEW d \in toVehicle, NEW seen \in Accepted[d], Process(d, seen)
    PROVE  Command!Handle
  <1>1. TypeOK
    BY DEF Inv
  <1>2. PICK t \in DOMAIN asked :
          t \in 1 .. MaxRequests /\ asked[t] \in Requests /\ d = Datagram[t][asked[t]]
    BY <1>1, Arrives
  <1>3. seen = Datagram[t][asked[t]] /\ seen \in Accepted[Datagram[t][asked[t]]]
    <2>1. Accepted[d] \subseteq {d}
      BY <1>2, AcceptedIsSent
    <2> QED
      BY <1>2, <2>1
  <1>4. PICK h \in processPacket[seen] : handled' = handled \cup {h.entry}
    BY DEF Process
  <1>5. PICK ret \in Outcomes(asked[t]) :
          h.entry = [time |-> Time(t), request |-> asked[t], answer |-> ret]
    BY <1>2, <1>3, <1>4, ProcessAnswers
  <1>6. UNCHANGED <<asked, told>>
    BY DEF Process, gcsVars
  <1>7. handled' = handled \cup {[time |-> Times[t], request |-> asked[t], answer |-> ret]}
    BY <1>2, <1>4, <1>5, NumberedTimes
  <1> QED
    BY <1>2, <1>6, <1>7 DEF Command!Handle

LEMMA NextCommand == Inv /\ [Next]_vars => [Command!Next]_(Command!vars)
  <1> SUFFICES ASSUME Inv, [Next]_vars PROVE [Command!Next]_(Command!vars)
    OBVIOUS
  <1>1. CASE Ask
    BY <1>1, AskCommand DEF Command!Next
  <1>2. CASE Learn
    BY <1>2, LearnCommand DEF Command!Next
  <1>3. CASE Receive
    <2>1. CASE ReceiveNothing \/ \E d \in toVehicle : Reject(d)
      BY <2>1 DEF ReceiveNothing, Reject, gcsVars, Command!vars
    <2>2. CASE \E d \in toVehicle : \E seen \in Accepted[d] : Process(d, seen)
      BY <2>2, ProcessCommand DEF Command!Next
    <2> QED
      BY <1>3, <2>1, <2>2 DEF Receive
  <1>4. CASE Repeat \/ GiveUp \/ Ignore
    BY <1>4 DEF Repeat, GiveUp, Ignore, gcsVars, vehicleVars, Command!vars
  <1>5. CASE AckArrives \/ AckLost \/ sendStatusPacket
    BY <1>5 DEF AckArrives, AckLost, sendAckPacket, sendStatusPacket, gcsVars, Command!vars
  <1>6. CASE UNCHANGED vars
    BY <1>6 DEF vars, Command!vars
  <1> QED
    BY <1>1, <1>2, <1>3, <1>4, <1>5, <1>6 DEF Next, task

(* The invariant: each frame on its way to the GCS is one of the vehicle's *)
(* own accord or answers a request that was handled, and the GCS waits     *)
(* only for what it has not been told.                                     *)
THEOREM LinkInvariant == Spec => []Inv
  <1>1. Init => Inv
    BY InitInv
  <1>2. Inv /\ [Next]_vars => Inv'
    BY NextInv
  <1> QED
    BY <1>1, <1>2, PTL DEF Spec

(* Types: a reply waits exactly in the turn that sends it, and it is an    *)
(* acknowledgement with one of the codes the GCS knows.                    *)
THEOREM LinkTypes == Spec => []TypeOK
  <1>1. Inv => TypeOK
    BY DEF Inv
  <1> QED
    BY <1>1, LinkInvariant, PTL

(* Every acknowledgement, motor and status frame passes the check the      *)
(* vehicle itself makes, though the three senders sum different lengths.   *)
THEOREM FramesAreValid == Spec => []OwnFramesValid
  BY InvOwnFrames, LinkInvariant, PTL

(* The link implements RemoteCommand: nothing is handled that was not      *)
(* asked for, however one bit of a datagram is damaged, and the operator   *)
(* is told only what a handling of this request has answered.  Of requests *)
(* longer than the buffer CutsAreRejected is assumed.                      *)
THEOREM LinkIsAtLeastOnce == Spec => IsAtLeastOnce
  <1>1. Init => Command!Init
    BY InitCommand
  <1>2. Inv /\ [Next]_vars => [Command!Next]_(Command!vars)
    BY NextCommand
  <1> QED
    BY <1>1, <1>2, LinkInvariant, PTL DEF Spec, IsAtLeastOnce, Command!Spec
=============================================================================
