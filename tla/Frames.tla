------------------------------- MODULE Frames -------------------------------
(***************************************************************************)
(* The frames of the GCS link, as far as their control goes: a byte is the *)
(* set of the bits set in it, a frame a sequence of bytes.  The timestamp  *)
(* has two bytes of its eight; the length, which the vehicle only prints,  *)
(* and the payloads nobody checks are left out.                            *)
(***************************************************************************)
EXTENDS Naturals, FiniteSets, SequencesExt

Bits == 0 .. 7
Bytes == SUBSET Bits
Byte(n) == {b \in Bits : (n \div 2^b) % 2 = 1}
Zero == {}

StartMsg == Byte(36)      \* '$'
EndMsg == Byte(10)        \* '\n'
MinLength == 6

vu_status_pck == Byte(151)
ack_std == Byte(157)
ack_motor == Byte(159)
select_mission == Byte(171)
start_mission == Byte(172)
abort_mission == Byte(173)
select_mode == Byte(176)
time_sync == Byte(178)
motor_state == Byte(180)
rov_ctrl_pck == Byte(187)
gui_keep_alive == Byte(189)
cmd_gcs_location == Byte(197)
cmd_hsdt == Byte(199)

(* The answers; the last one is never sent.                                *)
NOT_RECOGNIZED == Byte(255)
REFUSED == Byte(0)
EXECUTED == Byte(1)
NO_RESPONSE == Byte(2)

(* The exclusive or of the bytes.                                          *)
calculateChecksum(data) ==
    {b \in Bits : Cardinality({i \in DOMAIN data : b \in data[i]}) % 2 = 1}

(* Slip: the delimiters are checked, the checksum is not.                  *)
validateDelimiters(d) ==
    Len(d) >= MinLength /\ d[1] = StartMsg /\ d[Len(d)] = EndMsg

validatePacket(d) ==
    LET len == Len(d) IN
    /\ len >= MinLength
    /\ d[1] = StartMsg /\ d[len] = EndMsg
    /\ d[len - 1] = calculateChecksum(SubSeq(d, 2, len - 2))

(* The host keeps numbers with the low byte first, the frame with the high *)
(* byte first.                                                             *)
endianConverter(bytes) == Reverse(bytes)

(* A sender's frame: summed is what it adds up for the checksum.           *)
Frame(body, summed) == <<StartMsg>> \o body \o <<calculateChecksum(summed), EndMsg>>

(* Slip: the frame is not cleared, an old end byte is summed.              *)
AcknowledgementUncleared(time, code) ==
    LET body == <<ack_std>> \o endianConverter(time) \o <<code>>
    IN  Frame(body, Append(body, EndMsg))

(* Slip: the time is sent as the host keeps it.                            *)
AcknowledgementHostTime(time, code) ==
    LET body == <<ack_std>> \o time \o <<code>>
    IN  Frame(body, Append(body, Zero))

(* sendAckPacket and sendMotorPacket sum one byte more than the body, the  *)
(* checksum itself, which memset has made zero; sendStatusPacket does not. *)
Acknowledgement(time, code) ==
    LET body == <<ack_std>> \o endianConverter(time) \o <<code>>
    IN  Frame(body, Append(body, Zero))

MotorFrame(time) ==
    LET body == <<ack_motor>> \o endianConverter(time)
    IN  Frame(body, Append(body, Zero))

StatusFrame(time) ==
    LET body == <<vu_status_pck>> \o endianConverter(time)
    IN  Frame(body, body)

(* What processPacket reads of a packet.                                   *)
packetId(d) == d[2]
timestamp(d) == SubSeq(d, 3, 4)
payload(d) == SubSeq(d, 5, Len(d) - 2)

(* A datagram with one bit turned over.                                    *)
Flipped(byte, b) == IF b \in byte THEN byte \ {b} ELSE byte \cup {b}
Flips(d) == {[d EXCEPT ![i] = Flipped(@, b)] : i \in DOMAIN d, b \in Bits}
=============================================================================
