------------------------------ MODULE GuiLink ------------------------------
(***************************************************************************)
(* The link between the GCS and GuiWiFiTask over UDP: a datagram may be    *)
(* lost, repeated, late, overtaken or damaged, and the vehicle answers a   *)
(* valid request under the timestamp of the request.  What a request does  *)
(* to the vehicle is in MissionManager; here it has an outcome.            *)
(***************************************************************************)
EXTENDS Frames

CONSTANTS
    Requests,     \* the requests of the operator: [id, data]
    BufferLength, \* sizeof(rxPacket.msg), 142, less what Frames leaves out
    MaxRequests   \* bound: requests made in a behaviour

ASSUME RequestsAssumption ==
    /\ Requests \subseteq [id : Bytes, data : Seq(Bytes)]
    /\ BufferLength \in Nat /\ MaxRequests \in Nat

VARIABLES
    asked,        \* the requests made so far; the t-th has timestamp Time(t)
    waiting,      \* the GCS waits for the answer to the last of them
    told,         \* the answer the GCS took for the t-th
    toVehicle,    \* datagrams on their way, or in the socket of server
    toGcs,        \* datagrams of client on their way
    turn,         \* the loop of task(): recv, ack, status
    reply,        \* stdAckFrame of the turn
    handled       \* history: what processPacket was given and returned

gcsVars == <<asked, waiting, told>>
vehicleVars == <<turn, reply, handled>>
vars == <<asked, waiting, told, toVehicle, toGcs, turn, reply, handled>>

Untold == NO_RESPONSE
Nothing == <<>>

(* Milliseconds of the GCS, high byte first.                               *)
Time(t) == <<Byte(t \div 256), Byte(t % 256)>>
Times == [t \in 1 .. MaxRequests |-> Time(t)]
VehicleTime == <<Byte(255), Byte(255)>>

Request(r, t) ==
    LET body == <<r.id>> \o Time(t) \o r.data IN Frame(body, body)

Datagram == [t \in 1 .. MaxRequests |-> [r \in Requests |-> Request(r, t)]]

(* recv fills the buffer and drops what is left of the datagram.           *)
Fits(d) == Len(d) <= BufferLength
Received(d) == IF Fits(d) THEN d ELSE SubSeq(d, 1, BufferLength)

(* What recv may find of a datagram: one bit of it may be turned over.     *)
Arrivals(d) == {Received(d)} \cup Flips(Received(d))

(* Every way in which a request may arrive and pass the check.             *)
Accepted ==
    [d \in {Datagram[t][r] : t \in 1 .. MaxRequests, r \in Requests} |->
        {seen \in Arrivals(d) : validatePacket(seen)}]

(* The end of the buffer does not happen to make a valid frame of the      *)
(* front of a longer one.  A request in a GuiPacket_t always fits.         *)
ASSUME CutsAreRejected ==
    \A t \in 1 .. MaxRequests, r \in Requests :
        Fits(Datagram[t][r]) \/ Accepted[Datagram[t][r]] = {}

(* The return values of processPacket, by what MissionManager makes of the *)
(* packet: a file, a start, an abort or a joystick packet may be refused.  *)
Outcomes(r) ==
    CASE r.id \in {select_mode, cmd_hsdt, cmd_gcs_location} -> {EXECUTED}
      [] r.id \in {select_mission, start_mission, abort_mission} -> {EXECUTED, REFUSED}
      [] r.id = rov_ctrl_pck -> {NO_RESPONSE, REFUSED}
      [] r.id \in {gui_keep_alive, motor_state} -> {NO_RESPONSE}
      [] OTHER -> {NOT_RECOGNIZED}

(* Slip: the test is forgotten.                                            *)
AlwaysAnswers(ret) == TRUE

(* An answer is sent unless the handler asks for none.                     *)
NeedsAnswer(ret) == ret # NO_RESPONSE

(* What a valid packet may lead to: the entry of the history, the frame a  *)
(* handler sends itself, and the acknowledgement, with the timestamp of    *)
(* the request.                                                            *)
processPacket ==
    [seen \in UNION {Accepted[d] : d \in DOMAIN Accepted} |->
        LET r == [id |-> packetId(seen), data |-> payload(seen)]
            rxTime == endianConverter(timestamp(seen))
        IN  {[entry |-> [time |-> timestamp(seen), request |-> r, answer |-> ret],
              sent |-> IF r.id = motor_state THEN {MotorFrame(VehicleTime)} ELSE {},
              ack |-> Acknowledgement(rxTime, ret)] : ret \in Outcomes(r)}]

Init ==
    /\ asked = <<>> /\ waiting = FALSE
    /\ told = [t \in 1 .. MaxRequests |-> Untold]
    /\ toVehicle = {} /\ toGcs = {}
    /\ turn = "recv" /\ reply = Nothing /\ handled = {}

-----------------------------------------------------------------------------
(* The GCS: it waits for an answer unless the request is of a kind that    *)
(* has none, and repeats itself or gives up.  A datagram that is lost on   *)
(* the way is one that is not added.                                       *)

Answered(r) == r.id \notin {gui_keep_alive, motor_state, rov_ctrl_pck}

Ask ==
    /\ ~waiting /\ Len(asked) < MaxRequests
    /\ \E r \in Requests :
        /\ asked' = Append(asked, r) /\ waiting' = Answered(r)
        /\ toVehicle' \in {toVehicle, toVehicle \cup {Datagram[Len(asked) + 1][r]}}
    /\ UNCHANGED <<told, toGcs, vehicleVars>>

LastRequest == Datagram[Len(asked)][asked[Len(asked)]]

Repeat ==
    /\ waiting
    /\ toVehicle' = toVehicle \cup {LastRequest}
    /\ UNCHANGED <<gcsVars, toGcs, vehicleVars>>

GiveUp ==
    /\ waiting /\ waiting' = FALSE
    /\ UNCHANGED <<asked, told, toVehicle, toGcs, vehicleVars>>

AnswersLast(d) ==
    /\ waiting /\ validatePacket(d)
    /\ packetId(d) = ack_std /\ timestamp(d) = Time(Len(asked))

Learn ==
    \E d \in toGcs :
        /\ AnswersLast(d)
        /\ told' = [told EXCEPT ![Len(asked)] = payload(d)[1]]
        /\ waiting' = FALSE /\ toGcs' = toGcs \ {d}
        /\ UNCHANGED <<asked, toVehicle, vehicleVars>>

Ignore ==
    \E d \in toGcs :
        /\ ~AnswersLast(d)
        /\ toGcs' = toGcs \ {d}
        /\ UNCHANGED <<gcsVars, toVehicle, vehicleVars>>

-----------------------------------------------------------------------------
(* One turn of task(): one datagram at most, its answer, and now and then  *)
(* a status frame.                                                         *)

ReceiveNothing ==
    /\ turn = "recv" /\ turn' = "status"
    /\ UNCHANGED <<gcsVars, toVehicle, toGcs, reply, handled>>

(* The datagram leaves the network, or another copy is still to come.      *)
Taken(d) == toVehicle' \in {toVehicle, toVehicle \ {d}}

(* seen is d as it arrives, and valid.                                     *)
Process(d, seen) ==
    /\ turn = "recv" /\ Taken(d)
    /\ \E h \in processPacket[seen] :
        /\ handled' = handled \cup {h.entry}
        /\ IF NeedsAnswer(h.entry.answer)
           THEN turn' = "ack" /\ reply' = h.ack
           ELSE turn' = "status" /\ UNCHANGED reply
        /\ toGcs' \in {toGcs, toGcs \cup h.sent}
    /\ UNCHANGED gcsVars

(* An invalid datagram is dropped without an answer.                       *)
Reject(d) ==
    /\ turn = "recv" /\ Arrivals(d) \ Accepted[d] # {} /\ Taken(d)
    /\ turn' = "status"
    /\ UNCHANGED <<gcsVars, toGcs, reply, handled>>

sendAckPacket(sent) ==
    /\ turn = "ack" /\ turn' = "status" /\ reply' = Nothing
    /\ toGcs' = toGcs \cup sent
    /\ UNCHANGED <<gcsVars, toVehicle, handled>>

AckArrives == sendAckPacket({reply})
AckLost == sendAckPacket({})

sendStatusPacket ==
    /\ turn = "status" /\ turn' = "recv"
    /\ toGcs' \in {toGcs, toGcs \cup {StatusFrame(VehicleTime)}}
    /\ UNCHANGED <<gcsVars, toVehicle, reply, handled>>

Receive ==
    \/ ReceiveNothing
    \/ \E d \in toVehicle : Reject(d) \/ \E seen \in Accepted[d] : Process(d, seen)

task == Receive \/ AckArrives \/ AckLost \/ sendStatusPacket

-----------------------------------------------------------------------------
Next == Ask \/ Repeat \/ GiveUp \/ Learn \/ Ignore \/ task

Spec == Init /\ [][Next]_vars

(* The t-th request arrives as it was sent.                                *)
Heard(t) ==
    /\ t = Len(asked)
    /\ LastRequest \in toVehicle /\ LastRequest \in Accepted[LastRequest] /\ Process(LastRequest, LastRequest)

(* Its answer arrives.                                                     *)
Replied(t) == reply # Nothing /\ timestamp(reply) = Time(t) /\ AckArrives

(* The task loop runs on; what is sent again and again arrives at last.    *)
FairSpec ==
    /\ Spec
    /\ WF_vars(Repeat) /\ WF_vars(Learn) /\ WF_vars(task)
    /\ \A t \in 1 .. MaxRequests : SF_vars(Heard(t)) /\ SF_vars(Replied(t))

-----------------------------------------------------------------------------
Codes == {NOT_RECOGNIZED, REFUSED, EXECUTED}

TypeOK ==
    /\ asked \in Seq(Requests) /\ Len(asked) <= MaxRequests
    /\ waiting \in BOOLEAN /\ (waiting => asked # <<>>)
    /\ told \in [1 .. MaxRequests -> Codes \cup {Untold}]
    /\ toVehicle \subseteq {Datagram[t][asked[t]] : t \in DOMAIN asked}
    /\ turn \in {"recv", "ack", "status"}
    /\ (reply # Nothing) <=> (turn = "ack")
    /\ turn = "ack" => packetId(reply) = ack_std /\ payload(reply)[1] \in Codes

(* Every frame the vehicle sends would pass the check it makes itself,     *)
(* though the three senders sum different lengths.                         *)
OwnFramesValid == \A d \in toGcs : validatePacket(d)

(* The link keeps the promise of RemoteCommand: nothing is handled that    *)
(* was not asked for, however a datagram was damaged, and an answer is one *)
(* that a handling of this very request has given.                         *)
Command == INSTANCE RemoteCommand WITH Silent <- NO_RESPONSE
IsAtLeastOnce == Command!Spec

(* A GCS that goes on asking is answered, or gives up: no request that     *)
(* fits the vehicle's buffer leaves it silent for good, a refused or an    *)
(* unknown one neither.                                                    *)
RequestAnswered ==
    \A t \in 1 .. MaxRequests :
        (waiting /\ Len(asked) = t /\ Fits(LastRequest)) ~> ~waiting
=============================================================================
