----------------------------- MODULE Telemetry -----------------------------
(***************************************************************************)
(* What the operator sees: the way of a reading of the INS through the     *)
(* nodes attitude and navigation into the status frame of the GUI thread,  *)
(* while main() and NAV_STATUS write back whole copies of navigation; and  *)
(* the fields of the status and the motor frame.                           *)
(*                                                                         *)
(* The node of a reading holds its index.  Status, battery and commands    *)
(* have any of the given values when they are read: who writes them is in  *)
(* MissionManager.  The first set of a node, which stores whatever it is   *)
(* given, is in DataNode.  Positions are in millionths of a degree, all    *)
(* else in thousandths; arithmetic is exact.                               *)
(***************************************************************************)
EXTENDS Integers, Sequences

CONSTANTS
    Readings,   \* the messages of the INS, in order; each has all fields
    Statuses,   \* [mode, armed, leg]
    Batteries,  \* [voltage, current, capacityRemain, chargePercent], as stored
    Commands    \* [thrust, left, right, top, bottom]

InsMessages ==
    [latitude : Int, longitude : Int, depth : Int, speed : Int, north : Int, east : Int,
     down : Int, roll : Int, pitch : Int, yaw : Int]

ASSUME ReadingsAssumption == Readings \in Seq(InsMessages)

Words == 0 .. 65535
BatteryData ==
    [voltage : Words, current : Words, capacityRemain : Words, chargePercent : 0 .. 255]

ASSUME BatteriesAssumption == Batteries \subseteq BatteryData

VARIABLES
    reading,      \* the last message of the INS
    navigation,   \* the node: the reading and target_acheived
    attitude,     \* the node
    mqtt,         \* the handler that runs: what it is to set, its copies
    main,         \* main()'s copy of navigation, between get and set
    gui,          \* the GUI thread: the gets done, its copies
    frame         \* the frame it has made of them

vars == <<reading, navigation, attitude, mqtt, main, gui, frame>>

Indices == 0 .. Len(Readings)
Zeros == [latitude |-> 0, longitude |-> 0, depth |-> 0, speed |-> 0, north |-> 0,
          east |-> 0, down |-> 0, roll |-> 0, pitch |-> 0, yaw |-> 0]
At(i) == IF i = 0 THEN Zeros ELSE Readings[i]

Abs(n) == IF n < 0 THEN -n ELSE n
Differs(a, b, threshold) == Abs(a - b) > threshold

(* The two operators != : one threshold for degrees and metres.            *)
NavigationChanged(i, j) ==
    LET a == At(i)  b == At(j) IN
    \/ \E f \in {"latitude", "longitude"} : Differs(a[f], b[f], 10000)
    \/ \E f \in {"depth", "speed", "north", "east", "down"} : Differs(a[f], b[f], 10)

AttitudeChanged(i, j) ==
    \E f \in {"roll", "pitch", "yaw"} : Differs(At(i)[f], At(j)[f], 10)

-----------------------------------------------------------------------------
(* The fields of the frames.                                               *)

Truncated(n, d) == IF n < 0 THEN -((-n) \div d) ELSE n \div d
Hundredths(n) == Truncated(n, 10)
Unsigned(n, bits) == n % 2^bits
Signed(n, bits) ==
    IF Unsigned(n, bits) < 2^(bits - 1) THEN Unsigned(n, bits) ELSE Unsigned(n, bits) - 2^bits

(* All numbers are turned to network order but MissionOperationId.         *)
HostOrder16(n) == (n % 256) * 256 + n \div 256

(* A heading of up to 360 needs the sixteenth bit of its field.            *)
YawAngle(yaw) == Signed(Unsigned(Hundredths(yaw), 16), 16)

(* Slip: the operation is added up in the eight bits of the leg.           *)
MissionOperationIdNarrow(sys) == IF sys.armed THEN HostOrder16((sys.leg + 1) % 256) ELSE 0

MissionOperationId(sys) == IF sys.armed THEN HostOrder16(sys.leg + 1) ELSE 0

Manual == 3

StatusFields(nav, att, sys, bms) ==
    [VuState |-> sys.mode,
     MissionOperationId |-> MissionOperationId(sys),
     GuidanceModeCode |-> IF sys.mode = Manual THEN 1 ELSE 0,
     Lattitude |-> nav.latitude * 10,
     Longitude |-> nav.longitude * 10,
     Depth |-> Hundredths(nav.depth),
     Speed |-> Signed(Hundredths(nav.speed), 16),
     SpeedBody |-> <<Signed(Hundredths(nav.north), 16), Signed(Hundredths(nav.east), 16),
                     Signed(Hundredths(nav.down), 16)>>,
     RollAngle |-> Signed(Hundredths(att.roll), 16),
     PitchAngle |-> Signed(Hundredths(att.pitch), 16),
     YawAngle |-> YawAngle(att.yaw),
     BatteryVoltage |-> Unsigned(bms.voltage * 1000, 16),
     BatteryVoltage_LB |-> Unsigned(bms.voltage * 10, 16),
     BatteryCurrent |-> Unsigned(bms.current * 100, 16),
     BatteryCapacityRemain |-> bms.capacityRemain * 100,
     BatteryCharge |-> bms.chargePercent]

(* Nobody sets the nodes thrusters and fins: what is measured is zero.     *)
Measured == [rpm |-> 0, current |-> 0, voltage |-> 0, temperature |-> 0]
Reported(n) == [measured |-> Measured, command |-> Signed(n, 8)]
MotorFields(cmnd) ==
    [thrusterBSx |-> Reported(cmnd.thrust),
     thrusterBDx |-> Reported(Truncated(cmnd.left, 1000)),
     thrusterBSide |-> Reported(Truncated(cmnd.right, 1000)),
     thrusterFSide |-> Reported(Truncated(cmnd.top, 1000)),
     thrusterBTop |-> Reported(Truncated(cmnd.bottom, 1000)),
     thrusterFTop |-> Reported(0)]

-----------------------------------------------------------------------------
Idle == "idle"
NoCopy == [reading |-> 0, target_acheived |-> FALSE]
NoCopies == <<>>
NoFrame == <<>>

Init ==
    /\ reading = 0 /\ navigation = NoCopy /\ attitude = 0
    /\ mqtt = [sets |-> Idle, nav |-> NoCopy]
    /\ main = [sets |-> Idle, nav |-> NoCopy]
    /\ gui = [gets |-> 0, copies |-> NoCopies]
    /\ frame = NoFrame

(* A set stores the whole copy or, if nothing differs, nothing; the        *)
(* distance to the target, which is not followed, may differ.              *)
SetNavigation(nav) ==
    \/ navigation' = nav
    \/ /\ nav.target_acheived = navigation.target_acheived
       /\ ~NavigationChanged(navigation.reading, nav.reading)
       /\ UNCHANGED navigation

(* IMU_HNAV: the copies of both nodes take the fields of the message.      *)
ImuGet ==
    /\ mqtt.sets = Idle
    /\ \E m \in {reading, reading + 1} \cap 1 .. Len(Readings) :
        /\ reading' = m
        /\ mqtt' = [sets |-> "attitude", nav |-> [navigation EXCEPT !.reading = m]]
    /\ UNCHANGED <<navigation, attitude, main, gui, frame>>

ImuSetAttitude ==
    /\ mqtt.sets = "attitude" /\ mqtt' = [mqtt EXCEPT !.sets = "navigation"]
    /\ attitude' = IF AttitudeChanged(attitude, mqtt.nav.reading)
                   THEN mqtt.nav.reading ELSE attitude
    /\ UNCHANGED <<reading, navigation, main, gui, frame>>

(* NAV_STATUS: the flag is written into a copy of what is there.           *)
NavStatusGet ==
    /\ mqtt.sets = Idle
    /\ \E b \in BOOLEAN :
        mqtt' = [sets |-> "navigation", nav |-> [navigation EXCEPT !.target_acheived = b]]
    /\ UNCHANGED <<reading, navigation, attitude, main, gui, frame>>

MqttSetNavigation ==
    /\ mqtt.sets = "navigation"
    /\ SetNavigation(mqtt.nav)
    /\ mqtt' = [sets |-> Idle, nav |-> NoCopy]
    /\ UNCHANGED <<reading, attitude, main, gui, frame>>

Mqtt == ImuGet \/ ImuSetAttitude \/ NavStatusGet \/ MqttSetNavigation

(* Slip: the flag is reset in every turn.                                  *)
ArrivedOrNot(nav) == TRUE

(* main(), in a mission: an arrival is reset in a copy of what was there.  *)
Arrived(nav) == nav.target_acheived

MainGet ==
    /\ main.sets = Idle /\ Arrived(navigation)
    /\ main' = [sets |-> "navigation", nav |-> navigation]
    /\ UNCHANGED <<reading, navigation, attitude, mqtt, gui, frame>>

(* Slip: the copy lives on from turn to turn.                              *)
MainSetKeeps ==
    /\ main.sets = "navigation"
    /\ SetNavigation([main.nav EXCEPT !.target_acheived = FALSE])
    /\ UNCHANGED <<reading, attitude, mqtt, main, gui, frame>>

MainSet ==
    /\ main.sets = "navigation"
    /\ SetNavigation([main.nav EXCEPT !.target_acheived = FALSE])
    /\ main' = [sets |-> Idle, nav |-> NoCopy]
    /\ UNCHANGED <<reading, attitude, mqtt, gui, frame>>

Main == MainGet \/ MainSet

(* Slip: attitude first.                                                   *)
OrderSwapped == <<"attitude", "navigation", "status", "bms">>

(* The GUI thread: sendStatusPacket gets four nodes one after the other.   *)
Order == <<"navigation", "attitude", "status", "bms">>

Values(node) ==
    CASE node = "navigation" -> {navigation.reading}
      [] node = "attitude" -> {attitude}
      [] node = "status" -> Statuses
      [] node = "bms" -> Batteries

Copied == {Order[i] : i \in 1 .. gui.gets}

(* Slip: the next frame is begun while the last is still there.            *)
GuiGetEarly ==
    /\ gui.gets < Len(Order)
    /\ LET node == Order[gui.gets + 1] IN
       \E v \in Values(node) :
        gui' = [gets |-> gui.gets + 1,
                copies |-> [n \in Copied \cup {node} |-> IF n = node THEN v ELSE gui.copies[n]]]
    /\ UNCHANGED <<reading, navigation, attitude, mqtt, main, frame>>

GuiGet ==
    /\ gui.gets < Len(Order) /\ frame = NoFrame
    /\ LET node == Order[gui.gets + 1] IN
       \E v \in Values(node) :
        gui' = [gets |-> gui.gets + 1,
                copies |-> [n \in Copied \cup {node} |-> IF n = node THEN v ELSE gui.copies[n]]]
    /\ UNCHANGED <<reading, navigation, attitude, mqtt, main, frame>>

sendStatusPacket ==
    /\ gui.gets = Len(Order) /\ frame = NoFrame
    /\ LET c == gui.copies IN
       frame' = StatusFields(At(c["navigation"]), At(c["attitude"]), c["status"], c["bms"])
    /\ UNCHANGED <<reading, navigation, attitude, mqtt, main, gui>>

(* On request, between two status frames.                                  *)
sendMotorPacket ==
    /\ gui.gets = 0 /\ frame = NoFrame
    /\ \E cmnd \in Commands :
        /\ gui' = [gets |-> 0, copies |-> [commands |-> cmnd]]
        /\ frame' = MotorFields(cmnd)
    /\ UNCHANGED <<reading, navigation, attitude, mqtt, main>>

GuiSleep ==
    /\ frame # NoFrame /\ frame' = NoFrame
    /\ gui' = [gets |-> 0, copies |-> NoCopies]
    /\ UNCHANGED <<reading, navigation, attitude, mqtt, main>>

Gui == GuiGet \/ sendStatusPacket \/ sendMotorPacket \/ GuiSleep

Next == Mqtt \/ Main \/ Gui
Spec == Init /\ [][Next]_vars

(* The INS publishes on, its handler and the GUI loop run on, with a       *)
(* status frame every five seconds.                                        *)
FairSpec ==
    /\ Spec
    /\ WF_vars(ImuSetAttitude \/ MqttSetNavigation) /\ SF_vars(ImuGet)
    /\ SF_vars(GuiGet) /\ WF_vars(sendStatusPacket) /\ WF_vars(GuiSleep)

-----------------------------------------------------------------------------
Nodes == [reading : Indices, target_acheived : BOOLEAN]

TypeOK ==
    /\ reading \in Indices /\ navigation \in Nodes /\ attitude \in Indices
    /\ mqtt \in [sets : {Idle, "attitude", "navigation"}, nav : Nodes]
    /\ main \in [sets : {Idle, "navigation"}, nav : Nodes]
    /\ gui.gets \in 0 .. Len(Order)
    /\ (gui.gets > 0 => DOMAIN gui.copies = Copied)
    /\ frame # NoFrame => gui.gets \in {0, Len(Order)}

(* The attitude in a status frame is never older than its position: the    *)
(* handler sets attitude first and the frame gets navigation first, and no *)
(* write-back of navigation in between can turn that round.                *)
AttitudeNotOlder ==
    gui.gets >= 2 =>
        \E m \in gui.copies["navigation"] .. Len(Readings) :
            ~AttitudeChanged(gui.copies["attitude"], m)

(* The position in the node goes back only where main() resets an arrival: *)
(* the copies of NAV_STATUS and the dead band never bring an old one back. *)
PositionBackOnlyOnArrival ==
    [][navigation'.reading < navigation.reading =>
        main.sets = "navigation" /\ main.nav.target_acheived]_vars

(* A field in hundredths says a value in thousandths, rounded.             *)
Close(field, value) == Abs(10 * field - value) < 10

(* Where the code keeps to what GuiWiFiFrames.hpp writes beside the fields,*)
(* they say what was read in those units: a position in 10^7 of a degree,  *)
(* depth and speeds in hundredths (hpp:335-341), no operation but for an   *)
(* armed vehicle, and never the numbers of an end, an abort or an error    *)
(* (hpp:131), current and capacity in hundredths, the charge (350-352).    *)
(* Angles, voltages and VuState do not: the header has rad*10000, V*100    *)
(* and "1:ROV" (130, 342-349), the code hundredths of degrees, the node a  *)
(* thousandfold and the OperationMode.  What the bytes of the operation    *)
(* say, in the order of the host, is not judged either.                    *)
StatusDecodes(f, nav, sys, bms) ==
    /\ f.Lattitude = 10 * nav.latitude /\ f.Longitude = 10 * nav.longitude
    /\ Close(f.Depth, nav.depth) /\ Close(f.Speed, nav.speed)
    /\ Close(f.SpeedBody[1], nav.north) /\ Close(f.SpeedBody[2], nav.east)
    /\ Close(f.SpeedBody[3], nav.down)
    /\ f.MissionOperationId = 0 <=> ~sys.armed
    /\ f.MissionOperationId \notin {65534, 65535}
    /\ f.BatteryCurrent = 100 * bms.current
    /\ f.BatteryCapacityRemain = 100 * bms.capacityRemain
    /\ f.BatteryCharge = bms.chargePercent

(* Each motor command is in its own place, in percent or degrees.          *)
MotorDecodes(f, cmnd) ==
    /\ f.thrusterBSx.command = cmnd.thrust
    /\ \A p \in {<<f.thrusterBDx, cmnd.left>>, <<f.thrusterBSide, cmnd.right>>,
                 <<f.thrusterFSide, cmnd.top>>, <<f.thrusterBTop, cmnd.bottom>>} :
            Abs(1000 * p[1].command - p[2]) < 1000

(* Every frame says what was in the copies it was made of.                 *)
FramesDecode ==
    frame # NoFrame =>
        LET c == gui.copies IN
        IF gui.gets = 0 THEN MotorDecodes(frame, c.commands)
        ELSE StatusDecodes(frame, At(c["navigation"]), c["status"], c["bms"])

(* When the readings settle and no arrival is pending, so do the frames: a *)
(* position that main() has moved back, or a step within the dead band,    *)
(* does not stay.  (With an arrival in every turn it might: main() could   *)
(* always read just before the handler sets.)                              *)
Shows(m) ==
    ~NavigationChanged(gui.copies["navigation"], m) /\ ~AttitudeChanged(gui.copies["attitude"], m)

StatusSent == gui.gets = Len(Order)

FrameCatchesUp ==
    \A m \in 1 .. Len(Readings) :
        <>[](reading = m /\ ~navigation.target_acheived) =>
            []<>StatusSent /\ <>[](StatusSent => Shows(m))
=============================================================================
