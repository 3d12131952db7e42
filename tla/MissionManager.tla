--------------------------- MODULE MissionManager ---------------------------
(***************************************************************************)
(* The mission manager: three threads that share the DataManager.          *)
(*                                                                         *)
(*   main   the 1 Hz loop of mission_manager.cpp that flies the mission    *)
(*   mqtt   the mosquitto thread that runs mqtt_on_message                 *)
(*   gui    the GuiWiFiTask thread that answers the packets of the GCS     *)
(*                                                                         *)
(* A DataNode locks its own get and set, and nothing else: every handler   *)
(* is a get, a change of the local copy and a set, and any other thread    *)
(* may run in between.  An action is therefore ONE get or ONE set, with    *)
(* the local work that precedes or follows it.                             *)
(***************************************************************************)
EXTENDS Integers, LegCounts

CONSTANTS
    Missions,     \* the mission files GCS can select
    NoMission,    \* AutoMissionData before any mission is stored
    Gotowps,      \* Gotowps[m]: how many GOTOWP records the file m has
    LegModulus,   \* leg numbers are uint8_t: 256
    Setpoints,    \* values of the HSDT and home-location commands
    ZeroSetpoint, \* ... before any is received
    Packets,      \* the packets GCS sends
    Messages      \* the messages NavManager and the sensors publish

Modes == {"STANDBY", "SEMI_AUTONOMOUS", "AUTONOMOUS", "MANUAL",
          "PRELAUNCH_TEST", "EMERGENCY", "LAUNCHING", "UNKNOWN",
          "OUT_OF_RANGE"}     \* a byte of select_mode above the last value

ModeStrings == {"standby", "semi_autonomous", "semi-autonomous",
                "autonomous", "manual", "emergency", "unknown"}

(* Packets that only produce an answer.                                    *)
SilentOps == {"motor_state", "keep_alive"}
UnhandledOps == {"time_sync", "sw_version", "unhandled"}

PacketSet ==
    [op : {"select_mission"}, mission : Missions \cup {NoMission}]
    \cup [op : {"select_mode"}, mode : Modes]
    \cup [op : {"cmd_hsdt", "cmd_gcs_location"}, value : Setpoints]
    \cup [op : {"start_mission", "abort_mission", "rov_ctrl_pck"}
               \cup SilentOps \cup UnhandledOps]

MessageSet ==
    [topic : {"NAV_CONTROL"}, act : BOOLEAN]
    \cup [topic : {"IMU"}]
    \cup [topic : {"NAV_STATUS"},
          mission_command : {"absent", "distance", "true", "false"},
          mode : ModeStrings \cup {"absent"}]

ASSUME MissionsAssumption ==
    /\ Gotowps \in [Missions -> Nat]
    /\ NoMission \notin Missions
ASSUME SizesAssumption ==
    /\ Count \in Nat \ {0}
    /\ LegModulus \in Nat
    /\ Count < LegModulus
ASSUME InputsAssumption ==
    /\ ZeroSetpoint \in Setpoints
    /\ Packets \subseteq PacketSet
    /\ Messages \subseteq MessageSet

-----------------------------------------------------------------------------
(* The shared nodes and their copies.                                      *)

Waypoints == [mission : Missions, leg : 0 .. Count - 1]
             \cup [mission : {NoMission}, leg : {0}]
ZeroWaypoint == [mission |-> NoMission, leg |-> 0]

SystemStatus == [mode : Modes, armed : BOOLEAN,
                 current : 0 .. LegModulus - 1, total : 0 .. Count]

(* act tells who wrote the thruster and fins last: NavManager or the ROV   *)
(* joystick.  semi and home stand for the HSDT and home-location groups.   *)
CommandData == [mode : Modes, target : Waypoints, act : {"none", "nav", "rov"},
                semi : Setpoints, home : Setpoints]

NoStatus == [mode |-> "STANDBY", armed |-> FALSE, current |-> 0, total |-> 0]
NoCommands == [mode |-> "STANDBY", target |-> ZeroWaypoint, act |-> "none",
               semi |-> ZeroSetpoint, home |-> ZeroSetpoint]
NoPacket == [op |-> "none"]
NoMessage == [topic |-> "none"]
NoAck == [op |-> "none", code |-> "none"]
NotPublished == [mode |-> "none"]

VARIABLES
    status,          \* DataManager::status
    commands,        \* DataManager::commands
    target_acheived, \* the flag of DataManager::navigation
    autoMission,     \* the mission DataManager::autoMissionData was built from
    published,       \* the last payload on MISSION_TOPIC
    ack,             \* the answer to the last packet
    gui,             \* GUI thread: pc, packet and copies it will write back
    mqtt,            \* MQTT thread: pc, message and copies
    main             \* main thread: pc and copies

nodes == <<status, commands, target_acheived, autoMission>>
vars == <<status, commands, target_acheived, autoMission, published, ack,
          gui, mqtt, main>>

GuiIdle  == [pc |-> "idle", pkt |-> NoPacket, sys |-> NoStatus, cmnd |-> NoCommands]
MqttIdle == [pc |-> "idle", msg |-> NoMessage, nav |-> FALSE,
             sys |-> NoStatus, cmnd |-> NoCommands]
MainIdle == [pc |-> "idle", sys |-> NoStatus, cmnd |-> NoCommands, misn |-> NoMission]

-----------------------------------------------------------------------------
(* What the handlers compute.                                              *)

(* What validateMissionFile makes of the file (the loops: MissionFile).    *)
TotalLegs(m) == TotalFor(Gotowps[m])
StoredLegs(m) == StoredFor(Gotowps[m])

(* Slip: the leg after the one being performed.                            *)
NextLegTarget(m, i) ==
    IF m # NoMission /\ i + 1 < StoredLegs(m)
    THEN {[mission |-> m, leg |-> i + 1]} ELSE {ZeroWaypoint}

(* misn.misn...[i]: arrays of COUNT entries, zero beyond the stored legs;  *)
(* an index past the end reads whatever the build left there.              *)
LegTarget(m, i) ==
    IF i >= Count THEN Waypoints
    ELSE IF m # NoMission /\ i < StoredLegs(m)
         THEN {[mission |-> m, leg |-> i]}
         ELSE {ZeroWaypoint}

string_to_mode(s) ==
    CASE s = "standby" -> "STANDBY"
      [] s = "autonomous" -> "AUTONOMOUS"
      [] s \in {"semi_autonomous", "semi-autonomous"} -> "SEMI_AUTONOMOUS"
      [] s = "manual" -> "MANUAL"
      [] s = "emergency" -> "EMERGENCY"
      [] OTHER -> "UNKNOWN"

mode_to_string(m) ==
    CASE m = "STANDBY" -> "standby"
      [] m = "AUTONOMOUS" -> "autonomous"
      [] m = "SEMI_AUTONOMOUS" -> "semi-autonomous"
      [] m = "MANUAL" -> "manual"
      [] m = "EMERGENCY" -> "emergency"
      [] OTHER -> "unknown"

Loaded(s, m) == [s EXCEPT !.total = TotalLegs(m), !.current = 0]
(* Slips: start_mission without a mission, or in any mode.                 *)
StartUnloaded(s) == s.mode = "AUTONOMOUS" /\ s.current = 0
StartInAnyMode(s) == s.total > 0 /\ s.current = 0
StartAllowed(s) == s.mode = "AUTONOMOUS" /\ s.total > 0 /\ s.current = 0
(* Slip: legs counted from one.                                            *)
ArmedAtLegOne(s) == [s EXCEPT !.armed = TRUE, !.current = 1]
Armed(s) == [s EXCEPT !.armed = TRUE]
AbortAllowed(s) == s.mode = "AUTONOMOUS" /\ s.armed
Disarmed(s) == [s EXCEPT !.armed = FALSE, !.current = 0]

MissionActive(s) == s.mode = "AUTONOMOUS" /\ s.armed /\ s.total > 0
(* Slip: a leg number wider than its field.                                *)
AdvancedWide(s) == [s EXCEPT !.current = @ + 1]
Advanced(s) == [s EXCEPT !.current = (@ + 1) % LegModulus]
Finished(s) == s.current >= s.total
Standby(c) == [c EXCEPT !.mode = "STANDBY"]

(* Slip: the joystick also takes the vehicle to MANUAL.                    *)
CommandedManual(c, p) ==
    CASE p.op = "select_mode" -> [c EXCEPT !.mode = p.mode]
      [] p.op = "cmd_hsdt" -> [c EXCEPT !.semi = p.value]
      [] p.op = "cmd_gcs_location" -> [c EXCEPT !.home = p.value]
      [] OTHER -> [c EXCEPT !.act = "rov", !.mode = "MANUAL"]

(* The field of CommandData that a packet writes.                          *)
Commanded(c, p) ==
    CASE p.op = "select_mode" -> [c EXCEPT !.mode = p.mode]
      [] p.op = "cmd_hsdt" -> [c EXCEPT !.semi = p.value]
      [] p.op = "cmd_gcs_location" -> [c EXCEPT !.home = p.value]
      [] OTHER -> [c EXCEPT !.act = "rov"]

(* The payload publish_mission_data builds: the group of the mode.         *)
Payload(c) ==
    CASE c.mode = "AUTONOMOUS" -> [mode |-> mode_to_string(c.mode), target |-> c.target]
      [] c.mode = "SEMI_AUTONOMOUS" -> [mode |-> mode_to_string(c.mode), semi |-> c.semi]
      [] c.mode = "MANUAL" -> [mode |-> mode_to_string(c.mode), act |-> c.act]
      [] OTHER -> [mode |-> mode_to_string(c.mode), home |-> c.home]

PayloadSet == [mode : ModeStrings, target : Waypoints]
              \cup [mode : ModeStrings, semi : Setpoints]
              \cup [mode : ModeStrings, act : {"none", "nav", "rov"}]
              \cup [mode : ModeStrings, home : Setpoints]
              \cup {NotPublished}

(* Slips: a report of the distance taken for no arrival, or for one.       *)
ReportedAnew(nav, msg) == msg.mission_command = "true"
ReportedUnlessFalse(nav, msg) == msg.mission_command # "false"

(* NAV_STATUS: what mission_command does to the flag of the local copy.    *)
Reported(nav, msg) ==
    IF msg.mission_command \in {"true", "false"}
    THEN msg.mission_command = "true" ELSE nav

(* NAV_CONTROL: thrust and rudders, where the message has any.             *)
Steered(c, msg) == IF msg.act THEN [c EXCEPT !.act = "nav"] ELSE c

Init ==
    /\ status = NoStatus
    /\ commands = NoCommands
    /\ target_acheived = FALSE
    /\ autoMission = NoMission
    /\ published = NotPublished
    /\ ack = NoAck
    /\ gui = GuiIdle
    /\ mqtt = MqttIdle
    /\ main = MainIdle

-----------------------------------------------------------------------------
(* GUI thread: GuiWiFiTask::processPacket.  The first action of a handler  *)
(* is the receipt of the packet and the handler's first get; the last one  *)
(* is its last set and sendAckPacket.                                      *)

Begin(p, pc, sys, cmnd) ==
    /\ gui' = [pc |-> pc, pkt |-> p, sys |-> sys, cmnd |-> cmnd]
    /\ ack' = NoAck

Answer(p, code) ==
    /\ gui' = GuiIdle
    /\ ack' = [op |-> p.op, code |-> code]

GuiStep(pc) == gui.pc = pc /\ UNCHANGED <<published, mqtt, main>>

GuiOther(p) ==
    /\ GuiStep("idle")
    /\ \/ p.op \in SilentOps /\ Answer(p, "no_response")
       \/ p.op \in UnhandledOps /\ Answer(p, "not_recognized")
    /\ UNCHANGED nodes

GuiSelectMission(p) ==
    /\ GuiStep("idle")
    /\ p.op = "select_mission"
    /\ IF p.mission = NoMission       \* the file does not parse
       THEN Answer(p, "refused")
       ELSE Begin(p, "load_status", Loaded(status, p.mission), NoCommands)
    /\ UNCHANGED nodes

GuiLoadStatus ==
    /\ GuiStep("load_status")
    /\ status' = gui.sys
    /\ gui' = [gui EXCEPT !.pc = "load_mission", !.sys = NoStatus]
    /\ UNCHANGED <<commands, target_acheived, autoMission, ack>>

GuiLoadMission ==
    /\ GuiStep("load_mission")
    /\ autoMission' = gui.pkt.mission
    /\ Answer(gui.pkt, "executed")
    /\ UNCHANGED <<status, commands, target_acheived>>

GuiStart(p) ==
    /\ GuiStep("idle")
    /\ p.op = "start_mission"
    /\ IF StartAllowed(status)
       THEN Begin(p, "set_status", Armed(status), NoCommands)
       ELSE Answer(p, "refused")
    /\ UNCHANGED nodes

GuiAbort(p) ==
    /\ GuiStep("idle")
    /\ p.op = "abort_mission"
    /\ IF AbortAllowed(status)
       THEN Begin(p, "abort", Disarmed(status), NoCommands)
       ELSE Answer(p, "refused")
    /\ UNCHANGED nodes

GuiAbortCommands ==
    /\ GuiStep("abort")
    /\ gui' = [gui EXCEPT !.pc = "abort_commands", !.cmnd = Standby(commands)]
    /\ UNCHANGED <<nodes, ack>>

GuiAbortSet ==
    /\ GuiStep("abort_commands")
    /\ commands' = gui.cmnd
    /\ gui' = [gui EXCEPT !.pc = "set_status", !.cmnd = NoCommands]
    /\ UNCHANGED <<status, target_acheived, autoMission, ack>>

(* The last step of start_mission and of abort_mission.                    *)
GuiSetStatus ==
    /\ GuiStep("set_status")
    /\ status' = gui.sys
    /\ Answer(gui.pkt, "executed")
    /\ UNCHANGED <<commands, target_acheived, autoMission>>

(* updateOperationMode, updateSemiAutonomousData, updateHomeLocationData.  *)
GuiCommand(p) ==
    /\ GuiStep("idle")
    /\ p.op \in {"select_mode", "cmd_hsdt", "cmd_gcs_location"}
    /\ Begin(p, "set_commands", NoStatus, Commanded(commands, p))
    /\ UNCHANGED nodes

(* updateManualControlData reads the commands first, then the mode.        *)
GuiRov(p) ==
    /\ GuiStep("idle")
    /\ p.op = "rov_ctrl_pck"
    /\ Begin(p, "rov_mode", NoStatus, Commanded(commands, p))
    /\ UNCHANGED nodes

RovAllowed(s) == s.mode = "MANUAL"

GuiRovMode ==
    /\ GuiStep("rov_mode")
    /\ IF RovAllowed(status)
       THEN gui' = [gui EXCEPT !.pc = "set_commands"] /\ UNCHANGED ack
       ELSE Answer(gui.pkt, "refused")
    /\ UNCHANGED nodes

GuiSetCommands ==
    /\ GuiStep("set_commands")
    /\ commands' = gui.cmnd
    /\ Answer(gui.pkt, IF gui.pkt.op = "rov_ctrl_pck" THEN "no_response"
                                                      ELSE "executed")
    /\ UNCHANGED <<status, target_acheived, autoMission>>

GuiReceive == \E p \in Packets :
    \/ GuiOther(p) \/ GuiSelectMission(p) \/ GuiStart(p)
    \/ GuiAbort(p) \/ GuiCommand(p) \/ GuiRov(p)

GuiContinue ==
    \/ GuiLoadStatus \/ GuiLoadMission \/ GuiAbortCommands \/ GuiAbortSet
    \/ GuiSetStatus \/ GuiRovMode \/ GuiSetCommands

-----------------------------------------------------------------------------
(* MQTT thread: mqtt_on_message.  A message that changes nothing shared    *)
(* (empty, not JSON, NAV_CONTROL in MANUAL mode) is a stuttering step.     *)

MqttStep(pc) == mqtt.pc = pc /\ UNCHANGED <<published, ack, gui, main>>

Handle(msg, pc) == mqtt' = [mqtt EXCEPT !.pc = pc, !.msg = msg]

NavControlAllowed(s) == s.mode # "MANUAL"

MqttNavControl(msg) ==
    /\ MqttStep("idle")
    /\ msg.topic = "NAV_CONTROL"
    /\ NavControlAllowed(status)
    /\ Handle(msg, "control_commands")
    /\ UNCHANGED nodes

MqttControlCommands ==
    /\ MqttStep("control_commands")
    /\ mqtt' = [mqtt EXCEPT !.pc = "set_commands",
                            !.cmnd = Steered(commands, mqtt.msg)]
    /\ UNCHANGED nodes

MqttSetCommands ==
    /\ MqttStep("set_commands")
    /\ commands' = mqtt.cmnd
    /\ mqtt' = MqttIdle
    /\ UNCHANGED <<status, target_acheived, autoMission>>

(* IMU: the position fields of a whole NavigationData are replaced.        *)
MqttImu(msg) ==
    /\ MqttStep("idle")
    /\ msg.topic = "IMU"
    /\ mqtt' = [mqtt EXCEPT !.pc = "imu_navigation", !.msg = msg,
                            !.nav = target_acheived]
    /\ UNCHANGED nodes

MqttImuSet ==
    /\ MqttStep("imu_navigation")
    /\ target_acheived' = mqtt.nav
    /\ mqtt' = MqttIdle
    /\ UNCHANGED <<status, commands, autoMission>>

MqttNavStatus(msg) ==
    /\ MqttStep("idle")
    /\ msg.topic = "NAV_STATUS"
    /\ mqtt' = [mqtt EXCEPT !.pc = "nav_status", !.msg = msg,
                            !.nav = target_acheived]
    /\ UNCHANGED nodes

(* The status is read before the navigation is written; a copy that will   *)
(* not be written back is dropped.                                         *)
MqttNavStatusGet ==
    /\ MqttStep("nav_status")
    /\ LET msg == mqtt.msg
           navUpdate == msg.mission_command # "absent"
           sysUpdate == msg.mode # "absent"
           nav == Reported(mqtt.nav, msg)
           sys == [status EXCEPT !.mode = string_to_mode(msg.mode)]
       IN mqtt' = IF ~navUpdate /\ ~sysUpdate THEN MqttIdle
                  ELSE [mqtt EXCEPT !.pc = IF navUpdate THEN "set_navigation"
                                                        ELSE "set_status",
                                    !.nav = navUpdate /\ nav,
                                    !.sys = IF sysUpdate THEN sys ELSE NoStatus]
    /\ UNCHANGED nodes

MqttSetNavigation ==
    /\ MqttStep("set_navigation")
    /\ target_acheived' = mqtt.nav
    /\ mqtt' = IF mqtt.msg.mode = "absent" THEN MqttIdle
               ELSE [mqtt EXCEPT !.pc = "set_status", !.nav = FALSE]
    /\ UNCHANGED <<status, commands, autoMission>>

MqttSetStatus ==
    /\ MqttStep("set_status")
    /\ status' = mqtt.sys
    /\ mqtt' = MqttIdle
    /\ UNCHANGED <<commands, target_acheived, autoMission>>

MqttReceive == \E msg \in Messages :
    MqttNavControl(msg) \/ MqttImu(msg) \/ MqttNavStatus(msg)

MqttContinue ==
    \/ MqttControlCommands \/ MqttSetCommands \/ MqttImuSet
    \/ MqttNavStatusGet \/ MqttSetNavigation \/ MqttSetStatus

-----------------------------------------------------------------------------
(* Main thread: one iteration of the loop of main().                       *)

MainStep(pc) == main.pc = pc /\ UNCHANGED <<ack, gui, mqtt>>

MainGetCommands ==
    /\ MainStep("idle")
    /\ main' = [main EXCEPT !.pc = "status", !.cmnd = commands]
    /\ UNCHANGED <<nodes, published>>

(* Slip: no publication without a mission.                                 *)
MainGetStatusOnly ==
    /\ MainStep("status")
    /\ main' = IF MissionActive(status)
               THEN [main EXCEPT !.pc = "mission", !.sys = status]
               ELSE MainIdle
    /\ UNCHANGED <<nodes, published>>

MainGetStatus ==
    /\ MainStep("status")
    /\ main' = IF MissionActive(status)
               THEN [main EXCEPT !.pc = "mission", !.sys = status]
               ELSE [MainIdle EXCEPT !.pc = "publish"]
    /\ UNCHANGED <<nodes, published>>

MainGetMission ==
    /\ MainStep("mission")
    /\ main' = [main EXCEPT !.pc = "navigation", !.misn = autoMission]
    /\ UNCHANGED <<nodes, published>>

(* The local commands at the end of the block, sys being the local status. *)
Targeted(c, m, i) == {[c EXCEPT !.target = w] : w \in LegTarget(m, i)}

MainGetNavigation ==
    /\ MainStep("navigation")
    /\ IF target_acheived
       THEN main' = [main EXCEPT !.pc = "clear"]
       ELSE \E c \in Targeted(main.cmnd, main.misn, main.sys.current) :
               main' = [MainIdle EXCEPT !.pc = "set_commands", !.cmnd = c]
    /\ UNCHANGED <<nodes, published>>

(* Slip: the flag is not reset.                                            *)
MainKeepTarget ==
    /\ MainStep("clear")
    /\ main' = [main EXCEPT !.pc = "advance"]
    /\ UNCHANGED <<nodes, published>>

MainClearTarget ==
    /\ MainStep("clear")
    /\ target_acheived' = FALSE
    /\ main' = [main EXCEPT !.pc = "advance"]
    /\ UNCHANGED <<status, commands, autoMission, published>>

MainAdvance ==
    /\ MainStep("advance")
    /\ LET sys == Advanced(main.sys)
           cmnd == IF Finished(sys) THEN Standby(main.cmnd) ELSE main.cmnd
       IN /\ status' = sys
          /\ \E c \in Targeted(cmnd, main.misn, sys.current) :
                main' = [MainIdle EXCEPT !.pc = "set_commands", !.cmnd = c]
    /\ UNCHANGED <<commands, target_acheived, autoMission, published>>

MainSetCommands ==
    /\ MainStep("set_commands")
    /\ commands' = main.cmnd
    /\ main' = [MainIdle EXCEPT !.pc = "publish"]
    /\ UNCHANGED <<status, target_acheived, autoMission, published>>

(* publish_mission_data reads the commands again.                          *)
MainPublish ==
    /\ MainStep("publish")
    /\ published' = Payload(commands)
    /\ main' = MainIdle
    /\ UNCHANGED nodes

MainNext ==
    \/ MainGetCommands \/ MainGetStatus \/ MainGetMission \/ MainGetNavigation
    \/ MainClearTarget \/ MainAdvance \/ MainSetCommands \/ MainPublish

-----------------------------------------------------------------------------
Next == GuiReceive \/ GuiContinue \/ MqttReceive \/ MqttContinue \/ MainNext

Spec == Init /\ [][Next]_vars

(* The loop of main() runs as long as the program; a handler that was      *)
(* entered has no wait in it.  Nothing makes a packet or message arrive.   *)
FairSpec == Spec /\ WF_vars(MainNext) /\ WF_vars(GuiContinue)
                 /\ WF_vars(MqttContinue)

-----------------------------------------------------------------------------
(* Types.                                                                  *)

GuiType == [pc : {"idle", "load_status", "load_mission", "set_status", "abort",
                  "abort_commands", "set_commands", "rov_mode"},
            pkt : Packets \cup {NoPacket}, sys : SystemStatus, cmnd : CommandData]
AckType == [op : {p.op : p \in Packets} \cup {"none"},
            code : {"none", "no_response", "not_recognized", "refused", "executed"}]
MqttType == [pc : {"idle", "control_commands", "set_commands", "imu_navigation",
                   "nav_status", "set_navigation", "set_status"},
             msg : Messages \cup {NoMessage}, nav : BOOLEAN,
             sys : SystemStatus, cmnd : CommandData]
MainType == [pc : {"idle", "status", "mission", "navigation", "clear", "advance",
                   "set_commands", "publish"},
             sys : SystemStatus, cmnd : CommandData, misn : Missions \cup {NoMission}]

(* Every node, every local copy and the payload keep their C++ types, the  *)
(* uint8_t leg counter and the array bounds of a stored waypoint included. *)
TypeOK ==
    /\ status \in SystemStatus
    /\ commands \in CommandData
    /\ target_acheived \in BOOLEAN
    /\ autoMission \in Missions \cup {NoMission}
    /\ published \in PayloadSet
    /\ ack \in AckType
    /\ gui \in GuiType
    /\ mqtt \in MqttType
    /\ main \in MainType

-----------------------------------------------------------------------------
(* Safety.  A stale copy is as good as the node it will be written to, so  *)
(* the properties speak of the node and of every pending copy of it.       *)

StatusCopies == {status, gui.sys, mqtt.sys, main.sys}
CommandCopies == {commands, gui.cmnd, mqtt.cmnd, main.cmnd}
ArmedAnywhere == \E s \in StatusCopies : s.armed
ModesCommanded == {c.mode : c \in CommandCopies}

(* Once no thread holds an armed SystemStatus, only an accepted            *)
(* start_mission arms the vehicle again, and it does so in autonomous      *)
(* mode, with a mission loaded and at its first leg: no write-back of a    *)
(* stale status, in any order, can arm it.                                 *)
ArmingNeedsStart ==
    [][~ArmedAnywhere /\ ArmedAnywhere' =>
          /\ gui'.pkt.op = "start_mission"
          /\ status.mode = "AUTONOMOUS" /\ status.total > 0 /\ status.current = 0]_vars

(* validateMissionFile saves the leg count before the waypoints, and       *)
(* start_mission only looks at the leg count; still the vehicle is never   *)
(* armed, and the main loop never computes a target, before some mission   *)
(* has been stored.                                                        *)
MissionStoredBeforeArmed ==
    /\ ArmedAnywhere => autoMission # NoMission
    /\ main.pc \in {"navigation", "clear", "advance"} => main.misn # NoMission

(* An arrival that is reported, being written, or being consumed.          *)
ArrivalAnywhere == target_acheived \/ mqtt.nav \/ main.pc \in {"clear", "advance"}

(* The mission only advances on an arrival, and an arrival only comes into *)
(* being when NavManager reports target_acheived = true.                   *)
ArrivalNeedsReport ==
    [][~ArrivalAnywhere /\ ArrivalAnywhere' =>
          /\ mqtt'.msg.topic = "NAV_STATUS"
          /\ mqtt'.msg.mission_command = "true"]_vars

(* IMU telemetry and distance reports write back a whole NavigationData    *)
(* read earlier, and yet never erase an arrival: the flag is only taken    *)
(* back by the main loop that consumes it or by an explicit false.         *)
ArrivalNotErased ==
    [][target_acheived /\ ~target_acheived' =>
          \/ main.pc = "clear"
          \/ mqtt.pc = "set_navigation" /\ mqtt.msg.mission_command = "false"]_vars

(* A leg number is never invented: a status copy is at leg 0, at a leg     *)
(* some copy was at, or one further than the leg the main loop saw when it *)
(* found the mission active, while it consumes an arrival.                 *)
LegsAdvanceByOne ==
    [][\A s \in StatusCopies' :
          \/ s.current \in {0} \cup {t.current : t \in StatusCopies}
          \/ /\ main.pc = "advance" /\ MissionActive(main.sys)
             /\ s.current = (main.sys.current + 1) % LegModulus]_vars

(* The modes the vehicle is commanded to are the operator's: a mode that   *)
(* no copy of the commands holds is only introduced by a select_mode       *)
(* packet, or is the standby of an abort or of a completed mission.        *)
ModesFromOperator ==
    [][\A m \in ModesCommanded' \ ModesCommanded :
          \/ m = "STANDBY"
          \/ gui'.pkt.op = "select_mode" /\ gui'.pkt.mode = m]_vars

-----------------------------------------------------------------------------
(* The inductive invariant behind the safety properties.                   *)

Loading == {"load_status", "load_mission"}
InMission == {"mission", "navigation", "clear", "advance"}

(* What a handler has in hand at each step.                                *)
HandlersInv ==
    /\ gui.pc # "idle" => gui.pkt \in Packets
    /\ gui.pc \in Loading => /\ gui.pkt.op = "select_mission"
                            /\ gui.pkt.mission \in Missions
    /\ mqtt.pc # "idle" => mqtt.msg \in Messages
    /\ mqtt.pc \in {"nav_status", "set_navigation", "set_status"} =>
          mqtt.msg.topic = "NAV_STATUS"
    /\ main.pc \in InMission => MissionActive(main.sys)

(* Before a mission is stored no status counts a leg, unless one is being  *)
(* loaded: then the GUI thread, the only one that arms, is not at a start. *)
LoadInv ==
    autoMission = NoMission =>
        gui.pc \in Loading \/ \A s \in StatusCopies : s.total = 0

(* The navigation copy of the MQTT thread is never behind an arrival: only *)
(* that thread raises the flag.                                            *)
ArrivalInv ==
    /\ mqtt.pc \in {"imu_navigation", "nav_status"} =>
          (target_acheived => mqtt.nav)
    /\ mqtt.pc = "set_navigation" =>
          (target_acheived => mqtt.nav \/ mqtt.msg.mission_command = "false")

Inv == TypeOK /\ HandlersInv /\ LoadInv /\ MissionStoredBeforeArmed /\ ArrivalInv

-----------------------------------------------------------------------------
(* Liveness, under FairSpec.                                               *)

(* An arrival on an active mission does not stay pending: it is consumed   *)
(* or taken back, or the mission stops being active.                       *)
ArrivalConsumed ==
    (target_acheived /\ MissionActive(status)) ~>
    (~target_acheived \/ ~MissionActive(status))

(* When the commands settle, the payload NavManager is given settles to    *)
(* them, whatever the threads were doing before.                           *)
PublishCatchesUp ==
    <>[][FALSE]_commands => <>[](published = Payload(commands))

(* When an active mission stays at a stored leg, that leg is the commanded *)
(* target again and again, however often an older target is written back.  *)
LegCommanded ==
    \A w \in {v \in Waypoints : v.mission # NoMission /\ v.leg < StoredLegs(v.mission)} :
        <>[](MissionActive(status) /\ autoMission = w.mission /\ status.current = w.leg)
        => []<>(commands.target = w)

-----------------------------------------------------------------------------
(* What the comments of the code say, and the interleavings break.         *)

(* GuiWiFiFrames.hpp:76, the answer to a request: "1 if request is         *)
(* executed successfully".  Until the next packet, the vehicle is then     *)
(* disarmed by an abort (GuiWiFiTask.cpp:205, "disarm"), and in the mode   *)
(* that was selected but for the end of a mission.                         *)
MissionOver == status.total > 0 /\ Finished(status)
ExecutedStands ==
    [][ack.code = "executed" =>
          /\ ack.op = "abort_mission" => ~status'.armed
          /\ ack.op = "select_mode" => commands'.mode = commands.mode \/ MissionOver]_vars

(* mission_manager.cpp:589: "mission finished. go to standby or stay there *)
(* only": no leg follows the last one.                                     *)
NoLegAfterLast == main.pc = "advance" => ~Finished(main.sys)

(* mission_manager.cpp:577, "consider reached to destination waypoint":    *)
(* the flag a leg is counted for rises on a report of arrival only.        *)
ArrivalOnlyReported ==
    [][~target_acheived /\ target_acheived' =>
          mqtt.pc = "set_navigation" /\ mqtt.msg.mission_command = "true"]_vars
=============================================================================
