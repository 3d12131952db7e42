------------------------ MODULE MissionManagerProofs ------------------------
(***************************************************************************)
(* Proofs about MissionManager, for every set of missions, array size,     *)
(* counter width and set of inputs.  Inv is inductive; the action          *)
(* properties follow from it, step by step.                                *)
(***************************************************************************)
EXTENDS MissionManager, TLAPS

USE MissionsAssumption, SizesAssumption, InputsAssumption

(* What the local changes of the handlers do to the types.                 *)
LEMMA StatusTypes ==
    /\ NoStatus \in SystemStatus
    /\ \A s \in SystemStatus :
          /\ Armed(s) \in SystemStatus /\ Disarmed(s) \in SystemStatus
          /\ Advanced(s) \in SystemStatus
          /\ \A m \in Missions : Loaded(s, m) \in SystemStatus
          /\ \A t \in ModeStrings \cup {"absent"} :
                [s EXCEPT !.mode = string_to_mode(t)] \in SystemStatus
<1>1. NoStatus \in SystemStatus
  BY DEF NoStatus, SystemStatus, Modes
<1>2. ASSUME NEW s \in SystemStatus
      PROVE /\ Armed(s) \in SystemStatus /\ Disarmed(s) \in SystemStatus
            /\ Advanced(s) \in SystemStatus
  <2>1. 0 \in 0 .. LegModulus - 1
    OBVIOUS
  <2>2. (s.current + 1) % LegModulus \in 0 .. LegModulus - 1
    <3>1. s.current + 1 \in Int /\ LegModulus \in Nat \ {0}
      BY DEF SystemStatus
    <3>2. QED BY <3>1
  <2>3. Armed(s) \in SystemStatus /\ Disarmed(s) \in SystemStatus
    BY <2>1 DEF Armed, Disarmed, SystemStatus
  <2>4. Advanced(s) \in SystemStatus
    BY <2>2 DEF Advanced, SystemStatus
  <2>5. QED BY <2>3, <2>4
<1>3. ASSUME NEW s \in SystemStatus, NEW m \in Missions
      PROVE Loaded(s, m) \in SystemStatus
  <2>1. Gotowps[m] \in Nat
    OBVIOUS
  <2>2. TotalLegs(m) \in 0 .. Count
    BY <2>1 DEF TotalLegs, TotalFor, Smaller
  <2>3. 0 \in 0 .. LegModulus - 1
    OBVIOUS
  <2>4. QED BY <2>2, <2>3 DEF Loaded, SystemStatus
<1>4. ASSUME NEW s \in SystemStatus, NEW t \in ModeStrings \cup {"absent"}
      PROVE [s EXCEPT !.mode = string_to_mode(t)] \in SystemStatus
  <2>1. string_to_mode(t) \in Modes
    BY DEF string_to_mode, Modes
  <2>2. QED BY <2>1 DEF SystemStatus
<1>5. QED BY <1>1, <1>2, <1>3, <1>4

LEMMA CommandTypes ==
    /\ NoCommands \in CommandData
    /\ \A c \in CommandData :
          /\ Standby(c) \in CommandData
          /\ \A msg : Steered(c, msg) \in CommandData
          /\ \A p \in Packets :
                p.op \in {"select_mode", "cmd_hsdt", "cmd_gcs_location", "rov_ctrl_pck"}
                => Commanded(c, p) \in CommandData
          /\ \A m \in Missions \cup {NoMission}, i \in 0 .. LegModulus - 1 :
                Targeted(c, m, i) \subseteq CommandData
          /\ Payload(c) \in PayloadSet
<1>1. ZeroWaypoint \in Waypoints
  BY DEF ZeroWaypoint, Waypoints
<1>2. NoCommands \in CommandData
  BY <1>1 DEF NoCommands, CommandData, Modes
<1>3. ASSUME NEW c \in CommandData
      PROVE Standby(c) \in CommandData /\ \A msg : Steered(c, msg) \in CommandData
  BY DEF Standby, Steered, CommandData, Modes
<1>4. ASSUME NEW c \in CommandData, NEW p \in Packets,
             p.op \in {"select_mode", "cmd_hsdt", "cmd_gcs_location", "rov_ctrl_pck"}
      PROVE Commanded(c, p) \in CommandData
  <2>1. p \in PacketSet
    OBVIOUS
  <2>2. p.op = "select_mode" => p.mode \in Modes
    BY <2>1 DEF PacketSet, SilentOps, UnhandledOps
  <2>3. p.op \in {"cmd_hsdt", "cmd_gcs_location"} => p.value \in Setpoints
    BY <2>1 DEF PacketSet, SilentOps, UnhandledOps
  <2>4. QED BY <1>4, <2>2, <2>3 DEF Commanded, CommandData
<1>5. ASSUME NEW c \in CommandData, NEW m \in Missions \cup {NoMission},
             NEW i \in 0 .. LegModulus - 1
      PROVE Targeted(c, m, i) \subseteq CommandData
  <2>1. LegTarget(m, i) \subseteq Waypoints
    <3>1. CASE i >= Count
      BY <3>1 DEF LegTarget
    <3>2. CASE ~(i >= Count)
      BY <3>2, <1>1 DEF LegTarget, Waypoints
    <3>3. QED BY <3>1, <3>2
  <2>2. QED BY <2>1 DEF Targeted, CommandData
<1>6. ASSUME NEW c \in CommandData
      PROVE Payload(c) \in PayloadSet
  <2>1. mode_to_string(c.mode) \in ModeStrings
    BY DEF mode_to_string, ModeStrings
  <2>2. /\ c.target \in Waypoints /\ c.semi \in Setpoints /\ c.home \in Setpoints
        /\ c.act \in {"none", "nav", "rov"}
    BY DEF CommandData
  <2>3. QED BY <2>1, <2>2 DEF Payload, PayloadSet
<1>7. QED BY <1>2, <1>3, <1>4, <1>5, <1>6

-----------------------------------------------------------------------------
(* Types, and what a handler has in hand.                                  *)

LEMMA TypeInit == Init => TypeOK /\ HandlersInv
<1> SUFFICES ASSUME Init PROVE TypeOK /\ HandlersInv
  OBVIOUS
<1> USE DEF Init, NoAck, NotPublished, GuiIdle, MqttIdle, MainIdle
<1>1. TypeOK
  BY StatusTypes, CommandTypes
  DEF TypeOK, AckType, PayloadSet, GuiType, MqttType, MainType
<1>2. HandlersInv
  BY DEF HandlersInv, Loading, InMission
<1>3. QED BY <1>1, <1>2

(* The packets and messages of each handler.                               *)
LEMMA PacketTypes ==
    \A p \in Packets : p.op = "select_mission" => p.mission \in Missions \cup {NoMission}
  BY DEF PacketSet, SilentOps, UnhandledOps

LEMMA MessageTypes ==
    \A msg \in Messages : msg.topic = "NAV_STATUS" =>
        /\ msg.mission_command \in {"absent", "distance", "true", "false"}
        /\ msg.mode \in ModeStrings \cup {"absent"}
  BY DEF MessageSet

(* Receipt and answer leave the GUI thread well-formed.                    *)
LEMMA AnswerTypes ==
    ASSUME NEW p \in Packets, NEW code \in {"no_response", "not_recognized",
                                            "refused", "executed"}, Answer(p, code)
    PROVE  gui' \in GuiType /\ gui'.pc = "idle" /\ ack' \in AckType
<1>1. gui' \in GuiType /\ gui'.pc = "idle"
  BY StatusTypes, CommandTypes DEF Answer, GuiIdle, GuiType
<1>2. ack' \in AckType
  BY DEF Answer, AckType
<1>3. QED BY <1>1, <1>2

LEMMA BeginTypes ==
    ASSUME NEW p \in Packets,
           NEW pc \in {"load_status", "set_status", "abort", "set_commands", "rov_mode"},
           NEW sys \in SystemStatus, NEW cmnd \in CommandData, Begin(p, pc, sys, cmnd)
    PROVE  /\ gui' \in GuiType /\ gui'.pc = pc /\ gui'.pkt = p /\ ack' \in AckType
<1>1. gui' \in GuiType /\ gui'.pc = pc /\ gui'.pkt = p
  BY DEF Begin, GuiType
<1>2. ack' \in AckType
  BY DEF Begin, AckType, NoAck
<1>3. QED BY <1>1, <1>2

LEMMA TypeNext == TypeOK /\ HandlersInv /\ [Next]_vars => TypeOK' /\ HandlersInv'
<1> SUFFICES ASSUME TypeOK, HandlersInv, [Next]_vars
             PROVE  TypeOK' /\ HandlersInv'
  OBVIOUS
<1> USE DEF TypeOK, HandlersInv, Loading, InMission
<1>1. ASSUME NEW p \in Packets,
             GuiOther(p) \/ GuiSelectMission(p) \/ GuiStart(p)
             \/ GuiAbort(p) \/ GuiCommand(p) \/ GuiRov(p)
      PROVE TypeOK' /\ HandlersInv'
  <2> USE PacketTypes, StatusTypes, CommandTypes, AnswerTypes, BeginTypes
      DEF GuiStep, nodes
  <2>1. CASE GuiOther(p)
    BY <2>1 DEF GuiOther
  <2>2. CASE GuiSelectMission(p)
    BY <2>2 DEF GuiSelectMission
  <2>3. CASE GuiStart(p)
    BY <2>3 DEF GuiStart
  <2>4. CASE GuiAbort(p)
    BY <2>4 DEF GuiAbort
  <2>5. CASE GuiCommand(p)
    BY <2>5 DEF GuiCommand
  <2>6. CASE GuiRov(p)
    BY <2>6 DEF GuiRov
  <2>7. QED BY <1>1, <2>1, <2>2, <2>3, <2>4, <2>5, <2>6
<1>2. ASSUME GuiContinue PROVE TypeOK' /\ HandlersInv'
  <2> USE StatusTypes, CommandTypes, AnswerTypes DEF GuiStep, nodes
  <2>1. CASE GuiLoadStatus
    BY <2>1 DEF GuiLoadStatus, GuiType
  <2>2. CASE GuiLoadMission
    BY <2>2 DEF GuiLoadMission
  <2>3. CASE GuiAbortCommands
    BY <2>3 DEF GuiAbortCommands, GuiType
  <2>4. CASE GuiAbortSet
    BY <2>4 DEF GuiAbortSet, GuiType
  <2>5. CASE GuiSetStatus
    <3>1. gui.pkt \in Packets /\ Answer(gui.pkt, "executed") /\ status' = gui.sys
      BY <2>5 DEF GuiSetStatus
    <3>2. gui' \in GuiType /\ gui'.pc = "idle" /\ ack' \in AckType
      BY <3>1
    <3>3. status' \in SystemStatus
      BY <3>1 DEF GuiType
    <3>4. QED BY <2>5, <3>2, <3>3 DEF GuiSetStatus
  <2>6. CASE GuiRovMode
    <3>1. CASE RovAllowed(status)
      BY <2>6, <3>1 DEF GuiRovMode, GuiType
    <3>2. CASE ~RovAllowed(status)
      BY <2>6, <3>2 DEF GuiRovMode
    <3>3. QED BY <3>1, <3>2
  <2>7. CASE GuiSetCommands
    <3> DEFINE code == IF gui.pkt.op = "rov_ctrl_pck" THEN "no_response" ELSE "executed"
    <3>1. gui.pkt \in Packets /\ Answer(gui.pkt, code) /\ commands' = gui.cmnd
      BY <2>7 DEF GuiSetCommands
    <3>2. gui' \in GuiType /\ gui'.pc = "idle" /\ ack' \in AckType
      BY <3>1
    <3>3. commands' \in CommandData
      BY <3>1 DEF GuiType
    <3>4. QED BY <2>7, <3>2, <3>3 DEF GuiSetCommands
  <2>8. QED BY <1>2, <2>1, <2>2, <2>3, <2>4, <2>5, <2>6, <2>7 DEF GuiContinue
<1>3. ASSUME NEW msg \in Messages,
             MqttNavControl(msg) \/ MqttImu(msg) \/ MqttNavStatus(msg)
      PROVE TypeOK' /\ HandlersInv'
  BY <1>3 DEF MqttNavControl, MqttImu, MqttNavStatus, MqttStep, Handle, nodes, MqttType
<1>4. ASSUME MqttContinue PROVE TypeOK' /\ HandlersInv'
  <2> USE StatusTypes, CommandTypes DEF MqttStep, nodes, MqttType, MqttIdle
  <2>1. CASE MqttControlCommands
    BY <2>1 DEF MqttControlCommands
  <2>2. CASE MqttSetCommands
    BY <2>2 DEF MqttSetCommands
  <2>3. CASE MqttImuSet
    BY <2>3 DEF MqttImuSet
  <2>4. CASE MqttNavStatusGet
    <3> DEFINE nav == Reported(mqtt.nav, mqtt.msg)
               sys == [status EXCEPT !.mode = string_to_mode(mqtt.msg.mode)]
    <3>1. mqtt.msg.mode \in ModeStrings \cup {"absent"}
      BY <2>4, MessageTypes DEF MqttNavStatusGet
    <3>2. nav \in BOOLEAN /\ sys \in SystemStatus
      BY <3>1 DEF Reported
    <3> HIDE DEF nav, sys
    <3>3. mqtt' \in MqttType
      <4>1. MqttIdle \in MqttType
        OBVIOUS
      <4>2. \A pc \in {"set_navigation", "set_status"}, n \in BOOLEAN, t \in SystemStatus :
                [mqtt EXCEPT !.pc = pc, !.nav = n, !.sys = t] \in MqttType
        OBVIOUS
      <4> DEFINE navUpdate == mqtt.msg.mission_command # "absent"
                 sysUpdate == mqtt.msg.mode # "absent"
                 pc == IF navUpdate THEN "set_navigation" ELSE "set_status"
                 n == navUpdate /\ nav
                 t == IF sysUpdate THEN sys ELSE NoStatus
      <4>3. pc \in {"set_navigation", "set_status"} /\ t \in SystemStatus
        BY <3>2
      <4>4. n \in BOOLEAN
        BY <3>2
      <4>5. mqtt' = MqttIdle \/ mqtt' = [mqtt EXCEPT !.pc = pc, !.nav = n, !.sys = t]
        BY <2>4 DEF MqttNavStatusGet, nav, sys
      <4> HIDE DEF MqttType, MqttIdle, navUpdate, sysUpdate, pc, n, t
      <4>6. [mqtt EXCEPT !.pc = pc, !.nav = n, !.sys = t] \in MqttType
        BY <4>2, <4>3, <4>4, Zenon
      <4>7. QED BY <4>1, <4>5, <4>6
    <3>4. mqtt'.pc # "idle" => mqtt'.msg = mqtt.msg
      BY <2>4 DEF MqttNavStatusGet
    <3>5. QED BY <2>4, <3>3, <3>4 DEF MqttNavStatusGet
  <2>5. CASE MqttSetNavigation
    BY <2>5 DEF MqttSetNavigation
  <2>6. CASE MqttSetStatus
    BY <2>6 DEF MqttSetStatus
  <2>7. QED BY <1>4, <2>1, <2>2, <2>3, <2>4, <2>5, <2>6 DEF MqttContinue
<1>5. ASSUME MainNext PROVE TypeOK' /\ HandlersInv'
  <2> USE StatusTypes, CommandTypes DEF MainStep, nodes, MainType, MainIdle
  <2>1. CASE MainGetCommands
    BY <2>1 DEF MainGetCommands
  <2>2. CASE MainGetStatus
    BY <2>2 DEF MainGetStatus
  <2>3. CASE MainGetMission
    BY <2>3 DEF MainGetMission
  <2>4. CASE MainGetNavigation
    <3>1. main.sys.current \in 0 .. LegModulus - 1
      BY DEF SystemStatus
    <3>2. Targeted(main.cmnd, main.misn, main.sys.current) \subseteq CommandData
      BY <3>1
    <3>3. CASE target_acheived
      BY <2>4, <3>3 DEF MainGetNavigation
    <3>4. CASE ~target_acheived
      BY <2>4, <3>2, <3>4 DEF MainGetNavigation
    <3>5. QED BY <3>3, <3>4
  <2>5. CASE MainClearTarget
    BY <2>5 DEF MainClearTarget
  <2>6. CASE MainAdvance
    <3>1. Advanced(main.sys) \in SystemStatus
      OBVIOUS
    <3>2. Advanced(main.sys).current \in 0 .. LegModulus - 1
      BY <3>1 DEF SystemStatus
    <3> DEFINE sys == Advanced(main.sys)
               cmnd == IF Finished(sys) THEN Standby(main.cmnd) ELSE main.cmnd
    <3>3. cmnd \in CommandData
      OBVIOUS
    <3>4. Targeted(cmnd, main.misn, sys.current) \subseteq CommandData
      <4> HIDE DEF cmnd
      <4>1. QED BY <3>2, <3>3
    <3>5. status' \in SystemStatus
      BY <2>6, <3>1 DEF MainAdvance
    <3>6. PICK c \in CommandData :
             main' = [MainIdle EXCEPT !.pc = "set_commands", !.cmnd = c]
      BY <2>6, <3>4 DEF MainAdvance
    <3>7. QED BY <2>6, <3>5, <3>6 DEF MainAdvance
  <2>7. CASE MainSetCommands
    BY <2>7 DEF MainSetCommands
  <2>8. CASE MainPublish
    BY <2>8 DEF MainPublish
  <2>9. QED BY <1>5, <2>1, <2>2, <2>3, <2>4, <2>5, <2>6, <2>7, <2>8 DEF MainNext
<1>6. CASE UNCHANGED vars
  BY <1>6 DEF vars
<1>7. QED BY <1>1, <1>2, <1>3, <1>4, <1>5, <1>6
          DEF Next, GuiReceive, MqttReceive

(* Every node, copy and payload keeps its C++ type.                        *)
THEOREM TypeCorrect == Spec => []TypeOK
<1>1. Spec => [](TypeOK /\ HandlersInv)
  BY TypeInit, TypeNext, PTL DEF Spec
<1>2. QED BY <1>1, PTL

-----------------------------------------------------------------------------
(* The inductive invariant.                                                *)

LEMMA InvInit == Init => Inv
<1> SUFFICES ASSUME Init PROVE Inv
  OBVIOUS
<1>1. TypeOK /\ HandlersInv
  BY TypeInit
<1>2. LoadInv /\ MissionStoredBeforeArmed
  BY DEF Init, GuiIdle, MqttIdle, MainIdle, NoStatus, LoadInv, StatusCopies,
         MissionStoredBeforeArmed, ArmedAnywhere
<1>3. ArrivalInv
  BY DEF Init, MqttIdle, ArrivalInv
<1>4. QED BY <1>1, <1>2, <1>3 DEF Inv

(* The fields the local changes keep, set or reset.                        *)
LEMMA StatusFields ==
    /\ NoStatus.total = 0 /\ ~NoStatus.armed
    /\ \A s \in SystemStatus :
          /\ Armed(s).total = s.total
          /\ Disarmed(s).total = s.total /\ ~Disarmed(s).armed
          /\ Advanced(s).total = s.total /\ (Advanced(s).armed <=> s.armed)
          /\ \A m \in Missions : (Loaded(s, m).armed <=> s.armed)
          /\ \A mode : /\ [s EXCEPT !.mode = mode].total = s.total
                       /\ ([s EXCEPT !.mode = mode].armed <=> s.armed)
  BY DEF NoStatus, Armed, Disarmed, Advanced, Loaded, SystemStatus

LEMMA LoadNext ==
    TypeOK /\ HandlersInv /\ LoadInv /\ MissionStoredBeforeArmed /\ [Next]_vars
    => LoadInv' /\ MissionStoredBeforeArmed'
<1> SUFFICES ASSUME TypeOK, HandlersInv, LoadInv, MissionStoredBeforeArmed, [Next]_vars
             PROVE  LoadInv' /\ MissionStoredBeforeArmed'
  OBVIOUS
<1> DEFINE NoLegs == /\ status.total = 0 /\ gui.sys.total = 0
                     /\ mqtt.sys.total = 0 /\ main.sys.total = 0
           Unarmed == /\ ~status.armed /\ ~gui.sys.armed
                      /\ ~mqtt.sys.armed /\ ~main.sys.armed
           Fields == /\ autoMission = NoMission => (gui.pc \in Loading \/ NoLegs) /\ Unarmed
                     /\ main.pc \in {"navigation", "clear", "advance"} => main.misn # NoMission
<1>a. Fields
  BY DEF LoadInv, MissionStoredBeforeArmed, ArmedAnywhere, StatusCopies,
         TypeOK, GuiType, MqttType, MainType, SystemStatus
<1>b. ASSUME Fields' PROVE LoadInv' /\ MissionStoredBeforeArmed'
  <2>1. \A s \in StatusCopies' : s \in {status', gui'.sys, mqtt'.sys, main'.sys}
    BY DEF StatusCopies
  <2>2. autoMission' = NoMission /\ gui'.pc \notin Loading =>
            /\ status'.total = 0 /\ gui'.sys.total = 0
            /\ mqtt'.sys.total = 0 /\ main'.sys.total = 0
    BY <1>b
  <2>3. autoMission' = NoMission => /\ ~status'.armed /\ ~gui'.sys.armed
                                   /\ ~mqtt'.sys.armed /\ ~main'.sys.armed
    BY <1>b
  <2>4. LoadInv'
    <3> HIDE DEF Fields
    <3>1. QED BY <2>1, <2>2 DEF LoadInv
  <2>5. autoMission' = NoMission => \A s \in StatusCopies' : ~s.armed
    <3> HIDE DEF Fields
    <3>1. QED BY <2>1, <2>3
  <2>6. MissionStoredBeforeArmed'
    BY <1>b, <2>5 DEF MissionStoredBeforeArmed, ArmedAnywhere
  <2>7. QED BY <2>4, <2>6
<1>c. /\ status \in SystemStatus /\ main.sys \in SystemStatus
      /\ gui = [pc |-> gui.pc, pkt |-> gui.pkt, sys |-> gui.sys, cmnd |-> gui.cmnd]
      /\ mqtt = [pc |-> mqtt.pc, msg |-> mqtt.msg, nav |-> mqtt.nav,
                 sys |-> mqtt.sys, cmnd |-> mqtt.cmnd]
      /\ main = [pc |-> main.pc, sys |-> main.sys, cmnd |-> main.cmnd, misn |-> main.misn]
  BY DEF TypeOK, GuiType, MqttType, MainType
<1>d. /\ gui.pc \in Loading => gui.pkt.mission \in Missions
      /\ main.pc \in InMission => main.sys.armed
  BY DEF HandlersInv, MissionActive
<1>6. ASSUME UNCHANGED vars PROVE Fields'
  BY <1>6, <1>a DEF vars
<1> USE <1>a, <1>c, <1>d, StatusFields DEF Loading, InMission
<1>1. ASSUME NEW p \in Packets,
             GuiOther(p) \/ GuiSelectMission(p) \/ GuiStart(p)
             \/ GuiAbort(p) \/ GuiCommand(p) \/ GuiRov(p)
      PROVE Fields'
  <2> USE DEF GuiStep, Begin, Answer, GuiIdle, nodes
  <2>1. CASE GuiOther(p)
    <3>1. UNCHANGED <<status, mqtt, main, autoMission>> /\ gui'.sys = NoStatus /\ gui.pc = "idle"
      BY <2>1 DEF GuiOther
    <3>2. QED BY <3>1
  <2>2. CASE GuiSelectMission(p)
    <3>1. CASE p.mission = NoMission
      BY <2>2, <3>1 DEF GuiSelectMission
    <3>2. CASE p.mission # NoMission
      BY <2>2, <3>2, PacketTypes DEF GuiSelectMission
    <3>3. QED BY <3>1, <3>2
  <2>3. CASE GuiStart(p)
    <3>1. CASE StartAllowed(status)
      BY <2>3, <3>1 DEF GuiStart, StartAllowed
    <3>2. CASE ~StartAllowed(status)
      BY <2>3, <3>2 DEF GuiStart
    <3>3. QED BY <3>1, <3>2
  <2>4. CASE GuiAbort(p)
    <3>1. CASE AbortAllowed(status)
      BY <2>4, <3>1 DEF GuiAbort
    <3>2. CASE ~AbortAllowed(status)
      BY <2>4, <3>2 DEF GuiAbort
    <3>3. QED BY <3>1, <3>2
  <2>5. CASE GuiCommand(p)
    BY <2>5 DEF GuiCommand
  <2>6. CASE GuiRov(p)
    BY <2>6 DEF GuiRov
  <2>7. QED BY <1>1, <2>1, <2>2, <2>3, <2>4, <2>5, <2>6
<1>2. ASSUME GuiContinue
      PROVE Fields'
  <2> USE DEF GuiStep, Answer, GuiIdle, nodes
  <2>1. CASE GuiLoadStatus
    BY <2>1 DEF GuiLoadStatus
  <2>2. CASE GuiLoadMission
    <3>1. autoMission' # NoMission /\ UNCHANGED main
      BY <2>2 DEF GuiLoadMission
    <3>2. QED BY <3>1
  <2>3. CASE GuiAbortCommands
    BY <2>3 DEF GuiAbortCommands
  <2>4. CASE GuiAbortSet
    BY <2>4 DEF GuiAbortSet
  <2>5. CASE GuiSetStatus
    BY <2>5 DEF GuiSetStatus
  <2>6. CASE GuiRovMode
    <3>1. CASE RovAllowed(status)
      BY <2>6, <3>1 DEF GuiRovMode
    <3>2. CASE ~RovAllowed(status)
      BY <2>6, <3>2 DEF GuiRovMode
    <3>3. QED BY <3>1, <3>2
  <2>7. CASE GuiSetCommands
    BY <2>7 DEF GuiSetCommands
  <2>8. QED BY <1>2, <2>1, <2>2, <2>3, <2>4, <2>5, <2>6, <2>7 DEF GuiContinue
<1>3. ASSUME NEW msg \in Messages,
             MqttNavControl(msg) \/ MqttImu(msg) \/ MqttNavStatus(msg)
      PROVE Fields'
  <2> USE DEF MqttStep, Handle, MqttIdle, nodes
  <2>1. CASE MqttNavControl(msg)
    BY <2>1 DEF MqttNavControl
  <2>2. CASE MqttImu(msg)
    BY <2>2 DEF MqttImu
  <2>3. CASE MqttNavStatus(msg)
    BY <2>3 DEF MqttNavStatus
  <2>4. QED BY <1>3, <2>1, <2>2, <2>3
<1>4. ASSUME MqttContinue
      PROVE Fields'
  <2> USE DEF MqttStep, MqttIdle, nodes
  <2>1. CASE MqttControlCommands
    BY <2>1 DEF MqttControlCommands
  <2>2. CASE MqttSetCommands
    BY <2>2 DEF MqttSetCommands
  <2>3. CASE MqttImuSet
    BY <2>3 DEF MqttImuSet
  <2>4. CASE MqttNavStatusGet
    BY <2>4 DEF MqttNavStatusGet
  <2>5. CASE MqttSetNavigation
    BY <2>5 DEF MqttSetNavigation
  <2>6. CASE MqttSetStatus
    BY <2>6 DEF MqttSetStatus
  <2>7. QED BY <1>4, <2>1, <2>2, <2>3, <2>4, <2>5, <2>6 DEF MqttContinue
<1>5. ASSUME MainNext
      PROVE Fields'
  <2> USE DEF MainStep, MainIdle, nodes
  <2>1. CASE MainGetCommands
    BY <2>1 DEF MainGetCommands
  <2>2. CASE MainGetStatus
    <3>1. CASE MissionActive(status)
      BY <2>2, <3>1 DEF MainGetStatus
    <3>2. CASE ~MissionActive(status)
      BY <2>2, <3>2 DEF MainGetStatus
    <3>3. QED BY <3>1, <3>2
  <2>3. CASE MainGetMission
    BY <2>3 DEF MainGetMission
  <2>4. CASE MainGetNavigation
    <3>1. CASE target_acheived
      BY <2>4, <3>1 DEF MainGetNavigation
    <3>2. CASE ~target_acheived
      <4>1. UNCHANGED <<status, gui, mqtt, autoMission>>
        BY <2>4 DEF MainGetNavigation
      <4>2. PICK c : main' = [MainIdle EXCEPT !.pc = "set_commands", !.cmnd = c]
        BY <2>4, <3>2 DEF MainGetNavigation
      <4>3. main'.pc = "set_commands" /\ main'.sys = NoStatus
        BY <4>2
      <4>4. QED BY <4>1, <4>3
    <3>3. QED BY <3>1, <3>2
  <2>5. CASE MainClearTarget
    BY <2>5 DEF MainClearTarget
  <2>6. CASE MainAdvance
    <3>1. status' = Advanced(main.sys)
      BY <2>6 DEF MainAdvance
    <3>2. main'.pc = "set_commands" /\ main'.sys = NoStatus
      BY <2>6 DEF MainAdvance
    <3>3. QED BY <2>6, <3>1, <3>2 DEF MainAdvance
  <2>7. CASE MainSetCommands
    BY <2>7 DEF MainSetCommands
  <2>8. CASE MainPublish
    BY <2>8 DEF MainPublish
  <2>9. QED BY <1>5, <2>1, <2>2, <2>3, <2>4, <2>5, <2>6, <2>7, <2>8 DEF MainNext
<1> HIDE DEF Fields
<1>7. Fields'
  BY <1>1, <1>2, <1>3, <1>4, <1>5, <1>6 DEF Next, GuiReceive, MqttReceive
<1>8. QED BY <1>b, <1>7

LEMMA ArrivalNext == TypeOK /\ HandlersInv /\ ArrivalInv /\ [Next]_vars => ArrivalInv'
<1> SUFFICES ASSUME TypeOK, HandlersInv, ArrivalInv, [Next]_vars PROVE ArrivalInv'
  OBVIOUS
<1> USE DEF TypeOK, MqttType, HandlersInv, ArrivalInv, Reported
<1>1. ASSUME NEW p \in Packets, GuiOther(p) \/ GuiSelectMission(p) \/ GuiStart(p)
             \/ GuiAbort(p) \/ GuiCommand(p) \/ GuiRov(p)
      PROVE ArrivalInv'
  <2> USE DEF GuiStep, Begin, Answer, GuiIdle, nodes
  <2>1. CASE GuiOther(p)
    BY <2>1 DEF GuiOther
  <2>2. CASE GuiSelectMission(p)
    BY <2>2 DEF GuiSelectMission
  <2>3. CASE GuiStart(p)
    BY <2>3 DEF GuiStart
  <2>4. CASE GuiAbort(p)
    BY <2>4 DEF GuiAbort
  <2>5. CASE GuiCommand(p)
    BY <2>5 DEF GuiCommand
  <2>6. CASE GuiRov(p)
    BY <2>6 DEF GuiRov
  <2>7. QED BY <1>1, <2>1, <2>2, <2>3, <2>4, <2>5, <2>6
<1>2. ASSUME GuiContinue
      PROVE ArrivalInv'
  <2> USE DEF GuiStep, Answer, GuiIdle, nodes
  <2>1. CASE GuiLoadStatus
    BY <2>1 DEF GuiLoadStatus
  <2>2. CASE GuiLoadMission
    BY <2>2 DEF GuiLoadMission
  <2>3. CASE GuiAbortCommands
    BY <2>3 DEF GuiAbortCommands
  <2>4. CASE GuiAbortSet
    BY <2>4 DEF GuiAbortSet
  <2>5. CASE GuiSetStatus
    BY <2>5 DEF GuiSetStatus
  <2>6. CASE GuiRovMode
    BY <2>6 DEF GuiRovMode
  <2>7. CASE GuiSetCommands
    BY <2>7 DEF GuiSetCommands
  <2>8. QED BY <1>2, <2>1, <2>2, <2>3, <2>4, <2>5, <2>6, <2>7 DEF GuiContinue
<1>3. ASSUME NEW msg \in Messages, MqttNavControl(msg) \/ MqttImu(msg) \/ MqttNavStatus(msg)
      PROVE ArrivalInv'
  <2> USE DEF MqttStep, Handle, MqttIdle, nodes
  <2>1. CASE MqttNavControl(msg)
    BY <2>1 DEF MqttNavControl
  <2>2. CASE MqttImu(msg)
    BY <2>2 DEF MqttImu
  <2>3. CASE MqttNavStatus(msg)
    BY <2>3 DEF MqttNavStatus
  <2>4. QED BY <1>3, <2>1, <2>2, <2>3
<1>4. ASSUME MqttContinue
      PROVE ArrivalInv'
  <2> USE DEF MqttStep, MqttIdle, nodes
  <2>1. CASE MqttControlCommands
    BY <2>1 DEF MqttControlCommands
  <2>2. CASE MqttSetCommands
    BY <2>2 DEF MqttSetCommands
  <2>3. CASE MqttImuSet
    BY <2>3 DEF MqttImuSet
  <2>4. CASE MqttNavStatusGet
    BY <2>4 DEF MqttNavStatusGet
  <2>5. CASE MqttSetNavigation
    BY <2>5 DEF MqttSetNavigation
  <2>6. CASE MqttSetStatus
    BY <2>6 DEF MqttSetStatus
  <2>7. QED BY <1>4, <2>1, <2>2, <2>3, <2>4, <2>5, <2>6 DEF MqttContinue
<1>5. ASSUME MainNext
      PROVE ArrivalInv'
  <2> USE DEF MainStep, MainIdle, nodes
  <2>1. CASE MainGetCommands
    BY <2>1 DEF MainGetCommands
  <2>2. CASE MainGetStatus
    BY <2>2 DEF MainGetStatus
  <2>3. CASE MainGetMission
    BY <2>3 DEF MainGetMission
  <2>4. CASE MainGetNavigation
    BY <2>4 DEF MainGetNavigation
  <2>5. CASE MainClearTarget
    BY <2>5 DEF MainClearTarget
  <2>6. CASE MainAdvance
    BY <2>6 DEF MainAdvance
  <2>7. CASE MainSetCommands
    BY <2>7 DEF MainSetCommands
  <2>8. CASE MainPublish
    BY <2>8 DEF MainPublish
  <2>9. QED BY <1>5, <2>1, <2>2, <2>3, <2>4, <2>5, <2>6, <2>7, <2>8 DEF MainNext
<1>6. CASE UNCHANGED vars
  BY <1>6 DEF vars
<1>7. QED BY <1>1, <1>2, <1>3, <1>4, <1>5, <1>6
          DEF Next, GuiReceive, MqttReceive

LEMMA InvNext == Inv /\ [Next]_vars => Inv'
  BY TypeNext, LoadNext, ArrivalNext DEF Inv

(* The conjunction TLC checks in Mission, for every value of a constant:   *)
(* whatever a handler has in hand between a get and a set fits the nodes.  *)
THEOREM InvAlways == Spec => []Inv
  BY InvInit, InvNext, PTL DEF Spec

(* No thread holds an armed status, and the main loop computes no target,  *)
(* before a mission is stored in autoMissionData.                          *)
THEOREM MissionStored == Spec => []MissionStoredBeforeArmed
<1>1. Inv => MissionStoredBeforeArmed
  BY DEF Inv
<1>2. QED BY <1>1, InvAlways, PTL

-----------------------------------------------------------------------------
(* The action properties.                                                  *)

ArmingStep ==
    ~ArmedAnywhere /\ ArmedAnywhere' =>
        /\ gui'.pkt.op = "start_mission"
        /\ status.mode = "AUTONOMOUS" /\ status.total > 0 /\ status.current = 0

LEMMA ArmingStepHolds == Inv /\ [Next]_vars => [ArmingStep]_vars
<1> SUFFICES ASSUME Inv, [Next]_vars, ~UNCHANGED vars PROVE ArmingStep
  OBVIOUS
<1> DEFINE Unarmed == /\ ~status.armed /\ ~gui.sys.armed
                      /\ ~mqtt.sys.armed /\ ~main.sys.armed
           StartOrNot == Unarmed' \/ /\ gui'.pkt.op = "start_mission"
                                     /\ StartAllowed(status)
<1>a. SUFFICES ASSUME Unarmed PROVE StartOrNot
  BY DEF ArmingStep, ArmedAnywhere, StatusCopies, StartAllowed
<1>c. /\ status \in SystemStatus /\ main.sys \in SystemStatus
      /\ gui = [pc |-> gui.pc, pkt |-> gui.pkt, sys |-> gui.sys, cmnd |-> gui.cmnd]
      /\ mqtt = [pc |-> mqtt.pc, msg |-> mqtt.msg, nav |-> mqtt.nav,
                 sys |-> mqtt.sys, cmnd |-> mqtt.cmnd]
      /\ main = [pc |-> main.pc, sys |-> main.sys, cmnd |-> main.cmnd, misn |-> main.misn]
  BY DEF Inv, TypeOK, GuiType, MqttType, MainType
<1>d. main.pc \in InMission => main.sys.armed
  BY DEF Inv, HandlersInv, MissionActive
<1> USE <1>a, <1>c, <1>d, StatusFields DEF InMission
<1>1. ASSUME NEW p \in Packets,
             GuiOther(p) \/ GuiSelectMission(p) \/ GuiStart(p)
             \/ GuiAbort(p) \/ GuiCommand(p) \/ GuiRov(p)
      PROVE StartOrNot
  <2> USE DEF GuiStep, Begin, Answer, GuiIdle, nodes
  <2>1. CASE GuiOther(p)
    BY <2>1 DEF GuiOther
  <2>2. CASE GuiSelectMission(p)
    <3>1. CASE p.mission = NoMission
      BY <2>2, <3>1 DEF GuiSelectMission
    <3>2. CASE ~(p.mission = NoMission)
      BY <2>2, <3>2, PacketTypes DEF GuiSelectMission
    <3>3. QED BY <3>1, <3>2
  <2>3. CASE GuiStart(p)
    <3>1. CASE StartAllowed(status)
      BY <2>3, <3>1 DEF GuiStart, StartAllowed
    <3>2. CASE ~(StartAllowed(status))
      BY <2>3, <3>2 DEF GuiStart
    <3>3. QED BY <3>1, <3>2
  <2>4. CASE GuiAbort(p)
    <3>1. CASE AbortAllowed(status)
      BY <2>4, <3>1 DEF GuiAbort
    <3>2. CASE ~(AbortAllowed(status))
      BY <2>4, <3>2 DEF GuiAbort
    <3>3. QED BY <3>1, <3>2
  <2>5. CASE GuiCommand(p)
    BY <2>5 DEF GuiCommand
  <2>6. CASE GuiRov(p)
    BY <2>6 DEF GuiRov
  <2>7. QED BY <1>1, <2>1, <2>2, <2>3, <2>4, <2>5, <2>6
<1>2. ASSUME GuiContinue
      PROVE StartOrNot
  <2> USE DEF GuiStep, Answer, GuiIdle, nodes
  <2>1. CASE GuiLoadStatus
    BY <2>1 DEF GuiLoadStatus
  <2>2. CASE GuiLoadMission
    BY <2>2 DEF GuiLoadMission
  <2>3. CASE GuiAbortCommands
    BY <2>3 DEF GuiAbortCommands
  <2>4. CASE GuiAbortSet
    BY <2>4 DEF GuiAbortSet
  <2>5. CASE GuiSetStatus
    BY <2>5 DEF GuiSetStatus
  <2>6. CASE GuiRovMode
    <3>1. CASE RovAllowed(status)
      BY <2>6, <3>1 DEF GuiRovMode
    <3>2. CASE ~(RovAllowed(status))
      BY <2>6, <3>2 DEF GuiRovMode
    <3>3. QED BY <3>1, <3>2
  <2>7. CASE GuiSetCommands
    BY <2>7 DEF GuiSetCommands
  <2>8. QED BY <1>2, <2>1, <2>2, <2>3, <2>4, <2>5, <2>6, <2>7 DEF GuiContinue
<1>3. ASSUME NEW msg \in Messages,
             MqttNavControl(msg) \/ MqttImu(msg) \/ MqttNavStatus(msg)
      PROVE StartOrNot
  <2> USE DEF MqttStep, Handle, MqttIdle, nodes
  <2>1. CASE MqttNavControl(msg)
    BY <2>1 DEF MqttNavControl
  <2>2. CASE MqttImu(msg)
    BY <2>2 DEF MqttImu
  <2>3. CASE MqttNavStatus(msg)
    BY <2>3 DEF MqttNavStatus
  <2>4. QED BY <1>3, <2>1, <2>2, <2>3
<1>4. ASSUME MqttContinue
      PROVE StartOrNot
  <2> USE DEF MqttStep, MqttIdle, nodes
  <2>1. CASE MqttControlCommands
    BY <2>1 DEF MqttControlCommands
  <2>2. CASE MqttSetCommands
    BY <2>2 DEF MqttSetCommands
  <2>3. CASE MqttImuSet
    BY <2>3 DEF MqttImuSet
  <2>4. CASE MqttNavStatusGet
    BY <2>4 DEF MqttNavStatusGet
  <2>5. CASE MqttSetNavigation
    BY <2>5 DEF MqttSetNavigation
  <2>6. CASE MqttSetStatus
    BY <2>6 DEF MqttSetStatus
  <2>7. QED BY <1>4, <2>1, <2>2, <2>3, <2>4, <2>5, <2>6 DEF MqttContinue
<1>5. ASSUME MainNext
      PROVE StartOrNot
  <2> USE DEF MainStep, MainIdle, nodes
  <2>1. CASE MainGetCommands
    BY <2>1 DEF MainGetCommands
  <2>2. CASE MainGetStatus
    <3>1. CASE MissionActive(status)
      BY <2>2, <3>1 DEF MainGetStatus
    <3>2. CASE ~(MissionActive(status))
      BY <2>2, <3>2 DEF MainGetStatus
    <3>3. QED BY <3>1, <3>2
  <2>3. CASE MainGetMission
    BY <2>3 DEF MainGetMission
  <2>4. CASE MainGetNavigation
    <3>1. CASE target_acheived
      BY <2>4, <3>1 DEF MainGetNavigation
    <3>2. CASE ~target_acheived
      <4>1. UNCHANGED <<status, gui, mqtt, autoMission>>
        BY <2>4 DEF MainGetNavigation
      <4>2. PICK c : main' = [MainIdle EXCEPT !.pc = "set_commands", !.cmnd = c]
        BY <2>4, <3>2 DEF MainGetNavigation
      <4>3. main'.pc = "set_commands" /\ main'.sys = NoStatus
        BY <4>2
      <4>4. QED BY <4>1, <4>3
    <3>3. QED BY <3>1, <3>2
  <2>5. CASE MainClearTarget
    BY <2>5 DEF MainClearTarget
  <2>6. CASE MainAdvance
    <3>1. status' = Advanced(main.sys) /\ UNCHANGED <<gui, mqtt>>
      BY <2>6 DEF MainAdvance
    <3>2. main'.pc = "set_commands" /\ main'.sys = NoStatus
      BY <2>6 DEF MainAdvance
    <3>3. QED BY <2>6, <3>1, <3>2 DEF MainAdvance
  <2>7. CASE MainSetCommands
    BY <2>7 DEF MainSetCommands
  <2>8. CASE MainPublish
    BY <2>8 DEF MainPublish
  <2>9. QED BY <1>5, <2>1, <2>2, <2>3, <2>4, <2>5, <2>6, <2>7, <2>8 DEF MainNext
<1> HIDE DEF StartOrNot
<1>7. QED BY <1>1, <1>2, <1>3, <1>4, <1>5 DEF Next, GuiReceive, MqttReceive, vars

(* However the write-backs interleave, a vehicle that no copy of the       *)
(* status shows armed is only armed by a start_mission it was ready for.   *)
THEOREM ArmingByStartOnly == Spec => ArmingNeedsStart
<1>1. Spec => [][ArmingStep]_vars
  BY InvAlways, ArmingStepHolds, PTL DEF Spec
<1>2. QED BY <1>1 DEF ArmingNeedsStart, ArmingStep

(* The GUI thread leaves the navigation and the other threads alone.       *)
LEMMA GuiFrame ==
    GuiReceive \/ GuiContinue => UNCHANGED <<target_acheived, mqtt, main>>
  BY DEF GuiReceive, GuiContinue, GuiOther, GuiSelectMission, GuiStart, GuiAbort,
         GuiCommand, GuiRov, GuiLoadStatus, GuiLoadMission, GuiAbortCommands, GuiAbortSet,
         GuiSetStatus, GuiRovMode, GuiSetCommands, GuiStep, nodes

ReportStep ==
    ~ArrivalAnywhere /\ ArrivalAnywhere' =>
        /\ mqtt'.msg.topic = "NAV_STATUS"
        /\ mqtt'.msg.mission_command = "true"

LEMMA ReportStepHolds == Inv /\ [Next]_vars => [ReportStep]_vars
<1> SUFFICES ASSUME Inv, [Next]_vars, ~UNCHANGED vars, ~ArrivalAnywhere, ArrivalAnywhere'
             PROVE  mqtt'.msg.topic = "NAV_STATUS" /\ mqtt'.msg.mission_command = "true"
  BY DEF ReportStep
<1>1. /\ mqtt \in MqttType /\ main \in MainType /\ target_acheived \in BOOLEAN
      /\ mqtt.pc = "nav_status" => mqtt.msg.topic = "NAV_STATUS"
  BY DEF Inv, TypeOK, HandlersInv
<1> USE <1>1 DEF ArrivalAnywhere, MqttType, MainType, nodes
<1>2. ~GuiReceive /\ ~GuiContinue
  BY GuiFrame
<1>3. ASSUME NEW msg \in Messages,
             MqttNavControl(msg) \/ MqttImu(msg) \/ MqttNavStatus(msg)
      PROVE FALSE
  BY <1>3 DEF MqttNavControl, MqttImu, MqttNavStatus, MqttStep, Handle
<1>4. ASSUME MqttContinue PROVE MqttNavStatusGet
  <2> USE DEF MqttStep, MqttIdle
  <2>1. ASSUME MqttControlCommands PROVE FALSE
    <3>1. UNCHANGED <<target_acheived, main>>
      BY <2>1 DEF MqttControlCommands
    <3>2. mqtt'.nav = mqtt.nav
      BY <2>1 DEF MqttControlCommands
    <3>3. QED BY <3>1, <3>2
  <2>2. ~MqttSetCommands /\ ~MqttSetStatus
    BY DEF MqttSetCommands, MqttSetStatus
  <2>3. ~MqttImuSet
    BY DEF MqttImuSet
  <2>4. ASSUME MqttSetNavigation PROVE FALSE
    <3>1. target_acheived' = mqtt.nav /\ UNCHANGED main
      BY <2>4 DEF MqttSetNavigation
    <3>2. ~mqtt'.nav
      <4>1. CASE mqtt.msg.mode = "absent"
        BY <2>4, <4>1 DEF MqttSetNavigation
      <4>2. CASE mqtt.msg.mode # "absent"
        BY <2>4, <4>2 DEF MqttSetNavigation
      <4>3. QED BY <4>1, <4>2
    <3>3. QED BY <3>1, <3>2
  <2>5. QED BY <1>4, <2>1, <2>2, <2>3, <2>4 DEF MqttContinue
<1>5. ASSUME MqttNavStatusGet
      PROVE  mqtt'.msg.topic = "NAV_STATUS" /\ mqtt'.msg.mission_command = "true"
  <2>1. UNCHANGED <<target_acheived, main>> /\ mqtt.msg.topic = "NAV_STATUS"
    BY <1>5 DEF MqttNavStatusGet, MqttStep
  <2>2. mqtt'.nav => mqtt'.msg = mqtt.msg /\ Reported(mqtt.nav, mqtt.msg)
    BY <1>5 DEF MqttNavStatusGet, MqttIdle
  <2>3. QED BY <2>1, <2>2 DEF Reported
<1>6. ASSUME MainNext PROVE FALSE
  <2> USE DEF MainStep, MainIdle
  <2>1. ASSUME MainGetNavigation PROVE FALSE
    <3>1. PICK c : main' = [MainIdle EXCEPT !.pc = "set_commands", !.cmnd = c]
      BY <2>1 DEF MainGetNavigation
    <3>2. UNCHANGED <<target_acheived, mqtt>>
      BY <2>1 DEF MainGetNavigation
    <3>3. QED BY <3>1, <3>2
  <2>2. ~MainAdvance
    BY DEF MainAdvance
  <2>3. ~MainGetCommands /\ ~MainGetStatus /\ ~MainGetMission
    BY DEF MainGetCommands, MainGetStatus, MainGetMission
  <2>4. ~MainClearTarget /\ ~MainSetCommands /\ ~MainPublish
    BY DEF MainClearTarget, MainSetCommands, MainPublish
  <2>5. QED BY <1>6, <2>1, <2>2, <2>3, <2>4 DEF MainNext
<1>7. QED BY <1>2, <1>3, <1>4, <1>5, <1>6 DEF Next, MqttReceive, vars

(* A leg only advances on an arrival, and every arrival traces back to a   *)
(* report of NavManager.                                                   *)
THEOREM ArrivalsAreReported == Spec => ArrivalNeedsReport
<1>1. Spec => [][ReportStep]_vars
  BY InvAlways, ReportStepHolds, PTL DEF Spec
<1>2. QED BY <1>1 DEF ArrivalNeedsReport, ReportStep

EraseStep ==
    target_acheived /\ ~target_acheived' =>
        \/ main.pc = "clear"
        \/ mqtt.pc = "set_navigation" /\ mqtt.msg.mission_command = "false"

LEMMA EraseStepHolds == Inv /\ [Next]_vars => [EraseStep]_vars
<1> SUFFICES ASSUME Inv, [Next]_vars, target_acheived, ~target_acheived'
             PROVE  \/ main.pc = "clear"
                    \/ mqtt.pc = "set_navigation" /\ mqtt.msg.mission_command = "false"
  BY DEF EraseStep
<1>1. ArrivalInv
  BY DEF Inv
<1> USE DEF nodes
<1>2. ~GuiReceive /\ ~GuiContinue
  BY GuiFrame
<1>3. ~MqttReceive
  BY DEF MqttReceive, MqttNavControl, MqttImu, MqttNavStatus
<1>4. MqttContinue => MqttSetNavigation
  BY <1>1 DEF MqttContinue, MqttControlCommands, MqttSetCommands, MqttImuSet,
              MqttNavStatusGet, MqttSetStatus, MqttStep, ArrivalInv
<1>5. MqttSetNavigation =>
          mqtt.pc = "set_navigation" /\ mqtt.msg.mission_command = "false"
  BY <1>1 DEF MqttSetNavigation, MqttStep, ArrivalInv
<1>6. MainNext => main.pc = "clear"
  BY DEF MainNext, MainGetCommands, MainGetStatus, MainGetMission, MainGetNavigation,
         MainClearTarget, MainAdvance, MainSetCommands, MainPublish, MainStep
<1>7. ~UNCHANGED vars
  BY DEF vars
<1>8. QED BY <1>2, <1>3, <1>4, <1>5, <1>6, <1>7 DEF Next

(* The read-modify-writes of telemetry never lose an arrival.              *)
THEOREM ArrivalsAreKept == Spec => ArrivalNotErased
<1>1. Spec => [][EraseStep]_vars
  BY InvAlways, EraseStepHolds, PTL DEF Spec
<1>2. QED BY <1>1 DEF ArrivalNotErased, EraseStep
=============================================================================
