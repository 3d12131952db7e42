------------------------- MODULE MissionCopiesProofs -------------------------
(***************************************************************************)
(* Proofs about what the copies of the status and of the commands hold,    *)
(* for any missions, inputs and interleaving: legs are never invented and  *)
(* modes are the operator's.                                               *)
(***************************************************************************)
EXTENDS MissionManagerProofs

LegStep ==
    \A s \in StatusCopies' :
        \/ s.current \in {0} \cup {t.current : t \in StatusCopies}
        \/ /\ main.pc = "advance" /\ MissionActive(main.sys)
           /\ s.current = (main.sys.current + 1) % LegModulus

(* What the local changes do to the leg number.                            *)
LEMMA CurrentFields ==
    /\ NoStatus.current = 0
    /\ \A s \in SystemStatus :
          /\ Armed(s).current = s.current
          /\ Disarmed(s).current = 0
          /\ Advanced(s).current = (s.current + 1) % LegModulus
          /\ \A m \in Missions : Loaded(s, m).current = 0
          /\ \A mode : [s EXCEPT !.mode = mode].current = s.current
  BY DEF NoStatus, Armed, Disarmed, Advanced, Loaded, SystemStatus

LEMMA LegStepHolds == Inv /\ [Next]_vars => [LegStep]_vars
<1> SUFFICES ASSUME Inv, [Next]_vars, ~UNCHANGED vars PROVE LegStep
  OBVIOUS
<1> DEFINE Legs == {0, status.current, gui.sys.current, mqtt.sys.current, main.sys.current}
           Kept == /\ status'.current \in Legs /\ gui'.sys.current \in Legs
                   /\ mqtt'.sys.current \in Legs /\ main'.sys.current \in Legs
           Moved == /\ main.pc = "advance"
                    /\ status'.current = (main.sys.current + 1) % LegModulus
                    /\ gui'.sys.current \in Legs /\ mqtt'.sys.current \in Legs
                    /\ main'.sys.current \in Legs
<1>a. main.pc = "advance" => MissionActive(main.sys)
  BY DEF Inv, HandlersInv, InMission
<1>b. SUFFICES Kept \/ Moved
  BY <1>a DEF LegStep, StatusCopies
<1>c. /\ status \in SystemStatus /\ main.sys \in SystemStatus
      /\ gui = [pc |-> gui.pc, pkt |-> gui.pkt, sys |-> gui.sys, cmnd |-> gui.cmnd]
      /\ mqtt = [pc |-> mqtt.pc, msg |-> mqtt.msg, nav |-> mqtt.nav,
                 sys |-> mqtt.sys, cmnd |-> mqtt.cmnd]
      /\ main = [pc |-> main.pc, sys |-> main.sys, cmnd |-> main.cmnd, misn |-> main.misn]
  BY DEF Inv, TypeOK, GuiType, MqttType, MainType
<1> USE <1>c, CurrentFields
<1>1. ASSUME NEW p \in Packets,
             GuiOther(p) \/ GuiSelectMission(p) \/ GuiStart(p)
             \/ GuiAbort(p) \/ GuiCommand(p) \/ GuiRov(p)
      PROVE Kept \/ Moved
  <2> USE DEF GuiStep, Begin, Answer, GuiIdle, nodes
  <2>1. CASE GuiOther(p)
    BY <2>1 DEF GuiOther
  <2>2. CASE GuiSelectMission(p)
    <3>1. CASE p.mission = NoMission
      BY <2>2, <3>1 DEF GuiSelectMission
    <3>2. CASE ~(p.mission = NoMission)
      BY PacketTypes, <2>2, <3>2 DEF GuiSelectMission
    <3>3. QED BY <3>1, <3>2
  <2>3. CASE GuiStart(p)
    <3>1. CASE StartAllowed(status)
      BY <2>3, <3>1 DEF GuiStart
    <3>2. CASE ~(StartAllowed(status))
      BY <2>3, <3>2 DEF GuiStart
    <3>3. QED BY <3>1, <3>2
  <2>4. CASE GuiAbort(p)
    <3>1. CASE AbortAllowed(status)
      BY <2>4, <3>1 DEF GuiAbort
    <3>2. CASE ~(AbortAllowed(status))
      BY <2>4, <3>2 DEF GuiAbort
    <3>3. QED BY <3>1, <3>2
  <2>5. CASE GuiCommand(p)
    BY <2>5 DEF GuiCommand
  <2>6. CASE GuiRov(p)
    BY <2>6 DEF GuiRov
  <2>7. QED BY <1>1, <2>1, <2>2, <2>3, <2>4, <2>5, <2>6
<1>2. ASSUME GuiContinue
      PROVE Kept \/ Moved
  <2> USE DEF GuiStep, Answer, GuiIdle, nodes
  <2>1. CASE GuiLoadStatus
    BY <2>1 DEF GuiLoadStatus
  <2>2. CASE GuiLoadMission
    BY <2>2 DEF GuiLoadMission
  <2>3. CASE GuiAbortCommands
    BY <2>3 DEF GuiAbortCommands
  <2>4. CASE GuiAbortSet
    BY <2>4 DEF GuiAbortSet
  <2>5. CASE GuiSetStatus
    BY <2>5 DEF GuiSetStatus
  <2>6. CASE GuiRovMode
    <3>1. CASE RovAllowed(status)
      BY <2>6, <3>1 DEF GuiRovMode
    <3>2. CASE ~(RovAllowed(status))
      BY <2>6, <3>2 DEF GuiRovMode
    <3>3. QED BY <3>1, <3>2
  <2>7. CASE GuiSetCommands
    BY <2>7 DEF GuiSetCommands
  <2>8. QED BY <1>2, <2>1, <2>2, <2>3, <2>4, <2>5, <2>6, <2>7 DEF GuiContinue
<1>3. ASSUME NEW msg \in Messages,
             MqttNavControl(msg) \/ MqttImu(msg) \/ MqttNavStatus(msg)
      PROVE Kept \/ Moved
  <2> USE DEF MqttStep, Handle, MqttIdle, nodes
  <2>1. CASE MqttNavControl(msg)
    BY <2>1 DEF MqttNavControl
  <2>2. CASE MqttImu(msg)
    BY <2>2 DEF MqttImu
  <2>3. CASE MqttNavStatus(msg)
    BY <2>3 DEF MqttNavStatus
  <2>4. QED BY <1>3, <2>1, <2>2, <2>3
<1>4. ASSUME MqttContinue
      PROVE Kept \/ Moved
  <2> USE DEF MqttStep, MqttIdle, nodes
  <2>1. CASE MqttControlCommands
    BY <2>1 DEF MqttControlCommands
  <2>2. CASE MqttSetCommands
    BY <2>2 DEF MqttSetCommands
  <2>3. CASE MqttImuSet
    BY <2>3 DEF MqttImuSet
  <2>4. CASE MqttNavStatusGet
    BY <2>4 DEF MqttNavStatusGet
  <2>5. CASE MqttSetNavigation
    BY <2>5 DEF MqttSetNavigation
  <2>6. CASE MqttSetStatus
    BY <2>6 DEF MqttSetStatus
  <2>7. QED BY <1>4, <2>1, <2>2, <2>3, <2>4, <2>5, <2>6 DEF MqttContinue
<1>5. ASSUME MainNext
      PROVE Kept \/ Moved
  <2> USE DEF MainStep, MainIdle, nodes
  <2>1. CASE MainGetCommands
    BY <2>1 DEF MainGetCommands
  <2>2. CASE MainGetStatus
    BY <2>2 DEF MainGetStatus
  <2>3. CASE MainGetMission
    BY <2>3 DEF MainGetMission
  <2>4. CASE MainGetNavigation
    <3>1. /\ status' = status /\ gui' = gui /\ mqtt' = mqtt
          /\ main'.sys \in {main.sys, NoStatus}
      BY <2>4 DEF MainGetNavigation, Targeted
    <3>2. QED BY <3>1
  <2>5. CASE MainClearTarget
    BY <2>5 DEF MainClearTarget
  <2>6. CASE MainAdvance
    <3>1. /\ status' = Advanced(main.sys) /\ gui' = gui /\ mqtt' = mqtt
          /\ main'.sys = NoStatus /\ main.pc = "advance"
      BY <2>6 DEF MainAdvance, Targeted
    <3>2. QED BY <3>1
  <2>7. CASE MainSetCommands
    BY <2>7 DEF MainSetCommands
  <2>8. CASE MainPublish
    BY <2>8 DEF MainPublish
  <2>9. QED BY <1>5, <2>1, <2>2, <2>3, <2>4, <2>5, <2>6, <2>7, <2>8 DEF MainNext
<1>6. CASE UNCHANGED vars
  BY <1>6 DEF vars
<1>7. QED BY <1>1, <1>2, <1>3, <1>4, <1>5, <1>6 DEF Next, GuiReceive, MqttReceive

(* However stale the status a thread writes back, its leg is one that was  *)
(* current or pending somewhere, the first one, or the next of the leg     *)
(* being flown: the counter never skips and never comes from nowhere.      *)
THEOREM LegsAreNotInvented == Spec => LegsAdvanceByOne
<1>1. Spec => [][LegStep]_vars
  BY InvAlways, LegStepHolds, PTL DEF Spec
<1>2. QED BY <1>1 DEF LegsAdvanceByOne, LegStep

-----------------------------------------------------------------------------
ModeStep ==
    \A m \in ModesCommanded' \ ModesCommanded :
        \/ m = "STANDBY"
        \/ gui'.pkt.op = "select_mode" /\ gui'.pkt.mode = m

(* What the local changes do to the commanded mode.                        *)
LEMMA ModeFields ==
    /\ NoCommands.mode = "STANDBY"
    /\ \A c \in CommandData :
          /\ Standby(c).mode = "STANDBY"
          /\ \A msg : Steered(c, msg).mode = c.mode
          /\ \A w : [c EXCEPT !.target = w].mode = c.mode
          /\ \A p \in Packets :
                Commanded(c, p).mode = IF p.op = "select_mode" THEN p.mode ELSE c.mode
<1> USE DEF CommandData
<1>1. NoCommands.mode = "STANDBY"
  BY DEF NoCommands
<1>2. \A c \in CommandData : Standby(c).mode = "STANDBY"
  BY DEF Standby
<1>3. \A c \in CommandData : \A msg : Steered(c, msg).mode = c.mode
  BY DEF Steered
<1>4. \A c \in CommandData : \A w : [c EXCEPT !.target = w].mode = c.mode
  OBVIOUS
<1>5. \A c \in CommandData, p \in Packets :
          Commanded(c, p).mode = IF p.op = "select_mode" THEN p.mode ELSE c.mode
  BY DEF Commanded
<1>6. QED BY <1>1, <1>2, <1>3, <1>4, <1>5

LEMMA ModeStepHolds == Inv /\ [Next]_vars => [ModeStep]_vars
<1> SUFFICES ASSUME Inv, [Next]_vars, ~UNCHANGED vars PROVE ModeStep
  OBVIOUS
<1> DEFINE Modeset == {"STANDBY", commands.mode, gui.cmnd.mode, mqtt.cmnd.mode, main.cmnd.mode}
           Old == /\ commands'.mode \in Modeset /\ mqtt'.cmnd.mode \in Modeset
                  /\ main'.cmnd.mode \in Modeset
           New == \/ gui'.cmnd.mode \in Modeset
                  \/ gui'.pkt.op = "select_mode" /\ gui'.pkt.mode = gui'.cmnd.mode
<1>a. SUFFICES Old /\ New
  BY DEF ModeStep, ModesCommanded, CommandCopies
<1>c. /\ commands \in CommandData /\ main.cmnd \in CommandData
      /\ gui = [pc |-> gui.pc, pkt |-> gui.pkt, sys |-> gui.sys, cmnd |-> gui.cmnd]
      /\ mqtt = [pc |-> mqtt.pc, msg |-> mqtt.msg, nav |-> mqtt.nav,
                 sys |-> mqtt.sys, cmnd |-> mqtt.cmnd]
      /\ main = [pc |-> main.pc, sys |-> main.sys, cmnd |-> main.cmnd, misn |-> main.misn]
  BY DEF Inv, TypeOK, GuiType, MqttType, MainType
<1> USE <1>c, ModeFields
<1>1. ASSUME NEW p \in Packets,
             GuiOther(p) \/ GuiSelectMission(p) \/ GuiStart(p)
             \/ GuiAbort(p) \/ GuiCommand(p) \/ GuiRov(p)
      PROVE Old /\ New
  <2> USE DEF GuiStep, Begin, Answer, GuiIdle, nodes
  <2>1. CASE GuiOther(p)
    BY <2>1 DEF GuiOther
  <2>2. CASE GuiSelectMission(p)
    <3>1. CASE p.mission = NoMission
      BY <2>2, <3>1 DEF GuiSelectMission
    <3>2. CASE ~(p.mission = NoMission)
      BY PacketTypes, <2>2, <3>2 DEF GuiSelectMission
    <3>3. QED BY <3>1, <3>2
  <2>3. CASE GuiStart(p)
    <3>1. CASE StartAllowed(status)
      BY <2>3, <3>1 DEF GuiStart
    <3>2. CASE ~(StartAllowed(status))
      BY <2>3, <3>2 DEF GuiStart
    <3>3. QED BY <3>1, <3>2
  <2>4. CASE GuiAbort(p)
    <3>1. CASE AbortAllowed(status)
      BY <2>4, <3>1 DEF GuiAbort
    <3>2. CASE ~(AbortAllowed(status))
      BY <2>4, <3>2 DEF GuiAbort
    <3>3. QED BY <3>1, <3>2
  <2>5. CASE GuiCommand(p)
    BY <2>5 DEF GuiCommand
  <2>6. CASE GuiRov(p)
    <3>1. /\ commands' = commands /\ mqtt' = mqtt /\ main' = main
          /\ gui'.cmnd = Commanded(commands, p) /\ p.op # "select_mode"
      BY <2>6 DEF GuiRov
    <3>2. QED BY <3>1
  <2>7. QED BY <1>1, <2>1, <2>2, <2>3, <2>4, <2>5, <2>6
<1>2. ASSUME GuiContinue
      PROVE Old /\ New
  <2> USE DEF GuiStep, Answer, GuiIdle, nodes
  <2>1. CASE GuiLoadStatus
    BY <2>1 DEF GuiLoadStatus
  <2>2. CASE GuiLoadMission
    BY <2>2 DEF GuiLoadMission
  <2>3. CASE GuiAbortCommands
    BY <2>3 DEF GuiAbortCommands
  <2>4. CASE GuiAbortSet
    BY <2>4 DEF GuiAbortSet
  <2>5. CASE GuiSetStatus
    BY <2>5 DEF GuiSetStatus
  <2>6. CASE GuiRovMode
    <3>1. CASE RovAllowed(status)
      BY <2>6, <3>1 DEF GuiRovMode
    <3>2. CASE ~(RovAllowed(status))
      BY <2>6, <3>2 DEF GuiRovMode
    <3>3. QED BY <3>1, <3>2
  <2>7. CASE GuiSetCommands
    BY <2>7 DEF GuiSetCommands
  <2>8. QED BY <1>2, <2>1, <2>2, <2>3, <2>4, <2>5, <2>6, <2>7 DEF GuiContinue
<1>3. ASSUME NEW msg \in Messages,
             MqttNavControl(msg) \/ MqttImu(msg) \/ MqttNavStatus(msg)
      PROVE Old /\ New
  <2> USE DEF MqttStep, Handle, MqttIdle, nodes
  <2>1. CASE MqttNavControl(msg)
    BY <2>1 DEF MqttNavControl
  <2>2. CASE MqttImu(msg)
    BY <2>2 DEF MqttImu
  <2>3. CASE MqttNavStatus(msg)
    BY <2>3 DEF MqttNavStatus
  <2>4. QED BY <1>3, <2>1, <2>2, <2>3
<1>4. ASSUME MqttContinue
      PROVE Old /\ New
  <2> USE DEF MqttStep, MqttIdle, nodes
  <2>1. CASE MqttControlCommands
    BY <2>1 DEF MqttControlCommands
  <2>2. CASE MqttSetCommands
    BY <2>2 DEF MqttSetCommands
  <2>3. CASE MqttImuSet
    BY <2>3 DEF MqttImuSet
  <2>4. CASE MqttNavStatusGet
    BY <2>4 DEF MqttNavStatusGet
  <2>5. CASE MqttSetNavigation
    BY <2>5 DEF MqttSetNavigation
  <2>6. CASE MqttSetStatus
    BY <2>6 DEF MqttSetStatus
  <2>7. QED BY <1>4, <2>1, <2>2, <2>3, <2>4, <2>5, <2>6 DEF MqttContinue
<1>5. ASSUME MainNext
      PROVE Old /\ New
  <2> USE DEF MainStep, MainIdle, nodes
  <2>1. CASE MainGetCommands
    BY <2>1 DEF MainGetCommands
  <2>2. CASE MainGetStatus
    BY <2>2 DEF MainGetStatus
  <2>3. CASE MainGetMission
    BY <2>3 DEF MainGetMission
  <2>4. CASE MainGetNavigation
    <3>1. commands' = commands /\ gui' = gui /\ mqtt' = mqtt
      BY <2>4 DEF MainGetNavigation
    <3>2. CASE target_acheived
      BY <2>4, <3>1, <3>2 DEF MainGetNavigation
    <3>3. CASE ~target_acheived
      <4>1. PICK d \in Targeted(main.cmnd, main.misn, main.sys.current) : main'.cmnd = d
        BY <2>4, <3>3 DEF MainGetNavigation
      <4>2. PICK w : d = [main.cmnd EXCEPT !.target = w]
        BY <4>1 DEF Targeted
      <4>3. d.mode = main.cmnd.mode
        BY <4>2
      <4>4. QED BY <3>1, <4>1, <4>3
    <3>4. QED BY <3>2, <3>3
  <2>5. CASE MainClearTarget
    BY <2>5 DEF MainClearTarget
  <2>6. CASE MainAdvance
    <3>1. PICK c \in {main.cmnd, Standby(main.cmnd)} : \E w :
             main'.cmnd = [c EXCEPT !.target = w]
      <4>1. PICK c \in {main.cmnd, Standby(main.cmnd)} :
               \E d \in Targeted(c, main.misn, Advanced(main.sys).current) : main'.cmnd = d
        BY <2>6 DEF MainAdvance
      <4>2. PICK w : main'.cmnd = [c EXCEPT !.target = w]
        BY <4>1 DEF Targeted
      <4>3. QED BY <4>2
    <3>2. /\ commands' = commands /\ gui' = gui /\ mqtt' = mqtt
          /\ main.cmnd \in CommandData /\ Standby(main.cmnd) \in CommandData
      BY <2>6, CommandTypes DEF MainAdvance
    <3>3. main'.cmnd.mode \in {main.cmnd.mode, "STANDBY"}
      BY <3>1, <3>2
    <3>4. QED BY <3>2, <3>3
  <2>7. CASE MainSetCommands
    BY <2>7 DEF MainSetCommands
  <2>8. CASE MainPublish
    BY <2>8 DEF MainPublish
  <2>9. QED BY <1>5, <2>1, <2>2, <2>3, <2>4, <2>5, <2>6, <2>7, <2>8 DEF MainNext
<1>6. CASE UNCHANGED vars
  BY <1>6 DEF vars
<1>7. QED BY <1>1, <1>2, <1>3, <1>4, <1>5, <1>6 DEF Next, GuiReceive, MqttReceive

(* No interleaving of the read-modify-writes commands a mode of its own:   *)
(* it is one the operator selected, one still pending, or standby.         *)
THEOREM ModesAreTheOperators == Spec => ModesFromOperator
<1>1. Spec => [][ModeStep]_vars
  BY InvAlways, ModeStepHolds, PTL DEF Spec
<1>2. QED BY <1>1 DEF ModesFromOperator, ModeStep
=============================================================================
