-------------------------- MODULE LifecycleProofs --------------------------
(***************************************************************************)
(* The safety properties of Lifecycle for any number of retries: main()    *)
(* waits for the GUI thread, the client outlives its users, a thread that  *)
(* gave up leaves no socket, and nothing is misused before a stop.         *)
(***************************************************************************)
EXTENDS Lifecycle, TLAPS

Whole == Members \cup {Base}

(* An attempt is made within the bound, and before the mosquitto thread.   *)
StartInv ==
    /\ pc = "connecting" => retry_count < MaxRetries
    /\ pc \in {"create", "connect", "connecting", "loop_start"} => loop = "off"
    /\ gui # "none" => pc \in {"loop", "destroy", "join", "returned"}

(* guiwifi is only taken apart after a signal, and its flag last.          *)
ObjectInv ==
    /\ pc \in {"destroy", "join"} => ~running
    /\ gui \in AtWork /\ running => parts = Whole
    /\ gui \in AtWork => task_running \/ parts = {}

(* The Boolean part of TypeOK, for steps that set or reset a flag.         *)
Flags ==
    /\ running \in BOOLEAN /\ mqtt_connected \in BOOLEAN /\ subscribed \in BOOLEAN
    /\ task_running \in BOOLEAN

(* The sockets that may be open, by where the GUI thread is.               *)
SocketInv ==
    /\ gui \in {"none", "no_thread", "entry", "server_init"} => initialized = {}
    /\ gui \in {"client_init", "deinit"} => initialized \subseteq {"server"}

IInv ==
    /\ TypeOK /\ StartInv /\ ObjectInv /\ SocketInv
    /\ JoinedAtExit /\ ClientOutlivesUsers /\ NoSocketLeft /\ FaultsNeedSignal

-----------------------------------------------------------------------------
(* A misuse on the GUI thread's way happens after a signal.                *)
LEMMA GuiMisuse ==
    ASSUME IInv, gui \in AtWork, Uses[gui] \notin parts
    PROVE  ~running
  BY DEF IInv, ObjectInv, Uses, AtWork, Whole, Members, Base

LEMMA InitInv == Init => IInv
  <1> SUFFICES ASSUME Init PROVE IInv
    OBVIOUS
  <1>1. TypeOK
    <2>1. Flags
      BY DEF Init, Flags
    <2> QED
      BY <2>1, RetriesAssumption DEF Init, TypeOK, Flags, AtWork
  <1>2. StartInv
    BY DEF Init, StartInv
  <1>3. ObjectInv
    BY DEF Init, ObjectInv, AtWork
  <1>4. SocketInv
    BY DEF Init, SocketInv
  <1>5. JoinedAtExit
    BY DEF Init, JoinedAtExit
  <1>6. ClientOutlivesUsers
    BY DEF Init, ClientOutlivesUsers
  <1>7. NoSocketLeft /\ FaultsNeedSignal
    BY DEF Init, NoSocketLeft, FaultsNeedSignal
  <1> QED
    BY <1>1, <1>2, <1>3, <1>4, <1>5, <1>6, <1>7 DEF IInv

LEMMA MainInv == IInv /\ Main => IInv'
  <1> SUFFICES ASSUME IInv, Main PROVE IInv'
    OBVIOUS
  <1> USE DEF IInv, TypeOK, StartInv, ObjectInv, SocketInv, JoinedAtExit, ClientOutlivesUsers,
         NoSocketLeft, FaultsNeedSignal, MainStep, Alive, guiVars, objectVars,
         AtWork
  <1>1. CASE Create
    BY <1>1 DEF Create
  <1>2. CASE CreateFails
    BY <1>2 DEF CreateFails
  <1>3. CASE TryConnect
    BY <1>3, RetriesAssumption DEF TryConnect, Attempts
  <1>4. CASE ConnectFails
    BY <1>4, RetriesAssumption DEF ConnectFails
  <1>5. CASE ConnectSucceeds
    BY <1>5 DEF ConnectSucceeds
  <1>6. CASE GivesUp
    BY <1>6 DEF GivesUp
  <1>7. CASE LoopStart
    BY <1>7 DEF LoopStart
  <1>8. CASE StartTask
    BY <1>8 DEF StartTask, Whole, Members, Base
  <1>9. CASE LeaveLoop
    BY <1>9 DEF LeaveLoop
  <1>10. CASE DestroyMember
    BY <1>10 DEF DestroyMember, NextPart, Whole, Members, Base
  <1>11. CASE Stop
    <2>1. Flags'
      BY <1>11 DEF Stop, Flags
    <2> QED
      BY <1>11, <2>1 DEF Stop, Flags, Whole, Members, Base
  <1>12. CASE Join
    BY <1>12 DEF Join, ThreadEnded
  <1>13. CASE JoinNoThread
    BY <1>13 DEF JoinNoThread, Misused
  <1> QED
    BY <1>1, <1>2, <1>3, <1>4, <1>5, <1>6, <1>7, <1>8, <1>9, <1>10, <1>11, <1>12, <1>13
       DEF Main

LEMMA SignalInv == IInv /\ Signal => IInv'
  <1> SUFFICES ASSUME IInv, Signal PROVE IInv'
    OBVIOUS
  <1>1. Flags'
    BY DEF Signal, IInv, TypeOK, Flags, mqttVars, objectVars
  <1> QED
    BY <1>1 DEF Flags, Signal, Alive, mainVars, mqttVars, guiVars, objectVars, IInv, TypeOK, StartInv, ObjectInv,
         SocketInv, JoinedAtExit, ClientOutlivesUsers, NoSocketLeft, FaultsNeedSignal, AtWork

LEMMA MqttInv == IInv /\ Mqtt => IInv'
  <1> SUFFICES ASSUME IInv, Mqtt PROVE IInv'
    OBVIOUS
  <1> USE DEF IInv, TypeOK, StartInv, ObjectInv, SocketInv, JoinedAtExit, ClientOutlivesUsers,
         NoSocketLeft, FaultsNeedSignal, MqttStep, Alive, mainVars, guiVars, objectVars,
         AtWork
  <1>1. CASE Reconnect
    BY <1>1 DEF Reconnect
  <1>2. CASE OnConnect
    <2>1. Flags'
      BY <1>2 DEF OnConnect, Flags
    <2> QED
      BY <1>2, <2>1 DEF OnConnect, Flags
  <1>3. CASE OnDisconnect
    <2>1. Flags'
      BY <1>3 DEF OnDisconnect, Flags
    <2> QED
      BY <1>3, <2>1 DEF OnDisconnect, Flags
  <1>4. CASE OnMessageThrows
    BY <1>4 DEF OnMessageThrows, Misused
  <1> QED
    BY <1>1, <1>2, <1>3, <1>4 DEF Mqtt

(* What any step of the GUI thread from one place to another keeps.        *)
LEMMA GuiStepInv ==
    ASSUME IInv, NEW from \in AtWork, NEW to \in AtWork \cup {"ended"}, GuiStep(from, to)
    PROVE  /\ fault' \in {"none", "exception", "join", "pure_virtual", "destroyed_member"}
           /\ FaultsNeedSignal'
           /\ gui = from /\ gui' = to /\ exit = "no"
           /\ UNCHANGED <<pc, retry_count, mqtt_client, running, loop, link, mqtt_connected,
                          subscribed, parts, task_running, exit>>
  <1>1. fault' # fault => ~running
    BY GuiMisuse DEF GuiStep
  <1> QED
    BY <1>1 DEF GuiStep, FaultOf, Misused, IInv, TypeOK, FaultsNeedSignal, Alive,
                mainVars, mqttVars, objectVars

LEMMA GuiInv == IInv /\ Gui => IInv'
  <1> SUFFICES ASSUME IInv, Gui PROVE IInv'
    OBVIOUS
  <1> USE DEF IInv, TypeOK, StartInv, ObjectInv, SocketInv, JoinedAtExit, ClientOutlivesUsers,
         NoSocketLeft, AtWork
  <1>1. CASE Enter
    BY <1>1, GuiStepInv DEF Enter
  <1>2. CASE ServerInit
    <2>1. CASE GuiStep("server_init", "client_init") /\ initialized' = initialized \cup {"server"}
      BY <2>1, GuiStepInv
    <2>2. CASE GuiStep("server_init", "ended") /\ UNCHANGED initialized
      BY <2>2, GuiStepInv
    <2> QED
      BY <1>2, <2>1, <2>2 DEF ServerInit
  <1>3. CASE ClientInit
    <2>1. CASE GuiStep("client_init", "turn") /\ initialized' = initialized \cup {"client"}
      BY <2>1, GuiStepInv
    <2>2. CASE GuiStep("client_init", "deinit") /\ UNCHANGED initialized
      BY <2>2, GuiStepInv
    <2> QED
      BY <1>3, <2>1, <2>2 DEF ClientInit
  <1>4. CASE ServerDeinit
    BY <1>4, GuiStepInv DEF ServerDeinit
  <1>5. CASE Turn
    <2>1. CASE task_running
      <3>1. GuiStep("turn", "recv") /\ UNCHANGED initialized
        BY <1>5, <2>1 DEF Turn
      <3> QED
        BY <3>1, GuiStepInv
    <2>2. CASE ~task_running
      <3>1. /\ gui = "turn" /\ gui' = "ended" /\ exit = "no"
            /\ UNCHANGED <<pc, retry_count, mqtt_client, running, loop, link, mqtt_connected,
                           subscribed, parts, task_running, initialized, fault, exit>>
        BY <1>5, <2>2 DEF Turn, Alive, mainVars, mqttVars, objectVars
      <3>2. parts = {}
        BY <2>2, <3>1
      <3> QED
        BY <3>1, <3>2 DEF Base, FaultsNeedSignal
    <2> QED
      BY <2>1, <2>2
  <1>6. CASE Receive
    <2>1. CASE GuiStep("recv", "send") /\ UNCHANGED initialized
      BY <2>1, GuiStepInv
    <2>2. CASE GuiStep("recv", "turn") /\ UNCHANGED initialized
      BY <2>2, GuiStepInv
    <2> QED
      BY <1>6, <2>1, <2>2 DEF Receive
  <1>7. CASE Send
    BY <1>7, GuiStepInv DEF Send
  <1>8. CASE GuiCrash
    <2>1. ~running
      BY <1>8, GuiMisuse DEF GuiCrash
    <2> QED
      BY <1>8, <2>1 DEF GuiCrash, Misused, FaultOf, Alive, mainVars, mqttVars, objectVars,
                        guiVars, FaultsNeedSignal
  <1> QED
    BY <1>1, <1>2, <1>3, <1>4, <1>5, <1>6, <1>7, <1>8 DEF Gui

LEMMA StepInv == IInv /\ [Next]_vars => IInv'
  <1>1. IInv /\ UNCHANGED vars => IInv'
    BY DEF vars, IInv, TypeOK, StartInv, ObjectInv, SocketInv, JoinedAtExit,
           ClientOutlivesUsers, NoSocketLeft, FaultsNeedSignal
  <1> QED
    BY <1>1, MainInv, SignalInv, MqttInv, GuiInv DEF Next

LEMMA InvHolds == Spec => []IInv
  BY InitInv, StepInv, PTL DEF Spec

-----------------------------------------------------------------------------
(* Every variable keeps its type, the retries their bound.                 *)
THEOREM LifecycleTypes == Spec => []TypeOK
  <1>1. IInv => TypeOK
    BY DEF IInv
  <1> QED
    BY <1>1, InvHolds, PTL

(* main() returns 0 only when the GUI thread has ended or never was.       *)
THEOREM MainJoins == Spec => []JoinedAtExit
  <1>1. IInv => JoinedAtExit
    BY DEF IInv
  <1> QED
    BY <1>1, InvHolds, PTL

(* The client is only destroyed where no callback or publication follows.  *)
THEOREM ClientIsLast == Spec => []ClientOutlivesUsers
  <1>1. IInv => ClientOutlivesUsers
    BY DEF IInv
  <1> QED
    BY <1>1, InvHolds, PTL

(* A GUI thread that gave up at start-up has closed what it opened.        *)
THEOREM SocketsAreClosed == Spec => []NoSocketLeft
  <1>1. IInv => NoSocketLeft
    BY DEF IInv
  <1> QED
    BY <1>1, InvHolds, PTL

(* Without a signal no part is used before or after its life, and no       *)
(* thread is joined that never was.                                        *)
THEOREM MisuseNeedsSignal == Spec => []FaultsNeedSignal
  <1>1. IInv => FaultsNeedSignal
    BY DEF IInv
  <1> QED
    BY <1>1, InvHolds, PTL
=============================================================================
