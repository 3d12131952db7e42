----------------------------- MODULE Lifecycle -----------------------------
(***************************************************************************)
(* The life of the mission_manager process: main() from mosquitto_new to   *)
(* its return, a signal at any time, the mosquitto thread with its         *)
(* callbacks, and the GUI thread of ThreadTask.                            *)
(*                                                                         *)
(* A C++ object has a life of its own: guiwifi is a local of main, so      *)
(* leaving main destroys its members (queue, server, client) and then its  *)
(* base, and only the destructor of the base stops and joins the thread.   *)
(***************************************************************************)
EXTENDS Naturals

CONSTANTS MaxRetries    \* max_retries of mqtt_connect_retry: 10

ASSUME RetriesAssumption == MaxRetries \in Nat

Members == {"txPktQueue", "server", "client"}
Base == "ThreadTask"    \* with the vtable in which task() is GuiWiFiTask's

VARIABLES
    pc,              \* main(): where it is
    retry_count,     \* local of mqtt_connect_retry
    running,         \* the global of mission_manager.cpp
    mqtt_client,     \* none, created, destroyed
    loop,            \* the mosquitto thread: off, on
    link,            \* the session with the broker: down, tcp, up
    mqtt_connected,
    subscribed,      \* the broker knows the four subscriptions
    parts,           \* the parts of guiwifi that are alive
    task_running,    \* ThreadTask::running
    gui,             \* the GUI thread: where it is
    initialized,     \* the sockets whose flag initialized is set
    fault,           \* the first misuse of an object or of a call
    exit             \* how the process ended: no, 0, 1, crash

mainVars == <<pc, retry_count, mqtt_client>>
mqttVars == <<loop, link, mqtt_connected, subscribed>>
guiVars == <<gui, initialized>>
objectVars == <<parts, task_running>>
vars == <<pc, retry_count, running, mqtt_client, loop, link, mqtt_connected,
          subscribed, parts, task_running, gui, initialized, fault, exit>>

Init ==
    /\ pc = "create" /\ retry_count = 0 /\ mqtt_client = "none"
    /\ running = TRUE
    /\ loop = "off" /\ link = "down" /\ mqtt_connected = FALSE /\ subscribed = FALSE
    /\ parts = {} /\ task_running = FALSE
    /\ gui = "none" /\ initialized = {}
    /\ fault = "none" /\ exit = "no"

Alive == exit = "no"
Misused(f) == fault' = IF fault = "none" THEN f ELSE fault

-----------------------------------------------------------------------------
(* main().  The signal handlers are installed before the first step.       *)

MainStep(from, to) ==
    /\ Alive /\ pc = from /\ pc' = to
    /\ UNCHANGED <<running, link, mqtt_connected, subscribed>>

Create ==
    /\ MainStep("create", "connect")
    /\ mqtt_client' = "created"
    /\ UNCHANGED <<retry_count, loop, guiVars, objectVars, fault, exit>>

CreateFails ==
    /\ MainStep("create", "returned")
    /\ exit' = "1"
    /\ UNCHANGED <<retry_count, mqtt_client, loop, guiVars, objectVars, fault>>

(* Slip: off by one.                                                       *)
AttemptsOneMore(n) == n <= MaxRetries /\ running

(* mqtt_connect_retry: the test of the loop, then the attempt.             *)
Attempts(n) == n < MaxRetries /\ running

TryConnect ==
    /\ Attempts(retry_count)
    /\ MainStep("connect", "connecting")
    /\ UNCHANGED <<retry_count, mqtt_client, loop, guiVars, objectVars, fault, exit>>

(* Slip: a failure is not counted.                                         *)
ConnectFailsUncounted ==
    /\ MainStep("connecting", "connect")
    /\ UNCHANGED <<retry_count, mqtt_client, loop, guiVars, objectVars, fault, exit>>

ConnectFails ==
    /\ MainStep("connecting", "connect")
    /\ retry_count' = retry_count + 1
    /\ UNCHANGED <<mqtt_client, loop, guiVars, objectVars, fault, exit>>

ConnectSucceeds ==
    /\ Alive /\ pc = "connecting" /\ pc' = "loop_start"
    /\ link' = "tcp"
    /\ UNCHANGED <<retry_count, running, mqtt_client, loop, mqtt_connected, subscribed,
                   guiVars, objectVars, fault, exit>>

(* No connection, or no thread for it: both end main with 1.               *)
GivesUp ==
    /\ \/ ~Attempts(retry_count) /\ MainStep("connect", "returned")
       \/ MainStep("loop_start", "returned")
    /\ mqtt_client' = "destroyed" /\ exit' = "1"
    /\ UNCHANGED <<retry_count, loop, guiVars, objectVars, fault>>

LoopStart ==
    /\ MainStep("loop_start", "start")
    /\ loop' = "on"
    /\ UNCHANGED <<retry_count, mqtt_client, guiVars, objectVars, fault, exit>>

(* guiwifi is constructed and started; the result of start() is not used.  *)
StartTask ==
    /\ MainStep("start", "loop")
    /\ parts' = Members \cup {Base} /\ task_running' = TRUE
    /\ gui' \in {"entry", "no_thread"}        \* pthread_create may fail
    /\ UNCHANGED <<retry_count, mqtt_client, loop, initialized, fault, exit>>

(* Slip: the loop ends with the connection.                                *)
LeaveLoopOnDisconnect ==
    /\ ~running \/ ~mqtt_connected
    /\ MainStep("loop", "destroy")
    /\ UNCHANGED <<retry_count, mqtt_client, loop, guiVars, objectVars, fault, exit>>

(* Slip: a clean-up with the mosquitto thread still there.                 *)
LeaveLoopTidy ==
    /\ ~running
    /\ MainStep("loop", "destroy")
    /\ mqtt_client' = "destroyed"
    /\ UNCHANGED <<retry_count, loop, guiVars, objectVars, fault, exit>>

(* while (running): leaving main starts the destruction of guiwifi.        *)
LeaveLoop ==
    /\ ~running
    /\ MainStep("loop", "destroy")
    /\ UNCHANGED <<retry_count, mqtt_client, loop, guiVars, objectVars, fault, exit>>

(* Members in reverse order of declaration; the sockets are closed.        *)
NextPart ==
    IF "txPktQueue" \in parts THEN "txPktQueue"
    ELSE IF "server" \in parts THEN "server" ELSE "client"

DestroyMember ==
    /\ parts \cap Members # {}
    /\ MainStep("destroy", "destroy")
    /\ parts' = parts \ {NextPart}
    /\ initialized' = initialized \ {NextPart}
    /\ UNCHANGED <<retry_count, mqtt_client, loop, task_running, gui, fault, exit>>

(* Slip: the flag is left as it is.                                        *)
StopLeavesFlag ==
    /\ parts = {Base}
    /\ MainStep("destroy", "join")
    /\ parts' = {}
    /\ UNCHANGED <<retry_count, mqtt_client, loop, task_running, guiVars, fault, exit>>

(* ~ThreadTask: from here task() is pure virtual; stop() resets the flag.  *)
Stop ==
    /\ parts = {Base}
    /\ MainStep("destroy", "join")
    /\ parts' = {} /\ task_running' = FALSE
    /\ UNCHANGED <<retry_count, mqtt_client, loop, guiVars, fault, exit>>

(* Slip: detached.                                                         *)
ThreadDetached == gui \notin {"no_thread", "none"}

ThreadEnded == gui = "ended"

(* main returns: the other threads go with the process.                    *)
Join ==
    /\ ThreadEnded
    /\ MainStep("join", "returned")
    /\ exit' = "0"
    /\ UNCHANGED <<retry_count, mqtt_client, loop, guiVars, objectVars, fault>>

(* pthread_join of a thread that was never created: an error, or a crash.  *)
JoinNoThread ==
    /\ gui = "no_thread"
    /\ MainStep("join", "returned")
    /\ Misused("join") /\ exit' \in {"0", "crash"}
    /\ UNCHANGED <<retry_count, mqtt_client, loop, guiVars, objectVars>>

Main ==
    \/ Create \/ CreateFails \/ TryConnect \/ ConnectFails \/ ConnectSucceeds
    \/ GivesUp \/ LoopStart \/ StartTask \/ LeaveLoop \/ DestroyMember \/ Stop
    \/ Join \/ JoinNoThread

(* SIGINT or SIGTERM, in any thread, between any two steps.                *)
Signal ==
    /\ Alive /\ running
    /\ running' = FALSE
    /\ UNCHANGED <<mainVars, mqttVars, objectVars, guiVars, fault, exit>>

-----------------------------------------------------------------------------
(* The mosquitto thread: the library's reconnection and the callbacks.     *)

MqttStep ==
    /\ Alive /\ loop = "on"
    /\ UNCHANGED <<mainVars, running, loop, objectVars, guiVars>>

Reconnect ==
    /\ MqttStep /\ link = "down" /\ link' = "tcp"
    /\ UNCHANGED <<mqtt_connected, subscribed, fault, exit>>

OnConnect ==
    /\ MqttStep /\ link = "tcp"
    /\ \/ link' = "up" /\ mqtt_connected' = TRUE /\ subscribed' = TRUE
       \/ link' = "down" /\ mqtt_connected' = FALSE /\ UNCHANGED subscribed
    /\ UNCHANGED <<fault, exit>>

(* The session is clean: the broker forgets the subscriptions.             *)
OnDisconnect ==
    /\ MqttStep /\ link # "down" /\ link' = "down"
    /\ mqtt_connected' = FALSE /\ subscribed' = FALSE
    /\ UNCHANGED <<fault, exit>>

(* A value that asUInt, asBool or asString cannot convert throws, and      *)
(* nothing catches it: the process is terminated.                          *)
OnMessageThrows ==
    /\ MqttStep /\ subscribed
    /\ Misused("exception") /\ exit' = "crash"
    /\ UNCHANGED <<link, mqtt_connected, subscribed>>

Mqtt == Reconnect \/ OnConnect \/ OnDisconnect \/ OnMessageThrows

-----------------------------------------------------------------------------
(* The GUI thread.  A step that touches a part that is gone is undefined:  *)
(* it goes on as if the part were there, or it crashes.                    *)

AtWork == {"entry", "server_init", "client_init", "deinit", "turn", "recv", "send"}
Uses == [entry |-> Base, server_init |-> "server", client_init |-> "client",
         deinit |-> "server", turn |-> "txPktQueue", recv |-> "server",
         send |-> "client"]
FaultOf(part) == IF part = Base THEN "pure_virtual" ELSE "destroyed_member"

GuiStep(from, to) ==
    /\ Alive /\ gui = from /\ gui' = to
    /\ IF Uses[from] \in parts THEN UNCHANGED fault ELSE Misused(FaultOf(Uses[from]))
    /\ UNCHANGED <<mainVars, running, mqttVars, objectVars, exit>>

(* threadEntry calls task() through the vtable.                            *)
Enter ==
    /\ Base \in parts
    /\ GuiStep("entry", "server_init") /\ UNCHANGED initialized

ServerInit ==
    \/ GuiStep("server_init", "client_init") /\ initialized' = initialized \cup {"server"}
    \/ GuiStep("server_init", "ended") /\ UNCHANGED initialized

ClientInit ==
    \/ GuiStep("client_init", "turn") /\ initialized' = initialized \cup {"client"}
    \/ GuiStep("client_init", "deinit") /\ UNCHANGED initialized

(* Slip: the server is left open when the client fails.                    *)
ServerKept ==
    GuiStep("deinit", "ended") /\ UNCHANGED initialized

ServerDeinit ==
    GuiStep("deinit", "ended") /\ initialized' = initialized \ {"server"}

(* while (running): the queue, the receive socket, the send socket.        *)
Turn ==
    IF task_running
    THEN GuiStep("turn", "recv") /\ UNCHANGED initialized
    ELSE /\ Alive /\ gui = "turn" /\ gui' = "ended"
         /\ UNCHANGED <<mainVars, running, mqttVars, objectVars, initialized, fault, exit>>

(* Nothing received sends nothing, unless a status frame is due.           *)
Receive ==
    \/ GuiStep("recv", "send") /\ UNCHANGED initialized
    \/ GuiStep("recv", "turn") /\ UNCHANGED initialized

Send == GuiStep("send", "turn") /\ UNCHANGED initialized

GuiCrash ==
    /\ Alive /\ gui \in AtWork /\ Uses[gui] \notin parts
    /\ gui = "turn" => task_running
    /\ Misused(FaultOf(Uses[gui])) /\ exit' = "crash"
    /\ UNCHANGED <<mainVars, running, mqttVars, objectVars, guiVars>>

Gui == Enter \/ ServerInit \/ ClientInit \/ ServerDeinit \/ Turn \/ Receive \/ Send \/ GuiCrash

-----------------------------------------------------------------------------
Next == Main \/ Signal \/ Mqtt \/ Gui

Spec == Init /\ [][Next]_vars

(* The threads are scheduled; signals, messages and the broker are not     *)
(* promised anything.                                                      *)
FairSpec == Spec /\ WF_vars(Main) /\ WF_vars(Gui)

-----------------------------------------------------------------------------
TypeOK ==
    /\ pc \in {"create", "connect", "connecting", "loop_start", "start", "loop",
               "destroy", "join", "returned"}
    /\ retry_count \in 0 .. MaxRetries
    /\ running \in BOOLEAN /\ mqtt_connected \in BOOLEAN /\ subscribed \in BOOLEAN
    /\ task_running \in BOOLEAN
    /\ mqtt_client \in {"none", "created", "destroyed"}
    /\ loop \in {"off", "on"} /\ link \in {"down", "tcp", "up"}
    /\ parts \subseteq Members \cup {Base}
    /\ initialized \subseteq {"server", "client"}
    /\ gui \in AtWork \cup {"none", "no_thread", "ended"}
    /\ fault \in {"none", "exception", "join", "pure_virtual", "destroyed_member"}
    /\ exit \in {"no", "0", "1", "crash"}

(* main() never returns 0 over a GUI thread that is still running: however *)
(* the signal falls, the thread has ended, or there never was one.         *)
JoinedAtExit == exit = "0" => gui \in {"ended", "no_thread"}

(* The client is not destroyed while the mosquitto thread runs callbacks   *)
(* or main() may publish: the failure paths destroy it, the normal end     *)
(* leaves it to the end of the process.                                    *)
ClientOutlivesUsers ==
    mqtt_client = "destroyed" => loop = "off" /\ pc = "returned"

(* A GUI thread that gave up at start-up while guiwifi is whole leaves no  *)
(* socket open: the port is free although the process flies on.            *)
NoSocketLeft ==
    gui = "ended" /\ parts = Members \cup {Base} => initialized = {}

(* What goes wrong without a signal is told apart from what a stop does:   *)
(* the object is misused only on the way out, after a signal.              *)
FaultsNeedSignal ==
    fault \in {"join", "pure_virtual", "destroyed_member"} => ~running

(* A signal ends the process, wherever it finds main and the GUI thread.   *)
StopsAfterSignal == ~running ~> ~Alive

(* Start-up comes to an end: the loop is reached or the process has ended. *)
StartupDecides == <>(pc = "loop" \/ ~Alive)

-----------------------------------------------------------------------------
(* mission_manager.cpp:63, "Signal handler for graceful shutdown": a stop  *)
(* lets no thread use what was destroyed under it.                         *)
GracefulShutdown == fault \notin {"pure_virtual", "destroyed_member"}
=============================================================================
