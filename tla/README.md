# Mission manager: TLA+ models, checks and proofs

This directory holds the verification project of the mission manager of the
underwater vehicle: TLA+ modules translated from the C++ sources, TLC
configurations that check them on small instances, and theorems checked by
TLAPS for every value of the constants. Paths below are relative to the
repository's root.

## 1. The system

One process, three threads and one shared object.

| Part | Source | State it keeps | Operations |
|---|---|---|---|
| Shared data | `DataManager.hpp`, `common/DataNode.hpp`, `VehicleData.hpp` | eight `DataNode`s, each a struct behind its own mutex | `set` (drops a value within the dead band of `operator!=`), `get` |
| Mission loop | `mission_manager.cpp:549-622` | locals of one iteration | read the nodes, consume an arrival, advance the leg, write the target, publish |
| MQTT handler | `mission_manager.cpp:113-296` | locals of one message | `NAV_CONTROL`, `IMU`, `NAV_STATUS`, `BMS` |
| GCS packet handlers | `GuiWiFiTask.cpp:152-347`, `446-457`, `828-887` | locals of one packet | select, start, abort, mode, joystick, HSDT, home location |
| Mission file | `MissionParser.hpp`, `GuiWiFiTask.cpp:349-444` | parse result, legs | `parseFile`, the loading loop |
| GCS link | `GuiWiFiTask.cpp:16-143`, `736-826` | locals of one turn | receive one datagram per turn, validate, handle, answer; a status frame every 5 s |
| Telemetry frames | `GuiWiFiTask.cpp:459-731` | none | read the nodes, scale, send a frame |
| UDP sockets | `common/udp/` | file descriptor and `initialized` of each direction | init, deinit, send, recv |
| Lifecycle | `mission_manager.cpp:65-108`, `301-324`, `391-455`, `common/ThreadTask.hpp` | `running`, `mqtt_connected`, thread | connect with retries, start, signal, join |
| Mission printing, serializer, build files | `MissionParser.hpp:680-918`, `common/udp/udpSerialize.h`, `CMakeLists.txt`, `Dockerfile` | none | none that matters at run time |

How they interact. The operator (GCS) sends packets to the GUI thread, which
answers each with an acknowledgement. NavManager publishes `NAV_CONTROL` and
`NAV_STATUS`, the sensors `IMU`; the mosquitto thread runs the handler. The main
thread publishes the commands to NavManager every second. The threads meet only
in the `DataManager`, and **every handler is a `get` of a whole struct, a change
of some fields of the copy and a `set` of the whole struct**. The lock covers
each access and not the pair, so a write-back carries old values of every other
field. That is the behaviour that is hard to test here, and most of the project
is about what survives it.

What makes each part correct:

* shared data: a `get` never returns a torn value, a `set` is never lost other
  than by the dead band, and the stored value is within the dead band of the
  value offered;
* mission loop: legs are flown in order, each one for a reported arrival; an
  arrival is consumed; NavManager ends with the commands as they are;
* MQTT handler: telemetry does not erase or invent arrivals, `NAV_CONTROL` is
  used outside MANUAL only;
* GCS handlers: nothing but `start_mission` arms, and only with a mission; an
  abort disarms; modes are the operator's;
* mission file: exactly the well-formed files are accepted, the line of a bad
  record is told, and the legs are the file's waypoints in order;
* GCS link: only what was asked for is handled, and the answer a GCS takes for a
  request is the outcome of that request; a GCS that goes on asking is answered;
* telemetry: a frame says what was read in the units the header documents, its
  attitude is no older than its
  position, and it catches up with the vehicle;
* lifecycle: start-up decides, a signal ends the process, threads are joined and
  nothing is used outside its life.

`txPktQueue` (`GuiWiFiTask.hpp:64`) is looked at in every turn, but its only
`push` is in `sendPacketPushToQueue` (`GuiWiFiTask.cpp:145`), which nothing
calls: acknowledgements, motor and status frames are sent directly.

The hazards of the code, each at its line and with the properties that would
catch it, are listed in `PROJECT.json`.

## 2. The modules

| Module | Models | Extends |
|---|---|---|
| `AtomicNode` | what a `DataNode` promises: a value replaced at once and read whole | |
| `DataNode` | `common/DataNode.hpp`: mutex, early return, copies field by field | instance of `AtomicNode` |
| `LegCounts` | how many legs a file gives: two operators shared by the next two | |
| `MissionManager` | the three threads on the shared nodes | `LegCounts` |
| `MissionFile` | parser and loading loop | `LegCounts` |
| `Frames` | the bytes of the link: checksum, validation, byte order, the three senders | |
| `RemoteCommand` | what the link promises an operator, whatever the network does | |
| `GuiLink` | the turn of `task()` between GCS and vehicle over a bad network | `Frames`, instance of `RemoteCommand` |
| `Telemetry` | the way of a reading to the GCS, and the fields of the frames | |
| `Lifecycle` | `main()`, the signal, the mosquitto callbacks and `ThreadTask` | |
| `MCMissionManager`, `MCDataNode`, `MCMissionFile`, `MCGuiLink`, `MCTelemetry`, `MCLifecycle` | instances for TLC | the module named |
| `MissionManagerProofs`, `MissionCopiesProofs`, `DataNodeProofs`, `MissionFileProofs`, `FramesProofs`, `TelemetryProofs`, `LifecycleProofs` | theorems | the module named, TLAPS |
| `GuiLinkProofs` | theorems | `GuiLink`, `FramesProofs` |

How they compose. `DataNode` justifies the step of one `set` or `get` that
`MissionManager` and `Telemetry` take. `MissionManager` has the effect of each
GCS packet on the shared data and its outcome; `GuiLink` takes these outcomes
(`Outcomes`) and puts the network around them. `Telemetry` has `navigation`
with the same three writers as `MissionManager`, which follows only its arrival
flag, and adds `attitude` and the reader. `Lifecycle` is the frame in which the
three threads of the others come and go.

### MissionManager

State: the nodes `status`, `commands`, `autoMission` and the flag
`target_acheived` of `navigation`; the payload `published` last; the answer
`ack` to the last packet; and for each thread (`gui`, `mqtt`, `main`) a record
with its `pc` and the local copies it may still write back. A copy that the code
does not use again is reset, so that "some copy holds it" means "it can still be
written".

Actions: one per access to a node, with the local computation before or after
it. `GuiStart` is the receipt of a packet, `db.status.get()` and the decision;
`GuiSetStatus` is `db.status.set(sys)` and the answer. The functions between the
accesses are operators named for what they do (`StartAllowed`, `Armed`,
`Disarmed`, `Advanced`, `Finished`, `Standby`, `Reported`, `Steered`, `Payload`),
each one the condition or the assignments of a few lines. The `map` of
`PROJECT.json` gives the lines.

That a `set` and a `get` are one step each is what `DataNode` shows. `status`,
`commands` and `autoMission` are always stored (their `operator!=` returns true);
`navigation` is not stored when no field changed, which leaves the flag as it is.

Abstractions. A waypoint is its mission and its number; the HSDT group and the
home group are a value each; thrust and fins are the name of who wrote them.
`mission_command` is absent, a distance, true or false. Messages that change
nothing shared (empty, not JSON, `NAV_CONTROL` in MANUAL) are stuttering steps.
The pause of 1.1 s and the packet rate are left out: steps take any time.
`SystemStatus` fields that nothing reads (leak, battery, start time) are left
out; positions and attitude are in `Telemetry`.
An index at or past `COUNT` reads a nondeterministic waypoint, as the unchecked
`operator[]` may return anything.

### DataNode

`value` is copied into and out of the node one field per step, in any order,
by the thread inside. `Band` is the 0.01 of a reading and 0 of a flag.
`AlwaysChanged` is for the structs whose `operator!=` returns true. The
refinement to `AtomicNode` takes a `set` as done when it has decided to copy
(`Settled` is the value being copied in), which is right because nobody can look
until the lock is released. `lastUpdate` is left out: nothing calls what reads it.

### MissionFile

The file is chosen as it is read: `ReadLine`, `RefuseLine` and `ReadBlank` pick a
line and append it to `text`, which the code has no need of and the properties
do. `Verdict` is the sequence of checks of `parseFile` in order. `Point` is what
the parsers of the operations keep: text that is no number leaves the zero of
`GoToWpOperation op`. `LoadOperation` is an iteration of the loading loop.
`Stored` is the conversion to a leg: depth made positive, radius cut to 8 bits;
`SaysWaypoint`, which the properties use, says no more than that a radius that
fits is kept. A file opens or does not; the length of its name
(`GuiWiFiTask.cpp:167`) is taken to lie within the packet. Latitude, longitude and speed are one value, scaled without loss. The values of
a record are assumed to fit the parser's types except the id, which `stoul` reads
in 64 bits and the code cuts to 32.

### GuiLink, Frames and RemoteCommand

A byte is the set of its bits, so that the exclusive or is a count of bits and a
damaged bit a change of the set; a frame is a sequence of bytes. `Frames` has
`calculateChecksum`, `validatePacket` and `endianConverter` as they are, and of
the senders what they put where and what they sum: `sendAckPacket` and
`sendMotorPacket` sum one byte more than the receiver does, the checksum's own,
which `memset` has made zero; `sendStatusPacket` does not. Timestamps have two
bytes of eight. The length field, which the vehicle prints and never compares,
and payloads nobody checks are left out; so are datagrams of 6 to 13 bytes,
which pass `validatePacket` and are handled with whatever the buffer holds.

State of `GuiLink`: what the GCS asked, whether it waits and what it was told;
the two directions of the network as sets (a datagram lost is one not added, one
received may stay, any may be taken: loss, repetition, delay, reordering); the
place in the turn of `task()`, the answer being sent; and `handled`, the history
of what `processPacket` was given and returned. What `recv` finds of a request
(`Arrivals`) is the request up to the length of `rxPacket.msg`
(`GuiWiFiTask.cpp:62-65`), as it was sent or with one bit turned over; `Accepted`
are the ways in which it passes the check. `Outcomes` are the return values of
`processPacket` by identifier: a mission file, a start and an abort are executed
or refused, a mode, the HSDT and the home location executed, the joystick
unanswered or refused, and what has no case -1. The GCS is external: it names a request by its timestamp, waits for
the answer that carries it, repeats, or gives up.

`RemoteCommand` is the promise: requests are made, any of them is handled any
number of times, at any time after, and the operator learns an outcome of a
handling of this request. `IsAtLeastOnce` is the refinement, by the variables
`asked`, `told` and `handled` themselves. It is no more than at least once: the
code compares no timestamps, so a late copy is executed anew (a repeated
`abort_mission` is told "refused" although the first was executed).

### Telemetry

State: the last reading of the INS; the nodes `navigation` (reading and
`target_acheived`) and `attitude`, each as the index of the reading it holds;
the copies of the three threads; the frame. Actions are the gets and sets of the
IMU handler, of NAV_STATUS, of the main loop's reset and of `sendStatusPacket`
in their order, and the making of each frame. A `set` stores or drops by
`NavigationChanged` and `AttitudeChanged`, the two `operator!=`. Fields are
numbers in thousandths or millionths cut to the width of the frame: `Signed` and
`Unsigned` are the conversions, `HostOrder16` is the one field that is not
turned to network order. The first `set` of a node, which stores whatever it is
given, is in `DataNode`; IMU messages are assumed to carry all fields;
arithmetic is exact where the code's is in `float`; a battery message is one of
the values the GUI thread may read; the status bits, constants,
are left out. The nodes of thrusters and fins have no writer, so what the motor
frame says of them is zero.

### Lifecycle

State: where `main()` is; `running`; the client, the mosquitto thread and the
session with the broker; the parts of `guiwifi` that are alive; the flag and the
place of the GUI thread; which sockets are open; the first misuse (`fault`) and
how the process ended. `main()` has an action per call that can fail or that
another thread may see; leaving its scope is `DestroyMember` for each member in
the reverse order of declaration, then `Stop` (the base class) and `Join`. A
step of the GUI thread names the part it uses (`Uses`); if the part is gone the
behaviour is undefined and the step either goes on or ends the process
(`GuiCrash`). `OnMessageThrows` is a JSON value that the handler cannot convert.
Left out: the destructors of static objects, which run after `main` while the
mosquitto thread may still be there.

## 3. What is checked

Runs that pass:

| Run | Question | Properties | States |
|---|---|---|---|
| `Mission` | a mission is loaded, flown, aborted while copies are written back | `TypeOK`, `MissionStoredBeforeArmed`, `Inv`, `ArmingNeedsStart`, `ArrivalNeedsReport`, `ArrivalNotErased`, `LegsAdvanceByOne` | 707 815 |
| `Liveness` | two missions, one loaded while the other is flown: do arrivals and legs get through | `ArrivalConsumed`, `LegCommanded` | 561 096 |
| `Setpoints` | do commands reach NavManager, and whose are they | `PublishCatchesUp`, `ModesFromOperator` | 602 914 |
| `DataNode` | is a node atomic | `Inv`, `IsAtomic`, `WithinBand` | 385 550 |
| `MissionFile` | which files are accepted and what legs they give | `TypeOK`, `AcceptsExactly`, `ReportsLine`, `LegsFromFile` | 817 466 |
| `GuiLink` | what a bad network leaves of a request and its answer | `TypeOK`, `OwnFramesValid`, `IsAtLeastOnce`, `RequestAnswered` | 77 804 |
| `Telemetry` | what the operator sees of the vehicle | `TypeOK`, `AttitudeNotOlder`, `FramesDecode`, `PositionBackOnlyOnArrival`, `FrameCatchesUp` | 31 139 |
| `Lifecycle` | start-up, signals and the ends of the threads | `TypeOK`, `JoinedAtExit`, `ClientOutlivesUsers`, `NoSocketLeft`, `FaultsNeedSignal`, `StopsAfterSignal`, `StartupDecides` | 1 697 |

Every property of these runs fails on a slip in the model: the operators marked
"Slip" stand for a plausible bug (a dropped guard, a missing reset, a missing
lock, an off-by-one) and TLC finds the property violated with each of them.

Runs that find a disagreement between a comment and the code, each with the
property that says what the comment does:

| Run | What the code says | What happens |
|---|---|---|
| `AbortDisarm` | "1 if request is executed successfully" (`GuiWiFiFrames.hpp:76`), of an abort ("disarm", `GuiWiFiTask.cpp:205`) and of a mode selected | `ExecutedStands`: a stale status of the main loop or of `NAV_STATUS` arms again after the abort was answered; stale commands of the main loop (`mission_manager.cpp:603`) take the vehicle out of the mode after it was. The run shows the one TLC meets first; without aborts among its packets it is the second |
| `MissionEnd` | "mission finished. go to standby or stay there only" (`mission_manager.cpp:589`) | the status stays armed; the next arrival flies a leg past the last |
| `StaleArrival` | "consider reached to destination waypoint" (`mission_manager.cpp:577`) | IMU data write a consumed arrival back; one report counts for two waypoints |
| `Shutdown` | "Signal handler for graceful shutdown" (`mission_manager.cpp:63`) | `guiwifi`'s queue and sockets are destroyed before the base class stops and joins the thread that uses them; a signal just after start lets the thread call `task()` when it is pure virtual again |

More that a reader of the modules will see, of the same kinds and without a run
of their own:

* An executed abort asks for standby (`GuiWiFiTask.cpp:212`, "currently put in
  standby"), and a main loop in its block writes its old commands back
  (`mission_manager.cpp:603`), as in `AbortDisarm`. `NAV_CONTROL` does the same to
  a mode just selected (168), without any mission.
* The comments of the frame and three of its fields differ, and `FramesDecode`
  leaves these out. `VuState` is "0:standby(default), 1:ROV, 2:AUV, 3:AutoTest"
  (`GuiWiFiFrames.hpp:130`), and the number of `OperationMode` is sent
  (`GuiWiFiTask.cpp:597`), in which the ROV mode is 3 and the semi-autonomous one 1.
  Angles are "[rad*10000]" (342-344), and hundredths of degrees are sent (683-689),
  a heading of up to 360 degrees in a signed field. Voltages are "[V*100]" (348-349)
  of a node "in millivolts" (`VehicleData.hpp:316`), and the node is sent a
  thousandfold, or tenfold for the logic board, modulo 2^16 (703-706).
* An id of 2^32 or more is cut to 32 bits (`toUInt`, `MissionParser.hpp:459`) and
  accepted where its remainder is right, although "Operation IDs not incremental"
  (308) is what wrong ids are refused with. `GoodRecord` has it so.
* `NAV_CONTROL` is checked at `mission_manager.cpp:144` and written at 168 ("use
  this data only when vehicle not in MANUAL mode", line 137), the joystick
  checked at `GuiWiFiTask.cpp:835` and written at 843 ("only when in MANUAL
  mode", line 830): the mode may change between check and write.
* With 50 waypoints or more the last leg counted is not stored (`TotalFor`,
  `StoredFor`; `GuiWiFiTask.cpp:407`, and the commented-out
  `sys.totalMisnlegs = i` at 432): its target is 0, 0. `LegsFromFile` says so in
  terms of the file: up to `Count` legs counted, `Count - 1` stored, the rest
  zero. No line of the code says what should happen, and none that text which
  is no number should be refused instead of read as zero (`MissionParser.hpp:589`).
* The line told for a refused file is that of the first bad record, but for a file
  whose records are all good and in the wrong order it is always 1 for a missing
  CONFIG (`MissionParser.hpp:389`) and the last line read for a missing
  ENDMISSION (398); either line may be blank. `ReportsLine` states every case.
* A radius above 255 is cut when it is stored (`Stored`; `GuiWiFiTask.cpp:426`),
  and `validateChecksum` returns true on its first line
  (`MissionParser.hpp:501`): the model's records have no checksum.
* `GuiWiFiFrames.hpp:71-76` says that every request but three is acknowledged,
  with -1 "if wrong ID,Length or checksum": a wrong checksum is dropped without
  an answer (`Reject`), the length is not looked at, and `time_sync`, one of the
  three, is answered with -1 (`Outcomes`).
* `MissionOperationId` is the one number of the status frame that is sent in the
  order of the host (`GuiWiFiTask.cpp:591`). No comment says which order the GCS
  expects, so `FramesDecode` only says of it what `GuiWiFiFrames.hpp:131` does:
  0 without a mission, and never the numbers of an end, an abort or an error. The
  code sends none of these three at all, and 0 means not armed.
* The header calls the velocities north, east and down "body speed", and the
  vehicle's speed "Target speed" (`GuiWiFiFrames.hpp:338-341`); `FramesDecode`
  has their scale and takes the names for what the code sends.
  Its "10*10e6" of the position is read as 10^7, the only reading that fits.
* A request longer than the receive buffer is cut (`GuiWiFiTask.cpp:65`) and so
  never valid, nor answered: `RequestAnswered` is about those that fit, as a
  request in a `GuiPacket_t` always does.
* The position in a status frame moves in steps of 0.01 degrees, about a
  kilometre: the dead band of metres is applied to degrees
  (`VehicleData.hpp:188`), and the threshold a caller passes is not used.
* With an arrival reported in every turn of the main loop the position could stay
  old for ever (each reset writes back what was read before the last reading);
  `FrameCatchesUp` therefore asks that no arrival stays pending.
* `mqtt_connected` is written and never read: a lost broker stops nothing.

What the passing runs say beside these: the write-backs can undo what another
thread did (a mode, `ModesFromOperator` and `PublishCatchesUp` notwithstanding:
they only see that a mode is somebody's and that what the node ends with is
published), but they cannot arm from nothing, invent a leg or a mode, lose an
arrival, or keep what the node ends with from NavManager for ever. `AcceptsExactly`
takes an id for right when it is so modulo 2^32, and `FrameCatchesUp` a reading
for shown when it is so within the dead band, of whose width the code says
nothing.

### Bounds

* `Count = 2` legs (the code: 50) with a mission of two `GOTOWP`: the smallest
  case in which a mission has a next leg and also fills the arrays, so that the
  last counted leg is not stored. `LegModulus = 3` (256): the counter passes
  `Count` and wraps within the run.
* One mission, and in `Mission` one file that does not parse; two missions of one
  and two legs in `Liveness`, where the legs of one may meet the counter of the
  other. The theorems hold for any number.
* Two values of a setpoint: before and after.
* The inputs of each run are the packets and messages that its question is
  about; every one may arrive at any time and any number of times. Together the
  runs use every kind.
* `DataNode`: three threads, as the program has, two fields, one with a band,
  three values (a drift, the drift and a flag, a jump); `CountModulus = 2`.
* `MissionFile`: `MaxLines = 6`, enough for CONFIG, CONFIGS, three GOTOWP and
  ENDMISSION with `Count = 2`, that is one record past the limit; ids up to the
  bound and one that is 0 modulo 2^32 (`IdModulus = 7`, above `MaxLines` as
  2^32 is above the length of any file).
* `GuiLink`: two requests, so that an answer to the first may meet the second;
  a kind for each set of outcomes. `BufferLength = 8` (142): of the two mission
  files one has a name that fills the buffer and one a name too long for it. The
  network has any number of copies. One bit is damaged per datagram, anywhere.
* `Telemetry`: four readings: a start at the edges of the fields (the poles, the
  date line, a heading of 359.99), a step within the dead band of navigation
  that turns the vehicle, a second that leaves the band only together with the
  first, a third that leaves it alone. A battery of 48 V in millivolts and the
  largest capacity; legs 0 and 255.
* `Lifecycle`: three attempts of ten (one in `Shutdown`); nothing else is bounded.

### Fairness

`FairSpec` of `MissionManager` has weak fairness of the main loop and of the continuation of a
handler that was entered. The main loop runs until the process ends, and a
handler has no wait in it except the mutexes of the nodes, which are released
on every path. Nothing is assumed of the arrival of packets, of messages or of
reports. `PublishCatchesUp` and `LegCommanded` have as premise that commands, or
the mission, settle.

`GuiLink` has weak fairness of the task loop and of the GCS's repetition and
reading, and strong fairness of the arrival of the request that is being
repeated and of its answer: what is sent again and again arrives at last.
Without it a network may lose everything. `Telemetry` has fairness of the
handlers, of the GUI loop and of the INS publishing on (strong where a message
or a frame waits for another to end), none of NAV_STATUS and of the main loop's
resets. `Lifecycle` has weak fairness of `main()` and of the GUI thread, none of
signals, of the broker or of messages.

## 4. What is proved

Every safety invariant and every action property of the passing runs, and both
refinements, are theorems. Assumptions are those named in the modules:
`MissionsAssumption`, `SizesAssumption` (`0 < Count < LegModulus`),
`InputsAssumption` (inputs are well-formed packets and messages),
`NodeAssumption`, `FileAssumption` (in `MissionFile`), `RequestsAssumption` (a
request is an identifier and a sequence of bytes of any length), `CutsAreRejected`
(a request fits the receive buffer, or no cut of it passes the check),
`RetriesAssumption`, `ReadingsAssumption` (a reading has all its fields, and
integers in them), `BatteriesAssumption` (the widths of `BatteryData`). Every
inductive invariant below was checked by TLC on the instance of the run before it
was proved. One theorem has a hypothesis of its own, `WhatFitsDecodes`.

* `TypeCorrect`, `InvAlways`, `MissionStored`, `ArmingByStartOnly`, `ArrivalsAreReported`,
  `ArrivalsAreKept` (`MissionManagerProofs`) and `LegsAreNotInvented`,
  `ModesAreTheOperators` (`MissionCopiesProofs`): the safety properties of the
  passing runs of `MissionManager`, for any missions, sizes, packets and
  messages.
* `NodeInvariant`, `NodeIsAtomic`, `SetsAreWithinBand` (`DataNodeProofs`): a
  node is atomic for any number of threads, any fields, any values and any dead
  band. This is what allows the steps of `MissionManager`.

The argument for `MissionManager`. The types alone are not inductive, because a
step uses what the handler has in hand: `HandlersInv` says that a busy GUI
thread holds a packet, that a loading one holds a mission that parsed, and that
the main loop inside the block saw the mission active. `MissionStoredBeforeArmed`
needs `LoadInv`: before a mission is stored no copy of the status counts a leg,
except while the GUI thread is loading one, and then that thread, the only one
that arms, is not at a start. `ArrivalNotErased` needs `ArrivalInv`: the MQTT
thread's copy of the flag is never behind the node, because only that thread
raises it. `Inv` is the conjunction; the proofs show `Init => Inv`,
`Inv /\ [Next]_vars => Inv'` with one case per action, and then each property
from it. The action properties speak of every copy of a node, pending ones
included: a step adds nothing to what the copies hold, with the exceptions the
property names.

The argument for `DataNode`: only the owner of the mutex is inside
(`OneInside`), and a copy agrees with its source on the fields moved
(`CopiesInv`). So when nothing is left to move the copy is whole; the decision to
copy maps to the atomic `Set`, the end of a get to `Get`, all else to a stutter.

* `LifecycleTypes`, `MainJoins`, `ClientIsLast`, `SocketsAreClosed`,
  `MisuseNeedsSignal` (`LifecycleProofs`): the invariants of `Lifecycle` for any
  bound on the retries.

The argument for `Lifecycle`: `ObjectInv` says that `main` only leaves its loop
after a signal, that `guiwifi` is whole while the GUI thread is at work and there
was none, and that the flag is reset when no part is left; so a use of a missing
part comes after a signal. `SocketInv` has the sockets that may be open by the
place of the thread, `StartInv` that the mosquitto thread is not there before the
failure paths are behind.

* `TypeCorrect`, `FramesNotOlder`, `PositionsAdvance` (`TelemetryProofs`): types,
  `AttitudeNotOlder` and `PositionBackOnlyOnArrival` of `Telemetry`, for any
  readings.

The argument for `Telemetry`: `OrderInv` puts the copies in order, main()'s at or
before the node `navigation`, the MQTT handler's at or after it and never past
the last reading; so a write-back by MQTT cannot take the node back and one by
main() can only do that. `RecentInv` says that the node `attitude` is as recent
as the node `navigation` and as the copy that will replace it, because the
handler sets attitude first; as recent means within the dead band of the same or
a later reading (`Recent`), which what is as recent as a later one is too. The
GUI thread gets the position first (`CopiesInv`).

* `WhatFitsDecodes`: `FramesDecode`, in the units the header documents, for any
  readings, legs, batteries and commands that fit (`FieldsFit`). The code does not
  check that a number fits the type of its field, so this is a hypothesis and
  not an assumption of the module: speeds within a signed field of 16 bits
  (327 m/s), currents within an unsigned one (655 A), commands within `int8_t`,
  legs within `uint8_t`. Angles, voltages and `VuState`, for which the code does
  not keep to the header, are not in it.

Its argument: truncation towards zero loses less than one unit of the field
(`TruncatedTowardsZero`), a field wide enough returns the number (`Signed16`,
`Signed8`), and the operation of a leg, its bytes exchanged, is none of the
numbers reserved (`OperationIsShown`); the invariant only adds that a copy holds
a value of its node (`CopiesType`).

* `FileTypes`, `ParserAccepts`, `ParserReports`, `LegsAreTheFiles`
  (`MissionFileProofs`): the invariants of `MissionFile`, for files of any length
  and any sizes of the arrays.

The argument for `MissionFile`: the code keeps counters and lists, the properties
speak of the whole file. `ParseInv` says what the counters are of the lines read
so far: the next operation id is the number of records, the operations are the
records one by one (`Before(text, k)` records come before the one at line k), and
every record so far is good. A line appended changes none of the ranks of the
lines before it (`Below...`, which are about finite sets of numbers in general).
`LoadInv` says the same of the loading loop: the legs stored are the waypoints
among the operations done, at their ranks (`Done`), and the rest of the arrays is
zero.

* `FrameValid`, `OneBitDetected` (`FramesProofs`) and `LinkTypes`,
  `FramesAreValid`, `LinkIsAtLeastOnce` (`GuiLinkProofs`): every sender's frame
  passes `validatePacket`, no datagram of any length passes it with one bit
  turned over, and `GuiLink` implements `RemoteCommand` for any number of requests
  with any payloads that fit the receive buffer or are invalid when cut to it.

The argument for the link: a bit of the checksum is the parity of the bytes that
have this bit, and a byte with one bit turned over changes one parity by one
(`ChecksumChanges`); a delimiter or the checksum itself turned over is seen
directly. A request that the buffer
cuts does not pass at all (`CutsAreRejected`). So the only way in which a request
passes the check is as it was sent (`AcceptedIsSent`), and what is handled is what was asked
(`ProcessAnswers`). For the way back `FramesInv` says that a frame on the network
is a motor or status frame or the acknowledgement of something handled. An
acknowledgement has its own identifier and the timestamp of the request, so what
the GCS takes for its answer is a code that handling this request has returned
(`AnswerOfHandling`). `WaitInv` has it that a request waited for is not answered
yet, which is what `Learn` of `RemoteCommand` asks.

Only model-checked: the liveness properties (`ArrivalConsumed`, `LegCommanded`,
`PublishCatchesUp`, `RequestAnswered`, `FrameCatchesUp`, `StopsAfterSignal`,
`StartupDecides`): the prover has neither fairness nor ENABLED.

## 5. Plan

Done: the modules of section 2, and the proofs of section 4. Left: datagrams
shorter than a request (6 to 13 bytes) in `GuiLink`, and the checksum of the
mission file, which the code does not compute yet.

## 6. Not modelled

Mission printing, the unused serializer and the build files have no
behaviour to check; mosquitto, jsoncpp and the socket calls themselves,
which are libraries, enter only through what the code does with them.

Lengths that come with the input are taken to be in range where nothing in the
code compares them: an MQTT payload fits the buffer of 4096 bytes into which
`mission_manager.cpp:119-121` copies it, and the file name of `select_mission` lies
within the packet (`GuiWiFiTask.cpp:167`). Memory past an array is only modelled for
the legs (`LegTarget`).
