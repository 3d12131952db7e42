---------------------------- MODULE MCTelemetry ----------------------------
(***************************************************************************)
(* Telemetry for TLC: a start at the edges of the fields, a step within    *)
(* the dead band of navigation that turns the vehicle, a second one that   *)
(* leaves the band only together with the first, a third that leaves it.   *)
(***************************************************************************)
EXTENDS Telemetry

Ins(latitude, depth, roll, yaw) ==
    [latitude |-> latitude, longitude |-> -179999999, depth |-> depth, speed |-> 1234,
     north |-> -1005, east |-> 9, down |-> -9, roll |-> roll, pitch |-> -89990, yaw |-> yaw]

mcReadings == <<Ins(-89999999, -15, 179990, 359990),
                Ins(-89993000, -15, 179990, 5),
                Ins(-89986000, -15, 179985, 5),
                Ins(-89979000, 6, 179985, 5)>>

mcStatuses == {[mode |-> 0, armed |-> FALSE, leg |-> 7], [mode |-> 2, armed |-> TRUE, leg |-> 255],
               [mode |-> 3, armed |-> TRUE, leg |-> 0]}

mcBatteries == {[voltage |-> 48000, current |-> 12, capacityRemain |-> 65535, chargePercent |-> 90]}

mcCommands == {[thrust |-> -100, left |-> -30500, right |-> 29900, top |-> 15000, bottom |-> -1]}
=============================================================================
