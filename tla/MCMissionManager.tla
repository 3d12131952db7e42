-------------------------- MODULE MCMissionManager --------------------------
(***************************************************************************)
(* Instances of MissionManager for TLC: two missions, one of one leg and   *)
(* one that hits the array limit, and the inputs of each question asked.   *)
(***************************************************************************)
EXTENDS MissionManager

CONSTANTS m1, m2, s0, s1

mcMissions == {m1, m2}
mcGotowps == [m \in mcMissions |-> IF m = m1 THEN 1 ELSE 2]
mcOneMission == {m1}
mcOneGotowps == [m \in mcOneMission |-> 2]

Load(m) == [op |-> "select_mission", mission |-> m]
Select(mode) == [op |-> "select_mode", mode |-> mode]
Op(op) == [op |-> op]
Semi(v) == [op |-> "cmd_hsdt", value |-> v]
Home(v) == [op |-> "cmd_gcs_location", value |-> v]

NavStatus(command, mode) ==
    [topic |-> "NAV_STATUS", mission_command |-> command, mode |-> mode]
NavControl(act) == [topic |-> "NAV_CONTROL", act |-> act]
Imu == [topic |-> "IMU"]

(* Loading, starting and aborting missions while NavManager reports.       *)
missionPackets == {Load(m1), Load(NoMission), Op("start_mission"), Op("abort_mission"),
                   Op("keep_alive"), Op("time_sync")}
missionMessages == {NavStatus("true", "absent"), NavStatus("false", "absent"),
                    NavStatus("distance", "autonomous"), NavStatus("absent", "standby"),
                    NavStatus("absent", "absent"), Imu}

(* Two missions flown to their ends under reports of arrival, where one    *)
(* may be loaded while the other is flown: the inputs of the liveness run. *)
flightPackets == {Load(m1), Load(m2), Op("start_mission")}
flightMessages == {NavStatus("true", "autonomous")}

(* Setpoints, joystick and answers, with no mission.                       *)
setpointPackets == {Select("SEMI_AUTONOMOUS"), Select("MANUAL"), Semi(s1),
                    Home(s1), Op("rov_ctrl_pck")}
setpointMessages == {NavControl(TRUE), NavStatus("absent", "manual")}

(* Inputs of the runs that look for one disagreement each.                 *)
livePackets == {Load(m1), Op("start_mission")}
abortPackets == {Load(m1), Op("start_mission"), Op("abort_mission"), Select("AUTONOMOUS")}
abortMessages == {NavStatus("absent", "autonomous")}
reportMessages == {NavStatus("true", "autonomous"), Imu}
=============================================================================
