----------------------------- MODULE MCGuiLink -----------------------------
(***************************************************************************)
(* GuiLink for TLC: a request of each kind of outcome; one mission file    *)
(* has a name that fills the buffer and one a name too long for it.        *)
(***************************************************************************)
EXTENDS GuiLink

mcRequests ==
    {[id |-> select_mode, data |-> <<Byte(3)>>],
     [id |-> select_mission, data |-> <<Byte(1), Byte(65)>>],
     [id |-> select_mission, data |-> <<Byte(2), Byte(65), Byte(66)>>]} \cup
    {[id |-> i, data |-> <<>>] : i \in {time_sync, motor_state, rov_ctrl_pck}}
=============================================================================
