-------------------------- MODULE TelemetryProofs --------------------------
(***************************************************************************)
(* The order of what the operator sees, for any readings: a status frame   *)
(* has no attitude older than its position, and the position of the node   *)
(* goes back only where main() resets an arrival; and its truth: numbers   *)
(* that fit their fields decode to what was read.                          *)
(***************************************************************************)
EXTENDS Telemetry, TLAPS

(* The attitude a is as recent as reading r: it is that of a later one.    *)
Recent(a, r) == \E m \in r .. Len(Readings) : ~AttitudeChanged(a, m)

(* The copies of the threads lie between the node and the last reading on  *)
(* the side of MQTT, below the node on the side of main().                 *)
OrderInv ==
    /\ navigation.reading <= reading
    /\ mqtt.sets # Idle => /\ navigation.reading <= mqtt.nav.reading
                          /\ mqtt.nav.reading <= reading
    /\ mqtt.sets = "attitude" => mqtt.nav.reading = reading
    /\ main.sets # Idle => /\ main.nav.reading <= navigation.reading
                          /\ main.nav.target_acheived

(* The attitude is set before the navigation of the same message.          *)
RecentInv ==
    /\ Recent(attitude, navigation.reading)
    /\ mqtt.sets = "navigation" => Recent(attitude, mqtt.nav.reading)

(* The copies of the GUI thread.                                           *)
CopiesInv ==
    /\ gui.gets >= 1 => /\ gui.copies["navigation"] \in Indices
                       /\ gui.copies["navigation"] <= reading
    /\ gui.gets = 1 => Recent(attitude, gui.copies["navigation"])
    /\ gui.gets >= 2 => Recent(gui.copies["attitude"], gui.copies["navigation"])

Inv == TypeOK /\ OrderInv /\ RecentInv /\ CopiesInv

-----------------------------------------------------------------------------
LEMMA LengthIsNat == Len(Readings) \in Nat
  BY ReadingsAssumption

(* No attitude differs from itself.                                        *)
LEMMA AttitudeItself == \A m \in Indices : ~AttitudeChanged(m, m)
  <1> SUFFICES ASSUME NEW m \in Indices PROVE ~AttitudeChanged(m, m)
    OBVIOUS
  <1>1. At(m).roll \in Int /\ At(m).pitch \in Int /\ At(m).yaw \in Int
    <2>1. CASE m = 0
      BY <2>1 DEF At, Zeros
    <2>2. CASE m # 0
      <3>1. m \in 1 .. Len(Readings)
        BY <2>2, LengthIsNat DEF Indices
      <3>2. Readings[m] \in InsMessages
        BY <3>1, ReadingsAssumption
      <3> QED
        BY <2>2, <3>2 DEF At, InsMessages
    <2> QED
      BY <2>1, <2>2
  <1>2. \A x \in Int : ~Differs(x, x, 10)
    BY DEF Differs, Abs
  <1> QED
    BY <1>1, <1>2 DEF AttitudeChanged

LEMMA RecentItself == \A m \in Indices : Recent(m, m)
  BY AttitudeItself, LengthIsNat DEF Recent, Indices

(* What is as recent as a reading is as recent as those before it.         *)
LEMMA RecentBefore ==
    ASSUME NEW a, NEW r \in Int, NEW q \in Int, q <= r, Recent(a, r)
    PROVE  Recent(a, q)
  BY LengthIsNat DEF Recent

-----------------------------------------------------------------------------
LEMMA InitInv == Init => Inv
  <1> SUFFICES ASSUME Init PROVE Inv
    OBVIOUS
  <1>1. 0 \in Indices /\ NoCopy \in Nodes
    BY LengthIsNat DEF Indices, NoCopy, Nodes
  <1>2. TypeOK
    BY <1>1 DEF Init, TypeOK, Idle, Order
  <1>3. OrderInv
    BY DEF Init, OrderInv, Idle, NoCopy
  <1>4. RecentInv
    BY <1>1, RecentItself DEF Init, RecentInv, Idle, NoCopy
  <1>5. CopiesInv
    BY DEF Init, CopiesInv
  <1> QED
    BY <1>2, <1>3, <1>4, <1>5 DEF Inv

-----------------------------------------------------------------------------
(* What a step that leaves a group of variables alone preserves.           *)
LEMMA CopiesKept ==
    ASSUME CopiesInv, UNCHANGED <<attitude, gui>>, reading \in Int, reading' \in Int,
           reading <= reading'
    PROVE  CopiesInv'
  <1>1. Recent(attitude, gui.copies["navigation"])' = Recent(attitude, gui.copies["navigation"])
    BY DEF Recent, AttitudeChanged, At, Differs
  <1>2. Recent(gui.copies["attitude"], gui.copies["navigation"])'
            = Recent(gui.copies["attitude"], gui.copies["navigation"])
    BY DEF Recent, AttitudeChanged, At, Differs
  <1>3. gui.gets >= 1 => gui.copies["navigation"] \in Int
    BY LengthIsNat DEF CopiesInv, Indices
  <1> QED
    BY <1>1, <1>2, <1>3 DEF CopiesInv, Indices

LEMMA ImuGetInv ==
    ASSUME Inv, ImuGet
    PROVE  Inv'
  <1> PICK m \in {reading, reading + 1} \cap 1 .. Len(Readings) :
        /\ reading' = m
        /\ mqtt' = [sets |-> "attitude", nav |-> [navigation EXCEPT !.reading = m]]
    BY DEF ImuGet
  <1>0. UNCHANGED <<navigation, attitude, main, gui, frame>>
    BY DEF ImuGet
  <1> USE <1>0
  <1>1. m \in Indices /\ reading \in Indices /\ reading <= m
    BY LengthIsNat DEF Inv, TypeOK, Indices
  <1>2. navigation \in Nodes
    BY DEF Inv, TypeOK
  <1>3. [navigation EXCEPT !.reading = m] \in Nodes /\ [navigation EXCEPT !.reading = m].reading = m
    BY <1>1, <1>2 DEF Nodes
  <1>4. mqtt' \in [sets : {Idle, "attitude", "navigation"}, nav : Nodes]
        /\ mqtt'.sets = "attitude" /\ mqtt'.nav.reading = m
    BY <1>3
  <1>5. TypeOK'
    BY <1>1, <1>4 DEF Inv, TypeOK, Copied
  <1>6. OrderInv'
    <2>1. navigation.reading \in Int /\ navigation.reading <= reading /\ m \in Int /\ reading \in Int
      BY <1>1, <1>2, LengthIsNat DEF Inv, OrderInv, Nodes, Indices
    <2> QED
      BY <2>1, <1>1, <1>4 DEF Inv, OrderInv
  <1>7. RecentInv'
    BY <1>4 DEF Inv, RecentInv
  <1>8. CopiesInv'
    BY <1>1, LengthIsNat, CopiesKept DEF Inv, Indices
  <1> QED
    BY <1>5, <1>6, <1>7, <1>8 DEF Inv

LEMMA ImuSetAttitudeInv ==
    ASSUME Inv, ImuSetAttitude
    PROVE  Inv'
  <1>0. UNCHANGED <<reading, navigation, main, gui, frame>>
    BY DEF ImuSetAttitude
  <1> USE <1>0
  <1>1. reading \in Indices /\ attitude \in Indices /\ mqtt.nav \in Nodes
        /\ mqtt.nav.reading \in Indices /\ navigation.reading \in Indices
    BY DEF Inv, TypeOK, Nodes
  <1>2. mqtt.sets = "attitude" /\ mqtt.nav.reading = reading
    BY DEF ImuSetAttitude, Inv, OrderInv
  <1>3. mqtt'.sets = "navigation" /\ mqtt'.nav = mqtt.nav
        /\ mqtt' \in [sets : {Idle, "attitude", "navigation"}, nav : Nodes]
    BY DEF ImuSetAttitude, Inv, TypeOK
  <1>4. attitude' \in Indices /\ ~AttitudeChanged(attitude', reading)
    <2>1. attitude' = IF AttitudeChanged(attitude, reading) THEN reading ELSE attitude
      BY <1>2 DEF ImuSetAttitude
    <2>2. CASE AttitudeChanged(attitude, reading)
      BY <2>1, <2>2, <1>1, AttitudeItself
    <2>3. CASE ~AttitudeChanged(attitude, reading)
      BY <2>1, <2>3, <1>1
    <2> QED
      BY <2>2, <2>3
  <1>5. Recent(attitude', reading)
    BY <1>4, <1>1, LengthIsNat DEF Recent, Indices
  <1>6. TypeOK'
    BY <1>1, <1>3, <1>4 DEF Inv, TypeOK, Copied
  <1>7. OrderInv'
    BY <1>2, <1>3 DEF Inv, OrderInv, Idle
  <1>8. RecentInv'
    <2>1. Recent(attitude', navigation.reading)
      BY <1>5, <1>1, RecentBefore, LengthIsNat DEF Inv, OrderInv, Indices
    <2> QED
      BY <2>1, <1>2, <1>3, <1>5 DEF RecentInv, Recent, AttitudeChanged, At
  <1>9. CopiesInv'
    <2>1. CASE gui.gets = 1
      <3>1. gui.copies["navigation"] \in Indices /\ gui.copies["navigation"] <= reading
        BY <2>1 DEF Inv, CopiesInv
      <3>2. Recent(attitude', gui.copies["navigation"])
        BY <3>1, <1>1, <1>5, RecentBefore, LengthIsNat DEF Indices
      <3> QED
        BY <2>1, <3>1, <3>2 DEF CopiesInv, Recent, AttitudeChanged, At, Indices
    <2>2. CASE gui.gets # 1
      BY <2>2 DEF Inv, CopiesInv, Recent, AttitudeChanged, At, Indices
    <2> QED
      BY <2>1, <2>2
  <1> QED
    BY <1>6, <1>7, <1>8, <1>9 DEF Inv

LEMMA NavStatusGetInv ==
    ASSUME Inv, NavStatusGet
    PROVE  Inv'
  <1> PICK b \in BOOLEAN :
        mqtt' = [sets |-> "navigation", nav |-> [navigation EXCEPT !.target_acheived = b]]
    BY DEF NavStatusGet
  <1>0. UNCHANGED <<reading, navigation, attitude, main, gui, frame>>
    BY DEF NavStatusGet
  <1> USE <1>0
  <1>1. reading \in Indices /\ navigation \in Nodes
    BY DEF Inv, TypeOK
  <1>2. [navigation EXCEPT !.target_acheived = b] \in Nodes
        /\ [navigation EXCEPT !.target_acheived = b].reading = navigation.reading
    BY <1>1 DEF Nodes
  <1>3. mqtt' \in [sets : {Idle, "attitude", "navigation"}, nav : Nodes]
        /\ mqtt'.sets = "navigation" /\ mqtt'.nav.reading = navigation.reading
    BY <1>2
  <1>4. TypeOK'
    BY <1>3 DEF Inv, TypeOK, Copied
  <1>5. OrderInv'
    <2>1. navigation.reading \in Int /\ navigation.reading <= reading /\ reading \in Int
      BY <1>1, LengthIsNat DEF Inv, OrderInv, Nodes, Indices
    <2> QED
      BY <2>1, <1>3 DEF Inv, OrderInv
  <1>6. RecentInv'
    BY <1>3 DEF Inv, RecentInv, Recent, AttitudeChanged, At
  <1>7. CopiesInv'
    BY <1>1, LengthIsNat, CopiesKept DEF Inv, Indices
  <1> QED
    BY <1>4, <1>5, <1>6, <1>7 DEF Inv

(* A set leaves the copy's reading in the node, or the node as it was.     *)
LEMMA SetNavigationEither ==
    ASSUME NEW nav, SetNavigation(nav)
    PROVE  navigation' = nav \/ navigation' = navigation
  BY DEF SetNavigation

LEMMA MqttSetNavigationInv ==
    ASSUME Inv, MqttSetNavigation
    PROVE  Inv'
  <1>0. UNCHANGED <<reading, attitude, main, gui, frame>>
    BY DEF MqttSetNavigation
  <1> USE <1>0
  <1>1. mqtt.sets = "navigation" /\ mqtt' = [sets |-> Idle, nav |-> NoCopy]
        /\ (navigation' = mqtt.nav \/ navigation' = navigation)
    BY SetNavigationEither DEF MqttSetNavigation
  <1>2. reading \in Indices /\ navigation \in Nodes /\ mqtt.nav \in Nodes
        /\ main \in [sets : {Idle, "navigation"}, nav : Nodes]
    BY DEF Inv, TypeOK
  <1>3. NoCopy \in Nodes
    BY LengthIsNat DEF NoCopy, Nodes, Indices
  <1>4. navigation' \in Nodes /\ navigation.reading <= navigation'.reading
        /\ navigation'.reading <= reading /\ Recent(attitude, navigation'.reading)
    <2>1. mqtt.sets # Idle
      BY <1>1 DEF Idle
    <2>2. navigation.reading <= mqtt.nav.reading /\ mqtt.nav.reading <= reading
          /\ Recent(attitude, mqtt.nav.reading)
      BY <1>1, <2>1 DEF Inv, OrderInv, RecentInv
    <2>3. navigation.reading <= navigation.reading /\ navigation.reading <= reading
          /\ Recent(attitude, navigation.reading)
      BY <1>2, LengthIsNat DEF Inv, OrderInv, RecentInv, Nodes, Indices
    <2>4. CASE navigation' = mqtt.nav
      BY <2>2, <2>4, <1>2
    <2>5. CASE navigation' = navigation
      BY <2>3, <2>5, <1>2
    <2> QED
      BY <1>1, <2>4, <2>5
  <1>5. TypeOK'
    BY <1>1, <1>3, <1>4 DEF Inv, TypeOK, Copied
  <1>6. OrderInv'
    <2>1. main.sets # Idle => main.nav.reading <= navigation'.reading /\ main.nav.target_acheived
      BY <1>2, <1>4, LengthIsNat DEF Inv, OrderInv, Nodes, Indices
    <2> QED
      BY <1>1, <1>4, <2>1 DEF OrderInv, Idle
  <1>7. RecentInv'
    BY <1>1, <1>4 DEF RecentInv, Recent, AttitudeChanged, At, Idle
  <1>8. CopiesInv'
    BY <1>2, LengthIsNat, CopiesKept DEF Inv, Indices
  <1> QED
    BY <1>5, <1>6, <1>7, <1>8 DEF Inv

LEMMA MainGetInv ==
    ASSUME Inv, MainGet
    PROVE  Inv'
  <1>0. UNCHANGED <<reading, navigation, attitude, mqtt, gui, frame>>
    BY DEF MainGet
  <1> USE <1>0
  <1>1. main' = [sets |-> "navigation", nav |-> navigation] /\ navigation.target_acheived
    BY DEF MainGet, Arrived
  <1>2. reading \in Indices /\ navigation \in Nodes
    BY DEF Inv, TypeOK
  <1>3. TypeOK'
    BY <1>1, <1>2 DEF Inv, TypeOK, Copied
  <1>4. OrderInv'
    BY <1>1, <1>2, LengthIsNat DEF Inv, OrderInv, Nodes, Indices
  <1>5. RecentInv'
    BY DEF Inv, RecentInv, Recent, AttitudeChanged, At
  <1>6. CopiesInv'
    BY <1>2, LengthIsNat, CopiesKept DEF Inv, Indices
  <1> QED
    BY <1>3, <1>4, <1>5, <1>6 DEF Inv

(* The node may go back, to the reading of the copy.                       *)
LEMMA MainSetInv ==
    ASSUME Inv, MainSet
    PROVE  Inv'
  <1>0. UNCHANGED <<reading, attitude, mqtt, gui, frame>>
    BY DEF MainSet
  <1> USE <1>0
  <1> DEFINE copy == [main.nav EXCEPT !.target_acheived = FALSE]
  <1>1. main.sets = "navigation" /\ main' = [sets |-> Idle, nav |-> NoCopy]
        /\ (navigation' = copy \/ navigation' = navigation)
    BY SetNavigationEither DEF MainSet
  <1>2. reading \in Indices /\ attitude \in Indices /\ navigation \in Nodes
        /\ main.nav \in Nodes
        /\ mqtt \in [sets : {Idle, "attitude", "navigation"}, nav : Nodes]
    BY DEF Inv, TypeOK
  <1>3. NoCopy \in Nodes
    BY LengthIsNat DEF NoCopy, Nodes, Indices
  <1>4. copy \in Nodes /\ copy.reading = main.nav.reading
    BY <1>2 DEF Nodes
  <1>5. navigation' \in Nodes /\ navigation'.reading <= navigation.reading
    <2>1. main.nav.reading <= navigation.reading /\ navigation.reading <= navigation.reading
      BY <1>1, <1>2, LengthIsNat DEF Inv, OrderInv, Idle, Nodes, Indices
    <2>2. CASE navigation' = copy
      BY <2>1, <2>2, <1>4
    <2>3. CASE navigation' = navigation
      BY <2>1, <2>3, <1>2
    <2> QED
      BY <1>1, <2>2, <2>3
  <1> HIDE DEF copy
  <1>6. navigation.reading \in Int /\ navigation'.reading \in Int /\ reading \in Int
        /\ mqtt.nav.reading \in Int
    BY <1>2, <1>5, LengthIsNat DEF Nodes, Indices
  <1>7. TypeOK'
    BY <1>1, <1>3, <1>5 DEF Inv, TypeOK, Copied
  <1>8. OrderInv'
    <2>1. navigation'.reading <= reading
      BY <1>5, <1>6 DEF Inv, OrderInv
    <2>2. mqtt.sets # Idle => navigation'.reading <= mqtt.nav.reading
      BY <1>5, <1>6 DEF Inv, OrderInv
    <2>3. main'.sets = Idle
      BY <1>1
    <2> QED
      BY <2>1, <2>2, <2>3 DEF Inv, OrderInv
  <1>9. RecentInv'
    <2>1. Recent(attitude, navigation'.reading)
      BY <1>5, <1>6, RecentBefore DEF Inv, RecentInv
    <2> QED
      BY <2>1 DEF Inv, RecentInv, Recent, AttitudeChanged, At
  <1>10. CopiesInv'
    BY <1>2, LengthIsNat, CopiesKept DEF Inv, Indices
  <1> QED
    BY <1>7, <1>8, <1>9, <1>10 DEF Inv

-----------------------------------------------------------------------------
(* The GUI thread writes none of what the other two read.                  *)
LEMMA GuiKeeps ==
    ASSUME Inv, UNCHANGED <<reading, navigation, attitude, mqtt, main>>
    PROVE  OrderInv' /\ RecentInv'
  BY DEF Inv, OrderInv, RecentInv, Recent, AttitudeChanged, At

LEMMA OrderLength == Len(Order) = 4
  BY DEF Order

LEMMA CopiesNext ==
    ASSUME gui'.gets >= 1 => /\ gui'.copies["navigation"] \in Indices
                             /\ gui'.copies["navigation"] <= reading',
           gui'.gets = 1 => Recent(attitude', gui'.copies["navigation"]),
           gui'.gets >= 2 => Recent(gui'.copies["attitude"], gui'.copies["navigation"])
    PROVE  CopiesInv'
  BY DEF CopiesInv, Recent, AttitudeChanged, At, Indices

LEMMA GuiGetInv ==
    ASSUME Inv, GuiGet
    PROVE  Inv'
  <1> DEFINE node == Order[gui.gets + 1]
  <1>0. UNCHANGED <<reading, navigation, attitude, mqtt, main, frame>>
    BY DEF GuiGet
  <1> USE <1>0
  <1> PICK v \in Values(node) :
        gui' = [gets |-> gui.gets + 1,
                copies |-> [n \in Copied \cup {node} |-> IF n = node THEN v ELSE gui.copies[n]]]
    BY DEF GuiGet
  <1>1. gui.gets \in 0 .. 3 /\ frame = NoFrame
    BY OrderLength DEF Inv, TypeOK, GuiGet
  <1>2. gui'.gets = gui.gets + 1
        /\ gui'.copies = [n \in Copied \cup {node} |-> IF n = node THEN v ELSE gui.copies[n]]
    OBVIOUS
  <1>3. Copied' = Copied \cup {node}
    BY <1>1, <1>2 DEF Copied
  <1>4. TypeOK'
    <2>1. gui'.gets \in 0 .. Len(Order) /\ DOMAIN gui'.copies = Copied'
      BY <1>1, <1>2, <1>3, OrderLength
    <2> QED
      BY <2>1, <1>1 DEF Inv, TypeOK
  <1>5. CopiesInv'
    <2>1. CASE gui.gets = 0
      <3>1. node = "navigation" /\ v = navigation.reading
        BY <2>1 DEF Order, Values
      <3>2. gui'.copies["navigation"] = navigation.reading
        BY <3>1, <1>2
      <3>3. navigation.reading \in Indices /\ navigation.reading <= reading
            /\ Recent(attitude, navigation.reading)
        BY DEF Inv, TypeOK, OrderInv, RecentInv, Nodes
      <3> QED
        BY <2>1, <1>2, <3>2, <3>3, CopiesNext
    <2>2. CASE gui.gets = 1
      <3>1. node = "attitude" /\ v = attitude
        BY <2>2 DEF Order, Values
      <3>2. "navigation" \in Copied
        BY <2>2 DEF Copied, Order
      <3>3. gui'.copies["navigation"] = gui.copies["navigation"] /\ gui'.copies["attitude"] = attitude
        BY <3>1, <3>2, <1>2
      <3>4. gui.copies["navigation"] \in Indices /\ gui.copies["navigation"] <= reading
            /\ Recent(attitude, gui.copies["navigation"])
        BY <2>2 DEF Inv, CopiesInv
      <3> QED
        BY <2>2, <1>2, <3>3, <3>4, CopiesNext
    <2>3. CASE gui.gets \in {2, 3}
      <3>1. node \in {"status", "bms"}
        BY <2>3 DEF Order
      <3>2. "navigation" \in Copied /\ "attitude" \in Copied
        BY <2>3 DEF Copied, Order
      <3>3. gui'.copies["navigation"] = gui.copies["navigation"]
            /\ gui'.copies["attitude"] = gui.copies["attitude"]
        BY <3>1, <3>2, <1>2
      <3>4. gui.copies["navigation"] \in Indices /\ gui.copies["navigation"] <= reading
            /\ Recent(gui.copies["attitude"], gui.copies["navigation"])
        BY <2>3 DEF Inv, CopiesInv
      <3> QED
        BY <2>3, <1>2, <3>3, <3>4, CopiesNext
    <2> QED
      BY <1>1, <2>1, <2>2, <2>3
  <1> QED
    BY <1>4, <1>5, GuiKeeps DEF Inv

LEMMA sendStatusPacketInv ==
    ASSUME Inv, sendStatusPacket
    PROVE  Inv'
  <1>0. UNCHANGED <<reading, navigation, attitude, mqtt, main, gui>> /\ gui.gets = Len(Order)
    BY DEF sendStatusPacket
  <1>1. TypeOK'
    BY <1>0 DEF Inv, TypeOK, Copied
  <1>2. CopiesInv'
    BY <1>0, LengthIsNat, CopiesKept DEF Inv, TypeOK, Indices
  <1> QED
    BY <1>0, <1>1, <1>2, GuiKeeps DEF Inv

(* A motor frame and the end of a turn leave the thread with no copies.    *)
LEMMA NoGetsInv ==
    ASSUME Inv, UNCHANGED <<reading, navigation, attitude, mqtt, main>>, gui'.gets = 0
    PROVE  Inv'
  <1>1. TypeOK'
    BY OrderLength DEF Inv, TypeOK
  <1>2. CopiesInv'
    BY DEF CopiesInv
  <1> QED
    BY <1>1, <1>2, GuiKeeps DEF Inv

-----------------------------------------------------------------------------
LEMMA StepInv == Inv /\ [Next]_vars => Inv'
  <1> SUFFICES ASSUME Inv, [Next]_vars PROVE Inv'
    OBVIOUS
  <1>1. CASE Mqtt
    BY <1>1, ImuGetInv, ImuSetAttitudeInv, NavStatusGetInv, MqttSetNavigationInv DEF Mqtt
  <1>2. CASE Main
    BY <1>2, MainGetInv, MainSetInv DEF Main
  <1>3. CASE GuiGet \/ sendStatusPacket
    BY <1>3, GuiGetInv, sendStatusPacketInv
  <1>4. CASE sendMotorPacket \/ GuiSleep
    BY <1>4, NoGetsInv DEF sendMotorPacket, GuiSleep
  <1>5. CASE UNCHANGED vars
    BY <1>5 DEF vars, Inv, TypeOK, OrderInv, RecentInv, CopiesInv, Recent, AttitudeChanged,
                At, Copied, Nodes, Indices
  <1> QED
    BY <1>1, <1>2, <1>3, <1>4, <1>5 DEF Next, Gui

(* The inductive invariant: where the copies lie between node and reading. *)
THEOREM Invariance == Spec => []Inv
  BY InitInv, StepInv, PTL DEF Spec

(* The types of the nodes and copies.                                      *)
THEOREM TypeCorrect == Spec => []TypeOK
  <1>1. Inv => TypeOK
    BY DEF Inv
  <1> QED
    BY <1>1, Invariance, PTL

(* sendStatusPacket: whatever the INS sends and whoever writes navigation  *)
(* back, the attitude it gets is not older than the position it has got.   *)
THEOREM FramesNotOlder == Spec => []AttitudeNotOlder
  <1>1. Inv => AttitudeNotOlder
    BY DEF Inv, CopiesInv, Recent, AttitudeNotOlder
  <1> QED
    BY <1>1, Invariance, PTL

(* Only main() at an arrival takes the position of the node back: not the  *)
(* handlers of MQTT, whose copies are never behind it.                     *)
THEOREM PositionsAdvance == Spec => PositionBackOnlyOnArrival
  <1> DEFINE Step == navigation'.reading < navigation.reading =>
                        main.sets = "navigation" /\ main.nav.target_acheived
  <1>1. Inv /\ [Next]_vars => [Step]_vars
    <2> SUFFICES ASSUME Inv, Next, navigation'.reading < navigation.reading
                 PROVE  main.sets = "navigation" /\ main.nav.target_acheived
      OBVIOUS
    <2>1. navigation.reading \in Int
      BY LengthIsNat DEF Inv, TypeOK, Nodes, Indices
    <2>2. navigation' # navigation
      BY <2>1
    <2>3. MqttSetNavigation \/ MainSet
      BY <2>2 DEF Next, Mqtt, Main, Gui, ImuGet, ImuSetAttitude, NavStatusGet, MainGet,
                  GuiGet, sendStatusPacket, sendMotorPacket, GuiSleep
    <2>4. CASE MqttSetNavigation
      <3>1. mqtt.sets = "navigation" /\ navigation' = mqtt.nav
        BY <2>2, <2>4, SetNavigationEither DEF MqttSetNavigation
      <3>2. mqtt.nav \in Nodes /\ navigation.reading <= mqtt.nav.reading
        BY <3>1 DEF Inv, TypeOK, OrderInv, Idle
      <3> QED
        BY <2>1, <3>1, <3>2, LengthIsNat DEF Nodes, Indices
    <2>5. CASE MainSet
      BY <2>5 DEF MainSet, Inv, OrderInv, Idle
    <2> QED
      BY <2>3, <2>4, <2>5
  <1> QED
    BY <1>1, Invariance, PTL DEF Spec, PositionBackOnlyOnArrival

-----------------------------------------------------------------------------
(* The fields of the frames.  What the INS sends is not checked by the     *)
(* code: a number decodes if it fits the type of its field, and these are  *)
(* the bounds.                                                             *)
SignedFits(n) == n \in Int /\ -327690 < n /\ n < 327680
PercentFits(n) == n \in Int /\ -128 <= n /\ n < 128
AngleFits(n) == n \in Int /\ -129000 < n /\ n < 128000
ReadingFits(m) == \A f \in {"speed", "north", "east", "down"} : SignedFits(m[f])
StatusFits(sys) == sys.leg \in 0 .. 255
BatteryFits(bms) == bms.current <= 655
CommandFits(cmnd) ==
    /\ PercentFits(cmnd.thrust)
    /\ \A f \in {"left", "right", "top", "bottom"} : AngleFits(cmnd[f])

FieldsFit ==
    /\ \A i \in 1 .. Len(Readings) : ReadingFits(Readings[i])
    /\ \A sys \in Statuses : StatusFits(sys)
    /\ \A bms \in Batteries : BatteryFits(bms)
    /\ \A cmnd \in Commands : CommandFits(cmnd)

(* The copies that the fields are made of.                                 *)
CopiesType ==
    /\ gui.gets >= 1 => gui.copies["navigation"] \in Indices
    /\ gui.gets >= 2 => gui.copies["attitude"] \in Indices
    /\ gui.gets >= 3 => gui.copies["status"] \in Statuses
    /\ gui.gets >= 4 => gui.copies["bms"] \in Batteries

DecodeInv == CopiesType /\ FramesDecode

(* A number goes through a field that is wide enough.                      *)
LEMMA Signed16 ==
    ASSUME NEW n \in Int, -32768 <= n, n < 32768
    PROVE  Signed(n, 16) = n
  <1>1. 2^16 = 65536 /\ 2^15 = 32768 /\ 16 - 1 = 15
    OBVIOUS
  <1>2. CASE n >= 0
    <2>1. n % 65536 = n
      BY <1>2
    <2> QED
      BY <1>1, <2>1 DEF Signed, Unsigned
  <1>3. CASE n < 0
    <2>1. n % 65536 = n + 65536
      BY <1>3
    <2> QED
      BY <1>1, <1>3, <2>1 DEF Signed, Unsigned
  <1> QED
    BY <1>2, <1>3

LEMMA Signed8 ==
    ASSUME NEW n \in Int, -128 <= n, n < 128
    PROVE  Signed(n, 8) = n
  <1>1. 2^8 = 256 /\ 2^7 = 128 /\ 8 - 1 = 7
    OBVIOUS
  <1>2. CASE n >= 0
    <2>1. n % 256 = n
      BY <1>2
    <2> QED
      BY <1>1, <2>1 DEF Signed, Unsigned
  <1>3. CASE n < 0
    <2>1. n % 256 = n + 256
      BY <1>3
    <2> QED
      BY <1>1, <1>3, <2>1 DEF Signed, Unsigned
  <1> QED
    BY <1>2, <1>3

(* No leg is shown as no mission, an end, an abort or an error.            *)
LEMMA OperationIsShown ==
    ASSUME NEW n \in 1 .. 256
    PROVE  HostOrder16(n) \notin {0, 65534, 65535}
  <1>1. CASE n < 256
    <2>1. n % 256 = n /\ n \div 256 = 0
      BY <1>1
    <2>2. HostOrder16(n) = n * 256
      BY <2>1 DEF HostOrder16
    <2> QED
      BY <1>1, <2>2
  <1>2. CASE n = 256
    <2>1. HostOrder16(256) = 1
      BY DEF HostOrder16
    <2> QED
      BY <1>2, <2>1
  <1> QED
    BY <1>1, <1>2

(* Truncation loses less than one unit.                                    *)
LEMMA AbsBelow ==
    ASSUME NEW d \in Int, NEW n \in Int, -d < n, n < d
    PROVE  Abs(n) < d
  BY DEF Abs

LEMMA TruncatedTowardsZero ==
    ASSUME NEW n \in Int, NEW d \in {10, 1000}
    PROVE  LET q == Truncated(n, d) IN
           /\ q \in Int
           /\ n < 0 => n <= d * q /\ d * q < n + d
           /\ n >= 0 => d * q <= n /\ n < d * q + d
  <1>1. CASE n < 0
    <2> DEFINE q == (-n) \div d
    <2>1. q \in Int /\ d * q <= -n /\ -n < d * q + d
      BY <1>1
    <2>2. Truncated(n, d) = -q
      BY <1>1 DEF Truncated
    <2> HIDE DEF q
    <2> QED
      BY <1>1, <2>1, <2>2
  <1>2. CASE n >= 0
    <2> DEFINE q == n \div d
    <2>1. q \in Int /\ d * q <= n /\ n < d * q + d
      BY <1>2
    <2>2. Truncated(n, d) = q
      BY <1>2 DEF Truncated
    <2> HIDE DEF q
    <2> QED
      BY <1>2, <2>1, <2>2
  <1> QED
    BY <1>1, <1>2

LEMMA HundredthsAre ==
    ASSUME NEW n \in Int
    PROVE  LET h == Hundredths(n) IN
           /\ h \in Int
           /\ n < 0 => n <= 10 * h /\ 10 * h < n + 10
           /\ n >= 0 => 10 * h <= n /\ n < 10 * h + 10
  BY TruncatedTowardsZero DEF Hundredths

LEMMA HundredthsClose ==
    ASSUME NEW n \in Int
    PROVE  Close(Hundredths(n), n)
  <1> DEFINE h == Hundredths(n)
  <1>1. /\ h \in Int
        /\ n < 0 => n <= 10 * h /\ 10 * h < n + 10
        /\ n >= 0 => 10 * h <= n /\ n < 10 * h + 10
    BY HundredthsAre
  <1> HIDE DEF h
  <1>2. 10 * h - n \in Int /\ -10 < 10 * h - n /\ 10 * h - n < 10
    BY <1>1
  <1>3. Abs(10 * h - n) < 10
    BY <1>2, AbsBelow
  <1> QED
    BY <1>3 DEF h, Close

LEMMA SignedHundredths ==
    ASSUME NEW n, SignedFits(n)
    PROVE  n \in Int /\ Hundredths(n) \in Int /\ -32768 <= Hundredths(n) /\ Hundredths(n) < 32768
  <1> DEFINE h == Hundredths(n)
  <1>1. n \in Int /\ -327690 < n /\ n < 327680
    BY DEF SignedFits
  <1>2. /\ h \in Int
        /\ n < 0 => n <= 10 * h /\ 10 * h < n + 10
        /\ n >= 0 => 10 * h <= n /\ n < 10 * h + 10
    BY <1>1, HundredthsAre
  <1> HIDE DEF h
  <1>3. -32768 <= h /\ h < 32768
    BY <1>1, <1>2
  <1> QED
    BY <1>1, <1>2, <1>3 DEF h

LEMMA SignedField ==
    ASSUME NEW n, SignedFits(n)
    PROVE  Close(Signed(Hundredths(n), 16), n)
  <1> DEFINE h == Hundredths(n)
  <1>1. n \in Int /\ h \in Int /\ -32768 <= h /\ h < 32768
    BY SignedHundredths
  <1>2. Close(h, n)
    BY <1>1, HundredthsClose
  <1> HIDE DEF h
  <1>3. Signed(h, 16) = h
    BY <1>1, Signed16
  <1> QED
    BY <1>2, <1>3 DEF h

LEMMA ThousandthsFit ==
    ASSUME NEW n, AngleFits(n)
    PROVE  Signed(Truncated(n, 1000), 8) = Truncated(n, 1000)
           /\ Abs(1000 * Truncated(n, 1000) - n) < 1000
  <1> DEFINE t == Truncated(n, 1000)
  <1>1. n \in Int /\ -129000 < n /\ n < 128000
    BY DEF AngleFits
  <1>2. /\ t \in Int
        /\ n < 0 => n <= 1000 * t /\ 1000 * t < n + 1000
        /\ n >= 0 => 1000 * t <= n /\ n < 1000 * t + 1000
    BY <1>1, TruncatedTowardsZero
  <1> HIDE DEF t
  <1>3. -128 <= t /\ t < 128
    BY <1>1, <1>2
  <1>4. 1000 * t - n \in Int /\ -1000 < 1000 * t - n /\ 1000 * t - n < 1000
    BY <1>1, <1>2
  <1>5. Abs(1000 * t - n) < 1000
    BY <1>4, AbsBelow
  <1>6. Signed(t, 8) = t
    BY <1>2, <1>3, Signed8
  <1> QED
    BY <1>5, <1>6 DEF t

-----------------------------------------------------------------------------
(* The fields made of values that fit say what these values are.           *)
LEMMA StatusDecoded ==
    ASSUME NEW nav, NEW att, NEW sys, NEW bms,
           nav \in InsMessages, ReadingFits(nav), StatusFits(sys), BatteryFits(bms),
           bms.current \in Nat, bms.capacityRemain \in Nat
    PROVE  StatusDecodes(StatusFields(nav, att, sys, bms), nav, sys, bms)
  <1> DEFINE f == StatusFields(nav, att, sys, bms)
  <1>1. /\ f.Lattitude = nav.latitude * 10 /\ f.Longitude = nav.longitude * 10
        /\ f.Depth = Hundredths(nav.depth) /\ f.Speed = Signed(Hundredths(nav.speed), 16)
        /\ f.SpeedBody[1] = Signed(Hundredths(nav.north), 16)
        /\ f.SpeedBody[2] = Signed(Hundredths(nav.east), 16)
        /\ f.SpeedBody[3] = Signed(Hundredths(nav.down), 16)
        /\ f.MissionOperationId = MissionOperationId(sys)
        /\ f.BatteryCurrent = Unsigned(bms.current * 100, 16)
        /\ f.BatteryCapacityRemain = bms.capacityRemain * 100
        /\ f.BatteryCharge = bms.chargePercent
    BY DEF StatusFields
  <1> HIDE DEF f
  <1>2. nav.latitude \in Int /\ nav.longitude \in Int /\ nav.depth \in Int
    BY DEF InsMessages
  <1>3. f.Lattitude = 10 * nav.latitude /\ f.Longitude = 10 * nav.longitude
    BY <1>1, <1>2
  <1>4. Close(f.Depth, nav.depth)
    BY <1>1, <1>2, HundredthsClose
  <1>5. /\ Close(f.Speed, nav.speed) /\ Close(f.SpeedBody[1], nav.north)
        /\ Close(f.SpeedBody[2], nav.east) /\ Close(f.SpeedBody[3], nav.down)
    <2>1. SignedFits(nav.speed) /\ SignedFits(nav.north) /\ SignedFits(nav.east) /\ SignedFits(nav.down)
      BY DEF ReadingFits
    <2> QED
      BY <1>1, <2>1, SignedField
  <1>6. (f.MissionOperationId = 0 <=> ~sys.armed) /\ f.MissionOperationId \notin {65534, 65535}
    <2>1. CASE sys.armed
      <3>1. sys.leg + 1 \in 1 .. 256
        BY DEF StatusFits
      <3>2. f.MissionOperationId = HostOrder16(sys.leg + 1)
        BY <1>1, <2>1 DEF MissionOperationId
      <3> QED
        BY <2>1, <3>1, <3>2, OperationIsShown
    <2>2. CASE ~sys.armed
      <3>1. f.MissionOperationId = 0
        BY <1>1, <2>2 DEF MissionOperationId
      <3> QED
        BY <2>2, <3>1
    <2> QED
      BY <2>1, <2>2
  <1>7. f.BatteryCurrent = 100 * bms.current
    <2> DEFINE cA == bms.current * 100
    <2>1. 2^16 = 65536
      OBVIOUS
    <2>2. cA \in Int /\ 0 <= cA /\ cA < 65536 /\ cA = 100 * bms.current
      BY DEF BatteryFits
    <2>3. f.BatteryCurrent = cA % 65536
      BY <1>1, <2>1 DEF Unsigned
    <2> HIDE DEF cA
    <2>4. cA % 65536 = cA
      BY <2>2
    <2> QED
      BY <2>2, <2>3, <2>4
  <1>8. f.BatteryCapacityRemain = 100 * bms.capacityRemain /\ f.BatteryCharge = bms.chargePercent
    BY <1>1
  <1>9. StatusDecodes(f, nav, sys, bms)
    BY <1>3, <1>4, <1>5, <1>6, <1>7, <1>8 DEF StatusDecodes
  <1> QED
    BY <1>9 DEF f

LEMMA MotorDecoded ==
    ASSUME NEW cmnd, CommandFits(cmnd)
    PROVE  MotorDecodes(MotorFields(cmnd), cmnd)
  <1> DEFINE f == MotorFields(cmnd)
  <1>1. /\ f.thrusterBSx.command = Signed(cmnd.thrust, 8)
        /\ f.thrusterBDx.command = Signed(Truncated(cmnd.left, 1000), 8)
        /\ f.thrusterBSide.command = Signed(Truncated(cmnd.right, 1000), 8)
        /\ f.thrusterFSide.command = Signed(Truncated(cmnd.top, 1000), 8)
        /\ f.thrusterBTop.command = Signed(Truncated(cmnd.bottom, 1000), 8)
    BY DEF MotorFields, Reported
  <1> HIDE DEF f
  <1>2. /\ PercentFits(cmnd.thrust) /\ AngleFits(cmnd.left) /\ AngleFits(cmnd.right)
        /\ AngleFits(cmnd.top) /\ AngleFits(cmnd.bottom)
    BY DEF CommandFits
  <1>3. f.thrusterBSx.command = cmnd.thrust
    BY <1>1, <1>2, Signed8 DEF PercentFits
  <1>4. /\ Abs(1000 * f.thrusterBDx.command - cmnd.left) < 1000
        /\ Abs(1000 * f.thrusterBSide.command - cmnd.right) < 1000
        /\ Abs(1000 * f.thrusterFSide.command - cmnd.top) < 1000
        /\ Abs(1000 * f.thrusterBTop.command - cmnd.bottom) < 1000
    BY <1>1, <1>2, ThousandthsFit
  <1>5. MotorDecodes(f, cmnd)
    BY <1>3, <1>4 DEF MotorDecodes
  <1> QED
    BY <1>5 DEF f

(* What the copies of a reading stand for fits, or is zero.                *)
LEMMA AtFits ==
    ASSUME FieldsFit, NEW i \in Indices
    PROVE  At(i) \in InsMessages /\ ReadingFits(At(i))
  <1>1. CASE i = 0
    <2>1. SignedFits(0)
      BY DEF SignedFits
    <2>2. At(i) = Zeros
      BY <1>1 DEF At
    <2> QED
      BY <2>1, <2>2 DEF Zeros, InsMessages, ReadingFits
  <1>2. CASE i # 0
    <2>1. i \in 1 .. Len(Readings)
      BY <1>2, LengthIsNat DEF Indices
    <2>2. Readings[i] \in InsMessages /\ ReadingFits(Readings[i])
      BY <2>1, ReadingsAssumption DEF FieldsFit
    <2> QED
      BY <1>2, <2>2 DEF At
  <1> QED
    BY <1>1, <1>2

LEMMA WordIsNat == ASSUME NEW n \in Words PROVE n \in Nat
  BY DEF Words

LEMMA BatteryIsNat ==
    ASSUME NEW b \in Batteries
    PROVE  b.current \in Nat /\ b.capacityRemain \in Nat
  <1>1. b.current \in Words /\ b.capacityRemain \in Words
    BY BatteriesAssumption DEF BatteryData
  <1> QED
    BY <1>1, WordIsNat

-----------------------------------------------------------------------------
LEMMA GuiGetDecodes ==
    ASSUME Inv, DecodeInv, GuiGet
    PROVE  DecodeInv'
  <1> DEFINE node == Order[gui.gets + 1]
  <1>1. PICK v \in Values(node) :
          gui' = [gets |-> gui.gets + 1,
                  copies |-> [n \in Copied \cup {node} |-> IF n = node THEN v ELSE gui.copies[n]]]
    BY DEF GuiGet
  <1>2. gui.gets \in 0 .. 3 /\ frame' = NoFrame
    BY OrderLength DEF Inv, TypeOK, GuiGet
  <1>3. gui'.gets = gui.gets + 1
        /\ gui'.copies = [n \in Copied \cup {node} |-> IF n = node THEN v ELSE gui.copies[n]]
    BY <1>1
  <1>4. \A n \in Copied : n # node => gui'.copies[n] = gui.copies[n]
    BY <1>3
  <1>5. gui'.copies[node] = v
    BY <1>3
  <1>6. navigation.reading \in Indices /\ attitude \in Indices
    BY DEF Inv, TypeOK, Nodes
  <1>7. CopiesType'
    <2>1. CASE gui.gets = 0
      <3>1. node = "navigation" /\ v \in Indices
        BY <2>1, <1>6 DEF Order, Values
      <3> QED
        BY <2>1, <3>1, <1>3, <1>5 DEF CopiesType, Indices
    <2>2. CASE gui.gets = 1
      <3>1. node = "attitude" /\ v \in Indices /\ "navigation" \in Copied
        BY <2>2, <1>6 DEF Order, Values, Copied
      <3> QED
        BY <2>2, <3>1, <1>3, <1>4, <1>5 DEF DecodeInv, CopiesType, Indices
    <2>3. CASE gui.gets = 2
      <3>1. node = "status" /\ v \in Statuses /\ "navigation" \in Copied /\ "attitude" \in Copied
        BY <2>3 DEF Order, Values, Copied
      <3> QED
        BY <2>3, <3>1, <1>3, <1>4, <1>5 DEF DecodeInv, CopiesType, Indices
    <2>4. CASE gui.gets = 3
      <3>1. /\ node = "bms" /\ v \in Batteries
            /\ "navigation" \in Copied /\ "attitude" \in Copied /\ "status" \in Copied
        BY <2>4 DEF Order, Values, Copied
      <3> QED
        BY <2>4, <3>1, <1>3, <1>4, <1>5 DEF DecodeInv, CopiesType, Indices
    <2> QED
      BY <1>2, <2>1, <2>2, <2>3, <2>4
  <1>8. FramesDecode'
    BY <1>2 DEF FramesDecode, NoFrame
  <1> QED
    BY <1>7, <1>8 DEF DecodeInv

LEMMA sendStatusPacketDecodes ==
    ASSUME FieldsFit, Inv, DecodeInv, sendStatusPacket
    PROVE  DecodeInv'
  <1> DEFINE c == gui.copies
  <1>1. /\ gui' = gui /\ gui.gets = 4
        /\ frame' = StatusFields(At(c["navigation"]), At(c["attitude"]), c["status"], c["bms"])
    BY OrderLength DEF sendStatusPacket
  <1>2. CopiesType'
    BY <1>1 DEF DecodeInv, CopiesType, Indices
  <1>3. /\ c["navigation"] \in Indices /\ c["attitude"] \in Indices
        /\ c["status"] \in Statuses /\ c["bms"] \in Batteries
    BY <1>1 DEF DecodeInv, CopiesType
  <1>4. /\ StatusFits(c["status"]) /\ BatteryFits(c["bms"])
        /\ c["bms"].current \in Nat /\ c["bms"].capacityRemain \in Nat
    BY <1>3, BatteryIsNat DEF FieldsFit
  <1>5. At(c["navigation"]) \in InsMessages /\ ReadingFits(At(c["navigation"]))
    BY <1>3, AtFits
  <1>6. StatusDecodes(frame', At(c["navigation"]), c["status"], c["bms"])
    BY <1>1, <1>4, <1>5, StatusDecoded
  <1>7. FramesDecode'
    BY <1>1, <1>6 DEF FramesDecode, At
  <1> QED
    BY <1>2, <1>7 DEF DecodeInv

LEMMA sendMotorPacketDecodes ==
    ASSUME FieldsFit, sendMotorPacket
    PROVE  DecodeInv'
  <1>1. PICK cmnd \in Commands :
          gui' = [gets |-> 0, copies |-> [commands |-> cmnd]] /\ frame' = MotorFields(cmnd)
    BY DEF sendMotorPacket
  <1>2. MotorDecodes(MotorFields(cmnd), cmnd)
    BY MotorDecoded DEF FieldsFit
  <1>3. gui'.gets = 0 /\ gui'.copies.commands = cmnd
    BY <1>1
  <1>4. MotorDecodes(frame', gui'.copies.commands)
    BY <1>1, <1>2, <1>3
  <1>5. FramesDecode'
    BY <1>3, <1>4 DEF FramesDecode
  <1> QED
    BY <1>3, <1>5 DEF DecodeInv, CopiesType

LEMMA StepDecodes ==
    ASSUME FieldsFit
    PROVE  Inv /\ DecodeInv /\ [Next]_vars => DecodeInv'
  <1> SUFFICES ASSUME Inv, DecodeInv, [Next]_vars PROVE DecodeInv'
    OBVIOUS
  <1>1. CASE UNCHANGED <<gui, frame>>
    BY <1>1 DEF DecodeInv, CopiesType, FramesDecode, At, Indices
  <1>2. CASE GuiGet
    BY <1>2, GuiGetDecodes
  <1>3. CASE sendStatusPacket
    BY <1>3, sendStatusPacketDecodes
  <1>4. CASE sendMotorPacket
    BY <1>4, sendMotorPacketDecodes
  <1>5. CASE GuiSleep
    BY <1>5 DEF GuiSleep, DecodeInv, CopiesType, FramesDecode
  <1>6. Mqtt \/ Main => UNCHANGED <<gui, frame>>
    BY DEF Mqtt, Main, ImuGet, ImuSetAttitude, NavStatusGet, MqttSetNavigation, MainGet, MainSet
  <1>7. UNCHANGED vars => UNCHANGED <<gui, frame>>
    BY DEF vars
  <1> QED
    BY <1>1, <1>2, <1>3, <1>4, <1>5, <1>6, <1>7 DEF Next, Gui

(* Every status and motor frame says position, depth, speeds, current,     *)
(* capacity, charge and commands in the units the header documents, and no *)
(* operation but for an armed vehicle, for any readings, legs, batteries   *)
(* and commands whose numbers fit the fields: speeds of up to 327 m/s,     *)
(* currents of up to 655 A.  Angles, voltages and VuState are not in it.   *)
THEOREM WhatFitsDecodes ==
    ASSUME FieldsFit
    PROVE  Spec => []FramesDecode
  <1>1. Init => DecodeInv
    BY DEF Init, DecodeInv, CopiesType, FramesDecode
  <1>2. Inv /\ DecodeInv /\ [Next]_vars => DecodeInv'
    BY StepDecodes
  <1>3. DecodeInv => FramesDecode
    BY DEF DecodeInv
  <1> QED
    BY <1>1, <1>2, <1>3, Invariance, PTL DEF Spec

=============================================================================
