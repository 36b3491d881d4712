-------------------------- MODULE SensorTrayProofs --------------------------
(***************************************************************************)
(* The tray is whole, the filter drops nothing and no wake-up is lost,     *)
(* whatever the readings, the flows and the order of the tasks.            *)
(***************************************************************************)
EXTENDS SensorTray, TLAPS

Pair(tray) == [temp |-> tray.temp, hum |-> tray.hum]
Whole      == Readings \cup {Nothing}

(* The mutex covers the two writes of sensor_update_dht and no more.       *)
MutexInv == s_mutex = "dht" <=> dht_at \in {"temp", "hum"}

(* The tray is one reading, but for the moment between the two writes.     *)
WholeInv ==
  /\ dht_at \notin {"read"} => t_h \in Readings
  /\ dht_at # "hum" => Pair(s_tray) \in Whole
  /\ dht_at = "hum" => s_tray.temp = t_h.temp
  /\ Pair(push_buf.tray) \in Whole

(* Until the new reading is written the tray has the one in last_t, last_h.*)
LastInv ==
  /\ dht_at = "read" => t_h = last
  /\ dht_at \in {"read", "mark", "lock", "temp"} /\ last # Unread =>
       Pair(s_tray) = last
  /\ dht_at \in {"remark", "notify"} => Pair(s_tray) = t_h

(* No task is between a change of what is shown and its notification.      *)
NobodyGives ==
  /\ dht_at \in {"read", "mark", "lock", "temp"}
  /\ flow_at \in {"count", "update"}
  /\ main_at = "idle"

Shows(json) == json.tray = s_tray /\ (alive_flag => json.alive)

(* Then what push_task sent, or is about to send, is what there is, unless *)
(* it will look again.                                                     *)
PushInv ==
  NobodyGives /\ ~notified =>
    /\ push_at = "take" => Shows(sent)
    /\ push_at = "send" => Shows(push_buf)

TrayInv == TrayTypeOK /\ MutexInv /\ WholeInv /\ LastInv /\ PushInv

LEMMA InitTrayInv == TrayInit => TrayInv
  <1> SUFFICES ASSUME TrayInit PROVE TrayInv
    OBVIOUS
  <1>1. /\ s_tray = [temp |-> 0, hum |-> 0, flow |-> 0]
        /\ Pair(s_tray) = Nothing
        /\ push_buf = [tray |-> s_tray, alive |-> FALSE] /\ sent = push_buf
    BY DEF TrayInit, Tray, Nothing, Pair, Json
  <1>2. TrayTypeOK
    <2>1. s_tray \in [temp : Nat, hum : Nat, flow : Nat]
      BY <1>1
    <2>2. push_buf \in Jsons
      BY <1>1, <2>1 DEF Jsons
    <2>3. QED
      BY <1>1, <2>1, <2>2 DEF TrayInit, TrayTypeOK
  <1>3. WholeInv
    BY <1>1 DEF TrayInit, WholeInv, Whole
  <1>4. PushInv
    BY <1>1 DEF TrayInit, PushInv, Shows
  <1>5. QED
    BY <1>2, <1>3, <1>4 DEF TrayInit, TrayInv, MutexInv, LastInv

(* The type survives each step.                                            *)
LEMMA NextTrayType == TrayTypeOK /\ WholeInv /\ [TrayNext]_tray_vars => TrayTypeOK'
  <1> SUFFICES ASSUME TrayTypeOK, WholeInv, [TrayNext]_tray_vars PROVE TrayTypeOK'
    OBVIOUS
  <1> USE ReadingsAssumption DEF TrayTypeOK
  <1>1. CASE DhtTake
    BY <1>1 DEF DhtTake
  <1>2. CASE DhtUpdate
    <2>1. dht_at # "read" => t_h.temp \in Nat /\ t_h.hum \in Nat
      BY DEF WholeInv
    <2>2. CASE DhtTemp \/ DhtHum
      <3>1. s_tray' \in [temp : Nat, hum : Nat, flow : Nat]
        BY <2>1, <2>2 DEF DhtTemp, DhtHum
      <3>2. QED
        BY <2>2, <3>1 DEF DhtTemp, DhtHum
    <2>3. CASE DhtMark \/ DhtLock \/ DhtRemark \/ DhtNotify
      BY <2>3 DEF DhtMark, DhtLock, DhtRemark, DhtNotify
    <2>4. QED
      BY <1>2, <2>2, <2>3 DEF DhtUpdate
  <1>3. CASE FlowCount \/ FlowRest
    <2>1. CASE FlowUpdate
      <3>1. s_tray' \in [temp : Nat, hum : Nat, flow : Nat]
        BY <2>1 DEF FlowUpdate
      <3>2. QED
        BY <2>1, <3>1 DEF FlowUpdate
    <2>2. CASE FlowCount \/ FlowMark \/ FlowNotify
      BY <2>2 DEF FlowCount, FlowMark, FlowNotify
    <2>3. QED
      BY <1>3, <2>1, <2>2 DEF FlowRest
  <1>4. CASE Health \/ HealthNotify
    BY <1>4 DEF Health, HealthNotify
  <1>5. CASE PushStep
    <2>1. Json \in Jsons
      BY DEF Json, Jsons
    <2>2. QED
      BY <1>5, <2>1 DEF PushStep, PushTake, PushJson, PushSend
  <1>6. CASE UNCHANGED tray_vars
    BY <1>6 DEF tray_vars
  <1>7. QED
    BY <1>1, <1>2, <1>3, <1>4, <1>5, <1>6 DEF TrayNext

LEMMA NextMutexInv == TrayTypeOK /\ MutexInv /\ [TrayNext]_tray_vars => MutexInv'
  BY DEF TrayTypeOK, MutexInv, TrayNext, tray_vars, DhtTake, DhtUpdate, DhtMark, DhtLock, DhtTemp,
     DhtHum, DhtRemark, DhtNotify, FlowCount, FlowRest, FlowUpdate, FlowMark, FlowNotify,
     Health, HealthNotify, PushStep, PushTake, PushJson, PushSend, Free

(* Steps that leave dht_task, its reading and both fields alone.           *)
LEMMA OthersKeepReading ==
  ASSUME TrayTypeOK,
         FlowCount \/ FlowRest \/ Health \/ HealthNotify \/ PushStep \/ UNCHANGED tray_vars
  PROVE  /\ UNCHANGED <<dht_at, t_h, last>>
         /\ Pair(s_tray)' = Pair(s_tray) /\ s_tray'.temp = s_tray.temp
  BY DEF TrayTypeOK, Pair, tray_vars, FlowCount, FlowRest, FlowUpdate, FlowMark, FlowNotify,
     Health, HealthNotify, PushStep, PushTake, PushJson, PushSend

LEMMA NextWholeInv == TrayInv /\ [TrayNext]_tray_vars => WholeInv'
  <1> SUFFICES ASSUME TrayInv, [TrayNext]_tray_vars PROVE WholeInv'
    OBVIOUS
  <1>1. CASE DhtTake \/ DhtUpdate
    <2>1. push_buf' = push_buf
      BY <1>1 DEF DhtTake, DhtUpdate, DhtMark, DhtLock, DhtTemp, DhtHum, DhtRemark, DhtNotify
    <2>2. dht_at' # "read" => t_h' \in Readings
      BY <1>1 DEF TrayInv, TrayTypeOK, WholeInv, DhtTake, DhtUpdate, DhtMark, DhtLock, DhtTemp,
                  DhtHum, DhtRemark, DhtNotify
    <2>3. CASE DhtTemp
      BY <2>1, <2>2, <2>3 DEF TrayInv, TrayTypeOK, WholeInv, DhtTemp, Pair
    <2>4. CASE DhtHum
      <3>1. Pair(s_tray)' = t_h
        BY <2>4, ReadingsAssumption DEF TrayInv, TrayTypeOK, WholeInv, DhtHum, Pair
      <3>2. QED
        BY <2>1, <2>2, <2>4, <3>1 DEF TrayInv, WholeInv, DhtHum, Whole
    <2>5. CASE DhtTake \/ DhtMark \/ DhtLock \/ DhtRemark \/ DhtNotify
      BY <2>1, <2>2, <2>5 DEF TrayInv, WholeInv, DhtTake, DhtMark, DhtLock, DhtRemark, DhtNotify,
                              Pair
    <2>6. QED
      BY <1>1, <2>3, <2>4, <2>5 DEF DhtUpdate
  <1>2. CASE PushJson
    BY <1>2, OthersKeepReading DEF TrayInv, MutexInv, WholeInv, PushStep, PushJson, Free, Json, Pair
  <1>3. CASE FlowCount \/ FlowRest \/ Health \/ HealthNotify \/ PushTake \/ PushSend
               \/ UNCHANGED tray_vars
    <2>1. push_buf' = push_buf
      BY <1>3 DEF tray_vars, FlowCount, FlowRest, FlowUpdate, FlowMark, FlowNotify, Health,
                  HealthNotify, PushTake, PushSend
    <2>2. QED
      BY <1>3, <2>1, OthersKeepReading DEF TrayInv, WholeInv, PushStep, Pair
  <1>4. QED
    BY <1>1, <1>2, <1>3 DEF TrayNext, PushStep

LEMMA NextLastInv == TrayInv /\ [TrayNext]_tray_vars => LastInv'
  <1> SUFFICES ASSUME TrayInv, [TrayNext]_tray_vars PROVE LastInv'
    OBVIOUS
  <1>1. CASE DhtHum
    BY <1>1, ReadingsAssumption DEF TrayInv, TrayTypeOK, WholeInv, LastInv, DhtHum, Pair
  <1>2. CASE DhtMark
    <2>1. t_h.temp = last.temp /\ t_h.hum = last.hum => t_h = last
      BY <1>2, ReadingsAssumption DEF TrayInv, TrayTypeOK, DhtMark, Unread
    <2>2. QED
      BY <1>2, <2>1 DEF TrayInv, LastInv, DhtMark, Pair
  <1>3. CASE DhtTake \/ DhtLock \/ DhtTemp \/ DhtRemark \/ DhtNotify
    BY <1>3 DEF TrayInv, LastInv, DhtTake, DhtLock, DhtTemp, DhtRemark, DhtNotify, Pair
  <1>4. CASE FlowCount \/ FlowRest \/ Health \/ HealthNotify \/ PushStep \/ UNCHANGED tray_vars
    BY <1>4, OthersKeepReading DEF TrayInv, LastInv
  <1>5. QED
    BY <1>1, <1>2, <1>3, <1>4 DEF TrayNext, DhtUpdate

LEMMA NextPushInv == TrayInv /\ [TrayNext]_tray_vars => PushInv'
  <1> SUFFICES ASSUME TrayInv, [TrayNext]_tray_vars PROVE PushInv'
    OBVIOUS
  <1> USE DEF TrayInv, PushInv, NobodyGives, Shows
  <1>1. CASE DhtTake \/ DhtUpdate
    BY <1>1 DEF DhtTake, DhtUpdate, DhtMark, DhtLock, DhtTemp, DhtHum, DhtRemark, DhtNotify
  <1>2. CASE FlowCount \/ FlowRest
    BY <1>2 DEF FlowCount, FlowRest, FlowUpdate, FlowMark, FlowNotify
  <1>3. CASE Health \/ HealthNotify
    BY <1>3 DEF TrayTypeOK, Health, HealthNotify
  <1>4. CASE PushStep
    BY <1>4 DEF PushStep, PushTake, PushJson, PushSend, Json
  <1>5. CASE UNCHANGED tray_vars
    BY <1>5 DEF tray_vars
  <1>6. QED
    BY <1>1, <1>2, <1>3, <1>4, <1>5 DEF TrayNext

(* Inv is inductive.                                                       *)
LEMMA TrayInvariant == TraySpec => []TrayInv
  <1>1. TrayInv /\ [TrayNext]_tray_vars => TrayInv'
    BY NextTrayType, NextMutexInv, NextWholeInv, NextLastInv, NextPushInv DEF TrayInv
  <1>2. QED
    BY InitTrayInv, <1>1, PTL DEF TraySpec

(* The four tasks of main.c keep every variable in its type.               *)
THEOREM TrayTypeCorrect == TraySpec => []TrayTypeOK
  <1>1. TrayInv => TrayTypeOK
    BY DEF TrayInv
  <1>2. QED
    BY TrayInvariant, <1>1, PTL

(* No JSON of sensor_get_json mixes two readings of the DHT11.             *)
THEOREM TrayJsonWhole == TraySpec => []JsonWhole
  <1>1. TrayInv => JsonWhole
    BY DEF TrayInv, WholeInv, JsonWhole, Pair, Whole
  <1>2. QED
    BY TrayInvariant, <1>1, PTL

(* dht_task's filter of unchanged readings never leaves an old tray.       *)
THEOREM TrayShowsLastReading == TraySpec => []TrayIsLastReading
  <1>1. TrayInv => TrayIsLastReading
    BY DEF TrayInv, LastInv, TrayIsLastReading, Pair
  <1>2. QED
    BY TrayInvariant, <1>1, PTL

(* When all is quiet the dashboards have the present tray: push_task never *)
(* sleeps over a notification.                                             *)
THEOREM TrayReachesDashboard == TraySpec => []DashboardCurrent
  <1>1. TrayInv => DashboardCurrent
    BY DEF TrayInv, PushInv, NobodyGives, Shows, DashboardCurrent, Quiet
  <1>2. QED
    BY TrayInvariant, <1>1, PTL
=============================================================================
