----------------------------- MODULE SensorTray -----------------------------
(***************************************************************************)
(* From a reading to the dashboard: dht_task, flow_task, the health check  *)
(* of the main loop and push_task (main.c) around the tray and the mutex   *)
(* of sensor_manager.c.  The producers and the main loop run on core 0,    *)
(* push_task on core 1, so they interleave freely.  Readings that did not  *)
(* change are not pushed, and a task notification is a flag: any number of *)
(* gives before a take is one (push_task only logs the count).             *)
(***************************************************************************)
EXTENDS Naturals

CONSTANTS
  Readings,    \* what dht11_read() may deliver: records [temp, hum]
  Flows        \* litres per minute flow_task may compute

Nothing    == [temp |-> 0, hum |-> 0]          \* the zeroed tray
Unread     == [temp |-> 999, hum |-> 999]      \* the sentinels of last_t, last_h

ASSUME ReadingsAssumption ==
  /\ Readings \subseteq [temp : Nat, hum : Nat]
  /\ Unread \notin Readings
  /\ Flows \subseteq Nat

VARIABLES
  s_tray,      \* temp, hum, flow
  s_mutex,     \* who holds it between two steps: "nobody" or "dht"
  alive_flag,  \* the alive flag of a sensor, as the health check left it
  notified,    \* push_task's notification
  dht_at, flow_at, main_at, push_at,   \* where each task is
  t_h,         \* t, h: the reading dht_task is handling
  last,        \* last_t, last_h
  lpm,         \* the value flow_task is handling
  push_buf,    \* push_task's JSON
  sent         \* the JSON last handed to web_server_push_sensor_update

tray_vars == <<s_tray, s_mutex, alive_flag, notified, dht_at, flow_at,
               main_at, push_at, t_h, last, lpm, push_buf, sent>>

Tray(r, f) == [temp |-> r.temp, hum |-> r.hum, flow |-> f]
Json       == [tray |-> s_tray, alive |-> alive_flag]
Jsons      == [tray : [temp : Nat, hum : Nat, flow : Nat], alive : BOOLEAN]

TrayTypeOK ==
  /\ s_tray \in [temp : Nat, hum : Nat, flow : Nat]
  /\ s_mutex \in {"nobody", "dht"}
  /\ alive_flag \in BOOLEAN /\ notified \in BOOLEAN
  /\ dht_at \in {"read", "mark", "lock", "temp", "hum", "remark", "notify"}
  /\ flow_at \in {"count", "update", "mark", "notify"}
  /\ main_at \in {"idle", "notify"}
  /\ push_at \in {"take", "json", "send"}
  /\ t_h \in Readings \cup {Unread} /\ last \in Readings \cup {Unread}
  /\ lpm \in Flows \cup {0}
  /\ push_buf \in Jsons /\ sent \in Jsons

(* The tasks are running; no reading yet.                                  *)
TrayInit ==
  /\ s_tray = Tray(Nothing, 0) /\ s_mutex = "nobody"
  /\ alive_flag = FALSE /\ notified = FALSE
  /\ dht_at = "read" /\ flow_at = "count" /\ main_at = "idle" /\ push_at = "take"
  /\ t_h = Unread /\ last = Unread /\ lpm = 0
  /\ push_buf = Json /\ sent = Json

Free == s_mutex = "nobody"
----------------------------------------------------------------------------
(* dht_task: a valid reading marks the sensor alive ...                    *)
DhtTake ==
  /\ dht_at = "read"
  /\ t_h' \in Readings
  /\ dht_at' = "mark"
  /\ UNCHANGED <<s_tray, s_mutex, alive_flag, notified, flow_at, main_at,
                 push_at, last, lpm, push_buf, sent>>

(* Mutant: a reading is new only when both values changed.                 *)
DhtMarkBoth ==
  /\ dht_at = "mark" /\ Free
  /\ dht_at' = IF t_h.temp # last.temp /\ t_h.hum # last.hum THEN "lock" ELSE "read"
  /\ UNCHANGED <<s_tray, s_mutex, alive_flag, notified, flow_at, main_at,
                 push_at, t_h, last, lpm, push_buf, sent>>

(* ... and is dropped when it repeats the last one.                        *)
DhtMark ==
  /\ dht_at = "mark" /\ Free
  /\ dht_at' = IF t_h.temp # last.temp \/ t_h.hum # last.hum THEN "lock" ELSE "read"
  /\ UNCHANGED <<s_tray, s_mutex, alive_flag, notified, flow_at, main_at,
                 push_at, t_h, last, lpm, push_buf, sent>>

(* sensor_update_dht: both fields under the mutex, a mark, a notification. *)
DhtLock ==
  /\ dht_at = "lock" /\ Free
  /\ s_mutex' = "dht"
  /\ dht_at' = "temp"
  /\ UNCHANGED <<s_tray, alive_flag, notified, flow_at, main_at, push_at, t_h,
                 last, lpm, push_buf, sent>>

DhtTemp ==
  /\ dht_at = "temp"
  /\ s_tray' = [s_tray EXCEPT !.temp = t_h.temp]
  /\ dht_at' = "hum"
  /\ UNCHANGED <<s_mutex, alive_flag, notified, flow_at, main_at, push_at,
                 t_h, last, lpm, push_buf, sent>>

DhtHum ==
  /\ dht_at = "hum"
  /\ s_tray' = [s_tray EXCEPT !.hum = t_h.hum]
  /\ s_mutex' = "nobody"
  /\ dht_at' = "remark"
  /\ UNCHANGED <<alive_flag, notified, flow_at, main_at, push_at, t_h, last,
                 lpm, push_buf, sent>>

(* Mutant: sensor_update_dht wakes nobody.                                 *)
DhtNotifyNobody ==
  /\ dht_at = "notify"
  /\ last' = t_h
  /\ dht_at' = "read"
  /\ UNCHANGED <<s_tray, s_mutex, alive_flag, notified, flow_at, main_at,
                 push_at, t_h, lpm, push_buf, sent>>

DhtRemark ==
  /\ dht_at = "remark" /\ Free
  /\ dht_at' = "notify"
  /\ UNCHANGED <<s_tray, s_mutex, alive_flag, notified, flow_at, main_at,
                 push_at, t_h, last, lpm, push_buf, sent>>

DhtNotify ==
  /\ dht_at = "notify"
  /\ notified' = TRUE
  /\ last' = t_h
  /\ dht_at' = "read"
  /\ UNCHANGED <<s_tray, s_mutex, alive_flag, flow_at, main_at, push_at, t_h,
                 lpm, push_buf, sent>>
----------------------------------------------------------------------------
(* flow_task: sensor_update_flow after every window, changed or not.       *)
FlowCount ==
  /\ flow_at = "count"
  /\ lpm' \in Flows
  /\ flow_at' = "update"
  /\ UNCHANGED <<s_tray, s_mutex, alive_flag, notified, dht_at, main_at,
                 push_at, t_h, last, push_buf, sent>>

FlowUpdate ==
  /\ flow_at = "update" /\ Free
  /\ s_tray' = [s_tray EXCEPT !.flow = lpm]
  /\ flow_at' = "mark"
  /\ UNCHANGED <<s_mutex, alive_flag, notified, dht_at, main_at, push_at, t_h,
                 last, lpm, push_buf, sent>>

FlowMark ==
  /\ flow_at = "mark" /\ Free
  /\ flow_at' = "notify"
  /\ UNCHANGED <<s_tray, s_mutex, alive_flag, notified, dht_at, main_at,
                 push_at, t_h, last, lpm, push_buf, sent>>

FlowNotify ==
  /\ flow_at = "notify"
  /\ notified' = TRUE
  /\ flow_at' = "count"
  /\ UNCHANGED <<s_tray, s_mutex, alive_flag, dht_at, main_at, push_at, t_h,
                 last, lpm, push_buf, sent>>
----------------------------------------------------------------------------
(* The main loop: sensor_update_health judges under the mutex (on what     *)
(* grounds is the subject of SensorHealth) and notifies a recovery.        *)
Health ==
  /\ main_at = "idle" /\ Free
  /\ alive_flag' \in BOOLEAN
  /\ main_at' = IF ~alive_flag /\ alive_flag' THEN "notify" ELSE "idle"
  /\ UNCHANGED <<s_tray, s_mutex, notified, dht_at, flow_at, push_at, t_h,
                 last, lpm, push_buf, sent>>

HealthNotify ==
  /\ main_at = "notify"
  /\ notified' = TRUE
  /\ main_at' = "idle"
  /\ UNCHANGED <<s_tray, s_mutex, alive_flag, dht_at, flow_at, push_at, t_h,
                 last, lpm, push_buf, sent>>
----------------------------------------------------------------------------
(* Mutant: the JSON is built without the mutex.                            *)
PushJsonUnlocked ==
  /\ push_at = "json"
  /\ push_buf' = Json
  /\ push_at' = "send"
  /\ UNCHANGED <<s_tray, s_mutex, alive_flag, notified, dht_at, flow_at,
                 main_at, t_h, last, lpm, sent>>

(* push_task: the notification is cleared when it is taken, before the     *)
(* tray is read.                                                           *)
PushTake ==
  /\ push_at = "take" /\ notified
  /\ notified' = FALSE
  /\ push_at' = "json"
  /\ UNCHANGED <<s_tray, s_mutex, alive_flag, dht_at, flow_at, main_at, t_h,
                 last, lpm, push_buf, sent>>

(* Mutant: the notification is cleared after the send.                     *)
PushSendClears ==
  /\ push_at = "send"
  /\ sent' = push_buf
  /\ push_at' = "take"
  /\ notified' = FALSE
  /\ UNCHANGED <<s_tray, s_mutex, alive_flag, dht_at, flow_at, main_at, t_h,
                 last, lpm, push_buf>>

PushJson ==
  /\ push_at = "json" /\ Free
  /\ push_buf' = Json
  /\ push_at' = "send"
  /\ UNCHANGED <<s_tray, s_mutex, alive_flag, notified, dht_at, flow_at,
                 main_at, t_h, last, lpm, sent>>

PushSend ==
  /\ push_at = "send"
  /\ sent' = push_buf
  /\ push_at' = "take"
  /\ UNCHANGED <<s_tray, s_mutex, alive_flag, notified, dht_at, flow_at,
                 main_at, t_h, last, lpm, push_buf>>

DhtUpdate  == DhtMark \/ DhtLock \/ DhtTemp \/ DhtHum \/ DhtRemark \/ DhtNotify
FlowRest   == FlowUpdate \/ FlowMark \/ FlowNotify
PushStep   == PushTake \/ PushJson \/ PushSend

TrayNext == \/ DhtTake \/ DhtUpdate \/ FlowCount \/ FlowRest
        \/ Health \/ HealthNotify \/ PushStep

TraySpec == TrayInit /\ [][TrayNext]_tray_vars

(* The tasks run on once they have a reading; nothing makes the sensors    *)
(* deliver one.  Every holder of the mutex gives it back at once and then  *)
(* sleeps, so push_task, when it waits for it, gets it.                    *)
TrayFairness ==
  /\ SF_tray_vars(PushStep)
  /\ WF_tray_vars(DhtUpdate) /\ WF_tray_vars(FlowRest) /\ WF_tray_vars(HealthNotify)
----------------------------------------------------------------------------
(* sensor_update_dht writes the two fields one after the other; a JSON     *)
(* never mixes the temperature of one reading with the humidity of another.*)
JsonWhole ==
  [temp |-> push_buf.tray.temp, hum |-> push_buf.tray.hum] \in Readings \cup {Nothing}

(* No lost wake-up: whenever nobody has a notification to give and         *)
(* push_task sleeps, the dashboards have the present tray, and know of a   *)
(* recovery.  (A death alone notifies nobody.)                             *)
Quiet ==
  /\ dht_at \in {"read", "mark", "lock"} /\ flow_at \in {"count", "update"}
  /\ main_at = "idle" /\ push_at = "take" /\ ~notified

DashboardCurrent == Quiet => sent.tray = s_tray /\ (alive_flag => sent.alive)

(* The filter of unchanged readings drops nothing: once dht_task sleeps    *)
(* again the tray shows the reading it took last.                          *)
TrayIsLastReading ==
  dht_at = "read" /\ t_h # Unread => t_h.temp = s_tray.temp /\ t_h.hum = s_tray.hum

(* Every reading that stays in the tray reaches the dashboards, however    *)
(* the other tasks interleave.                                             *)
ReadingArrives ==
  \A r \in Readings :
    (t_h = r /\ dht_at = "read") ~> \/ sent.tray.temp = r.temp /\ sent.tray.hum = r.hum
                                 \/ t_h # r
============================================================================
