------------------------- MODULE WifiManagerProofs -------------------------
(***************************************************************************)
(* Proofs about WifiManager, for any set of networks and any bounds.       *)
(***************************************************************************)
EXTENDS WifiManager, TLAPS

(* What the shutdown machinery keeps, besides its types: the flag covers   *)
(* the delayed task, there is at most one, and the callback's turn comes   *)
(* only in the boot whose access point it has just switched off.           *)
ShutdownInv ==
  /\ main \in {"boot", "prescan"} => ~s_ap_active
  /\ s_ap_active => cb_calls = 0
  /\ main \in {"boot", "prescan"} => cb_calls = 0
  /\ \A i \in ShutdownTasks :
       /\ shutdown[i] # "none" => s_ap_shutdown_scheduled
       /\ shutdown[i] # "none" => main \notin {"boot", "prescan"}
       /\ shutdown[i] = "clear_flag" => s_ap_active
       /\ shutdown[i] = "callback" => ~s_ap_active /\ cb_calls = 0
  /\ \A i, j \in ShutdownTasks :
       shutdown[i] # "none" /\ shutdown[j] # "none" => i = j
  /\ cb_calls \in 0..1

TypeInv == WifiTypeOK /\ ShutdownInv

LEMMA EventTyping ==
  /\ \A t \in EventTypes : Plain(t) \in Event
  /\ \A r \in Reasons : Disconnected(r) \in Event
  /\ \A c \in Creds \cup {NoCred} : GotIp(c) \in Event
  /\ \A c \in Creds : Of(c) \in Pair
  /\ Empty \in Pair
  BY DEF Plain, Disconnected, GotIp, Event, EventTypes, Reasons, Of, Pair, Empty

LEMMA QueueTyping ==
  ASSUME evq \in Seq(Event), Len(evq) <= MaxEvents, NEW e \in Event
  PROVE  /\ Post(e) => evq' \in Seq(Event) /\ Len(evq') <= MaxEvents
         /\ evq # <<>> => Tail(evq) \in Seq(Event) /\ Len(Tail(evq)) <= MaxEvents
  BY DriverAssumption DEF Post, Room

LEMMA InitTypeInv == Init => TypeInv
  <1> SUFFICES ASSUME Init PROVE TypeInv
    OBVIOUS
  <1>1. DriverTypeOK
    <2>1. evq \in Seq(Event) /\ Len(evq) = 0
      BY DEF Init, DriverInit
    <2>2. QED
      BY <2>1, DriverAssumption, EventTyping DEF Init, DriverInit, DriverTypeOK
  <1>2. ApTypeOK
    <2>1. shutdown \in [ShutdownTasks -> {"none"}]
      BY DEF Init, ApInit
    <2>2. cb_calls \in 0..2
      BY DEF Init, ApInit
    <2>3. QED
      BY <2>1, <2>2, Zenon DEF Init, ApInit, ApTypeOK
  <1>a. ShutdownInv
    BY DEF Init, ApInit, ShutdownInv
  <1>3. MgrTypeOK
    <2>1. nvs \in Pair /\ verified \in SUBSET Creds
      BY EventTyping DEF Init
    <2>2. s_retry_count \in 0..1 /\ saves \in 0..MaxSaves
      BY RequestsAssumption DEF Init
    <2>3. QED
      BY <2>1, <2>2, EventTyping, Zenon DEF Init, MgrTypeOK, States
  <1>4. TaskTypeOK
    BY EventTyping DEF Init, TaskTypeOK
  <1>5. QED
    BY <1>1, <1>2, <1>a, <1>3, <1>4 DEF TypeInv, WifiTypeOK

LEMMA RebootTypeInv ==
  ASSUME TypeInv, Reboot, faults' \in 0..MaxFaults
  PROVE  TypeInv'
  <1>1. DriverTypeOK'
    <2>1. evq' \in Seq(Event) /\ Len(evq') = 0
      BY DEF Reboot, DriverReset
    <2>2. QED
      BY <2>1, DriverAssumption, EventTyping DEF Reboot, DriverReset, DriverTypeOK
  <1>2. ApTypeOK'
    <2>1. shutdown' \in [ShutdownTasks -> {"none"}]
      BY DEF Reboot, ApReset
    <2>2. cb_calls' \in 0..2
      BY DEF Reboot, ApReset
    <2>3. QED
      BY <2>1, <2>2, Zenon DEF Reboot, ApReset, ApTypeOK
  <1>a. ShutdownInv'
    BY DEF Reboot, ApReset, ShutdownInv
  <1>3. MgrTypeOK'
    <2>1. s_retry_count' \in 0..1
      BY DEF Reboot
    <2>2. nvs' = nvs /\ saves' = saves /\ verified' = verified
      BY DEF Reboot, hist_vars
    <2>3. QED
      BY <2>1, <2>2, EventTyping, Zenon
         DEF Reboot, TypeInv, WifiTypeOK, MgrTypeOK, States
  <1>4. TaskTypeOK'
    BY EventTyping DEF Reboot, TaskTypeOK
  <1>5. QED
    BY <1>1, <1>2, <1>a, <1>3, <1>4 DEF TypeInv, WifiTypeOK

(* A step that leaves the shutdown machinery alone, and does not restart   *)
(* app_main, keeps what is known of it.                                    *)
LEMMA ShutdownFrame ==
  ASSUME TypeInv, UNCHANGED ap_vars,
         main' \in {"boot", "prescan"} => main \in {"boot", "prescan"}
  PROVE  ApTypeOK' /\ ShutdownInv'
  BY DEF TypeInv, WifiTypeOK, ApTypeOK, ShutdownInv, ap_vars

(* Whether a write to flash fails or not.                                  *)
LEMMA NvsTyping ==
  ASSUME TypeInv
  PROVE  /\ NvsClear => nvs' \in Pair /\ faults' \in 0..MaxFaults
         /\ \A k \in {"ssid", "pass"} : \A v \in Creds \cup {NoCred} :
              NvsSet(k, v) => nvs' \in Pair /\ faults' \in 0..MaxFaults
  <1> USE DriverAssumption, EventTyping
      DEF TypeInv, WifiTypeOK, DriverTypeOK, MgrTypeOK, Fault
  <1>1. NvsClear => nvs' \in Pair /\ faults' \in 0..MaxFaults
    BY DEF NvsClear
  <1>2. ASSUME NEW k \in {"ssid", "pass"}, NEW v \in Creds \cup {NoCred}, NvsSet(k, v)
        PROVE  nvs' \in Pair /\ faults' \in 0..MaxFaults
    BY <1>2 DEF NvsSet, Pair
  <1>3. QED
    BY <1>1, <1>2

LEMMA MainTypeInv ==
  ASSUME TypeInv, MainStep
  PROVE  TypeInv'
  <1> USE EventTyping, DriverAssumption
      DEF TypeInv, WifiTypeOK, ap_vars, driver_vars, mgr_vars, hist_vars
  <1>1. CASE BootProvision
    <2>1. DriverTypeOK'
      BY <1>1, QueueTyping DEF BootProvision, DriverTypeOK, EventTypes
    <2>2. MgrTypeOK' /\ TaskTypeOK'
      BY <1>1 DEF BootProvision, MgrTypeOK, TaskTypeOK
    <2>3. QED
      BY <1>1, <2>1, <2>2, ShutdownFrame DEF BootProvision
  <1>2. CASE BootAp
    <2>1. DriverTypeOK'
      BY <1>2 DEF BootAp, DriverTypeOK
    <2>2. MgrTypeOK' /\ TaskTypeOK'
      BY <1>2 DEF BootAp, MgrTypeOK, TaskTypeOK, States
    <2>3. ApTypeOK' /\ ShutdownInv'
      BY <1>2 DEF BootAp, ApTypeOK, ShutdownInv
    <2>4. QED
      BY <2>1, <2>2, <2>3
  <1>3. CASE BootSta
    <2>1. DriverTypeOK'
      BY <1>3, QueueTyping DEF BootSta, DriverTypeOK, EventTypes, MgrTypeOK
    <2>2. MgrTypeOK' /\ TaskTypeOK'
      BY <1>3 DEF BootSta, MgrTypeOK, TaskTypeOK, States
    <2>3. QED
      BY <1>3, <2>1, <2>2, ShutdownFrame DEF BootSta
  <1>4. CASE BootTimeout
    <2>1. DriverTypeOK'
      BY <1>4 DEF BootTimeout, DriverTypeOK
    <2>2. MgrTypeOK' /\ TaskTypeOK'
      BY <1>4 DEF BootTimeout, MgrTypeOK, TaskTypeOK
    <2>3. QED
      BY <1>4, <2>1, <2>2, ShutdownFrame DEF BootTimeout
  <1>5. CASE GiveUp
    <2>1. DriverTypeOK' /\ MgrTypeOK' /\ TaskTypeOK'
      BY <1>5, NvsTyping DEF GiveUp, DriverTypeOK, MgrTypeOK, TaskTypeOK
    <2>2. QED
      BY <1>5, <2>1, ShutdownFrame DEF GiveUp
  <1>6. CASE Restart
    BY <1>6, RebootTypeInv DEF Restart, DriverTypeOK
  <1>7. CASE Serve
    <2>1. DriverTypeOK' /\ MgrTypeOK' /\ TaskTypeOK'
      BY <1>7 DEF Serve, DriverTypeOK, MgrTypeOK, TaskTypeOK
    <2>2. ApTypeOK' /\ ShutdownInv'
      BY <1>7 DEF Serve, DnsStart, ApTypeOK, ShutdownInv
    <2>3. QED
      BY <2>1, <2>2
  <1>8. CASE ReconnectCheck
    <2>1. DriverTypeOK' /\ MgrTypeOK' /\ TaskTypeOK'
      BY <1>8 DEF ReconnectCheck, DriverTypeOK, MgrTypeOK, TaskTypeOK
    <2>2. QED
      BY <1>8, <2>1, ShutdownFrame DEF ReconnectCheck
  <1>9. CASE ReconnectSet
    <2>1. DriverTypeOK' /\ MgrTypeOK' /\ TaskTypeOK'
      BY <1>9 DEF ReconnectSet, DriverTypeOK, MgrTypeOK, TaskTypeOK, States
    <2>2. QED
      BY <1>9, <2>1, ShutdownFrame DEF ReconnectSet
  <1>10. CASE ReconnectConnect
    <2>1. DriverTypeOK'
      BY <1>10 DEF ReconnectConnect, DriverTypeOK, ConnectOk, ConnectErr, Fault, TaskTypeOK
    <2>2. MgrTypeOK' /\ TaskTypeOK'
      BY <1>10 DEF ReconnectConnect, MgrTypeOK, TaskTypeOK, States
    <2>3. QED
      BY <1>10, <2>1, <2>2, ShutdownFrame DEF ReconnectConnect
  <1>11. QED
    BY <1>1, <1>2, <1>3, <1>4, <1>5, <1>6, <1>7, <1>8, <1>9, <1>10 DEF MainStep

(* Taking an event shortens the queue and keeps the driver's types.        *)
LEMMA TakeTyping ==
  ASSUME DriverTypeOK, NEW e, Take(e)
  PROVE  /\ evq' \in Seq(Event) /\ Len(evq') <= MaxEvents
         /\ dhcp' \in {"off", "running", "bound"}
         /\ e \in Event
  BY QueueTyping, DriverAssumption DEF Take, DhcpOnEvent, DriverTypeOK

LEMMA CallTyping ==
  ASSUME DriverTypeOK, ConnectOk \/ ConnectErr
  PROVE  link' \in {"stopped", "idle", "trying", "assoc"} /\ faults' \in 0..MaxFaults
  BY DriverAssumption DEF DriverTypeOK, ConnectOk, ConnectErr, Fault

(* What the handler's task does never touches the shutdown machinery.      *)
LEMMA EventFrame ==
  ASSUME EventStep, TypeInv
  PROVE  UNCHANGED ap_vars /\ (main' \in {"boot", "prescan"} => main \in {"boot", "prescan"})
  BY DEF EventStep, OnStaStart, OnStaConnected, OnGotIp, OnDisconnectedRetry,
         OnDisconnectedFinal, OnDisconnectedElse, FailClearPending, FailClearNvs,
         SaveSsid, SavePass, Saved, Up, SetBits, task_vars

LEMMA EventTypeInv ==
  ASSUME TypeInv, EventStep
  PROVE  TypeInv'
  <1> SUFFICES DriverTypeOK' /\ MgrTypeOK' /\ TaskTypeOK'
    BY EventFrame, ShutdownFrame DEF TypeInv, WifiTypeOK
  <1> USE EventTyping, DriverAssumption
      DEF TypeInv, WifiTypeOK, driver_vars, mgr_vars, hist_vars, task_vars
  <1>1. CASE OnStaStart
    <2>1. DriverTypeOK'
      BY <1>1, TakeTyping, CallTyping DEF OnStaStart, DriverTypeOK
    <2>2. MgrTypeOK'
      BY <1>1 DEF OnStaStart, MgrTypeOK, States
    <2>3. TaskTypeOK'
      BY <1>1 DEF OnStaStart, TaskTypeOK
    <2>4. QED
      BY <2>1, <2>2, <2>3
  <1>2. CASE OnStaConnected
    <2>1. DriverTypeOK'
      BY <1>2, TakeTyping DEF OnStaConnected, DriverTypeOK
    <2>2. MgrTypeOK'
      BY <1>2 DEF OnStaConnected, MgrTypeOK, States
    <2>3. TaskTypeOK'
      BY <1>2 DEF OnStaConnected, TaskTypeOK
    <2>4. QED
      BY <2>1, <2>2, <2>3
  <1>3. CASE OnGotIp
    <2>1. DriverTypeOK'
      BY <1>3, TakeTyping DEF OnGotIp, DriverTypeOK, Fault
    <2>2. MgrTypeOK'
      BY <1>3, TakeTyping DEF OnGotIp, MgrTypeOK, GotIp
    <2>3. TaskTypeOK'
      BY <1>3 DEF OnGotIp, TaskTypeOK
    <2>4. QED
      BY <2>1, <2>2, <2>3
  <1>4. CASE OnDisconnectedRetry
    <2>1. DriverTypeOK'
      BY <1>4, TakeTyping, CallTyping DEF OnDisconnectedRetry, DriverTypeOK
    <2>2. MgrTypeOK'
      BY <1>4 DEF OnDisconnectedRetry, MgrTypeOK, States
    <2>3. TaskTypeOK'
      BY <1>4 DEF OnDisconnectedRetry, TaskTypeOK
    <2>4. QED
      BY <2>1, <2>2, <2>3
  <1>5. CASE OnDisconnectedFinal
    <2>1. DriverTypeOK'
      BY <1>5, TakeTyping DEF OnDisconnectedFinal, DriverTypeOK
    <2>2. MgrTypeOK'
      BY <1>5 DEF OnDisconnectedFinal, MgrTypeOK, States
    <2>3. TaskTypeOK'
      BY <1>5 DEF OnDisconnectedFinal, TaskTypeOK, SetBits
    <2>4. QED
      BY <2>1, <2>2, <2>3
  <1>6. CASE OnDisconnectedElse
    <2>1. DriverTypeOK'
      BY <1>6, TakeTyping DEF OnDisconnectedElse, DriverTypeOK
    <2>2. MgrTypeOK'
      BY <1>6 DEF OnDisconnectedElse, MgrTypeOK, States
    <2>3. TaskTypeOK'
      BY <1>6 DEF OnDisconnectedElse, TaskTypeOK
    <2>4. QED
      BY <2>1, <2>2, <2>3
  <1>7. CASE FailClearPending
    BY <1>7 DEF FailClearPending, DriverTypeOK, MgrTypeOK, TaskTypeOK
  <1>8. CASE FailClearNvs
    BY <1>8, NvsTyping DEF FailClearNvs, DriverTypeOK, MgrTypeOK, TaskTypeOK
  <1>9. CASE SaveSsid
    <2>1. nvs' \in Pair /\ faults' \in 0..MaxFaults
      BY <1>9, NvsTyping DEF SaveSsid, MgrTypeOK, Pair
    <2>2. QED
      BY <1>9, <2>1 DEF SaveSsid, DriverTypeOK, MgrTypeOK, TaskTypeOK
  <1>10. CASE SavePass
    <2>1. nvs' \in Pair /\ faults' \in 0..MaxFaults
      BY <1>10, NvsTyping DEF SavePass, MgrTypeOK, Pair
    <2>2. QED
      BY <1>10, <2>1 DEF SavePass, DriverTypeOK, MgrTypeOK, TaskTypeOK
  <1>11. CASE Saved
    BY <1>11 DEF Saved, DriverTypeOK, MgrTypeOK, TaskTypeOK
  <1>12. CASE Up
    BY <1>12 DEF Up, DriverTypeOK, MgrTypeOK, TaskTypeOK, States, SetBits
  <1>13. QED
    BY <1>1, <1>2, <1>3, <1>4, <1>5, <1>6, <1>7, <1>8, <1>9, <1>10, <1>11, <1>12 DEF EventStep

LEMMA DisconnectTyping ==
  ASSUME DriverTypeOK, Disconnect
  PROVE  /\ link' \in {"stopped", "idle", "trying", "assoc"}
         /\ joined' \in Pair
         /\ evq' \in Seq(Event) /\ Len(evq') <= MaxEvents
  BY EventTyping, QueueTyping DEF DriverTypeOK, Disconnect, Lose, Reasons

LEMMA HttpdTypeInv ==
  ASSUME TypeInv, HttpdStep
  PROVE  TypeInv'
  <1> USE EventTyping, DriverAssumption
      DEF TypeInv, WifiTypeOK, ap_vars, driver_vars, mgr_vars, hist_vars
  <1>1. CASE SaveFails
    BY <1>1, ShutdownFrame DEF SaveFails, DriverTypeOK, MgrTypeOK, TaskTypeOK
  <1>2. CASE SaveConnect
    <2>1. DriverTypeOK'
      BY <1>2, DisconnectTyping DEF SaveConnect, DriverTypeOK
    <2>2. MgrTypeOK' /\ TaskTypeOK'
      BY <1>2 DEF SaveConnect, MgrTypeOK, TaskTypeOK
    <2>3. QED
      BY <1>2, <2>1, <2>2, ShutdownFrame DEF SaveConnect
  <1>3. CASE SaveRefused
    BY <1>3, ShutdownFrame DEF SaveRefused, DriverTypeOK, MgrTypeOK, TaskTypeOK
  <1>4. CASE SaveSettled
    <2>1. DriverTypeOK' /\ MgrTypeOK' /\ TaskTypeOK'
      BY <1>4 DEF SaveSettled, DriverTypeOK, MgrTypeOK, TaskTypeOK, States
    <2>2. QED
      BY <1>4, <2>1, ShutdownFrame DEF SaveSettled
  <1>5. CASE SaveAborts
    BY <1>5, RebootTypeInv DEF SaveAborts, DriverTypeOK
  <1>6. CASE SaveLaunch
    <2>1. DriverTypeOK'
      BY <1>6, CallTyping DEF SaveLaunch, DriverTypeOK, TaskTypeOK
    <2>2. MgrTypeOK' /\ TaskTypeOK'
      BY <1>6 DEF SaveLaunch, MgrTypeOK, TaskTypeOK, States, SetBits
    <2>3. ApTypeOK' /\ ShutdownInv'
      BY <1>6, ShutdownFrame DEF SaveLaunch, SetBits
    <2>4. QED
      BY <2>1, <2>2, <2>3
  <1>7. QED
    BY <1>1, <1>2, <1>3, <1>4, <1>5, <1>6 DEF HttpdStep

LEMMA ShutdownTypeInv ==
  ASSUME TypeInv, ShutdownTask
  PROVE  TypeInv'
  <1> USE DEF TypeInv, WifiTypeOK, driver_vars, mgr_vars, task_vars, hist_vars
  <1>1. DriverTypeOK' /\ MgrTypeOK' /\ TaskTypeOK'
    BY DEF ShutdownTask, ShutdownStep, ShutdownSetMode, DriverTypeOK, MgrTypeOK, TaskTypeOK
  <1>2. PICK i \in ShutdownTasks :
          \/ ShutdownCheck(i) \/ ShutdownClearFlag(i) \/ ShutdownCallback(i)
          \/ ShutdownSetMode(i) \/ ShutdownDone(i)
    BY DEF ShutdownTask, ShutdownStep
  <1>3. main' = main
    BY DEF ShutdownTask
  <1>4. ApTypeOK' /\ ShutdownInv'
    <2> USE <1>3 DEF ApTypeOK, ShutdownInv, Move
    <2>1. CASE ShutdownCheck(i)
      BY <2>1 DEF ShutdownCheck
    <2>2. CASE ShutdownClearFlag(i)
      BY <2>2 DEF ShutdownClearFlag
    <2>3. CASE ShutdownCallback(i)
      <3>1. ~s_ap_active /\ cb_calls = 0 /\ main \notin {"boot", "prescan"}
        BY <2>3 DEF ShutdownCallback
      <3>2. cb_calls' = 1
        BY <2>3, <3>1 DEF ShutdownCallback
      <3>3. \A j \in ShutdownTasks : j # i => shutdown[j] = "none" /\ shutdown'[j] = "none"
        BY <2>3 DEF ShutdownCallback
      <3>4. shutdown' \in [ShutdownTasks ->
                             {"none", "delay", "clear_flag", "callback", "set_mode", "done"}]
            /\ shutdown'[i] = "set_mode" /\ s_ap_shutdown_scheduled
        BY <2>3 DEF ShutdownCallback
      <3>5. ApTypeOK'
        <4>1. cb_calls' \in 0..2
          BY <3>2
        <4>2. QED
          BY <2>3, <3>4, <4>1, Zenon DEF ShutdownCallback
      <3>6. ShutdownInv'
        BY <2>3, <3>1, <3>2, <3>3, <3>4 DEF ShutdownCallback
      <3>7. QED
        BY <3>5, <3>6
    <2>4. CASE ShutdownSetMode(i)
      BY <2>4 DEF ShutdownSetMode
    <2>5. CASE ShutdownDone(i)
      BY <2>5 DEF ShutdownDone
    <2>6. QED
      BY <1>2, <2>1, <2>2, <2>3, <2>4, <2>5
  <1>5. QED
    BY <1>1, <1>4

(* A handler schedules only while the access point is up, which it is not  *)
(* before app_main starts the HTTP server.                                 *)
LEMMA ScheduleTyping ==
  ASSUME TypeInv, Schedule, main' = main
  PROVE  ApTypeOK' /\ ShutdownInv'
  BY DEF TypeInv, WifiTypeOK, ApTypeOK, ShutdownInv, Schedule

LEMMA VisitorTypeInv ==
  ASSUME TypeInv, Visitor
  PROVE  TypeInv'
  <1> USE EventTyping
      DEF TypeInv, WifiTypeOK, driver_vars, ap_vars, mgr_vars, task_vars, hist_vars
  <1>1. ASSUME NEW p \in Pair, Save(p) PROVE TypeInv'
    <2>1. DriverTypeOK' /\ MgrTypeOK'
      BY <1>1, RequestsAssumption DEF Save, DriverTypeOK, MgrTypeOK
    <2>2. TaskTypeOK'
      BY <1>1 DEF Save, TaskTypeOK
    <2>3. QED
      BY <1>1, <2>1, <2>2, ShutdownFrame DEF Save
  <1>2. ASSUME NEW origin \in {"ap", "sta"}, RootHandler(origin) PROVE TypeInv'
    <2>1. DriverTypeOK' /\ MgrTypeOK' /\ TaskTypeOK'
      BY <1>2 DEF RootHandler, DriverTypeOK, MgrTypeOK, TaskTypeOK
    <2>2. QED
      BY <1>2, <2>1, ScheduleTyping DEF RootHandler
  <1>3. CASE ApShutdownHandler
    <2>1. DriverTypeOK' /\ MgrTypeOK' /\ TaskTypeOK'
      BY <1>3 DEF ApShutdownHandler, DriverTypeOK, MgrTypeOK, TaskTypeOK
    <2>2. QED
      BY <1>3, <2>1, ScheduleTyping DEF ApShutdownHandler
  <1>4. CASE RebootHandler
    BY <1>4, ShutdownFrame DEF RebootHandler, DriverTypeOK, MgrTypeOK, TaskTypeOK
  <1>5. \A c, d \in Creds : [ssid |-> c, pass |-> d] \in Pair
    BY DEF Pair
  <1>6. QED
    BY <1>1, <1>2, <1>3, <1>4, <1>5 DEF Visitor

LEMMA RadioTypeInv ==
  ASSUME TypeInv, RadioStep \/ Lease
  PROVE  TypeInv'
  <1> USE EventTyping, QueueTyping, DriverAssumption
      DEF TypeInv, WifiTypeOK, own_vars, ap_vars, mgr_vars, task_vars, hist_vars
  <1>1. UNCHANGED own_vars
    BY DEF RadioStep, Lease
  <1>2. MgrTypeOK' /\ TaskTypeOK'
    BY <1>1 DEF MgrTypeOK, TaskTypeOK
  <1>3. ApTypeOK' /\ ShutdownInv'
    BY <1>1, ShutdownFrame
  <1>4. DriverTypeOK'
    <2> USE DEF DriverTypeOK
    <2>1. CASE Associate
      BY <2>1 DEF Associate, EventTypes
    <2>2. ASSUME NEW r \in Reasons, AssociateFails(r) PROVE DriverTypeOK'
      BY <2>2 DEF AssociateFails, Fault, Lose
    <2>3. ASSUME NEW r \in Reasons, LinkDrop(r) PROVE DriverTypeOK'
      BY <2>3 DEF LinkDrop, Fault, Lose
    <2>4. CASE LeaseBound
      <3>1. joined.ssid \in Creds \cup {NoCred}
        BY DEF Pair
      <3>2. QED
        BY <2>4, <3>1 DEF LeaseBound
    <2>5. QED
      BY <2>1, <2>2, <2>3, <2>4 DEF RadioStep, Radio, Lease
  <1>5. QED
    BY <1>2, <1>3, <1>4

LEMMA NextTypeInv == TypeInv /\ [Next]_vars => TypeInv'
  <1> SUFFICES ASSUME TypeInv, [Next]_vars PROVE TypeInv'
    OBVIOUS
  <1>1. CASE DnsTask
    <2>1. DriverTypeOK' /\ MgrTypeOK' /\ TaskTypeOK'
      BY <1>1 DEF DnsTask, TypeInv, WifiTypeOK, DriverTypeOK, MgrTypeOK, TaskTypeOK,
                  driver_vars, mgr_vars, task_vars, hist_vars
    <2>2. ApTypeOK' /\ ShutdownInv'
      BY <1>1 DEF DnsTask, DnsExit, TypeInv, WifiTypeOK, ApTypeOK, ShutdownInv, task_vars
    <2>3. QED
      BY <2>1, <2>2 DEF TypeInv, WifiTypeOK
  <1>2. CASE DelayedReboot
    BY <1>2, RebootTypeInv DEF DelayedReboot, TypeInv, WifiTypeOK, DriverTypeOK
  <1>3. CASE PowerLoss
    BY <1>3, RebootTypeInv, DriverAssumption
       DEF PowerLoss, Fault, TypeInv, WifiTypeOK, DriverTypeOK
  <1>4. CASE UNCHANGED vars
    <2>1. DriverTypeOK' /\ MgrTypeOK' /\ TaskTypeOK'
      BY <1>4 DEF vars, TypeInv, WifiTypeOK, DriverTypeOK, MgrTypeOK, TaskTypeOK,
                  driver_vars, mgr_vars, task_vars, hist_vars
    <2>2. QED
      BY <1>4, <2>1, ShutdownFrame DEF vars, task_vars, TypeInv, WifiTypeOK
  <1>5. QED
    BY <1>1, <1>2, <1>3, <1>4, MainTypeInv, EventTypeInv, HttpdTypeInv,
       ShutdownTypeInv, VisitorTypeInv, RadioTypeInv
       DEF Next, Device, Environment

(* Types for any set of networks and any bounds.                           *)
THEOREM WifiTypeCorrect == Spec => []WifiTypeOK
  <1>1. TypeInv => WifiTypeOK
    BY DEF TypeInv
  <1>2. QED
    BY <1>1, InitTypeInv, NextTypeInv, PTL DEF Spec

(* The shutdown callback runs at most once in a boot.                      *)
THEOREM WifiShutdownOnce == Spec => []ShutdownOnce
  <1>1. TypeInv => ShutdownOnce
    BY DEF TypeInv, ShutdownInv, ShutdownOnce
  <1>2. QED
    BY <1>1, InitTypeInv, NextTypeInv, PTL DEF Spec
=============================================================================
