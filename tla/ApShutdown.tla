----------------------------- MODULE ApShutdown -----------------------------
(***************************************************************************)
(* The end of provisioning: the two HTTP handlers that schedule the        *)
(* shutdown of the access point and the delayed task they create           *)
(* (web_server.c), wifi_manager_ap_shutdown with its callback              *)
(* (wifi_manager.c) and the captive portal's DNS task, which the callback  *)
(* stops (dns_server.c, main.c).                                           *)
(***************************************************************************)
EXTENDS WifiDriver

(* Slots for delayed tasks; one is enough for the code, the second lets    *)
(* a second task exist if the handlers ever created one.                   *)
ShutdownTasks == {1, 2}

VARIABLES
  s_ap_active,               \* wifi_manager.c
  s_ap_shutdown_scheduled,   \* web_server.c
  shutdown,                  \* where each delayed_ap_shutdown_task is
  s_running,                 \* dns_server.c
  dns,                       \* dns_task: "none", "running" or "gone"
  cb_calls                   \* history: calls of s_shutdown_cb since boot

ap_vars == <<s_ap_active, s_ap_shutdown_scheduled, shutdown, s_running, dns,
             cb_calls>>

ApTypeOK ==
  /\ s_ap_active \in BOOLEAN
  /\ s_ap_shutdown_scheduled \in BOOLEAN
  /\ shutdown \in [ShutdownTasks ->
                     {"none", "delay", "clear_flag", "callback", "set_mode", "done"}]
  /\ s_running \in BOOLEAN
  /\ dns \in {"none", "running", "gone"}
  /\ cb_calls \in 0..2

ApInit ==
  /\ s_ap_active = FALSE
  /\ s_ap_shutdown_scheduled = FALSE
  /\ shutdown = [i \in ShutdownTasks |-> "none"]
  /\ s_running = FALSE
  /\ dns = "none"
  /\ cb_calls = 0

ApReset ==
  /\ s_ap_active' = FALSE
  /\ s_ap_shutdown_scheduled' = FALSE
  /\ shutdown' = [i \in ShutdownTasks |-> "none"]
  /\ s_running' = FALSE
  /\ dns' = "none"
  /\ cb_calls' = 0
----------------------------------------------------------------------------
(* What both handlers do once they have decided: set the flag and create   *)
(* the task.  (If xTaskCreate fails the flag is reset: no change at all.)  *)
ScheduleTwice ==                             \* mutant: flag not tested
  /\ s_ap_active
  /\ s_ap_shutdown_scheduled' = TRUE
  /\ \E i \in ShutdownTasks : shutdown[i] = "none" /\ shutdown' = [shutdown EXCEPT ![i] = "delay"]
  /\ UNCHANGED <<s_ap_active, s_running, dns, cb_calls>>

Schedule ==
  /\ s_ap_active /\ ~s_ap_shutdown_scheduled
  /\ s_ap_shutdown_scheduled' = TRUE
  /\ \E i \in ShutdownTasks :
       /\ shutdown[i] = "none"
       /\ shutdown' = [shutdown EXCEPT ![i] = "delay"]
  /\ UNCHANGED <<s_ap_active, s_running, dns, cb_calls>>

Move(i, from, to) == shutdown[i] = from /\ shutdown' = [shutdown EXCEPT ![i] = to]

(* delayed_ap_shutdown_task, 500 ms later: wifi_manager_ap_shutdown tests  *)
(* s_ap_active ...                                                         *)
ShutdownCheck(i) ==
  /\ Move(i, "delay", IF s_ap_active THEN "clear_flag" ELSE "done")
  /\ UNCHANGED <<s_ap_active, s_ap_shutdown_scheduled, s_running, dns,
                 cb_calls>>

(* ... clears it ...                                                       *)
ShutdownClearFlag(i) ==
  /\ Move(i, "clear_flag", "callback")
  /\ s_ap_active' = FALSE
  /\ UNCHANGED <<s_ap_shutdown_scheduled, s_running, dns, cb_calls>>

ShutdownNoCallback(i) ==                          \* mutant: callback not wired
  /\ Move(i, "callback", "set_mode")
  /\ UNCHANGED <<s_ap_active, s_ap_shutdown_scheduled, s_running, dns, cb_calls>>

(* ... and calls the callback, which is dns_server_stop.                   *)
ShutdownCallback(i) ==
  /\ Move(i, "callback", "set_mode")
  /\ s_running' = FALSE
  /\ cb_calls' = cb_calls + 1
  /\ UNCHANGED <<s_ap_active, s_ap_shutdown_scheduled, dns>>

(* esp_wifi_set_mode(WIFI_MODE_STA): the station keeps its association.    *)
ShutdownSetMode(i) ==
  /\ Move(i, "set_mode", "done")
  /\ mode' = "STA"
  /\ UNCHANGED <<s_ap_active, s_ap_shutdown_scheduled, s_running, dns,
                 cb_calls>>

ShutdownDone(i) ==
  /\ Move(i, "done", "none")
  /\ s_ap_shutdown_scheduled' = FALSE
  /\ UNCHANGED <<s_ap_active, s_running, dns, cb_calls>>

ShutdownStep ==
  \E i \in ShutdownTasks :
    \/ /\ \/ ShutdownCheck(i) \/ ShutdownClearFlag(i)
          \/ ShutdownCallback(i) \/ ShutdownDone(i)
       /\ UNCHANGED driver_vars
    \/ /\ ShutdownSetMode(i)
       /\ UNCHANGED <<link, sta_cfg, joined, dhcp, evq, faults>>

(* dns_server_start, called by app_main once wifi_manager_start returned.  *)
DnsStart ==
  IF s_ap_active
    THEN s_running' = TRUE /\ dns' = "running"
    ELSE UNCHANGED <<s_running, dns>>

(* dns_task notices s_running = false at the next receive timeout.         *)
DnsExit ==
  /\ dns = "running" /\ ~s_running
  /\ dns' = "gone"
  /\ UNCHANGED <<s_ap_active, s_ap_shutdown_scheduled, shutdown, s_running,
                 cb_calls>>
=============================================================================
