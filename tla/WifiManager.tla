---------------------------- MODULE WifiManager ----------------------------
(***************************************************************************)
(* The connection life cycle of the governor: wifi_manager.c with its      *)
(* callers app_main (main.c) and the HTTP handlers that change its state   *)
(* (web_server.c).  Three tasks run it at once: app_main, which boots and  *)
(* then retries lost links; the default event loop, which runs             *)
(* wifi_event_handler; and the HTTP server.  None of the variables they    *)
(* share has a lock, so an action ends where another task may see a        *)
(* difference.  The chip may lose power at any point.                      *)
(***************************************************************************)
EXTENDS ApShutdown

CONSTANTS
  Requests,        \* bound: what visitors of the HTTP server ask for
  MaxSaves         \* bound: POST /save in one behaviour

ASSUME RequestsAssumption ==
  /\ Requests \subseteq {"save", "typo", "root", "ap_shutdown", "reboot"}
  /\ MaxSaves \in Nat

VARIABLES
  s_state, s_retry_count, s_ip,   \* wifi_manager.c
  s_pending,       \* s_pending_ssid and s_pending_pass; Empty when cleared
  nvs,             \* flash: the keys "ssid" and "pass"
  s_ap_mode,       \* sensor_manager.c
  main,            \* where app_main is
  rc,              \* the pair wifi_manager_reconnect has read
  httpd,           \* where the HTTP server's task is
  req,             \* the pair the current /save brought
  ev,              \* where wifi_event_handler is
  reboot_pending,  \* delayed_reboot_task exists
  saves,           \* POST /save so far
  verified         \* history: networks that ever gave the device an address

mgr_vars  == <<s_state, s_retry_count, s_ip, s_pending, s_ap_mode>>
task_vars == <<main, rc, httpd, req, ev, reboot_pending>>
hist_vars == <<saves, verified>>
vars      == <<driver_vars, ap_vars, mgr_vars, task_vars, nvs, hist_vars>>

States == {"IDLE", "AP_ONLY", "CONNECTING", "CONNECTED", "FAILED"}

MgrTypeOK ==
  /\ s_state \in States
  /\ s_retry_count \in 0..1
  /\ s_ip \in Creds \cup {NoCred}
  /\ s_pending \in Pair
  /\ nvs \in Pair
  /\ s_ap_mode \in BOOLEAN
  /\ saves \in 0..MaxSaves
  /\ verified \in SUBSET Creds

TaskTypeOK ==
  /\ main \in {"boot", "prescan", "wait", "serve", "give_up", "restarting",
               "loop", "rc_set", "rc_connect"}
  /\ rc \in Pair
  /\ httpd \in {"down", "idle", "recv", "settle", "config"}
  /\ req \in Pair
  /\ ev \in {"idle", "auth_clear_pending", "clear_pending", "nvs_clear",
             "nvs_ssid", "nvs_pass", "saved", "up"}
  /\ reboot_pending \in BOOLEAN

(* Types; what takes an argument is that one retry is the limit, whoever   *)
(* resets the counter.                                                     *)
WifiTypeOK == DriverTypeOK /\ ApTypeOK /\ MgrTypeOK /\ TaskTypeOK

(* Erased flash, or the flash of a device provisioned for a network that   *)
(* gave it an address before.                                              *)
Init ==
  /\ DriverInit
  /\ faults = 0
  /\ ApInit
  /\ s_state = "IDLE" /\ s_retry_count = 0 /\ s_ip = NoCred
  /\ s_pending = Empty /\ s_ap_mode = FALSE
  /\ main = "boot" /\ rc = Empty /\ httpd = "down" /\ req = Empty
  /\ ev = "idle" /\ reboot_pending = FALSE
  /\ saves = 0
  /\ \/ nvs = Empty /\ verified = {}
     \/ \E c \in Creds : nvs = Of(c) /\ verified = {c}

(* esp_restart(), an abort or a power failure: RAM is gone, flash stays.   *)
Reboot ==
  /\ DriverReset
  /\ ApReset
  /\ s_state' = "IDLE" /\ s_retry_count' = 0 /\ s_ip' = NoCred
  /\ s_pending' = Empty /\ s_ap_mode' = FALSE
  /\ main' = "boot" /\ rc' = Empty /\ httpd' = "down" /\ req' = Empty
  /\ ev' = "idle" /\ reboot_pending' = FALSE
  /\ UNCHANGED <<nvs, hist_vars>>

NvsReadable == nvs.ssid # NoCred /\ nvs.pass # NoCred

(* xEventGroupSetBits: only wifi_manager_start waits on s_eg, from before  *)
(* its first event on, so a bit matters when it wakes that wait.           *)
SetBits(bit) ==
  main' = IF main # "wait" THEN main
          ELSE IF bit = "CONNECTED" THEN "serve" ELSE "give_up"
----------------------------------------------------------------------------
(* app_main.                                                               *)

(* No readable credentials: the driver starts as a station to scan ...     *)
BootProvision ==
  /\ main = "boot" /\ ~NvsReadable
  /\ mode' = "STA" /\ link' = "idle"
  /\ Post(Plain("STA_START"))
  /\ main' = "prescan"
  /\ UNCHANGED <<sta_cfg, joined, dhcp, faults, ap_vars, mgr_vars, rc, httpd,
                 req, ev, reboot_pending, nvs, hist_vars>>

(* ... and then, the event of that start long handled, opens the AP.       *)
BootAp ==
  /\ main = "prescan" /\ evq = <<>> /\ ev = "idle"
  /\ mode' = "APSTA"
  /\ s_ap_active' = TRUE
  /\ s_state' = "AP_ONLY"
  /\ s_ap_mode' = TRUE
  /\ main' = "serve"
  /\ UNCHANGED <<link, sta_cfg, joined, dhcp, evq, faults,
                 s_ap_shutdown_scheduled, shutdown, s_running, dns, cb_calls,
                 s_retry_count, s_ip, s_pending, rc, httpd,
                 req, ev, reboot_pending, nvs, hist_vars>>

(* Credentials: the station starts with them, and app_main waits.          *)
BootSta ==
  /\ main = "boot" /\ NvsReadable
  /\ mode' = "STA" /\ link' = "idle" /\ sta_cfg' = nvs
  /\ s_state' = "CONNECTING" /\ s_retry_count' = 0
  /\ Post(Plain("STA_START"))
  /\ main' = "wait"
  /\ UNCHANGED <<joined, dhcp, faults, ap_vars, s_ip, s_pending, s_ap_mode,
                 rc, httpd, req, ev, reboot_pending, nvs, hist_vars>>

(* The 15 s of xEventGroupWaitBits run out: the router is slow, its DHCP   *)
(* server silent, or the driver refused the call.                          *)
BootTimeout ==
  /\ main = "wait"
  /\ main' = "give_up"
  /\ UNCHANGED <<driver_vars, ap_vars, mgr_vars, rc, httpd, req, ev,
                 reboot_pending, nvs, hist_vars>>

(* nvs_clear() and one nvs_set_str() of nvs_write(): nobody looks at their *)
(* results.                                                                *)
NvsClear    == (nvs' = Empty /\ UNCHANGED faults) \/ (UNCHANGED nvs /\ Fault)
NvsSet(k, v) == \/ nvs' = [nvs EXCEPT ![k] = v] /\ UNCHANGED faults
                \/ UNCHANGED nvs /\ Fault

GiveUpKeeps ==                                    \* mutant: credentials not cleared
  /\ main = "give_up"
  /\ UNCHANGED nvs
  /\ main' = "restarting"
  /\ UNCHANGED <<driver_vars, ap_vars, mgr_vars, rc, httpd, req, ev,
                 reboot_pending, hist_vars>>

GiveUp ==
  /\ main = "give_up"
  /\ NvsClear
  /\ main' = "restarting"
  /\ UNCHANGED <<mode, link, sta_cfg, joined, dhcp, evq, ap_vars, mgr_vars, rc,
                 httpd, req, ev, reboot_pending, hist_vars>>

Restart == main = "restarting" /\ Reboot /\ UNCHANGED faults

(* wifi_manager_start returned: captive DNS if the AP is up, HTTP server,  *)
(* the tasks and the main loop.                                            *)
Serve ==
  /\ main = "serve"
  /\ DnsStart
  /\ httpd' = "idle"
  /\ main' = "loop"
  /\ UNCHANGED <<driver_vars, s_ap_active, s_ap_shutdown_scheduled, shutdown,
                 cb_calls, mgr_vars, rc, req, ev, reboot_pending,
                 nvs, hist_vars>>


(* The main loop finds a lost link, no AP and readable credentials ...     *)
ReconnectCheck ==
  /\ main = "loop"
  /\ ~s_ap_active /\ s_state = "FAILED"
  /\ NvsReadable
  /\ rc' = nvs
  /\ main' = "rc_set"
  /\ UNCHANGED <<driver_vars, ap_vars, mgr_vars, httpd, req, ev,
                 reboot_pending, nvs, hist_vars>>

ReconnectSet ==
  /\ main = "rc_set"
  /\ s_retry_count' = 0 /\ s_state' = "CONNECTING"
  /\ main' = "rc_connect"
  /\ UNCHANGED <<driver_vars, ap_vars, s_ip, s_pending, s_ap_mode, rc, httpd,
                 req, ev, reboot_pending, nvs, hist_vars>>

(* ... and connects; a refused configuration goes unnoticed.               *)
ReconnectConnect ==
  /\ main = "rc_connect"
  /\ sta_cfg' = IF ConfigAccepted THEN rc ELSE sta_cfg
  /\ \/ ConnectOk /\ UNCHANGED s_state
     \/ ConnectErr /\ s_state' = "FAILED"
  /\ rc' = Empty
  /\ main' = "loop"
  /\ UNCHANGED <<mode, joined, dhcp, evq, ap_vars, s_retry_count, s_ip,
                 s_pending, s_ap_mode, httpd, req, ev, reboot_pending, nvs,
                 hist_vars>>

MainStep == \/ BootProvision \/ BootAp \/ BootSta \/ BootTimeout \/ GiveUp
            \/ Restart \/ Serve
            \/ ReconnectCheck \/ ReconnectSet \/ ReconnectConnect
----------------------------------------------------------------------------
(* wifi_event_handler, in the task of the default event loop.              *)

Take(e) ==
  /\ ev = "idle" /\ evq # <<>>
  /\ e = Head(evq)
  /\ evq' = Tail(evq)
  /\ DhcpOnEvent(e)

(* The result of esp_wifi_connect() is not looked at.                      *)
OnStaStart ==
  /\ Take(Plain("STA_START"))
  /\ IF s_state = "CONNECTING" THEN ConnectOk \/ ConnectErr
                               ELSE UNCHANGED <<link, faults>>
  /\ UNCHANGED <<mode, sta_cfg, joined, ap_vars, mgr_vars, task_vars, nvs,
                 hist_vars>>

OnStaConnected ==
  /\ Take(Plain("STA_CONNECTED"))
  /\ UNCHANGED <<mode, link, sta_cfg, joined, faults, ap_vars, mgr_vars,
                 task_vars, nvs, hist_vars>>

OnDisconnectedAlways ==                           \* mutant: no limit of retries
  /\ \E r \in Reasons : Take(Disconnected(r))
  /\ s_state = "CONNECTING"
  /\ s_retry_count' = s_retry_count + 1
  /\ ConnectOk \/ ConnectErr
  /\ UNCHANGED <<mode, sta_cfg, joined, ap_vars, s_state, s_ip, s_pending,
                 s_ap_mode, task_vars, nvs, hist_vars>>

OnDisconnectedUncounted ==                        \* mutant: retries not counted
  /\ \E r \in Reasons : Take(Disconnected(r))
  /\ s_state = "CONNECTING" /\ s_retry_count < 1
  /\ UNCHANGED s_retry_count
  /\ ConnectOk \/ ConnectErr
  /\ UNCHANGED <<mode, sta_cfg, joined, ap_vars, s_state, s_ip, s_pending,
                 s_ap_mode, task_vars, nvs, hist_vars>>

(* First failure of an attempt: same configuration, connect again.         *)
OnDisconnectedRetry ==
  /\ \E r \in Reasons : Take(Disconnected(r))
  /\ s_state = "CONNECTING" /\ s_retry_count < 1
  /\ s_retry_count' = s_retry_count + 1
  /\ ConnectOk \/ ConnectErr
  /\ UNCHANGED <<mode, sta_cfg, joined, ap_vars, s_state, s_ip, s_pending,
                 s_ap_mode, task_vars, nvs, hist_vars>>

(* Second failure: FAILED is visible before the staged pair is cleared.    *)
OnDisconnectedFinal ==
  /\ s_state = "CONNECTING" /\ s_retry_count >= 1
  /\ \E r \in Reasons :
       /\ Take(Disconnected(r))
       /\ ev' = IF r = "auth" THEN "auth_clear_pending" ELSE "clear_pending"
  /\ s_state' = "FAILED"
  /\ SetBits("FAILED")
  /\ UNCHANGED <<mode, link, sta_cfg, joined, faults, ap_vars, s_retry_count,
                 s_ip, s_pending, s_ap_mode, rc, httpd, req, reboot_pending,
                 nvs, hist_vars>>

OnDisconnectedIgnored ==                          \* mutant: a runtime drop goes unnoticed
  /\ \E r \in Reasons : Take(Disconnected(r))
  /\ s_state # "CONNECTING"
  /\ UNCHANGED <<mode, link, sta_cfg, joined, faults, ap_vars, s_state, s_retry_count,
                 s_ip, s_pending, s_ap_mode, task_vars, nvs, hist_vars>>

OnDisconnectedElse ==
  /\ \E r \in Reasons : Take(Disconnected(r))
  /\ s_state # "CONNECTING"
  /\ s_state' = IF s_state = "CONNECTED" THEN "FAILED" ELSE s_state
  /\ UNCHANGED <<mode, link, sta_cfg, joined, faults, ap_vars, s_retry_count,
                 s_ip, s_pending, s_ap_mode, task_vars, nvs, hist_vars>>

FailClearPending ==
  /\ ev \in {"auth_clear_pending", "clear_pending"}
  /\ s_pending' = Empty
  /\ ev' = IF ev = "auth_clear_pending" THEN "nvs_clear" ELSE "idle"
  /\ UNCHANGED <<driver_vars, ap_vars, s_state, s_retry_count, s_ip,
                 s_ap_mode, main, rc, httpd, req, reboot_pending, nvs, hist_vars>>

FailClearNvs ==
  /\ ev = "nvs_clear"
  /\ NvsClear
  /\ ev' = "idle"
  /\ UNCHANGED <<mode, link, sta_cfg, joined, dhcp, evq, ap_vars, mgr_vars, main,
                 rc, httpd, req, reboot_pending, hist_vars>>

OnGotIpFirst ==                                   \* mutant: the first address stays
  /\ \E c \in Creds :
       /\ Take(GotIp(c))
       /\ s_ip' = IF s_ip = NoCred THEN c ELSE s_ip
       /\ verified' = verified \cup {c}
  /\ \/ s_pending.ssid = NoCred /\ ev' = "up" /\ UNCHANGED faults
     \/ s_pending.ssid # NoCred /\ ev' = "nvs_ssid" /\ UNCHANGED faults
     \/ s_pending.ssid # NoCred /\ ev' = "saved" /\ Fault
  /\ UNCHANGED <<mode, link, sta_cfg, joined, ap_vars, s_state, s_retry_count,
                 s_pending, s_ap_mode, main, rc, httpd, req,
                 reboot_pending, nvs, saves>>

OnGotIpSaveReturns ==                             \* mutant: a failed save returns early
  /\ \E c \in Creds :
       /\ Take(GotIp(c))
       /\ s_ip' = c
       /\ verified' = verified \cup {c}
  /\ \/ s_pending.ssid = NoCred /\ ev' = "up" /\ UNCHANGED faults
     \/ s_pending.ssid # NoCred /\ ev' = "nvs_ssid" /\ UNCHANGED faults
     \/ s_pending.ssid # NoCred /\ ev' = "idle" /\ Fault
  /\ UNCHANGED <<mode, link, sta_cfg, joined, ap_vars, s_state, s_retry_count,
                 s_pending, s_ap_mode, main, rc, httpd, req,
                 reboot_pending, nvs, saves>>

(* An address.  With a staged pair, nvs_write first; it may fail to open.  *)
OnGotIp ==
  /\ \E c \in Creds :
       /\ Take(GotIp(c))
       /\ s_ip' = c
       /\ verified' = verified \cup {c}
  /\ \/ s_pending.ssid = NoCred /\ ev' = "up" /\ UNCHANGED faults
     \/ s_pending.ssid # NoCred /\ ev' = "nvs_ssid" /\ UNCHANGED faults
     \/ s_pending.ssid # NoCred /\ ev' = "saved" /\ Fault
  /\ UNCHANGED <<mode, link, sta_cfg, joined, ap_vars, s_state, s_retry_count,
                 s_pending, s_ap_mode, main, rc, httpd, req,
                 reboot_pending, nvs, saves>>

(* Each key is a flash write of its own, of what is staged at that time.   *)
(* When one fails, the other is written all the same: half a pair.         *)
SaveSsid ==
  /\ ev = "nvs_ssid"
  /\ NvsSet("ssid", s_pending.ssid)
  /\ ev' = "nvs_pass"
  /\ UNCHANGED <<mode, link, sta_cfg, joined, dhcp, evq, ap_vars, mgr_vars, main,
                 rc, httpd, req, reboot_pending, hist_vars>>

SavePass ==
  /\ ev = "nvs_pass"
  /\ NvsSet("pass", s_pending.pass)
  /\ ev' = "saved"
  /\ UNCHANGED <<mode, link, sta_cfg, joined, dhcp, evq, ap_vars, mgr_vars, main,
                 rc, httpd, req, reboot_pending, hist_vars>>

SavedStillStaged ==                               \* mutant: no clear after saving
  /\ ev = "saved"
  /\ ev' = "up"
  /\ UNCHANGED <<driver_vars, ap_vars, s_state, s_retry_count, s_ip, s_pending,
                 s_ap_mode, main, rc, httpd, req, reboot_pending, nvs, hist_vars>>

Saved ==
  /\ ev = "saved"
  /\ s_pending' = Empty
  /\ ev' = "up"
  /\ UNCHANGED <<driver_vars, ap_vars, s_state, s_retry_count, s_ip,
                 s_ap_mode, main, rc, httpd, req, reboot_pending, nvs, hist_vars>>

Up ==
  /\ ev = "up"
  /\ s_state' = "CONNECTED"
  /\ SetBits("CONNECTED")
  /\ s_ap_mode' = FALSE
  /\ ev' = "idle"
  /\ UNCHANGED <<driver_vars, ap_vars, s_retry_count, s_ip, s_pending, rc,
                 httpd, req, reboot_pending, nvs, hist_vars>>

EventStep == \/ OnStaStart \/ OnStaConnected \/ OnGotIp
             \/ OnDisconnectedRetry \/ OnDisconnectedFinal \/ OnDisconnectedElse
             \/ FailClearPending \/ FailClearNvs
             \/ SaveSsid \/ SavePass \/ Saved \/ Up
----------------------------------------------------------------------------
(* The HTTP server.  A visitor comes over the access point or over the     *)
(* home network.                                                           *)
Reachable(origin) ==
  /\ httpd = "idle"
  /\ IF origin = "ap" THEN mode = "APSTA" ELSE link = "assoc" /\ dhcp = "bound"

(* POST /save: the state is tested, then the body received ...             *)
Save(pair) ==
  /\ \E origin \in {"ap", "sta"} : Reachable(origin)
  /\ s_state \notin {"CONNECTING", "CONNECTED"}
  /\ req' = pair
  /\ httpd' = "recv"
  /\ saves < MaxSaves /\ saves' = saves + 1
  /\ UNCHANGED <<driver_vars, ap_vars, mgr_vars, main, rc, ev, reboot_pending,
                 nvs, verified>>

SaveFails ==
  /\ httpd = "recv"
  /\ req' = Empty
  /\ httpd' = "idle"
  /\ UNCHANGED <<driver_vars, ap_vars, mgr_vars, main, rc, ev, reboot_pending,
                 nvs, hist_vars>>

SaveConnectStagedOnce ==                          \* mutant: a staged pair stays
  /\ httpd = "recv"
  /\ s_state \in {"AP_ONLY", "FAILED"}
  /\ s_pending' = IF s_pending = Empty THEN req ELSE s_pending
  /\ s_retry_count' = 0
  /\ Disconnect
  /\ httpd' = "settle"
  /\ UNCHANGED <<mode, sta_cfg, dhcp, faults, ap_vars, s_state, s_ip,
                 s_ap_mode, main, rc, req, ev, reboot_pending, nvs,
                 hist_vars>>

(* ... then wifi_manager_connect tests again and connect_sta stages the    *)
(* pair and drops whatever association there is.                           *)
SaveConnect ==
  /\ httpd = "recv"
  /\ s_state \in {"AP_ONLY", "FAILED"}
  /\ s_pending' = req
  /\ s_retry_count' = 0
  /\ Disconnect
  /\ httpd' = "settle"
  /\ UNCHANGED <<mode, sta_cfg, dhcp, faults, ap_vars, s_state, s_ip,
                 s_ap_mode, main, rc, req, ev, reboot_pending, nvs,
                 hist_vars>>

SaveRefused ==
  /\ httpd = "recv"
  /\ s_state \notin {"AP_ONLY", "FAILED"}
  /\ req' = Empty
  /\ httpd' = "idle"
  /\ UNCHANGED <<driver_vars, ap_vars, mgr_vars, main, rc, ev, reboot_pending,
                 nvs, hist_vars>>

SaveSettledQuietly ==                             \* mutant: CONNECTING is not set
  /\ httpd = "settle"
  /\ ev = "idle" /\ ~LossPending
  /\ httpd' = "config"
  /\ UNCHANGED <<driver_vars, ap_vars, mgr_vars, main, rc, req, ev,
                 reboot_pending, nvs, hist_vars>>

(* 600 ms later, long enough for the event task, which has the highest     *)
(* priority of the three, to finish a handler and take the event of that   *)
(* disconnection.                                                          *)
SaveSettled ==
  /\ httpd = "settle"
  /\ ev = "idle" /\ ~LossPending
  /\ s_state' = "CONNECTING"
  /\ httpd' = "config"
  /\ UNCHANGED <<driver_vars, ap_vars, s_retry_count, s_ip, s_pending,
                 s_ap_mode, main, rc, req, ev, reboot_pending, nvs, hist_vars>>

(* ESP_ERROR_CHECK(esp_wifi_set_config()) aborts when it is refused.       *)
SaveAborts ==
  /\ httpd = "config" /\ ~ConfigAccepted
  /\ Reboot /\ UNCHANGED faults

SaveLaunch ==
  /\ httpd = "config" /\ ConfigAccepted
  /\ sta_cfg' = req
  /\ \/ /\ ConnectOk
        /\ UNCHANGED <<s_state, main>>
     \/ /\ ConnectErr
        /\ s_state' = "FAILED"
        /\ SetBits("FAILED")
  /\ req' = Empty
  /\ httpd' = "idle"
  /\ UNCHANGED <<mode, joined, dhcp, evq, ap_vars, s_retry_count, s_ip,
                 s_pending, s_ap_mode, rc, ev, reboot_pending, nvs, hist_vars>>

HttpdStep == \/ SaveFails \/ SaveConnect \/ SaveRefused \/ SaveSettled
             \/ SaveAborts \/ SaveLaunch

(* GET /: the dashboard, once connected, ends provisioning.                *)
RootHandler(origin) ==
  /\ Reachable(origin)
  /\ s_state = "CONNECTED"
  /\ Schedule
  /\ UNCHANGED <<driver_vars, mgr_vars, task_vars, nvs, hist_vars>>

(* POST /ap_shutdown: the same without a look at the state.                *)
ApShutdownHandler ==
  /\ \E origin \in {"ap", "sta"} : Reachable(origin)
  /\ Schedule
  /\ UNCHANGED <<driver_vars, mgr_vars, task_vars, nvs, hist_vars>>

(* POST /reboot, and the task it creates, 1.5 s later.                     *)
RebootHandler ==
  /\ \E origin \in {"ap", "sta"} : Reachable(origin)
  /\ reboot_pending' = TRUE
  /\ UNCHANGED <<driver_vars, ap_vars, mgr_vars, main, rc, httpd, req, ev, nvs,
                 hist_vars>>

DelayedReboot == reboot_pending /\ Reboot /\ UNCHANGED faults

Visitor ==
  \/ "save" \in Requests /\ \E c \in Creds : Save(Of(c))
  \/ "typo" \in Requests /\ \E c, d \in Creds : c # d /\ Save([ssid |-> c, pass |-> d])
  \/ "root" \in Requests /\ \E origin \in {"ap", "sta"} : RootHandler(origin)
  \/ "ap_shutdown" \in Requests /\ ApShutdownHandler
  \/ "reboot" \in Requests /\ RebootHandler
----------------------------------------------------------------------------
own_vars == <<ap_vars, mgr_vars, task_vars, nvs, hist_vars>>

PowerLoss     == Fault /\ Reboot
RadioStep     == Radio /\ UNCHANGED own_vars
(* Scan, association and DHCP take seconds: longer than the last second of *)
(* a /save and than the few instructions of wifi_manager_reconnect.        *)
Lease ==
  /\ httpd \notin {"settle", "config"} /\ main \notin {"rc_set", "rc_connect"}
  /\ LeaseBound
  /\ UNCHANGED own_vars

ShutdownTask  == ShutdownStep /\ UNCHANGED <<mgr_vars, task_vars, nvs, hist_vars>>
DnsTask       == DnsExit /\ UNCHANGED <<driver_vars, mgr_vars, task_vars, nvs, hist_vars>>

Device      == \/ MainStep \/ EventStep \/ HttpdStep
               \/ ShutdownTask \/ DnsTask \/ DelayedReboot
Environment == RadioStep \/ Lease \/ Visitor \/ PowerLoss

Next == Device \/ Environment
Spec == Init /\ [][Next]_vars

(* Every task of the device runs on and an attempt to associate has an     *)
(* end.  Nothing is asked of a DHCP server, of visitors or of faults.      *)
AttemptEnds == (Associate \/ \E r \in Reasons : AssociateFails(r)) /\ UNCHANGED own_vars

TaskFairness == /\ WF_vars(MainStep) /\ WF_vars(EventStep) /\ WF_vars(HttpdStep)
                /\ WF_vars(ShutdownTask) /\ WF_vars(DnsTask)
                /\ WF_vars(DelayedReboot) /\ WF_vars(AttemptEnds)

FairSpec == Spec /\ TaskFairness
----------------------------------------------------------------------------
(* The shutdown callback runs at most once in a boot, as wifi_manager.h    *)
(* promises, however the handlers that schedule a shutdown interleave.     *)
ShutdownOnce == cb_calls <= 1

(* CONNECTED is never shown without an association, except while the event *)
(* of its loss waits for the event task.                                   *)
ConnectedIsLinked == s_state = "CONNECTED" => link = "assoc" \/ LossPending

(* The address served by /status and /dashready is that of the network the *)
(* station is in, not of one it was in before another /save or reconnect.  *)
AddressIsOfLink ==
  s_state = "CONNECTED" /\ link = "assoc" /\ ~LossPending => s_ip = joined.ssid

(* Once connected, nothing stays staged that the address of a later        *)
(* reconnection would write to flash.                                      *)
NothingStagedWhenConnected ==
  s_state = "CONNECTED" /\ httpd # "settle" => s_pending = Empty

(* As long as the portal is open: a save changes a key in flash only to    *)
(* that of the association that brought the address, so that the two keys  *)
(* are its pair, or, when the write of one of them failed, half of it.     *)
SavedPairIsJoined ==
  [][\A k \in {"ssid", "pass"} :
       /\ s_ap_active /\ ev \in {"nvs_ssid", "nvs_pass"} /\ link = "assoc"
       /\ nvs'[k] # nvs[k]
       => nvs'[k] = joined[k]]_vars

(* ... a station with an address, all its events handled, is CONNECTED: no *)
(* race of event handler and /save leaves the portal in front of a link.   *)
LinkIsKnown ==
  s_ap_active /\ link = "assoc" /\ dhcp = "bound" /\ evq = <<>> /\ ev = "idle"
    => s_state = "CONNECTED"

(* ... and a /save whose body took long to arrive does not tear down a     *)
(* link that has come up with an address meanwhile.                        *)
SaveSparesWorkingLink ==
  [][s_ap_active /\ httpd = "recv" /\ httpd' = "settle"
       => ~(link = "assoc" /\ dhcp = "bound")]_vars

(* A pair in flash that belongs to a network is one that gave the device   *)
(* an address: "staged for NVS save after success" (wifi_manager.c:48).    *)
OnlyVerifiedSaved ==
  NvsReadable /\ nvs.ssid = nvs.pass => nvs.ssid \in verified

(* Every boot ends in the main loop, by itself or after one restart, with  *)
(* whatever pair is in flash: no boot loop.                                *)
BootSettles == main = "boot" ~> main = "loop"

(* Nothing is under way: the driver refused esp_wifi_connect() and nobody  *)
(* looked at the result, or the network has no DHCP server that answers.   *)
Quiet      == evq = <<>> /\ ev = "idle" /\ httpd \in {"down", "idle"} /\ main = "loop"
Refused    == Quiet /\ link = "idle" /\ faults > 0
DhcpSilent == Quiet /\ link = "assoc" /\ dhcp = "running"

(* An attempt to connect ends, unless it hangs in one of these two for     *)
(* ever: no race of event handler, /save and reconnect leaves one that is  *)
(* retried without end or that nobody works on.                            *)
ConnectingEnds ==
  <>[](s_state = "CONNECTING") => <>[]Refused \/ <>[]DhcpSilent

(* The DNS task ends after the access point, so port 53 and its stack are  *)
(* given back (the leak main.c:203 is about).                              *)
DnsStops == ~s_ap_active /\ dns = "running" ~> dns # "running"

(* A provisioned station that lost its link is back by itself after a      *)
(* finite number of reconnections, unless its credentials were cleared, it *)
(* restarted, a visitor interfered, or the attempt hangs as above.         *)
Lost == main = "loop" /\ ~s_ap_active /\ s_state = "FAILED" /\ NvsReadable
Hangs == s_state = "CONNECTING" /\ (Refused \/ DhcpSilent)
----------------------------------------------------------------------------
(* What comments and documents say and the code does not keep.             *)

(* wifi_manager.h: reconnecting is "safe to call from the main loop on     *)
(* repeated WIFI_MGR_FAILED detections": no /save aborts because of it.    *)
ReconnectIsSafe == httpd = "config" => ConfigAccepted

(* wifi_manager.c:278: "Only clear NVS if we are certain it's a real       *)
(* credential error": the pair that is erased is the one that was refused. *)
ErasesWhatFailed ==
  [][ev = "nvs_clear" /\ NvsReadable /\ nvs' # nvs => nvs = sta_cfg]_vars

(* app_config.h:26 calls WIFI_CONNECT_TIMEOUT_MS a "hard timeout": no      *)
(* attempt to connect lasts for ever.                                      *)
AttemptsEnd == s_state = "CONNECTING" ~> s_state # "CONNECTING"
=============================================================================
