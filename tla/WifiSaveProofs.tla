-------------------------- MODULE WifiSaveProofs --------------------------
(***************************************************************************)
(* What a /save may leave behind, and what it may not disturb.             *)
(*                                                                         *)
(* First, when a staged pair is gone.  A later /save may stage a new pair  *)
(* between the handler's clear and the moment it shows CONNECTED; it is    *)
(* then in its 600 ms, and StagedInv is about every other moment.          *)
(*                                                                         *)
(* Then the portal: as long as s_ap_active is set the main loop does not   *)
(* reconnect, and the event task and the HTTP server are the only two that *)
(* meet at the station.  PortalInv says how they keep out of each other's  *)
(* way without a lock: a /save gets past its second test only while        *)
(* nothing is attempted, associated, queued or being handled.              *)
(***************************************************************************)
EXTENDS WifiManagerProofs

Staged    == s_pending # Empty
Unsettled == httpd = "settle"
Serving   == main \in {"loop", "rc_set", "rc_connect"}

StagedInv ==
  /\ s_state = "CONNECTED" /\ ~Unsettled => ~Staged
  /\ ev = "up" /\ ~Unsettled => ~Staged
  /\ Staged => s_pending.ssid # NoCred
  /\ httpd = "recv" => req.ssid # NoCred
  /\ ~Serving => httpd = "down"

(* Steps that stage nothing, and leave CONNECTED and the server alone.     *)
LEMMA QuietStagedInv ==
  ASSUME StagedInv, s_pending' \in {s_pending, Empty}, httpd' = httpd, req' = req,
         s_state' = "CONNECTED" => s_state = "CONNECTED" \/ ev = "up",
         ev' = "up" => ev = "up" \/ ~Staged',
         Serving => Serving'
  PROVE  StagedInv'
  BY DEF StagedInv, Staged, Unsettled

LEMMA InitStagedInv == Init => StagedInv
  BY DEF Init, StagedInv, Staged, Unsettled, Serving

LEMMA RebootStagedInv == Reboot => StagedInv'
  BY DEF Reboot, StagedInv, Staged, Unsettled, Serving

LEMMA MainStagedInv ==
  ASSUME StagedInv, MainStep
  PROVE  StagedInv'
  <1>1. CASE Restart
    BY <1>1, RebootStagedInv DEF Restart
  <1>2. CASE ~Restart
    <2>1. /\ UNCHANGED <<s_pending, httpd, req, ev>>
          /\ s_state' = "CONNECTED" => s_state = "CONNECTED"
          /\ Serving => Serving'
       \/ Serve
      BY <1>2 DEF Serving, MainStep, BootProvision, BootAp, BootSta, BootTimeout, GiveUp,
                  ReconnectCheck, ReconnectSet, ReconnectConnect, mgr_vars
    <2>2. CASE Serve
      BY <2>2 DEF Serve, mgr_vars, StagedInv, Staged, Unsettled, Serving
    <2>3. QED
      BY <2>1, <2>2, QuietStagedInv
  <1>3. QED
    BY <1>1, <1>2

LEMMA EventStagedInv ==
  ASSUME StagedInv, EventStep
  PROVE  StagedInv'
  <1> USE DEF mgr_vars, task_vars, Serving, SetBits
  <1>1. CASE OnStaStart \/ OnStaConnected
    BY <1>1, QuietStagedInv DEF OnStaStart, OnStaConnected
  <1>2. CASE OnGotIp
    BY <1>2, QuietStagedInv DEF OnGotIp, StagedInv, Staged
  <1>3. CASE OnDisconnectedRetry \/ OnDisconnectedFinal \/ OnDisconnectedElse
    BY <1>3, QuietStagedInv
       DEF OnDisconnectedRetry, OnDisconnectedFinal, OnDisconnectedElse
  <1>4. CASE FailClearPending \/ FailClearNvs
    BY <1>4, QuietStagedInv DEF FailClearPending, FailClearNvs
  <1>5. CASE SaveSsid \/ SavePass
    BY <1>5, QuietStagedInv DEF SaveSsid, SavePass
  <1>6. CASE Saved
    BY <1>6, QuietStagedInv DEF Saved, Staged
  <1>7. CASE Up
    BY <1>7, QuietStagedInv DEF Up
  <1>8. QED
    BY <1>1, <1>2, <1>3, <1>4, <1>5, <1>6, <1>7 DEF EventStep

(* The end of the 600 ms sets CONNECTING, and finds the handler idle: the  *)
(* one place where the inductive step needs the event task's priority.     *)
LEMMA HttpdStagedInv ==
  ASSUME StagedInv, HttpdStep
  PROVE  StagedInv'
  <1> USE DEF StagedInv, Staged, Unsettled, Serving, SetBits, mgr_vars
  <1>1. CASE SaveFails
    BY <1>1 DEF SaveFails
  <1>2. CASE SaveConnect
    BY <1>2 DEF SaveConnect, Empty
  <1>3. CASE SaveRefused
    BY <1>3 DEF SaveRefused
  <1>4. CASE SaveSettled
    BY <1>4 DEF SaveSettled
  <1>5. CASE SaveAborts
    BY <1>5, RebootStagedInv DEF SaveAborts
  <1>6. CASE SaveLaunch
    BY <1>6 DEF SaveLaunch
  <1>7. QED
    BY <1>1, <1>2, <1>3, <1>4, <1>5, <1>6 DEF HttpdStep

LEMMA VisitorStagedInv ==
  ASSUME StagedInv, Visitor
  PROVE  StagedInv'
  <1> USE DEF mgr_vars, task_vars, Serving
  <1>1. ASSUME NEW p, p.ssid # NoCred, Save(p) PROVE StagedInv'
    BY <1>1 DEF Save, Reachable, StagedInv, Staged, Unsettled
  <1>2. CASE ApShutdownHandler \/ RebootHandler
                \/ \E origin \in {"ap", "sta"} : RootHandler(origin)
    BY <1>2, QuietStagedInv DEF ApShutdownHandler, RebootHandler, RootHandler
  <1>3. \A c, d \in Creds : Of(c).ssid # NoCred /\ [ssid |-> c, pass |-> d].ssid # NoCred
    BY DriverAssumption DEF Of
  <1>4. QED
    BY <1>1, <1>2, <1>3 DEF Visitor

LEMMA NextStagedInv == StagedInv /\ [Next]_vars => StagedInv'
  <1> SUFFICES ASSUME StagedInv, [Next]_vars PROVE StagedInv'
    OBVIOUS
  <1>1. CASE ShutdownTask \/ DnsTask \/ RadioStep \/ Lease \/ UNCHANGED vars
    BY <1>1, QuietStagedInv
       DEF ShutdownTask, DnsTask, RadioStep, Lease, own_vars, vars, mgr_vars, task_vars, Serving
  <1>2. CASE DelayedReboot \/ PowerLoss
    BY <1>2, RebootStagedInv DEF DelayedReboot, PowerLoss
  <1>3. QED
    BY <1>1, <1>2, MainStagedInv, EventStagedInv, HttpdStagedInv, VisitorStagedInv
       DEF Next, Device, Environment

(* No pair stays staged behind a connection, to be written by a later one. *)
THEOREM WifiNothingStaged == Spec => []NothingStagedWhenConnected
  <1>1. StagedInv => NothingStagedWhenConnected
    BY DEF StagedInv, Staged, Unsettled, NothingStagedWhenConnected
  <1>2. QED
    BY <1>1, InitStagedInv, NextStagedInv, PTL DEF Spec
----------------------------------------------------------------------------
IsLoss(e)    == e.type = "STA_DISCONNECTED"
Bringing     == {"nvs_ssid", "nvs_pass", "saved", "up"}
Settling     == httpd \in {"settle", "config"}
Attached     == link \in {"trying", "assoc"}
Engaged      == s_state \in {"CONNECTING", "CONNECTED"} /\ ~Settling
GotIpPending == \E i \in 1..Len(evq) : evq[i].type = "GOT_IP"
Tied         == LossPending \/ link = "assoc"

(* Until the access point is up, nothing has happened yet.                 *)
Before == main \in {"boot", "prescan"} =>
  /\ link \in {"stopped", "idle"} /\ dhcp = "off" /\ s_pending = Empty
  /\ httpd = "down" /\ ev = "idle" /\ ~s_ap_active /\ s_state = "IDLE"
  /\ evq \in {<<>>, <<Plain("STA_START")>>}
  /\ main = "boot" => evq = <<>>

(* A loss is the last event of its link; whatever is under way at the      *)
(* station is known as such and is not met by a /save.                     *)
Portal ==
  /\ main \in {"serve", "loop"} /\ (main = "serve" => httpd = "down")
  /\ \A i \in 1..Len(evq) : /\ IsLoss(evq[i]) => i = Len(evq) /\ link = "idle"
                            /\ evq[i].type # "STA_START"
  /\ evq # <<>> \/ Attached \/ ev \in Bringing => Engaged
  /\ httpd = "config" => s_state = "CONNECTING"

(* An address belongs to an association, and is on its way to s_state.     *)
Leased ==
  /\ \A i \in 1..Len(evq) : evq[i].type = "STA_CONNECTED" => Tied
  /\ dhcp # "off" => Tied
  /\ dhcp = "bound" =>
       LossPending \/ GotIpPending \/ ev \in Bringing \/ s_state = "CONNECTED"

(* The staged pair is the one the driver is trying, or is about to.        *)
PairInv ==
  /\ link = "assoc" => joined = sta_cfg
  /\ s_pending # Empty => s_pending = IF Settling THEN req ELSE sta_cfg
  /\ ev \in {"nvs_ssid", "nvs_pass"} => s_pending # Empty

PortalInv == Before /\ (s_ap_active => Portal /\ Leased /\ PairInv)

LEMMA InitPortalInv == Init => PortalInv
  BY DEF Init, DriverInit, ApInit, PortalInv, Before

LEMMA RebootPortalInv == Reboot => PortalInv'
  BY DEF Reboot, DriverReset, ApReset, PortalInv, Before

LEMMA LeasedFrame ==
  ASSUME UNCHANGED <<link, dhcp, evq>>,
         ev \in Bringing => ev' \in Bringing \/ s_state' = "CONNECTED",
         s_state = "CONNECTED" => s_state' = "CONNECTED"
  PROVE  Leased => Leased'
  BY DEF Leased, Tied, LossPending, GotIpPending

LEMMA MainPortalInv ==
  ASSUME TypeInv, PortalInv, MainStep
  PROVE  PortalInv'
  <1> USE DEF driver_vars, mgr_vars, ap_vars, PortalInv, Before
  <1>1. CASE Restart
    BY <1>1, RebootPortalInv DEF Restart
  <1>2. CASE BootProvision
    <2>1. evq' = <<Plain("STA_START")>>
      BY <1>2 DEF BootProvision, Post
    <2>2. QED
      BY <1>2, <2>1 DEF BootProvision
  <1>3. CASE BootAp
    <2>1. Len(evq') = 0
      BY <1>3 DEF BootAp
    <2>2. QED
      BY <1>3, <2>1 DEF BootAp, Portal, Leased, PairInv, Attached, Engaged, Settling, Bringing
  <1>4. CASE BootSta
    BY <1>4 DEF BootSta
  <1>5. CASE BootTimeout \/ GiveUp
    BY <1>5 DEF BootTimeout, GiveUp, Portal
  <1>6. CASE Serve
    <2>1. s_ap_active => Portal' /\ PairInv'
      BY <1>6 DEF Serve, Portal, PairInv, Attached, Engaged, Settling
    <2>2. QED
      BY <1>6, <2>1, LeasedFrame DEF Serve
  <1>7. CASE ReconnectCheck \/ ReconnectSet \/ ReconnectConnect
    BY <1>7 DEF ReconnectCheck, ReconnectSet, ReconnectConnect, Portal
  <1>8. QED
    BY <1>1, <1>2, <1>3, <1>4, <1>5, <1>6, <1>7 DEF MainStep

(* Taking the first event of the queue while the portal is open.           *)
LEMMA TakePortal ==
  ASSUME TypeInv, Portal, NEW e \in Event, Take(e)
  PROVE  /\ Engaged
         /\ IsLoss(e) => evq' = <<>> /\ link = "idle" /\ ~LossPending'
         /\ ~IsLoss(e) => (LossPending <=> LossPending')
         /\ e.type # "GOT_IP" => (GotIpPending => GotIpPending')
         /\ \A i \in 1..Len(evq') :
              i + 1 \in 1..Len(evq) /\ evq'[i] = evq[i + 1] /\ (i + 1 = Len(evq) => i = Len(evq'))
         /\ evq[1] = e /\ 1 \in 1..Len(evq)
         /\ \A i \in 1..Len(evq') : /\ IsLoss(evq'[i]) => i = Len(evq') /\ link = "idle"
                                    /\ evq'[i].type # "STA_START"
         /\ e.type # "STA_START"
  <1>1. evq \in Seq(Event) /\ evq # <<>> /\ e = Head(evq) /\ evq' = Tail(evq)
    BY DEF TypeInv, WifiTypeOK, DriverTypeOK, Take
  <1>2. /\ Len(evq') = Len(evq) - 1 /\ evq[1] = e /\ Len(evq) \in Nat \ {0}
        /\ \A i \in 1..Len(evq') : evq'[i] = evq[i + 1]
    BY <1>1
  <1>3. IsLoss(e) => evq' = <<>> /\ link = "idle" /\ ~LossPending'
    <2>1. SUFFICES ASSUME IsLoss(e) PROVE evq' = <<>> /\ link = "idle" /\ ~LossPending'
      OBVIOUS
    <2>2. 1 = Len(evq) /\ link = "idle"
      BY <1>2, <2>1 DEF Portal, IsLoss
    <2>3. evq' = <<>>
      BY <1>1, <2>2
    <2>4. ~LossPending'
      <3>1. Len(evq') = 0
        BY <2>3
      <3>2. QED
        BY <3>1 DEF LossPending
    <2>5. QED
      BY <2>2, <2>3, <2>4
  <1>4. ~IsLoss(e) => (LossPending <=> LossPending')
    <2>1. ASSUME LossPending, ~IsLoss(e) PROVE LossPending'
      <3>1. PICK i \in 1..Len(evq) : evq[i].type = "STA_DISCONNECTED"
        BY <2>1 DEF LossPending
      <3>2. i # 1 /\ i - 1 \in 1..Len(evq') /\ evq'[i - 1] = evq[i]
        BY <1>2, <2>1, <3>1 DEF IsLoss
      <3>3. QED
        BY <3>1, <3>2 DEF LossPending
    <2>2. ASSUME LossPending' PROVE LossPending
      <3>1. PICK i \in 1..Len(evq') : evq'[i].type = "STA_DISCONNECTED"
        BY <2>2 DEF LossPending
      <3>2. i + 1 \in 1..Len(evq) /\ evq[i + 1] = evq'[i]
        BY <1>2
      <3>3. QED
        BY <3>1, <3>2 DEF LossPending
    <2>3. QED
      BY <2>1, <2>2
  <1>5. e.type # "GOT_IP" => (GotIpPending => GotIpPending')
    <2>1. ASSUME GotIpPending, e.type # "GOT_IP" PROVE GotIpPending'
      <3>1. PICK i \in 1..Len(evq) : evq[i].type = "GOT_IP"
        BY <2>1 DEF GotIpPending
      <3>2. i # 1 /\ i - 1 \in 1..Len(evq') /\ evq'[i - 1] = evq[i]
        BY <1>2, <2>1, <3>1
      <3>3. QED
        BY <3>1, <3>2 DEF GotIpPending
    <2>2. QED
      BY <2>1
  <1>6. \A i \in 1..Len(evq') :
          i + 1 \in 1..Len(evq) /\ evq'[i] = evq[i + 1] /\ (i + 1 = Len(evq) => i = Len(evq'))
    BY <1>2
  <1>7. \A i \in 1..Len(evq') : /\ IsLoss(evq'[i]) => i = Len(evq') /\ link = "idle"
                                /\ evq'[i].type # "STA_START"
    BY <1>6 DEF Portal, IsLoss
  <1>8. Engaged
    BY <1>1 DEF Portal
  <1>9. evq[1] = e /\ 1 \in 1..Len(evq) /\ e.type # "STA_START"
    BY <1>2 DEF Portal
  <1>10. QED
    BY <1>3, <1>4, <1>5, <1>6, <1>7, <1>8, <1>9, Zenon

(* Posting one: a loss closes the queue of a link that is gone.            *)
LEMMA PostPortal ==
  ASSUME TypeInv, NEW e \in Event, Post(e), ~LossPending
  PROVE  /\ evq' # <<>> /\ Len(evq') = Len(evq) + 1
         /\ \A i \in 1..Len(evq') :
              (evq'[i] = e /\ i = Len(evq')) \/ (i \in 1..Len(evq) /\ evq'[i] = evq[i])
         /\ LossPending' <=> IsLoss(e)
         /\ GotIpPending' <=> GotIpPending \/ e.type = "GOT_IP"
  <1>1. evq \in Seq(Event) /\ evq' = Append(evq, e)
    BY DEF TypeInv, WifiTypeOK, DriverTypeOK, Post
  <1>2. /\ Len(evq') = Len(evq) + 1 /\ Len(evq) \in Nat /\ evq'[Len(evq')] = e
        /\ \A i \in 1..Len(evq) : evq'[i] = evq[i]
    BY <1>1
  <1>3. evq' # <<>>
    BY <1>1
  <1>4. LossPending' <=> IsLoss(e)
    BY <1>2 DEF LossPending, IsLoss
  <1>5. GotIpPending' <=> GotIpPending \/ e.type = "GOT_IP"
    BY <1>2 DEF GotIpPending
  <1>6. \A i \in 1..Len(evq') :
          (evq'[i] = e /\ i = Len(evq')) \/ (i \in 1..Len(evq) /\ evq'[i] = evq[i])
    BY <1>2
  <1>7. QED
    BY <1>2, <1>3, <1>4, <1>5, <1>6, Zenon

(* The start of the station is handled before the portal opens.            *)
LEMMA EventBefore ==
  ASSUME Before, main \in {"boot", "prescan"}, EventStep
  PROVE  Before' /\ ~s_ap_active'
  <1> USE DEF Before, mgr_vars, ap_vars, task_vars
  <1>1. ASSUME NEW e, Take(e)
        PROVE  e.type = "STA_START" /\ evq' = <<>> /\ dhcp' = "off"
    <2>1. evq = <<Plain("STA_START")>>
      BY <1>1 DEF Take
    <2>2. e = Plain("STA_START") /\ evq' = <<>>
      BY <1>1, <2>1 DEF Take
    <2>3. e.type = "STA_START"
      BY <2>2 DEF Plain
    <2>4. QED
      BY <1>1, <2>2, <2>3 DEF Take, DhcpOnEvent
  <1>2. /\ Plain("STA_CONNECTED").type = "STA_CONNECTED"
        /\ \A r : Disconnected(r).type = "STA_DISCONNECTED"
        /\ \A c : GotIp(c).type = "GOT_IP"
    BY DEF Plain, Disconnected, GotIp
  <1>3. OnStaStart
    BY <1>1, <1>2 DEF EventStep, OnStaConnected, OnGotIp,
                OnDisconnectedRetry, OnDisconnectedFinal, OnDisconnectedElse,
                FailClearPending, FailClearNvs, SaveSsid, SavePass, Saved, Up
  <1>4. QED
    BY <1>1, <1>3 DEF OnStaStart

LEMMA EventPortalInv ==
  ASSUME TypeInv, PortalInv, EventStep
  PROVE  PortalInv'
  <1> USE DEF mgr_vars, ap_vars, task_vars
  <1>1. CASE main \in {"boot", "prescan"}
    BY <1>1, EventBefore DEF PortalInv
  <1>2. CASE main \notin {"boot", "prescan"}
    <2>1. Before' /\ s_ap_active' = s_ap_active
      BY <1>2 DEF EventStep, OnStaStart, OnStaConnected, OnGotIp, OnDisconnectedRetry,
                  OnDisconnectedFinal, OnDisconnectedElse, FailClearPending, FailClearNvs,
                  SaveSsid, SavePass, Saved, Up, SetBits, Before
    <2>2. SUFFICES ASSUME s_ap_active, Portal, Leased, PairInv
                   PROVE  Portal' /\ Leased' /\ PairInv'
      BY <2>1 DEF PortalInv
    <2>3. main \in {"serve", "loop"}
      BY <2>2 DEF Portal
    <2>4. /\ \A r \in Reasons : Disconnected(r) \in Event
          /\ \A c \in Creds : GotIp(c) \in Event
          /\ Plain("STA_CONNECTED") \in Event
      BY EventTyping DEF EventTypes
    <2>5. CASE OnStaStart
      <3>1. Plain("STA_START") \in Event /\ Plain("STA_START").type = "STA_START"
        BY EventTyping DEF EventTypes, Plain
      <3>2. QED
        BY <2>2, <2>5, <3>1, TakePortal DEF OnStaStart
    <2>6. CASE OnStaConnected
      <3> DEFINE e == Plain("STA_CONNECTED")
      <3>1. e.type = "STA_CONNECTED" /\ Take(e) /\ ~IsLoss(e)
        BY <2>6 DEF OnStaConnected, Plain, IsLoss
      <3> HIDE DEF e
      <3>2. e \in Event
        BY <2>4 DEF e
      <3>3. Portal'
        BY <2>2, <2>6, <3>1, <3>2, TakePortal DEF OnStaConnected, Portal, Engaged, Settling
      <3>4. dhcp' = "running"
        BY <3>1 DEF Take, DhcpOnEvent
      <3>5. Tied'
        BY <2>2, <2>6, <3>1, <3>2, TakePortal DEF OnStaConnected, Leased, Tied
      <3>6. Leased'
        BY <3>4, <3>5 DEF Leased
      <3>7. PairInv'
        BY <2>2, <2>6 DEF OnStaConnected, PairInv, Settling
      <3>8. QED
        BY <3>3, <3>6, <3>7
    <2>7. CASE OnGotIp
      <3>1. PICK c \in Creds : Take(GotIp(c))
        BY <2>7 DEF OnGotIp
      <3> DEFINE e == GotIp(c)
      <3>2. e.type = "GOT_IP" /\ Take(e) /\ ~IsLoss(e)
        BY <3>1 DEF GotIp, IsLoss
      <3> HIDE DEF e
      <3>3. e \in Event
        BY <2>4 DEF e
      <3>4. dhcp' = dhcp
        BY <3>2 DEF Take, DhcpOnEvent
      <3>5. Portal'
        BY <2>2, <2>7, <3>2, <3>3, TakePortal DEF OnGotIp, Portal, Engaged, Settling
      <3>6. Tied => Tied'
        BY <2>2, <2>7, <3>2, <3>3, TakePortal DEF OnGotIp, Tied
      <3>7. Leased'
        BY <2>2, <2>7, <3>2, <3>3, <3>4, <3>6, TakePortal DEF OnGotIp, Leased, Bringing
      <3>8. PairInv'
        BY <2>2, <2>7 DEF OnGotIp, PairInv, Settling, Empty
      <3>9. QED
        BY <3>5, <3>7, <3>8
    <2>8. CASE OnDisconnectedRetry \/ OnDisconnectedFinal \/ OnDisconnectedElse
      <3>1. PICK r \in Reasons : Take(Disconnected(r))
        BY <2>8 DEF OnDisconnectedRetry, OnDisconnectedFinal, OnDisconnectedElse
      <3> DEFINE e == Disconnected(r)
      <3>2. e.type = "STA_DISCONNECTED" /\ Take(e) /\ IsLoss(e)
        BY <3>1 DEF Disconnected, IsLoss
      <3> HIDE DEF e
      <3>3. e \in Event
        BY <2>4 DEF e
      <3>4. dhcp' = "off" /\ ev = "idle"
        BY <3>2 DEF Take, DhcpOnEvent
      <3>5. Engaged /\ evq' = <<>> /\ link = "idle" /\ ~LossPending'
        BY <2>2, <3>2, <3>3, TakePortal
      <3>6. Len(evq') = 0
        BY <3>5
      <3>7. Leased'
        BY <3>4, <3>6 DEF Leased
      <3>8. CASE OnDisconnectedRetry
        BY <2>2, <3>4, <3>5, <3>6, <3>7, <3>8
           DEF OnDisconnectedRetry, ConnectOk, ConnectErr, Portal, PairInv, Engaged, Settling, Bringing
      <3>9. CASE OnDisconnectedFinal
        BY <2>2, <2>3, <3>4, <3>5, <3>6, <3>7, <3>9
           DEF OnDisconnectedFinal, SetBits, Portal, PairInv, Engaged, Settling, Attached, Bringing
      <3>10. CASE OnDisconnectedElse
        BY <2>2, <3>4, <3>5, <3>6, <3>7, <3>10
           DEF OnDisconnectedElse, Portal, PairInv, Engaged, Settling, Attached, Bringing
      <3>11. QED
        BY <2>8, <3>8, <3>9, <3>10
    <2>9. CASE FailClearPending \/ FailClearNvs \/ SaveSsid \/ SavePass \/ Saved \/ Up
      <3>1. /\ UNCHANGED <<mode, link, sta_cfg, joined, dhcp, evq>>
            /\ UNCHANGED <<main, httpd, req>>
        BY <2>3, <2>9 DEF FailClearPending, FailClearNvs, SaveSsid, SavePass, Saved, Up, SetBits,
                    driver_vars
      <3>2. /\ ev' \in Bringing => ev \in Bringing
            /\ ev \in Bringing => ev' \in Bringing \/ s_state' = "CONNECTED"
            /\ s_state' = s_state \/ (s_state' = "CONNECTED" /\ ev \in Bringing)
        BY <2>9 DEF FailClearPending, FailClearNvs, SaveSsid, SavePass, Saved, Up, Bringing
      <3>3. Portal'
        BY <2>2, <3>1, <3>2 DEF Portal, Attached, Engaged, Settling
      <3>4. Leased'
        BY <2>2, <3>1, <3>2, LeasedFrame
      <3>5. /\ s_pending' \in {s_pending, Empty}
            /\ ev' \in {"nvs_ssid", "nvs_pass"} =>
                 ev \in {"nvs_ssid", "nvs_pass"} /\ s_pending' = s_pending
        BY <2>9 DEF FailClearPending, FailClearNvs, SaveSsid, SavePass, Saved, Up
      <3>6. PairInv'
        BY <2>2, <3>1, <3>5 DEF PairInv, Settling
      <3>7. QED
        BY <3>3, <3>4, <3>6
    <2>10. QED
      BY <2>5, <2>6, <2>7, <2>8, <2>9 DEF EventStep
  <1>3. QED
    BY <1>1, <1>2

(* Nothing is under way at a portal whose state says so.                   *)
LEMMA Unengaged ==
  ASSUME TypeInv, Portal, Leased, ~Engaged
  PROVE  /\ evq = <<>> /\ Len(evq) = 0 /\ ~LossPending
         /\ link \in {"stopped", "idle"} /\ dhcp = "off" /\ ev \notin Bringing
  <1>1. evq = <<>> /\ ~Attached /\ ev \notin Bringing
    BY DEF Portal
  <1>2. Len(evq) = 0 /\ link \in {"stopped", "idle"}
    BY <1>1 DEF Attached, TypeInv, WifiTypeOK, DriverTypeOK
  <1>3. ~LossPending
    BY <1>2 DEF LossPending
  <1>4. dhcp = "off"
    BY <1>2, <1>3 DEF Leased, Tied
  <1>5. QED
    BY <1>1, <1>2, <1>3, <1>4

LEMMA HttpdPortalInv ==
  ASSUME TypeInv, PortalInv, HttpdStep
  PROVE  PortalInv'
  <1> USE DEF mgr_vars, ap_vars
  <1>1. CASE SaveAborts
    BY <1>1, RebootPortalInv DEF SaveAborts
  <1>2. CASE ~SaveAborts
    <2>1. httpd \in {"recv", "settle", "config"}
      BY <1>2 DEF HttpdStep, SaveFails, SaveRefused, SaveConnect, SaveSettled, SaveLaunch
    <2>2. main \notin {"boot", "prescan"}
      BY <2>1 DEF PortalInv, Before
    <2>3. Before' /\ s_ap_active' = s_ap_active
      BY <1>2, <2>2 DEF HttpdStep, SaveFails, SaveRefused, SaveConnect, SaveSettled,
                        SaveLaunch, SetBits, Before
    <2>4. SUFFICES ASSUME s_ap_active, Portal, Leased, PairInv
                   PROVE  Portal' /\ Leased' /\ PairInv'
      BY <2>3 DEF PortalInv
    <2>5. main \in {"serve", "loop"}
      BY <2>4 DEF Portal
    <2>6. CASE SaveFails \/ SaveRefused
      <3>1. UNCHANGED driver_vars /\ UNCHANGED <<main, ev, s_state, s_pending, nvs>>
        BY <2>6 DEF SaveFails, SaveRefused
      <3>2. httpd = "recv" /\ httpd' = "idle"
        BY <2>6 DEF SaveFails, SaveRefused
      <3>3. Leased'
        BY <2>4, <3>1, LeasedFrame DEF driver_vars
      <3>4. Portal' /\ PairInv'
        BY <2>4, <3>1, <3>2 DEF driver_vars, Portal, PairInv, Attached, Engaged, Settling
      <3>5. QED
        BY <3>3, <3>4
    <2>7. CASE SaveConnect
      <3>1. ~Engaged /\ httpd = "recv"
        BY <2>7 DEF SaveConnect, Engaged
      <3>2. evq = <<>> /\ link \in {"stopped", "idle"} /\ ev \notin Bringing /\ dhcp = "off"
        BY <2>4, <3>1, Unengaged
      <3>3. UNCHANGED driver_vars
        BY <2>7, <3>2 DEF SaveConnect, Disconnect, driver_vars
      <3>4. /\ s_pending' = req /\ req' = req /\ httpd' = "settle"
            /\ UNCHANGED <<main, ev, s_state, nvs>>
        BY <2>7 DEF SaveConnect
      <3>5. Leased'
        BY <2>4, <3>3, <3>4, LeasedFrame DEF driver_vars
      <3>6. Portal' /\ PairInv'
        BY <2>4, <3>1, <3>2, <3>3, <3>4
           DEF driver_vars, Portal, PairInv, Attached, Engaged, Settling, Bringing
      <3>7. QED
        BY <3>5, <3>6
    <2>8. CASE SaveSettled
      <3>1. ~Engaged
        BY <2>8 DEF SaveSettled, Engaged, Settling
      <3>2. evq = <<>> /\ Len(evq) = 0 /\ link \in {"stopped", "idle"} /\ ev \notin Bringing
              /\ dhcp = "off"
        BY <2>4, <3>1, Unengaged
      <3>3. Leased' /\ Portal' /\ PairInv'
        BY <2>4, <2>8, <3>2
           DEF SaveSettled, driver_vars, Portal, PairInv, Leased, Attached, Settling, Bringing
      <3>4. QED
        BY <3>3
    <2>9. CASE SaveLaunch
      <3>1. ~Engaged /\ s_state = "CONNECTING"
        BY <2>4, <2>9 DEF SaveLaunch, Engaged, Settling, Portal
      <3>2. evq = <<>> /\ Len(evq) = 0 /\ link \in {"stopped", "idle"} /\ ev \notin Bringing
              /\ dhcp = "off"
        BY <2>4, <3>1, Unengaged
      <3>3. Leased' /\ PairInv'
        BY <2>4, <2>9, <3>2 DEF SaveLaunch, ConnectOk, ConnectErr, PairInv, Leased, Settling, Bringing
      <3>4. Portal'
        BY <2>4, <2>5, <2>9, <3>1, <3>2
           DEF SaveLaunch, ConnectOk, ConnectErr, SetBits, Portal, Attached, Engaged, Settling, Bringing
      <3>5. QED
        BY <3>3, <3>4
    <2>10. QED
      BY <1>2, <2>6, <2>7, <2>8, <2>9 DEF HttpdStep
  <1>3. QED
    BY <1>1, <1>2

LEMMA VisitorPortalInv ==
  ASSUME TypeInv, PortalInv, Visitor
  PROVE  PortalInv'
  <1> USE DEF mgr_vars, ap_vars, task_vars, driver_vars
  <1>1. /\ UNCHANGED <<main, ev, s_state, s_pending, nvs, link, sta_cfg, joined, dhcp, evq>>
        /\ httpd = "idle" /\ s_ap_active' = s_ap_active
        /\ (httpd' = "idle" /\ req' = req) \/ httpd' = "recv"
    BY DEF Visitor, Save, RootHandler, ApShutdownHandler, RebootHandler, Reachable, Schedule
  <1>2. Leased => Leased'
    BY <1>1, LeasedFrame
  <1>3. Portal /\ PairInv => Portal' /\ PairInv'
    BY <1>1 DEF Portal, PairInv, Attached, Engaged, Settling
  <1>4. QED
    BY <1>1, <1>2, <1>3 DEF PortalInv, Before

(* Posting ends nothing but, with a loss, the link.                        *)
LEMMA LinkPortalInv ==
  ASSUME TypeInv, PortalInv, RadioStep \/ Lease
  PROVE  PortalInv'
  <1> USE DEF own_vars, mgr_vars, ap_vars, task_vars
  <1>1. link \in {"trying", "assoc"} /\ (Lease => link = "assoc" /\ dhcp = "running")
    BY DEF RadioStep, Radio, Associate, AssociateFails, LinkDrop, Lease, LeaseBound
  <1>2. UNCHANGED own_vars /\ main \notin {"boot", "prescan"}
    BY <1>1 DEF RadioStep, Lease, PortalInv, Before
  <1>3. SUFFICES ASSUME s_ap_active, Portal, Leased, PairInv
                 PROVE  Portal' /\ Leased' /\ PairInv'
    BY <1>2 DEF PortalInv, Before
  <1>4. ~LossPending /\ Engaged
    BY <1>1, <1>3 DEF Portal, LossPending, IsLoss, Attached
  <1>5. PICK e \in Event :
          /\ Post(e) /\ e.type # "STA_START"
          /\ \/ e.type = "STA_CONNECTED" /\ Associate
             \/ IsLoss(e) /\ link' = "idle" /\ UNCHANGED <<dhcp, sta_cfg>>
             \/ e.type = "GOT_IP" /\ LeaseBound
    <2>1. /\ Plain("STA_CONNECTED") \in Event /\ Plain("STA_CONNECTED").type = "STA_CONNECTED"
          /\ \A r \in Reasons : /\ Disconnected(r) \in Event /\ IsLoss(Disconnected(r))
                                /\ Disconnected(r).type # "STA_START"
          /\ GotIp(joined.ssid) \in Event /\ GotIp(joined.ssid).type = "GOT_IP"
      BY EventTyping DEF EventTypes, Plain, Disconnected, GotIp, IsLoss, TypeInv, WifiTypeOK,
                         DriverTypeOK, Pair
    <2>2. CASE Lease
      BY <2>1, <2>2 DEF Lease, LeaseBound
    <2>3. CASE RadioStep
      <3>1. CASE Associate
        BY <2>1, <3>1 DEF Associate
      <3>2. ASSUME NEW r \in Reasons, AssociateFails(r) \/ LinkDrop(r)
            PROVE  Post(Disconnected(r)) /\ link' = "idle" /\ UNCHANGED <<dhcp, sta_cfg>>
        BY <3>2 DEF AssociateFails, LinkDrop, Lose
      <3>3. QED
        BY <2>1, <2>3, <3>1, <3>2 DEF RadioStep, Radio
    <2>4. QED
      BY <2>2, <2>3
  <1>6. /\ evq' # <<>> /\ (LossPending' <=> IsLoss(e))
        /\ \A i \in 1..Len(evq') :
             (evq'[i] = e /\ i = Len(evq')) \/ (i \in 1..Len(evq) /\ evq'[i] = evq[i])
        /\ GotIpPending' <=> GotIpPending \/ e.type = "GOT_IP"
    BY <1>4, <1>5, PostPortal
  <1>7. ~IsLoss(e) => link' = "assoc"
    BY <1>1, <1>5 DEF Associate, LeaseBound
  <1>8. Engaged'
    BY <1>2, <1>4 DEF Engaged, Settling
  <1>9. \A i \in 1..Len(evq') : /\ IsLoss(evq'[i]) => i = Len(evq') /\ link' = "idle"
                                /\ evq'[i].type # "STA_START"
    <2>1. \A i \in 1..Len(evq) : ~IsLoss(evq[i]) /\ evq[i].type # "STA_START"
      BY <1>3, <1>4 DEF Portal, LossPending, IsLoss
    <2>2. QED
      BY <1>5, <1>6, <2>1 DEF IsLoss
  <1>10. Portal'
    BY <1>2, <1>3, <1>8, <1>9 DEF Portal
  <1>11. Tied'
    BY <1>6, <1>7 DEF Tied
  <1>12. dhcp' = "bound" => LossPending' \/ GotIpPending'
    <2>1. dhcp = "bound" => link = "assoc"
      BY <1>3, <1>4 DEF Leased, Tied
    <2>2. Associate => dhcp' # "bound"
      BY <2>1 DEF Associate
    <2>3. QED
      BY <1>5, <1>6, <2>2
  <1>13. PairInv'
    BY <1>2, <1>3, <1>5, <1>7 DEF Associate, LeaseBound, PairInv, Settling
  <1>14. QED
    BY <1>10, <1>11, <1>12, <1>13 DEF Leased

LEMMA NextPortalInv == TypeInv /\ PortalInv /\ [Next]_vars => PortalInv'
  <1> SUFFICES ASSUME TypeInv, PortalInv, [Next]_vars PROVE PortalInv'
    OBVIOUS
  <1>1. CASE ShutdownTask \/ DnsTask \/ UNCHANGED vars
    <2>1. /\ UNCHANGED <<main, ev, s_state, s_pending, nvs, link, sta_cfg, joined, dhcp, evq,
                         httpd, req>>
          /\ s_ap_active' => s_ap_active
      BY <1>1 DEF ShutdownTask, ShutdownStep, ShutdownCheck, ShutdownClearFlag,
                  ShutdownCallback, ShutdownDone, ShutdownSetMode, DnsTask, DnsExit,
                  vars, driver_vars, ap_vars, mgr_vars, task_vars
    <2>2. Leased => Leased'
      BY <2>1, LeasedFrame
    <2>3. Portal /\ PairInv => Portal' /\ PairInv'
      BY <2>1 DEF Portal, PairInv, Attached, Engaged, Settling
    <2>4. Before => Before'
      BY <1>1, <2>1 DEF Before, PortalInv, ShutdownTask, ShutdownStep
    <2>5. QED
      BY <2>1, <2>2, <2>3, <2>4 DEF PortalInv
  <1>2. CASE DelayedReboot \/ PowerLoss
    BY <1>2, RebootPortalInv DEF DelayedReboot, PowerLoss
  <1>3. QED
    BY <1>1, <1>2, MainPortalInv, EventPortalInv, HttpdPortalInv, VisitorPortalInv, LinkPortalInv
       DEF Next, Device, Environment

(* A station with an address whose events are all handled is CONNECTED.    *)
THEOREM WifiLinkIsKnown == Spec => []LinkIsKnown
  <1>1. TypeInv /\ PortalInv => LinkIsKnown
    <2>1. SUFFICES ASSUME PortalInv, s_ap_active, link = "assoc", dhcp = "bound",
                          evq = <<>>, ev = "idle"
                   PROVE  s_state = "CONNECTED"
      BY DEF LinkIsKnown
    <2>2. Len(evq) = 0
      BY <2>1
    <2>3. QED
      BY <2>1, <2>2 DEF PortalInv, Leased, LossPending, GotIpPending, Bringing
  <1>2. QED
    BY <1>1, InitTypeInv, NextTypeInv, InitPortalInv, NextPortalInv, PTL DEF Spec

(* A /save that waited for its body finds nothing to tear down.            *)
THEOREM WifiSaveSparesLink == Spec => SaveSparesWorkingLink
  <1>1. TypeInv /\ PortalInv /\ [Next]_vars =>
          (s_ap_active /\ httpd = "recv" /\ httpd' = "settle"
             => ~(link = "assoc" /\ dhcp = "bound"))
    <2>1. SUFFICES ASSUME TypeInv, PortalInv, [Next]_vars, s_ap_active, httpd = "recv",
                          httpd' = "settle"
                   PROVE  link # "assoc"
      OBVIOUS
    <2>2. SaveConnect
      <3> USE DEF vars, mgr_vars, task_vars, ap_vars, own_vars, Reboot
      <3>1. ~MainStep
        BY <2>1 DEF MainStep, BootProvision, BootAp, BootSta, BootTimeout, GiveUp, Restart,
                    Serve, ReconnectCheck, ReconnectSet, ReconnectConnect
      <3>2. ~EventStep
        BY <2>1 DEF EventStep, OnStaStart, OnStaConnected, OnGotIp, OnDisconnectedRetry,
                    OnDisconnectedFinal, OnDisconnectedElse, FailClearPending, FailClearNvs,
                    SaveSsid, SavePass, Saved, Up
      <3>3. ~Visitor /\ ~RadioStep /\ ~Lease /\ ~ShutdownTask /\ ~DnsTask /\ ~DelayedReboot
              /\ ~PowerLoss
        BY <2>1 DEF Visitor, Save, RootHandler, ApShutdownHandler, RebootHandler, Reachable,
                    RadioStep, Lease, ShutdownTask, DnsTask, DelayedReboot, PowerLoss
      <3>4. QED
        BY <2>1, <3>1, <3>2, <3>3 DEF Next, Device, Environment, HttpdStep, SaveFails,
                    SaveRefused, SaveSettled, SaveAborts, SaveLaunch
    <2>3. ~Engaged
      BY <2>2 DEF SaveConnect, Engaged
    <2>4. QED
      BY <2>1, <2>3, Unengaged DEF PortalInv
  <1>2. QED
    BY <1>1, InitTypeInv, NextTypeInv, InitPortalInv, NextPortalInv, PTL
       DEF Spec, SaveSparesWorkingLink

(* A key that a save changes becomes that of the association that stands,  *)
(* whether the write of the other key fails or not.                        *)
THEOREM WifiSavedPairIsJoined == Spec => SavedPairIsJoined
  <1> DEFINE P == \A k \in {"ssid", "pass"} :
                    /\ s_ap_active /\ ev \in {"nvs_ssid", "nvs_pass"} /\ link = "assoc"
                    /\ nvs'[k] # nvs[k]
                    => nvs'[k] = joined[k]
  <1>1. TypeInv /\ PortalInv /\ [Next]_vars => P
    <2>1. SUFFICES ASSUME TypeInv, PortalInv, [Next]_vars,
                          NEW k \in {"ssid", "pass"}, s_ap_active,
                          ev \in {"nvs_ssid", "nvs_pass"}, nvs'[k] # nvs[k], link = "assoc"
                   PROVE  nvs'[k] = joined[k]
      OBVIOUS
    <2>2. SaveSsid \/ SavePass
      <3> USE DEF vars, mgr_vars, task_vars, ap_vars, own_vars, Reboot, hist_vars
      <3>1. ~MainStep
        BY <2>1 DEF MainStep, BootProvision, BootAp, BootSta, BootTimeout, GiveUp, Restart,
                    Serve, ReconnectCheck, ReconnectSet, ReconnectConnect, PortalInv, Portal
      <3>2. ~HttpdStep
        BY <2>1 DEF HttpdStep, SaveFails, SaveRefused, SaveConnect, SaveSettled, SaveAborts,
                    SaveLaunch
      <3>3. ~Visitor /\ ~RadioStep /\ ~Lease /\ ~ShutdownTask /\ ~DnsTask /\ ~DelayedReboot
              /\ ~PowerLoss
        BY <2>1 DEF Visitor, Save, RootHandler, ApShutdownHandler, RebootHandler,
                    RadioStep, Lease, ShutdownTask, DnsTask, DelayedReboot, PowerLoss
      <3>4. QED
        BY <2>1, <3>1, <3>2, <3>3 DEF Next, Device, Environment, EventStep, OnStaStart,
                    OnStaConnected, OnGotIp, OnDisconnectedRetry, OnDisconnectedFinal,
                    OnDisconnectedElse, Take, FailClearPending, FailClearNvs, Saved, Up
    <2>3. s_pending = joined
      BY <2>1 DEF PortalInv, Portal, PairInv, Engaged, Bringing
    <2>4. nvs \in Pair
      BY <2>1 DEF TypeInv, WifiTypeOK, MgrTypeOK
    <2>5. CASE SaveSsid
      <3>1. nvs' = [nvs EXCEPT !["ssid"] = s_pending.ssid]
        BY <2>1, <2>5 DEF SaveSsid, NvsSet
      <3>2. QED
        BY <2>1, <2>3, <2>4, <3>1 DEF Pair
    <2>6. CASE SavePass
      <3>1. nvs' = [nvs EXCEPT !["pass"] = s_pending.pass]
        BY <2>1, <2>6 DEF SavePass, NvsSet
      <3>2. QED
        BY <2>1, <2>3, <2>4, <3>1 DEF Pair
    <2>7. QED
      BY <2>2, <2>5, <2>6
  <1>2. QED
    BY <1>1, InitTypeInv, NextTypeInv, InitPortalInv, NextPortalInv, PTL
       DEF Spec, SavedPairIsJoined

=============================================================================
