--------------------------- MODULE WifiLinkProofs ---------------------------
(***************************************************************************)
(* What the state CONNECTED says about the link, and what is staged then.  *)
(*                                                                         *)
(* ConnectedIsLinked and AddressIsOfLink speak of the moment CONNECTED is  *)
(* shown.  What makes them inductive is the road there: an address event   *)
(* in the queue, or in the hands of wifi_event_handler, is about the       *)
(* association that stands unless the event of its loss is queued behind   *)
(* it.  No timing assumption is used: the invariant holds however slow the *)
(* event task is.                                                          *)
(***************************************************************************)
EXTENDS WifiManagerProofs

IsLoss(e)       == e.type = "STA_DISCONNECTED"
LossAfter(q, i) == \E j \in 1..Len(q) : i < j /\ IsLoss(q[j])
Current(n)      == link = "assoc" /\ joined.ssid = n
Bringing        == {"nvs_ssid", "nvs_pass", "saved", "up"}

QueueInv == \A i \in 1..Len(evq) :
              evq[i].type = "GOT_IP" => LossAfter(evq, i) \/ Current(evq[i].net)

LinkInv ==
  /\ s_state = "CONNECTED" => LossPending \/ Current(s_ip)
  /\ ev \in Bringing => LossPending \/ Current(s_ip)
  /\ QueueInv
  /\ main = "boot" => link = "stopped"

(* The association named by Current is not replaced by another one.        *)
Kept == link = "assoc" => link' = "assoc" /\ joined' = joined
----------------------------------------------------------------------------
(* Appending an event: a loss covers every address before it, an address   *)
(* must be that of the association.                                        *)
LEMMA AppendQueue ==
  ASSUME evq \in Seq(Event), QueueInv, NEW e \in Event, evq' = Append(evq, e),
         IsLoss(e) \/ (Kept /\ (e.type = "GOT_IP" => Current(e.net)'))
  PROVE  /\ QueueInv'
         /\ IsLoss(e) => LossPending'
         /\ LossPending => LossPending'
  <1>1. Len(evq') = Len(evq) + 1 /\ evq'[Len(evq) + 1] = e
        /\ \A i \in 1..Len(evq) : evq'[i] = evq[i]
    OBVIOUS
  <1>2. IsLoss(e) => LossPending'
    BY <1>1 DEF IsLoss, LossPending
  <1>3. LossPending => LossPending'
    BY <1>1 DEF LossPending
  <1>4. ASSUME NEW i \in 1..Len(evq'), evq'[i].type = "GOT_IP"
        PROVE  LossAfter(evq, i)' \/ Current(evq[i].net)'
    <2>1. CASE IsLoss(e) /\ i \in 1..Len(evq)
      BY <1>1, <2>1 DEF LossAfter
    <2>a. CASE IsLoss(e) /\ i = Len(evq) + 1
      BY <1>1, <1>4, <2>a DEF IsLoss
    <2>2. CASE ~IsLoss(e) /\ i = Len(evq) + 1
      BY <1>1, <1>4, <2>2 DEF Current
    <2>3. CASE ~IsLoss(e) /\ i \in 1..Len(evq)
      <3>1. LossAfter(evq, i) \/ Current(evq[i].net)
        BY <1>1, <1>4, <2>3 DEF QueueInv
      <3>2. LossAfter(evq, i) => LossAfter(evq, i)'
        BY <1>1 DEF LossAfter
      <3>3. QED
        BY <1>1, <2>3, <3>1, <3>2 DEF Current, Kept
    <2>4. QED
      BY <1>1, <2>1, <2>a, <2>2, <2>3
  <1>5. QED
    BY <1>2, <1>3, <1>4 DEF QueueInv

(* Taking the head: what was behind it stays behind.                       *)
LEMMA TailQueue ==
  ASSUME evq \in Seq(Event), QueueInv, evq # <<>>, evq' = Tail(evq), Kept
  PROVE  /\ QueueInv'
         /\ ~IsLoss(Head(evq)) /\ LossPending => LossPending'
         /\ Head(evq).type = "GOT_IP" => LossPending' \/ Current(Head(evq).net)
  <1>1. Len(evq') = Len(evq) - 1 /\ Head(evq) = evq[1] /\ Len(evq) \in Nat \ {0}
        /\ \A i \in 1..Len(evq') : evq'[i] = evq[i + 1]
    OBVIOUS
  <1>2. ASSUME NEW i \in 1..Len(evq), LossAfter(evq, i)
        PROVE  LossPending' /\ LossAfter(evq, i - 1)'
    <2>1. PICK j \in 1..Len(evq) : i < j /\ IsLoss(evq[j])
      BY <1>2 DEF LossAfter
    <2>2. j - 1 \in 1..Len(evq') /\ evq'[j - 1] = evq[j] /\ i - 1 < j - 1
      BY <1>1, <2>1
    <2>3. QED
      BY <2>1, <2>2 DEF LossPending, LossAfter, IsLoss
  <1>3. QueueInv'
    <2>1. ASSUME NEW i \in 1..Len(evq'), evq'[i].type = "GOT_IP"
          PROVE  LossAfter(evq, i)' \/ Current(evq[i].net)'
      <3>1. i + 1 \in 1..Len(evq) /\ evq'[i] = evq[i + 1] /\ (i + 1) - 1 = i
        BY <1>1
      <3>2. LossAfter(evq, i + 1) \/ Current(evq[i + 1].net)
        BY <2>1, <3>1 DEF QueueInv
      <3>3. LossAfter(evq, i + 1) => LossAfter(evq, i)'
        BY <1>2, <3>1
      <3>4. QED
        BY <3>1, <3>2, <3>3 DEF Current, Kept
    <2>2. QED
      BY <2>1 DEF QueueInv
  <1>4. ASSUME ~IsLoss(Head(evq)), LossPending PROVE LossPending'
    <2>1. PICK j \in 1..Len(evq) : IsLoss(evq[j])
      BY <1>4 DEF LossPending, IsLoss
    <2>2. j # 1
      BY <1>1, <1>4, <2>1
    <2>3. j - 1 \in 1..Len(evq') /\ evq'[j - 1] = evq[j]
      BY <1>1, <2>1, <2>2
    <2>4. QED
      BY <2>1, <2>3 DEF LossPending, IsLoss
  <1>5. ASSUME Head(evq).type = "GOT_IP" PROVE LossPending' \/ Current(Head(evq).net)
    <2>1. 1 \in 1..Len(evq)
      BY <1>1
    <2>2. LossAfter(evq, 1) \/ Current(evq[1].net)
      BY <1>1, <1>5, <2>1 DEF QueueInv
    <2>3. QED
      BY <1>1, <1>2, <2>1, <2>2
  <1>6. QED
    BY <1>3, <1>4, <1>5
----------------------------------------------------------------------------
LEMMA InitLinkInv == Init => LinkInv
  <1> SUFFICES ASSUME Init PROVE LinkInv
    OBVIOUS
  <1>1. Len(evq) = 0
    BY DEF Init, DriverInit
  <1>2. QueueInv
    BY <1>1 DEF QueueInv
  <1>3. QED
    BY <1>2 DEF Init, DriverInit, LinkInv, Bringing

LEMMA RebootLinkInv == Reboot => LinkInv'
  <1> SUFFICES ASSUME Reboot PROVE LinkInv'
    OBVIOUS
  <1>1. Len(evq') = 0
    BY DEF Reboot, DriverReset
  <1>2. QueueInv'
    BY <1>1 DEF QueueInv
  <1>3. QED
    BY <1>2 DEF Reboot, DriverReset, LinkInv, Bringing

(* Steps that neither take nor post an event.                              *)
LEMMA QuietLinkInv ==
  ASSUME LinkInv, evq' = evq, s_ip' = s_ip, Kept,
         s_state' = "CONNECTED" => s_state = "CONNECTED" \/ ev \in Bringing,
         ev' \in Bringing => ev \in Bringing,
         main' = "boot" => link' = "stopped"
  PROVE  LinkInv'
  <1>1. LossPending' <=> LossPending
    BY DEF LossPending
  <1>2. \A n : Current(n) => Current(n)'
    BY DEF Current, Kept
  <1>3. QueueInv'
    BY <1>2 DEF LinkInv, QueueInv, LossAfter
  <1>4. QED
    BY <1>1, <1>2, <1>3 DEF LinkInv

(* Steps that post one: a loss, or something else that keeps the link.     *)
LEMMA PostLinkInv ==
  ASSUME LinkInv, evq \in Seq(Event), NEW e \in Event, Post(e), s_ip' = s_ip, ev' = ev,
         s_state' = "CONNECTED" => s_state = "CONNECTED",
         IsLoss(e) \/ (Kept /\ (e.type = "GOT_IP" => Current(e.net)')),
         main' = "boot" => link' = "stopped"
  PROVE  LinkInv'
  <1>1. /\ QueueInv'
        /\ IsLoss(e) => LossPending'
        /\ LossPending => LossPending'
    BY AppendQueue DEF Post, LinkInv
  <1>2. ~IsLoss(e) => (Current(s_ip) => Current(s_ip)')
    BY DEF Current, Kept
  <1>3. QED
    BY <1>1, <1>2 DEF LinkInv

LEMMA TakeQueue ==
  ASSUME TypeInv, LinkInv, NEW e \in Event, Take(e), Kept
  PROVE  /\ ev \notin Bringing
         /\ QueueInv'
         /\ ~IsLoss(e) /\ LossPending => LossPending'
         /\ e.type = "GOT_IP" => LossPending' \/ Current(e.net)
  BY TailQueue DEF Take, LinkInv, TypeInv, WifiTypeOK, DriverTypeOK, Bringing
----------------------------------------------------------------------------
LEMMA MainLinkInv ==
  ASSUME TypeInv, LinkInv, MainStep
  PROVE  LinkInv'
  <1> USE DEF driver_vars, mgr_vars, Bringing
  <1>0. evq \in Seq(Event) /\ Plain("STA_START") \in Event
    BY EventTyping DEF TypeInv, WifiTypeOK, DriverTypeOK, EventTypes
  <1>1. CASE BootProvision
    BY <1>0, <1>1, PostLinkInv DEF BootProvision, Plain, IsLoss, Kept, LinkInv
  <1>2. CASE BootAp
    BY <1>2, QuietLinkInv DEF BootAp, Kept
  <1>3. CASE BootSta
    BY <1>0, <1>3, PostLinkInv DEF BootSta, Plain, IsLoss, Kept, LinkInv
  <1>4. CASE BootTimeout
    BY <1>4, QuietLinkInv DEF BootTimeout, Kept
  <1>5. CASE GiveUp
    BY <1>5, QuietLinkInv DEF GiveUp, Kept
  <1>6. CASE Restart
    BY <1>6, RebootLinkInv DEF Restart
  <1>7. CASE Serve
    BY <1>7, QuietLinkInv DEF Serve, Kept
  <1>8. CASE ReconnectCheck
    BY <1>8, QuietLinkInv DEF ReconnectCheck, Kept
  <1>9. CASE ReconnectSet
    BY <1>9, QuietLinkInv DEF ReconnectSet, Kept
  <1>10. CASE ReconnectConnect
    BY <1>10, QuietLinkInv DEF ReconnectConnect, ConnectOk, ConnectErr, Kept
  <1>11. QED
    BY <1>1, <1>2, <1>3, <1>4, <1>5, <1>6, <1>7, <1>8, <1>9, <1>10 DEF MainStep

LEMMA EventLinkInv ==
  ASSUME TypeInv, LinkInv, EventStep
  PROVE  LinkInv'
  <1> USE DEF driver_vars, mgr_vars, task_vars, Bringing
  <1>0. /\ Plain("STA_START") \in Event /\ Plain("STA_CONNECTED") \in Event
        /\ \A r \in Reasons : Disconnected(r) \in Event
        /\ \A c \in Creds : GotIp(c) \in Event
    BY EventTyping DEF EventTypes
  <1>1. CASE OnStaStart
    <2>1. Kept /\ Take(Plain("STA_START"))
      BY <1>1 DEF OnStaStart, ConnectOk, ConnectErr, Kept
    <2>2. QueueInv' /\ (LossPending => LossPending')
      BY <1>0, <2>1, TakeQueue DEF Plain, IsLoss
    <2>3. main' = "boot" => link' = "stopped"
      BY <1>1 DEF OnStaStart, ConnectOk, ConnectErr, LinkInv
    <2>4. QED
      BY <1>1, <2>1, <2>2, <2>3 DEF OnStaStart, LinkInv, Current, Kept
  <1>2. CASE OnStaConnected
    <2>1. Kept /\ Take(Plain("STA_CONNECTED"))
      BY <1>2 DEF OnStaConnected, Kept
    <2>2. QueueInv' /\ (LossPending => LossPending')
      BY <1>0, <2>1, TakeQueue DEF Plain, IsLoss
    <2>3. QED
      BY <1>2, <2>1, <2>2 DEF OnStaConnected, LinkInv, Current, Kept
  <1>3. CASE OnGotIp
    <2>1. PICK c \in Creds : Take(GotIp(c)) /\ s_ip' = c
      BY <1>3 DEF OnGotIp
    <2>2. Kept
      BY <1>3 DEF OnGotIp, Kept
    <2>3. QueueInv' /\ (LossPending' \/ Current(c))
      BY <1>0, <2>1, <2>2, TakeQueue DEF GotIp
    <2>4. LossPending' \/ Current(s_ip)'
      BY <2>1, <2>2, <2>3 DEF Current, Kept
    <2>5. QED
      BY <1>3, <2>3, <2>4 DEF OnGotIp, LinkInv
  <1>4. CASE OnDisconnectedRetry
    <2>1. PICK r \in Reasons : Take(Disconnected(r))
      BY <1>4 DEF OnDisconnectedRetry
    <2>2. Kept
      BY <1>4 DEF OnDisconnectedRetry, ConnectOk, ConnectErr, Kept
    <2>3. QueueInv' /\ ev \notin Bringing
      BY <1>0, <2>1, <2>2, TakeQueue
    <2>4. main' = "boot" => link' = "stopped"
      BY <1>4 DEF OnDisconnectedRetry, ConnectOk, ConnectErr, LinkInv
    <2>5. QED
      BY <1>4, <2>3, <2>4 DEF OnDisconnectedRetry, LinkInv
  <1>5. CASE OnDisconnectedFinal
    <2>1. PICK r \in Reasons : Take(Disconnected(r))
      BY <1>5 DEF OnDisconnectedFinal
    <2>2. QueueInv'
      BY <1>0, <1>5, <2>1, TakeQueue DEF OnDisconnectedFinal, Kept
    <2>3. QED
      BY <1>5, <2>2 DEF OnDisconnectedFinal, LinkInv, SetBits
  <1>6. CASE OnDisconnectedElse
    <2>1. PICK r \in Reasons : Take(Disconnected(r))
      BY <1>6 DEF OnDisconnectedElse
    <2>2. QueueInv' /\ ev \notin Bringing
      BY <1>0, <1>6, <2>1, TakeQueue DEF OnDisconnectedElse, Kept
    <2>3. QED
      BY <1>6, <2>2 DEF OnDisconnectedElse, LinkInv
  <1>7. CASE FailClearPending
    BY <1>7, QuietLinkInv DEF FailClearPending, Kept, LinkInv
  <1>8. CASE FailClearNvs
    BY <1>8, QuietLinkInv DEF FailClearNvs, Kept, LinkInv
  <1>9. CASE SaveSsid
    BY <1>9, QuietLinkInv DEF SaveSsid, Kept, LinkInv
  <1>10. CASE SavePass
    BY <1>10, QuietLinkInv DEF SavePass, Kept, LinkInv
  <1>11. CASE Saved
    BY <1>11, QuietLinkInv DEF Saved, Kept, LinkInv
  <1>12. CASE Up
    BY <1>12, QuietLinkInv DEF Up, SetBits, Kept, LinkInv
  <1>13. QED
    BY <1>1, <1>2, <1>3, <1>4, <1>5, <1>6, <1>7, <1>8, <1>9, <1>10, <1>11, <1>12
       DEF EventStep

LEMMA HttpdLinkInv ==
  ASSUME TypeInv, LinkInv, HttpdStep
  PROVE  LinkInv'
  <1> USE DEF driver_vars, mgr_vars, Bringing
  <1>1. CASE SaveFails
    BY <1>1, QuietLinkInv DEF SaveFails, Kept, LinkInv
  <1>2. CASE SaveConnect
    <2>1. CASE link \in {"trying", "assoc"}
      <3>1. Disconnected("other") \in Event /\ IsLoss(Disconnected("other"))
            /\ evq \in Seq(Event)
        BY EventTyping DEF Reasons, Disconnected, IsLoss, TypeInv, WifiTypeOK, DriverTypeOK
      <3>2. Post(Disconnected("other"))
        BY <1>2, <2>1 DEF SaveConnect, Disconnect
      <3>3. main' # "boot"
        BY <1>2, <2>1 DEF SaveConnect, LinkInv
      <3>4. QED
        BY <1>2, <3>1, <3>2, <3>3, PostLinkInv DEF SaveConnect
    <2>2. CASE link \notin {"trying", "assoc"}
      BY <1>2, <2>2, QuietLinkInv DEF SaveConnect, Disconnect, Kept, LinkInv
    <2>3. QED
      BY <2>1, <2>2
  <1>3. CASE SaveRefused
    BY <1>3, QuietLinkInv DEF SaveRefused, Kept, LinkInv
  <1>4. CASE SaveSettled
    BY <1>4, QuietLinkInv DEF SaveSettled, Kept, LinkInv
  <1>5. CASE SaveAborts
    BY <1>5, RebootLinkInv DEF SaveAborts
  <1>6. CASE SaveLaunch
    BY <1>6, QuietLinkInv DEF SaveLaunch, SetBits, ConnectOk, ConnectErr, Kept, LinkInv
  <1>7. QED
    BY <1>1, <1>2, <1>3, <1>4, <1>5, <1>6 DEF HttpdStep

LEMMA RadioLinkInv ==
  ASSUME TypeInv, LinkInv, RadioStep \/ Lease
  PROVE  LinkInv'
  <1> USE DEF own_vars, mgr_vars, task_vars
  <1>0. evq \in Seq(Event) /\ joined.ssid \in Creds \cup {NoCred}
    BY DEF TypeInv, WifiTypeOK, DriverTypeOK, Pair
  <1>1. s_ip' = s_ip /\ ev' = ev /\ s_state' = s_state /\ main' = main
    BY DEF RadioStep, Lease
  <1>2. CASE Associate
    <2>1. Plain("STA_CONNECTED") \in Event
      BY EventTyping DEF EventTypes
    <2>2. QED
      BY <1>0, <1>1, <1>2, <2>1, PostLinkInv DEF Associate, Kept, Plain, LinkInv
  <1>3. ASSUME NEW r \in Reasons, AssociateFails(r) \/ LinkDrop(r) PROVE LinkInv'
    <2>1. Disconnected(r) \in Event /\ IsLoss(Disconnected(r))
      BY EventTyping DEF Disconnected, IsLoss
    <2>2. Post(Disconnected(r)) /\ main # "boot"
      BY <1>3 DEF AssociateFails, LinkDrop, LinkInv
    <2>3. QED
      BY <1>0, <1>1, <2>1, <2>2, PostLinkInv
  <1>4. CASE LeaseBound
    <2>1. GotIp(joined.ssid) \in Event /\ GotIp(joined.ssid).net = joined.ssid
      BY <1>0, EventTyping DEF GotIp
    <2>2. Current(joined.ssid)'
      BY <1>4 DEF LeaseBound, Current
    <2>3. Current(GotIp(joined.ssid).net)'
      BY <1>4, <2>1, <2>2 DEF LeaseBound, Current
    <2>4. QED
      BY <1>0, <1>1, <1>4, <2>1, <2>3, PostLinkInv DEF LeaseBound, Kept, LinkInv
  <1>5. QED
    BY <1>2, <1>3, <1>4 DEF RadioStep, Radio, Lease

LEMMA NextLinkInv == TypeInv /\ LinkInv /\ [Next]_vars => LinkInv'
  <1> SUFFICES ASSUME TypeInv, LinkInv, [Next]_vars PROVE LinkInv'
    OBVIOUS
  <1>1. CASE Visitor
    <2>1. UNCHANGED <<driver_vars, s_state, s_ip, ev, main>>
      BY <1>1 DEF Visitor, Save, RootHandler, ApShutdownHandler, RebootHandler,
                  mgr_vars, task_vars
    <2>2. QED
      BY <2>1, QuietLinkInv DEF driver_vars, Kept, LinkInv
  <1>2. CASE ShutdownTask
    <2>1. UNCHANGED <<link, joined, evq, s_state, s_ip, ev, main>>
      BY <1>2 DEF ShutdownTask, ShutdownStep, driver_vars, mgr_vars, task_vars
    <2>2. QED
      BY <2>1, QuietLinkInv DEF Kept, LinkInv
  <1>3. CASE DnsTask \/ UNCHANGED vars
    <2>1. UNCHANGED <<link, joined, evq, s_state, s_ip, ev, main>>
      BY <1>3 DEF DnsTask, vars, driver_vars, mgr_vars, task_vars
    <2>2. QED
      BY <2>1, QuietLinkInv DEF Kept, LinkInv
  <1>4. CASE DelayedReboot \/ PowerLoss
    BY <1>4, RebootLinkInv DEF DelayedReboot, PowerLoss
  <1>5. QED
    BY <1>1, <1>2, <1>3, <1>4, MainLinkInv, EventLinkInv, HttpdLinkInv, RadioLinkInv
       DEF Next, Device, Environment

(* CONNECTED is shown only with an association, or with the event of its   *)
(* loss queued.                                                            *)
THEOREM WifiConnectedIsLinked == Spec => []ConnectedIsLinked
  <1>1. LinkInv => ConnectedIsLinked
    BY DEF LinkInv, ConnectedIsLinked, Current
  <1>2. QED
    BY <1>1, InitTypeInv, NextTypeInv, InitLinkInv, NextLinkInv, PTL DEF Spec

(* The address shown is that of the network the station is in.             *)
THEOREM WifiAddressIsOfLink == Spec => []AddressIsOfLink
  <1>1. LinkInv => AddressIsOfLink
    BY DEF LinkInv, AddressIsOfLink, Current
  <1>2. QED
    BY <1>1, InitTypeInv, NextTypeInv, InitLinkInv, NextLinkInv, PTL DEF Spec
=============================================================================
