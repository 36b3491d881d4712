----------------------------- MODULE WifiDriver -----------------------------
(***************************************************************************)
(* What wifi_manager.c needs of ESP-IDF: the station half of the Wi-Fi     *)
(* driver, the DHCP client of the station netif and the default event      *)
(* loop that carries their events.  The code is not under src/; it is      *)
(* modelled from how src/src/wifi_manager.c calls it and from which events *)
(* its handler distinguishes.                                              *)
(*                                                                         *)
(* A pair of strings (SSID, password) is a record; the names in Creds      *)
(* stand for networks, and the password of network c is c again, so that   *)
(* a record whose two fields differ is a pair that belongs to no network.  *)
(***************************************************************************)
EXTENDS Naturals, Sequences

CONSTANTS
  Creds,            \* the networks a user may choose
  NoCred,           \* the empty string, or an absent NVS key
  MaxEvents,        \* bound: events waiting in the default event loop
  MaxFaults,        \* bound: failures of the radio, calls and the power supply
  ConnectMayFail    \* esp_wifi_connect() may refuse a call it could serve

ASSUME DriverAssumption ==
  /\ NoCred \notin Creds
  /\ MaxEvents \in Nat \ {0}
  /\ MaxFaults \in Nat
  /\ ConnectMayFail \in BOOLEAN

VARIABLES
  mode,      \* "NULL", "STA" or "APSTA"
  link,      \* the station: "stopped", "idle", "trying" or "assoc"
  sta_cfg,   \* the configuration of WIFI_IF_STA
  joined,    \* the configuration of the association that stands
  dhcp,      \* the DHCP client: "off", "running" or "bound"
  evq,       \* the default event loop's queue
  faults     \* failures so far

driver_vars == <<mode, link, sta_cfg, joined, dhcp, evq, faults>>

Pair    == [ssid : Creds \cup {NoCred}, pass : Creds \cup {NoCred}]
Empty   == [ssid |-> NoCred, pass |-> NoCred]
Of(c)   == [ssid |-> c, pass |-> c]
(* The disconnect reasons the handler tells apart.                         *)
Reasons == {"auth", "other"}

Plain(t)        == [type |-> t, reason |-> "other", net |-> NoCred]
Disconnected(r) == [type |-> "STA_DISCONNECTED", reason |-> r, net |-> NoCred]
GotIp(c)        == [type |-> "GOT_IP", reason |-> "other", net |-> c]
EventTypes      == {"STA_START", "STA_CONNECTED", "STA_DISCONNECTED", "GOT_IP"}
Event           == [type : EventTypes, reason : Reasons, net : Creds \cup {NoCred}]

DriverTypeOK ==
  /\ mode \in {"NULL", "STA", "APSTA"}
  /\ link \in {"stopped", "idle", "trying", "assoc"}
  /\ sta_cfg \in Pair
  /\ joined \in Pair
  /\ dhcp \in {"off", "running", "bound"}
  /\ evq \in Seq(Event) /\ Len(evq) <= MaxEvents
  /\ faults \in 0..MaxFaults

DriverInit ==
  /\ mode = "NULL"
  /\ link = "stopped"
  /\ sta_cfg = Empty
  /\ joined = Empty
  /\ dhcp = "off"
  /\ evq = <<>>

(* A restart of the chip.                                                  *)
DriverReset ==
  /\ mode' = "NULL"
  /\ link' = "stopped"
  /\ sta_cfg' = Empty
  /\ joined' = Empty
  /\ dhcp' = "off"
  /\ evq' = <<>>

Room    == Len(evq) < MaxEvents
Post(e) == Room /\ evq' = Append(evq, e)
Fault   == faults < MaxFaults /\ faults' = faults + 1
----------------------------------------------------------------------------
(* Calls.  Each fixes link and sta_cfg, faults and its result only.        *)

(* esp_wifi_connect() serves a station that is idle; while one attempt is  *)
(* under way or an association stands it returns an error.                 *)
ConnectOk  == link = "idle" /\ link' = "trying" /\ UNCHANGED faults
ConnectErr == /\ UNCHANGED link
              /\ \/ link # "idle" /\ UNCHANGED faults
                 \/ link = "idle" /\ ConnectMayFail /\ Fault

(* esp_wifi_set_config() is refused while the station is connecting.       *)
ConfigAccepted == link # "trying"

Lose == link' = "idle" /\ joined' = Empty

(* esp_wifi_disconnect() gives up an attempt or an association and posts   *)
(* the event; on an idle station it does nothing.                          *)
Disconnect ==
  IF link \in {"trying", "assoc"}
    THEN Lose /\ Post(Disconnected("other"))
    ELSE UNCHANGED <<link, joined, evq>>

(* The default handlers of esp_netif, which run before the application's:  *)
(* they start the DHCP client on association and stop it on the loss.      *)
DhcpOnEvent(e) ==
  dhcp' = CASE e.type = "STA_CONNECTED"    -> "running"
            [] e.type = "STA_DISCONNECTED" -> "off"
            [] OTHER                       -> dhcp
----------------------------------------------------------------------------
(* The environment: what the radio, the access point and the DHCP server   *)
(* do on their own.                                                        *)

Associate ==
  /\ link = "trying"
  /\ sta_cfg.ssid \in Creds /\ sta_cfg.pass = sta_cfg.ssid
  /\ link' = "assoc"
  /\ joined' = sta_cfg
  /\ Post(Plain("STA_CONNECTED"))
  /\ UNCHANGED <<mode, sta_cfg, dhcp, faults>>

(* A wrong pair always fails; a right one may (out of range, handshake     *)
(* timeout), which counts as a fault.                                      *)
AssociateFails(r) ==
  /\ link = "trying"
  /\ IF sta_cfg.ssid \in Creds /\ sta_cfg.pass = sta_cfg.ssid
       THEN Fault
       ELSE UNCHANGED faults
  /\ Lose
  /\ Post(Disconnected(r))
  /\ UNCHANGED <<mode, sta_cfg, dhcp>>

LinkDrop(r) ==
  /\ link = "assoc"
  /\ Fault
  /\ Lose
  /\ Post(Disconnected(r))
  /\ UNCHANGED <<mode, sta_cfg, dhcp>>

LossPending == \E i \in 1..Len(evq) : evq[i].type = "STA_DISCONNECTED"

(* The TCP/IP task reports a lease for the association that stands.        *)
LeaseBound ==
  /\ dhcp = "running" /\ link = "assoc"
  /\ dhcp' = "bound"
  /\ Post(GotIp(joined.ssid))
  /\ UNCHANGED <<mode, link, sta_cfg, joined, faults>>

Radio == Associate \/ (\E r \in Reasons : AssociateFails(r) \/ LinkDrop(r))
=============================================================================
