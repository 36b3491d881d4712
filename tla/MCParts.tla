------------------------------ MODULE MCParts ------------------------------
(***************************************************************************)
(* The components of the firmware that share no variable with another one, *)
(* for TLC: a behaviour of this module is a behaviour of one of them, the  *)
(* one "part" names.  (Their product would only multiply their states.)    *)
(***************************************************************************)
EXTENDS FlowMeter, SensorTray, SensorHealth, Sockets, ScanCache, OtaUpdate,
        DhtSensor, TLC

CONSTANTS dht, flow     \* the sensors of sensor_manager.c

VARIABLE part

(* The proportions of the code's timeouts to the period of the check.      *)
Timeouts == dht :> 3 @@ flow :> 2

(* Two readings: with carries in the checksum and across its byte.         *)
TwoMeasured == {<<90, 45>>, <<255, 7>>}

(* Two readings that differ in one field only.                             *)
TwoReadings == {[temp |-> 1, hum |-> 1], [temp |-> 1, hum |-> 2]}

parts_vars == <<part, flow_vars, tray_vars, health_vars, socket_vars, scan_vars,
                ota_vars, dht_vars>>

PartsInit ==
  /\ part \in {"flow", "tray", "health", "sockets", "scan", "ota", "dht"}
  /\ FlowInit /\ TrayInit /\ HealthInit /\ SocketsInit /\ ScanInit /\ OtaInit /\ DhtInit

FlowPart ==
  /\ part = "flow" /\ FlowNext
  /\ UNCHANGED <<part, tray_vars, health_vars, socket_vars, scan_vars, ota_vars, dht_vars>>
TrayPart ==
  /\ part = "tray" /\ TrayNext
  /\ UNCHANGED <<part, flow_vars, health_vars, socket_vars, scan_vars, ota_vars, dht_vars>>
HealthPart ==
  /\ part = "health" /\ HealthNext
  /\ UNCHANGED <<part, flow_vars, tray_vars, socket_vars, scan_vars, ota_vars, dht_vars>>
SocketsPart ==
  /\ part = "sockets" /\ SocketsNext
  /\ UNCHANGED <<part, flow_vars, tray_vars, health_vars, scan_vars, ota_vars, dht_vars>>
ScanPart ==
  /\ part = "scan" /\ ScanNext
  /\ UNCHANGED <<part, flow_vars, tray_vars, health_vars, socket_vars, ota_vars, dht_vars>>
OtaPart ==
  /\ part = "ota" /\ OtaNext
  /\ UNCHANGED <<part, flow_vars, tray_vars, health_vars, socket_vars, scan_vars, dht_vars>>
DhtPart ==
  /\ part = "dht" /\ DhtNext
  /\ UNCHANGED <<part, flow_vars, tray_vars, health_vars, socket_vars, scan_vars, ota_vars>>

PartsNext ==
  FlowPart \/ TrayPart \/ HealthPart \/ SocketsPart \/ ScanPart \/ OtaPart \/ DhtPart

(* The scheduler runs logger_task, httpd and the event task when they are  *)
(* ready, and the driver ends a scan it has accepted.  (Before its first   *)
(* reading no task of the tray has anything to do.)                        *)
PartsFairness ==
  /\ TrayFairness
  /\ WF_socket_vars(part = "sockets" /\ LoggerNext)
  /\ WF_scan_vars(part = "scan" /\ ScanStart)
  /\ WF_scan_vars(part = "scan" /\ DriverDone)
  /\ WF_scan_vars(part = "scan" /\ EventNext)

PartsSpec == PartsInit /\ [][PartsNext]_parts_vars /\ PartsFairness

PartsTypeOK ==
  /\ FlowTypeOK /\ TrayTypeOK /\ HealthTypeOK /\ SocketsTypeOK
  /\ ScanTypeOK /\ OtaTypeOK /\ DhtTypeOK
=============================================================================
