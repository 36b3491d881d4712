----------------------------- MODULE OtaUpdate -----------------------------
(***************************************************************************)
(* The firmware upload (ota_handler of web_server.c) over the two          *)
(* application partitions of partitions.csv.  httpd runs one handler at a  *)
(* time, so there is one upload at a time; the power may fail between any  *)
(* two steps, and the bootloader then starts the partition otadata names.  *)
(***************************************************************************)
EXTENDS Integers

CONSTANT MaxChunks        \* bound: OTA_BUF_SIZE pieces of an upload

ASSUME OtaAssumption == MaxChunks \in Nat

Partitions == {"app0", "app1"}
(* What a partition holds: a whole image, or what an upload has left.      *)
Contents == {"whole", "broken"}

VARIABLES
  content,         \* per partition
  running,         \* the partition the firmware runs from
  boot,            \* what otadata names
  ota,             \* the handler: "idle", "receive", "end", "switch" or "restart"
  remaining,       \* chunks still to come
  uploaded         \* whether what is being sent is a good image

ota_vars == <<content, running, boot, ota, remaining, uploaded>>

OtaTypeOK ==
  /\ content \in [Partitions -> Contents]
  /\ running \in Partitions /\ boot \in Partitions
  /\ ota \in {"idle", "receive", "end", "switch", "restart"}
  /\ remaining \in 0..MaxChunks /\ uploaded \in BOOLEAN

OtaInit ==
  /\ content = [p \in Partitions |-> IF p = "app0" THEN "whole" ELSE "broken"]
  /\ running = "app0" /\ boot = "app0"
  /\ ota = "idle" /\ remaining = 0 /\ uploaded = TRUE
----------------------------------------------------------------------------
NextPartitionBoot == CHOOSE p \in Partitions : p = boot   \* mutant: the current one

(* esp_ota_get_next_update_partition(NULL): not the running one.           *)
NextPartition == CHOOSE p \in Partitions : p # running

(* POST /ota: esp_ota_begin may refuse; from then on the old contents of   *)
(* the other partition are gone.                                           *)
OtaBegin ==
  /\ ota = "idle"
  /\ remaining' \in 0..MaxChunks
  /\ content' = [content EXCEPT ![NextPartition] = "broken"]
  /\ ota' = IF remaining' > 0 THEN "receive" ELSE "end"
  /\ uploaded' \in IF remaining' > 0 THEN BOOLEAN ELSE {FALSE}
  /\ UNCHANGED <<running, boot>>

(* One turn of the loop: receive a chunk, write it.                        *)
OtaChunk ==
  /\ ota = "receive"
  /\ remaining' = remaining - 1
  /\ ota' = IF remaining' > 0 THEN "receive" ELSE "end"
  /\ UNCHANGED <<content, running, boot, uploaded>>

(* httpd_req_recv or esp_ota_write fails: esp_ota_abort, and an answer.    *)
OtaAbort ==
  /\ ota = "receive"
  /\ ota' = "idle" /\ remaining' = 0
  /\ UNCHANGED <<content, running, boot, uploaded>>

(* esp_ota_end validates the image ...                                     *)
OtaEnd ==
  /\ ota = "end"
  /\ \/ uploaded /\ content' = [content EXCEPT ![NextPartition] = "whole"] /\ ota' = "switch"
     \/ ota' = "idle" /\ UNCHANGED content
  /\ UNCHANGED <<running, boot, remaining, uploaded>>

(* ... esp_ota_set_boot_partition may fail unnoticed ...                   *)
OtaSwitch ==
  /\ ota = "switch"
  /\ boot' \in {boot, NextPartition}
  /\ ota' = "restart"
  /\ UNCHANGED <<content, running, remaining, uploaded>>

(* ... and the device restarts.                                            *)
OtaRestart ==
  /\ ota = "restart"
  /\ running' = boot
  /\ ota' = "idle"
  /\ UNCHANGED <<content, boot, remaining, uploaded>>

(* A power failure, or a restart asked for elsewhere (/reboot).            *)
OtaPowerLoss ==
  /\ running' = boot
  /\ ota' = "idle" /\ remaining' = 0
  /\ UNCHANGED <<content, boot, uploaded>>

OtaNext ==
  OtaBegin \/ OtaChunk \/ OtaAbort \/ OtaEnd \/ OtaSwitch \/ OtaRestart \/ OtaPowerLoss

OtaSpec == OtaInit /\ [][OtaNext]_ota_vars
----------------------------------------------------------------------------
(* Whenever the power fails, whatever has been received and however the    *)
(* upload ended, the device starts a whole image, and the one it is        *)
(* running from is not touched.                                            *)
BootsWholeImage == content[boot] = "whole" /\ content[running] = "whole"
=============================================================================
