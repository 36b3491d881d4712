----------------------------- MODULE ScanCache -----------------------------
(***************************************************************************)
(* The list of networks the portal shows: wifi_manager_scan_start and      *)
(* wifi_manager_get_scan_json, both called by httpd's task (web_server.c), *)
(* and update_scan_cache, which the event task runs when the driver        *)
(* reports the end of a scan (wifi_manager.c).  The text is built in place *)
(* while the other task may be copying it, with no lock: a cell is what    *)
(* one snprintf appends, a NUL after it.  A cell that lists a network      *)
(* holds the number of the scan that found it.                             *)
(***************************************************************************)
EXTENDS Integers, Sequences

CONSTANTS
  MaxScans,        \* bound: scans after the one at boot
  MaxAps           \* networks a scan may find; always room for all the code
                   \* lists (20 records of at most 101 bytes in 2048)

ASSUME ScanAssumption == MaxScans \in Nat /\ MaxAps \in Nat

VARIABLES
  s_scanning, s_last_scan_err, s_scan_json,
  driver,          \* esp_wifi: "idle", "scanning", or "done" and told so
  handler,         \* httpd: "idle", "start" or "copy"
  pos,             \* ... and the cell strncpy has come to
  buf,             \* ... and what it has copied
  event,           \* the event task: "idle", "update" or "append"
  found,           \* ... networks left to append
  at,              \* ... where to (pos in the code)
  aps,             \* ... and the scan whose records it has fetched
  scan,            \* history: the number of the last scan started
  late             \* history: one was started while a list was being written

scan_vars == <<s_scanning, s_last_scan_err, s_scan_json, driver, handler, pos,
               buf, event, found, at, aps, scan, late>>

(* The characters that count beside the networks; a list is never one.     *)
Nul     == -1
Opening == -2
Closing == -3
Cells == 1..(MaxAps + 3)
Text  == {Nul, Opening, Closing} \cup 0..MaxScans
Empty == [i \in Cells |-> CASE i = 1 -> Opening [] i = 2 -> Closing [] OTHER -> Nul]
(* snprintf(s_scan_json + pos, ...): the text and its terminator.          *)
Written(i, t) == [s_scan_json EXCEPT ![i] = t, ![i + 1] = Nul]

ScanTypeOK ==
  /\ s_scanning \in BOOLEAN /\ s_last_scan_err \in BOOLEAN
  /\ s_scan_json \in [Cells -> Text]
  /\ driver \in {"idle", "scanning", "done"}
  /\ handler \in {"idle", "start", "copy"} /\ pos \in Cells /\ buf \in Seq(Text)
  /\ event \in {"idle", "update", "append"} /\ found \in 0..MaxAps /\ at \in Cells
  /\ aps \in 0..MaxScans /\ scan \in 0..MaxScans /\ late \in BOOLEAN

(* start_ap has stored the blocking scan of the boot, scan 0.              *)
ScanInit ==
  /\ s_scanning = FALSE /\ s_last_scan_err = FALSE
  /\ s_scan_json = [i \in Cells |-> CASE i = 1 -> Opening [] i \in 2..(MaxAps + 1) -> 0
                                      [] i = MaxAps + 2 -> Closing [] OTHER -> Nul]
  /\ driver = "idle" /\ handler = "idle" /\ pos = 1 /\ buf = <<>>
  /\ event = "idle" /\ found = 0 /\ at = 1 /\ aps = 0 /\ scan = 0
  /\ late = FALSE
----------------------------------------------------------------------------
ScanRequestKeepsList ==           \* mutant: the old list is left in place
  /\ handler = "idle" /\ ~s_scanning /\ scan < MaxScans
  /\ s_scanning' = TRUE /\ s_last_scan_err' = FALSE
  /\ scan' = scan + 1 /\ late' = (late \/ event # "idle") /\ handler' = "start"
  /\ UNCHANGED <<s_scan_json, driver, pos, buf, event, found, at, aps>>

(* /scan: the flag, the error and the list are reset first ...             *)
ScanRequest ==
  /\ handler = "idle" /\ ~s_scanning /\ scan < MaxScans
  /\ s_scanning' = TRUE /\ s_last_scan_err' = FALSE
  /\ s_scan_json' = Empty
  /\ scan' = scan + 1 /\ late' = (late \/ event # "idle") /\ handler' = "start"
  /\ UNCHANGED <<driver, pos, buf, event, found, at, aps>>

ScanStartStuck ==                 \* mutant: a refused scan leaves the flag
  /\ handler = "start"
  /\ \/ driver = "idle" /\ driver' = "scanning" /\ UNCHANGED s_last_scan_err
     \/ s_last_scan_err' = TRUE /\ UNCHANGED driver
  /\ handler' = "idle"
  /\ UNCHANGED <<s_scanning, s_scan_json, pos, buf, event, found, at, aps, scan, late>>

(* ... then the driver is asked, and may refuse.                           *)
ScanStart ==
  /\ handler = "start"
  /\ \/ driver = "idle" /\ driver' = "scanning" /\ UNCHANGED <<s_scanning, s_last_scan_err>>
     \/ s_scanning' = FALSE /\ s_last_scan_err' = TRUE /\ UNCHANGED driver
  /\ handler' = "idle"
  /\ UNCHANGED <<s_scan_json, pos, buf, event, found, at, aps, scan, late>>

(* The driver ends the scan and posts SCAN_DONE.                           *)
DriverDone ==
  /\ driver = "scanning"
  /\ driver' = "done"
  /\ UNCHANGED <<s_scanning, s_last_scan_err, s_scan_json, handler, pos, buf, event, found, at, aps, scan, late>>

(* WIFI_EVENT_SCAN_DONE: ignored unless a scan is running; the flag is     *)
(* cleared before the list is built.                                       *)
OnScanDone ==
  /\ driver = "done" /\ event = "idle"
  /\ driver' = "idle"
  /\ IF s_scanning
     THEN s_scanning' = FALSE /\ event' = "update" /\ aps' = scan
     ELSE UNCHANGED <<s_scanning, event, aps>>
  /\ UNCHANGED <<s_last_scan_err, s_scan_json, handler, pos, buf, found, at, scan, late>>

(* update_scan_cache: no networks, or no memory or no records for them ... *)
UpdateEmpty ==
  /\ event = "update"
  /\ s_scan_json' = Empty
  /\ event' = "idle"
  /\ UNCHANGED <<s_scanning, s_last_scan_err, driver, handler, pos, buf, found, at, aps, scan, late>>

(* ... or the bracket, the networks (hidden ones and repeated names left   *)
(* out: as many as are listed), and the closing bracket.                   *)
UpdateBegin ==
  /\ event = "update"
  /\ found' \in 0..MaxAps
  /\ s_scan_json' = Written(1, Opening) /\ at' = 2
  /\ event' = "append"
  /\ UNCHANGED <<s_scanning, s_last_scan_err, driver, handler, pos, buf, aps, scan, late>>

UpdateAppend ==
  /\ event = "append"
  /\ IF found > 0
     THEN /\ s_scan_json' = Written(at, aps) /\ at' = at + 1
          /\ found' = found - 1 /\ UNCHANGED event
     ELSE /\ s_scan_json' = Written(at, Closing) /\ at' = 1
          /\ event' = "idle" /\ UNCHANGED found
  /\ UNCHANGED <<s_scanning, s_last_scan_err, driver, handler, pos, buf, aps, scan, late>>
----------------------------------------------------------------------------
(* wifi_manager_get_scan_json: "[]" while a scan runs or after one that    *)
(* failed; otherwise the text is copied, up to the first NUL.              *)
GetScanJson ==
  /\ handler = "idle"
  /\ IF s_scanning \/ s_last_scan_err
     THEN buf' = <<Opening, Closing>> /\ UNCHANGED handler
     ELSE buf' = <<>> /\ handler' = "copy"
  /\ pos' = 1
  /\ UNCHANGED <<s_scanning, s_last_scan_err, s_scan_json, driver, event, found, at, aps, scan, late>>

CopyCell ==
  /\ handler = "copy"
  /\ IF s_scan_json[pos] = Nul
     THEN handler' = "idle" /\ pos' = 1 /\ UNCHANGED buf
     ELSE pos' = pos + 1 /\ buf' = Append(buf, s_scan_json[pos]) /\ UNCHANGED handler
  /\ UNCHANGED <<s_scanning, s_last_scan_err, s_scan_json, driver, event, found, at, aps, scan, late>>

EventNext == OnScanDone \/ UpdateEmpty \/ UpdateBegin \/ UpdateAppend

ScanNext == ScanRequest \/ ScanStart \/ GetScanJson \/ CopyCell \/ DriverDone \/ EventNext

ScanSpec == ScanInit /\ [][ScanNext]_scan_vars
----------------------------------------------------------------------------
(* The portal never shows a network of an earlier scan: what a request     *)
(* copies, though the list may be half built, is of the last scan, as long *)
(* as no scan was started while the list before it was being written.      *)
ListFromOneScan ==
  ~late => \A i \in 1..Len(buf) :
             handler = "copy" => buf[i] \in {Opening, Closing, scan}

(* "Scanning" ends: the page polls /scanstatus until it does (the driver   *)
(* reports every scan it accepted).                                        *)
ScanEnds == s_scanning ~> ~s_scanning
=============================================================================
