---------------------------- MODULE PartsProofs ----------------------------
(***************************************************************************)
(* Proofs about the components of MCParts, each for all its behaviours and *)
(* for every value of its constants: the pulse counter, the upload, the    *)
(* health engine, the scan cache and the DHT11 driver.  The sockets and the *)
(* tray have modules of their own.  The last section puts all together.    *)
(***************************************************************************)
EXTENDS MCParts, SocketsProofs, SensorTrayProofs

(* The pulse counter.  NoPulseLost alone is not inductive: between the     *)
(* read and the reset it holds only because the spinlock kept the handler  *)
(* out, so that the counter still equals the snapshot.                     *)

(* Who holds the spinlock is where the two programs are, and the task      *)
(* resets exactly what it has read.                                        *)
MuxInv ==
  /\ s_flow_mux = "isr" <=> isr = "entered"
  /\ s_flow_mux = "task" <=> task = "reset"
  /\ task = "reset" => count = s_pulse_count

FlowInv == FlowTypeOK /\ NoPulseLost /\ MuxInv

LEMMA InitFlowInv == FlowInit => FlowInv
  BY MaxPulsesAssumption
     DEF FlowInit, FlowInv, FlowTypeOK, NoPulseLost, InHandler, InTask, MuxInv

LEMMA NextFlowInv == FlowInv /\ [FlowNext]_flow_vars => FlowInv'
  <1> SUFFICES ASSUME FlowInv, [FlowNext]_flow_vars PROVE FlowInv'
    OBVIOUS
  <1> USE MaxPulsesAssumption DEF FlowInv, FlowTypeOK, NoPulseLost, InHandler, InTask, MuxInv
  <1>1. CASE IsrEnter
    BY <1>1 DEF IsrEnter, EnterCritical
  <1>2. CASE IsrCount
    BY <1>2 DEF IsrCount, ExitCritical
  <1>3. CASE TaskRead
    BY <1>3 DEF TaskRead, EnterCritical
  <1>4. CASE TaskReset
    BY <1>4 DEF TaskReset, ExitCritical
  <1>5. CASE TaskReport
    BY <1>5 DEF TaskReport
  <1>6. CASE UNCHANGED flow_vars
    BY <1>6 DEF flow_vars
  <1>7. QED
    BY <1>1, <1>2, <1>3, <1>4, <1>5, <1>6 DEF FlowNext

(* The counter, the snapshot and what was reported never exceed the edges. *)
THEOREM FlowTypeCorrect == FlowSpec => []FlowTypeOK
  <1>1. FlowInv => FlowTypeOK
    BY DEF FlowInv
  <1>2. QED
    BY <1>1, InitFlowInv, NextFlowInv, PTL DEF FlowSpec

(* No pulse of the flow sensor is lost or counted twice, whatever the      *)
(* interleaving of flow_isr_handler and flow_task.                         *)
THEOREM FlowPulsesConserved == FlowSpec => []NoPulseLost
  <1>1. FlowInv => NoPulseLost
    BY DEF FlowInv
  <1>2. QED
    BY <1>1, InitFlowInv, NextFlowInv, PTL DEF FlowSpec
----------------------------------------------------------------------------
(* The upload: the device never starts anything but a whole image, however *)
(* many chunks an upload has and wherever the power fails.                 *)

(* The firmware runs from what otadata names, except between the switch    *)
(* and the restart; the switch is only to an image esp_ota_end accepted.   *)
(* The loop waits for a chunk only while one is left.                      *)
RunsBoot   == ota # "restart" => running = boot
SwitchGood == ota = "switch" => content[NextPartition] = "whole"
Receiving  == ota = "receive" => remaining > 0

OtaInv == OtaTypeOK /\ RunsBoot /\ SwitchGood /\ Receiving /\ BootsWholeImage

(* There are two partitions: the next one is the one that is not running.  *)
LEMMA NextIsOther ==
  ASSUME running \in Partitions
  PROVE  NextPartition \in Partitions /\ NextPartition # running
  BY DEF NextPartition, Partitions

(* Writing to the next partition leaves the running image alone.           *)
LEMMA WriteKeeps ==
  ASSUME OtaTypeOK, BootsWholeImage, running = boot, NEW c \in Contents,
         content' = [content EXCEPT ![NextPartition] = c], UNCHANGED <<running, boot>>
  PROVE  /\ content' \in [Partitions -> Contents]
         /\ BootsWholeImage'
         /\ content'[NextPartition'] = c
  <1>1. NextPartition \in Partitions /\ NextPartition # running
    BY NextIsOther DEF OtaTypeOK
  <1>2. NextPartition' = NextPartition
    BY DEF NextPartition
  <1>3. content \in [Partitions -> Contents] /\ running \in Partitions
    BY DEF OtaTypeOK
  <1> DEFINE n == NextPartition
  <1>4. n \in Partitions /\ n # running /\ content' = [content EXCEPT ![n] = c]
    BY <1>1
  <1> HIDE DEF n
  <1>5. content'[n] = c /\ content'[running] = content[running]
        /\ content' \in [Partitions -> Contents]
    BY <1>3, <1>4
  <1>6. content[running] = "whole"
    BY DEF BootsWholeImage
  <1>7. content'[boot'] = "whole" /\ content'[running'] = "whole"
    BY <1>5, <1>6
  <1>8. QED
    BY <1>2, <1>5, <1>7 DEF n, BootsWholeImage

LEMMA InitOtaInv == OtaInit => OtaInv
  BY OtaAssumption
     DEF OtaInit, OtaInv, OtaTypeOK, RunsBoot, SwitchGood, Receiving, BootsWholeImage, Partitions, Contents

LEMMA NextOtaInv == OtaInv /\ [OtaNext]_ota_vars => OtaInv'
  <1> SUFFICES ASSUME OtaInv, [OtaNext]_ota_vars PROVE OtaInv'
    OBVIOUS
  <1> USE DEF OtaInv
  <1>1. ASSUME OtaBegin
        PROVE  OtaInv'
    <2>1. running = boot /\ UNCHANGED <<running, boot>>
      BY <1>1 DEF OtaBegin, RunsBoot
    <2>2. content' = [content EXCEPT ![NextPartition] = "broken"]
      BY <1>1 DEF OtaBegin
    <2>3. content' \in [Partitions -> Contents] /\ BootsWholeImage'
      BY <2>1, <2>2, WriteKeeps DEF Contents
    <2>4. ota' \in {"receive", "end"} /\ (ota' = "receive" => remaining' > 0)
          /\ remaining' \in 0..MaxChunks /\ uploaded' \in BOOLEAN
      BY <1>1 DEF OtaBegin
    <2>5. QED
      BY <2>1, <2>3, <2>4 DEF OtaTypeOK, RunsBoot, SwitchGood, Receiving
  <1>2. ASSUME OtaChunk
        PROVE  OtaInv'
    <2>1. remaining' = remaining - 1 /\ ota' \in {"receive", "end"} /\ (remaining' > 0 <=> ota' = "receive")
          /\ UNCHANGED <<content, running, boot, uploaded>> /\ ota = "receive"
      BY <1>2 DEF OtaChunk
    <2>2. remaining' \in 0..MaxChunks
      BY <2>1, OtaAssumption DEF OtaTypeOK, Receiving
    <2>3. QED
      BY <2>1, <2>2 DEF OtaTypeOK, RunsBoot, SwitchGood, Receiving, BootsWholeImage
  <1>3. ASSUME OtaAbort
        PROVE  OtaInv'
    BY <1>3, OtaAssumption DEF OtaAbort, OtaTypeOK, RunsBoot, SwitchGood, Receiving, BootsWholeImage
  <1>4. ASSUME OtaEnd
        PROVE  OtaInv'
    <2>1. running = boot /\ UNCHANGED <<running, boot, remaining, uploaded>>
      BY <1>4 DEF OtaEnd, RunsBoot
    <2>2. CASE content' = [content EXCEPT ![NextPartition] = "whole"] /\ ota' = "switch"
      <3>1. content' \in [Partitions -> Contents] /\ BootsWholeImage'
            /\ content'[NextPartition'] = "whole"
        BY <2>1, <2>2, WriteKeeps DEF Contents
      <3>2. QED
        BY <2>1, <2>2, <3>1 DEF OtaTypeOK, RunsBoot, SwitchGood, Receiving
    <2>3. CASE ota' = "idle" /\ UNCHANGED content
      BY <2>1, <2>3 DEF OtaTypeOK, RunsBoot, SwitchGood, Receiving, BootsWholeImage
    <2>4. QED
      BY <1>4, <2>2, <2>3 DEF OtaEnd
  <1>5. ASSUME OtaSwitch
        PROVE  OtaInv'
    <2>1. NextPartition \in Partitions
      BY NextIsOther DEF OtaTypeOK
    <2>2. QED
      BY <1>5, <2>1 DEF OtaSwitch, OtaTypeOK, RunsBoot, SwitchGood, Receiving, BootsWholeImage
  <1>6. ASSUME OtaRestart \/ OtaPowerLoss
        PROVE  OtaInv'
    BY <1>6, OtaAssumption
       DEF OtaRestart, OtaPowerLoss, OtaTypeOK, RunsBoot, SwitchGood, Receiving, BootsWholeImage
  <1>7. CASE UNCHANGED ota_vars
    BY <1>7 DEF ota_vars, OtaTypeOK, RunsBoot, SwitchGood, Receiving, NextPartition, BootsWholeImage
  <1>8. QED
    BY <1>1, <1>2, <1>3, <1>4, <1>5, <1>6, <1>7 DEF OtaNext

(* Whenever the power fails, what the bootloader starts is a whole image.  *)
THEOREM AlwaysBootsWholeImage == OtaSpec => []BootsWholeImage
  <1>1. OtaInv => BootsWholeImage
    BY DEF OtaInv
  <1>2. QED
    BY <1>1, InitOtaInv, NextOtaInv, PTL DEF OtaSpec
----------------------------------------------------------------------------
(* The health engine.  Differences of the wrapping clock are true times as *)
(* long as none of them reaches the width; the invariant then says of each *)
(* stored time how long ago it was, and of a sensor shown alive how long   *)
(* it can have been silent since the check that said so.                   *)

LEMMA Difference ==
  ASSUME NEW n \in Clock, NEW t \in Clock
  PROVE  (n + Width - t) % Width = IF t <= n THEN n - t ELSE n + Width - t
  BY HealthAssumption DEF Clock

(* One tick later every time is one tick longer ago.                       *)
LEMMA AgoTicks ==
  ASSUME NEW n \in Clock, NEW t \in Clock, NEW m, m = (n + 1) % Width,
         ((n + Width - t) % Width) + 1 < Width
  PROVE  m \in Clock /\ (m + Width - t) % Width = ((n + Width - t) % Width) + 1
  <1>1. m = IF n = Width - 1 THEN 0 ELSE n + 1
    BY HealthAssumption DEF Clock
  <1>2. m \in Clock
    BY <1>1, HealthAssumption DEF Clock
  <1>3. QED
    BY <1>1, <1>2, Difference, HealthAssumption DEF Clock

LEMMA AgoNow == ASSUME now \in Clock PROVE Ago(now) = 0
  BY Difference, HealthAssumption DEF Ago, Clock

(* Two stored times, the later less long ago.                              *)
LEMMA Between ==
  ASSUME now \in Clock, NEW t \in Clock, NEW u \in Clock, Ago(u) <= Ago(t)
  PROVE  (u + Width - t) % Width = Ago(t) - Ago(u)
  <1>1. Ago(t) = IF t <= now THEN now - t ELSE now + Width - t
    BY Difference DEF Ago
  <1>2. Ago(u) = IF u <= now THEN now - u ELSE now + Width - u
    BY Difference DEF Ago
  <1>3. (u + Width - t) % Width = IF t <= u THEN u - t ELSE u + Width - t
    BY Difference
  <1>4. QED
    BY <1>1, <1>2, <1>3, HealthAssumption DEF Clock

LEMMA AgoIsTime == ASSUME now \in Clock, NEW t \in Clock PROVE Ago(t) \in Clock
  BY Difference, HealthAssumption DEF Ago, Clock

MarkInv ==
  \A s \in Sensors :
    /\ active[s] => silence[s] = Ago(last_seen_ms[s])
    /\ marking[s] => Ago(mark_t[s]) <= MaxLate
    /\ marking[s] /\ active[s] => Ago(mark_t[s]) <= silence[s]

CheckInv == checking => since = Ago(check_t) /\ since <= MaxLate

AliveInv ==
  \A s \in Sensors : alive[s] =>
    /\ active[s]
    /\ silence[s] < Timeout[s] + since + (IF checking THEN HealthPeriod + MaxLate ELSE 0)

HealthInv == HealthTypeOK /\ MarkInv /\ CheckInv /\ AliveInv

LEMMA InitHealthInv == HealthInit => HealthInv
  <1> SUFFICES ASSUME HealthInit PROVE HealthInv
    OBVIOUS
  <1>1. 0 \in Clock /\ 0 \in 0..MaxSilence /\ HealthPeriod \in 0..(HealthPeriod + MaxLate)
    BY HealthAssumption DEF Clock
  <1>2. HealthTypeOK
    BY <1>1 DEF HealthInit, HealthTypeOK
  <1>3. MarkInv /\ CheckInv /\ AliveInv
    BY DEF HealthInit, MarkInv, CheckInv, AliveInv
  <1>4. QED
    BY <1>2, <1>3 DEF HealthInv

LEMMA TickHealthInv == HealthInv /\ Tick => HealthInv'
  <1> SUFFICES ASSUME HealthInv, Tick PROVE HealthInv'
    OBVIOUS
  <1> USE HealthAssumption, SilenceAssumption DEF HealthInv
  <1>1. now \in Clock /\ now' \in Clock
    BY DEF HealthTypeOK, Tick, Clock
  <1>2. ASSUME NEW t \in Clock, Ago(t) + 1 < Width PROVE Ago(t)' = Ago(t) + 1
    BY <1>1, <1>2, AgoTicks DEF Tick, Ago
  <1>3. HealthTypeOK'
    <2>1. since' \in 0..(HealthPeriod + MaxLate)
      BY DEF HealthTypeOK, Tick
    <2>2. silence' \in [Sensors -> 0..MaxSilence]
      BY DEF HealthTypeOK, Tick
    <2>3. QED
      BY <1>1, <2>1, <2>2 DEF HealthTypeOK, Tick
  <1>4. ASSUME NEW s \in Sensors
        PROVE  /\ active[s] => silence'[s] = silence[s] + 1 /\ silence[s] + 1 < Width
               /\ last_seen_ms[s] \in Clock /\ mark_t[s] \in Clock
               /\ silence[s] \in Nat
    BY DEF HealthTypeOK, Tick
  <1>5. MarkInv'
    <2>1. ASSUME NEW s \in Sensors, active[s]
          PROVE  silence'[s] = Ago(last_seen_ms[s])'
      BY <2>1, <1>2, <1>4 DEF MarkInv, Tick
    <2>2. ASSUME NEW s \in Sensors, marking[s]
          PROVE  Ago(mark_t[s])' = Ago(mark_t[s]) + 1 /\ Ago(mark_t[s]) < MaxLate
                   /\ Ago(mark_t[s]) \in Nat
      <3>1. mark_t[s] \in Clock /\ Ago(mark_t[s]) < MaxLate
        BY <2>2, <1>4 DEF Tick
      <3>2. Ago(mark_t[s]) \in Nat
        BY <1>1, <3>1, AgoIsTime DEF Clock
      <3>3. Ago(mark_t[s]) + 1 < Width
        BY <3>1, <3>2
      <3>4. (now' + Width - mark_t[s]) % Width = ((now + Width - mark_t[s]) % Width) + 1
        BY <1>1, <3>1, <3>3, AgoTicks DEF Tick, Ago
      <3>5. QED
        BY <3>1, <3>2, <3>4 DEF Tick, Ago
    <2>3. QED
      BY <2>1, <2>2, <1>4 DEF MarkInv, Tick
  <1>6. CheckInv'
    BY <1>1, <1>2 DEF CheckInv, Tick, HealthTypeOK
  <1>7. AliveInv'
    BY <1>4 DEF AliveInv, Tick, HealthTypeOK
  <1>8. QED
    BY <1>3, <1>5, <1>6, <1>7

LEMMA NextHealthInv == HealthInv /\ [HealthNext]_health_vars => HealthInv'
  <1> SUFFICES ASSUME HealthInv, [HealthNext]_health_vars PROVE HealthInv'
    OBVIOUS
  <1> USE HealthAssumption, SilenceAssumption DEF HealthInv
  <1>1. now \in Clock
    BY DEF HealthTypeOK
  <1>2. ASSUME NEW s \in Sensors, MarkStart(s) PROVE HealthInv'
    <2>1. HealthTypeOK'
      BY <1>2 DEF MarkStart, HealthTypeOK
    <2>2. MarkInv'
      BY <1>1, <1>2, AgoNow DEF MarkStart, MarkInv, HealthTypeOK, Ago
    <2>3. CheckInv' /\ AliveInv'
      BY <1>2 DEF MarkStart, CheckInv, AliveInv, Ago
    <2>4. QED
      BY <2>1, <2>2, <2>3
  <1>3. ASSUME NEW s \in Sensors, MarkAlive(s) PROVE HealthInv'
    <2>1. /\ Ago(mark_t[s]) \in 0..MaxSilence /\ mark_t[s] \in Clock
          /\ active[s] => Ago(mark_t[s]) <= silence[s]
      BY <1>1, <1>3, Difference DEF MarkAlive, MarkInv, HealthTypeOK, Ago, Clock
    <2>2. HealthTypeOK'
      BY <1>3, <2>1 DEF MarkAlive, HealthTypeOK
    <2>3. MarkInv'
      BY <1>3, <2>1 DEF MarkAlive, MarkInv, HealthTypeOK, Ago
    <2>4. CheckInv'
      BY <1>3 DEF MarkAlive, CheckInv, Ago
    <2>5. AliveInv'
      BY <1>3, <2>1 DEF MarkAlive, AliveInv, HealthTypeOK
    <2>6. QED
      BY <2>2, <2>3, <2>4, <2>5
  <1>4. CASE CheckStart
    <2>1. HealthTypeOK'
      BY <1>4 DEF CheckStart, HealthTypeOK
    <2>2. MarkInv' /\ CheckInv'
      BY <1>1, <1>4, AgoNow DEF CheckStart, MarkInv, CheckInv, Ago
    <2>3. AliveInv'
      BY <1>4 DEF CheckStart, AliveInv, HealthTypeOK
    <2>4. QED
      BY <2>1, <2>2, <2>3
  <1>5. CASE Check
    <2>1. HealthTypeOK'
      BY <1>5 DEF Check, Judged, HealthTypeOK
    <2>2. MarkInv' /\ CheckInv'
      BY <1>5 DEF Check, MarkInv, CheckInv, Ago
    <2>3. ASSUME NEW s \in Sensors, alive'[s]
          PROVE  active[s] /\ silence[s] < Timeout[s] + since
      <3>1. Judged(s) /\ active[s]
        BY <1>5, <2>3 DEF Check, Judged
      <3>2. /\ last_seen_ms[s] \in Clock /\ check_t \in Clock
            /\ silence[s] \in Nat /\ since \in Nat /\ Timeout[s] \in Nat \ {0}
        BY DEF HealthTypeOK
      <3>3. silence[s] = Ago(last_seen_ms[s]) /\ since = Ago(check_t)
        BY <1>5, <3>1 DEF Check, MarkInv, CheckInv
      <3>4. CASE since <= silence[s]
        <4>1. (check_t + Width - last_seen_ms[s]) % Width = silence[s] - since
          BY <1>1, <3>2, <3>3, <3>4, Between
        <4>2. QED
          BY <3>1, <3>2, <4>1 DEF Judged
      <3>5. CASE silence[s] < since
        BY <3>1, <3>2, <3>5
      <3>6. QED
        BY <3>2, <3>4, <3>5
    <2>4. AliveInv'
      <3>1. \A s \in Sensors : Timeout[s] + since + 0 = Timeout[s] + since
        BY DEF HealthTypeOK
      <3>2. QED
        BY <1>5, <2>3, <3>1 DEF Check, AliveInv
    <2>5. QED
      BY <2>1, <2>2, <2>4
  <1>6. CASE UNCHANGED health_vars
    BY <1>6 DEF health_vars, HealthTypeOK, MarkInv, CheckInv, AliveInv, Ago
  <1>7. QED
    BY <1>2, <1>3, <1>4, <1>5, <1>6, TickHealthInv DEF HealthNext

LEMMA HealthInvariant == HealthSpec => []HealthInv
  BY InitHealthInv, NextHealthInv, PTL DEF HealthSpec

(* No stored time, and no silence, leaves its range.                       *)
THEOREM HealthTypeCorrect == HealthSpec => []HealthTypeOK
  <1>1. HealthInv => HealthTypeOK
    BY DEF HealthInv
  <1>2. QED
    BY <1>1, HealthInvariant, PTL

(* A sensor silent for its timeout and one late check is not shown alive.  *)
THEOREM HealthDeadDetected == HealthSpec => []DeadDetected
  <1>1. HealthInv => DeadDetected
    BY HealthAssumption
       DEF HealthInv, HealthTypeOK, CheckInv, AliveInv, DeadDetected
  <1>2. QED
    BY <1>1, HealthInvariant, PTL

(* Only a reading within the timeout brings a dead sensor back.            *)
THEOREM HealthSilentIsDead == HealthSpec => SilentIsDead
  <1>1. HealthInv /\ HealthInv' /\ [HealthNext]_health_vars =>
          \A s \in Sensors : ~alive[s] /\ alive'[s] => silence[s] < Timeout[s] + MaxLate
    <2>1. SUFFICES ASSUME HealthInv, HealthInv', [HealthNext]_health_vars,
                          NEW s \in Sensors, ~alive[s], alive'[s]
                   PROVE  silence[s] < Timeout[s] + MaxLate
      OBVIOUS
    <2>2. Check
      BY <2>1 DEF HealthNext, Tick, MarkStart, MarkAlive, CheckStart, health_vars
    <2>3. since <= MaxLate /\ silence' = silence /\ since' = since /\ ~checking'
      BY <2>1, <2>2 DEF Check, HealthInv, CheckInv
    <2>4. silence[s] < Timeout[s] + since
      BY <2>1, <2>3, HealthAssumption DEF HealthInv, AliveInv, HealthTypeOK
    <2>5. Timeout[s] \in Nat /\ since \in Nat /\ silence[s] \in Nat
      BY <2>1, HealthAssumption DEF HealthInv, HealthTypeOK
    <2>6. QED
      BY <2>3, <2>4, <2>5, HealthAssumption
  <1>2. QED
    BY <1>1, HealthInvariant, PTL DEF HealthSpec, SilentIsDead
----------------------------------------------------------------------------
(* The scan cache.  The list always has room for what is appended, so the  *)
(* last cell stays NUL and no copy runs past it.  Without a late scan, the *)
(* records being written, the cells and what is copied of them are all of  *)
(* the last scan.                                                          *)

Room ==
  /\ s_scan_json[MaxAps + 3] = Nul
  /\ event = "append" => at + found <= MaxAps + 2

Fresh == {Opening, Closing, scan}
FreshInv == ~late =>
  /\ event # "idle" => aps = scan
  /\ \A i \in Cells : s_scan_json[i] \in Fresh \cup {Nul}
  /\ handler = "copy" => \A i \in 1..Len(buf) : buf[i] \in Fresh

ScanInv == ScanTypeOK /\ Room /\ FreshInv

LEMMA EmptyList ==
  /\ Empty \in [Cells -> Text] /\ Empty[MaxAps + 3] = Nul
  /\ \A i \in Cells : Empty[i] \in {Opening, Closing, Nul}
  BY ScanAssumption DEF Empty, Cells, Text

LEMMA WrittenList ==
  ASSUME s_scan_json \in [Cells -> Text], s_scan_json[MaxAps + 3] = Nul,
         NEW i \in 1..(MaxAps + 2), NEW t \in Text
  PROVE  /\ Written(i, t) \in [Cells -> Text] /\ Written(i, t)[MaxAps + 3] = Nul
         /\ \A j \in Cells : Written(i, t)[j] \in {s_scan_json[j], t, Nul}
  <1>1. i \in Cells /\ i + 1 \in Cells /\ i # i + 1 /\ Nul \in Text /\ MaxAps + 3 \in Cells
    BY ScanAssumption DEF Cells, Text
  <1>2. i # MaxAps + 3
    BY ScanAssumption
  <1>3. QED
    BY <1>1, <1>2 DEF Written

LEMMA InitScanInv == ScanInit => ScanInv
  <1> SUFFICES ASSUME ScanInit PROVE ScanInv
    OBVIOUS
  <1>1. /\ s_scan_json \in [Cells -> Text] /\ s_scan_json[MaxAps + 3] = Nul
        /\ \A i \in Cells : s_scan_json[i] \in {Opening, Closing, Nul, 0}
    BY ScanAssumption DEF ScanInit, Cells, Text
  <1>2. 1 \in Cells /\ 0 \in 0..MaxScans /\ 0 \in 0..MaxAps
    BY ScanAssumption DEF Cells
  <1>3. buf \in Seq(Text)
    BY DEF ScanInit
  <1>4. ScanTypeOK
    BY <1>1, <1>2, <1>3 DEF ScanInit, ScanTypeOK
  <1>5. QED
    BY <1>1, <1>4 DEF ScanInit, ScanInv, Room, FreshInv, Fresh

LEMMA HandlerScanInv ==
  ASSUME ScanInv, ScanRequest \/ ScanStart \/ GetScanJson \/ CopyCell \/ DriverDone
  PROVE  ScanInv'
  <1> USE ScanAssumption DEF ScanInv
  <1>1. 1 \in Cells
    BY DEF Cells
  <1>2. CASE ScanRequest
    <2>1. ScanTypeOK'
      <3>1. scan' \in 0..MaxScans /\ s_scan_json' \in [Cells -> Text]
        BY <1>2, EmptyList DEF ScanRequest, ScanTypeOK
      <3>2. late' \in BOOLEAN
        BY <1>2, Zenon DEF ScanRequest, ScanTypeOK
      <3>3. QED
        BY <1>2, <3>1, <3>2, Zenon DEF ScanRequest, ScanTypeOK
    <2>2. Room' /\ FreshInv'
      BY <1>2, EmptyList DEF ScanRequest, Room, FreshInv, Fresh
    <2>3. QED
      BY <2>1, <2>2
  <1>3. CASE ScanStart \/ DriverDone
    BY <1>3 DEF ScanStart, DriverDone, ScanTypeOK, Room, FreshInv, Fresh
  <1>4. CASE GetScanJson
    <2>1. <<Opening, Closing>> \in Seq(Text) /\ <<>> \in Seq(Text)
      BY DEF Text
    <2>2. ScanTypeOK'
      BY <1>1, <1>4, <2>1 DEF GetScanJson, ScanTypeOK
    <2>3. Room' /\ (handler' = "copy" => buf' = <<>>)
      BY <1>4 DEF GetScanJson, Room
    <2>4. FreshInv'
      BY <1>4, <2>3 DEF GetScanJson, FreshInv, Fresh
    <2>5. QED
      BY <2>2, <2>3, <2>4
  <1>5. CASE CopyCell
    <2>1. CASE s_scan_json[pos] = Nul
      BY <1>1, <1>5, <2>1 DEF CopyCell, ScanTypeOK, Room, FreshInv, Fresh
    <2>2. CASE s_scan_json[pos] # Nul
      <3>1. pos \in Cells /\ pos # MaxAps + 3 /\ s_scan_json[pos] \in Text /\ buf \in Seq(Text)
        BY <2>2 DEF ScanTypeOK, Room
      <3>2. pos + 1 \in Cells
        BY <3>1 DEF Cells
      <3>3. pos' = pos + 1 /\ buf' = Append(buf, s_scan_json[pos]) /\ handler' = handler
        BY <1>5, <2>2 DEF CopyCell
      <3>4. ScanTypeOK'
        BY <1>5, <3>1, <3>2, <3>3 DEF CopyCell, ScanTypeOK
      <3>5. FreshInv'
        <4>1. SUFFICES ASSUME ~late, NEW i \in 1..Len(buf') PROVE buf'[i] \in Fresh
          BY <1>5, <3>3 DEF CopyCell, FreshInv, Fresh
        <4>2. CASE i = Len(buf) + 1
          BY <2>2, <3>1, <3>3, <4>1, <4>2 DEF FreshInv
        <4>3. CASE i # Len(buf) + 1
          BY <1>5, <3>1, <3>3, <4>1, <4>3 DEF CopyCell, FreshInv
        <4>4. QED
          BY <4>2, <4>3
      <3>6. QED
        BY <1>5, <3>4, <3>5 DEF CopyCell, Room
    <2>3. QED
      BY <2>1, <2>2
  <1>6. QED
    BY <1>2, <1>3, <1>4, <1>5

LEMMA EventScanInv == ScanInv /\ EventNext => ScanInv'
  <1> SUFFICES ASSUME ScanInv, EventNext PROVE ScanInv'
    OBVIOUS
  <1> USE ScanAssumption DEF ScanInv
  <1>1. CASE OnScanDone
    BY <1>1 DEF OnScanDone, ScanTypeOK, Room, FreshInv, Fresh
  <1>2. CASE UpdateEmpty
    BY <1>2, EmptyList DEF UpdateEmpty, ScanTypeOK, Room, FreshInv, Fresh
  <1>3. ASSUME NEW i \in 1..(MaxAps + 2), NEW t \in Text, event # "idle",
               t \in {Opening, Closing, aps}, s_scan_json' = Written(i, t),
               UNCHANGED <<late, aps, scan, handler, buf>>
        PROVE  /\ s_scan_json' \in [Cells -> Text] /\ s_scan_json'[MaxAps + 3] = Nul
               /\ FreshInv'
    <2>1. /\ Written(i, t) \in [Cells -> Text] /\ Written(i, t)[MaxAps + 3] = Nul
          /\ \A j \in Cells : Written(i, t)[j] \in {s_scan_json[j], t, Nul}
      BY WrittenList DEF ScanTypeOK, Room
    <2>2. ~late => aps = scan /\ t \in Fresh
      BY <1>3 DEF FreshInv, Fresh
    <2>3. \A j \in Cells : ~late => s_scan_json'[j] \in Fresh \cup {Nul}
      BY <1>3, <2>1, <2>2 DEF FreshInv
    <2>4. FreshInv'
      BY <1>3, <2>2, <2>3 DEF FreshInv, Fresh
    <2>5. QED
      BY <1>3, <2>1, <2>4
  <1>4. Opening \in Text /\ Closing \in Text /\ aps \in Text
    BY DEF Text, ScanTypeOK
  <1>5. CASE UpdateBegin
    <2>1. 1 \in 1..(MaxAps + 2) /\ 2 \in Cells
      BY DEF Cells
    <2>2. s_scan_json' \in [Cells -> Text] /\ s_scan_json'[MaxAps + 3] = Nul /\ FreshInv'
      BY <1>3, <1>4, <1>5, <2>1 DEF UpdateBegin
    <2>3. at' + found' <= MaxAps + 2
      <3>1. PICK k \in 0..MaxAps : found' = k
        BY <1>5 DEF UpdateBegin
      <3>2. at' = 2 /\ 2 + k <= MaxAps + 2
        BY <1>5 DEF UpdateBegin
      <3>3. QED
        BY <3>1, <3>2
    <2>4. QED
      BY <1>5, <2>1, <2>2, <2>3 DEF UpdateBegin, ScanTypeOK, Room
  <1>6. CASE UpdateAppend
    <2>1. at \in 1..(MaxAps + 2) /\ (found > 0 => at + 1 \in Cells /\ found - 1 \in 0..MaxAps)
            /\ 1 \in Cells /\ at + 1 + (found - 1) = at + found
      BY <1>6 DEF UpdateAppend, ScanTypeOK, Room, Cells
    <2>2. s_scan_json' \in [Cells -> Text] /\ s_scan_json'[MaxAps + 3] = Nul /\ FreshInv'
      BY <1>3, <1>4, <1>6, <2>1 DEF UpdateAppend
    <2>3. ScanTypeOK'
      BY <1>6, <2>1, <2>2 DEF UpdateAppend, ScanTypeOK
    <2>4. Room'
      BY <1>6, <2>1, <2>2 DEF UpdateAppend, Room
    <2>5. QED
      BY <2>2, <2>3, <2>4
  <1>7. QED
    BY <1>1, <1>2, <1>5, <1>6 DEF EventNext

LEMMA ScanInvariant == ScanSpec => []ScanInv
  <1>1. ScanInv /\ [ScanNext]_scan_vars => ScanInv'
    <2>1. ScanInv /\ UNCHANGED scan_vars => ScanInv'
      BY DEF scan_vars, ScanInv, ScanTypeOK, Room, FreshInv, Fresh
    <2>2. QED
      BY <2>1, HandlerScanInv, EventScanInv DEF ScanNext
  <1>2. QED
    BY <1>1, InitScanInv, PTL DEF ScanSpec

(* Neither writer nor reader of the list leaves it.                        *)
THEOREM ScanTypeCorrect == ScanSpec => []ScanTypeOK
  <1>1. ScanInv => ScanTypeOK
    BY DEF ScanInv
  <1>2. QED
    BY <1>1, ScanInvariant, PTL

(* A portal shows networks of the last scan only, half built or not.       *)
THEOREM ScanShowsLastScan == ScanSpec => []ListFromOneScan
  <1>1. ScanInv => ListFromOneScan
    BY DEF ScanInv, FreshInv, Fresh, ListFromOneScan
  <1>2. QED
    BY <1>1, ScanInvariant, PTL
----------------------------------------------------------------------------
(* The DHT11.  As long as no pulse was missed, every byte holds the bits   *)
(* of its frame read so far, save for the one byte whose pulse was timed   *)
(* badly; a full frame with one byte wrong fails the checksum, and one     *)
(* that misses a pulse never fills.                                        *)

(* How many bits of byte b have been read, and what they say.              *)
Got(b) ==
  IF bits <= 8 * (b - 1) THEN 0 ELSE IF bits >= 8 * b THEN 8 ELSE bits - 8 * (b - 1)
Top(v, n) == v \div (2^(8 - n))

Right(b) == data[b] = Top(Frame[b], Got(b))

DataInv ==
  /\ \A b \in Bytes : data[b] < 2^Got(b)
  /\ disturbed = 0 => \A b \in Bytes : Right(b)
  /\ \E e \in Bytes : \A b \in Bytes \ {e} : Right(b)

DhtInv ==
  /\ bits <= pulses /\ pulses <= bits + disturbed
  /\ bits = pulses => DataInv
  /\ ReadingIsMeasured

LEMMA FrameBytes == measured \in Measured => \A b \in Bytes : Frame[b] \in 0..255
  <1> SUFFICES ASSUME measured \in Measured PROVE \A b \in Bytes : Frame[b] \in 0..255
    OBVIOUS
  <1>1. PICK h, t \in 0..255 : h = measured[1] /\ t = measured[2]
    BY DhtAssumption
  <1>2. (h + t) % 256 \in 0..255
    OBVIOUS
  <1>3. Frame = <<h, 0, t, 0, (h + t) % 256>>
    BY <1>1 DEF Frame
  <1>4. QED
    BY <1>2, <1>3 DEF Bytes

(* One bit more, by place.                                                 *)
Powers == {1, 2, 4, 8, 16, 32, 64, 128}

LEMMA PowersOfTwo ==
  ASSUME NEW n \in 0..7
  PROVE  /\ 2^n \in Powers /\ 2^(7 - n) \in Powers
         /\ 2^(n + 1) = 2 * 2^n /\ 2^(8 - n) = 2 * 2^(7 - n) /\ 8 - (n + 1) = 7 - n
  <1>0. CASE n = 0
    BY <1>0 DEF Powers
  <1>1. CASE n = 1
    BY <1>1 DEF Powers
  <1>2. CASE n = 2
    BY <1>2 DEF Powers
  <1>3. CASE n = 3
    BY <1>3 DEF Powers
  <1>4. CASE n = 4
    BY <1>4 DEF Powers
  <1>5. CASE n = 5
    BY <1>5 DEF Powers
  <1>6. CASE n = 6
    BY <1>6 DEF Powers
  <1>7. CASE n = 7
    BY <1>7 DEF Powers
  <1>8. QED
    BY <1>0, <1>1, <1>2, <1>3, <1>4, <1>5, <1>6, <1>7

LEMMA Halves ==
  ASSUME NEW v \in 0..255, NEW p \in Powers
  PROVE  /\ v \div p = 2 * (v \div (2 * p)) + ((v \div p) % 2)
         /\ (v \div p) % 2 \in 0..1
  <1>0. CASE p = 1
    BY <1>0
  <1>1. CASE p = 2
    BY <1>1
  <1>2. CASE p = 4
    BY <1>2
  <1>3. CASE p = 8
    BY <1>3
  <1>4. CASE p = 16
    BY <1>4
  <1>5. CASE p = 32
    BY <1>5
  <1>6. CASE p = 64
    BY <1>6
  <1>7. CASE p = 128
    BY <1>7
  <1>8. QED
    BY <1>0, <1>1, <1>2, <1>3, <1>4, <1>5, <1>6, <1>7 DEF Powers

LEMMA TopGrows ==
  \A v \in 0..255, n \in 0..7, d \in 0..255, x \in 0..1 : d < 2^n =>
    /\ (2 * d + x) % 256 = 2 * d + x /\ 2 * d + x < 2^(n + 1)
    /\ Top(v, n + 1) = 2 * Top(v, n) + ((v \div (2^(7 - n))) % 2)
  <1> SUFFICES ASSUME NEW v \in 0..255, NEW n \in 0..7, NEW d \in 0..255, NEW x \in 0..1,
                      d < 2^n
               PROVE  /\ (2 * d + x) % 256 = 2 * d + x /\ 2 * d + x < 2^(n + 1)
                      /\ Top(v, n + 1) = 2 * Top(v, n) + ((v \div (2^(7 - n))) % 2)
    OBVIOUS
  <1>1. \A p \in Powers : p \in 1..128
    BY DEF Powers
  <1>2. 2^n \in 1..128 /\ 2^(n + 1) = 2 * 2^n
    BY <1>1, PowersOfTwo
  <1>3. (2 * d + x) % 256 = 2 * d + x /\ 2 * d + x < 2^(n + 1)
    BY <1>2
  <1> DEFINE p == 2^(7 - n)
  <1>4. p \in Powers /\ 2^(8 - n) = 2 * p /\ 2^(8 - (n + 1)) = p
    BY PowersOfTwo
  <1> HIDE DEF p
  <1>5. v \div p = 2 * (v \div (2 * p)) + ((v \div p) % 2) /\ (v \div p) % 2 \in 0..1
    BY <1>4, Halves
  <1>6. QED
    BY <1>3, <1>4, <1>5 DEF Top, p
LEMMA BitIsBit ==
  ASSUME measured \in Measured, NEW k \in 0..39
  PROVE  /\ Bit(k) \in 0..1 /\ (k \div 8) + 1 \in Bytes /\ k % 8 \in 0..7
         /\ Frame[(k \div 8) + 1] \in 0..255
  <1>1. (k \div 8) + 1 \in Bytes /\ k % 8 \in 0..7
    BY DEF Bytes
  <1>2. 2^(7 - (k % 8)) \in Powers
    BY <1>1, PowersOfTwo
  <1>3. Frame[(k \div 8) + 1] \in 0..255
    BY <1>1, FrameBytes
  <1>4. QED
    BY <1>1, <1>2, <1>3, Halves DEF Bit

LEMMA ShiftedBytes ==
  ASSUME data \in [Bytes -> 0..255], bits \in 0..39, NEW x \in 0..1
  PROVE  LET c == (bits \div 8) + 1
         IN  /\ Shifted(x) \in [Bytes -> 0..255] /\ Shifted(x)[c] = (2 * data[c] + x) % 256
             /\ \A b \in Bytes \ {c} : Shifted(x)[b] = data[b]
  <1> DEFINE c == (bits \div 8) + 1
  <1>1. c \in Bytes
    BY DEF Bytes
  <1>2. \A d \in 0..255 : (2 * d + x) % 256 \in 0..255
    OBVIOUS
  <1>3. Shifted(x) = [data EXCEPT ![c] = (2 * data[c] + x) % 256]
    BY DEF Shifted
  <1> HIDE DEF c
  <1>4. (2 * data[c] + x) % 256 \in 0..255
    BY <1>1, <1>2
  <1>5. QED
    BY <1>1, <1>3, <1>4 DEF c

LEMMA InitDhtType == DhtInit => DhtTypeOK
  BY DhtAssumption DEF DhtInit, DhtTypeOK, Zeros, NoReading

LEMMA BeginDhtType ==
  ASSUME NEW n \in 0..3, Begin(n)
  PROVE  /\ attempt' \in 0..3 /\ bits' \in 0..40 /\ pulses' \in 0..40
         /\ data' \in [Bytes -> 0..255] /\ disturbed' \in 0..MaxDisturbed
  BY DhtAssumption DEF Begin, Zeros

LEMMA NextDhtType == DhtTypeOK /\ [DhtNext]_dht_vars => DhtTypeOK'
  <1> SUFFICES ASSUME DhtTypeOK, [DhtNext]_dht_vars PROVE DhtTypeOK'
    OBVIOUS
  <1>1. CASE DhtRead
    <2>1. 1 \in 0..3
      OBVIOUS
    <2>2. QED
      BY <1>1, <2>1, BeginDhtType DEF DhtRead, DhtTypeOK
  <1>2. CASE DhtBit
    <2>1. bits \in 0..39 /\ pulses \in 0..39 /\ Bit(pulses) \in 0..1 /\ 1 - Bit(pulses) \in 0..1
      <3>1. bits \in 0..39 /\ pulses \in 0..39 /\ measured \in Measured
        BY <1>2 DEF DhtBit, DhtTypeOK
      <3>2. Bit(pulses) \in 0..1
        BY <3>1, BitIsBit
      <3> HIDE DEF Bit
      <3>3. QED
        BY <3>1, <3>2
    <2>2. PICK x \in 0..1 : data' = Shifted(x)
      BY <1>2, <2>1 DEF DhtBit
    <2>3. data' \in [Bytes -> 0..255]
      BY <2>1, <2>2, ShiftedBytes DEF DhtTypeOK
    <2>4. bits' \in 0..40 /\ pulses' \in 0..40 /\ disturbed' \in 0..MaxDisturbed
      BY <1>2, <2>1, DhtAssumption DEF DhtBit, DhtTypeOK
    <2>5. QED
      BY <1>2, <2>3, <2>4 DEF DhtBit, DhtTypeOK
  <1>3. CASE DhtMissed
    BY <1>3, DhtAssumption DEF DhtMissed, DhtTypeOK
  <1>4. TryAgain => \E n \in 0..3 : Begin(n)
    BY DEF TryAgain, DhtTypeOK
  <1>5. CASE DhtTimeout
    BY <1>4, <1>5, BeginDhtType DEF DhtTimeout, DhtTypeOK
  <1>6. CASE DhtCheck
    <2>1. <<data[1], data[3]>> \in (0..255) \X (0..255)
      BY DEF DhtTypeOK, Bytes
    <2>2. 0 \in 0..3
      OBVIOUS
    <2>3. QED
      BY <1>4, <1>6, <2>1, <2>2, BeginDhtType DEF DhtCheck, DhtTypeOK
  <1>7. CASE UNCHANGED dht_vars
    BY <1>7 DEF dht_vars, DhtTypeOK
  <1>8. QED
    BY <1>1, <1>2, <1>3, <1>5, <1>6, <1>7 DEF DhtNext

(* A frame is begun with nothing of it read.                               *)
LEMMA BeginDhtInv ==
  ASSUME NEW n, Begin(n), measured' \in Measured, ReadingIsMeasured'
  PROVE  DhtInv'
  <1>a. (measured \in Measured => \A b \in Bytes : Frame[b] \in 0..255)'
    BY FrameBytes, PTL
  <1>1. \A b \in Bytes : Frame'[b] \in 0..255
    BY <1>a
  <1>2. bits' = 0 /\ pulses' = 0 /\ disturbed' = 0 /\ data' = Zeros
    BY DEF Begin
  <1>3. ASSUME NEW b \in Bytes PROVE Got(b)' = 0 /\ data'[b] = 0
    BY <1>2 DEF Got, Bytes, Zeros
  <1>4. 2^0 = 1 /\ 2^(8 - 0) = 256
    OBVIOUS
  <1>5. \A v \in 0..255 : Top(v, 0) = 0
    BY <1>4 DEF Top
  <1>6. ASSUME NEW b \in Bytes PROVE data'[b] < 2^Got(b)' /\ Right(b)'
    <2>1. 2^Got(b)' = 2^0
      BY <1>3, Zenon
    <2>2. Top(Frame'[b], Got(b)') = Top(Frame'[b], 0)
      BY <1>3, Zenon
    <2>3. QED
      BY <1>1, <1>3, <1>4, <1>5, <2>1, <2>2 DEF Right
  <1>7. 1 \in Bytes
    BY DEF Bytes
  <1>8. QED
    BY <1>2, <1>6, <1>7 DEF DhtInv, DataInv

LEMMA BitDhtInv ==
  ASSUME MaxDisturbed <= 1, DhtTypeOK, DhtInv, DhtBit
  PROVE  DhtInv'
  <1>1. /\ bits \in 0..39 /\ pulses \in 0..39 /\ disturbed \in Nat /\ disturbed' \in Nat
        /\ bits' = bits + 1 /\ pulses' = pulses + 1 /\ disturbed <= disturbed'
        /\ UNCHANGED <<measured, result>> /\ measured \in Measured
    BY DEF DhtBit, DhtTypeOK
  <1>b. bits <= pulses /\ pulses <= bits + disturbed
    BY DEF DhtInv
  <1>c. bits' \in Nat /\ pulses' \in Nat /\ bits \in Nat /\ pulses \in Nat
    BY <1>1
  <1>d. \A i, j, k, l \in Nat :
          i <= j /\ j <= i + k /\ k <= l => i + 1 <= j + 1 /\ j + 1 <= i + 1 + l
    OBVIOUS
  <1>2. bits' <= pulses' /\ pulses' <= bits' + disturbed'
    BY <1>1, <1>b, <1>c, <1>d, Zenon
  <1>a. ReadingIsMeasured'
    BY <1>1 DEF DhtInv, ReadingIsMeasured
  <1>3. ASSUME bits = pulses PROVE DataInv'
    <2>a. PICK c \in Bytes, n \in 0..7, y \in 0..1 :
            c = (bits \div 8) + 1 /\ n = bits % 8 /\ y = Bit(bits)
      BY <1>1, BitIsBit
    <2>1. Frame[c] \in 0..255 /\ y = (Frame[c] \div (2^(7 - n))) % 2
      BY <1>1, <2>a, BitIsBit DEF Bit
    <2>2. Got(c) = n /\ Got(c)' = n + 1
      BY <1>1, <2>a DEF Got
    <2>3. \A b \in Bytes \ {c} : Got(b)' = Got(b)
      BY <1>1, <2>a DEF Got, Bytes
    <2>4. PICK x \in 0..1 : /\ data' = Shifted(x)
                            /\ \/ x = y /\ disturbed' = disturbed
                               \/ x = 1 - y /\ disturbed = 0 /\ disturbed' = 1
      <3>1. Bit(pulses) = y /\ 1 - y \in 0..1
        BY <1>3, <2>a
      <3>2. disturbed < MaxDisturbed => disturbed = 0
        BY <1>1, DhtAssumption
      <3>3. CASE data' = Shifted(y) /\ disturbed' = disturbed
        BY <3>3
      <3>4. CASE data' = Shifted(1 - y) /\ disturbed = 0 /\ disturbed' = disturbed + 1
        BY <3>1, <3>4
      <3>5. QED
        BY <3>1, <3>2, <3>3, <3>4 DEF DhtBit
    <2>5. data'[c] = (2 * data[c] + x) % 256 /\ \A b \in Bytes \ {c} : data'[b] = data[b]
      BY <1>1, <2>a, <2>4, ShiftedBytes DEF DhtTypeOK
    <2>6. Frame' = Frame
      BY <1>1 DEF Frame
    <2>7. DataInv
      BY <1>3 DEF DhtInv
    <2>8. data[c] \in 0..255 /\ data[c] < 2^n
      BY <2>1, <2>2, <2>7 DEF DataInv, DhtTypeOK
    <2>9. /\ data'[c] = 2 * data[c] + x /\ data'[c] < 2^(n + 1)
          /\ Top(Frame[c], n + 1) = 2 * Top(Frame[c], n) + y
      <3>1. PICK v \in 0..255, d \in 0..255 : v = Frame[c] /\ d = data[c]
        BY <2>1, <2>8
      <3>2. /\ (2 * d + x) % 256 = 2 * d + x /\ 2 * d + x < 2^(n + 1)
            /\ Top(v, n + 1) = 2 * Top(v, n) + ((v \div (2^(7 - n))) % 2)
        <4>1. d < 2^n
          BY <2>8, <3>1
        <4>2. QED
          BY <4>1, TopGrows, Zenon
      <3>3. QED
        BY <2>1, <2>5, <3>1, <3>2
    <2>10. \A b \in Bytes \ {c} : Right(b)' <=> Right(b)
      BY <2>3, <2>5, <2>6 DEF Right
    <2>11. Right(c) /\ x = y => Right(c)'
      BY <2>2, <2>6, <2>9 DEF Right
    <2>12. \A b \in Bytes : data'[b] < 2^Got(b)'
      BY <2>2, <2>3, <2>5, <2>7, <2>9 DEF DataInv
    <2>13. disturbed' = 0 => \A b \in Bytes : Right(b)'
      BY <2>1, <2>4, <2>7, <2>10, <2>11 DEF DataInv
    <2>14. \E e \in Bytes : \A b \in Bytes \ {e} : Right(b)'
      BY <2>1, <2>4, <2>7, <2>10, <2>11 DEF DataInv
    <2>15. QED
      BY <2>12, <2>13, <2>14 DEF DataInv
  <1>4. bits' = pulses' => bits = pulses
    BY <1>1
  <1>5. QED
    BY <1>2, <1>a, <1>3, <1>4 DEF DhtInv

(* In a sum of two bytes modulo 256 neither can be off alone.              *)
Low(n) == n % 256

LEMMA SumOfBytes ==
  ASSUME NEW a \in 0..255, NEW b \in 0..255, NEW c \in 0..255, Low(a + c) = Low(b + c)
  PROVE  a = b
  <1>1. Low(a + c) = IF a + c < 256 THEN a + c ELSE a + c - 256
    BY DEF Low
  <1>2. Low(b + c) = IF b + c < 256 THEN b + c ELSE b + c - 256
    BY DEF Low
  <1>3. QED
    BY <1>1, <1>2

(* Five bytes of which four are right pass the checksum only if all are.   *)
LEMMA ChecksumFinds ==
  ASSUME DhtTypeOK, Checksum, NEW e \in Bytes, \A b \in Bytes \ {e} : data[b] = Frame[b]
  PROVE  <<data[1], data[3]>> = measured
  <1>1. measured \in (0..255) \X (0..255)
    BY DhtAssumption DEF DhtTypeOK
  <1>a. measured[1] \in 0..255 /\ measured[2] \in 0..255
          /\ measured = <<measured[1], measured[2]>>
    BY <1>1
  <1>2. PICK h \in 0..255, t \in 0..255 : measured = <<h, t>>
    BY <1>a
  <1>3. Frame = <<h, 0, t, 0, (h + t) % 256>>
    BY <1>2 DEF Frame
  <1>4. data[1] \in 0..255 /\ data[2] \in 0..255 /\ data[3] \in 0..255 /\ data[4] \in 0..255
    BY DEF DhtTypeOK, Bytes
  <1>5. /\ e # 1 => data[1] = h
        /\ e # 2 => data[2] = 0
        /\ e # 3 => data[3] = t
        /\ e # 4 => data[4] = 0
        /\ e # 5 => data[5] = (h + t) % 256
    BY <1>3 DEF Bytes
  <1>6. e \in 1..5 /\ (data[1] + data[2] + data[3] + data[4]) % 256 = data[5]
    BY DEF Checksum, Bytes
  <1>7. data[1] = h /\ data[3] = t
    <2>1. CASE e = 1
      <3>1. PICK d \in 0..255 : d = data[1]
        BY <1>4
      <3>2. Low(d + t) = Low(h + t)
        <4>1. (d + 0 + t + 0) % 256 = (h + t) % 256
          BY <1>5, <1>6, <2>1, <3>1
        <4>2. QED
          BY <4>1 DEF Low
      <3>3. d = h
        BY <3>2, SumOfBytes
      <3>4. QED
        BY <1>5, <2>1, <3>1, <3>3
    <2>2. CASE e = 3
      <3>1. PICK d \in 0..255 : d = data[3]
        BY <1>4
      <3>2. Low(d + h) = Low(t + h)
        <4>1. (h + 0 + d + 0) % 256 = (h + t) % 256
          BY <1>5, <1>6, <2>2, <3>1
        <4>2. QED
          BY <4>1 DEF Low
      <3>3. d = t
        BY <3>2, SumOfBytes
      <3>4. QED
        BY <1>5, <2>2, <3>1, <3>3
    <2>3. QED
      BY <1>5, <2>1, <2>2
  <1>8. QED
    BY <1>2, <1>7

LEMMA NextDhtInv ==
  ASSUME MaxDisturbed <= 1, DhtTypeOK, DhtTypeOK', DhtInv, [DhtNext]_dht_vars
  PROVE  DhtInv'
  <1>1. CASE DhtRead
    BY <1>1, BeginDhtInv DEF DhtRead, ReadingIsMeasured, DhtTypeOK
  <1>2. CASE DhtMissed
    BY <1>2 DEF DhtMissed, DhtInv, DhtTypeOK, ReadingIsMeasured
  <1>3. TryAgain => \E n : Begin(n)
    BY DEF TryAgain
  <1>4. CASE DhtTimeout
    BY <1>3, <1>4, BeginDhtInv DEF DhtTimeout, DhtInv, ReadingIsMeasured, DhtTypeOK
  <1>5. CASE DhtCheck
    <2>1. measured' = measured /\ measured' \in Measured
      BY <1>5 DEF DhtCheck, DhtTypeOK
    <2>2. CASE ~Checksum
      BY <1>3, <1>5, <2>1, <2>2, BeginDhtInv DEF DhtCheck, DhtInv, ReadingIsMeasured
    <2>3. CASE Checksum
      <3>1. bits = 40 /\ bits = pulses /\ DataInv
        BY <1>5 DEF DhtCheck, DhtInv, DhtTypeOK
      <3>2. \A b \in Bytes : Got(b) = 8
        BY <3>1 DEF Got, Bytes
      <3>3. \A v \in 0..255 : Top(v, 8) = v
        <4>1. 2^(8 - 8) = 1
          OBVIOUS
        <4>2. QED
          BY <4>1 DEF Top
      <3>4. \A b \in Bytes : Right(b) => data[b] = Frame[b]
        BY <3>2, <3>3, FrameBytes DEF Right, DhtTypeOK
      <3>5. \E e \in Bytes : \A b \in Bytes \ {e} : data[b] = Frame[b]
        BY <3>1, <3>4 DEF DataInv
      <3>6. result' = measured' /\ Begin(0)
        BY <1>5, <2>1, <2>3, <3>5, ChecksumFinds DEF DhtCheck
      <3>7. QED
        BY <2>1, <3>6, BeginDhtInv DEF ReadingIsMeasured
    <2>4. QED
      BY <2>2, <2>3
  <1>6. CASE UNCHANGED dht_vars
    BY <1>6 DEF dht_vars, DhtInv, DataInv, Right, Got, Frame, ReadingIsMeasured
  <1>7. QED
    BY <1>1, <1>2, <1>4, <1>5, <1>6, BitDhtInv DEF DhtNext

LEMMA InitDhtInv == DhtInit => DhtInv
  <1> SUFFICES ASSUME DhtInit PROVE DhtInv
    OBVIOUS
  <1>1. \A b \in Bytes : Frame[b] \in 0..255
    BY InitDhtType, FrameBytes DEF DhtTypeOK
  <1>2. 2^0 = 1 /\ 2^(8 - 0) = 256
    OBVIOUS
  <1>3. \A v \in 0..255 : Top(v, 0) = 0
    BY <1>2 DEF Top
  <1>4. ASSUME NEW b \in Bytes PROVE Got(b) = 0 /\ data[b] = 0
    BY DEF DhtInit, Got, Bytes, Zeros
  <1>5. ASSUME NEW b \in Bytes PROVE data[b] < 2^Got(b) /\ Right(b)
    <2>1. 2^Got(b) = 2^0
      BY <1>4, Zenon
    <2>2. Top(Frame[b], Got(b)) = Top(Frame[b], 0)
      BY <1>4, Zenon
    <2>3. QED
      BY <1>1, <1>2, <1>3, <1>4, <2>1, <2>2 DEF Right
  <1>6. 1 \in Bytes
    BY DEF Bytes
  <1>7. QED
    BY <1>5, <1>6 DEF DhtInit, DhtInv, DataInv, ReadingIsMeasured

(* However often the scheduler preempts the reading, a byte stays a byte.  *)
THEOREM DhtTypeCorrect == DhtSpec => []DhtTypeOK
  BY InitDhtType, NextDhtType, PTL DEF DhtSpec

(* At most one badly timed or missed pulse in an attempt never makes a     *)
(* wrong reading: the sum catches the one, a timeout the other.            *)
THEOREM DhtReadsWhatWasMeasured ==
  ASSUME MaxDisturbed <= 1
  PROVE  DhtSpec => []ReadingIsMeasured
  <1>1. DhtInv => ReadingIsMeasured
    BY DEF DhtInv
  <1>2. DhtTypeOK /\ DhtTypeOK' /\ DhtInv /\ [DhtNext]_dht_vars => DhtInv'
    BY NextDhtInv
  <1>3. QED
    BY <1>1, <1>2, InitDhtInv, DhtTypeCorrect, PTL DEF DhtSpec
----------------------------------------------------------------------------
(* Each behaviour of MCParts is, in the variables of a component, one of   *)
(* that component: it takes its steps or stands still.                     *)

LEMMA PartSteps ==
  [PartsNext]_parts_vars =>
    /\ [FlowNext]_flow_vars /\ [TrayNext]_tray_vars /\ [HealthNext]_health_vars
    /\ [SocketsNext]_socket_vars /\ [ScanNext]_scan_vars
    /\ [OtaNext]_ota_vars /\ [DhtNext]_dht_vars
  BY DEF PartsNext, FlowPart, TrayPart, HealthPart, SocketsPart, ScanPart, OtaPart, DhtPart,
         parts_vars

LEMMA PartsAreComponents ==
  PartsSpec => /\ FlowSpec /\ TraySpec /\ HealthSpec /\ SocketsSpec
               /\ ScanSpec /\ OtaSpec /\ DhtSpec
  <1>1. PartsInit =>
          /\ FlowInit /\ TrayInit /\ HealthInit /\ SocketsInit
          /\ ScanInit /\ OtaInit /\ DhtInit
    BY DEF PartsInit
  <1>2. QED
    BY <1>1, PartSteps, PTL
       DEF PartsSpec, FlowSpec, TraySpec, HealthSpec, SocketsSpec, ScanSpec, OtaSpec, DhtSpec

(* Every component keeps its types, for every value of its constants.      *)
THEOREM PartsTypeCorrect == PartsSpec => []PartsTypeOK
  <1>1. /\ FlowTypeOK /\ TrayTypeOK /\ HealthTypeOK /\ SocketsTypeOK
        /\ ScanTypeOK /\ OtaTypeOK /\ DhtTypeOK
        => PartsTypeOK
    BY DEF PartsTypeOK
  <1>2. OtaInv => OtaTypeOK
    BY DEF OtaInv
  <1>3. QED
    BY <1>1, <1>2, PartsAreComponents, FlowTypeCorrect, TrayTypeCorrect, HealthTypeCorrect,
       SocketsTypes, ScanTypeCorrect, InitOtaInv, NextOtaInv, DhtTypeCorrect, PTL DEF OtaSpec
=============================================================================
