---------------------------- MODULE SensorHealth ----------------------------
(***************************************************************************)
(* The health engine of sensor_manager.c: the producers call               *)
(* sensor_mark_alive, the main loop calls sensor_update_health once a      *)
(* second.  Both read the 32-bit millisecond clock before they wait for    *)
(* the mutex, and the subtraction of two clock values is modulo the width  *)
(* of the clock.  Time is counted in ticks; a step that waits, or a task   *)
(* that runs late, does so for MaxLate ticks at most.                      *)
(***************************************************************************)
EXTENDS Naturals, FiniteSets

CONSTANTS
  Sensors,
  Timeout,         \* SENSOR_DHT_TIMEOUT_MS, SENSOR_FLOW_TIMEOUT_MS
  HealthPeriod,    \* the 1 s of the main loop
  Width,           \* 2^32 in the code: where now_ms() wraps
  MaxLate,         \* bound: waiting for the mutex, or for the processor
  MaxSilence       \* bound: how long a sensor may say nothing

ASSUME HealthAssumption ==
  /\ IsFiniteSet(Sensors) /\ Cardinality(Sensors) <= 10
  /\ Width \in Nat \ {0}
  /\ Timeout \in [Sensors -> 1..(Width - 1)]
  /\ HealthPeriod \in Nat \ {0}
  /\ MaxLate \in Nat /\ MaxSilence \in Nat

(* The bounds: what the code's proportions give, and no silence that spans *)
(* a wrap of the clock, which takes 49 days (a sensor that was silent for  *)
(* so long is taken for one that has just been heard, and shown alive).    *)
ASSUME SilenceAssumption == MaxLate <= MaxSilence /\ MaxSilence < Width

VARIABLES
  now,             \* now_ms()
  last_seen_ms, active, alive,     \* s_sensors
  marking,         \* per sensor: its producer is inside sensor_mark_alive
  mark_t,          \* ... with this t
  checking,        \* the main loop is inside sensor_update_health
  check_t,         \* ... with this t
  since,           \* ticks since the last check began (last_health_us)
  silence          \* history: ticks since the reading in last_seen_ms

health_vars == <<now, last_seen_ms, active, alive, marking, mark_t, checking, check_t,
          since, silence>>

Clock     == 0..(Width - 1)
Ago(t)    == (now + Width - t) % Width          \* uint32_t now - t

HealthTypeOK ==
  /\ now \in Clock
  /\ last_seen_ms \in [Sensors -> Clock]
  /\ active \in [Sensors -> BOOLEAN] /\ alive \in [Sensors -> BOOLEAN]
  /\ marking \in [Sensors -> BOOLEAN] /\ mark_t \in [Sensors -> Clock]
  /\ checking \in BOOLEAN /\ check_t \in Clock
  /\ since \in 0..(HealthPeriod + MaxLate)
  /\ silence \in [Sensors -> 0..MaxSilence]

(* sensor_register has run for each; the first check is due at once.       *)
HealthInit ==
  /\ now = 0
  /\ last_seen_ms = [s \in Sensors |-> 0]
  /\ active = [s \in Sensors |-> FALSE] /\ alive = [s \in Sensors |-> FALSE]
  /\ marking = [s \in Sensors |-> FALSE] /\ mark_t = [s \in Sensors |-> 0]
  /\ checking = FALSE /\ check_t = 0
  /\ since = HealthPeriod
  /\ silence = [s \in Sensors |-> 0]

(* Mutant: a clock that does not wrap.                                     *)
TickUnwrapped ==
  /\ since < HealthPeriod + MaxLate
  /\ checking => Ago(check_t) < MaxLate
  /\ \A s \in Sensors : marking[s] => Ago(mark_t[s]) < MaxLate
  /\ \A s \in Sensors : active[s] => silence[s] < MaxSilence
  /\ now' = now + 1
  /\ since' = since + 1
  /\ silence' = [s \in Sensors |-> IF active[s] THEN silence[s] + 1 ELSE 0]
  /\ UNCHANGED <<last_seen_ms, active, alive, marking, mark_t, checking, check_t>>

(* A tick passes unless some task would be later than MaxLate.             *)
Tick ==
  /\ since < HealthPeriod + MaxLate
  /\ checking => Ago(check_t) < MaxLate
  /\ \A s \in Sensors : marking[s] => Ago(mark_t[s]) < MaxLate
  /\ \A s \in Sensors : active[s] => silence[s] < MaxSilence
  /\ now' = (now + 1) % Width
  /\ since' = since + 1
  /\ silence' = [s \in Sensors |-> IF active[s] THEN silence[s] + 1 ELSE 0]
  /\ UNCHANGED <<last_seen_ms, active, alive, marking, mark_t, checking, check_t>>

(* A valid reading: sensor_mark_alive takes the time ...                   *)
MarkStart(s) ==
  /\ ~marking[s]
  /\ marking' = [marking EXCEPT ![s] = TRUE]
  /\ mark_t' = [mark_t EXCEPT ![s] = now]
  /\ UNCHANGED <<now, last_seen_ms, active, alive, checking, check_t, since, silence>>

(* ... and then the mutex.                                                 *)
MarkAlive(s) ==
  /\ marking[s]
  /\ last_seen_ms' = [last_seen_ms EXCEPT ![s] = mark_t[s]]
  /\ active' = [active EXCEPT ![s] = TRUE]
  /\ silence' = [silence EXCEPT ![s] = Ago(mark_t[s])]
  /\ marking' = [marking EXCEPT ![s] = FALSE]
  /\ UNCHANGED <<now, alive, mark_t, checking, check_t, since>>

(* sensor_update_health likewise.                                          *)
CheckStart ==
  /\ ~checking /\ since >= HealthPeriod
  /\ checking' = TRUE /\ check_t' = now /\ since' = 0
  /\ UNCHANGED <<now, last_seen_ms, active, alive, marking, mark_t, silence>>

(* Mutant: the timeout is one tick longer.                                 *)
JudgedLate(s) == active[s] /\ (check_t + Width - last_seen_ms[s]) % Width <= Timeout[s]

(* Mutant: a sensor that was seen once stays alive.                        *)
JudgedOnce(s) == active[s]

(* alive = active && (t - last_seen_ms) < timeout_ms, unsigned.            *)
Judged(s) == active[s] /\ (check_t + Width - last_seen_ms[s]) % Width < Timeout[s]

Check ==
  /\ checking
  /\ alive' = [s \in Sensors |-> Judged(s)]
  /\ checking' = FALSE
  /\ UNCHANGED <<now, last_seen_ms, active, marking, mark_t, check_t, since, silence>>

HealthNext == Tick \/ (\E s \in Sensors : MarkStart(s) \/ MarkAlive(s)) \/ CheckStart \/ Check

HealthSpec == HealthInit /\ [][HealthNext]_health_vars
----------------------------------------------------------------------------
(* A sensor that has been silent for its timeout and one late check more   *)
(* is not shown alive.                                                     *)
DeadDetected ==
  \A s \in Sensors :
    active[s] /\ silence[s] >= Timeout[s] + HealthPeriod + 2 * MaxLate => ~alive[s]

(* Both sides of app_config.h:33-34, "Sensor marked DEAD if no reading     *)
(* received within timeout".                                               *)

(* A sensor that was alive is marked DEAD only when its last reading is    *)
(* older than the timeout.                                                 *)
DeadOnlyIfSilent ==
  [][\A s \in Sensors : alive[s] /\ ~alive'[s] => silence[s] >= Timeout[s]]_health_vars

(* A dead sensor is RECOVERED only by a reading within the timeout (and    *)
(* the lateness of the check).                                             *)
SilentIsDead ==
  [][\A s \in Sensors :
       ~alive[s] /\ alive'[s] => silence[s] < Timeout[s] + MaxLate]_health_vars
============================================================================
