----------------------------- MODULE FlowMeter -----------------------------
(***************************************************************************)
(* The pulse counter of the flow sensor (src/src/main.c): the GPIO         *)
(* interrupt handler counts falling edges of the YF-S201, and flow_task    *)
(* takes and clears the count every measuring window.  Both run under the  *)
(* spinlock s_flow_mux, because the handler may fire on one core while the *)
(* task is between its read and its reset on the other.                    *)
(***************************************************************************)
EXTENDS Integers

CONSTANT MaxPulses          \* bound: falling edges in one behaviour

ASSUME MaxPulsesAssumption == MaxPulses \in Nat

VARIABLES
  s_pulse_count,   \* the counter the two share
  s_flow_mux,      \* who holds the spinlock: "free", "isr" or "task"
  isr,             \* "idle" or "entered" (inside portENTER_CRITICAL_ISR)
  task,            \* "delay", "reset" or "report": where flow_task is
  count,           \* flow_task's local snapshot
  edges,           \* history: falling edges the handler was called for
  reported         \* history: the pulses handed to sensor_update_flow

flow_vars == <<s_pulse_count, s_flow_mux, isr, task, count, edges, reported>>

FlowInit ==
  /\ s_pulse_count = 0
  /\ s_flow_mux = "free"
  /\ isr = "idle"
  /\ task = "delay"
  /\ count = 0
  /\ edges = 0
  /\ reported = 0

(* A critical section of the port: entering spins until the mux is free.   *)
EnterCriticalNoSpin(who) == s_flow_mux' = who     \* mutant: no exclusion
EnterCritical(who) == s_flow_mux = "free" /\ s_flow_mux' = who
ExitCritical == s_flow_mux' = "free"

(* A falling edge: flow_isr_handler is entered and takes the spinlock.     *)
IsrEnter ==
  /\ isr = "idle" /\ edges < MaxPulses
  /\ EnterCritical("isr")
  /\ isr' = "entered"
  /\ edges' = edges + 1
  /\ UNCHANGED <<s_pulse_count, task, count, reported>>

IsrCount ==
  /\ isr = "entered"
  /\ s_pulse_count' = s_pulse_count + 1
  /\ ExitCritical
  /\ isr' = "idle"
  /\ UNCHANGED <<task, count, edges, reported>>

(* flow_task: after its delay, snapshot the counter ...                    *)
TaskRead ==
  /\ task = "delay"
  /\ EnterCritical("task")
  /\ count' = s_pulse_count
  /\ task' = "reset"
  /\ UNCHANGED <<s_pulse_count, isr, edges, reported>>

TaskResetMissing ==                               \* mutant: no reset
  /\ task = "reset"
  /\ ExitCritical
  /\ task' = "report"
  /\ UNCHANGED <<s_pulse_count, isr, count, edges, reported>>

(* ... and reset it, still inside the critical section ...                 *)
TaskReset ==
  /\ task = "reset"
  /\ s_pulse_count' = 0
  /\ ExitCritical
  /\ task' = "report"
  /\ UNCHANGED <<isr, count, edges, reported>>

(* ... then hand the snapshot to the sensor manager.                       *)
TaskReport ==
  /\ task = "report"
  /\ reported' = reported + count
  /\ count' = 0
  /\ task' = "delay"
  /\ UNCHANGED <<s_pulse_count, s_flow_mux, isr, edges>>

FlowNext == IsrEnter \/ IsrCount \/ TaskRead \/ TaskReset \/ TaskReport

FlowSpec == FlowInit /\ [][FlowNext]_flow_vars
----------------------------------------------------------------------------
(* Types, and no count ever exceeds the edges there were.                  *)
FlowTypeOK ==
  /\ s_pulse_count \in 0..MaxPulses
  /\ s_flow_mux \in {"free", "isr", "task"}
  /\ isr \in {"idle", "entered"}
  /\ task \in {"delay", "reset", "report"}
  /\ count \in 0..MaxPulses
  /\ edges \in 0..MaxPulses
  /\ reported \in 0..MaxPulses

(* Pulses the handler was called for and has not added yet.                *)
InHandler == IF isr = "entered" THEN 1 ELSE 0
(* Pulses the task has taken out of the counter and not handed on yet.     *)
InTask == IF task = "report" THEN count ELSE 0

(* No pulse is lost or counted twice: whatever interleaving of the handler *)
(* on one core and flow_task on the other, every edge is in the counter,   *)
(* in the handler, in the task's snapshot or in a reported flow value.     *)
NoPulseLost == edges = reported + s_pulse_count + InHandler + InTask
=============================================================================
