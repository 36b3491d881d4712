--------------------------- MODULE MdnsSearchApi ---------------------------
(***************************************************************************)
(* What the query functions promise to a caller, without the chain, the    *)
(* queue, the lock and the tasks: a search ends once, with no more results *)
(* than it asked for, and not before its timeout unless it has them all;   *)
(* and its memory lives until the caller has collected the results.        *)
(***************************************************************************)
EXTENDS Naturals

CONSTANTS Searches, Limits

VARIABLES
  phase,     \* "none", "pending" or "done"
  late,      \* its timeout has passed
  count,     \* results so far
  max        \* results asked for (0: all there are)

vars == <<phase, late, count, max>>

Init ==
  /\ phase = [s \in Searches |-> "none"]
  /\ late = {}
  /\ count = [s \in Searches |-> 0]
  /\ max = [s \in Searches |-> 0]

Start(s, m) ==
  /\ phase[s] = "none"
  /\ phase' = [phase EXCEPT ![s] = "pending"]
  /\ max' = [max EXCEPT ![s] = m]
  /\ UNCHANGED <<late, count>>

TimePasses(s) ==
  /\ phase[s] # "none"
  /\ late' = late \cup {s}
  /\ UNCHANGED <<phase, count, max>>

\* One record may serve several searches.
Found(S) ==
  /\ \A s \in S : phase[s] = "pending" /\ (max[s] = 0 \/ count[s] < max[s])
  /\ count' = [s \in Searches |-> IF s \in S THEN count[s] + 1 ELSE count[s]]
  /\ UNCHANGED <<phase, late, max>>

Finish(s) ==
  /\ phase[s] = "pending"
  /\ s \in late \/ (max[s] > 0 /\ count[s] >= max[s])
  /\ phase' = [phase EXCEPT ![s] = "done"]
  /\ UNCHANGED <<late, count, max>>

Collect(s) ==
  /\ phase[s] = "done"
  /\ phase' = [phase EXCEPT ![s] = "none"]
  /\ late' = late \ {s}
  /\ count' = [count EXCEPT ![s] = 0]
  /\ max' = [max EXCEPT ![s] = 0]

Next ==
  \/ \E s \in Searches : TimePasses(s) \/ Finish(s) \/ Collect(s)
  \/ \E s \in Searches, m \in Limits : Start(s, m)
  \/ \E S \in SUBSET Searches : Found(S)

Spec == Init /\ [][Next]_vars
============================================================================
