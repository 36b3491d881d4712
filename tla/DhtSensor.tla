----------------------------- MODULE DhtSensor -----------------------------
(***************************************************************************)
(* A reading of the DHT11 (src/src/dht_driver.c): forty pulses, timed by a *)
(* loop the scheduler may preempt.  A preemption makes a pulse look longer *)
(* or shorter than it was, or hides an edge altogether, so that the next   *)
(* pulse is taken for this one; the wait for the pulse that then is        *)
(* missing times out.  Five bytes come of it, the last a checksum.         *)
(***************************************************************************)
EXTENDS Integers, Sequences

CONSTANTS
  Measured,        \* what the sensor may have to say: pairs <<humidity, temp>>
  MaxDisturbed     \* bound: preemptions that matter in one attempt

ASSUME DhtAssumption ==
  Measured # {} /\ Measured \subseteq (0..255) \X (0..255) /\ MaxDisturbed \in Nat

VARIABLES
  measured,        \* what the sensor has to say in this call of dht11_read
  attempt,         \* 1 to 3; 0 outside dht11_read
  bits,            \* i: bits read in this attempt
  pulses,          \* pulses the line has given in this attempt
  data,            \* the five bytes so far
  disturbed,       \* history: preemptions in this attempt
  result           \* what dht11_read last returned: <<humidity, temp>> or NoReading

dht_vars == <<measured, attempt, bits, pulses, data, disturbed, result>>

NoReading == <<>>
Bytes     == 1..5
Zeros     == [b \in Bytes |-> 0]

(* What the sensor sends, and its k-th bit, the highest of a byte first.   *)
Frame  == <<measured[1], 0, measured[2], 0, (measured[1] + measured[2]) % 256>>
Bit(k) == (Frame[(k \div 8) + 1] \div (2^(7 - (k % 8)))) % 2

DhtTypeOK ==
  /\ measured \in Measured
  /\ attempt \in 0..3 /\ bits \in 0..40 /\ pulses \in 0..40
  /\ data \in [Bytes -> 0..255]
  /\ disturbed \in 0..MaxDisturbed
  /\ result \in {NoReading} \cup ((0..255) \X (0..255))

DhtInit ==
  /\ measured = CHOOSE m \in Measured : TRUE
  /\ attempt = 0 /\ bits = 0 /\ pulses = 0 /\ data = Zeros
  /\ disturbed = 0 /\ result = NoReading
----------------------------------------------------------------------------
(* data[] = {0}, the start signal and the sensor's response.               *)
Begin(n) ==
  /\ attempt' = n /\ bits' = 0 /\ pulses' = 0 /\ data' = Zeros /\ disturbed' = 0

DhtRead ==
  /\ attempt = 0
  /\ measured' \in Measured
  /\ Begin(1)
  /\ result' = NoReading

(* data[i / 8] <<= 1, and the bit.                                         *)
Shifted(b) ==
  [data EXCEPT ![(bits \div 8) + 1] = (2 * @ + b) % 256]

(* The next pulse, timed well or badly.                                    *)
DhtBit ==
  /\ attempt > 0 /\ bits < 40 /\ pulses < 40
  /\ \/ data' = Shifted(Bit(pulses)) /\ UNCHANGED disturbed
     \/ /\ disturbed < MaxDisturbed
        /\ data' = Shifted(1 - Bit(pulses)) /\ disturbed' = disturbed + 1
  /\ bits' = bits + 1 /\ pulses' = pulses + 1
  /\ UNCHANGED <<measured, attempt, result>>

(* An edge goes by unseen, and its pulse with it.                          *)
DhtMissed ==
  /\ attempt > 0 /\ pulses < 40 /\ disturbed < MaxDisturbed
  /\ pulses' = pulses + 1 /\ disturbed' = disturbed + 1
  /\ UNCHANGED <<measured, attempt, bits, data, result>>

(* dht11_read: up to three attempts.                                       *)
TryAgain ==
  IF attempt < 3 THEN Begin(attempt + 1) ELSE Begin(0)

(* A pulse that does not come, and an answer that does not come at all.    *)
DhtTimeout ==
  /\ attempt > 0 /\ bits < 40 /\ (pulses = 40 \/ pulses = 0)
  /\ TryAgain
  /\ UNCHANGED <<measured, result>>

ChecksumLow == (data[1] + data[2] + data[3] + data[4]) % 128 = data[5] % 128   \* mutant: 7 bits
Checksum == (data[1] + data[2] + data[3] + data[4]) % 256 = data[5]

DhtCheck ==
  /\ attempt > 0 /\ bits = 40
  /\ IF Checksum
     THEN result' = <<data[1], data[3]>> /\ Begin(0)
     ELSE TryAgain /\ UNCHANGED result
  /\ UNCHANGED measured

DhtNext == DhtRead \/ DhtBit \/ DhtMissed \/ DhtTimeout \/ DhtCheck

DhtSpec == DhtInit /\ [][DhtNext]_dht_vars
----------------------------------------------------------------------------
(* With one badly timed pulse per attempt, whichever and wherever, what    *)
(* dht11_read returns is what the sensor sent: the sum modulo 256 catches  *)
(* any single bit, and a lost pulse ends in a timeout, never in a frame    *)
(* shifted by a bit.                                                       *)
ReadingIsMeasured == result # NoReading => result = measured
=============================================================================
