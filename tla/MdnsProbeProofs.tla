--------------------------- MODULE MdnsProbeProofs ---------------------------
(***************************************************************************)
(* For any number of interfaces and services, any length of the queue, and *)
(* as long as memory for packets lasts: the six invariants of MdnsProbe,   *)
(* from one inductive invariant, Inv.                                      *)
(*                                                                         *)
(* The operators of MdnsProbe take a state and give the next.  So do the   *)
(* lemmas: each says what an operator does to one interface (Same,         *)
(* Touches), and what that preserves (Sound, Kept), from the memory of one *)
(* packet up to the walks along the interfaces and the queue; the actions  *)
(* follow at the end.                                                      *)
(***************************************************************************)
EXTENDS MdnsProbe, FiniteSetTheorems, SequenceTheorems, WellFoundedInduction, TLAPS

\* What holds at 0 and goes from one number to the next holds at n.
LEMMA UpTo ==
  ASSUME NEW n \in Nat, NEW D, 0 \in D, \A i \in 1..n : i - 1 \in D => i \in D
  PROVE  n \in D
  <1> DEFINE R == OpToRel(<, Nat)
             T == {i \in 0..n : i \notin D}
  <1>1. IsWellFoundedOn(R, Nat)
    BY NatLessThanWellFounded
  <1>2. SUFFICES ASSUME n \notin D PROVE FALSE
    OBVIOUS
  <1>3. T \subseteq Nat /\ T # {}
    BY <1>2
  <1>4. \A x, y \in Nat : y < x => <<y, x>> \in R
    BY DEF OpToRel
  <1> HIDE DEF R
  <1>5. PICK x \in T : \A y \in T : <<y, x>> \notin R
    BY <1>1, <1>3, WFMin
  <1>6. x \in Nat /\ x # 0 /\ x \in 1..n
    BY <1>5
  <1>7. x - 1 \in 0..n /\ x - 1 < x
    BY <1>6
  <1>8. x - 1 \in D
    <2>1. SUFFICES ASSUME x - 1 \notin D PROVE FALSE
      OBVIOUS
    <2>2. x - 1 \in T /\ x - 1 \in Nat
      BY <1>7, <2>1
    <2> HIDE DEF T
    <2>3. QED
      BY <1>4, <1>5, <1>6, <1>7, <2>2
  <1>9. QED
    BY <1>5, <1>6, <1>8

\* step[i] takes what is in T[i - 1] to T[i]; f does the n steps from z; f keeps to T.
Leads(n, T, step) == \A i \in 1..n : \A x \in T[i - 1] : step[i][x] \in T[i]
Recurs(f, n, z, step) == f = [i \in 0..n |-> IF i = 0 THEN z ELSE step[i][f[i - 1]]]
Within(f, n, T) == \A i \in 0..n : f[i] \in T[i]

\* Such an f exists: a Walk computes what its steps say, and keeps to T.
LEMMA Recursion ==
  ASSUME NEW n \in Nat, NEW T, NEW z \in T[0], NEW step, Leads(n, T, step)
  PROVE  \E f : Recurs(f, n, z, step) /\ Within(f, n, T)
  <1> DEFINE Fits(f, m) == /\ f = [i \in 0..m |-> IF i = 0 THEN z ELSE step[i][f[i - 1]]]
                           /\ \A i \in 0..m : f[i] \in T[i]
             D == {m \in 0..n : \E f : Fits(f, m)}
  <1>1. 0 \in D
    <2> DEFINE f == [i \in 0..0 |-> z]
    <2>1. /\ 0..0 = {0} /\ f[0] = z /\ f = [i \in 0..0 |-> f[i]]
      OBVIOUS
    <2> HIDE DEF f
    <2>2. Fits(f, 0)
      BY <2>1
    <2> HIDE DEF Fits
    <2>3. 0 \in 0..n
      OBVIOUS
    <2>4. QED
      BY <2>2, <2>3
  <1>2. ASSUME NEW m \in 1..n, m - 1 \in D
        PROVE  m \in D
    <2>0. m \in Nat /\ m - 1 \in Nat /\ 0..m = 0..(m - 1) \cup {m} /\ m \notin 0..(m - 1)
      OBVIOUS
    <2>1. PICK f : Fits(f, m - 1)
      BY <1>2
    <2> DEFINE g == [i \in 0..m |-> IF i = m THEN step[m][f[m - 1]] ELSE f[i]]
    <2>2. /\ \A i \in 0..(m - 1) : f[i] \in T[i]
          /\ \A i \in 0..(m - 1) : f[i] = IF i = 0 THEN z ELSE step[i][f[i - 1]]
      BY <2>1, <1>2
    <2> HIDE DEF D, Fits
    <2>3. /\ \A i \in 0..(m - 1) : g[i] = f[i]
          /\ g[m] = step[m][f[m - 1]]
          /\ g = [i \in 0..m |-> g[i]]
      BY <2>0
    <2> HIDE DEF g
    <2>4. \A i \in 0..m : g[i] \in T[i]
      <3>1. m - 1 \in 0..(m - 1) /\ f[m - 1] \in T[m - 1]
        BY <2>0, <2>2
      <3>2. step[m][f[m - 1]] \in T[m]
        BY <3>1 DEF Leads
      <3>3. QED
        BY <2>0, <2>2, <2>3, <3>2
    <2>5. \A i \in 0..m : g[i] = IF i = 0 THEN z ELSE step[i][g[i - 1]]
      <3>1. TAKE i \in 0..m
      <3>2. CASE i = m
        <4>1. m # 0 /\ m - 1 \in 0..(m - 1)
          BY <2>0
        <4>2. g[m - 1] = f[m - 1]
          BY <2>3, <4>1
        <4>3. QED
          BY <2>3, <3>2, <4>1, <4>2
      <3>3. CASE i = 0
        BY <2>0, <2>2, <2>3, <3>3
      <3>4. CASE i # m /\ i # 0
        <4>1. i \in 0..(m - 1) /\ i - 1 \in 0..(m - 1)
          BY <2>0, <3>1, <3>4
        <4>2. g[i] = f[i] /\ g[i - 1] = f[i - 1]
          BY <2>3, <4>1
        <4>3. QED
          BY <2>2, <4>1, <4>2, <3>4
      <3>5. QED
        BY <3>2, <3>3, <3>4
    <2>6. Fits(g, m)
      BY <2>3, <2>4, <2>5 DEF Fits
    <2>7. m \in 0..n
      OBVIOUS
    <2>8. QED
      BY <2>6, <2>7 DEF D
  <1> HIDE DEF D
  <1>3. n \in D
    BY <1>1, <1>2, UpTo
  <1>4. QED
    BY <1>3 DEF D, Recurs, Within

\* So does every F that does the same steps while it keeps to T.
LEMMA Follows ==
  ASSUME NEW n \in Nat, NEW T, NEW step, Leads(n, T, step), NEW F, F[0] \in T[0],
         \A i \in 1..n : F[i - 1] \in T[i - 1] => F[i] = step[i][F[i - 1]]
  PROVE  F[n] \in T[n]
  <1> DEFINE D == {i \in 0..n : F[i] \in T[i]}
  <1>1. 0 \in D
    OBVIOUS
  <1>2. ASSUME NEW i \in 1..n, i - 1 \in D PROVE i \in D
    BY <1>2 DEF Leads
  <1> HIDE DEF D
  <1>3. n \in D
    BY <1>1, <1>2, UpTo
  <1>4. QED
    BY <1>3 DEF D

\* The elements of a sequence.
LEMMA InToSet == \A seq, x : x \in ToSet(seq) <=> \E i \in DOMAIN seq : seq[i] = x
  BY DEF ToSet

\* The elements of two sequences put together.
LEMMA ConcatSet ==
  ASSUME NEW X, NEW s \in Seq(X), NEW t \in Seq(X)
  PROVE  s \o t \in Seq(X) /\ ToSet(s \o t) = ToSet(s) \cup ToSet(t)
  <1>1. DOMAIN s = 1..Len(s) /\ DOMAIN t = 1..Len(t) /\ Len(s) \in Nat /\ Len(t) \in Nat
    OBVIOUS
  <1> DEFINE u == s \o t
  <1>2. /\ u \in Seq(X) /\ Len(u) = Len(s) + Len(t)
        /\ \A i \in 1..(Len(s) + Len(t)) : u[i] = IF i <= Len(s) THEN s[i] ELSE t[i - Len(s)]
    BY ConcatProperties
  <1>3. DOMAIN u = 1..(Len(s) + Len(t))
    BY <1>2, LenProperties
  <1> HIDE DEF u
  <1>4. ASSUME NEW i \in 1..(Len(s) + Len(t)) PROVE u[i] \in ToSet(s) \cup ToSet(t)
    <2>1. CASE i <= Len(s)
      <3>1. i \in DOMAIN s /\ u[i] = s[i]
        BY <1>1, <1>2, <2>1
      <3>2. QED
        BY <3>1, InToSet
    <2>2. CASE ~(i <= Len(s))
      <3>1. i - Len(s) \in DOMAIN t /\ u[i] = t[i - Len(s)]
        BY <1>1, <1>2, <2>2
      <3>2. QED
        BY <3>1, InToSet
    <2>3. QED
      BY <2>1, <2>2
  <1>5. ASSUME NEW i \in DOMAIN s PROVE s[i] \in ToSet(u)
    <2>1. i \in DOMAIN u /\ u[i] = s[i]
      BY <1>1, <1>2, <1>3
    <2>2. QED
      BY <2>1, InToSet
  <1>6. ASSUME NEW i \in DOMAIN t PROVE t[i] \in ToSet(u)
    <2>1. /\ Len(s) + i \in DOMAIN u /\ ~(Len(s) + i <= Len(s)) /\ Len(s) + i - Len(s) = i
          /\ Len(s) + i \in 1..(Len(s) + Len(t))
      BY <1>1, <1>3
    <2>2. u[Len(s) + i] = t[i]
      BY <1>2, <2>1
    <2>3. QED
      BY <2>1, <2>2, InToSet
  <1>7. \A x : x \in ToSet(u) <=> x \in ToSet(s) \/ x \in ToSet(t)
    BY <1>3, <1>4, <1>5, <1>6, InToSet
  <1>8. ToSet(u) = ToSet(s) \cup ToSet(t)
    BY <1>7
  <1>9. QED
    BY <1>2, <1>8 DEF u

\* What the module does with sequences, by their elements.
LEMMA ToSetOf ==
  ASSUME NEW X, NEW s \in Seq(X), NEW t \in Seq(X), NEW e \in X
  PROVE  /\ ToSet(s) \subseteq X /\ (ToSet(s) = {} <=> s = <<>>)
         /\ s \o t \in Seq(X) /\ ToSet(s \o t) = ToSet(s) \cup ToSet(t)
         /\ Append(s, e) \in Seq(X) /\ ToSet(Append(s, e)) = ToSet(s) \cup {e}
         /\ <<e>> \in Seq(X) /\ ToSet(<<e>>) = {e}
         /\ (Contains(s, e) <=> e \in ToSet(s))
  <1>1. DOMAIN s = 1..Len(s) /\ DOMAIN t = 1..Len(t) /\ Len(s) \in Nat /\ Len(t) \in Nat
    OBVIOUS
  <1>2. ToSet(s) \subseteq X
    BY <1>1 DEF ToSet
  <1>3. Contains(s, e) <=> e \in ToSet(s)
    BY <1>1, InToSet DEF Contains
  <1>4. <<e>> \in Seq(X) /\ ToSet(<<e>>) = {e}
    BY DEF ToSet
  <1>5. ToSet(s) = {} <=> s = <<>>
    <2>1. s # <<>> => 1 \in DOMAIN s
      BY <1>1, EmptySeq
    <2>2. s = <<>> => DOMAIN s = {}
      OBVIOUS
    <2>3. QED
      BY <2>1, <2>2 DEF ToSet
  <1>6. s \o t \in Seq(X) /\ ToSet(s \o t) = ToSet(s) \cup ToSet(t)
    BY ConcatSet
  <1>7. Append(s, e) \in Seq(X) /\ ToSet(Append(s, e)) = ToSet(s) \cup {e}
    <2> DEFINE u == Append(s, e)
    <2>1. /\ u \in Seq(X) /\ Len(u) = Len(s) + 1 /\ u[Len(s) + 1] = e
          /\ \A i \in 1..Len(s) : u[i] = s[i]
      BY AppendProperties
    <2>2. DOMAIN u = 1..Len(s) \cup {Len(s) + 1}
      BY <1>1, <2>1, LenProperties
    <2> HIDE DEF u
    <2>3. \A x : x \in ToSet(u) <=> x \in ToSet(s) \/ x = e
      BY <1>1, <2>1, <2>2, InToSet
    <2>4. ToSet(u) = ToSet(s) \cup {e}
      BY <2>3
    <2>5. QED
      BY <2>1, <2>4 DEF u
  <1>8. QED
    BY <1>2, <1>3, <1>4, <1>5, <1>6, <1>7

\* No element twice: the links of the queue.
Distinct(seq) == \A i, j \in DOMAIN seq : seq[i] = seq[j] => i = j

\* a is not behind b.
Ahead(seq, a, b) == \E i, j \in DOMAIN seq : i <= j /\ seq[i] = a /\ seq[j] = b

\* Only(seq, S) has the elements of seq that are in S, in the same order, and none
\* twice that seq has not.
LEMMA OnlyFacts ==
  ASSUME NEW X, NEW seq \in Seq(X), NEW S
  PROVE  /\ Only(seq, S) \in Seq(X)
         /\ ToSet(Only(seq, S)) = ToSet(seq) \cap S
         /\ Distinct(seq) => Distinct(Only(seq, S))
         /\ \A a, b : Ahead(Only(seq, S), a, b) => Ahead(seq, a, b)
  <1> DEFINE n == Len(seq)
             Step(kept, e) == IF e \in S THEN Append(kept, e) ELSE kept
             Upto(i) == {seq[j] : j \in 1..i}
             Order(i, s) == \A a, b : Ahead(s, a, b) =>
                              \E k, l \in 1..i : k <= l /\ seq[k] = a /\ seq[l] = b
             T == [i \in 0..n |-> {s \in Seq(X) : /\ ToSet(s) = Upto(i) \cap S /\ Order(i, s)
                                                 /\ (Distinct(seq) => Distinct(s))}]
             step == [i \in 1..n |-> [s \in Seq(X) |-> Step(s, seq[i])]]
             F == CHOOSE f : f = [i \in 0..n |-> IF i = 0 THEN <<>> ELSE Step(f[i - 1], seq[i])]
  <1>1. n \in Nat /\ DOMAIN seq = 1..n /\ \A i \in 1..n : seq[i] \in X
    OBVIOUS
  <1>2. <<>> \in T[0]
    <2>1. Order(0, <<>>)
      BY DEF Ahead
    <2> HIDE DEF Order
    <2>2. QED
      BY <2>1 DEF ToSet, Distinct
  <1>3. ASSUME NEW i \in 1..n, NEW s \in T[i - 1]
        PROVE  Step(s, seq[i]) \in T[i] /\ s \in Seq(X)
    <2>1. i - 1 \in 0..n /\ i \in 0..n
      BY <1>1
    <2>2. s \in Seq(X) /\ ToSet(s) = Upto(i - 1) \cap S /\ (Distinct(seq) => Distinct(s)) /\ Order(i - 1, s)
      <3> HIDE DEF Order
      <3>1. QED
        BY <2>1
    <2>3. Upto(i) = Upto(i - 1) \cup {seq[i]}
      <3>1. 1..i = 1..(i - 1) \cup {i}
        BY <1>1
      <3>2. QED
        BY <3>1
    <2>4. CASE seq[i] \notin S
      <3>1. Order(i, s)
        <4>1. \A k \in 1..(i - 1) : k \in 1..i
          BY <1>1
        <4>2. QED
          BY <2>2, <4>1
      <3> HIDE DEF Order
      <3>2. QED
        BY <2>1, <2>2, <2>3, <2>4, <3>1
    <2>5. CASE seq[i] \in S
      <3> DEFINE t == Append(s, seq[i])
      <3>1. t \in Seq(X) /\ Len(t) = Len(s) + 1 /\ t[Len(t)] = seq[i] /\ \A j \in 1..Len(s) : t[j] = s[j]
        BY <1>1, <2>2
      <3>2. DOMAIN t = 1..Len(t) /\ DOMAIN s = 1..Len(s) /\ Len(s) \in Nat
        BY <2>2, <3>1
      <3> HIDE DEF t
      <3>3. ToSet(t) = ToSet(s) \cup {seq[i]}
        BY <1>1, <2>2, ToSetOf DEF t
      <3>4. Distinct(seq) => Distinct(t)
        <4>1. SUFFICES ASSUME Distinct(seq), NEW j \in DOMAIN t, NEW k \in DOMAIN t, t[j] = t[k], j # k
                       PROVE  FALSE
          BY DEF Distinct
        <4>2. seq[i] \notin ToSet(s)
          <5>1. seq[i] \notin Upto(i - 1)
            <6>1. SUFFICES ASSUME NEW l \in 1..(i - 1), seq[l] = seq[i] PROVE FALSE
              OBVIOUS
            <6>2. l \in DOMAIN seq /\ i \in DOMAIN seq /\ l # i
              BY <1>1
            <6>3. QED
              BY <4>1, <6>1, <6>2 DEF Distinct
          <5> HIDE DEF Upto
          <5>2. QED
            BY <2>2, <5>1
        <4>3. \A l \in 1..Len(s) : s[l] # seq[i]
          BY <3>2, <4>2 DEF ToSet
        <4>4. Distinct(s)
          BY <2>2, <4>1
        <4>5. j \in 1..Len(s) \/ j = Len(t)
          BY <3>1, <3>2
        <4>6. k \in 1..Len(s) \/ k = Len(t)
          BY <3>1, <3>2
        <4>7. QED
          BY <3>1, <3>2, <4>1, <4>3, <4>4, <4>5, <4>6 DEF Distinct
      <3>5. Step(s, seq[i]) = t
        BY <2>5 DEF t
      <3>6. Order(i, t)
        <4>1. SUFFICES ASSUME NEW a, NEW b, NEW j \in DOMAIN t, NEW k \in DOMAIN t,
                              j <= k, t[j] = a, t[k] = b
                       PROVE  \E l1, l2 \in 1..i : l1 <= l2 /\ seq[l1] = a /\ seq[l2] = b
          BY DEF Ahead
        <4>2. CASE k <= Len(s)
          <5>1. j \in DOMAIN s /\ k \in DOMAIN s /\ s[j] = a /\ s[k] = b
            BY <3>1, <3>2, <4>1, <4>2
          <5>2. Ahead(s, a, b)
            BY <4>1, <5>1 DEF Ahead
          <5>3. PICK l1, l2 \in 1..(i - 1) : l1 <= l2 /\ seq[l1] = a /\ seq[l2] = b
            BY <2>2, <5>2
          <5>4. l1 \in 1..i /\ l2 \in 1..i
            BY <1>1
          <5>5. QED
            BY <5>3, <5>4
        <4>3. CASE ~(k <= Len(s)) /\ j <= Len(s)
          <5>1. j \in DOMAIN s /\ s[j] = a /\ b = seq[i]
            BY <3>1, <3>2, <4>1, <4>3
          <5>2. a \in Upto(i - 1)
            BY <2>2, <5>1 DEF ToSet
          <5>3. PICK l1 \in 1..(i - 1) : seq[l1] = a
            BY <5>2
          <5>4. l1 \in 1..i /\ i \in 1..i /\ l1 <= i
            BY <1>1
          <5>5. QED
            BY <5>1, <5>3, <5>4
        <4>4. CASE ~(k <= Len(s)) /\ ~(j <= Len(s))
          <5>1. a = seq[i] /\ b = seq[i]
            BY <3>1, <3>2, <4>1, <4>4
          <5>2. i \in 1..i /\ i <= i
            BY <1>1
          <5>3. QED
            BY <5>1, <5>2
        <4>5. QED
          BY <4>2, <4>3, <4>4
      <3> HIDE DEF Upto, Order
      <3>7. ToSet(t) = Upto(i) \cap S
        BY <2>2, <2>3, <2>5, <3>3
      <3>8. QED
        BY <2>1, <2>2, <3>1, <3>4, <3>5, <3>6, <3>7
    <2>6. QED
      BY <2>2, <2>4, <2>5
  <1>4. \A i \in 1..n : \A s \in T[i - 1] : step[i][s] \in T[i]
    BY <1>3
  <1>5. \A i \in 1..n : \A s \in T[i - 1] : step[i][s] = Step(s, seq[i])
    BY <1>3
  <1>6. \A s \in T[n] : /\ s \in Seq(X) /\ ToSet(s) = ToSet(seq) \cap S
                        /\ (Distinct(seq) => Distinct(s))
                        /\ \A a, b : Ahead(s, a, b) => Ahead(seq, a, b)
    <2>1. n \in 0..n /\ Upto(n) = ToSet(seq)
      BY <1>1 DEF ToSet
    <2>2. ASSUME NEW s, Order(n, s), NEW a, NEW b, Ahead(s, a, b) PROVE Ahead(seq, a, b)
      <3>1. PICK k, l \in 1..n : k <= l /\ seq[k] = a /\ seq[l] = b
        BY <2>2
      <3>2. QED
        BY <1>1, <3>1 DEF Ahead
    <2> HIDE DEF Upto, Order
    <2>3. QED
      BY <2>1, <2>2
  <1> HIDE DEF T, step, Step, n
  <1>7. PICK f : Recurs(f, n, <<>>, step) /\ Within(f, n, T)
    <2>1. Leads(n, T, step)
      BY <1>4 DEF Leads
    <2>2. QED
      BY <1>1, <1>2, <2>1, Recursion
  <1>8. \A i \in 1..n : i - 1 \in 0..n
    BY <1>1
  <1>9. f = [i \in 0..n |-> IF i = 0 THEN <<>> ELSE Step(f[i - 1], seq[i])]
    BY <1>1, <1>5, <1>7, <1>8 DEF Recurs, Within
  <1>10. F = [i \in 0..n |-> IF i = 0 THEN <<>> ELSE Step(F[i - 1], seq[i])]
    BY <1>9
  <1>11. Only(seq, S) = F[n]
    BY DEF Only, Walk, Step, n
  <1> HIDE DEF F
  <1>12. F[n] \in T[n]
    <2>1. Leads(n, T, step)
      BY <1>4 DEF Leads
    <2>2. F[0] \in T[0]
      BY <1>1, <1>2, <1>10
    <2>3. \A i \in 1..n : F[i] = Step(F[i - 1], seq[i])
      BY <1>1, <1>10
    <2>4. \A i \in 1..n : F[i - 1] \in T[i - 1] => F[i] = step[i][F[i - 1]]
      BY <1>5, <2>3
    <2>5. QED
      BY <1>1, <2>1, <2>2, <2>4, Follows
  <1>13. QED
    BY <1>6, <1>11, <1>12

\* A walk along PcbSeq meets every interface once.
LEMMA PcbSeqFacts ==
  /\ PcbSeq \in Seq(Pcbs) /\ ToSet(PcbSeq) = Pcbs /\ Distinct(PcbSeq)
  <1> DEFINE n == Cardinality(Pcbs)
             S == [1..n -> Pcbs]
  <1>1. n \in Nat /\ ExistsBijection(1..n, Pcbs)
    BY ProbeAssumption, FS_CardinalityType
  <1>2. \E f \in S : IsInjective(f)
    BY <1>1 DEF ExistsBijection, Bijection, Injection, IsInjective
  <1>3. PcbSeq \in S /\ IsInjective(PcbSeq)
    BY <1>2 DEF PcbSeq, SetToSeq
  <1>4. PcbSeq \in Surjection(1..n, Pcbs)
    <2>1. PcbSeq \in Injection(1..n, Pcbs)
      BY <1>3 DEF Injection, IsInjective
    <2>2. Cardinality(1..n) = n
      BY <1>1, FS_Interval
    <2>3. QED
      BY <2>1, <2>2, ProbeAssumption, FS_Injection
  <1>5. QED
    BY <1>1, <1>3, <1>4 DEF Surjection, IsInjective, Distinct, ToSet

\* t is seq with a behind the first packets.
Inserted(seq, t, a, at) ==
  \A b, c : Ahead(t, b, c) =>
    \/ c = a \/ Ahead(seq, b, c)
    \/ b = a /\ \E j \in DOMAIN seq : j > at /\ seq[j] = c

\* A packet put into the queue at any place.
LEMMA InsertFacts ==
  ASSUME NEW X, NEW seq \in Seq(X), NEW a \in X, NEW at \in 0..Len(seq)
  PROVE  LET t == SubSeq(seq, 1, at) \o <<a>> \o SubSeq(seq, at + 1, Len(seq))
         IN /\ t \in Seq(X) /\ ToSet(t) = ToSet(seq) \cup {a}
            /\ Distinct(seq) /\ a \notin ToSet(seq) => Distinct(t)
            /\ Inserted(seq, t, a, at)
  <1> DEFINE n == Len(seq)
             t == SubSeq(seq, 1, at) \o <<a>> \o SubSeq(seq, at + 1, Len(seq))
  <1>1. n \in Nat /\ at \in Nat /\ at <= n /\ DOMAIN seq = 1..n
    OBVIOUS
  <1>2. /\ t \in Seq(X) /\ Len(t) = n + 1
        /\ \A i \in 1..(n + 1) : t[i] = IF i <= at THEN seq[i] ELSE IF i = at + 1 THEN a ELSE seq[i - 1]
        /\ ToSet(t) = ToSet(seq) \cup {a}
    <2> DEFINE l == SubSeq(seq, 1, at)
               r == SubSeq(seq, at + 1, n)
               one == <<a>>
               m == l \o one
    <2>1. /\ l \in Seq(X) /\ Len(l) = at /\ \A i \in 1..at : l[i] = seq[i]
      <3>1. \A i \in 1..at : seq[i] \in X
        BY <1>1
      <3>2. QED
        BY <1>1, <3>1, SubSeqProperties
    <2>2. /\ r \in Seq(X) /\ Len(r) = n - at /\ \A i \in 1..(n - at) : r[i] = seq[at + i]
      <3>1. \A i \in (at + 1)..n : seq[i] \in X
        BY <1>1
      <3>2. at + 1 \in Int /\ n \in Int
        BY <1>1
      <3>3. /\ r \in Seq(X) /\ Len(r) = IF at + 1 <= n THEN n - (at + 1) + 1 ELSE 0
            /\ \A i \in 1..(n - (at + 1) + 1) : r[i] = seq[at + 1 + i - 1]
        BY <3>1, <3>2, SubSeqProperties
      <3> HIDE DEF r
      <3>4. n - (at + 1) + 1 = n - at /\ \A i \in 1..(n - at) : at + 1 + i - 1 = at + i
        BY <1>1
      <3>5. QED
        BY <1>1, <3>3, <3>4
    <2>3. l \o r = seq
      <3>1. 1 \in 1..(n + 1) /\ at \in (1 - 1)..n /\ n \in at..n
        BY <1>1
      <3>2. SubSeq(seq, 1, n) = seq
        BY SubSeqFull
      <3>3. l \o r = SubSeq(seq, 1, n)
        BY <3>1, ConcatAdjacentSubSeq
      <3>4. QED
        BY <3>2, <3>3
    <2> HIDE DEF l, r, n
    <2>4. one \in Seq(X) /\ Len(one) = 1 /\ one[1] = a /\ ToSet(one) = {a}
      BY DEF ToSet
    <2> HIDE DEF one
    <2>5. /\ m \in Seq(X) /\ Len(m) = at + 1
          /\ \A i \in 1..(at + 1) : m[i] = IF i <= at THEN seq[i] ELSE a
      <3>1. /\ m \in Seq(X) /\ Len(m) = at + 1
            /\ \A i \in 1..(at + 1) : m[i] = IF i <= at THEN l[i] ELSE one[i - at]
        <4>1. /\ m \in Seq(X) /\ Len(m) = Len(l) + Len(one)
              /\ \A i \in 1..(Len(l) + Len(one)) : m[i] = IF i <= Len(l) THEN l[i] ELSE one[i - Len(l)]
          BY <2>1, <2>4, ConcatProperties
        <4> HIDE DEF m
        <4>2. QED
          BY <2>1, <2>4, <4>1
      <3> HIDE DEF m
      <3>2. \A i \in 1..(at + 1) : ~(i <= at) => i - at = 1
        BY <1>1
      <3>3. QED
        BY <1>1, <2>1, <2>4, <3>1, <3>2
    <2>6. t = m \o r
      BY DEF t, l, r, n, m, one
    <2>7. ToSet(m) = ToSet(l) \cup {a} /\ ToSet(seq) = ToSet(l) \cup ToSet(r)
      <3>1. ToSet(m) = ToSet(l) \cup ToSet(one)
        BY <2>1, <2>4, ConcatSet
      <3>2. ToSet(l \o r) = ToSet(l) \cup ToSet(r)
        BY <2>1, <2>2, ConcatSet
      <3>3. QED
        BY <2>3, <2>4, <3>1, <3>2
    <2> HIDE DEF m, t
    <2>8. /\ t \in Seq(X) /\ Len(t) = n + 1
          /\ \A i \in 1..(n + 1) : t[i] = IF i <= at + 1 THEN m[i] ELSE r[i - (at + 1)]
      <3>1. /\ t \in Seq(X) /\ Len(t) = (at + 1) + (n - at)
            /\ \A i \in 1..((at + 1) + (n - at)) : t[i] = IF i <= at + 1 THEN m[i] ELSE r[i - (at + 1)]
        <4>1. /\ m \o r \in Seq(X) /\ Len(m \o r) = Len(m) + Len(r)
              /\ \A i \in 1..(Len(m) + Len(r)) : (m \o r)[i] = IF i <= Len(m) THEN m[i] ELSE r[i - Len(m)]
          BY <2>2, <2>5, ConcatProperties
        <4>2. QED
          BY <2>2, <2>5, <2>6, <4>1
      <3>2. (at + 1) + (n - at) = n + 1
        BY <1>1
      <3>3. QED
        BY <3>1, <3>2
    <2>9. ToSet(t) = ToSet(m) \cup ToSet(r)
      BY <2>2, <2>5, <2>6, ConcatSet
    <2>10. ASSUME NEW i \in 1..(n + 1)
           PROVE  t[i] = IF i <= at THEN seq[i] ELSE IF i = at + 1 THEN a ELSE seq[i - 1]
      <3>1. CASE i <= at + 1
        BY <1>1, <2>5, <2>8, <3>1
      <3>2. CASE ~(i <= at + 1)
        <4>1. i - (at + 1) \in 1..(n - at) /\ at + (i - (at + 1)) = i - 1 /\ ~(i <= at) /\ i # at + 1
          BY <1>1, <3>2
        <4>2. QED
          BY <2>2, <2>8, <3>2, <4>1
      <3>3. QED
        BY <3>1, <3>2
    <2>11. QED
      BY <2>7, <2>8, <2>9, <2>10
  <1>4. DOMAIN t = 1..(n + 1)
    <2> HIDE DEF t
    <2>1. QED
      BY <1>2
  <1> HIDE DEF t, n
  <1>6. ASSUME Distinct(seq), a \notin ToSet(seq) PROVE Distinct(t)
    <2>1. \A i \in 1..n : seq[i] # a
      BY <1>1, <1>6 DEF ToSet
    <2>2. SUFFICES ASSUME NEW i \in 1..(n + 1), NEW j \in 1..(n + 1), t[i] = t[j] PROVE i = j
      BY <1>4 DEF Distinct
    <2>3. \A k \in 1..n, l \in 1..n : seq[k] = seq[l] => k = l
      BY <1>1, <1>6 DEF Distinct
    <2>4. QED
      BY <1>1, <1>2, <2>1, <2>2, <2>3
  <1>7. ASSUME NEW b, NEW c, Ahead(t, b, c), c # a
        PROVE  \/ Ahead(seq, b, c)
               \/ b = a /\ \E j \in DOMAIN seq : j > at /\ seq[j] = c
    <2>1. PICK i \in 1..(n + 1), j \in 1..(n + 1) : i <= j /\ t[i] = b /\ t[j] = c
      BY <1>4, <1>7 DEF Ahead
    <2> DEFINE k == IF j <= at THEN j ELSE j - 1
               l == IF i <= at THEN i ELSE i - 1
    <2>2. j # at + 1 /\ k \in 1..n /\ seq[k] = c /\ (j > at => k > at)
      BY <1>1, <1>2, <1>7, <2>1
    <2>3. CASE i = at + 1
      <3>1. b = a /\ k > at
        BY <1>1, <1>2, <2>1, <2>2, <2>3
      <3>2. QED
        BY <1>1, <2>2, <3>1
    <2>4. CASE i # at + 1
      <3>1. l \in 1..n /\ seq[l] = b /\ l <= k
        BY <1>1, <1>2, <2>1, <2>2, <2>4
      <3>2. QED
        BY <1>1, <2>2, <3>1 DEF Ahead
    <2>5. QED
      BY <2>3, <2>4
  <1>8. Inserted(seq, t, a, at)
    BY <1>7 DEF Inserted
  <1>9. QED
    BY <1>2, <1>6, <1>8 DEF t, n

\* The first packet taken out of the queue.
LEMMA TailFacts ==
  ASSUME NEW X, NEW seq \in Seq(X), seq # <<>>, Distinct(seq)
  PROVE  /\ Tail(seq) \in Seq(X) /\ Distinct(Tail(seq)) /\ Head(seq) \in ToSet(seq)
         /\ ToSet(Tail(seq)) = ToSet(seq) \ {Head(seq)}
         /\ \A a, b : Ahead(Tail(seq), a, b) => Ahead(seq, a, b)
  <1> DEFINE n == Len(seq)
             t == Tail(seq)
  <1>1. n \in Nat /\ n > 0 /\ DOMAIN seq = 1..n /\ Head(seq) = seq[1] /\ 1 \in 1..n
    OBVIOUS
  <1>2. t \in Seq(X) /\ DOMAIN t = 1..(n - 1) /\ \A i \in 1..(n - 1) : t[i] = seq[i + 1] /\ i + 1 \in 1..n
    OBVIOUS
  <1> HIDE DEF t, n
  <1>3. Distinct(t)
    <2>1. SUFFICES ASSUME NEW i \in 1..(n - 1), NEW j \in 1..(n - 1), t[i] = t[j] PROVE i = j
      BY <1>2 DEF Distinct
    <2>2. i + 1 \in DOMAIN seq /\ j + 1 \in DOMAIN seq /\ seq[i + 1] = seq[j + 1]
      BY <1>1, <1>2, <2>1
    <2>3. i + 1 = j + 1
      BY <2>2 DEF Distinct
    <2>4. QED
      BY <1>1, <2>3
  <1>4. \A i \in 1..n : i # 1 => i - 1 \in 1..(n - 1) /\ t[i - 1] = seq[i]
    BY <1>1, <1>2
  <1>5. ToSet(t) = ToSet(seq) \ {Head(seq)}
    <2>1. ASSUME NEW i \in 1..(n - 1) PROVE t[i] \in ToSet(seq) /\ t[i] # seq[1]
      <3>1. i + 1 \in 1..n /\ i + 1 # 1 /\ t[i] = seq[i + 1]
        BY <1>1, <1>2
      <3>2. QED
        BY <1>1, <3>1, InToSet DEF Distinct
    <2>2. \A x : x \in ToSet(t) <=> x \in ToSet(seq) /\ x # Head(seq)
      <3>1. ASSUME NEW x \in ToSet(t) PROVE x \in ToSet(seq) /\ x # Head(seq)
        <4>1. PICK i \in 1..(n - 1) : t[i] = x
          BY <1>2, InToSet
        <4>2. QED
          BY <1>1, <2>1, <4>1
      <3>2. ASSUME NEW x \in ToSet(seq), x # Head(seq) PROVE x \in ToSet(t)
        <4>1. PICK i \in 1..n : seq[i] = x
          BY <1>1, InToSet
        <4>2. i # 1
          BY <1>1, <3>2, <4>1
        <4>3. QED
          BY <1>2, <1>4, <4>1, <4>2, InToSet
      <3>3. QED
        BY <3>1, <3>2
    <2>3. QED
      BY <2>2
  <1>6. ASSUME NEW a, NEW b, Ahead(t, a, b) PROVE Ahead(seq, a, b)
    <2>1. PICK i \in 1..(n - 1), j \in 1..(n - 1) : i <= j /\ t[i] = a /\ t[j] = b
      BY <1>2, <1>6 DEF Ahead
    <2>2. i + 1 \in 1..n /\ j + 1 \in 1..n /\ i + 1 <= j + 1 /\ seq[i + 1] = a /\ seq[j + 1] = b
      BY <1>1, <1>2, <2>1
    <2>3. QED
      BY <1>1, <2>2 DEF Ahead
  <1>7. QED
    BY <1>1, <1>2, <1>3, <1>5, <1>6, InToSet DEF t
-----------------------------------------------------------------------------
\* The types of the packets, the interfaces and the state Now.
Kinds == {"probe", "announce", "update", "answer"}
States == {"OFF", "PROBE_1", "PROBE_2", "PROBE_3", "ANNOUNCE_1", "ANNOUNCE_2",
           "ANNOUNCE_3", "RUNNING"}
Names == Services \cup {Host}

Packets ==
  [kind : Kinds, pcb : Pcbs, asks : Seq(Names), hosts : SUBSET Services,
   servers : SUBSET Names, answers : SUBSET Names, due : BOOLEAN, queued : BOOLEAN,
   sent : 0..3, renamed : BOOLEAN, shared : BOOLEAN]
Interfaces == [ready : BOOLEAN, state : States, probes : Seq(Services), ip : BOOLEAN]
Sendings ==
  [tx : Seq(Addrs), mem : [Addrs -> Packets \cup {Free}], pcb : [Pcbs -> Interfaces],
   named : BOOLEAN]

\* The queue has no packet twice, and the memory in use is that of the queue and,
\* in between two steps of an operation, of the packets in loose.
Shaped(st, loose) ==
  /\ st \in Sendings
  /\ Distinct(st.tx)
  /\ \A a \in Addrs : st.mem[a] # Free <=> a \in ToSet(st.tx) \cup loose
  /\ loose \cap ToSet(st.tx) = {}

\* What is due stands before what is not, what is marked as queued before what is not,
\* and is due: the order in which the packets will be sent.
Blank(m) == ~m.due /\ ~m.queued
InLine(st) ==
  \A a, b : Ahead(st.tx, a, b) =>
    /\ st.mem[b].due => st.mem[a].due
    /\ st.mem[b].queued => st.mem[a].queued /\ st.mem[b].due

\* r has the packets that were due in st, or some of them, in the same order and with
\* the same marks; what else it has is behind them.
Calm(st, r) == InLine(st) =>
  \A a, b : Ahead(r.tx, a, b) =>
    \/ Blank(r.mem[b])
    \/ /\ Ahead(st.tx, a, b)
       /\ r.mem[a].due = st.mem[a].due /\ r.mem[a].queued = st.mem[a].queued
       /\ r.mem[b].due = st.mem[b].due /\ r.mem[b].queued = st.mem[b].queued

LEMMA CalmInLine ==
  ASSUME NEW st, NEW r, Calm(st, r), InLine(st)
  PROVE  InLine(r)
  BY DEF Calm, InLine, Blank

LEMMA CalmTwice ==
  ASSUME NEW st, NEW s, NEW r, Calm(st, s), Calm(s, r)
  PROVE  Calm(st, r)
  <1>1. InLine(st) => InLine(s)
    BY CalmInLine
  <1>2. QED
    BY <1>1 DEF Calm, Blank

LEMMA StillCalm == \A st : Calm(st, st)
  BY DEF Calm

\* The marks of the packets of r are those they had in st, in the same order.
LEMMA FewerCalm ==
  ASSUME NEW st, NEW r, \A a, b : Ahead(r.tx, a, b) => Ahead(st.tx, a, b),
         \A a \in ToSet(r.tx) : r.mem[a].due = st.mem[a].due /\ r.mem[a].queued = st.mem[a].queued
  PROVE  Calm(st, r)
  <1>1. \A a, b : Ahead(r.tx, a, b) => a \in ToSet(r.tx) /\ b \in ToSet(r.tx)
    BY InToSet DEF Ahead
  <1>2. QED
    BY <1>1 DEF Calm

\* Memory for one more packet is always there.  (In the run five addresses are enough:
\* TLC would stop at a NewAddr without one.)  The code that runs out of memory gives up
\* the packet with an error message.
MemoryLasts == ~IsFiniteSet(Addrs)

\* The fields of a state.
LEMMA SendingFields ==
  ASSUME NEW st \in Sendings
  PROVE  /\ st.tx \in Seq(Addrs) /\ st.mem \in [Addrs -> Packets \cup {Free}]
         /\ st.pcb \in [Pcbs -> Interfaces] /\ st.named \in BOOLEAN
         /\ ToSet(st.tx) \subseteq Addrs
  <1>1. /\ st.tx \in Seq(Addrs) /\ st.mem \in [Addrs -> Packets \cup {Free}]
        /\ st.pcb \in [Pcbs -> Interfaces] /\ st.named \in BOOLEAN
    BY DEF Sendings
  <1>2. QED
    BY <1>1 DEF ToSet

\* A packet is not free memory.
LEMMA PacketIsNotFree == \A m \in Packets : m # Free
  BY DEF Packets, Free, Kinds

\* PutPacket and PutPcb change one entry and keep the types.
LEMMA PutPacketFacts ==
  ASSUME NEW st \in Sendings, NEW a \in Addrs, NEW m \in Packets \cup {Free}
  PROVE  LET r == PutPacket(st, a, m)
         IN /\ r \in Sendings /\ r.tx = st.tx /\ r.pcb = st.pcb /\ r.named = st.named
            /\ r.mem = [st.mem EXCEPT ![a] = m]
  BY DEF PutPacket, Sendings

LEMMA PutPcbFacts ==
  ASSUME NEW st \in Sendings, NEW p \in Pcbs, NEW c \in Interfaces
  PROVE  LET r == PutPcb(st, p, c)
         IN /\ r \in Sendings /\ r.tx = st.tx /\ r.mem = st.mem /\ r.named = st.named
            /\ r.pcb = [st.pcb EXCEPT ![p] = c]
  BY DEF PutPcb, Sendings

\* The queue is finite, so memory that lasts has a free address (NewAddrFacts).
LEMMA TxFinite == \A seq \in Seq(Addrs) : IsFiniteSet(ToSet(seq))
  <1>1. SUFFICES ASSUME NEW seq \in Seq(Addrs) PROVE IsFiniteSet(ToSet(seq))
    OBVIOUS
  <1>2. Len(seq) \in Nat /\ DOMAIN seq = 1..Len(seq)
    OBVIOUS
  <1>3. IsFiniteSet(1..Len(seq))
    BY <1>2, FS_Interval
  <1> DEFINE f == [i \in 1..Len(seq) |-> seq[i]]
  <1>4. f \in Surjection(1..Len(seq), ToSet(seq))
    BY <1>2 DEF Surjection, ToSet
  <1>5. QED
    BY <1>3, <1>4, FS_Surjection

LEMMA NewAddrFacts ==
  ASSUME MemoryLasts, NEW st, NEW loose, Shaped(st, loose), IsFiniteSet(loose)
  PROVE  /\ NewAddr(st) \in Addrs /\ st.mem[NewAddr(st)] = Free
         /\ NewAddr(st) \notin ToSet(st.tx) \cup loose
  <1>1. IsFiniteSet(ToSet(st.tx) \cup loose)
    BY TxFinite, SendingFields, FS_Union DEF Shaped
  <1>2. ~(Addrs \subseteq ToSet(st.tx) \cup loose)
    BY <1>1, FS_Subset DEF MemoryLasts
  <1>3. \E a \in Addrs : st.mem[a] = Free
    BY <1>2 DEF Shaped
  <1>4. NewAddr(st) \in Addrs /\ st.mem[NewAddr(st)] = Free
    BY <1>3 DEF NewAddr
  <1>5. QED
    BY <1>4 DEF Shaped

\* SendAfter puts the packet at a into the queue, at the end or not; PlaceFacts makes it
\* first; ClearTx takes packets out and gives them back.
LEMMA SendAfterFacts ==
  ASSUME NEW st, NEW a \in Addrs, Shaped(st, {a}), NEW slot \in Slots
  PROVE  LET r == SendAfter(st, a, slot)
         IN /\ Shaped(r, {}) /\ ToSet(r.tx) = ToSet(st.tx) \cup {a}
            /\ r.mem = st.mem /\ r.pcb = st.pcb /\ r.named = st.named
            /\ Blank(st.mem[a]) => Calm(st, r)
  <1> DEFINE n == Len(st.tx)
             D == {i \in DOMAIN st.tx : st.mem[st.tx[i]].due}
             k == slot[st.mem[a].pcb]
             at == IF k > n THEN n ELSE IF k < Cardinality(D) THEN Cardinality(D) ELSE k
             t == SubSeq(st.tx, 1, at) \o <<a>> \o SubSeq(st.tx, at + 1, n)
             r == SendAfter(st, a, slot)
  <1>1. st.tx \in Seq(Addrs) /\ n \in Nat /\ DOMAIN st.tx = 1..n /\ st \in Sendings
    BY SendingFields DEF Shaped
  <1>2. Cardinality(D) \in 0..n
    <2>1. IsFiniteSet(1..n) /\ Cardinality(1..n) = n
      BY <1>1, FS_Interval
    <2>2. D \in SUBSET (1..n)
      BY <1>1
    <2> HIDE DEF D
    <2>3. IsFiniteSet(D) /\ Cardinality(D) <= n
      BY <2>1, <2>2, FS_Subset
    <2>4. QED
      BY <1>1, <2>3, FS_CardinalityType
  <1>3. at \in 0..n
    <2>1. st.mem[a] \in Packets
      BY SendingFields DEF Shaped
    <2>2. st.mem[a].pcb \in Pcbs
      BY <2>1 DEF Packets
    <2>3. k \in Nat
      BY <2>2, ProbeAssumption DEF Slots
    <2> HIDE DEF D, k, n
    <2>4. QED
      BY <1>1, <1>2, <2>3
  <1>4. r = [st EXCEPT !.tx = t]
    BY DEF SendAfter
  <1>5. Cardinality(D) <= at
    <2> HIDE DEF D, k, n
    <2>1. QED
      BY <1>1, <1>2, <1>3 DEF at
  <1>6. ASSUME InLine(st), NEW j \in 1..n, j > at PROVE Blank(st.mem[st.tx[j]])
    <2>1. SUFFICES ASSUME st.mem[st.tx[j]].due PROVE FALSE
      <3>1. Ahead(st.tx, st.tx[j], st.tx[j])
        BY <1>1 DEF Ahead
      <3>2. st.mem[st.tx[j]].queued => st.mem[st.tx[j]].due
        BY <1>6, <3>1 DEF InLine
      <3>3. QED
        BY <3>2 DEF Blank
    <2>2. ASSUME NEW i \in 1..j PROVE i \in D
      <3>1. i \in 1..n /\ i <= j
        BY <1>1
      <3>2. Ahead(st.tx, st.tx[i], st.tx[j])
        BY <1>1, <3>1 DEF Ahead
      <3>3. st.mem[st.tx[i]].due
        BY <1>6, <2>1, <3>2 DEF InLine
      <3>4. QED
        BY <1>1, <3>1, <3>3
    <2>3. D \subseteq 1..n
      BY <1>1
    <2> HIDE DEF D, at, n
    <2>4. 1..j \subseteq D /\ j \in Nat
      BY <1>1, <2>2
    <2>5. IsFiniteSet(D) /\ Cardinality(1..j) = j
      <3>1. IsFiniteSet(1..n)
        BY <1>1, FS_Interval
      <3>2. IsFiniteSet(D)
        BY <2>3, <3>1, FS_Subset
      <3>3. Cardinality(1..j) = j
        <4>1. 1 \in Int /\ j \in Int /\ ~(1 > j) /\ j - 1 + 1 = j
          BY <1>1
        <4>2. QED
          BY <4>1, FS_Interval
      <3>4. QED
        BY <3>2, <3>3
    <2>6. j <= Cardinality(D)
      BY <2>4, <2>5, FS_Subset
    <2>7. QED
      BY <1>2, <1>3, <1>5, <1>6, <1>1, <2>6
  <1> HIDE DEF at
  <1>7. /\ t \in Seq(Addrs) /\ ToSet(t) = ToSet(st.tx) \cup {a}
        /\ Distinct(st.tx) /\ a \notin ToSet(st.tx) => Distinct(t)
        /\ Inserted(st.tx, t, a, at)
    BY <1>1, <1>3, InsertFacts
  <1> HIDE DEF t, r
  <1>8. r \in Sendings /\ r.tx = t /\ r.mem = st.mem /\ r.pcb = st.pcb /\ r.named = st.named
    BY <1>1, <1>4, <1>7 DEF Sendings
  <1>9. a \notin ToSet(st.tx) /\ Distinct(st.tx)
    BY DEF Shaped
  <1>10. \A b \in Addrs : r.mem[b] # Free <=> b \in ToSet(r.tx)
    BY <1>7, <1>8 DEF Shaped
  <1>11. Blank(st.mem[a]) => Calm(st, r)
    <2>1. \A j \in DOMAIN st.tx : InLine(st) /\ j > at => Blank(st.mem[st.tx[j]])
      BY <1>1, <1>6
    <2>2. ASSUME Blank(st.mem[a]), InLine(st), NEW b, NEW c, Ahead(r.tx, b, c)
          PROVE  Blank(r.mem[c]) \/ Ahead(st.tx, b, c)
      BY <1>7, <1>8, <2>1, <2>2 DEF Inserted
    <2>3. QED
      BY <1>8, <2>2 DEF Calm
  <1>12. QED
    BY <1>7, <1>8, <1>9, <1>10, <1>11 DEF Shaped, r

LEMMA PlaceFacts ==
  ASSUME NEW st, Shaped(st, {}), NEW a \in Addrs, a \notin ToSet(st.tx), NEW m \in Packets,
         NEW slot \in Slots
  PROVE  LET r == SendAfter(PutPacket(st, a, m), a, slot)
         IN /\ Shaped(r, {}) /\ ToSet(r.tx) = ToSet(st.tx) \cup {a}
            /\ r.mem = [st.mem EXCEPT ![a] = m] /\ r.pcb = st.pcb /\ r.named = st.named
            /\ Blank(m) => Calm(st, r)
  <1> DEFINE s == PutPacket(st, a, m)
  <1>1. /\ s \in Sendings /\ s.tx = st.tx /\ s.pcb = st.pcb /\ s.named = st.named
        /\ s.mem = [st.mem EXCEPT ![a] = m]
    BY PutPacketFacts DEF Shaped
  <1> HIDE DEF s
  <1>2. Shaped(s, {a})
    <2>1. \A b \in Addrs : s.mem[b] # Free <=> b \in ToSet(s.tx) \cup {a}
      BY <1>1, SendingFields, PacketIsNotFree DEF Shaped
    <2>2. QED
      BY <1>1, <2>1 DEF Shaped
  <1>3. LET r == SendAfter(s, a, slot)
        IN /\ Shaped(r, {}) /\ ToSet(r.tx) = ToSet(s.tx) \cup {a}
           /\ r.mem = s.mem /\ r.pcb = s.pcb /\ r.named = s.named
           /\ Blank(s.mem[a]) => Calm(s, r)
    BY <1>2, SendAfterFacts
  <1>4. Calm(st, s)
    <2>1. \A b \in ToSet(s.tx) : s.mem[b] = st.mem[b]
      BY <1>1, SendingFields DEF Shaped
    <2>2. \A b, c : Ahead(s.tx, b, c) => Ahead(st.tx, b, c)
      BY <1>1
    <2>3. QED
      BY <2>1, <2>2, FewerCalm
  <1>5. s.mem[a] = m
    BY <1>1, SendingFields DEF Shaped
  <1> DEFINE r == SendAfter(s, a, slot)
  <1> HIDE DEF s, r
  <1>6. /\ Shaped(r, {}) /\ ToSet(r.tx) = ToSet(st.tx) \cup {a}
        /\ r.mem = [st.mem EXCEPT ![a] = m] /\ r.pcb = st.pcb /\ r.named = st.named
        /\ Blank(m) => Calm(st, r)
    BY <1>1, <1>3, <1>4, <1>5, CalmTwice DEF r
  <1>7. QED
    BY <1>6 DEF r, s

LEMMA ClearTxFacts ==
  ASSUME NEW st, Shaped(st, {}), NEW gone, gone \subseteq ToSet(st.tx)
  PROVE  LET r == ClearTx(st, gone)
         IN /\ Shaped(r, {}) /\ ToSet(r.tx) = ToSet(st.tx) \ gone
            /\ r.pcb = st.pcb /\ r.named = st.named
            /\ \A a \in Addrs : r.mem[a] = IF a \in gone THEN Free ELSE st.mem[a]
            /\ Calm(st, r)
  <1> DEFINE t == Only(st.tx, ToSet(st.tx) \ gone)
             m == [a \in Addrs |-> IF a \in gone THEN Free ELSE st.mem[a]]
             r == ClearTx(st, gone)
  <1>1. st \in Sendings /\ st.tx \in Seq(Addrs) /\ Distinct(st.tx)
    BY SendingFields DEF Shaped
  <1>2. /\ t \in Seq(Addrs) /\ ToSet(t) = ToSet(st.tx) \ gone /\ Distinct(t)
        /\ \A a, b : Ahead(t, a, b) => Ahead(st.tx, a, b)
    BY <1>1, OnlyFacts
  <1>3. m \in [Addrs -> Packets \cup {Free}]
    BY SendingFields DEF Shaped
  <1>4. r = [st EXCEPT !.tx = t, !.mem = m]
    BY DEF ClearTx
  <1>5. \A a \in Addrs : m[a] = IF a \in gone THEN Free ELSE st.mem[a]
    OBVIOUS
  <1> HIDE DEF t, m, r
  <1>6. r \in Sendings /\ r.tx = t /\ r.mem = m /\ r.pcb = st.pcb /\ r.named = st.named
    BY <1>1, <1>2, <1>3, <1>4 DEF Sendings
  <1>7. \A a \in Addrs : r.mem[a] # Free <=> a \in ToSet(r.tx)
    BY <1>2, <1>5, <1>6 DEF Shaped
  <1>8. Calm(st, r)
    <2>1. \A a \in ToSet(r.tx) : r.mem[a] = st.mem[a]
      BY <1>2, <1>5, <1>6, <1>1, SendingFields
    <2>2. QED
      BY <1>2, <1>6, <2>1, FewerCalm
  <1>9. QED
    BY <1>2, <1>5, <1>6, <1>7, <1>8 DEF Shaped, r

-----------------------------------------------------------------------------
\* The names an interface is probing for.
Claims(c) == ToSet(c.probes) \cup (IF c.ip THEN {Host} ELSE {})

\* The packet will carry the interface on: a probe for all of its names, or, once they
\* are probed, any packet with records that no other device may answer for.
Carries(m, c) ==
  /\ ~m.shared
  /\ IF Probing(c) THEN m.kind = "probe" /\ Claims(c) \subseteq m.servers
                   ELSE m.answers # {} \/ Host \in m.servers

\* One interface, whatever happened to it before: what is queued is due; while it is
\* probing one packet waits for it, which carries it on; while it is announcing there
\* is one that does.
Sound(st, p) ==
  LET c == st.pcb[p] IN
  /\ \A a \in Of(st, p) : st.mem[a].queued => st.mem[a].due
  /\ c.ready /\ Probing(c) =>
       Claims(c) # {} /\ \E a \in Of(st, p) : Of(st, p) = {a} /\ Carries(st.mem[a], c)
  /\ c.ready /\ Announcing(c) => \E a \in Of(st, p) : Carries(st.mem[a], c)

\* The packet has records of registered services only, no name that has changed if it
\* is a probe or made from one, and the transmissions the state of its interface tells.
Fit(m, c, Reg) ==
  /\ m.servers \cup m.answers \subseteq Reg \cup {Host}
  /\ m.kind \in {"probe", "announce"} => ~m.renamed
  /\ m.kind = "announce" => m.sent >= 3
  /\ c.state = "PROBE_2" => m.sent >= 1
  /\ c.state = "PROBE_3" => m.sent >= 2

\* One interface that has not been made to probe while it was down.  Down, it has
\* nothing to do; up, it probes under a host name for registered services, and its
\* packets fit.
Kept(st, p, Reg) ==
  LET c == st.pcb[p] IN
  IF ~c.ready THEN c.state = "OFF" /\ c.probes = <<>> /\ Of(st, p) = {}
  ELSE /\ Probing(c) => st.named
       /\ ~Probing(c) => c.probes = <<>>
       /\ ToSet(c.probes) \subseteq Reg
       /\ \A a \in Of(st, p) : Fit(st.mem[a], c, Reg)

\* r has done nothing to the interface p since st.
Same(st, r, p) ==
  /\ r.pcb[p] = st.pcb[p] /\ Of(r, p) = Of(st, p)
  /\ \A a \in Of(st, p) : r.mem[a] = st.mem[a]

\* An operation on p has left the others alone, and the queue in line.
Touches(st, r, p) ==
  /\ Shaped(r, {}) /\ r.named = st.named /\ Calm(st, r)
  /\ \A q \in Pcbs \ {p} : Same(st, r, q)

\* The interface p has one packet more.
Adds(st, r, p, a, m) ==
  /\ a \in Addrs /\ a \notin Of(st, p) /\ Of(r, p) = Of(st, p) \cup {a} /\ r.mem[a] = m
  /\ \A b \in Of(st, p) : r.mem[b] = st.mem[b]

\* The packets of an interface are those of the queue that name it.
LEMMA OfFacts ==
  ASSUME NEW st, Shaped(st, {})
  PROVE  /\ \A p, a : a \in Of(st, p) <=> a \in Addrs /\ st.mem[a] # Free /\ st.mem[a].pcb = p
         /\ \A p : \A a \in Of(st, p) : st.mem[a] \in Packets
         /\ \A a \in ToSet(st.tx) : a \in Addrs /\ st.mem[a] \in Packets /\ a \in Of(st, st.mem[a].pcb)
  BY SendingFields DEF Shaped, Of

\* What holds of an interface holds of it when nothing is done to it.
LEMMA SameFacts ==
  ASSUME NEW st, NEW r, NEW p, Same(st, r, p), NEW Reg
  PROVE  /\ Sound(st, p) => Sound(r, p)
         /\ (st.named => r.named) /\ Kept(st, p, Reg) => Kept(r, p, Reg)
  <1>1. Sound(st, p) => Sound(r, p)
    BY DEF Same, Sound
  <1>2. (st.named => r.named) /\ Kept(st, p, Reg) => Kept(r, p, Reg)
    BY DEF Same, Kept
  <1>3. QED
    BY <1>1, <1>2

LEMMA SameTwice ==
  ASSUME NEW st, NEW s, NEW r, NEW p, Same(st, s, p), Same(s, r, p)
  PROVE  Same(st, r, p)
  BY DEF Same

LEMMA TouchesTwice ==
  ASSUME NEW st, NEW s, NEW r, NEW p, Touches(st, s, p), Touches(s, r, p)
  PROVE  Touches(st, r, p)
  BY SameTwice, CalmTwice DEF Touches

\* Operations on the interface p, one by one: what they do to it, and that they leave
\* the others alone.  PutPcb:
LEMMA PutPcbSame ==
  ASSUME NEW st, Shaped(st, {}), NEW p \in Pcbs, NEW c \in Interfaces
  PROVE  LET r == PutPcb(st, p, c)
         IN Touches(st, r, p) /\ r.pcb[p] = c /\ r.mem = st.mem /\ Of(r, p) = Of(st, p)
  <1> DEFINE r == PutPcb(st, p, c)
  <1>1. st \in Sendings /\ st.pcb \in [Pcbs -> Interfaces]
    BY SendingFields DEF Shaped
  <1>2. /\ r \in Sendings /\ r.tx = st.tx /\ r.mem = st.mem /\ r.named = st.named
        /\ r.pcb = [st.pcb EXCEPT ![p] = c]
    BY <1>1, PutPcbFacts
  <1> HIDE DEF r
  <1>3. Shaped(r, {})
    BY <1>2 DEF Shaped
  <1>4. \A q : Of(r, q) = Of(st, q)
    BY <1>2 DEF Of
  <1>5. Calm(st, r)
    BY <1>2, FewerCalm
  <1>6. QED
    BY <1>1, <1>2, <1>3, <1>4, <1>5 DEF Same, Touches, r

\* ClearTxIf:
LEMMA ClearTxIfFacts ==
  ASSUME NEW st, Shaped(st, {}), NEW p \in Pcbs
  PROVE  LET r == ClearTxIf(st, p)
         IN Touches(st, r, p) /\ r.pcb = st.pcb /\ Of(r, p) = {}
  <1> DEFINE r == ClearTxIf(st, p)
  <1>1. Of(st, p) \subseteq ToSet(st.tx)
    BY DEF Of
  <1>2. /\ Shaped(r, {}) /\ ToSet(r.tx) = ToSet(st.tx) \ Of(st, p)
        /\ r.pcb = st.pcb /\ r.named = st.named /\ Calm(st, r)
        /\ \A a \in Addrs : r.mem[a] = IF a \in Of(st, p) THEN Free ELSE st.mem[a]
    BY <1>1, ClearTxFacts DEF ClearTxIf
  <1> HIDE DEF r
  <1>3. \A q, a : a \in Of(r, q) <=> a \in Of(st, q) /\ q # p
    BY <1>2, OfFacts
  <1>4. Of(r, p) = {}
    BY <1>3
  <1>5. \A q \in Pcbs \ {p} : Same(st, r, q)
    <2>1. TAKE q \in Pcbs \ {p}
    <2>2. Of(r, q) = Of(st, q)
      BY <1>3
    <2>3. \A a \in Of(st, q) : r.mem[a] = st.mem[a]
      BY <1>2, OfFacts
    <2>4. QED
      BY <1>2, <2>2, <2>3 DEF Same
  <1>6. QED
    BY <1>2, <1>4, <1>5 DEF Touches, r

\* SendAfter, of a packet that was not in the queue:
LEMMA PlaceSame ==
  ASSUME NEW st, Shaped(st, {}), NEW a \in Addrs, a \notin ToSet(st.tx), NEW m \in Packets,
         Blank(m), NEW slot \in Slots
  PROVE  LET r == SendAfter(PutPacket(st, a, m), a, slot)
         IN Touches(st, r, m.pcb) /\ r.pcb = st.pcb /\ Adds(st, r, m.pcb, a, m)
  <1> DEFINE r == SendAfter(PutPacket(st, a, m), a, slot)
  <1>1. /\ Shaped(r, {}) /\ ToSet(r.tx) = ToSet(st.tx) \cup {a}
        /\ r.mem = [st.mem EXCEPT ![a] = m] /\ r.pcb = st.pcb /\ r.named = st.named
        /\ Calm(st, r)
    BY PlaceFacts
  <1> HIDE DEF r
  <1>2. r.mem[a] = m /\ \A b \in Addrs : b # a => r.mem[b] = st.mem[b]
    BY <1>1, SendingFields DEF Shaped
  <1>3. \A q, b : b \in Of(r, q) <=> b \in Of(st, q) \/ (b = a /\ q = m.pcb)
    BY <1>1, <1>2, SendingFields DEF Of, Shaped
  <1>4. \A q : a \notin Of(st, q) /\ Of(st, q) \subseteq Addrs
    BY OfFacts DEF Of
  <1>5. Of(r, m.pcb) = Of(st, m.pcb) \cup {a}
    BY <1>3
  <1>6. \A q \in Pcbs \ {m.pcb} : Same(st, r, q)
    <2>1. TAKE q \in Pcbs \ {m.pcb}
    <2>2. \A b : b \in Of(r, q) <=> b \in Of(st, q)
      BY <1>3
    <2>3. Of(r, q) = Of(st, q)
      BY <2>2
    <2>4. QED
      BY <1>1, <1>2, <1>4, <2>3 DEF Same
  <1>7. QED
    BY <1>1, <1>2, <1>4, <1>5, <1>6 DEF Touches, Adds, r

\* Schedule:
LEMMA ScheduleSame ==
  ASSUME MemoryLasts, NEW st, Shaped(st, {}), NEW m \in Packets, Blank(m), NEW slot \in Slots
  PROVE  LET r == Schedule(st, m, slot)
             a == NewAddr(st)
         IN Touches(st, r, m.pcb) /\ r.pcb = st.pcb /\ Adds(st, r, m.pcb, a, m)
  <1> DEFINE a == NewAddr(st)
             r == SendAfter(PutPacket(st, a, m), a, slot)
  <1>1. a \in Addrs /\ a \notin ToSet(st.tx)
    BY NewAddrFacts, FS_EmptySet
  <1> HIDE DEF a
  <1>2. Touches(st, r, m.pcb) /\ r.pcb = st.pcb /\ Adds(st, r, m.pcb, a, m)
    BY <1>1, PlaceSame
  <1>3. QED
    BY <1>2 DEF Schedule, a

\* Probe leaves one packet that carries the interface on, and the interface kept if the
\* services are registered and it is up (init_probe_new_service, mdns_pcb.c).
LEMMA ProbeFacts ==
  ASSUME MemoryLasts, NEW st, Shaped(st, {}), NEW p \in Pcbs, Of(st, p) = {},
         NEW ss \in Seq(Services), NEW ip \in BOOLEAN, NEW slot \in Slots, ss # <<>> \/ ip,
         NEW Reg
  PROVE  LET r == Probe(st, p, ss, ip, slot)
             c == st.pcb[p]
         IN /\ Touches(st, r, p)
            /\ Sound(r, p) /\ r.pcb[p].ready = c.ready /\ Probing(r.pcb[p])
            /\ ToSet(ss) \subseteq Reg /\ ToSet(c.probes) \subseteq Reg /\ st.named /\ c.ready
               => Kept(r, p, Reg)
  <1> DEFINE c == st.pcb[p]
             old == IF Probing(c) THEN c.probes ELSE <<>>
             new == Only(ss, Services \ ToSet(old))
             all == new \o old
             withHost == c.ip \/ ip
             asks == IF withHost THEN Append(all, Host) ELSE all
             hosts == IF withHost THEN ToSet(all) ELSE {}
             c1 == [c EXCEPT !.state = "PROBE_1", !.probes = all, !.ip = withHost]
             m == Packet("probe", p, asks, hosts, ToSet(asks), {})
             s == PutPcb(st, p, c1)
             r == Probe(st, p, ss, ip, slot)
  <1>1. c \in Interfaces
    BY SendingFields DEF Shaped
  <1>2. old \in Seq(Services) /\ ToSet(old) \subseteq ToSet(c.probes) /\ withHost \in BOOLEAN
    <2>1. c.probes \in Seq(Services) /\ <<>> \in Seq(Services) /\ ToSet(<<>>) = {}
      BY <1>1 DEF Interfaces, ToSet
    <2>2. c.ip \in BOOLEAN
      BY <1>1 DEF Interfaces
    <2> HIDE DEF c
    <2>3. QED
      BY <2>1, <2>2
  <1> HIDE DEF old, c
  <1>3. new \in Seq(Services) /\ ToSet(new) = ToSet(ss) \ ToSet(old)
    <2>1. new \in Seq(Services) /\ ToSet(new) = ToSet(ss) \cap (Services \ ToSet(old))
      BY OnlyFacts
    <2>2. ToSet(ss) \subseteq Services
      BY DEF ToSet
    <2> HIDE DEF new
    <2>3. QED
      BY <2>1, <2>2
  <1> HIDE DEF new
  <1>4. all \in Seq(Services) /\ ToSet(all) = ToSet(ss) \cup ToSet(old) /\ ToSet(all) \subseteq Services
    <2>1. all \in Seq(Services) /\ ToSet(all) = ToSet(new) \cup ToSet(old)
      BY <1>2, <1>3, ConcatSet
    <2> HIDE DEF all
    <2>2. ToSet(all) \subseteq Services
      BY <2>1 DEF ToSet
    <2>3. QED
      BY <1>3, <2>1, <2>2
  <1> HIDE DEF all, withHost
  <1>5. /\ asks \in Seq(Names) /\ ToSet(asks) = ToSet(all) \cup (IF withHost THEN {Host} ELSE {})
        /\ ToSet(asks) \subseteq Names
    <2>1. all \in Seq(Names) /\ Host \in Names /\ ToSet(all) \subseteq Names
      BY <1>4 DEF Names
    <2>2. Append(all, Host) \in Seq(Names) /\ ToSet(Append(all, Host)) = ToSet(all) \cup {Host}
      BY <2>1, ToSetOf
    <2>3. QED
      BY <2>1, <2>2
  <1> HIDE DEF asks
  <1>6. c1 \in Interfaces /\ c1.ready = c.ready /\ c1.state = "PROBE_1" /\ c1.probes = all /\ c1.ip = withHost
    BY <1>1, <1>2, <1>4 DEF Interfaces, States
  <1>7. hosts \subseteq Services
    BY <1>4
  <1> HIDE DEF hosts, c1
  <1>8. /\ m \in Packets /\ m.pcb = p /\ m.kind = "probe" /\ m.servers = ToSet(asks) /\ m.answers = {}
        /\ m.shared = FALSE /\ m.queued = FALSE /\ m.renamed = FALSE /\ Blank(m)
    BY <1>5, <1>7 DEF Packet, Packets, Kinds, Blank
  <1> HIDE DEF m
  <1>9. Touches(st, s, p) /\ Shaped(s, {}) /\ s.named = st.named /\ s.pcb[p] = c1 /\ Of(s, p) = {}
    BY <1>6, PutPcbSame DEF Touches
  <1> HIDE DEF s
  <1> DEFINE a == NewAddr(s)
             r1 == Schedule(s, m, slot)
  <1>10. Touches(s, r1, p) /\ r1.pcb = s.pcb /\ Adds(s, r1, p, a, m)
    BY <1>8, <1>9, ScheduleSame
  <1>11. r = r1
    BY DEF Probe, s, m, hosts, c1, asks, withHost, all, new, old, c
  <1> HIDE DEF a, r, r1
  <1>12. /\ Touches(st, r, p) /\ r.named = st.named /\ r.pcb[p] = c1
         /\ Of(r, p) = {a} /\ r.mem[a] = m
    <2>1. Touches(st, r, p)
      BY <1>9, <1>10, <1>11, TouchesTwice
    <2>2. Of(r, p) = {a} /\ r.mem[a] = m
      BY <1>9, <1>10, <1>11 DEF Adds
    <2>3. QED
      BY <1>9, <1>10, <1>11, <2>1, <2>2 DEF Touches
  <1>13. Probing(c1) /\ ~Announcing(c1)
    BY <1>6 DEF Probing, Announcing
  <1>14. Claims(c1) = ToSet(asks)
    BY <1>5, <1>6 DEF Claims
  <1>15. Claims(c1) # {}
    <2>1. ss # <<>> => ToSet(ss) # {}
      <3>1. ASSUME ss # <<>> PROVE ss[1] \in ToSet(ss)
        <4>1. 1 \in DOMAIN ss
          BY <3>1, EmptySeq
        <4>2. QED
          BY <4>1, InToSet
      <3>2. QED
        BY <3>1
    <2>2. CASE ss # <<>>
      BY <1>4, <1>5, <1>14, <2>1, <2>2
    <2>3. CASE ip
      BY <1>5, <1>14, <2>3 DEF withHost
    <2>4. QED
      BY <2>2, <2>3
  <1>16. Carries(m, c1)
    BY <1>8, <1>13, <1>14 DEF Carries
  <1>17. Sound(r, p)
    BY <1>8, <1>12, <1>13, <1>15, <1>16 DEF Sound
  <1>18. ASSUME ToSet(ss) \subseteq Reg, ToSet(c.probes) \subseteq Reg, st.named, c.ready
         PROVE  Kept(r, p, Reg)
    <2>1. ToSet(all) \subseteq Reg
      BY <1>2, <1>4, <1>18
    <2>2. Fit(m, c1, Reg)
      BY <1>5, <1>6, <1>8, <2>1 DEF Fit
    <2>3. QED
      BY <1>6, <1>12, <1>13, <1>18, <2>1, <2>2 DEF Kept
  <1>19. QED
    BY <1>6, <1>12, <1>13, <1>17, <1>18 DEF r, c

\* InitProbe, the same after clearing the queue; without a host name there is no probe.
LEMMA InitProbeFacts ==
  ASSUME MemoryLasts, NEW st, Shaped(st, {}), NEW p \in Pcbs,
         NEW ss \in Seq(Services), NEW ip \in BOOLEAN, NEW slot \in Slots, ss # <<>> \/ ip,
         NEW Reg
  PROVE  LET r == InitProbe(st, p, ss, ip, slot)
             c == st.pcb[p]
         IN /\ Touches(st, r, p)
            /\ Sound(r, p) /\ r.pcb[p].ready = c.ready /\ (st.named => Probing(r.pcb[p]))
            /\ /\ ToSet(ss) \subseteq Reg /\ ToSet(c.probes) \subseteq Reg
               /\ (st.named \/ c.probes = <<>>) /\ c.ready
               => Kept(r, p, Reg)
  <1> DEFINE s == ClearTxIf(st, p)
             r == InitProbe(st, p, ss, ip, slot)
             c == st.pcb[p]
  <1>1. /\ Touches(st, s, p) /\ s.pcb = st.pcb /\ Of(s, p) = {}
        /\ Shaped(s, {}) /\ s.named = st.named
    BY ClearTxIfFacts DEF Touches
  <1>2. r = IF s.named THEN Probe(s, p, ss, ip, slot) ELSE To(s, p, "RUNNING")
    BY DEF InitProbe
  <1> HIDE DEF r, s
  <1>3. CASE s.named
    <2> DEFINE r1 == Probe(s, p, ss, ip, slot)
    <2>1. /\ Touches(s, r1, p)
          /\ Sound(r1, p) /\ r1.pcb[p].ready = s.pcb[p].ready /\ Probing(r1.pcb[p])
          /\ ToSet(ss) \subseteq Reg /\ ToSet(s.pcb[p].probes) \subseteq Reg /\ s.named /\ s.pcb[p].ready
             => Kept(r1, p, Reg)
      BY <1>1, ProbeFacts
    <2> HIDE DEF r1
    <2>2. r = r1
      BY <1>2, <1>3 DEF r1
    <2>3. Touches(st, r, p)
      BY <1>1, <2>1, <2>2, TouchesTwice
    <2>4. QED
      BY <1>1, <1>3, <2>1, <2>2, <2>3 DEF r
  <1>4. CASE ~s.named
    <2> DEFINE c1 == [c EXCEPT !.state = "RUNNING"]
    <2>1. c \in Interfaces
      BY SendingFields DEF Shaped
    <2>2. c1 \in Interfaces /\ c1.ready = c.ready /\ c1.state = "RUNNING" /\ c1.probes = c.probes
      BY <2>1 DEF Interfaces, States
    <2>3. r = PutPcb(s, p, c1)
      BY <1>1, <1>2, <1>4 DEF To
    <2> HIDE DEF c1, c
    <2>4. Touches(s, r, p) /\ r.pcb[p] = c1 /\ Of(r, p) = {}
      BY <1>1, <2>2, <2>3, PutPcbSame
    <2>5. ~Probing(c1) /\ ~Announcing(c1)
      BY <2>2 DEF Probing, Announcing
    <2>6. Sound(r, p)
      BY <2>4, <2>5 DEF Sound
    <2>7. ASSUME c.ready, c.probes = <<>> PROVE Kept(r, p, Reg)
      <3>1. ToSet(<<>>) = {}
        BY DEF ToSet
      <3>2. QED
        BY <2>2, <2>4, <2>5, <2>7, <3>1 DEF Kept
    <2>8. Touches(st, r, p)
      BY <1>1, <2>4, TouchesTwice
    <2>9. QED
      BY <1>1, <1>4, <2>2, <2>4, <2>6, <2>7, <2>8 DEF r, c
  <1>5. QED
    BY <1>3, <1>4 DEF r, c

\* What an interface must be for a probe of it to be kept up with the services.
Able(st, p, Reg) ==
  ToSet(st.pcb[p].probes) \subseteq Reg /\ (st.named \/ st.pcb[p].probes = <<>>)

LEMMA KeptAble ==
  ASSUME NEW st, NEW p, NEW Reg, Kept(st, p, Reg)
  PROVE  Able(st, p, Reg)
  <1>1. ToSet(<<>>) = {}
    BY DEF ToSet
  <1>2. QED
    BY <1>1 DEF Kept, Able

\* What ProbeAll does to p: nothing when it is down, else it is sound, and kept if able.
Probed(st, r, p, Reg, able) ==
  /\ r.pcb[p].ready = st.pcb[p].ready
  /\ ~st.pcb[p].ready => Same(st, r, p)
  /\ st.pcb[p].ready => Sound(r, p) /\ (able => Kept(r, p, Reg))

\* ProbeUp does this to one interface and leaves the others alone ...
LEMMA ProbeUpFacts ==
  ASSUME MemoryLasts, NEW st, Shaped(st, {}), NEW p \in Pcbs,
         NEW ss \in Seq(Services), NEW ip \in BOOLEAN, NEW forget \in BOOLEAN,
         NEW slot \in Slots, ss # <<>> \/ ip, NEW Reg
  PROVE  LET able == ToSet(ss) \subseteq Reg /\ (forget \/ Able(st, p, Reg))
             r == ProbeUp(st, p, ss, ip, forget, slot)
         IN Touches(st, r, p) /\ Probed(st, r, p, Reg, able)
  <1> DEFINE c == st.pcb[p]
             r == ProbeUp(st, p, ss, ip, forget, slot)
             able == ToSet(ss) \subseteq Reg /\ (forget \/ Able(st, p, Reg))
             blank == [c EXCEPT !.probes = <<>>]
             s == IF forget THEN PutPcb(st, p, blank) ELSE st
             i == InitProbe(s, p, ss, ip, slot)
  <1>1. c \in Interfaces
    BY SendingFields DEF Shaped
  <1>2. Touches(st, st, p)
    BY StillCalm DEF Touches, Same
  <1>3. CASE ~c.ready
    <2>1. r = st
      BY <1>3 DEF ProbeUp
    <2> HIDE DEF r
    <2>2. QED
      BY <1>2, <1>3, <2>1 DEF Probed, Same, r
  <1>4. CASE c.ready
    <2>1. Touches(st, s, p) /\ s.pcb[p].ready /\ (able => ToSet(ss) \subseteq Reg /\ Able(s, p, Reg))
      <3>1. CASE forget
        <4>1. blank \in Interfaces /\ blank.ready = c.ready /\ blank.probes = <<>>
          <5>1. <<>> \in Seq(Services)
            OBVIOUS
          <5> HIDE DEF c
          <5>2. QED
            BY <1>1, <5>1 DEF Interfaces
        <4> HIDE DEF blank
        <4>2. s = PutPcb(st, p, blank)
          BY <3>1
        <4> HIDE DEF s
        <4>3. Touches(st, s, p) /\ s.pcb[p] = blank
          BY <4>1, <4>2, PutPcbSame
        <4>4. ToSet(<<>>) = {}
          BY DEF ToSet
        <4>5. QED
          BY <1>4, <4>1, <4>3, <4>4 DEF Able
      <3>2. CASE ~forget
        <4>1. s = st
          BY <3>2
        <4> HIDE DEF s
        <4>2. QED
          BY <1>2, <1>4, <3>2, <4>1
      <3>3. QED
        BY <3>1, <3>2
    <2>2. r = i
      BY <1>4 DEF ProbeUp
    <2> HIDE DEF s, able, r
    <2>3. Shaped(s, {})
      BY <2>1 DEF Touches
    <2>4. /\ Touches(s, i, p)
          /\ Sound(i, p) /\ i.pcb[p].ready = s.pcb[p].ready /\ (s.named => Probing(i.pcb[p]))
          /\ /\ ToSet(ss) \subseteq Reg /\ ToSet(s.pcb[p].probes) \subseteq Reg
             /\ (s.named \/ s.pcb[p].probes = <<>>) /\ s.pcb[p].ready
             => Kept(i, p, Reg)
      BY <2>3, InitProbeFacts
    <2> HIDE DEF i
    <2>5. Touches(st, i, p)
      BY <2>1, <2>4, TouchesTwice
    <2>6. able => Kept(i, p, Reg)
      BY <2>1, <2>4 DEF Able
    <2>7. Touches(st, r, p) /\ Probed(st, r, p, Reg, able)
      BY <1>4, <2>1, <2>2, <2>4, <2>5, <2>6 DEF Probed
    <2>8. QED
      BY <2>7 DEF r, able
  <1>5. QED
    BY <1>3, <1>4

\* ... and the walk does it to all of them (mdns_priv_probe_all_pcbs).
LEMMA ProbeAllFacts ==
  ASSUME MemoryLasts, NEW st, Shaped(st, {}),
         NEW ss \in Seq(Services), NEW ip \in BOOLEAN, NEW forget \in BOOLEAN,
         NEW slot \in Slots, ss # <<>> \/ ip, NEW Reg
  PROVE  LET r == ProbeAll(st, ss, ip, forget, slot)
         IN /\ Shaped(r, {}) /\ r.named = st.named /\ Calm(st, r)
            /\ \A p \in Pcbs :
                 Probed(st, r, p, Reg, ToSet(ss) \subseteq Reg /\ (forget \/ Able(st, p, Reg)))
  <1> DEFINE n == Len(PcbSeq)
             able(x, p) == ToSet(ss) \subseteq Reg /\ (forget \/ Able(x, p, Reg))
             Step(x, p) == ProbeUp(x, p, ss, ip, forget, slot)
             Upto(i) == {PcbSeq[j] : j \in 1..i}
             Done(i, x) == /\ Shaped(x, {}) /\ x.named = st.named /\ Calm(st, x)
                           /\ \A p \in Pcbs : p \in Upto(i) => Probed(st, x, p, Reg, able(st, p))
                           /\ \A p \in Pcbs \ Upto(i) : Same(st, x, p)
             T == [i \in 0..n |-> {x \in Sendings : Done(i, x)}]
             step == [i \in 1..n |-> [x \in Sendings |-> Step(x, PcbSeq[i])]]
             F == CHOOSE f : f = [i \in 0..n |-> IF i = 0 THEN st ELSE Step(f[i - 1], PcbSeq[i])]
  <1>1. /\ n \in Nat /\ DOMAIN PcbSeq = 1..n /\ \A i \in 1..n : PcbSeq[i] \in Pcbs
        /\ Upto(n) = Pcbs
    BY PcbSeqFacts DEF ToSet
  <1>2. st \in T[0]
    <2>1. st \in Sendings /\ Calm(st, st) /\ \A p : Same(st, st, p)
      BY StillCalm DEF Shaped, Same
    <2>2. Upto(0) = {} /\ 0 \in 0..n
      BY <1>1
    <2> HIDE DEF Upto
    <2>3. QED
      BY <2>1, <2>2
  <1>3. ASSUME NEW i \in 1..n, NEW x \in T[i - 1]
        PROVE  Step(x, PcbSeq[i]) \in T[i] /\ x \in Sendings
    <2> DEFINE p == PcbSeq[i]
               y == Step(x, p)
    <2>1. i - 1 \in 0..n /\ i \in 0..n
      BY <1>1
    <2>2. x \in Sendings /\ Done(i - 1, x)
      BY <2>1
    <2>3. p \in Pcbs /\ p \notin Upto(i - 1) /\ Upto(i) = Upto(i - 1) \cup {p}
      <3>1. 1..i = 1..(i - 1) \cup {i}
        BY <1>1
      <3>2. \A j \in 1..(i - 1) : j \in 1..n /\ j # i
        BY <1>1
      <3>3. \A j \in 1..n : PcbSeq[j] = PcbSeq[i] => j = i
        BY <1>1, PcbSeqFacts DEF Distinct
      <3>4. QED
        BY <1>1, <3>1, <3>2, <3>3
    <2> HIDE DEF p, Upto
    <2>4. Touches(x, y, p) /\ Probed(x, y, p, Reg, able(x, p))
      BY <2>2, <2>3, ProbeUpFacts
    <2> HIDE DEF y
    <2>5. Same(st, x, p)
      BY <2>2, <2>3
    <2>6. able(x, p) = able(st, p)
      BY <2>2, <2>5 DEF Same, Able
    <2>7. Probed(st, y, p, Reg, able(st, p))
      <3> HIDE DEF able
      <3>1. QED
        BY <2>4, <2>5, <2>6, SameTwice DEF Probed, Same
    <2> HIDE DEF able
    <2>8. ASSUME NEW q \in Pcbs, q \in Upto(i - 1) PROVE Probed(st, y, q, Reg, able(st, q))
      <3>1. Probed(st, x, q, Reg, able(st, q))
        BY <2>2, <2>8
      <3>2. Same(x, y, q) /\ y.named = x.named
        BY <2>3, <2>4, <2>8 DEF Touches
      <3>3. (Sound(x, q) => Sound(y, q)) /\ (Kept(x, q, Reg) => Kept(y, q, Reg))
        BY <3>2, SameFacts
      <3>4. Same(st, x, q) => Same(st, y, q)
        BY <3>2, SameTwice
      <3>5. y.pcb[q] = x.pcb[q]
        BY <3>2 DEF Same
      <3>6. QED
        BY <3>1, <3>3, <3>4, <3>5 DEF Probed
    <2>9. ASSUME NEW q \in Pcbs \ Upto(i) PROVE Same(st, y, q)
      <3>1. Same(st, x, q) /\ Same(x, y, q)
        BY <2>2, <2>3, <2>4, <2>9 DEF Touches
      <3>2. QED
        BY <3>1, SameTwice
    <2>10. Shaped(y, {}) /\ y.named = st.named /\ y \in Sendings /\ Calm(st, y)
      BY <2>2, <2>4, CalmTwice DEF Touches, Shaped
    <2>11. Done(i, y)
      BY <2>3, <2>7, <2>8, <2>9, <2>10
    <2> HIDE DEF Done
    <2>12. y \in T[i]
      BY <2>1, <2>10, <2>11
    <2>13. QED
      BY <2>2, <2>12 DEF y, p
  <1>4. \A i \in 1..n : \A x \in T[i - 1] : step[i][x] \in T[i]
    BY <1>3
  <1>5. \A i \in 1..n : \A x \in T[i - 1] : step[i][x] = Step(x, PcbSeq[i])
    BY <1>3
  <1>6. \A x \in T[n] : Done(n, x)
    BY <1>1
  <1> HIDE DEF T, step, Step, n, able, Done
  <1>7. PICK f : Recurs(f, n, st, step) /\ Within(f, n, T)
    <2>1. Leads(n, T, step)
      BY <1>4 DEF Leads
    <2>2. QED
      BY <1>1, <1>2, <2>1, Recursion
  <1>8. \A i \in 1..n : i - 1 \in 0..n
    BY <1>1
  <1>9. f = [i \in 0..n |-> IF i = 0 THEN st ELSE Step(f[i - 1], PcbSeq[i])]
    <2>1. \A i \in 1..n : step[i][f[i - 1]] = Step(f[i - 1], PcbSeq[i])
      BY <1>5, <1>7, <1>8 DEF Within
    <2>2. \A i \in 0..n : i = 0 \/ i \in 1..n
      BY <1>1
    <2>3. QED
      BY <1>7, <2>1, <2>2 DEF Recurs
  <1>10. F = [i \in 0..n |-> IF i = 0 THEN st ELSE Step(F[i - 1], PcbSeq[i])]
    BY <1>9
  <1>11. ProbeAll(st, ss, ip, forget, slot) = F[n]
    BY DEF ProbeAll, Walk, Step, n
  <1> HIDE DEF F
  <1>12. F[n] \in T[n]
    <2>1. Leads(n, T, step)
      BY <1>4 DEF Leads
    <2>2. F[0] \in T[0]
      BY <1>1, <1>2, <1>10
    <2>3. \A i \in 1..n : F[i] = Step(F[i - 1], PcbSeq[i])
      BY <1>1, <1>10
    <2>4. \A i \in 1..n : F[i - 1] \in T[i - 1] => F[i] = step[i][F[i - 1]]
      BY <1>5, <2>3
    <2>5. QED
      BY <1>1, <2>1, <2>2, <2>4, Follows
  <1>13. Done(n, F[n])
    BY <1>6, <1>12
  <1>14. QED
    BY <1>1, <1>11, <1>13 DEF Done, able

\* PutPacket, of a packet of p:
LEMMA PutPacketSame ==
  ASSUME NEW st, Shaped(st, {}), NEW p \in Pcbs, NEW a \in Of(st, p), NEW m \in Packets, m.pcb = p,
         m.due = st.mem[a].due, m.queued = st.mem[a].queued
  PROVE  LET r == PutPacket(st, a, m)
         IN /\ Touches(st, r, p) /\ r.pcb = st.pcb /\ Of(r, p) = Of(st, p)
            /\ r.mem = [st.mem EXCEPT ![a] = m] /\ st.mem \in [Addrs -> Packets \cup {Free}]
  <1> DEFINE r == PutPacket(st, a, m)
  <1>1. a \in Addrs /\ st \in Sendings /\ a \in ToSet(st.tx) /\ st.mem[a].pcb = p
    BY OfFacts DEF Shaped, Of
  <1>2. st.mem \in [Addrs -> Packets \cup {Free}]
    BY <1>1, SendingFields
  <1>3. /\ r \in Sendings /\ r.tx = st.tx /\ r.pcb = st.pcb /\ r.named = st.named
        /\ r.mem = [st.mem EXCEPT ![a] = m]
    BY <1>1, PutPacketFacts
  <1> HIDE DEF r
  <1>4. r.mem[a] = m /\ \A b \in Addrs : b # a => r.mem[b] = st.mem[b]
    BY <1>1, <1>2, <1>3
  <1>5. Shaped(r, {})
    BY <1>1, <1>3, <1>4, PacketIsNotFree DEF Shaped
  <1>6. \A q, b : b \in Of(r, q) <=> b \in Of(st, q)
    <2>1. ToSet(st.tx) \subseteq Addrs
      BY <1>1, SendingFields
    <2>2. QED
      BY <1>1, <1>3, <1>4, <2>1 DEF Of
  <1>7. \A q : Of(r, q) = Of(st, q)
    <2>1. TAKE q
    <2>2. \A b : b \in Of(r, q) <=> b \in Of(st, q)
      BY <1>6
    <2>3. QED
      BY <2>2
  <1>8. \A q \in Pcbs \ {p} : \A b \in Of(st, q) : b \in Addrs /\ b # a
    BY <1>1, OfFacts
  <1>9. \A q \in Pcbs \ {p} : Same(st, r, q)
    BY <1>3, <1>4, <1>7, <1>8 DEF Same
  <1>10. Calm(st, r)
    <2>1. \A b \in ToSet(r.tx) : b \in Addrs
      BY <1>1, <1>3, SendingFields
    <2>2. \A b \in ToSet(r.tx) : r.mem[b].due = st.mem[b].due /\ r.mem[b].queued = st.mem[b].queued
      BY <1>4, <2>1
    <2>3. \A b, c : Ahead(r.tx, b, c) => Ahead(st.tx, b, c)
      BY <1>3
    <2>4. QED
      BY <2>2, <2>3, FewerCalm
  <1>11. QED
    BY <1>2, <1>3, <1>5, <1>7, <1>9, <1>10 DEF Touches, r

\* r is as good as st was, as far as p is concerned.
Keeps(st, r, p, Reg) ==
  /\ r.pcb[p].ready = st.pcb[p].ready
  /\ Sound(st, p) => Sound(r, p)
  /\ Sound(st, p) /\ Kept(st, p, Reg) => Kept(r, p, Reg)

\* The first packet of an interface is one of its packets.
LEMMA PacketsOfFacts ==
  ASSUME NEW st, Shaped(st, {}), NEW p
  PROVE  PacketsOf(st, p) # <<>> => Head(PacketsOf(st, p)) \in Of(st, p)
  <1> DEFINE s == PacketsOf(st, p)
  <1>1. s \in Seq(Addrs) /\ ToSet(s) = ToSet(st.tx) \cap Of(st, p)
    BY SendingFields, OnlyFacts DEF Shaped, PacketsOf
  <1> HIDE DEF s
  <1>2. ASSUME s # <<>> PROVE Head(s) \in ToSet(s)
    <2>1. 1 \in DOMAIN s /\ Head(s) = s[1]
      BY <1>1, <1>2, EmptySeq
    <2>2. QED
      BY <2>1, InToSet
  <1>3. QED
    BY <1>1, <1>2 DEF s

\* Announce of registered services: a probe again while probing, more answers in the
\* packet that waits while announcing, else a packet of its own.
LEMMA AnnounceFacts ==
  ASSUME MemoryLasts, NEW st, Shaped(st, {}), NEW p \in Pcbs,
         NEW ss \in Seq(Services), NEW ip \in BOOLEAN, NEW slot \in Slots, ss # <<>> \/ ip,
         NEW Reg, ToSet(ss) \subseteq Reg
  PROVE  LET r == Announce(st, p, ss, ip, slot)
         IN Touches(st, r, p) /\ Keeps(st, r, p, Reg)
  <1> DEFINE c == st.pcb[p]
             r == Announce(st, p, ss, ip, slot)
             new == ToSet(ss) \cup (IF ip THEN {Host} ELSE {})
             first == Head(PacketsOf(st, p))
             c1 == [c EXCEPT !.state = "ANNOUNCE_1"]
             s == To(st, p, "ANNOUNCE_1")
  <1>1. c \in Interfaces
    BY SendingFields DEF Shaped
  <1>2. c1 \in Interfaces /\ c1 = [c1 EXCEPT !.state = "ANNOUNCE_1"] /\ c1.ready = c.ready
        /\ c1.state = "ANNOUNCE_1" /\ c1.probes = c.probes /\ c1.ip = c.ip
    <2> HIDE DEF c
    <2>1. QED
      BY <1>1 DEF Interfaces, States
  <1>3. Announcing(c1) /\ ~Probing(c1)
    BY <1>2 DEF Announcing, Probing
  <1>4. ToSet(ss) \subseteq Services /\ new \subseteq Names /\ new \subseteq Reg \cup {Host}
    BY DEF ToSet, Names
  <1>5. s = PutPcb(st, p, c1)
    BY DEF To
  <1> HIDE DEF c1, s
  <1>6. Touches(st, s, p) /\ s.pcb[p] = c1 /\ s.mem = st.mem /\ Of(s, p) = Of(st, p) /\ Shaped(s, {})
    BY <1>2, <1>5, PutPcbSame DEF Touches
  <1>7. CASE c.ready /\ Probing(c)
    <2>1. r = InitProbe(st, p, ss, ip, slot)
      BY <1>7 DEF Announce, Probing, Announcing
    <2> DEFINE i == InitProbe(st, p, ss, ip, slot)
    <2>2. /\ Touches(st, i, p)
          /\ Sound(i, p) /\ i.pcb[p].ready = c.ready /\ (st.named => Probing(i.pcb[p]))
          /\ /\ ToSet(ss) \subseteq Reg /\ ToSet(c.probes) \subseteq Reg
             /\ (st.named \/ c.probes = <<>>) /\ c.ready
             => Kept(i, p, Reg)
      BY InitProbeFacts
    <2> HIDE DEF i
    <2>3. Kept(st, p, Reg) => ToSet(c.probes) \subseteq Reg /\ st.named
      BY <1>7 DEF Kept
    <2>4. r = i
      BY <2>1 DEF i
    <2> HIDE DEF r
    <2>5. QED
      BY <1>7, <2>2, <2>3, <2>4 DEF Keeps, r
  <1>8. CASE c.ready /\ Announcing(c) /\ PacketsOf(st, p) # <<>>
    <2> DEFINE m == [st.mem[first] EXCEPT !.answers = @ \cup new]
    <2>1. r = PutPacket(s, first, m)
      BY <1>8 DEF Announce, s, Probing, Announcing
    <2>2. first \in Of(st, p) /\ st.mem[first] \in Packets /\ st.mem[first].pcb = p
      BY <1>8, PacketsOfFacts, OfFacts
    <2> DEFINE m0 == st.mem[first]
    <2> HIDE DEF first, new
    <2>3. /\ m \in Packets /\ m.pcb = p /\ m.kind = m0.kind /\ m.servers = m0.servers
          /\ m.answers = m0.answers \cup new /\ m.shared = m0.shared /\ m.due = m0.due
          /\ m.queued = m0.queued /\ m.renamed = m0.renamed /\ m.sent = m0.sent
      <3>1. m0 \in Packets /\ m0.pcb = p
        BY <2>2
      <3> HIDE DEF m0
      <3>2. m = [m0 EXCEPT !.answers = @ \cup new]
        BY DEF m0
      <3> HIDE DEF m
      <3>3. QED
        BY <1>4, <3>1, <3>2 DEF Packets
    <2> HIDE DEF m, r
    <2>4. /\ Touches(s, r, p) /\ r.pcb = s.pcb /\ Of(r, p) = Of(s, p)
          /\ r.mem = [s.mem EXCEPT ![first] = m] /\ s.mem \in [Addrs -> Packets \cup {Free}]
      BY <1>6, <2>1, <2>2, <2>3, PutPacketSame
    <2>5. Touches(st, r, p)
      BY <1>6, <2>4, TouchesTwice
    <2>6. \A a \in Of(st, p) : a \in Addrs
      BY OfFacts
    <2>7. \A a \in Of(st, p) : r.mem[a] = IF a = first THEN m ELSE st.mem[a]
      BY <1>6, <2>4, <2>6
    <2>8. r.pcb[p] = c1 /\ Of(r, p) = Of(st, p)
      BY <1>6, <2>4
    <2>9. ASSUME Sound(st, p) PROVE Sound(r, p)
      <3>1. PICK a \in Of(st, p) : Carries(st.mem[a], c)
        BY <1>8, <2>9 DEF Sound
      <3>2. ~Probing(c)
        BY <1>8 DEF Probing, Announcing
      <3>3. Carries(r.mem[a], c1)
        <4>1. CASE a = first
          BY <1>3, <2>3, <2>7, <3>1, <3>2, <4>1 DEF Carries
        <4>2. CASE a # first
          BY <1>3, <2>7, <3>1, <3>2, <4>2 DEF Carries
        <4>3. QED
          BY <4>1, <4>2
      <3>4. \A b \in Of(st, p) : r.mem[b].queued => r.mem[b].due
        BY <2>2, <2>3, <2>7, <2>9 DEF Sound
      <3>5. QED
        BY <1>3, <2>8, <3>1, <3>3, <3>4 DEF Sound
    <2>10. ASSUME Kept(st, p, Reg) PROVE Kept(r, p, Reg)
      <3>1. \A a \in Of(st, p) : Fit(st.mem[a], c, Reg)
        BY <1>8, <2>10 DEF Kept
      <3>2. ~Probing(c) /\ c.probes = <<>> /\ ToSet(c.probes) \subseteq Reg
        BY <1>8, <2>10 DEF Kept, Probing, Announcing
      <3>3. \A a \in Of(st, p) : Fit(r.mem[a], c1, Reg)
        <4>1. TAKE a \in Of(st, p)
        <4>2. Fit(st.mem[a], c, Reg)
          BY <3>1
        <4>3. CASE a = first
          BY <1>2, <1>4, <2>3, <2>7, <4>2, <4>3 DEF Fit
        <4>4. CASE a # first
          BY <1>2, <2>7, <4>2, <4>4 DEF Fit
        <4>5. QED
          BY <4>3, <4>4
      <3>4. QED
        BY <1>2, <1>3, <1>8, <2>8, <3>2, <3>3 DEF Kept
    <2>11. QED
      BY <1>2, <2>5, <2>8, <2>9, <2>10 DEF Keeps, r
  <1>9. CASE c.ready /\ c.state = "RUNNING" /\ st.named
    <2> DEFINE m == Packet("update", p, <<>>, {}, IF ip THEN {Host} ELSE {}, ToSet(ss))
               a == NewAddr(s)
    <2>1. r = Schedule(s, m, slot)
      BY <1>9 DEF Announce, s, Probing, Announcing
    <2>2. /\ m \in Packets /\ m.pcb = p /\ m.kind = "update" /\ m.servers = (IF ip THEN {Host} ELSE {})
          /\ m.answers = ToSet(ss) /\ m.shared = FALSE /\ m.due = FALSE
          /\ m.queued = FALSE /\ m.renamed = FALSE /\ Blank(m)
      <3>1. <<>> \in Seq(Names) /\ ToSet(ss) \subseteq Names /\ {Host} \subseteq Names
        BY <1>4 DEF Names
      <3>2. QED
        BY <3>1 DEF Packet, Packets, Kinds, Blank
    <2> HIDE DEF m, r, a
    <2>3. Touches(s, r, p) /\ r.pcb = s.pcb /\ Adds(s, r, p, a, m)
      BY <1>6, <2>1, <2>2, ScheduleSame DEF a
    <2>4. Touches(st, r, p)
      BY <1>6, <2>3, TouchesTwice
    <2>5. /\ Of(r, p) = Of(st, p) \cup {a} /\ r.mem[a] = m /\ \A b \in Of(st, p) : r.mem[b] = st.mem[b]
          /\ r.pcb[p] = c1
      BY <1>6, <2>3 DEF Adds
    <2>6. ToSet(ss) # {} \/ ip
      <3>1. ss # <<>> => 1 \in DOMAIN ss
        BY EmptySeq
      <3>2. QED
        BY <3>1, InToSet
    <2>7. Carries(m, c1)
      BY <1>3, <2>2, <2>6 DEF Carries
    <2>8. Sound(st, p) => Sound(r, p)
      BY <1>3, <2>2, <2>5, <2>7 DEF Sound
    <2>9. ASSUME Kept(st, p, Reg) PROVE Kept(r, p, Reg)
      <3>1. \A b \in Of(st, p) : Fit(st.mem[b], c, Reg)
        BY <1>9, <2>9 DEF Kept
      <3>2. c.probes = <<>> /\ ToSet(c.probes) \subseteq Reg
        BY <1>9, <2>9 DEF Kept, Probing
      <3>3. Fit(m, c1, Reg)
        BY <1>2, <2>2 DEF Fit
      <3>4. \A b \in Of(st, p) : Fit(r.mem[b], c1, Reg)
        BY <1>2, <2>5, <3>1 DEF Fit
      <3>5. QED
        BY <1>2, <1>3, <1>9, <2>5, <3>2, <3>3, <3>4 DEF Kept
    <2>10. QED
      BY <1>2, <2>4, <2>5, <2>8, <2>9 DEF Keeps, r
  <1>10. CASE /\ ~(c.ready /\ Probing(c)) /\ ~(c.ready /\ Announcing(c) /\ PacketsOf(st, p) # <<>>)
              /\ ~(c.ready /\ c.state = "RUNNING" /\ st.named)
    <2>1. r = st
      BY <1>10 DEF Announce
    <2> HIDE DEF r
    <2>2. QED
      BY <2>1, StillCalm DEF Touches, Same, Keeps, r
  <1>11. QED
    BY <1>7, <1>8, <1>9, <1>10

\* r is as good as st was.
KeepsAll(st, r, Reg) ==
  Shaped(r, {}) /\ r.named = st.named /\ Calm(st, r) /\ \A p \in Pcbs : Keeps(st, r, p, Reg)

LEMMA KeepsAllTwice ==
  ASSUME NEW st, NEW s, NEW r, NEW Reg, KeepsAll(st, s, Reg), KeepsAll(s, r, Reg)
  PROVE  KeepsAll(st, r, Reg)
  BY CalmTwice DEF KeepsAll, Keeps

LEMMA TouchesKeepsAll ==
  ASSUME NEW st, NEW r, NEW p, NEW Reg, Touches(st, r, p), Keeps(st, r, p, Reg)
  PROVE  KeepsAll(st, r, Reg)
  <1>1. ASSUME NEW q \in Pcbs, q # p PROVE Keeps(st, r, q, Reg)
    <2>1. Same(st, r, q) /\ r.named = st.named
      BY <1>1 DEF Touches
    <2>2. /\ Sound(st, q) => Sound(r, q)
          /\ Kept(st, q, Reg) => Kept(r, q, Reg)
      BY <2>1, SameFacts
    <2>3. QED
      BY <2>1, <2>2 DEF Keeps, Same
  <1>2. QED
    BY <1>1 DEF KeepsAll, Touches

\* The walk that announces on every interface.
LEMMA AnnounceAllFacts ==
  ASSUME MemoryLasts, NEW st, Shaped(st, {}),
         NEW ss \in Seq(Services), NEW ip \in BOOLEAN, NEW slot \in Slots, ss # <<>> \/ ip,
         NEW Reg, ToSet(ss) \subseteq Reg
  PROVE  KeepsAll(st, AnnounceAll(st, ss, ip, slot), Reg)
  <1> DEFINE n == Len(PcbSeq)
             Step(x, p) == Announce(x, p, ss, ip, slot)
             T == [i \in 0..n |-> {x \in Sendings : KeepsAll(st, x, Reg)}]
             step == [i \in 1..n |-> [x \in Sendings |-> Step(x, PcbSeq[i])]]
             F == CHOOSE f : f = [i \in 0..n |-> IF i = 0 THEN st ELSE Step(f[i - 1], PcbSeq[i])]
  <1>1. n \in Nat /\ \A i \in 1..n : PcbSeq[i] \in Pcbs
    BY PcbSeqFacts
  <1>2. st \in T[0]
    BY <1>1, StillCalm DEF Shaped, KeepsAll, Keeps
  <1>3. ASSUME NEW i \in 1..n, NEW x \in T[i - 1]
        PROVE  Step(x, PcbSeq[i]) \in T[i] /\ x \in Sendings
    <2> DEFINE p == PcbSeq[i]
               y == Step(x, p)
    <2>1. i - 1 \in 0..n /\ i \in 0..n /\ p \in Pcbs
      BY <1>1
    <2>2. x \in Sendings /\ KeepsAll(st, x, Reg) /\ Shaped(x, {})
      BY <2>1 DEF KeepsAll
    <2> HIDE DEF p
    <2>3. Touches(x, y, p) /\ Keeps(x, y, p, Reg)
      BY <2>1, <2>2, AnnounceFacts
    <2> HIDE DEF y
    <2>4. KeepsAll(st, y, Reg)
      BY <2>2, <2>3, TouchesKeepsAll, KeepsAllTwice
    <2>5. y \in Sendings
      BY <2>4 DEF KeepsAll, Shaped
    <2>6. QED
      BY <2>1, <2>2, <2>4, <2>5 DEF y, p
  <1>4. \A i \in 1..n : \A x \in T[i - 1] : step[i][x] \in T[i]
    BY <1>3
  <1>5. \A i \in 1..n : \A x \in T[i - 1] : step[i][x] = Step(x, PcbSeq[i])
    BY <1>3
  <1>6. \A x \in T[n] : KeepsAll(st, x, Reg)
    BY <1>1
  <1> HIDE DEF T, step, Step, n
  <1>7. Leads(n, T, step)
    BY <1>4 DEF Leads
  <1>8. PICK f : Recurs(f, n, st, step) /\ Within(f, n, T)
    BY <1>1, <1>2, <1>7, Recursion
  <1>9. f = [i \in 0..n |-> IF i = 0 THEN st ELSE Step(f[i - 1], PcbSeq[i])]
    <2>1. \A i \in 1..n : i - 1 \in 0..n
      BY <1>1
    <2>2. \A i \in 1..n : step[i][f[i - 1]] = Step(f[i - 1], PcbSeq[i])
      BY <1>5, <1>8, <2>1 DEF Within
    <2>3. \A i \in 0..n : i = 0 \/ i \in 1..n
      BY <1>1
    <2>4. QED
      BY <1>8, <2>2, <2>3 DEF Recurs
  <1>10. F = [i \in 0..n |-> IF i = 0 THEN st ELSE Step(F[i - 1], PcbSeq[i])]
    BY <1>9
  <1>11. AnnounceAll(st, ss, ip, slot) = F[n]
    BY DEF AnnounceAll, Walk, Step, n
  <1> HIDE DEF F
  <1>12. F[n] \in T[n]
    <2>1. F[0] \in T[0]
      BY <1>1, <1>2, <1>10
    <2>2. \A i \in 1..n : F[i] = Step(F[i - 1], PcbSeq[i])
      BY <1>1, <1>10
    <2>3. \A i \in 1..n : F[i - 1] \in T[i - 1] => F[i] = step[i][F[i - 1]]
      BY <1>5, <2>2
    <2>4. QED
      BY <1>1, <1>7, <2>1, <2>3, Follows
  <1>13. QED
    BY <1>6, <1>11, <1>12

\* A packet after a change that leaves it what it is.
Retouched(m, m1) ==
  /\ m1 \in Packets /\ m1.kind = m.kind /\ m1.pcb = m.pcb /\ m1.servers = m.servers
  /\ m1.sent = m.sent /\ m1.shared = m.shared
  /\ m1.answers \subseteq m.answers /\ (m.shared \/ m1.answers = m.answers)
  /\ (m.queued => m.due) => (m1.queued => m1.due)

\* Changing packets in this way changes nothing that matters, if no name is new.
LEMMA RetouchFacts ==
  ASSUME NEW st, Shaped(st, {}), NEW mm \in [Addrs -> Packets \cup {Free}],
         \A a \in Addrs : mm[a] = Free <=> st.mem[a] = Free,
         \A a \in ToSet(st.tx) : Retouched(st.mem[a], mm[a]),
         NEW Reg
  PROVE  LET r == [st EXCEPT !.mem = mm]
         IN /\ Shaped(r, {}) /\ r.named = st.named /\ r.pcb = st.pcb
            /\ \A p : Of(r, p) = Of(st, p)
            /\ \A p : Sound(st, p) => Sound(r, p)
            /\ (\A a \in ToSet(st.tx) : mm[a].renamed = st.mem[a].renamed)
               => \A p \in Pcbs : Keeps(st, r, p, Reg)
            /\ (\A a \in ToSet(st.tx) : mm[a].due = st.mem[a].due /\ mm[a].queued = st.mem[a].queued)
               => Calm(st, r)
  <1> DEFINE r == [st EXCEPT !.mem = mm]
  <1>1. /\ r \in Sendings /\ r.tx = st.tx /\ r.pcb = st.pcb /\ r.named = st.named /\ r.mem = mm
    BY DEF Shaped, Sendings
  <1> HIDE DEF r
  <1>2. Shaped(r, {})
    BY <1>1 DEF Shaped
  <1>3. ASSUME NEW p PROVE Of(r, p) = Of(st, p)
    BY <1>1 DEF Of, Retouched
  <1>4. \A p : \A a \in Of(st, p) : Retouched(st.mem[a], r.mem[a])
    BY <1>1 DEF Of
  <1>5. ASSUME NEW p, Sound(st, p) PROVE Sound(r, p)
    <2> DEFINE c == st.pcb[p]
    <2>1. \A a \in Of(st, p) : r.mem[a].queued => r.mem[a].due
      BY <1>4, <1>5 DEF Sound, Retouched
    <2>2. \A a \in Of(st, p) : Carries(st.mem[a], c) => Carries(r.mem[a], c)
      BY <1>4 DEF Carries, Retouched
    <2>3. QED
      BY <1>1, <1>3, <1>5, <2>1, <2>2 DEF Sound
  <1>6. ASSUME \A a \in ToSet(st.tx) : mm[a].renamed = st.mem[a].renamed
        PROVE  \A p \in Pcbs : Keeps(st, r, p, Reg)
    <2>1. SUFFICES ASSUME NEW p \in Pcbs, Kept(st, p, Reg) PROVE Kept(r, p, Reg)
      BY <1>1, <1>5 DEF Keeps
    <2>2. \A a \in Of(st, p) : Fit(st.mem[a], st.pcb[p], Reg) => Fit(r.mem[a], st.pcb[p], Reg)
      <3>1. TAKE a \in Of(st, p)
      <3>2. Retouched(st.mem[a], r.mem[a]) /\ r.mem[a].renamed = st.mem[a].renamed
        BY <1>1, <1>4, <1>6 DEF Of
      <3>3. QED
        BY <3>2 DEF Retouched, Fit
    <2>3. QED
      BY <1>1, <1>3, <2>1, <2>2 DEF Kept
  <1>7. (\A a \in ToSet(st.tx) : mm[a].due = st.mem[a].due /\ mm[a].queued = st.mem[a].queued)
        => Calm(st, r)
    BY <1>1, FewerCalm
  <1>8. QED
    BY <1>1, <1>2, <1>3, <1>5, <1>6, <1>7 DEF r

\* New names do not disturb what carries the interfaces on.
LEMMA RenameFacts ==
  ASSUME NEW st, Shaped(st, {}), NEW S
  PROVE  LET r == Rename(st, S)
         IN /\ Shaped(r, {}) /\ r.named = st.named /\ r.pcb = st.pcb
            /\ \A p : Of(r, p) = Of(st, p)
            /\ \A p : Sound(st, p) => Sound(r, p)
            /\ Calm(st, r)
  <1> DEFINE mm == [a \in Addrs |->
                      IF st.mem[a] # Free /\ (st.mem[a].servers \cup st.mem[a].answers) \cap S # {}
                      THEN [st.mem[a] EXCEPT !.renamed = TRUE] ELSE st.mem[a]]
  <1>1. \A m \in Packets : LET m1 == [m EXCEPT !.renamed = TRUE]
                           IN Retouched(m, m1) /\ m1.due = m.due /\ m1.queued = m.queued
    BY DEF Packets, Retouched
  <1>2. \A m \in Packets : Retouched(m, m)
    BY DEF Retouched
  <1>3. \A a \in Addrs : st.mem[a] \in Packets \cup {Free}
    BY SendingFields DEF Shaped
  <1>4. ASSUME NEW a \in Addrs
        PROVE  /\ st.mem[a] = Free => mm[a] = Free
               /\ st.mem[a] # Free => /\ Retouched(st.mem[a], mm[a])
                                      /\ mm[a].due = st.mem[a].due /\ mm[a].queued = st.mem[a].queued
    BY <1>1, <1>2, <1>3
  <1> HIDE DEF mm
  <1>5. \A a \in Addrs : mm[a] \in Packets \cup {Free} /\ (mm[a] = Free <=> st.mem[a] = Free)
    BY <1>4, PacketIsNotFree DEF Retouched
  <1>6. mm \in [Addrs -> Packets \cup {Free}]
    BY <1>5 DEF mm
  <1>7. \A a \in ToSet(st.tx) : /\ Retouched(st.mem[a], mm[a])
                               /\ mm[a].due = st.mem[a].due /\ mm[a].queued = st.mem[a].queued
    BY <1>4, SendingFields DEF Shaped
  <1>8. Rename(st, S) = [st EXCEPT !.mem = mm]
    BY DEF Rename, mm
  <1> DEFINE r == [st EXCEPT !.mem = mm]
  <1>9. /\ Shaped(r, {}) /\ r.named = st.named /\ r.pcb = st.pcb
        /\ \A p : Of(r, p) = Of(st, p)
        /\ \A p : Sound(st, p) => Sound(r, p)
        /\ Calm(st, r)
    BY <1>5, <1>6, <1>7, RetouchFacts
  <1> HIDE DEF r
  <1>10. QED
    BY <1>8, <1>9 DEF r

\* An interface that goes down is left with nothing.
LEMMA PcbDisableFacts ==
  ASSUME NEW st, Shaped(st, {}), NEW p \in Pcbs, NEW Reg
  PROVE  LET r == PcbDisable(st, p)
         IN /\ Touches(st, r, p) /\ (Sound(st, p) => Sound(r, p)) /\ ~r.pcb[p].ready
            /\ (Kept(st, p, Reg) => Kept(r, p, Reg))
  <1> DEFINE c == st.pcb[p]
             c1 == [c EXCEPT !.state = "OFF"]
             s == ClearTxIf(st, p)
             r == PcbDisable(st, p)
  <1>1. c \in Interfaces
    BY SendingFields DEF Shaped
  <1>2. CASE c.ready
    <2>1. Touches(st, s, p) /\ s.pcb = st.pcb /\ Of(s, p) = {} /\ Shaped(s, {})
      BY ClearTxIfFacts DEF Touches
    <2>2. r = PutPcb(s, p, PcbOff)
      BY <1>2 DEF PcbDisable
    <2> HIDE DEF s, r
    <2>3. PcbOff \in Interfaces /\ ~PcbOff.ready /\ PcbOff.state = "OFF" /\ PcbOff.probes = <<>>
      BY DEF PcbOff, Interfaces, States
    <2>4. Touches(s, r, p) /\ r.pcb[p] = PcbOff /\ Of(r, p) = {}
      BY <2>1, <2>2, <2>3, PutPcbSame
    <2>5. Touches(st, r, p)
      BY <2>1, <2>4, TouchesTwice
    <2>6. QED
      BY <2>3, <2>4, <2>5 DEF Sound, Kept, r
  <1>3. CASE ~c.ready
    <2>1. r = PutPcb(st, p, c1)
      BY <1>3 DEF PcbDisable, To
    <2>2. c1 \in Interfaces /\ c1.ready = c.ready /\ c1.probes = c.probes /\ c1.state = "OFF"
      <3> HIDE DEF c
      <3>1. QED
        BY <1>1 DEF Interfaces, States
    <2> HIDE DEF c1, r
    <2>3. Touches(st, r, p) /\ r.pcb[p] = c1 /\ r.mem = st.mem /\ Of(r, p) = Of(st, p)
      BY <2>1, <2>2, PutPcbSame
    <2>4. QED
      BY <1>3, <2>2, <2>3 DEF Sound, Kept, r
  <1>4. QED
    BY <1>2, <1>3

\* An interface that comes up probes for every registered service.
LEMMA PcbEnableFacts ==
  ASSUME MemoryLasts, NEW st, Shaped(st, {}), NEW p \in Pcbs, services \in Seq(Services),
         NEW up \in BOOLEAN, NEW slot \in Slots
  PROVE  LET r == PcbEnable(st, p, up, slot)
         IN /\ Touches(st, r, p) /\ (Sound(st, p) => Sound(r, p))
            /\ r.pcb[p].ready = (st.pcb[p].ready \/ up)
            /\ (Kept(st, p, Registered) => Kept(r, p, Registered))
  <1> DEFINE c == st.pcb[p]
             c1 == [c EXCEPT !.ready = TRUE]
             s == PutPcb(st, p, c1)
             r == PcbEnable(st, p, up, slot)
             i == InitProbe(s, p, services, TRUE, slot)
  <1>1. c \in Interfaces
    BY SendingFields DEF Shaped
  <1>2. CASE c.ready \/ up
    <2>1. c1 \in Interfaces /\ c1.ready = TRUE /\ c1.probes = c.probes
      <3> HIDE DEF c
      <3>1. QED
        BY <1>1 DEF Interfaces
    <2> HIDE DEF c1
    <2>2. Touches(st, s, p) /\ s.pcb[p] = c1 /\ Shaped(s, {}) /\ s.named = st.named
      BY <2>1, PutPcbSame DEF Touches
    <2> HIDE DEF s
    <2>3. /\ Touches(s, i, p)
          /\ Sound(i, p) /\ i.pcb[p].ready = s.pcb[p].ready /\ (s.named => Probing(i.pcb[p]))
          /\ /\ ToSet(services) \subseteq Registered /\ ToSet(s.pcb[p].probes) \subseteq Registered
             /\ (s.named \/ s.pcb[p].probes = <<>>) /\ s.pcb[p].ready
             => Kept(i, p, Registered)
      BY <2>2, InitProbeFacts
    <2> HIDE DEF i
    <2>4. Touches(st, i, p)
      BY <2>2, <2>3, TouchesTwice
    <2>5. Kept(st, p, Registered) => Kept(i, p, Registered)
      BY <2>1, <2>2, <2>3, KeptAble DEF Able, Registered
    <2>6. r = i
      BY <1>2 DEF PcbEnable, i, s, c1
    <2> HIDE DEF r
    <2>7. QED
      BY <1>2, <2>1, <2>2, <2>3, <2>4, <2>5, <2>6 DEF r
  <1>3. CASE ~(c.ready \/ up)
    <2>1. r = st
      BY <1>3 DEF PcbEnable
    <2> HIDE DEF r
    <2>2. c.ready = FALSE /\ up = FALSE
      <3> HIDE DEF c
      <3>1. QED
        BY <1>1, <1>3 DEF Interfaces
    <2>3. QED
      BY <2>1, <2>2, StillCalm DEF Touches, Same, r
  <1>4. QED
    BY <1>2, <1>3

\* The packet m at a, which was the head of x, has left the queue in st, and is
\* given back in freed.
Leaves(x, st, freed, a, m) ==
  /\ st \in Sendings /\ st.mem = [x.mem EXCEPT ![a] = m] /\ st.pcb = x.pcb
  /\ freed = [st EXCEPT !.mem = [x.mem EXCEPT ![a] = Free]]
  /\ a \in Of(x, m.pcb) /\ a \in Addrs /\ a \notin ToSet(freed.tx)
  /\ NewAddr(st) \in Addrs /\ NewAddr(st) \notin ToSet(freed.tx)
  /\ Touches(x, freed, m.pcb) /\ freed.pcb = x.pcb
  /\ Of(freed, m.pcb) = Of(x, m.pcb) \ {a}
  /\ \A b \in Of(freed, m.pcb) : freed.mem[b] = x.mem[b]

LEMMA LeaveFacts ==
  ASSUME MemoryLasts, NEW x, Shaped(x, {}), x.tx # <<>>, NEW m \in Packets,
         m.pcb = x.mem[Head(x.tx)].pcb
  PROVE  LET a == Head(x.tx)
             st == PutPacket([x EXCEPT !.tx = Tail(@)], a, m)
             freed == PutPacket(st, a, Free)
         IN Leaves(x, st, freed, a, m)
  <1> DEFINE a == Head(x.tx)
             t == Tail(x.tx)
             y == [x EXCEPT !.tx = t]
             st == PutPacket(y, a, m)
             freed == PutPacket(st, a, Free)
             p == m.pcb
  <1>1. /\ x \in Sendings /\ x.tx \in Seq(Addrs) /\ x.mem \in [Addrs -> Packets \cup {Free}]
        /\ ToSet(x.tx) \subseteq Addrs /\ Distinct(x.tx)
    BY SendingFields DEF Shaped
  <1>2. /\ t \in Seq(Addrs) /\ Distinct(t) /\ a \in ToSet(x.tx) /\ ToSet(t) = ToSet(x.tx) \ {a}
        /\ \A b, c : Ahead(t, b, c) => Ahead(x.tx, b, c)
    BY <1>1, TailFacts
  <1> HIDE DEF a, t
  <1>3. a \in Addrs
    BY <1>1, <1>2
  <1>4. y \in Sendings /\ y.tx = t /\ y.mem = x.mem /\ y.pcb = x.pcb /\ y.named = x.named
    <2>1. y = [x EXCEPT !.tx = t]
      OBVIOUS
    <2> HIDE DEF y
    <2>2. QED
      BY <1>1, <1>2, <2>1 DEF Sendings
  <1> HIDE DEF y
  <1>5. /\ st \in Sendings /\ st.tx = t /\ st.pcb = x.pcb /\ st.named = x.named
        /\ st.mem = [x.mem EXCEPT ![a] = m]
    BY <1>3, <1>4, PutPacketFacts
  <1> HIDE DEF st
  <1>6. /\ freed \in Sendings /\ freed.tx = t /\ freed.pcb = x.pcb /\ freed.named = x.named
        /\ freed.mem = [st.mem EXCEPT ![a] = Free]
    <2>1. Free \in Packets \cup {Free}
      OBVIOUS
    <2>2. /\ freed \in Sendings /\ freed.tx = st.tx /\ freed.pcb = st.pcb /\ freed.named = st.named
          /\ freed.mem = [st.mem EXCEPT ![a] = Free]
      BY <1>3, <1>5, <2>1 DEF PutPacket, Sendings
    <2> HIDE DEF freed
    <2>3. QED
      BY <1>5, <2>2
  <1>7. freed = [st EXCEPT !.mem = [x.mem EXCEPT ![a] = Free]]
    <2>1. [st.mem EXCEPT ![a] = Free] = [x.mem EXCEPT ![a] = Free]
      BY <1>1, <1>3, <1>5
    <2>2. freed = [st EXCEPT !.mem = [st.mem EXCEPT ![a] = Free]]
      BY <1>5 DEF PutPacket, Sendings
    <2>3. QED
      BY <2>1, <2>2
  <1> HIDE DEF freed
  <1>8. freed.mem[a] = Free /\ \A b \in Addrs : b # a => freed.mem[b] = x.mem[b]
    BY <1>1, <1>3, <1>5, <1>6
  <1>9. st.mem[a] = m /\ \A b \in Addrs : b # a => st.mem[b] = x.mem[b]
    BY <1>1, <1>3, <1>5
  <1>10. Shaped(freed, {})
    BY <1>2, <1>6, <1>8 DEF Shaped
  <1>11. Shaped(st, {a})
    BY <1>2, <1>5, <1>9, PacketIsNotFree DEF Shaped
  <1>12. NewAddr(st) \in Addrs /\ NewAddr(st) \notin ToSet(t)
    <2>1. IsFiniteSet({a})
      BY FS_Singleton
    <2>2. QED
      BY <1>5, <1>11, <2>1, NewAddrFacts
  <1>13. a \in Of(x, p)
    BY <1>2 DEF Of, a
  <1>14. \A q, b : b \in Of(freed, q) <=> b \in Of(x, q) /\ b # a
    BY <1>1, <1>2, <1>6, <1>8 DEF Of
  <1>15. Of(freed, p) = Of(x, p) \ {a}
    BY <1>14
  <1>16. \A q : \A b \in Of(freed, q) : freed.mem[b] = x.mem[b]
    BY <1>8, <1>14, OfFacts
  <1>17. ASSUME NEW q \in Pcbs, q # p PROVE Same(x, freed, q)
    <2>1. a \notin Of(x, q)
      BY <1>17, <1>13 DEF Of
    <2>2. \A b : b \in Of(freed, q) <=> b \in Of(x, q)
      BY <1>14, <2>1
    <2>3. Of(freed, q) = Of(x, q)
      BY <2>2
    <2>4. QED
      BY <1>6, <1>16, <2>3 DEF Same
  <1>18. Touches(x, freed, p)
    <2>1. \A b \in ToSet(t) : freed.mem[b] = x.mem[b]
      BY <1>1, <1>2, <1>8
    <2>2. Calm(x, freed)
      BY <1>2, <1>6, <2>1, FewerCalm
    <2>3. QED
      BY <1>6, <1>10, <1>17, <2>2 DEF Touches
  <1>19. y = [x EXCEPT !.tx = Tail(@)]
    BY DEF y, t
  <1>20. QED
    BY <1>2, <1>3, <1>5, <1>6, <1>7, <1>12, <1>13, <1>15, <1>16, <1>18, <1>19
       DEF Leaves, a, t, st, freed

\* A packet that has been sent once more.
SentAgain(m0, m) ==
  /\ m0 \in Packets /\ m \in Packets /\ m.pcb = m0.pcb /\ m.kind = m0.kind
  /\ m.servers = m0.servers /\ m.answers = m0.answers /\ m.shared = m0.shared
  /\ m.renamed = m0.renamed /\ ~m.queued
  /\ m.sent = IF m0.sent < 3 THEN m0.sent + 1 ELSE m0.sent

LEMMA SentAgainFacts ==
  ASSUME NEW m0 \in Packets
  PROVE  SentAgain(m0, [m0 EXCEPT !.queued = FALSE, !.sent = IF @ < 3 THEN @ + 1 ELSE @])
  <1> DEFINE k == IF m0.sent < 3 THEN m0.sent + 1 ELSE m0.sent
             m == [m0 EXCEPT !.queued = FALSE, !.sent = IF @ < 3 THEN @ + 1 ELSE @]
  <1>1. m0.sent \in 0..3 /\ k \in 0..3 /\ m0.pcb \in Pcbs
    BY DEF Packets
  <1>2. m = [[m0 EXCEPT !.queued = FALSE] EXCEPT !.sent = k]
    BY DEF Packets
  <1> HIDE DEF m, k
  <1>3. /\ m \in Packets /\ m.pcb = m0.pcb /\ m.kind = m0.kind
        /\ m.servers = m0.servers /\ m.answers = m0.answers /\ m.shared = m0.shared
        /\ m.renamed = m0.renamed /\ ~m.queued /\ m.sent = k
    BY <1>1, <1>2 DEF Packets
  <1>4. QED
    BY <1>3 DEF SentAgain, m, k

\* The interface p of the packet is now c1, and the packet is gone or, with
\* another content, at b.
Freed(x, r, p, a, c1) ==
  /\ Touches(x, r, p) /\ r.pcb[p] = c1 /\ Of(r, p) = Of(x, p) \ {a}
  /\ \A d \in Of(r, p) : r.mem[d] = x.mem[d]

\* ... or there is the packet m1 at b in its place.
Moved(x, r, p, a, c1, b, m1) ==
  /\ Touches(x, r, p) /\ r.pcb[p] = c1 /\ Of(r, p) = (Of(x, p) \ {a}) \cup {b}
  /\ r.mem[b] = m1 /\ \A d \in Of(x, p) \ {a} : r.mem[d] = x.mem[d]

LEMMA FreedFacts ==
  ASSUME NEW x, Shaped(x, {}), NEW st, NEW freed, NEW a, NEW m, Leaves(x, st, freed, a, m),
         NEW p \in Pcbs, m.pcb = p, NEW c1 \in Interfaces
  PROVE  LET r == PutPcb(freed, p, c1)
         IN Freed(x, r, p, a, c1) /\ r.tx = freed.tx
  <1> DEFINE r == PutPcb(freed, p, c1)
  <1>1. Shaped(freed, {}) /\ Touches(x, freed, p)
    BY DEF Leaves, Touches
  <1>2. Touches(freed, r, p) /\ r.pcb[p] = c1 /\ r.mem = freed.mem /\ Of(r, p) = Of(freed, p)
    BY <1>1, PutPcbSame
  <1>3. r.tx = freed.tx
    <2>1. freed \in Sendings
      BY <1>1 DEF Shaped
    <2>2. QED
      BY <2>1 DEF PutPcb, Sendings
  <1> HIDE DEF r
  <1>4. Touches(x, r, p)
    BY <1>1, <1>2, TouchesTwice
  <1>5. QED
    BY <1>2, <1>3, <1>4 DEF Freed, Leaves, r

LEMMA MovedFacts ==
  ASSUME NEW x, Shaped(x, {}), NEW st, NEW freed, NEW a, NEW m, Leaves(x, st, freed, a, m),
         NEW p \in Pcbs, m.pcb = p, NEW c1 \in Interfaces,
         NEW m1 \in Packets, m1.pcb = p, Blank(m1), NEW slot \in Slots,
         NEW b \in Addrs, b \notin ToSet(freed.tx)
  PROVE  LET r == SendAfter(PutPacket(PutPcb(freed, p, c1), b, m1), b, slot)
         IN Moved(x, r, p, a, c1, b, m1)
  <1> DEFINE s == PutPcb(freed, p, c1)
             r == SendAfter(PutPacket(s, b, m1), b, slot)
  <1>1. Freed(x, s, p, a, c1) /\ s.tx = freed.tx /\ Shaped(s, {})
    <2>1. Freed(x, s, p, a, c1) /\ s.tx = freed.tx
      BY FreedFacts
    <2> HIDE DEF s
    <2>2. QED
      BY <2>1 DEF Freed, Touches
  <1> HIDE DEF s
  <1>2. Touches(s, r, m1.pcb) /\ r.pcb = s.pcb /\ Adds(s, r, m1.pcb, b, m1)
    BY <1>1, PlaceSame
  <1> HIDE DEF r
  <1>3. Touches(x, r, p)
    BY <1>1, <1>2, TouchesTwice DEF Freed
  <1>4. QED
    BY <1>1, <1>2, <1>3 DEF Freed, Moved, Adds, r, s

\* A packet that was sent carries its interface on, to the next probe or announcement,
\* from the last probe to the first announcement, or to the end; one that does not
\* carry it on leaves the one that does (mdns_priv_pcb_schedule_tx_packet).
LEMMA RescheduleFacts ==
  ASSUME MemoryLasts, NEW x, Shaped(x, {}), NEW st, NEW a, NEW m, NEW p, m.pcb = p,
         Leaves(x, st, PutPacket(st, a, Free), a, m), SentAgain(x.mem[a], m),
         NEW slot \in Slots, NEW Reg
  PROVE  LET r == IF x.pcb[p].state = "OFF" THEN PutPacket(st, a, Free) ELSE Reschedule(st, a, slot)
         IN Touches(x, r, p) /\ Keeps(x, r, p, Reg) /\ (a \in ToSet(r.tx) => ~r.mem[a].queued)
  <1> DEFINE freed == PutPacket(st, a, Free)
             c == x.pcb[p]
             r == IF c.state = "OFF" THEN freed ELSE Reschedule(st, a, slot)
             again == [m EXCEPT !.due = FALSE]
             moved == [c EXCEPT !.state = NextState[@]]
             probed == [moved EXCEPT !.probes = <<>>, !.ip = FALSE]
             running == [c EXCEPT !.state = "RUNNING"]
             b == NewAddr(st)
  <1> SUFFICES Touches(x, r, p) /\ Keeps(x, r, p, Reg) /\ (a \in ToSet(r.tx) => ~r.mem[a].queued)
    OBVIOUS
  <1>1. /\ Leaves(x, st, freed, a, m) /\ freed.pcb = x.pcb /\ st.pcb = x.pcb
        /\ a \in Addrs /\ a \in Of(x, p) /\ a \notin ToSet(freed.tx)
        /\ b \in Addrs /\ b \notin ToSet(freed.tx) /\ Touches(x, freed, p)
        /\ Of(freed, p) = Of(x, p) \ {a} /\ \A d \in Of(freed, p) : freed.mem[d] = x.mem[d]
    BY DEF Leaves
  <1>2. st.mem[a] = m
    BY <1>1, SendingFields DEF Shaped, Leaves
  <1>3. p \in Pcbs /\ m \in Packets
    BY DEF SentAgain, Packets
  <1>4. c \in Interfaces /\ c.state \in States
    BY <1>3, SendingFields DEF Shaped, Interfaces
  <1>5. \A d \in Of(x, p) : Sound(x, p) => (x.mem[d].queued => x.mem[d].due)
    BY DEF Sound
  <1> DEFINE Out(y) == Touches(x, y, p) /\ \A d \in Of(y, p) : d = a => ~y.mem[d].queued
  <1>11. ASSUME NEW y, Out(y), a \in ToSet(y.tx) PROVE ~y.mem[a].queued
    <2>1. Shaped(y, {}) /\ \A q \in Pcbs \ {p} : Same(x, y, q)
      BY <1>11 DEF Touches
    <2> DEFINE q == y.mem[a].pcb
    <2>2. a \in Of(y, q) /\ y.mem[a] \in Packets
      BY <1>11, <2>1, OfFacts
    <2>3. q \in Pcbs
      BY <2>2 DEF Packets
    <2> HIDE DEF q
    <2>4. q = p
      BY <1>1, <2>1, <2>2, <2>3 DEF Same, Of
    <2>5. QED
      BY <1>11, <2>2, <2>4
  <1> HIDE DEF c, Out
  <1>6. CASE c.state \in {"OFF", "RUNNING"}
    <2>1. r = freed
      BY <1>1, <1>2, <1>6 DEF Reschedule, c
    <2> HIDE DEF r, freed, b
    <2>2. ~Probing(c) /\ ~Announcing(c)
      BY <1>6 DEF Probing, Announcing
    <2>3. Sound(x, p) => Sound(freed, p)
      BY <1>1, <2>2 DEF Sound, c
    <2>4. Kept(x, p, Reg) => Kept(freed, p, Reg)
      BY <1>1 DEF Kept, Touches
    <2>5. Keeps(x, freed, p, Reg)
      BY <1>1, <2>3, <2>4 DEF Keeps
    <2>6. QED
      BY <1>1, <2>1, <2>5
  <1>7. CASE c.state = "ANNOUNCE_3"
    <2>1. r = PutPcb(freed, p, running)
      BY <1>1, <1>2, <1>7 DEF Reschedule, To, c
    <2>2. running \in Interfaces /\ running.ready = c.ready /\ running.probes = c.probes
          /\ running.state = "RUNNING"
      BY <1>4 DEF Interfaces, States
    <2>3. ~Probing(running) /\ ~Announcing(running) /\ ~Probing(c)
      BY <1>7, <2>2 DEF Probing, Announcing
    <2> HIDE DEF running, r, freed, b
    <2>4. /\ Touches(x, r, p) /\ r.pcb[p] = running /\ Of(r, p) = Of(x, p) \ {a}
          /\ \A d \in Of(r, p) : r.mem[d] = x.mem[d]
      <3>1. Freed(x, PutPcb(freed, p, running), p, a, running)
        BY <1>1, <1>3, <2>2, FreedFacts
      <3>2. QED
        BY <2>1, <3>1 DEF Freed
    <2>5. Sound(x, p) => Sound(r, p)
      BY <1>5, <2>3, <2>4 DEF Sound
    <2>6. Kept(x, p, Reg) => Kept(r, p, Reg)
      <3>1. \A d : Fit(x.mem[d], c, Reg) => Fit(x.mem[d], running, Reg)
        BY <2>2 DEF Fit
      <3>2. QED
        BY <1>1, <2>2, <2>3, <2>4, <3>1 DEF Kept, c
    <2>7. Out(r)
      BY <2>4 DEF Out
    <2>8. QED
      BY <1>11, <2>2, <2>4, <2>5, <2>6, <2>7 DEF Keeps, c
  <1>8. CASE c.state \in {"PROBE_1", "PROBE_2", "ANNOUNCE_1", "ANNOUNCE_2"}
    <2> DEFINE s == PutPacket(PutPcb(freed, p, moved), a, again)
    <2>1. moved \in Interfaces /\ moved.ready = c.ready /\ moved.probes = c.probes /\ moved.ip = c.ip
          /\ moved.state = NextState[c.state]
      BY <1>4, <1>8 DEF Interfaces, States, NextState
    <2>2. /\ Probing(moved) <=> Probing(c)
          /\ Announcing(moved) <=> Announcing(c)
          /\ moved.state = "PROBE_2" => c.state = "PROBE_1"
          /\ moved.state = "PROBE_3" => c.state = "PROBE_2"
      BY <1>8, <2>1 DEF NextState, Probing, Announcing
    <2>3. /\ again \in Packets /\ again.pcb = p /\ again.kind = m.kind /\ again.servers = m.servers
          /\ again.answers = m.answers /\ again.shared = m.shared /\ again.renamed = m.renamed
          /\ again.queued = m.queued /\ again.sent = m.sent /\ Blank(again)
      BY <1>3 DEF Packets, SentAgain, Blank
    <2>4. r = SendAfter(PutPacket(PutPcb(st, p, moved), a, again), a, slot)
      BY <1>1, <1>2, <1>8 DEF Reschedule, c
    <2> HIDE DEF moved, again, r
    <2>5. PutPacket(PutPcb(st, p, moved), a, again) = s
      BY <1>1 DEF PutPacket, PutPcb, Leaves, Sendings
    <2> HIDE DEF freed, b
    <2>6. /\ Touches(x, r, p) /\ r.pcb[p] = moved /\ Of(r, p) = (Of(x, p) \ {a}) \cup {a}
          /\ r.mem[a] = again /\ \A d \in Of(x, p) \ {a} : r.mem[d] = x.mem[d]
      <3>1. Moved(x, SendAfter(s, a, slot), p, a, moved, a, again)
        BY <1>1, <1>3, <2>1, <2>3, MovedFacts
      <3> HIDE DEF s
      <3>2. QED
        BY <2>4, <2>5, <3>1 DEF Moved
    <2>7. Of(r, p) = Of(x, p)
      BY <1>1, <2>6
    <2>8. \A d \in Of(x, p) : Carries(x.mem[d], c) => Carries(r.mem[d], moved)
      <3>1. Claims(moved) = Claims(c)
        BY <2>1 DEF Claims
      <3>2. Carries(x.mem[a], c) => Carries(again, moved)
        BY <2>2, <2>3, <3>1 DEF Carries, SentAgain
      <3>3. \A d \in Of(x, p) \ {a} : Carries(x.mem[d], c) => Carries(x.mem[d], moved)
        BY <2>2, <3>1 DEF Carries
      <3>4. QED
        BY <2>6, <3>2, <3>3
    <2>9. Sound(x, p) => Sound(r, p)
      <3>1. Claims(moved) = Claims(c)
        BY <2>1 DEF Claims
      <3>2. ~again.queued
        BY <2>3 DEF SentAgain
      <3>3. QED
        BY <2>1, <2>2, <2>6, <2>7, <2>8, <3>1, <3>2 DEF Sound, c
    <2>10. ASSUME Sound(x, p), Kept(x, p, Reg) PROVE Kept(r, p, Reg)
      <3>1. c.ready /\ \A d \in Of(x, p) : Fit(x.mem[d], c, Reg)
        BY <1>1, <2>10 DEF Kept, c
      <3>2. Fit(again, moved, Reg)
        <4>1. Fit(x.mem[a], c, Reg) /\ x.mem[a].sent \in 0..3
          BY <1>1, <3>1 DEF SentAgain, Packets
        <4>2. QED
          BY <2>2, <2>3, <4>1 DEF Fit, SentAgain
      <3>3. \A d \in Of(x, p) \ {a} : Fit(r.mem[d], moved, Reg)
        <4>1. TAKE d \in Of(x, p) \ {a}
        <4>2. Fit(x.mem[d], c, Reg) /\ r.mem[d] = x.mem[d]
          BY <2>6, <3>1
        <4>3. ~Probing(c)
          BY <1>1, <2>10, <3>1 DEF Sound, c
        <4>4. moved.state # "PROBE_2" /\ moved.state # "PROBE_3"
          BY <2>2, <4>3 DEF Probing
        <4>5. Fit(x.mem[d], moved, Reg)
          BY <4>2, <4>4 DEF Fit
        <4>6. QED
          BY <4>2, <4>5
      <3>4. QED
        BY <2>1, <2>2, <2>6, <2>7, <2>10, <3>1, <3>2, <3>3 DEF Kept, Touches, c
    <2>11. Out(r)
      BY <2>3, <2>6 DEF Out, Blank
    <2>12. QED
      BY <1>11, <2>1, <2>6, <2>9, <2>10, <2>11 DEF Keeps, c
  <1>9. CASE c.state = "PROBE_3"
    <2> DEFINE m1 == AnnounceFromProbe(m)
    <2>1. probed \in Interfaces /\ probed.ready = c.ready /\ probed.probes = <<>>
          /\ probed.state = "ANNOUNCE_1"
      <3>1. moved \in Interfaces /\ moved.ready = c.ready /\ moved.state = "ANNOUNCE_1"
        BY <1>4, <1>9 DEF Interfaces, States, NextState
      <3> HIDE DEF moved
      <3>2. <<>> \in Seq(Services)
        OBVIOUS
      <3> DEFINE blank == [moved EXCEPT !.probes = <<>>]
      <3>3. blank \in Interfaces /\ blank.ready = moved.ready /\ blank.state = moved.state /\ blank.probes = <<>>
        BY <3>1, <3>2 DEF Interfaces
      <3>4. probed = [blank EXCEPT !.ip = FALSE]
        OBVIOUS
      <3> HIDE DEF blank, probed
      <3>5. QED
        BY <3>1, <3>3, <3>4 DEF Interfaces
    <2>2. Probing(c) /\ ~Probing(probed) /\ Announcing(probed) /\ ~Announcing(c)
      BY <1>9, <2>1 DEF Probing, Announcing
    <2>3. /\ m1 \in Packets /\ m1.pcb = p /\ m1.kind = "announce" /\ m1.servers = {}
          /\ m1.answers = m.servers \cup (IF m.servers = {} THEN {} ELSE {Host})
          /\ m1.shared = m.shared /\ m1.renamed = m.renamed
          /\ m1.queued = m.queued /\ m1.sent = m.sent /\ Blank(m1)
      <3>1. m.servers \subseteq Names /\ Host \in Names /\ <<>> \in Seq(Names)
        BY <1>3 DEF Packets, Names
      <3>2. QED
        BY <1>3, <3>1 DEF AnnounceFromProbe, Packets, Kinds, SentAgain, Blank
    <2>4. r = SendAfter(PutPacket(PutPcb(freed, p, probed), b, m1), b, slot)
      BY <1>1, <1>2, <1>9 DEF Reschedule, c
    <2> HIDE DEF probed, m1, r, freed, b
    <2>5. /\ Touches(x, r, p) /\ r.pcb[p] = probed /\ Of(r, p) = (Of(x, p) \ {a}) \cup {b}
          /\ r.mem[b] = m1 /\ \A d \in Of(x, p) \ {a} : r.mem[d] = x.mem[d]
      <3> DEFINE y == SendAfter(PutPacket(PutPcb(freed, p, probed), b, m1), b, slot)
      <3>1. Moved(x, y, p, a, probed, b, m1)
        BY <1>1, <1>3, <2>1, <2>3, MovedFacts
      <3> HIDE DEF y
      <3>2. r = y
        BY <2>4 DEF y
      <3>3. QED
        BY <3>1, <3>2 DEF Moved
    <2>6. Sound(x, p) => Sound(r, p)
      <3>1. SUFFICES ASSUME Sound(x, p) PROVE Sound(r, p)
        OBVIOUS
      <3>2. ~m1.queued
        BY <2>3 DEF SentAgain
      <3>3. \A d \in Of(r, p) : r.mem[d].queued => r.mem[d].due
        BY <1>5, <2>5, <3>1, <3>2
      <3>4. c.ready => Carries(x.mem[a], c) /\ Claims(c) # {}
        BY <1>1, <2>2, <3>1 DEF Sound, c
      <3>5. c.ready => Carries(m1, probed)
        BY <2>2, <2>3, <3>4 DEF Carries, SentAgain
      <3>6. QED
        BY <2>1, <2>2, <2>5, <3>3, <3>5 DEF Sound
    <2>7. ASSUME Sound(x, p), Kept(x, p, Reg) PROVE Kept(r, p, Reg)
      <3>1. c.ready /\ \A d \in Of(x, p) : Fit(x.mem[d], c, Reg)
        BY <1>1, <2>7 DEF Kept, c
      <3>2. Fit(m1, probed, Reg)
        <4>1. Fit(x.mem[a], c, Reg) /\ x.mem[a].sent \in 0..3
          BY <1>1, <3>1 DEF SentAgain, Packets
        <4>2. QED
          <5>1. x.mem[a].kind = "probe"
            BY <1>1, <2>2, <2>7, <3>1 DEF Sound, Carries, c
          <5>2. x.mem[a].sent >= 2 /\ ~x.mem[a].renamed /\ m1.sent >= 3 /\ ~m1.renamed
            BY <1>9, <2>3, <4>1, <5>1 DEF Fit, SentAgain
          <5>3. m1.answers \subseteq Reg \cup {Host}
            BY <2>3, <4>1 DEF Fit, SentAgain
          <5>4. QED
            BY <2>1, <2>3, <5>2, <5>3 DEF Fit
      <3>3. \A d \in Of(x, p) \ {a} : Fit(r.mem[d], probed, Reg)
        <4>1. TAKE d \in Of(x, p) \ {a}
        <4>2. Fit(x.mem[d], c, Reg) /\ r.mem[d] = x.mem[d]
          BY <2>5, <3>1
        <4>3. Fit(x.mem[d], probed, Reg)
          BY <2>1, <4>2 DEF Fit
        <4>4. QED
          BY <4>2, <4>3
      <3>4. ToSet(<<>>) = {}
        BY DEF ToSet
      <3>5. QED
        BY <2>1, <2>2, <2>5, <3>1, <3>2, <3>3, <3>4 DEF Kept
    <2>8. Out(r)
      BY <2>3, <2>5 DEF Out, Blank
    <2>9. QED
      BY <1>11, <2>1, <2>5, <2>6, <2>7, <2>8 DEF Keeps, c
  <1>10. QED
    BY <1>4, <1>6, <1>7, <1>8, <1>9 DEF States

\* What sending does (TxHandle): the packet at the head of the queue.
LEMMA TxHandleFacts ==
  ASSUME MemoryLasts, NEW x, Shaped(x, {}), x.tx # <<>>, NEW slot \in Slots, NEW Reg
  PROVE  LET a == Head(x.tx)
             m == [x.mem[a] EXCEPT !.queued = FALSE, !.sent = IF @ < 3 THEN @ + 1 ELSE @]
             st == PutPacket([x EXCEPT !.tx = Tail(@)], a, m)
             r == IF x.pcb[m.pcb].state = "OFF" THEN PutPacket(st, a, Free)
                  ELSE Reschedule(st, a, slot)
         IN KeepsAll(x, r, Reg) /\ (a \in ToSet(r.tx) => ~r.mem[a].queued)
  <1> DEFINE a == Head(x.tx)
             m == [x.mem[a] EXCEPT !.queued = FALSE, !.sent = IF @ < 3 THEN @ + 1 ELSE @]
             st == PutPacket([x EXCEPT !.tx = Tail(@)], a, m)
             p == m.pcb
             r == IF x.pcb[p].state = "OFF" THEN PutPacket(st, a, Free) ELSE Reschedule(st, a, slot)
  <1>1. x.mem[a] \in Packets
    <2>1. x.tx \in Seq(Addrs) /\ Distinct(x.tx)
      BY SendingFields DEF Shaped
    <2>2. a \in ToSet(x.tx)
      BY <2>1, TailFacts
    <2>3. QED
      BY <2>2, OfFacts
  <1>2. SentAgain(x.mem[a], m)
    BY <1>1, SentAgainFacts
  <1>3. m \in Packets /\ m.pcb = x.mem[a].pcb
    BY <1>2 DEF SentAgain
  <1> HIDE DEF m
  <1>4. Leaves(x, st, PutPacket(st, a, Free), a, m)
    BY <1>3, LeaveFacts
  <1> HIDE DEF a, st
  <1>5. Touches(x, r, p) /\ Keeps(x, r, p, Reg) /\ (a \in ToSet(r.tx) => ~r.mem[a].queued)
    BY <1>2, <1>4, RescheduleFacts
  <1> HIDE DEF r
  <1>6. KeepsAll(x, r, Reg)
    BY <1>5, TouchesKeepsAll
  <1>7. QED
    BY <1>5, <1>6 DEF r, p, st, m, a

\* CHOOSE of the least index has one to choose.
LEMMA Least ==
  ASSUME NEW S \in SUBSET Nat, S # {}
  PROVE  \E i \in S : \A j \in S : i <= j
  <1> DEFINE R == OpToRel(<, Nat)
  <1>1. IsWellFoundedOn(R, Nat)
    BY NatLessThanWellFounded
  <1>2. \A i, j \in Nat : i < j => <<i, j>> \in R
    BY DEF OpToRel
  <1> HIDE DEF R
  <1>3. PICK i \in S : \A j \in S : <<j, i>> \notin R
    BY <1>1, WFMin
  <1>4. \A j \in S : ~(j < i)
    BY <1>2, <1>3
  <1>5. QED
    BY <1>3, <1>4

LEMMA RemoveAtType ==
  ASSUME NEW X, NEW seq \in Seq(X), NEW i \in 1..Len(seq)
  PROVE  RemoveAt(seq, i) \in Seq(X)
  <1>1. Len(seq) \in Nat /\ i \in Nat /\ \A j \in 1..Len(seq) : seq[j] \in X
    OBVIOUS
  <1> DEFINE l == SubSeq(seq, 1, i - 1)
             r == SubSeq(seq, i + 1, Len(seq))
  <1>2. l \in Seq(X)
    <2>1. \A j \in 1..(i - 1) : seq[j] \in X
      BY <1>1
    <2>2. QED
      BY <1>1, <2>1, SubSeqProperties
  <1>3. r \in Seq(X)
    <2>1. \A j \in (i + 1)..Len(seq) : seq[j] \in X
      BY <1>1
    <2>2. QED
      BY <1>1, <2>1, SubSeqProperties
  <1> HIDE DEF l, r
  <1>4. l \o r \in Seq(X)
    BY <1>2, <1>3
  <1>5. RemoveAt(seq, i) = l \o r
    BY DEF RemoveAt, l, r
  <1>6. QED
    BY <1>4, <1>5

LEMMA EmptyToSet ==
  ASSUME NEW X, NEW seq \in Seq(X)
  PROVE  ToSet(seq) = {} <=> seq = <<>>
  <1>1. seq # <<>> => 1 \in DOMAIN seq
    BY EmptySeq
  <1>2. ToSet(<<>>) = {}
    BY DEF ToSet
  <1>3. QED
    BY <1>1, <1>2, InToSet

\* Nothing at a names the service s any more, and elsewhere nothing has changed.
Swept(x, y, a, s) ==
  LET p == x.mem[a].pcb IN
  /\ \A b \in Addrs : b # a => y.mem[b] = x.mem[b]
  /\ y.mem[a] # Free => y.mem[a].pcb = p /\ s \notin y.mem[a].servers \cup y.mem[a].answers
  /\ ToSet(y.tx) \subseteq ToSet(x.tx) /\ ToSet(x.tx) \subseteq ToSet(y.tx) \cup {a}
  /\ y.pcb[p].ready /\ Probing(y.pcb[p]) => s \notin ToSet(y.pcb[p].probes)
  /\ \A q \in Pcbs : /\ ToSet(y.pcb[q].probes) \subseteq ToSet(x.pcb[q].probes)
                     /\ Probing(y.pcb[q]) => Probing(x.pcb[q])
                     /\ y.pcb[q].ready = x.pcb[q].ready

\* The interface and the packet after the service s has been taken out of them.
PurgedPcb(c, c1, m, s) ==
  /\ c1 \in Interfaces /\ c1.ready = c.ready /\ c1.ip = c.ip
  /\ ToSet(c1.probes) \subseteq ToSet(c.probes)
  /\ Probing(c1) \/ Announcing(c1) => c1.state = c.state
  /\ c1.state = c.state \/ c1.state = "RUNNING"
  /\ c.ready /\ Probing(c1) => ToSet(c1.probes) = ToSet(c.probes) \ {s}
  /\ c.ready /\ Probing(c1) /\ Claims(c) # {} => Claims(c1) # {}
  /\ c.ready /\ Announcing(c1) => c1 = c /\ ~(m.answers # {} /\ m.answers \subseteq {s})
  /\ (~Probing(c) => c.probes = <<>>) => (~Probing(c1) => c1.probes = <<>>)

\* ... and to the packet.
PurgedPacket(m, m1, s) ==
  /\ m1 \in Packets /\ m1.kind = m.kind /\ m1.pcb = m.pcb /\ m1.due = m.due
  /\ m1.queued = m.queued /\ m1.sent = m.sent /\ m1.renamed = m.renamed /\ m1.shared = m.shared
  /\ m1.servers = m.servers \ {s} /\ m1.answers = m.answers \ {s}

LEMMA PurgedPcbFacts ==
  ASSUME NEW c \in Interfaces, NEW m, NEW s \in Services
  PROVE  LET probes == Only(c.probes, Services \ {s})
             bare == m.answers # {} /\ m.answers \subseteq {s}
             hit == c.ready /\ Probing(c) /\ Contains(c.probes, s)
             c1 == IF hit THEN [c EXCEPT !.probes = probes,
                                         !.state = IF probes = <<>> /\ ~c.ip THEN "RUNNING" ELSE @]
                   ELSE IF c.ready /\ Announcing(c) /\ bare THEN [c EXCEPT !.state = "RUNNING"]
                   ELSE c
         IN PurgedPcb(c, c1, m, s)
  <1> DEFINE probes == Only(c.probes, Services \ {s})
             bare == m.answers # {} /\ m.answers \subseteq {s}
             hit == c.ready /\ Probing(c) /\ Contains(c.probes, s)
             c1 == IF hit THEN [c EXCEPT !.probes = probes,
                                         !.state = IF probes = <<>> /\ ~c.ip THEN "RUNNING" ELSE @]
                   ELSE IF c.ready /\ Announcing(c) /\ bare THEN [c EXCEPT !.state = "RUNNING"]
                   ELSE c
  <1>1. c.probes \in Seq(Services) /\ c.state \in States /\ c.ip \in BOOLEAN
    BY DEF Interfaces
  <1>2. Contains(c.probes, s) <=> s \in ToSet(c.probes)
    BY <1>1, ToSetOf
  <1>3. probes \in Seq(Services) /\ ToSet(probes) = ToSet(c.probes) \ {s}
    <2>1. probes \in Seq(Services) /\ ToSet(probes) = ToSet(c.probes) \cap (Services \ {s})
      BY <1>1, OnlyFacts
    <2>2. ToSet(c.probes) \subseteq Services
      BY <1>1 DEF ToSet
    <2> HIDE DEF probes
    <2>3. QED
      BY <2>1, <2>2
  <1>4. probes = <<>> <=> ToSet(probes) = {}
    BY <1>3, EmptyToSet
  <1>5. Host # s
    BY ProbeAssumption
  <1> HIDE DEF probes
  <1>6. CASE hit
    <2> DEFINE k == IF probes = <<>> /\ ~c.ip THEN "RUNNING" ELSE c.state
    <2>1. k \in States
      BY <1>1 DEF States
    <2>2. c1 = [[c EXCEPT !.probes = probes] EXCEPT !.state = k]
      BY <1>6 DEF Interfaces
    <2> HIDE DEF c1, k
    <2>3. c1 \in Interfaces /\ c1.ready = c.ready /\ c1.ip = c.ip /\ c1.probes = probes /\ c1.state = k
      BY <1>3, <2>1, <2>2 DEF Interfaces
    <2>4. Probing(c) /\ ~Announcing(c) /\ c.state # "RUNNING"
      BY <1>6 DEF Probing, Announcing
    <2>5. (Probing(c1) <=> k = c.state) /\ ~Announcing(c1)
      BY <2>3, <2>4 DEF k, Probing, Announcing
    <2>6. k # c.state => probes = <<>>
      BY DEF k
    <2>7. k = c.state => probes # <<>> \/ c.ip
      BY <2>4 DEF k
    <2>8. Probing(c1) => Claims(c1) # {}
      BY <1>4, <2>3, <2>5, <2>7 DEF Claims
    <2>9. PurgedPcb(c, c1, m, s)
      BY <1>3, <2>3, <2>4, <2>5, <2>6, <2>8 DEF PurgedPcb, k
    <2>10. QED
      BY <2>9 DEF c1, probes
  <1>7. CASE ~hit /\ c.ready /\ Announcing(c) /\ bare
    <2>1. c1 = [c EXCEPT !.state = "RUNNING"]
      BY <1>7
    <2> HIDE DEF c1
    <2>2. c1 \in Interfaces /\ c1.ready = c.ready /\ c1.ip = c.ip /\ c1.probes = c.probes /\ c1.state = "RUNNING"
      BY <2>1 DEF Interfaces, States
    <2>3. ~Probing(c) /\ ~Probing(c1) /\ ~Announcing(c1)
      BY <1>7, <2>2 DEF Probing, Announcing
    <2>4. PurgedPcb(c, c1, m, s)
      BY <2>2, <2>3 DEF PurgedPcb
    <2>5. QED
      BY <2>4 DEF c1, probes
  <1>8. CASE ~hit /\ ~(c.ready /\ Announcing(c) /\ bare)
    <2>1. c1 = c
      BY <1>8
    <2> HIDE DEF c1
    <2>2. c.ready /\ Probing(c) => s \notin ToSet(c.probes)
      BY <1>2, <1>8
    <2>3. PurgedPcb(c, c1, m, s)
      BY <1>8, <2>1, <2>2 DEF PurgedPcb
    <2>4. QED
      BY <2>3 DEF c1, probes
  <1>9. QED
    BY <1>6, <1>7, <1>8

LEMMA PurgedPacketFacts ==
  ASSUME NEW m \in Packets, NEW s \in Services, NEW hit \in BOOLEAN
  PROVE  LET sameType == {i \in DOMAIN m.asks : m.asks[i] # Host /\ TypeOf(m.asks[i]) = TypeOf(s)}
             asks == IF hit /\ sameType # {}
                     THEN RemoveAt(m.asks, CHOOSE i \in sameType : \A j \in sameType : i <= j)
                     ELSE m.asks
             m1 == [m EXCEPT !.answers = @ \ {s}, !.servers = @ \ {s}, !.asks = asks]
         IN PurgedPacket(m, m1, s) /\ m1.asks = asks
  <1> DEFINE sameType == {i \in DOMAIN m.asks : m.asks[i] # Host /\ TypeOf(m.asks[i]) = TypeOf(s)}
             least == CHOOSE i \in sameType : \A j \in sameType : i <= j
             asks == IF hit /\ sameType # {} THEN RemoveAt(m.asks, least) ELSE m.asks
             m1 == [m EXCEPT !.answers = @ \ {s}, !.servers = @ \ {s}, !.asks = asks]
  <1>1. m.asks \in Seq(Names)
    BY DEF Packets, Names
  <1>2. sameType \in SUBSET (1..Len(m.asks)) /\ sameType \in SUBSET Nat
    BY <1>1
  <1> HIDE DEF sameType
  <1>3. asks \in Seq(Names)
    <2>1. CASE hit /\ sameType # {}
      <3>1. \E i \in sameType : \A j \in sameType : i <= j
        BY <1>2, <2>1, Least
      <3>2. least \in 1..Len(m.asks)
        BY <1>2, <3>1
      <3> HIDE DEF least
      <3>3. RemoveAt(m.asks, least) \in Seq(Names)
        BY <1>1, <3>2, RemoveAtType
      <3>4. QED
        BY <2>1, <3>3
    <2>2. CASE ~(hit /\ sameType # {})
      BY <1>1, <2>2
    <2>3. QED
      BY <2>1, <2>2
  <1> HIDE DEF asks, least
  <1> DEFINE v == m.servers \ {s}
             w == m.answers \ {s}
  <1>4. v \in SUBSET Names /\ w \in SUBSET Names
    BY DEF Packets
  <1>5. m1 = [[[m EXCEPT !.answers = w] EXCEPT !.servers = v] EXCEPT !.asks = asks]
    BY DEF Packets
  <1> HIDE DEF m1, v, w
  <1>6. /\ m1 \in Packets /\ m1.kind = m.kind /\ m1.pcb = m.pcb /\ m1.due = m.due
        /\ m1.queued = m.queued /\ m1.sent = m.sent /\ m1.renamed = m.renamed /\ m1.shared = m.shared
        /\ m1.servers = v /\ m1.answers = w /\ m1.asks = asks
    BY <1>3, <1>4, <1>5 DEF Packets
  <1>7. PurgedPacket(m, m1, s)
    BY <1>6 DEF PurgedPacket, v, w
  <1>8. QED
    BY <1>6, <1>7 DEF m1, asks, least, sameType

\* An interface whose probe loses its last name is running when the probe goes; one
\* whose announcement goes is running too.
LEMMA PurgedFacts ==
  ASSUME NEW x, Shaped(x, {}), NEW a \in ToSet(x.tx), NEW s \in Services, NEW Reg,
         NEW p \in Pcbs, x.mem[a].pcb = p, NEW c1, PurgedPcb(x.pcb[p], c1, x.mem[a], s),
         NEW m1, PurgedPacket(x.mem[a], m1, s), NEW gone \in BOOLEAN,
         gone => m1.servers = {} /\ m1.answers = {}
  PROVE  LET y == IF gone THEN ClearTx(PutPcb(x, p, c1), {a}) ELSE PutPacket(PutPcb(x, p, c1), a, m1)
         IN Touches(x, y, p) /\ Keeps(x, y, p, Reg) /\ Swept(x, y, a, s)
  <1> DEFINE m == x.mem[a]
             c == x.pcb[p]
             x1 == PutPcb(x, p, c1)
             y == IF gone THEN ClearTx(x1, {a}) ELSE PutPacket(x1, a, m1)
  <1> SUFFICES Touches(x, y, p) /\ Keeps(x, y, p, Reg) /\ Swept(x, y, a, s)
    OBVIOUS
  <1>1. m \in Packets /\ a \in Addrs /\ a \in Of(x, p)
    BY OfFacts
  <1>2. c1 \in Interfaces /\ c1.ready = c.ready /\ m1 \in Packets /\ m1.pcb = p
    BY DEF PurgedPcb, PurgedPacket
  <1>3. Touches(x, x1, p) /\ x1.pcb[p] = c1 /\ x1.mem = x.mem /\ Of(x1, p) = Of(x, p) /\ Shaped(x1, {})
    BY <1>2, PutPcbSame DEF Touches
  <1>4. x1.tx = x.tx
    <2>1. x \in Sendings
      BY DEF Shaped
    <2>2. QED
      BY <2>1 DEF PutPcb, Sendings
  <1> HIDE DEF x1
  <1>5. /\ Touches(x, y, p) /\ y.pcb[p] = c1
        /\ \A d \in Addrs : d # a => y.mem[d] = x.mem[d]
        /\ gone => Of(y, p) = Of(x, p) \ {a} /\ y.mem[a] = Free /\ ToSet(y.tx) = ToSet(x.tx) \ {a}
        /\ ~gone => Of(y, p) = Of(x, p) /\ y.mem[a] = m1 /\ ToSet(y.tx) = ToSet(x.tx)
    <2>1. CASE gone
      <3>1. {a} \subseteq ToSet(x1.tx)
        BY <1>4
      <3> DEFINE z == ClearTx(x1, {a})
      <3>2. /\ Shaped(z, {}) /\ ToSet(z.tx) = ToSet(x1.tx) \ {a}
            /\ z.pcb = x1.pcb /\ z.named = x1.named
            /\ \A d \in Addrs : z.mem[d] = IF d \in {a} THEN Free ELSE x1.mem[d]
            /\ Calm(x1, z)
        BY <1>3, <3>1, ClearTxFacts
      <3>3. y = z
        BY <2>1
      <3> HIDE DEF z, y
      <3>4. \A q, d : d \in Of(z, q) <=> d \in Of(x1, q) /\ d # a
        BY <1>3, <3>2, SendingFields DEF Of, Shaped
      <3>5. \A q \in Pcbs \ {p} : Same(x1, z, q)
        <4>1. TAKE q \in Pcbs \ {p}
        <4>2. a \notin Of(x1, q)
          BY <1>1, <1>3 DEF Of
        <4>3. \A d : d \in Of(z, q) <=> d \in Of(x1, q)
          BY <3>4, <4>2
        <4>4. Of(z, q) = Of(x1, q)
          BY <4>3
        <4>5. \A d \in Of(x1, q) : d \in Addrs /\ d # a
          BY <1>3, <4>2, OfFacts
        <4>6. QED
          BY <3>2, <4>4, <4>5 DEF Same
      <3>6. Touches(x1, z, p)
        BY <3>2, <3>5 DEF Touches
      <3>7. Touches(x, z, p)
        BY <1>3, <3>6, TouchesTwice
      <3>8. Of(z, p) = Of(x, p) \ {a}
        BY <1>3, <3>4
      <3>9. QED
        BY <1>1, <1>3, <1>4, <2>1, <3>2, <3>3, <3>7, <3>8
    <2>2. CASE ~gone
      <3> DEFINE z == PutPacket(x1, a, m1)
      <3>1. /\ Touches(x1, z, p) /\ z.pcb = x1.pcb /\ Of(z, p) = Of(x1, p)
            /\ z.mem = [x1.mem EXCEPT ![a] = m1] /\ x1.mem \in [Addrs -> Packets \cup {Free}]
        BY <1>1, <1>2, <1>3, PutPacketSame DEF PurgedPacket
      <3>2. z.tx = x1.tx
        <4>1. x1 \in Sendings
          BY <1>3 DEF Shaped
        <4>2. QED
          BY <4>1 DEF PutPacket, Sendings
      <3>3. y = z
        BY <2>2
      <3> HIDE DEF z, y
      <3>4. Touches(x, z, p)
        BY <1>3, <3>1, TouchesTwice
      <3>5. QED
        BY <1>1, <1>3, <1>4, <2>2, <3>1, <3>2, <3>3, <3>4
    <2>3. QED
      BY <2>1, <2>2
  <1> HIDE DEF y
  <1>6. \A d \in Of(x, p) : d \in Addrs
    BY OfFacts
  <1>7. Host # s
    BY ProbeAssumption
  <1>8. Sound(x, p) => Sound(y, p)
    <2>1. SUFFICES ASSUME Sound(x, p) PROVE Sound(y, p)
      OBVIOUS
    <2>2. \A d \in Of(y, p) : y.mem[d].queued => y.mem[d].due
      BY <1>5, <1>6, <2>1 DEF Sound, PurgedPacket
    <2>3. ASSUME c1.ready, Probing(c1)
          PROVE  Claims(c1) # {} /\ \E d \in Of(y, p) : Of(y, p) = {d} /\ Carries(y.mem[d], c1)
      <3>1. Probing(c) /\ c.ready
        BY <2>3 DEF PurgedPcb, Probing
      <3>2. Claims(c) # {} /\ Of(x, p) = {a} /\ Carries(m, c)
        BY <1>1, <2>1, <3>1 DEF Sound
      <3>3. Claims(c1) # {}
        BY <2>3, <3>1, <3>2 DEF PurgedPcb
      <3>4. Claims(c1) \subseteq Claims(c) \ {s}
        BY <1>7, <2>3, <3>1 DEF PurgedPcb, Claims
      <3>5. Claims(c1) \subseteq m1.servers /\ m1.kind = "probe" /\ ~m1.shared
        BY <3>1, <3>2, <3>4 DEF Carries, PurgedPacket
      <3>6. ~gone
        BY <3>3, <3>5
      <3>7. Carries(m1, c1)
        BY <2>3, <3>5 DEF Carries
      <3>8. QED
        BY <1>5, <3>2, <3>3, <3>6, <3>7
    <2>4. ASSUME c1.ready, Announcing(c1)
          PROVE  \E d \in Of(y, p) : Carries(y.mem[d], c1)
      <3>1. c1 = c /\ ~(m.answers # {} /\ m.answers \subseteq {s}) /\ ~Probing(c)
        BY <1>2, <2>4 DEF PurgedPcb, Probing, Announcing
      <3>2. PICK d \in Of(x, p) : Carries(x.mem[d], c)
        BY <2>1, <2>4, <3>1 DEF Sound
      <3>3. CASE d # a
        <4>1. d \in Of(y, p) /\ y.mem[d] = x.mem[d]
          BY <1>5, <1>6, <3>3
        <4>2. QED
          BY <3>1, <3>2, <4>1
      <3>4. CASE d = a
        <4>1. ~m.shared /\ (m.answers # {} \/ Host \in m.servers)
          BY <3>1, <3>2, <3>4 DEF Carries
        <4>2. m1.answers # {} \/ Host \in m1.servers
          BY <1>7, <3>1, <4>1 DEF PurgedPacket
        <4>3. ~gone
          BY <4>2
        <4>4. Carries(m1, c1)
          BY <3>1, <4>1, <4>2 DEF Carries, PurgedPacket
        <4>5. QED
          BY <1>1, <1>5, <4>3, <4>4
      <3>5. QED
        BY <3>3, <3>4
    <2>5. QED
      BY <1>5, <2>2, <2>3, <2>4 DEF Sound
  <1>9. Kept(x, p, Reg) => Kept(y, p, Reg)
    <2>1. SUFFICES ASSUME Kept(x, p, Reg) PROVE Kept(y, p, Reg)
      OBVIOUS
    <2>2. /\ c.ready /\ c1.ready /\ (Probing(c) => x.named) /\ (~Probing(c) => c.probes = <<>>)
          /\ ToSet(c.probes) \subseteq Reg
          /\ \A d \in Of(x, p) : Fit(x.mem[d], c, Reg)
      BY <1>1, <1>2, <2>1 DEF Kept
    <2>3. y.named = x.named
      BY <1>5 DEF Touches
    <2>4. (Probing(c1) => x.named) /\ (~Probing(c1) => c1.probes = <<>>) /\ ToSet(c1.probes) \subseteq Reg
      BY <2>2 DEF PurgedPcb, Probing
    <2>5. \A k : Fit(k, c, Reg) => Fit(k, c1, Reg)
      BY DEF PurgedPcb, Fit
    <2>6. Fit(m, c, Reg) => Fit(m1, c, Reg)
      BY DEF PurgedPacket, Fit
    <2>7. \A d \in Of(y, p) : Fit(y.mem[d], c1, Reg)
      BY <1>1, <1>5, <1>6, <2>2, <2>5, <2>6
    <2>8. QED
      BY <1>5, <2>2, <2>3, <2>4, <2>7 DEF Kept
  <1>10. Swept(x, y, a, s)
    <2>1. \A q \in Pcbs \ {p} : y.pcb[q] = x.pcb[q]
      BY <1>5 DEF Touches, Same
    <2>2. /\ ToSet(c1.probes) \subseteq ToSet(c.probes) /\ (Probing(c1) => Probing(c)) /\ c1.ready = c.ready
          /\ c1.ready /\ Probing(c1) => s \notin ToSet(c1.probes)
      BY DEF PurgedPcb, Probing
    <2>3. y.mem[a] # Free => y.mem[a].pcb = p /\ s \notin y.mem[a].servers \cup y.mem[a].answers
      BY <1>5 DEF PurgedPacket
    <2>4. QED
      BY <1>5, <2>1, <2>2, <2>3 DEF Swept
  <1>11. QED
    BY <1>2, <1>5, <1>8, <1>9, <1>10 DEF Keeps

LEMMA PurgeFacts ==
  ASSUME NEW x, Shaped(x, {}), NEW a \in ToSet(x.tx), NEW s \in Services, NEW Reg
  PROVE  LET y == Purge(x, a, s)
             p == x.mem[a].pcb
         IN p \in Pcbs /\ Touches(x, y, p) /\ Keeps(x, y, p, Reg) /\ Swept(x, y, a, s)
  <1> DEFINE m == x.mem[a]
             p == m.pcb
             c == x.pcb[p]
             probes == Only(c.probes, Services \ {s})
             bare == m.answers # {} /\ m.answers \subseteq {s}
             hit == c.ready /\ Probing(c) /\ Contains(c.probes, s)
             sameType == {i \in DOMAIN m.asks : m.asks[i] # Host /\ TypeOf(m.asks[i]) = TypeOf(s)}
             asks == IF hit /\ sameType # {}
                     THEN RemoveAt(m.asks, CHOOSE i \in sameType : \A j \in sameType : i <= j)
                     ELSE m.asks
             m1 == [m EXCEPT !.answers = @ \ {s}, !.servers = @ \ {s}, !.asks = asks]
             c1 == IF hit THEN [c EXCEPT !.probes = probes,
                                         !.state = IF probes = <<>> /\ ~c.ip THEN "RUNNING" ELSE @]
                   ELSE IF c.ready /\ Announcing(c) /\ bare THEN [c EXCEPT !.state = "RUNNING"]
                   ELSE c
             x1 == PutPcb(x, p, c1)
             gone == m1.asks = <<>> /\ m1.servers = {} /\ m1.answers = {}
             y == Purge(x, a, s)
  <1>1. m \in Packets /\ a \in Addrs /\ a \in Of(x, p)
    BY OfFacts
  <1>2. p \in Pcbs
    BY <1>1 DEF Packets
  <1>3. c \in Interfaces
    BY <1>2, SendingFields DEF Shaped
  <1>4. hit \in BOOLEAN
    BY <1>3 DEF Interfaces, Probing, Contains
  <1>5. PurgedPcb(c, c1, m, s)
    BY <1>3, PurgedPcbFacts
  <1>6. PurgedPacket(m, m1, s)
    <2> HIDE DEF hit, m
    <2>1. QED
      BY <1>1, <1>4, PurgedPacketFacts
  <1>7. y = IF gone THEN ClearTx(x1, {a}) ELSE PutPacket(x1, a, m1)
    BY DEF Purge
  <1>8. gone \in BOOLEAN /\ (gone => m1.servers = {} /\ m1.answers = {})
    OBVIOUS
  <1> HIDE DEF c1, m1, gone, c, hit
  <1>9. LET z == IF gone THEN ClearTx(PutPcb(x, p, c1), {a}) ELSE PutPacket(PutPcb(x, p, c1), a, m1)
        IN Touches(x, z, p) /\ Keeps(x, z, p, Reg) /\ Swept(x, z, a, s)
    BY <1>2, <1>5, <1>6, <1>8, PurgedFacts DEF c, m
  <1>10. QED
    BY <1>2, <1>7, <1>9

\* r is as good as st was, for the services of Less.
Shrinks(st, r, Reg, Less) ==
  /\ Shaped(r, {}) /\ r.named = st.named /\ Calm(st, r)
  /\ \A p \in Pcbs : /\ r.pcb[p].ready = st.pcb[p].ready
                     /\ Sound(st, p) => Sound(r, p)
                     /\ Sound(st, p) /\ Kept(st, p, Reg) => Kept(r, p, Less)

LEMMA ShrinksTwice ==
  ASSUME NEW st, NEW s, NEW r, NEW Reg, NEW Less, NEW Least1,
         Shrinks(st, s, Reg, Less), Shrinks(s, r, Less, Least1)
  PROVE  Shrinks(st, r, Reg, Least1)
  BY CalmTwice DEF Shrinks

\* The walk along the queue: nothing of s is left in any packet or any probe
\* (mdns_priv_remove_scheduled_service_packets).
LEMMA RemoveScheduledFacts ==
  ASSUME NEW st, Shaped(st, {}), NEW s \in Services, NEW Reg
  PROVE  Shrinks(st, RemoveScheduled(st, s), Reg, Reg \ {s})
  <1> DEFINE seq == st.tx
             n == Len(seq)
             Step(x, a) == Purge(x, a, s)
             Upto(i) == {seq[j] : j \in 1..i}
             Done(i, x) ==
               /\ KeepsAll(st, x, Reg) /\ ToSet(x.tx) \subseteq ToSet(seq)
               /\ \A b \in ToSet(seq) \ Upto(i) : x.mem[b] = st.mem[b] /\ b \in ToSet(x.tx)
               /\ \A b \in Upto(i) :
                    /\ x.mem[b] # Free => /\ x.mem[b].pcb = st.mem[b].pcb
                                          /\ s \notin x.mem[b].servers \cup x.mem[b].answers
                    /\ LET c == x.pcb[st.mem[b].pcb]
                       IN c.ready /\ Probing(c) => s \notin ToSet(c.probes)
             T == [i \in 0..n |-> {x \in Sendings : Done(i, x)}]
             step == [i \in 1..n |-> [x \in Sendings |-> Step(x, seq[i])]]
             F == CHOOSE f : f = [i \in 0..n |-> IF i = 0 THEN st ELSE Step(f[i - 1], seq[i])]
  <1>1. /\ st \in Sendings /\ seq \in Seq(Addrs) /\ Distinct(seq) /\ n \in Nat /\ DOMAIN seq = 1..n
        /\ ToSet(seq) = Upto(n) /\ ToSet(seq) \subseteq Addrs /\ \A i \in 1..n : seq[i] \in Addrs
    <2>1. st \in Sendings /\ seq \in Seq(Addrs) /\ Distinct(seq)
      BY SendingFields DEF Shaped
    <2> HIDE DEF seq
    <2>2. QED
      BY <2>1 DEF ToSet
  <1>2. st \in T[0]
    <2>1. Upto(0) = {} /\ 0 \in 0..n
      BY <1>1
    <2>2. KeepsAll(st, st, Reg)
      BY StillCalm DEF KeepsAll, Keeps
    <2> HIDE DEF Upto, seq, n
    <2>3. Done(0, st)
      BY <2>1, <2>2 DEF seq
    <2> HIDE DEF Done
    <2>4. QED
      BY <1>1, <2>1, <2>3
  <1> HIDE DEF seq, n
  <1>3. ASSUME NEW i \in 1..n, NEW x \in T[i - 1]
        PROVE  Step(x, seq[i]) \in T[i] /\ x \in Sendings
    <2> DEFINE a == seq[i]
               y == Step(x, a)
               p == x.mem[a].pcb
    <2>1. i - 1 \in 0..n /\ i \in 0..n
      BY <1>1
    <2>2. x \in Sendings /\ Done(i - 1, x)
      BY <2>1
    <2>3. a \in ToSet(seq) /\ a \in Addrs /\ a \notin Upto(i - 1) /\ Upto(i) = Upto(i - 1) \cup {a}
      <3>1. 1..i = 1..(i - 1) \cup {i}
        BY <1>1
      <3>2. \A j \in 1..(i - 1) : j \in 1..n /\ j # i
        BY <1>1
      <3>3. \A j \in 1..n : seq[j] = seq[i] => j = i
        BY <1>1 DEF Distinct
      <3>4. QED
        BY <1>1, <3>1, <3>2, <3>3
    <2>4. Upto(i - 1) \subseteq Addrs
      BY <1>1
    <2> HIDE DEF a, Upto
    <2>5. KeepsAll(st, x, Reg) /\ Shaped(x, {}) /\ a \in ToSet(x.tx) /\ x.mem[a] = st.mem[a]
      BY <2>2, <2>3 DEF KeepsAll
    <2>6. p \in Pcbs /\ Touches(x, y, p) /\ Keeps(x, y, p, Reg) /\ Swept(x, y, a, s)
      BY <2>5, PurgeFacts
    <2>7. KeepsAll(st, y, Reg) /\ y \in Sendings
      <3> HIDE DEF y, p
      <3>1. KeepsAll(x, y, Reg)
        BY <2>6, TouchesKeepsAll
      <3>2. KeepsAll(st, y, Reg)
        BY <2>5, <3>1, KeepsAllTwice
      <3>3. QED
        BY <3>2 DEF KeepsAll, Shaped
    <2> HIDE DEF y
    <2>8. ToSet(y.tx) \subseteq ToSet(seq)
      BY <2>2, <2>6 DEF Swept
    <2>9. ASSUME NEW b \in ToSet(seq) \ Upto(i)
          PROVE  y.mem[b] = st.mem[b] /\ b \in ToSet(y.tx)
      <3>1. b # a /\ b \in ToSet(seq) \ Upto(i - 1) /\ b \in Addrs
        BY <1>1, <2>3
      <3>2. x.mem[b] = st.mem[b] /\ b \in ToSet(x.tx)
        BY <2>2, <3>1
      <3>3. QED
        BY <2>6, <3>1, <3>2 DEF Swept
    <2>10. ASSUME NEW b \in Upto(i)
           PROVE  /\ y.mem[b] # Free => /\ y.mem[b].pcb = st.mem[b].pcb
                                        /\ s \notin y.mem[b].servers \cup y.mem[b].answers
                  /\ LET c == y.pcb[st.mem[b].pcb]
                     IN c.ready /\ Probing(c) => s \notin ToSet(c.probes)
      <3>1. CASE b = a
        BY <2>5, <2>6, <3>1 DEF Swept
      <3>2. CASE b # a
        <4>1. b \in Upto(i - 1) /\ b \in Addrs
          BY <2>3, <2>4, <3>2
        <4>2. y.mem[b] = x.mem[b]
          BY <2>6, <3>2, <4>1 DEF Swept
        <4>3. st.mem[b].pcb \in Pcbs
          <5>1. b \in ToSet(seq)
            <6>1. i - 1 \in Nat /\ \A j \in 1..(i - 1) : j \in 1..n
              BY <1>1
            <6>2. QED
              BY <1>1, <4>1, <6>1 DEF Upto
          <5>2. QED
            BY <5>1, OfFacts DEF Packets, seq
        <4>4. /\ x.mem[b] # Free => /\ x.mem[b].pcb = st.mem[b].pcb
                                    /\ s \notin x.mem[b].servers \cup x.mem[b].answers
              /\ LET c == x.pcb[st.mem[b].pcb]
                 IN c.ready /\ Probing(c) => s \notin ToSet(c.probes)
          BY <2>2, <4>1
        <4>5. QED
          BY <2>6, <4>2, <4>3, <4>4 DEF Swept
      <3>3. QED
        BY <3>1, <3>2
    <2>11. Done(i, y)
      BY <2>7, <2>8, <2>9, <2>10
    <2> HIDE DEF Done
    <2>12. y \in T[i]
      BY <2>1, <2>7, <2>11
    <2>13. QED
      BY <2>2, <2>12 DEF y, a
  <1>4. \A i \in 1..n : \A x \in T[i - 1] : step[i][x] \in T[i]
    BY <1>3
  <1>5. \A i \in 1..n : \A x \in T[i - 1] : step[i][x] = Step(x, seq[i])
    BY <1>3
  <1>6. \A x \in T[n] : Done(n, x)
    <2>1. n \in 0..n
      BY <1>1
    <2> HIDE DEF Done
    <2>2. QED
      BY <2>1
  <1> HIDE DEF T, step, Step, Done, Upto
  <1>7. Leads(n, T, step)
    BY <1>4 DEF Leads
  <1>8. PICK f : Recurs(f, n, st, step) /\ Within(f, n, T)
    BY <1>1, <1>2, <1>7, Recursion
  <1>9. f = [i \in 0..n |-> IF i = 0 THEN st ELSE Step(f[i - 1], seq[i])]
    <2>1. \A i \in 1..n : i - 1 \in 0..n
      BY <1>1
    <2>2. \A i \in 1..n : step[i][f[i - 1]] = Step(f[i - 1], seq[i])
      BY <1>5, <1>8, <2>1 DEF Within
    <2>3. \A i \in 0..n : i = 0 \/ i \in 1..n
      BY <1>1
    <2>4. QED
      BY <1>8, <2>2, <2>3 DEF Recurs
  <1>10. F = [i \in 0..n |-> IF i = 0 THEN st ELSE Step(F[i - 1], seq[i])]
    BY <1>9
  <1>11. RemoveScheduled(st, s) = F[n]
    BY DEF RemoveScheduled, Walk, Step, n, seq
  <1> HIDE DEF F
  <1>12. F[n] \in T[n]
    <2>1. F[0] \in T[0]
      BY <1>1, <1>2, <1>10
    <2>2. \A i \in 1..n : F[i] = Step(F[i - 1], seq[i])
      BY <1>1, <1>10
    <2>3. \A i \in 1..n : F[i - 1] \in T[i - 1] => F[i] = step[i][F[i - 1]]
      BY <1>5, <2>2
    <2>4. QED
      BY <1>1, <1>7, <2>1, <2>3, Follows
  <1> DEFINE r == F[n]
  <1>13. Done(n, r)
    BY <1>6, <1>12
  <1> HIDE DEF r
  <1>14. /\ KeepsAll(st, r, Reg) /\ ToSet(r.tx) \subseteq ToSet(seq)
         /\ \A b \in ToSet(seq) :
              /\ r.mem[b] # Free => /\ r.mem[b].pcb = st.mem[b].pcb
                                    /\ s \notin r.mem[b].servers \cup r.mem[b].answers
              /\ LET c == r.pcb[st.mem[b].pcb]
                 IN c.ready /\ Probing(c) => s \notin ToSet(c.probes)
    BY <1>1, <1>13 DEF Done
  <1>15. Shaped(r, {})
    BY <1>14 DEF KeepsAll
  <1>16. ASSUME NEW p \in Pcbs, Sound(r, p), Kept(r, p, Reg) PROVE Kept(r, p, Reg \ {s})
    <2> DEFINE c == r.pcb[p]
    <2>1. \A b \in Of(r, p) : b \in ToSet(seq) /\ r.mem[b] # Free /\ r.mem[b].pcb = p
      <3>1. \A b \in Of(r, p) : b \in ToSet(r.tx) /\ r.mem[b].pcb = p
        BY DEF Of
      <3>2. \A b \in Of(r, p) : r.mem[b] # Free
        BY <1>15, OfFacts
      <3>3. QED
        BY <1>14, <3>1, <3>2
    <2>2. \A b \in Of(r, p) : s \notin r.mem[b].servers \cup r.mem[b].answers
      BY <1>14, <2>1
    <2>3. c.ready => s \notin ToSet(c.probes)
      <3>1. CASE Probing(c)
        <4>1. SUFFICES ASSUME c.ready PROVE s \notin ToSet(c.probes)
          OBVIOUS
        <4>2. PICK b : b \in Of(r, p)
          BY <1>16, <3>1, <4>1 DEF Sound
        <4>3. b \in ToSet(seq) /\ st.mem[b].pcb = p
          BY <1>14, <2>1, <4>2
        <4>4. QED
          BY <1>14, <3>1, <4>1, <4>3
      <3>2. CASE ~Probing(c)
        <4>1. ToSet(<<>>) = {}
          BY DEF ToSet
        <4>2. QED
          BY <1>16, <3>2, <4>1 DEF Kept
      <3>3. QED
        BY <3>1, <3>2
    <2>4. \A b \in Of(r, p) : Fit(r.mem[b], c, Reg) => Fit(r.mem[b], c, Reg \ {s})
      BY <2>2 DEF Fit
    <2>5. QED
      BY <1>16, <2>3, <2>4 DEF Kept
  <1>17. Shrinks(st, r, Reg, Reg \ {s})
    BY <1>14, <1>16 DEF KeepsAll, Keeps, Shrinks
  <1>18. QED
    BY <1>11, <1>17 DEF r

\* mdns_service_remove_all takes the services out one by one.
LEMMA RemoveAllFacts ==
  ASSUME NEW st, Shaped(st, {}), NEW ss \in Seq(Services), NEW Reg
  PROVE  Shrinks(st, Walk(RemoveScheduled, st, ss), Reg, Reg \ ToSet(ss))
  <1> DEFINE n == Len(ss)
             Upto(i) == {ss[j] : j \in 1..i}
             Done(i, x) == Shrinks(st, x, Reg, Reg \ Upto(i))
             T == [i \in 0..n |-> {x \in Sendings : Done(i, x)}]
             step == [i \in 1..n |-> [x \in Sendings |-> RemoveScheduled(x, ss[i])]]
             F == CHOOSE f : f = [i \in 0..n |-> IF i = 0 THEN st ELSE RemoveScheduled(f[i - 1], ss[i])]
  <1>1. n \in Nat /\ Upto(n) = ToSet(ss) /\ \A i \in 1..n : ss[i] \in Services
    BY DEF ToSet
  <1>2. st \in T[0]
    <2>1. Upto(0) = {} /\ 0 \in 0..n /\ st \in Sendings
      BY <1>1 DEF Shaped
    <2>2. Shrinks(st, st, Reg, Reg)
      BY StillCalm DEF Shrinks
    <2>3. Reg \ Upto(0) = Reg
      BY <2>1
    <2> HIDE DEF Upto
    <2>4. Done(0, st)
      BY <2>2, <2>3
    <2> HIDE DEF Done
    <2>5. QED
      BY <2>1, <2>4
  <1>3. ASSUME NEW i \in 1..n, NEW x \in T[i - 1]
        PROVE  RemoveScheduled(x, ss[i]) \in T[i] /\ x \in Sendings
    <2> DEFINE s == ss[i]
               y == RemoveScheduled(x, s)
    <2>1. i - 1 \in 0..n /\ i \in 0..n /\ s \in Services
      BY <1>1
    <2>2. x \in Sendings /\ Done(i - 1, x)
      BY <2>1
    <2>3. Upto(i) = Upto(i - 1) \cup {s}
      <3>1. 1..i = 1..(i - 1) \cup {i}
        BY <1>1
      <3>2. QED
        BY <3>1
    <2> HIDE DEF s, Upto
    <2>4. Shaped(x, {})
      BY <2>2 DEF Shrinks
    <2>5. Shrinks(x, y, Reg \ Upto(i - 1), (Reg \ Upto(i - 1)) \ {s})
      BY <2>1, <2>4, RemoveScheduledFacts
    <2> HIDE DEF y
    <2>6. (Reg \ Upto(i - 1)) \ {s} = Reg \ Upto(i)
      BY <2>3
    <2>7. Done(i, y)
      BY <2>2, <2>5, <2>6, ShrinksTwice
    <2>8. y \in Sendings
      BY <2>5 DEF Shrinks, Shaped
    <2> HIDE DEF Done
    <2>9. QED
      BY <2>1, <2>2, <2>7, <2>8 DEF y, s
  <1>4. \A i \in 1..n : \A x \in T[i - 1] : step[i][x] \in T[i]
    BY <1>3
  <1>5. \A i \in 1..n : \A x \in T[i - 1] : step[i][x] = RemoveScheduled(x, ss[i])
    BY <1>3
  <1>6. \A x \in T[n] : Done(n, x)
    <2>1. n \in 0..n
      BY <1>1
    <2> HIDE DEF Done
    <2>2. QED
      BY <2>1
  <1> HIDE DEF T, step, Done, Upto, n
  <1>7. Leads(n, T, step)
    BY <1>4 DEF Leads
  <1>8. PICK f : Recurs(f, n, st, step) /\ Within(f, n, T)
    BY <1>1, <1>2, <1>7, Recursion
  <1>9. f = [i \in 0..n |-> IF i = 0 THEN st ELSE RemoveScheduled(f[i - 1], ss[i])]
    <2>1. \A i \in 1..n : i - 1 \in 0..n
      BY <1>1
    <2>2. \A i \in 1..n : step[i][f[i - 1]] = RemoveScheduled(f[i - 1], ss[i])
      BY <1>5, <1>8, <2>1 DEF Within
    <2>3. \A i \in 0..n : i = 0 \/ i \in 1..n
      BY <1>1
    <2>4. QED
      BY <1>8, <2>2, <2>3 DEF Recurs
  <1>10. F = [i \in 0..n |-> IF i = 0 THEN st ELSE RemoveScheduled(F[i - 1], ss[i])]
    BY <1>9
  <1>11. Walk(RemoveScheduled, st, ss) = F[n]
    BY DEF Walk, n
  <1> HIDE DEF F
  <1>12. F[n] \in T[n]
    <2>1. F[0] \in T[0]
      BY <1>1, <1>2, <1>10
    <2>2. \A i \in 1..n : F[i] = RemoveScheduled(F[i - 1], ss[i])
      BY <1>1, <1>10
    <2>3. \A i \in 1..n : F[i - 1] \in T[i - 1] => F[i] = step[i][F[i - 1]]
      BY <1>5, <2>2
    <2>4. QED
      BY <1>1, <1>7, <2>1, <2>3, Follows
  <1>13. Done(n, F[n])
    BY <1>6, <1>12
  <1>14. QED
    BY <1>1, <1>11, <1>13 DEF Done

\* An operation after which the packets and the interfaces are as good as they
\* were, the services being those of Reg before and those of Less after.
Stands(st, r, Reg, Less) ==
  /\ Shaped(r, {}) /\ r.named = st.named /\ Calm(st, r)
  /\ \A p \in Pcbs : /\ Sound(st, p) => Sound(r, p)
                     /\ Sound(st, p) /\ Kept(st, p, Reg) => Kept(r, p, Less)

LEMMA KeepsAllStands ==
  ASSUME NEW st, NEW r, NEW Reg, KeepsAll(st, r, Reg)
  PROVE  Stands(st, r, Reg, Reg)
  BY DEF KeepsAll, Keeps, Stands

LEMMA ShrinksStands ==
  ASSUME NEW st, NEW r, NEW Reg, NEW Less, Shrinks(st, r, Reg, Less)
  PROVE  Stands(st, r, Reg, Less)
  BY DEF Shrinks, Stands

\* The names in the packets may have changed, nothing else.
Dimmed(st, s) ==
  /\ Shaped(s, {}) /\ s.named = st.named /\ s.pcb = st.pcb /\ Calm(st, s)
  /\ \A p : Of(s, p) = Of(st, p)
  /\ \A p : Sound(st, p) => Sound(s, p)

LEMMA RenameDims ==
  ASSUME NEW st, Shaped(st, {}), NEW S
  PROVE  Dimmed(st, Rename(st, S))
  BY RenameFacts DEF Dimmed

\* Probing on all interfaces after names have changed, with services registered now.
LEMMA ProbeAgainFacts ==
  ASSUME MemoryLasts, NEW st, NEW s, Dimmed(st, s),
         NEW ss \in Seq(Services), NEW ip \in BOOLEAN, NEW forget \in BOOLEAN,
         NEW slot \in Slots, ss # <<>> \/ ip,
         NEW Reg, NEW Less, Reg \subseteq Less, ToSet(ss) \subseteq Less
  PROVE  Stands(st, ProbeAll(s, ss, ip, forget, slot), Reg, Less)
  <1> DEFINE r == ProbeAll(s, ss, ip, forget, slot)
             able(p) == ToSet(ss) \subseteq Less /\ (forget \/ Able(s, p, Less))
  <1>1. Shaped(s, {}) /\ s.named = st.named /\ s.pcb = st.pcb
    BY DEF Dimmed
  <1>2. /\ Shaped(r, {}) /\ r.named = s.named /\ Calm(s, r)
        /\ \A p \in Pcbs : Probed(s, r, p, Less, able(p))
    <2>1. Shaped(r, {}) /\ r.named = s.named
      BY <1>1, ProbeAllFacts
    <2>2. Calm(s, r)
      BY <1>1, ProbeAllFacts
    <2>3. \A p \in Pcbs :
            Probed(s, r, p, Less, ToSet(ss) \subseteq Less /\ (forget \/ Able(s, p, Less)))
      BY <1>1, ProbeAllFacts
    <2>4. QED
      BY <2>1, <2>2, <2>3
  <1> HIDE DEF r, able
  <1>3. ASSUME NEW p \in Pcbs, Sound(st, p) PROVE Sound(r, p)
    <2>1. Sound(s, p) /\ Probed(s, r, p, Less, able(p))
      BY <1>2, <1>3 DEF Dimmed
    <2>2. CASE s.pcb[p].ready
      BY <2>1, <2>2 DEF Probed
    <2>3. CASE ~s.pcb[p].ready
      <3>1. Same(s, r, p)
        BY <2>1, <2>3 DEF Probed
      <3>2. QED
        BY <2>1, <3>1, SameFacts
    <2>4. QED
      BY <2>2, <2>3
  <1>4. ASSUME NEW p \in Pcbs, Kept(st, p, Reg) PROVE Kept(r, p, Less)
    <2>1. Probed(s, r, p, Less, able(p))
      BY <1>2
    <2>2. CASE s.pcb[p].ready
      <3>1. Able(st, p, Reg)
        BY <1>4, KeptAble
      <3>2. Able(s, p, Less)
        BY <1>1, <3>1 DEF Able
      <3>3. able(p)
        BY <3>2 DEF able
      <3>4. QED
        BY <2>1, <2>2, <3>3 DEF Probed
    <2>3. CASE ~s.pcb[p].ready
      <3>1. Same(s, r, p)
        BY <2>1, <2>3 DEF Probed
      <3>2. Kept(s, p, Less)
        BY <1>1, <1>4, <2>3 DEF Kept, Dimmed
      <3>3. QED
        BY <1>2, <3>1, <3>2, SameFacts
    <2>4. QED
      BY <2>2, <2>3
  <1>5. Stands(st, r, Reg, Less)
    BY <1>1, <1>2, <1>3, <1>4, CalmTwice DEF Stands, Dimmed
  <1>6. QED
    BY <1>5 DEF r

LEMMA UnnamedFacts ==
  ASSUME services \in Seq(Services)
  PROVE  Unnamed \in Seq(Services) /\ ToSet(Unnamed) \subseteq Registered
  BY OnlyFacts DEF Unnamed, Registered

\* Probing again for the services without a name of their own.
LEMMA RestartUnnamedFacts ==
  ASSUME MemoryLasts, NEW st, Shaped(st, {}), services \in Seq(Services), NEW slot \in Slots
  PROVE  Stands(st, RestartUnnamed(st, slot), Registered, Registered)
  <1>1. CASE Unnamed = <<>>
    <2>1. RestartUnnamed(st, slot) = st
      BY <1>1 DEF RestartUnnamed
    <2>2. QED
      BY <2>1, StillCalm DEF Stands
  <1>2. CASE Unnamed # <<>>
    <2> DEFINE s == Rename(st, ToSet(Unnamed))
               r == ProbeAll(s, Unnamed, FALSE, TRUE, slot)
    <2>1. Dimmed(st, s)
      BY RenameDims
    <2> HIDE DEF s
    <2>2. Stands(st, r, Registered, Registered)
      BY <1>2, <2>1, UnnamedFacts, ProbeAgainFacts
    <2> HIDE DEF r
    <2>3. RestartUnnamed(st, slot) = r
      BY <1>2 DEF RestartUnnamed, r, s
    <2>4. QED
      BY <2>2, <2>3
  <1>3. QED
    BY <1>1, <1>2

\* An interface that is not up is off.
Idle(st, p) == ~st.pcb[p].ready => st.pcb[p].state = "OFF" /\ st.pcb[p].probes = <<>>

\* With the queue empty and the probes forgotten nothing of the past matters.
LEMMA RestartAllFacts ==
  ASSUME MemoryLasts, NEW st, Shaped(st, {}), services \in Seq(Services), NEW slot \in Slots
  PROVE  LET r == RestartAll(st, slot)
         IN /\ Shaped(r, {}) /\ r.named = st.named /\ Calm(st, r)
            /\ \A p \in Pcbs : Sound(r, p) /\ (Idle(st, p) => Kept(r, p, Registered))
  <1> DEFINE all == ToSet(st.tx)
             forget == TRUE
             s == ClearTx(st, all)
             r == ProbeAll(s, services, forget, forget, slot)
             able(p) == ToSet(services) \subseteq Registered /\ (forget \/ Able(s, p, Registered))
  <1>1. all \subseteq ToSet(st.tx) /\ ToSet(st.tx) \ all = {} /\ forget \in BOOLEAN
    OBVIOUS
  <1>2. forget
    OBVIOUS
  <1> HIDE DEF all, forget
  <1>3. Shaped(s, {}) /\ ToSet(s.tx) = {} /\ s.pcb = st.pcb /\ s.named = st.named /\ Calm(st, s)
    <2>1. /\ Shaped(s, {}) /\ ToSet(s.tx) = ToSet(st.tx) \ all
          /\ s.pcb = st.pcb /\ s.named = st.named /\ Calm(st, s)
      BY <1>1, ClearTxFacts
    <2> HIDE DEF s
    <2>2. QED
      BY <1>1, <2>1
  <1> HIDE DEF s
  <1>4. Shaped(s, {}) /\ (services # <<>> \/ forget)
    BY <1>2, <1>3
  <1>5. /\ Shaped(r, {}) /\ r.named = s.named /\ Calm(s, r)
        /\ \A p \in Pcbs : Probed(s, r, p, Registered, able(p))
    <2>1. /\ Shaped(r, {}) /\ r.named = s.named /\ Calm(s, r)
          /\ \A p \in Pcbs : Probed(s, r, p, Registered, ToSet(services) \subseteq Registered
                                                          /\ (forget \/ Able(s, p, Registered)))
      BY <1>1, <1>4, ProbeAllFacts
    <2>2. QED
      BY <2>1
  <1> HIDE DEF r
  <1>6. \A p : Of(s, p) = {}
    BY <1>3 DEF Of
  <1>7. \A p \in Pcbs : able(p)
    BY <1>2 DEF Registered
  <1> HIDE DEF able
  <1>8. ASSUME NEW p \in Pcbs
        PROVE  Sound(r, p) /\ (Idle(st, p) => Kept(r, p, Registered))
    <2>1. Probed(s, r, p, Registered, able(p))
      BY <1>5
    <2>2. CASE s.pcb[p].ready
      BY <1>7, <2>1, <2>2 DEF Probed
    <2>3. CASE ~s.pcb[p].ready
      <3>1. Same(s, r, p)
        BY <2>1, <2>3 DEF Probed
      <3>2. Of(r, p) = {} /\ r.pcb[p] = st.pcb[p]
        BY <1>3, <1>6, <3>1 DEF Same
      <3>3. ~r.pcb[p].ready
        BY <1>3, <2>3, <3>2
      <3>4. Sound(r, p)
        BY <3>2, <3>3 DEF Sound
      <3>5. Idle(st, p) => Kept(r, p, Registered)
        BY <3>2, <3>3 DEF Idle, Kept
      <3>6. QED
        BY <3>4, <3>5
    <2>4. QED
      BY <2>2, <2>3
  <1>9. RestartAll(st, slot) = r
    BY DEF RestartAll, r, s, forget, all
  <1>10. QED
    BY <1>3, <1>5, <1>8, <1>9, CalmTwice

\* The same, after every name has changed.
LEMMA RestartRenamedFacts ==
  ASSUME MemoryLasts, NEW st, Shaped(st, {}), services \in Seq(Services), NEW slot \in Slots,
         NEW S
  PROVE  Stands(st, RestartAll(Rename(st, S), slot), Registered, Registered)
  <1> DEFINE s == Rename(st, S)
             r == RestartAll(s, slot)
  <1>1. Shaped(s, {}) /\ s.named = st.named /\ s.pcb = st.pcb /\ Calm(st, s)
    BY RenameDims DEF Dimmed
  <1> HIDE DEF s
  <1>2. /\ Shaped(r, {}) /\ r.named = s.named /\ Calm(s, r)
        /\ \A p \in Pcbs : Sound(r, p) /\ (Idle(s, p) => Kept(r, p, Registered))
    BY <1>1, RestartAllFacts
  <1> HIDE DEF r
  <1>3. \A p \in Pcbs : Kept(st, p, Registered) => Idle(s, p)
    BY <1>1 DEF Kept, Idle
  <1>4. Stands(st, r, Registered, Registered)
    BY <1>1, <1>2, <1>3, CalmTwice DEF Stands
  <1>5. QED
    BY <1>4 DEF r, s

\* A conflict while probing: a new name, and a probe for it.
LEMMA NewNameFacts ==
  ASSUME MemoryLasts, Shaped(Now, {}), services \in Seq(Services), NEW s \in Registered,
         NEW slot \in Slots
  PROVE  Stands(Now, NewName(s, slot), Registered, Registered)
  <1>1. CASE s \in own
    <2> DEFINE x == Rename(Now, {s})
               r == ProbeAll(x, <<s>>, FALSE, FALSE, slot)
    <2>1. Dimmed(Now, x)
      BY RenameDims
    <2>2. <<s>> \in Seq(Services) /\ <<s>> # <<>> /\ ToSet(<<s>>) \subseteq Registered
      BY DEF ToSet, Registered
    <2> HIDE DEF x
    <2>3. Stands(Now, r, Registered, Registered)
      BY <2>1, <2>2, ProbeAgainFacts
    <2> HIDE DEF r
    <2>4. NewName(s, slot) = r
      BY <1>1 DEF NewName, r, x
    <2>5. QED
      BY <2>3, <2>4
  <1>2. CASE s \notin own /\ instance
    <2>1. NewName(s, slot) = RestartUnnamed(Now, slot)
      BY <1>2 DEF NewName
    <2>2. QED
      BY <2>1, RestartUnnamedFacts
  <1>3. CASE s \notin own /\ ~instance
    <2>1. NewName(s, slot) = RestartAll(Rename(Now, {Host} \cup Services), slot)
      BY <1>3 DEF NewName
    <2>2. QED
      BY <2>1, RestartRenamedFacts
  <1>4. QED
    BY <1>1, <1>2, <1>3

-----------------------------------------------------------------------------
\* The inductive invariant.

\* The actions the queue may hold.
Requests ==
  [type : {"HOSTNAME_SET", "INSTANCE_SET"}, arg : {Host}] \cup
  [type : {"ENABLE", "DISABLE", "ANNOUNCE"}, arg : Pcbs] \cup
  [type : {"RX_HANDLE"}, arg : [kind : Questions \cup {"answer", "service", "text", "host"},
                                pcb : Pcbs, about : Names]] \cup
  [type : {"TX_HANDLE"}, arg : Addrs]

\* The packets and the interfaces.
Good ==
  /\ Shaped(Now, {})
  /\ \A p \in Pcbs : Sound(Now, p)
  /\ stray \/ \A p \in Pcbs : Kept(Now, p, Registered)
  /\ services \in Seq(Services)
  /\ services # <<>> => hostname

\* The two tasks.
InTurn ==
  /\ queue \in Seq(Requests) /\ Len(queue) <= QueueLen
  /\ taken \in Requests \cup {NoAction}
  /\ cur \in 0..Len(tx) /\ (cur > 0 <=> lock = "timer") /\ lock \in {"free", "timer", "lost"}
  /\ cur > 0 => mem[tx[cur]].due
  /\ ~early

\* The places of the TX_HANDLE actions for a: 0 for the one that is taken.
Handles(q, t, a) == {k \in 0..Len(q) : (IF k = 0 THEN t ELSE q[k]) = Action("TX_HANDLE", a)}

\* A packet that is marked has an action on its way, and the last of those is behind
\* the ones for packets before it, also those that an address still has from an
\* earlier packet.
Called(st, q, t) ==
  \A a, b : Ahead(st.tx, a, b) /\ st.mem[b].queued =>
    /\ Handles(q, t, b) # {}
    /\ \A k \in Handles(q, t, a) : \E l \in Handles(q, t, b) : k <= l

\* The waiting packets and the actions that send them; the timer marks one after the other.
InOrder ==
  /\ InLine(Now)
  /\ Called(Now, queue, taken)
  /\ cur > 0 => \A i \in DOMAIN tx : mem[tx[i]].queued <=> i < cur
Orderly == refused \/ InOrder

\* That the names are kept needs that every waiting packet fits its interface (Kept);
\* that this survives the next transmission needs that the interface is carried on by
\* a packet that fits (Sound); that a packet goes out when it is due needs that
\* the timer is at one that is due, and that only such packets are marked; and that
\* a marked packet goes out at all needs that the actions come in the order of the
\* packets: one that comes too early is skipped, so another has to follow (Orderly).
Inv == Good /\ InTurn /\ Orderly

\* Becomes(r) makes r the next state ...
LEMMA BecomesNow ==
  ASSUME NEW r, Becomes(r), Shaped(r, {})
  PROVE  Now' = r
  BY DEF Becomes, Now, Shaped, Sendings

\* ... which is good when r stands.
LEMMA BecomesGood ==
  ASSUME Good, NEW r, Becomes(r), Stands(Now, r, Registered, Registered'),
         services' \in Seq(Services), services' # <<>> => hostname
  PROVE  Good'
  <1>1. Now' = r
    BY BecomesNow DEF Stands
  <1>2. Shaped(r, {}) /\ \A p \in Pcbs : Sound(r, p)
    BY DEF Good, Stands
  <1>3. r.named = hostname /\ hostname' = r.named /\ (stray => stray')
    BY DEF Stands, Now, Becomes
  <1>4. stray' \/ \A p \in Pcbs : Kept(r, p, Registered')
    BY <1>3 DEF Good, Stands
  <1>5. QED
    BY <1>1, <1>2, <1>3, <1>4 DEF Good

\* The actions that are posted are requests.
LEMMA RequestTypes ==
  /\ \A p \in Pcbs : /\ Action("ENABLE", p) \in Requests /\ Action("DISABLE", p) \in Requests
                     /\ Action("ANNOUNCE", p) \in Requests
  /\ Action("HOSTNAME_SET", Host) \in Requests /\ Action("INSTANCE_SET", Host) \in Requests
  /\ \A a \in Addrs : Action("TX_HANDLE", a) \in Requests
  /\ \A p \in Pcbs, s \in Names, kind \in Questions \cup {"answer", "service", "text", "host"} :
       Action("RX_HANDLE", Rx(kind, p, s)) \in Requests
  BY DEF Action, Rx, Requests

LEMMA PostTypes ==
  ASSUME NEW action \in Requests, Post(action), queue \in Seq(Requests), Len(queue) <= QueueLen
  PROVE  queue' \in Seq(Requests) /\ Len(queue') <= QueueLen
  BY ProbeAssumption DEF Post, HasSlot

\* A step that leaves packets, interfaces and services alone.
LEMMA StillGood ==
  ASSUME Good, UNCHANGED <<sending, services, hostname>>
  PROVE  Good'
  BY DEF Good, sending, Now, Registered

\* Handles, place by place.
LEMMA HandlesAt ==
  ASSUME NEW q \in Seq(Requests), NEW t, NEW a
  PROVE  /\ Handles(q, t, a) \subseteq Nat
         /\ 0 \in Handles(q, t, a) <=> t = Action("TX_HANDLE", a)
         /\ \A k \in Nat \ {0} :
              k \in Handles(q, t, a) <=> k <= Len(q) /\ q[k] = Action("TX_HANDLE", a)
  <1>1. Len(q) \in Nat
    OBVIOUS
  <1>2. QED
    BY <1>1 DEF Handles

\* Another action was taken, and is done.
LEMMA HandlesDone ==
  ASSUME NEW q \in Seq(Requests), NEW t, NEW a \in Addrs, t # Action("TX_HANDLE", a)
  PROVE  Handles(q, NoAction, a) = Handles(q, t, a)
  <1>1. NoAction # Action("TX_HANDLE", a)
    BY ProbeAssumption DEF Action
  <1>2. QED
    BY <1>1 DEF Handles

\* An action is posted.
LEMMA HandlesPosted ==
  ASSUME NEW q \in Seq(Requests), NEW action \in Requests, NEW t, NEW a
  PROVE  Handles(Append(q, action), t, a) =
           Handles(q, t, a) \cup (IF action = Action("TX_HANDLE", a) THEN {Len(q) + 1} ELSE {})
  <1> DEFINE r == Append(q, action)
             n == Len(q)
             to == Action("TX_HANDLE", a)
  <1>1. /\ n \in Nat /\ r \in Seq(Requests) /\ Len(r) = n + 1 /\ r[n + 1] = action
        /\ \A i \in 1..n : r[i] = q[i]
    OBVIOUS
  <1> HIDE DEF r, n, to
  <1>2. \A k : k \in 0..(n + 1) <=> k = 0 \/ k \in 1..n \/ k = n + 1
    BY <1>1
  <1>3. \A k : k \in 0..n <=> k = 0 \/ k \in 1..n
    BY <1>1
  <1>4. n + 1 # 0 /\ 0 \notin 1..n /\ n + 1 \notin 1..n
    BY <1>1
  <1>5. Handles(r, t, a) = Handles(q, t, a) \cup (IF action = to THEN {n + 1} ELSE {})
    BY <1>1, <1>2, <1>3, <1>4 DEF Handles, n, to
  <1>6. QED
    BY <1>5 DEF r, n, to

\* The first action is taken.
LEMMA HandlesTaken ==
  ASSUME NEW q \in Seq(Requests), q # <<>>, NEW a \in Addrs
  PROVE  /\ \A k \in Handles(Tail(q), Head(q), a) : k + 1 \in Handles(q, NoAction, a)
         /\ \A k \in Handles(q, NoAction, a) : k > 0 /\ k - 1 \in Handles(Tail(q), Head(q), a)
  <1>1. /\ Len(q) \in Nat /\ Len(q) > 0 /\ Len(Tail(q)) = Len(q) - 1 /\ Head(q) = q[1]
        /\ \A k \in 1..(Len(q) - 1) : Tail(q)[k] = q[k + 1]
    OBVIOUS
  <1>2. NoAction # Action("TX_HANDLE", a)
    BY ProbeAssumption DEF Action
  <1>3. ASSUME NEW k \in Handles(Tail(q), Head(q), a) PROVE k + 1 \in Handles(q, NoAction, a)
    <2>1. k \in 0..(Len(q) - 1) /\ (IF k = 0 THEN Head(q) ELSE Tail(q)[k]) = Action("TX_HANDLE", a)
      BY <1>1, <1>3 DEF Handles
    <2>2. q[k + 1] = Action("TX_HANDLE", a) /\ k + 1 \in 0..Len(q) /\ k + 1 # 0
      BY <1>1, <2>1
    <2>3. QED
      BY <2>2 DEF Handles
  <1>4. ASSUME NEW k \in Handles(q, NoAction, a)
        PROVE  k > 0 /\ k - 1 \in Handles(Tail(q), Head(q), a)
    <2>1. k \in 1..Len(q) /\ q[k] = Action("TX_HANDLE", a)
      BY <1>1, <1>2, <1>4 DEF Handles
    <2>2. /\ k - 1 \in 0..Len(Tail(q))
          /\ (IF k - 1 = 0 THEN Head(q) ELSE Tail(q)[k - 1]) = Action("TX_HANDLE", a)
      BY <1>1, <2>1
    <2>3. QED
      BY <2>1, <2>2 DEF Handles
  <1>5. QED
    BY <1>3, <1>4

\* InOrder by the variables.
LEMMA OrderNow ==
  ASSUME Orderly, ~refused
  PROVE  /\ \A a, b : Ahead(tx, a, b) =>
              /\ mem[b].due => mem[a].due
              /\ mem[b].queued => mem[a].queued /\ mem[b].due
         /\ \A a, b : Ahead(tx, a, b) /\ mem[b].queued =>
              /\ Handles(queue, taken, b) # {}
              /\ \A k \in Handles(queue, taken, a) : \E l \in Handles(queue, taken, b) : k <= l
         /\ cur > 0 => \A i \in DOMAIN tx : mem[tx[i]].queued <=> i < cur
  <1>1. Now.tx = tx /\ Now.mem = mem
    BY DEF Now
  <1>2. QED
    BY <1>1 DEF Orderly, InOrder, InLine, Called

LEMMA OrderNext ==
  ASSUME \A a, b : Ahead(tx', a, b) =>
           /\ mem'[b].due => mem'[a].due
           /\ mem'[b].queued => mem'[a].queued /\ mem'[b].due,
         \A a, b : Ahead(tx', a, b) /\ mem'[b].queued =>
           /\ Handles(queue', taken', b) # {}
           /\ \A k \in Handles(queue', taken', a) : \E l \in Handles(queue', taken', b) : k <= l,
         cur' > 0 => \A i \in DOMAIN tx' : mem'[tx'[i]].queued <=> i < cur'
  PROVE  Orderly'
  <1>1. (Now').tx = tx' /\ (Now').mem = mem'
    BY DEF Now
  <1>2. QED
    BY <1>1 DEF Orderly, InOrder, InLine, Called

LEMMA StillOrderly ==
  ASSUME Orderly, UNCHANGED <<tx, mem, queue, taken, cur, refused>>
  PROVE  Orderly'
  <1>1. CASE refused
    BY <1>1 DEF Orderly
  <1>2. CASE ~refused
    BY <1>2, OrderNow, OrderNext
  <1>3. QED
    BY <1>1, <1>2

\* A step under the lock that leaves the order alone, and the actions for what it leaves marked.
LEMMA CalmOrderly ==
  ASSUME Inv, Good', lock = "free", Calm(Now, Now'), UNCHANGED <<queue, cur, refused>>,
         \A a \in Addrs : a \in ToSet(tx') /\ mem'[a].queued =>
           Handles(queue, taken', a) = Handles(queue, taken, a)
  PROVE  Orderly'
  <1>1. CASE refused
    BY <1>1 DEF Orderly
  <1>2. CASE ~refused
    <2>1. InLine(Now) /\ Called(Now, queue, taken) /\ cur = 0
      BY <1>2 DEF Inv, InTurn, Orderly, InOrder
    <2>2. InLine(Now')
      BY <2>1, CalmInLine
    <2>3. (Now').tx = tx' /\ (Now').mem = mem' /\ ToSet(tx') \subseteq Addrs
      <3>1. (Now').tx = tx' /\ (Now').mem = mem'
        BY DEF Now
      <3>2. Now' \in Sendings
        BY DEF Good, Shaped
      <3>3. QED
        BY <3>1, <3>2, SendingFields
    <2>4. ASSUME NEW a, NEW b, Ahead(tx', a, b), mem'[b].queued
          PROVE  /\ Handles(queue, taken', b) # {}
                 /\ \A k \in Handles(queue, taken', a) : \E l \in Handles(queue, taken', b) : k <= l
      <3>1. a \in ToSet(tx') /\ b \in ToSet(tx')
        BY <2>4, InToSet DEF Ahead
      <3>2. mem'[a].queued
        BY <2>2, <2>3, <2>4 DEF InLine
      <3>3. Ahead(Now.tx, a, b) /\ Now.mem[b].queued
        BY <2>1, <2>3, <2>4 DEF Calm, Blank
      <3>4. /\ Handles(queue, taken, b) # {}
            /\ \A k \in Handles(queue, taken, a) : \E l \in Handles(queue, taken, b) : k <= l
        BY <2>1, <3>3 DEF Called
      <3>5. /\ Handles(queue, taken', a) = Handles(queue, taken, a)
            /\ Handles(queue, taken', b) = Handles(queue, taken, b)
        BY <2>3, <2>4, <3>1, <3>2
      <3>6. QED
        BY <3>4, <3>5
    <2>5. Called(Now', queue', taken')
      BY <2>3, <2>4 DEF Called
    <2>6. ~(cur' > 0)
      BY <2>1
    <2>7. QED
      BY <2>2, <2>5, <2>6 DEF Orderly, InOrder
  <1>3. QED
    BY <1>1, <1>2

\* A step under the lock: the timer is not at work.
LEMMA AtRestInTurn ==
  ASSUME Inv, Good', lock = "free", lock' \in {"free", "lost"}, UNCHANGED <<queue, cur>>,
         taken' \in {taken, NoAction}, ~early'
  PROVE  InTurn'
  <1>1. cur = 0 /\ cur' = 0
    BY DEF Inv, InTurn
  <1>2. tx' \in Seq(Addrs)
    BY DEF Good, Shaped, Sendings, Now
  <1>3. Len(tx') \in Nat
    BY <1>2
  <1>4. QED
    BY <1>1, <1>3 DEF Inv, InTurn

\* A call of the application.
LEMMA CallKeeps ==
  ASSUME Inv, Call, lock' \in {"free", "lost"}, NEW r, Becomes(r),
         Stands(Now, r, Registered, Registered'),
         services' \in Seq(Services), services' # <<>> => hostname
  PROVE  Inv'
  <1>1. Good'
    BY BecomesGood DEF Inv
  <1>2. InTurn'
    BY <1>1, AtRestInTurn DEF Call, Inv, InTurn
  <1>3. Orderly'
    <2>1. Calm(Now, Now')
      BY BecomesNow DEF Stands
    <2>2. lock = "free" /\ UNCHANGED <<queue, taken, cur, refused>>
      BY DEF Call
    <2>3. QED
      BY <1>1, <2>1, <2>2, CalmOrderly
  <1>4. QED
    BY <1>1, <1>2, <1>3 DEF Inv

\* The state Now, by its variables.
LEMMA NowFacts ==
  ASSUME Good
  PROVE  /\ Shaped(Now, {}) /\ Now.tx = tx /\ Now.mem = mem /\ Now.pcb = pcb
         /\ Now.named = hostname /\ services \in Seq(Services)
         /\ tx \in Seq(Addrs) /\ pcb \in [Pcbs -> Interfaces] /\ hostname \in BOOLEAN
         /\ mem \in [Addrs -> Packets \cup {Free}] /\ Dimmed(Now, Now)
  <1>1. Shaped(Now, {}) /\ services \in Seq(Services)
    BY DEF Good
  <1>2. Now.tx = tx /\ Now.mem = mem /\ Now.pcb = pcb /\ Now.named = hostname
    BY DEF Now
  <1>3. Dimmed(Now, Now)
    BY <1>1, StillCalm DEF Dimmed
  <1>4. QED
    BY <1>1, <1>2, <1>3, SendingFields DEF Shaped

LEMMA OneService ==
  ASSUME NEW s
  PROVE  /\ <<s>> # <<>> /\ ToSet(<<s>>) = {s}
         /\ \A S : s \in S => <<s>> \in Seq(S)
  BY DEF ToSet

LEMMA ContainsFacts ==
  ASSUME services \in Seq(Services), NEW s, Contains(services, s)
  PROVE  s \in Services /\ s \in Registered /\ services # <<>>
  BY DEF Contains, Registered, ToSet

\* The actions, one by one.
LEMMA ServiceAddKeeps ==
  ASSUME MemoryLasts, Inv, NEW s \in Services, ServiceAdd(s)
  PROVE  Inv'
  <1>1. PICK slot \in Slots : Becomes(ProbeAll(Now, <<s>>, FALSE, FALSE, slot))
    BY DEF ServiceAdd
  <1> DEFINE r == ProbeAll(Now, <<s>>, FALSE, FALSE, slot)
  <1>2. services' \in Seq(Services) /\ Registered' = {s} \cup Registered
    <2>1. services \in Seq(Services) /\ services' = <<s>> \o services
      BY DEF Inv, Good, ServiceAdd
    <2> DEFINE one == <<s>>
    <2>2. one \in Seq(Services) /\ ToSet(one) = {s}
      BY OneService
    <2> HIDE DEF one
    <2>3. /\ one \o services \in Seq(Services)
          /\ ToSet(one \o services) = ToSet(one) \cup ToSet(services)
      BY <2>1, <2>2, ConcatSet
    <2>4. services' = one \o services
      BY <2>1 DEF one
    <2>5. QED
      BY <2>2, <2>3, <2>4 DEF Registered
  <1>3. Dimmed(Now, Now)
    BY NowFacts DEF Inv
  <1>4. Stands(Now, r, Registered, Registered')
    <2> DEFINE Less == Registered'
    <2>1. Registered \subseteq Less /\ ToSet(<<s>>) \subseteq Less
      BY <1>2, OneService
    <2> HIDE DEF Less
    <2>2. Stands(Now, r, Registered, Less)
      BY <1>3, <2>1, OneService, ProbeAgainFacts
    <2>3. QED
      BY <2>2 DEF Less
  <1>5. Becomes(r)
    BY <1>1
  <1> HIDE DEF r
  <1>6. QED
    BY <1>2, <1>4, <1>5, CallKeeps DEF ServiceAdd, Call

LEMMA ChangeKeeps ==
  ASSUME MemoryLasts, Inv, NEW s \in Services, Change(s),
         \/ \E ip \in BOOLEAN : Announced(s, ip)
         \/ Unannounced
         \/ lock' = "lost" /\ UNCHANGED <<sending, hostname>>
  PROVE  Inv'
  <1>1. Call /\ Contains(services, s) /\ services' = services /\ Registered' = Registered
    BY DEF Change, Registered
  <1>2. s \in Registered /\ services \in Seq(Services) /\ lock = "free" /\ hostname
    BY <1>1, ContainsFacts DEF Inv, Good, Call
  <1>3. CASE \E ip \in BOOLEAN : Announced(s, ip)
    <2>1. PICK ip \in BOOLEAN, slot \in Slots :
            UNCHANGED lock /\ Becomes(AnnounceAll(Now, <<s>>, ip, slot))
      BY <1>3 DEF Announced
    <2> DEFINE r == AnnounceAll(Now, <<s>>, ip, slot)
    <2>2. KeepsAll(Now, r, Registered)
      <3>1. /\ <<s>> \in Seq(Services) /\ <<s>> # <<>> /\ ToSet(<<s>>) \subseteq Registered
            /\ Shaped(Now, {})
        BY <1>2, OneService, NowFacts DEF Inv
      <3>2. QED
        BY <3>1, AnnounceAllFacts
    <2>3. Becomes(r)
      BY <2>1
    <2> HIDE DEF r
    <2>4. Stands(Now, r, Registered, Registered')
      BY <1>1, <2>2, KeepsAllStands
    <2>5. lock' \in {"free", "lost"}
      BY <1>2, <2>1
    <2>6. QED
      BY <1>1, <1>2, <2>3, <2>4, <2>5, CallKeeps
  <1>4. CASE Unannounced \/ (lock' = "lost" /\ UNCHANGED <<sending, hostname>>)
    <2>1. UNCHANGED <<sending, services, hostname>> /\ lock' \in {"free", "lost"}
      BY <1>1, <1>2, <1>4 DEF Unannounced
    <2>2. Good'
      BY <2>1, StillGood DEF Inv
    <2>3. InTurn'
      BY <1>1, <1>2, <2>1, <2>2, AtRestInTurn DEF Call, Inv, InTurn
    <2>4. Orderly'
      BY <1>1, <2>1, StillOrderly DEF Call, Inv, sending
    <2>5. QED
      BY <2>2, <2>3, <2>4 DEF Inv
  <1>5. QED
    BY <1>3, <1>4

LEMMA InstanceNameSetKeeps ==
  ASSUME MemoryLasts, Inv, NEW s \in Services, InstanceNameSet(s)
  PROVE  Inv'
  <1>1. PICK slot \in Slots : Becomes(ProbeAll(Rename(Now, {s}), <<s>>, FALSE, FALSE, slot))
    BY DEF InstanceNameSet
  <1> DEFINE x == Rename(Now, {s})
             r == ProbeAll(x, <<s>>, FALSE, FALSE, slot)
  <1>2. /\ Call /\ lock' = lock /\ lock = "free" /\ Contains(services, s)
        /\ services' = services /\ Registered' = Registered
    BY DEF InstanceNameSet, Call, Registered
  <1>3. s \in Registered /\ services \in Seq(Services) /\ hostname
    BY <1>2, ContainsFacts DEF Inv, Good
  <1>4. Dimmed(Now, x)
    BY NowFacts, RenameDims DEF Inv
  <1>5. <<s>> \in Seq(Services) /\ <<s>> # <<>> /\ ToSet(<<s>>) \subseteq Registered
    BY <1>3, OneService
  <1>6. Becomes(r)
    BY <1>1
  <1> HIDE DEF x
  <1>7. Stands(Now, r, Registered, Registered)
    BY <1>4, <1>5, ProbeAgainFacts
  <1> HIDE DEF r
  <1>8. QED
    BY <1>2, <1>3, <1>6, <1>7, CallKeeps

LEMMA ServiceRemoveKeeps ==
  ASSUME Inv, NEW s \in Services, ServiceRemove(s)
  PROVE  Inv'
  <1> DEFINE r == RemoveScheduled(Now, s)
  <1>1. /\ Call /\ lock' = lock /\ lock = "free" /\ Contains(services, s) /\ Becomes(r)
        /\ services' = Only(services, Services \ {s})
    BY DEF ServiceRemove, Call
  <1>2. services \in Seq(Services) /\ hostname
    BY <1>1, ContainsFacts DEF Inv, Good
  <1>3. services' \in Seq(Services) /\ Registered' = Registered \ {s}
    <2>1. /\ services' \in Seq(Services)
          /\ ToSet(services') = ToSet(services) \cap (Services \ {s})
      BY <1>1, <1>2, OnlyFacts
    <2>2. ToSet(services) \subseteq Services
      BY <1>2 DEF ToSet
    <2>3. QED
      BY <2>1, <2>2 DEF Registered
  <1>4. Shrinks(Now, r, Registered, Registered \ {s})
    BY NowFacts, RemoveScheduledFacts DEF Inv
  <1> HIDE DEF r
  <1>5. Stands(Now, r, Registered, Registered')
    BY <1>3, <1>4, ShrinksStands
  <1>6. QED
    BY <1>1, <1>2, <1>3, <1>5, CallKeeps

LEMMA ServiceRemoveAllKeeps ==
  ASSUME Inv, ServiceRemoveAll
  PROVE  Inv'
  <1> DEFINE r == Walk(RemoveScheduled, Now, services)
  <1>1. /\ Call /\ lock' = lock /\ lock = "free" /\ Becomes(r) /\ services' = <<>>
    BY DEF ServiceRemoveAll, Call
  <1>2. services \in Seq(Services) /\ Shaped(Now, {})
    BY NowFacts DEF Inv
  <1>3. services' \in Seq(Services) /\ Registered' = {}
    <2>1. <<>> \in Seq(Services) /\ ToSet(<<>>) = {}
      BY DEF ToSet
    <2>2. QED
      BY <1>1, <2>1 DEF Registered
  <1>4. Shrinks(Now, r, Registered, Registered \ ToSet(services))
    BY <1>2, RemoveAllFacts
  <1>5. Registered \ ToSet(services) = Registered'
    BY <1>3 DEF Registered
  <1> HIDE DEF r
  <1>6. Stands(Now, r, Registered, Registered')
    BY <1>4, <1>5, ShrinksStands
  <1>7. QED
    BY <1>1, <1>3, <1>6, CallKeeps

\* A call or an event that is only posted, or lost at a full queue.
LEMMA PostKeeps ==
  ASSUME Inv, NEW action \in Requests, action.type # "TX_HANDLE", Post(action),
         UNCHANGED <<sending, names, taken, lock, cur, early, refused>>
  PROVE  Inv'
  <1>1. Good'
    BY StillGood DEF Inv, names
  <1>2. queue' \in Seq(Requests) /\ Len(queue') <= QueueLen
    BY PostTypes DEF Inv, InTurn
  <1>3. InTurn'
    BY <1>2 DEF Inv, InTurn, sending
  <1>4. \A a : Handles(queue', taken, a) = Handles(queue, taken, a)
    <2>1. TAKE a
    <2>2. queue \in Seq(Requests) /\ (queue' = queue \/ queue' = Append(queue, action))
      BY DEF Inv, InTurn, Post
    <2>3. action # Action("TX_HANDLE", a)
      BY DEF Action
    <2>4. Handles(Append(queue, action), taken, a) = Handles(queue, taken, a)
      <3>1. Handles(Append(queue, action), taken, a) =
              Handles(queue, taken, a) \cup (IF action = Action("TX_HANDLE", a) THEN {Len(queue) + 1} ELSE {})
        BY <2>2, HandlesPosted
      <3>2. QED
        BY <2>3, <3>1
    <2>5. QED
      BY <2>2, <2>4
  <1>5. CASE refused
    BY <1>1, <1>3, <1>5 DEF Inv, Orderly
  <1>6. CASE ~refused
    <2>1. UNCHANGED <<tx, mem, taken, cur>>
      BY DEF sending
    <2>2. Orderly'
      BY <1>4, <1>6, <2>1, OrderNow, OrderNext DEF Inv
    <2>3. QED
      BY <1>1, <1>3, <2>2 DEF Inv
  <1>7. QED
    BY <1>5, <1>6

\* The actions are where they were, one place nearer.
LEMMA TakeKeeps ==
  ASSUME Inv, Take
  PROVE  Inv'
  <1>1. Good'
    BY StillGood DEF Inv, names, Take
  <1>2. taken' \in Requests /\ queue' \in Seq(Requests) /\ Len(queue') <= QueueLen
    <2>1. /\ queue \in Seq(Requests) /\ queue # <<>> /\ Len(queue) <= QueueLen
          /\ taken' = Head(queue) /\ queue' = Tail(queue)
      BY DEF Inv, InTurn, Take
    <2>2. Head(queue) \in Requests /\ Tail(queue) \in Seq(Requests) /\ Len(Tail(queue)) = Len(queue) - 1
      BY <2>1
    <2>3. Len(queue) \in Nat /\ QueueLen \in Nat
      BY <2>1, ProbeAssumption
    <2>4. QED
      BY <2>1, <2>2, <2>3
  <1>3. InTurn'
    BY <1>2 DEF Inv, InTurn, sending, Take
  <1>4. CASE refused
    BY <1>1, <1>3, <1>4 DEF Inv, Orderly, Take
  <1>5. CASE ~refused
    <2>1. /\ queue \in Seq(Requests) /\ queue # <<>> /\ taken = NoAction
          /\ taken' = Head(queue) /\ queue' = Tail(queue) /\ UNCHANGED <<tx, mem, cur>>
      BY DEF Inv, InTurn, Take, sending
    <2>2. ASSUME NEW a, NEW b, Ahead(tx, a, b), mem[b].queued
          PROVE  /\ Handles(queue', taken', b) # {}
                 /\ \A k \in Handles(queue', taken', a) : \E l \in Handles(queue', taken', b) : k <= l
      <3>1. a \in Addrs /\ b \in Addrs
        BY <2>2, NowFacts, InToSet DEF Ahead, Inv
      <3>2. /\ Handles(queue, NoAction, b) # {}
            /\ \A k \in Handles(queue, NoAction, a) : \E l \in Handles(queue, NoAction, b) : k <= l
        BY <1>5, <2>1, <2>2, OrderNow DEF Inv
      <3>3. /\ Handles(queue, NoAction, b) \subseteq Nat
            /\ \A l \in Handles(queue, NoAction, b) : l - 1 \in Handles(queue', taken', b)
        BY <2>1, <3>1, HandlesAt, HandlesTaken
      <3>4. /\ Handles(queue', taken', a) \subseteq Nat
            /\ \A k \in Handles(queue', taken', a) : k + 1 \in Handles(queue, NoAction, a)
        BY <1>2, <2>1, <3>1, HandlesAt, HandlesTaken
      <3>5. ASSUME NEW k \in Handles(queue', taken', a)
            PROVE  \E l \in Handles(queue', taken', b) : k <= l
        <4>1. PICK l \in Handles(queue, NoAction, b) : k + 1 <= l
          BY <3>2, <3>4
        <4>2. l - 1 \in Handles(queue', taken', b) /\ k <= l - 1
          BY <3>3, <3>4, <4>1
        <4>3. QED
          BY <4>2
      <3>6. QED
        BY <3>2, <3>3, <3>5
    <2>3. Orderly'
      BY <1>5, <2>1, <2>2, OrderNow, OrderNext DEF Inv
    <2>4. QED
      BY <1>1, <1>3, <2>3 DEF Inv
  <1>6. QED
    BY <1>4, <1>5

\* One packet is changed, and no name in it.
LEMMA MarkFacts ==
  ASSUME Good, NEW i \in DOMAIN tx, NEW m, Retouched(mem[tx[i]], m),
         m.renamed = mem[tx[i]].renamed
  PROVE  LET r == [Now EXCEPT !.mem = [mem EXCEPT ![tx[i]] = m]]
         IN Shaped(r, {}) /\ \A p \in Pcbs : Keeps(Now, r, p, Registered)
  <1> DEFINE a == tx[i]
             mm == [mem EXCEPT ![a] = m]
             r == [Now EXCEPT !.mem = mm]
  <1>1. a \in Addrs /\ a \in ToSet(tx) /\ m \in Packets /\ mem[a] \in Packets
    <2>1. a \in ToSet(tx)
      BY InToSet
    <2>2. a \in Addrs /\ mem[a] \in Packets
      BY <2>1, NowFacts, OfFacts
    <2>3. QED
      BY <2>1, <2>2 DEF Retouched
  <1>2. mem \in [Addrs -> Packets \cup {Free}] /\ Shaped(Now, {}) /\ Now.mem = mem /\ Now.tx = tx
    BY NowFacts
  <1>3. /\ mm \in [Addrs -> Packets \cup {Free}] /\ mm[a] = m
        /\ \A b \in Addrs : b # a => mm[b] = mem[b]
    BY <1>1, <1>2
  <1>4. m # Free /\ mem[a] # Free
    BY <1>1, PacketIsNotFree
  <1>5. Retouched(mem[a], mm[a]) /\ mm[a].renamed = mem[a].renamed
    BY <1>3
  <1> HIDE DEF a, mm
  <1>6. \A b \in Addrs : mm[b] = Free <=> mem[b] = Free
    BY <1>3, <1>4
  <1>7. \A b \in ToSet(tx) : Retouched(mem[b], mm[b]) /\ mm[b].renamed = mem[b].renamed
    <2>1. TAKE b \in ToSet(tx)
    <2>2. CASE b = a
      BY <1>5, <2>2
    <2>3. CASE b # a
      <3>1. b \in Addrs /\ mem[b] \in Packets
        BY <1>2, OfFacts
      <3>2. mm[b] = mem[b]
        BY <1>3, <2>3, <3>1
      <3>3. QED
        BY <3>1, <3>2 DEF Retouched
    <2>4. QED
      BY <2>2, <2>3
  <1>8. /\ Shaped(r, {})
        /\ (\A b \in ToSet(tx) : mm[b].renamed = mem[b].renamed)
           => \A p \in Pcbs : Keeps(Now, r, p, Registered)
    BY <1>2, <1>3, <1>6, <1>7, RetouchFacts
  <1>9. Shaped(r, {}) /\ \A p \in Pcbs : Keeps(Now, r, p, Registered)
    BY <1>7, <1>8
  <1>10. QED
    BY <1>9 DEF a, mm

\* A step that changes one packet, and no name in it.
LEMMA MarkGood ==
  ASSUME Good, NEW i \in DOMAIN tx, NEW m, Retouched(mem[tx[i]], m),
         m.renamed = mem[tx[i]].renamed,
         mem' = [mem EXCEPT ![tx[i]] = m], UNCHANGED <<tx, pcb, stray, names>>
  PROVE  Good'
  <1> DEFINE r == [Now EXCEPT !.mem = [mem EXCEPT ![tx[i]] = m]]
  <1>1. Shaped(r, {}) /\ \A p \in Pcbs : Keeps(Now, r, p, Registered)
    BY MarkFacts
  <1>2. Now' = r
    BY DEF Now, names
  <1> HIDE DEF r
  <1>3. Shaped(r, {}) /\ \A p \in Pcbs : Sound(r, p) /\ (stray \/ Kept(r, p, Registered))
    BY <1>1 DEF Keeps, Good
  <1>4. Registered' = Registered
    BY DEF names, Registered
  <1>5. QED
    BY <1>2, <1>3, <1>4 DEF Good, names

\* The timer marks only what is due.
LEMMA TimePassesKeeps ==
  ASSUME Inv, TimePasses
  PROVE  Inv'
  <1>1. PICK i \in DOMAIN tx : /\ mem' = [mem EXCEPT ![tx[i]].due = TRUE]
                               /\ \A j \in 1..(i - 1) : mem[tx[j]].due
    BY DEF TimePasses
  <1> DEFINE m0 == mem[tx[i]]
             m == [m0 EXCEPT !.due = TRUE]
  <1>2. tx[i] \in Addrs /\ m0 \in Packets
    <2>1. tx[i] \in ToSet(tx)
      BY InToSet
    <2>2. QED
      BY <2>1, NowFacts, OfFacts DEF Inv
  <1>3. /\ m \in Packets /\ Retouched(m0, m) /\ m.renamed = m0.renamed
        /\ m.due /\ m.queued = m0.queued
    BY <1>2 DEF Packets, Retouched
  <1>4. mem' = [mem EXCEPT ![tx[i]] = m]
    BY <1>1
  <1>5. UNCHANGED <<tx, pcb, stray, names, tasks, early, refused>>
    BY DEF TimePasses
  <1> HIDE DEF m
  <1>6. Good'
    BY <1>3, <1>4, <1>5, MarkGood DEF Inv
  <1>7. cur > 0 => mem'[tx[cur]].due
    <2>1. SUFFICES ASSUME cur > 0 PROVE mem'[tx[cur]].due
      OBVIOUS
    <2>2. cur \in DOMAIN tx /\ mem[tx[cur]].due
      BY <2>1, NowFacts DEF Inv, InTurn
    <2>3. tx[cur] \in Addrs /\ mem \in [Addrs -> Packets \cup {Free}]
      BY <2>2, NowFacts DEF Inv
    <2>4. QED
      BY <1>2, <1>3, <1>4, <2>2, <2>3
  <1>8. InTurn'
    BY <1>5, <1>7 DEF Inv, InTurn, tasks
  <1>9. CASE refused
    BY <1>5, <1>6, <1>8, <1>9 DEF Inv, Orderly
  <1>10. CASE ~refused
    <2>1. /\ tx \in Seq(Addrs) /\ Distinct(tx) /\ mem \in [Addrs -> Packets \cup {Free}]
      BY NowFacts DEF Inv, Shaped
    <2>2. \A a \in Addrs : mem'[a].queued = mem[a].queued /\ (mem[a].due => mem'[a].due)
                           /\ (a # tx[i] => mem'[a] = mem[a])
      BY <1>2, <1>3, <1>4, <2>1
    <2>3. \A j \in 1..(i - 1) : mem[tx[j]].due
      BY <1>1
    <2>4. \A a, b : Ahead(tx, a, b) => a \in Addrs /\ b \in Addrs
      BY <2>1, InToSet DEF Ahead
    <2>5. ASSUME NEW a, NEW b, Ahead(tx, a, b)
          PROVE  /\ mem'[b].due => mem'[a].due
                 /\ mem'[b].queued => mem'[a].queued /\ mem'[b].due
      <3>1. /\ mem[b].due => mem[a].due
            /\ mem[b].queued => mem[a].queued /\ mem[b].due
        BY <1>10, <2>5, OrderNow DEF Inv
      <3>2. b = tx[i] => a = b \/ mem[a].due
        <4>1. PICK k, l \in DOMAIN tx : k <= l /\ tx[k] = a /\ tx[l] = b
          BY <2>5 DEF Ahead
        <4>2. b = tx[i] => l = i
          BY <2>1, <4>1 DEF Distinct
        <4>3. l = i /\ k # i => k \in 1..(i - 1)
          BY <2>1, <4>1
        <4>4. QED
          BY <2>3, <4>1, <4>2, <4>3
      <3>3. QED
        BY <2>2, <2>4, <2>5, <3>1, <3>2
    <2>6. \A a, b : Ahead(tx, a, b) /\ mem'[b].queued => mem[b].queued
      BY <2>2, <2>4
    <2>7. \A j \in DOMAIN tx : mem'[tx[j]].queued = mem[tx[j]].queued
      BY <2>1, <2>2
    <2>8. UNCHANGED <<tx, queue, taken, cur>>
      BY <1>5 DEF tasks
    <2>9. Orderly'
      BY <1>10, <2>5, <2>6, <2>7, <2>8, OrderNow, OrderNext DEF Inv
    <2>10. QED
      BY <1>6, <1>8, <2>9 DEF Inv
  <1>11. QED
    BY <1>9, <1>10

LEMMA TimerStartKeeps ==
  ASSUME Inv, TimerStart
  PROVE  Inv'
  <1>1. Good'
    BY StillGood DEF Inv, names, TimerStart
  <1>2. /\ cur' \in DOMAIN tx /\ mem[tx[cur']].due /\ lock' = "timer"
        /\ UNCHANGED <<sending, queue, taken, early, refused>>
    BY DEF TimerStart
  <1>3. tx \in Seq(Addrs)
    BY NowFacts DEF Inv
  <1>4. cur' \in 0..Len(tx) /\ cur' > 0
    BY <1>2, <1>3
  <1>5. InTurn'
    BY <1>2, <1>4 DEF Inv, InTurn, sending
  <1>6. CASE refused
    BY <1>1, <1>2, <1>5, <1>6 DEF Inv, Orderly
  <1>7. CASE ~refused
    <2>1. ~mem[tx[cur']].queued /\ \A j \in 1..(cur' - 1) : mem[tx[j]].queued
      BY DEF TimerStart
    <2>2. ASSUME NEW i \in DOMAIN tx PROVE mem[tx[i]].queued <=> i < cur'
      <3>1. i < cur' => i \in 1..(cur' - 1)
        BY <1>2, <1>3
      <3>2. ASSUME i >= cur' PROVE ~mem[tx[i]].queued
        <4>1. Ahead(tx, tx[cur'], tx[i])
          BY <1>2, <3>2 DEF Ahead
        <4>2. QED
          BY <1>7, <2>1, <4>1, OrderNow DEF Inv
      <3>3. QED
        BY <1>2, <1>3, <2>1, <3>1, <3>2
    <2>3. UNCHANGED <<tx, mem, queue, taken>>
      BY <1>2 DEF sending
    <2>4. Orderly'
      BY <1>7, <2>2, <2>3, OrderNow, OrderNext DEF Inv
    <2>5. QED
      BY <1>1, <1>5, <2>4 DEF Inv
  <1>8. QED
    BY <1>6, <1>7

\* The packet at the timer is marked, and its action is behind all others.
LEMMA MarkedOrderly ==
  ASSUME Inv, TimerQueues, HasSlot, ~refused
  PROVE  Orderly'
  <1> DEFINE c == tx[cur]
             n == Len(queue) + 1
             to == Action("TX_HANDLE", c)
  <1>1. /\ cur \in DOMAIN tx /\ tx' = tx /\ taken' = taken /\ cur' \in {0, cur + 1}
        /\ queue' = Append(queue, to) /\ queue \in Seq(Requests)
        /\ tx \in Seq(Addrs) /\ Distinct(tx) /\ mem \in [Addrs -> Packets \cup {Free}]
        /\ cur > 0 /\ mem[c].due
    <2>1. tx \in Seq(Addrs) /\ Distinct(tx) /\ mem \in [Addrs -> Packets \cup {Free}]
      BY NowFacts DEF Inv, Shaped
    <2>2. cur > 0 /\ cur \in 0..Len(tx) /\ mem[c].due /\ queue \in Seq(Requests)
      BY DEF Inv, InTurn, TimerQueues
    <2>3. cur \in DOMAIN tx
      BY <2>1, <2>2
    <2>4. tx' = tx /\ taken' = taken /\ cur' \in {0, cur + 1} /\ queue' = Append(queue, to)
      BY DEF TimerQueues, Post
    <2>5. QED
      BY <2>1, <2>2, <2>3, <2>4
  <1>2. c \in Addrs /\ to \in Requests
    BY <1>1, RequestTypes
  <1>3. mem' = [mem EXCEPT ![c] = [mem[c] EXCEPT !.queued = TRUE]]
    BY DEF TimerQueues
  <1>4. mem[c] \in Packets
    <2>1. c \in ToSet(tx)
      BY <1>1, InToSet
    <2>2. QED
      BY <2>1, NowFacts, OfFacts DEF Inv
  <1>5. /\ mem'[c].queued /\ mem'[c].due = mem[c].due
        /\ \A a \in Addrs : a # c => mem'[a] = mem[a]
    BY <1>1, <1>2, <1>3, <1>4 DEF Packets
  <1>6. \A i \in DOMAIN tx : mem[tx[i]].queued <=> i < cur
    BY <1>1, OrderNow DEF Inv
  <1>7. \A i \in DOMAIN tx : tx[i] \in Addrs /\ (tx[i] = c => i = cur)
    BY <1>1 DEF Distinct
  <1>8. \A i \in DOMAIN tx : mem'[tx[i]].queued <=> i = cur \/ i < cur
    BY <1>2, <1>5, <1>6, <1>7
  <1>9. ASSUME NEW a, NEW b, Ahead(tx, a, b)
        PROVE  /\ mem'[b].due => mem'[a].due
               /\ mem'[b].queued => mem'[a].queued /\ mem'[b].due
    <2>1. PICK k, l \in DOMAIN tx : k <= l /\ tx[k] = a /\ tx[l] = b
      BY <1>9 DEF Ahead
    <2>2. (mem[b].due => mem[a].due) /\ (mem[b].queued => mem[b].due)
      BY <1>9, OrderNow DEF Inv
    <2>3. mem'[a].due = mem[a].due /\ mem'[b].due = mem[b].due
      BY <1>5, <1>7, <2>1
    <2>4. mem'[b].queued => l = cur \/ l < cur
      BY <1>8, <2>1
    <2>5. l = cur \/ l < cur => k = cur \/ k < cur
      BY <1>1, <2>1
    <2>6. mem'[b].queued => mem'[a].queued
      BY <1>8, <2>1, <2>4, <2>5
    <2>7. mem'[b].queued => mem[b].due
      BY <1>1, <1>6, <2>1, <2>2, <2>4
    <2>8. QED
      BY <2>2, <2>3, <2>6, <2>7
  <1>10. \A a : /\ Handles(queue', taken, a) = Handles(queue, taken, a) \cup (IF a = c THEN {n} ELSE {})
                /\ Handles(queue, taken, a) \subseteq 0..Len(queue)
    <2>1. TAKE a
    <2>2. to = Action("TX_HANDLE", a) <=> a = c
      BY DEF Action
    <2> HIDE DEF c, to
    <2>3. Handles(queue', taken, a) =
            Handles(queue, taken, a) \cup (IF to = Action("TX_HANDLE", a) THEN {n} ELSE {})
      BY <1>1, <1>2, HandlesPosted
    <2>4. Handles(queue, taken, a) \subseteq 0..Len(queue)
      BY DEF Handles
    <2>5. QED
      BY <2>2, <2>3, <2>4
  <1>11. ASSUME NEW a, NEW b, Ahead(tx, a, b), mem'[b].queued
         PROVE  /\ Handles(queue', taken, b) # {}
                /\ \A k \in Handles(queue', taken, a) : \E l \in Handles(queue', taken, b) : k <= l
    <2>1. PICK k, l \in DOMAIN tx : k <= l /\ tx[k] = a /\ tx[l] = b
      BY <1>11 DEF Ahead
    <2>2. Len(queue) \in Nat
      BY <1>1
    <2>3. CASE b = c
      <3>1. n \in Handles(queue', taken, b)
        BY <1>10, <2>3
      <3>2. \A j \in Handles(queue', taken, a) : j <= n
        BY <1>10, <2>2
      <3>3. QED
        BY <3>1, <3>2
    <2>4. CASE b # c
      <3>1. l < cur /\ mem[b].queued
        BY <1>6, <1>8, <1>11, <2>1, <2>4
      <3>2. a # c
        BY <1>1, <1>7, <2>1, <3>1
      <3>3. /\ Handles(queue, taken, b) # {}
            /\ \A j \in Handles(queue, taken, a) : \E i \in Handles(queue, taken, b) : j <= i
        BY <1>11, <3>1, OrderNow DEF Inv
      <3>4. /\ Handles(queue', taken, a) = Handles(queue, taken, a)
            /\ Handles(queue', taken, b) = Handles(queue, taken, b)
        BY <1>10, <2>4, <3>2
      <3>5. QED
        BY <3>3, <3>4
    <2>5. QED
      BY <2>3, <2>4
  <1> HIDE DEF c, n, to
  <1>12. cur' > 0 => \A i \in DOMAIN tx : mem'[tx[i]].queued <=> i < cur'
    <2>1. SUFFICES ASSUME cur' > 0, NEW i \in DOMAIN tx PROVE mem'[tx[i]].queued <=> i < cur'
      OBVIOUS
    <2>2. cur' = cur + 1
      BY <1>1, <2>1
    <2>3. i < cur + 1 <=> i = cur \/ i < cur
      BY <1>1
    <2>4. QED
      BY <1>8, <2>2, <2>3
  <1>13. QED
    BY <1>1, <1>9, <1>11, <1>12, OrderNext

LEMMA TimerQueuesKeeps ==
  ASSUME Inv, TimerQueues
  PROVE  Inv'
  <1> DEFINE m0 == mem[tx[cur]]
             m == [m0 EXCEPT !.queued = HasSlot]
  <1>1. /\ cur > 0 /\ mem' = [mem EXCEPT ![tx[cur]] = m] /\ Post(Action("TX_HANDLE", tx[cur]))
        /\ UNCHANGED <<tx, pcb, stray, names, taken, early>>
    BY DEF TimerQueues
  <1>2. cur \in DOMAIN tx /\ m0.due /\ tx \in Seq(Addrs) /\ cur \in 1..Len(tx) /\ Len(tx) \in Nat
    BY <1>1, NowFacts DEF Inv, InTurn
  <1>3. tx[cur] \in Addrs /\ m0 \in Packets
    <2>1. tx[cur] \in ToSet(tx)
      BY <1>2, InToSet
    <2>2. QED
      BY <2>1, NowFacts, OfFacts DEF Inv
  <1>4. HasSlot \in BOOLEAN
    BY DEF HasSlot
  <1>5. m \in Packets /\ Retouched(m0, m) /\ m.renamed = m0.renamed /\ m.due = m0.due
    BY <1>2, <1>3, <1>4 DEF Packets, Retouched
  <1> HIDE DEF m
  <1>6. Good'
    BY <1>1, <1>2, <1>5, MarkGood DEF Inv
  <1>7. queue' \in Seq(Requests) /\ Len(queue') <= QueueLen
    BY <1>1, <1>3, RequestTypes, PostTypes DEF Inv, InTurn
  <1>8. Orderly'
    <2>1. CASE refused \/ ~HasSlot
      BY <2>1 DEF TimerQueues, Orderly
    <2>2. QED
      BY <2>1, MarkedOrderly
  <1>9. CASE cur < Len(tx) /\ mem[tx[cur + 1]].due
    <2>1. cur' = cur + 1 /\ lock' = lock
      BY <1>9 DEF TimerQueues
    <2>2. cur + 1 \in DOMAIN tx /\ cur + 1 \in 0..Len(tx)
      BY <1>2, <1>9
    <2>3. mem'[tx[cur + 1]].due
      <3>1. tx[cur + 1] \in Addrs /\ mem \in [Addrs -> Packets \cup {Free}]
        BY <1>2, <2>2, NowFacts DEF Inv
      <3>2. QED
        BY <1>1, <1>3, <1>5, <1>9, <3>1
    <2>4. cur > 0 /\ cur + 1 > 0
      BY <1>2
    <2>5. QED
      BY <1>1, <1>6, <1>7, <1>8, <2>1, <2>2, <2>3, <2>4 DEF Inv, InTurn
  <1>10. CASE ~(cur < Len(tx) /\ mem[tx[cur + 1]].due)
    <2>1. cur' = 0 /\ lock' = "free"
      BY <1>10 DEF TimerQueues
    <2>2. QED
      BY <1>1, <1>2, <1>6, <1>7, <1>8, <2>1 DEF Inv, InTurn
  <1>11. QED
    BY <1>9, <1>10

\* What the service task has taken is what was posted.
LEMMA TakenFacts ==
  ASSUME Inv, NEW type, Execute(type)
  PROVE  /\ type \in {"ENABLE", "DISABLE", "ANNOUNCE"} => taken.arg \in Pcbs
         /\ type = "RX_HANDLE" => taken.arg.pcb \in Pcbs
  <1>1. taken \in Requests /\ taken.type = type
    BY DEF Inv, InTurn, Execute
  <1>2. QED
    BY <1>1 DEF Requests

LEMMA TurnKeeps ==
  ASSUME Inv, NEW type, Execute(type), Good', ~early', Orderly'
  PROVE  Inv'
  <1>1. /\ lock = "free" /\ lock' \in {"free", "lost"} /\ UNCHANGED <<queue, cur>>
        /\ taken' \in {taken, NoAction}
    BY DEF Execute
  <1>2. InTurn'
    BY <1>1, AtRestInTurn
  <1>3. QED
    BY <1>2 DEF Inv

LEMMA RunKeeps ==
  ASSUME Inv, NEW type, Execute(type), type # "TX_HANDLE", Good', ~early', refused' = refused,
         Calm(Now, Now')
  PROVE  Inv'
  <1>1. /\ lock = "free" /\ UNCHANGED <<queue, cur, refused>> /\ queue \in Seq(Requests)
        /\ taken' = NoAction /\ taken.type = type
    BY DEF Execute, Inv, InTurn
  <1>2. ASSUME NEW a \in Addrs PROVE Handles(queue, taken', a) = Handles(queue, taken, a)
    <2>1. taken # Action("TX_HANDLE", a)
      BY <1>1 DEF Action
    <2>2. QED
      BY <1>1, <2>1, HandlesDone
  <1>3. Orderly'
    BY <1>1, <1>2, CalmOrderly
  <1>4. QED
    BY <1>3, TurnKeeps

LEMMA RunStands ==
  ASSUME Inv, NEW type, Execute(type), type # "TX_HANDLE", NEW r, Becomes(r),
         Stands(Now, r, Registered, Registered), UNCHANGED <<services, early, refused>>
  PROVE  Inv'
  <1>1. Registered' = Registered
    BY DEF Registered
  <1>2. services' \in Seq(Services) /\ (services' # <<>> => hostname)
    BY DEF Inv, Good
  <1>3. Good'
    BY <1>1, <1>2, BecomesGood DEF Inv
  <1>4. ~early'
    BY DEF Inv, InTurn
  <1>5. Calm(Now, Now')
    BY BecomesNow DEF Stands
  <1>6. QED
    BY <1>3, <1>4, <1>5, RunKeeps

\* The head of the queue is sent only when it is marked, and what is marked is due:
\* an address that is used again does not send the new packet early.
LEMMA TxHandleKeeps ==
  ASSUME MemoryLasts, Inv, TxHandle
  PROVE  Inv'
  <1> DEFINE a == Head(tx)
             m == [mem[a] EXCEPT !.queued = FALSE, !.sent = IF @ < 3 THEN @ + 1 ELSE @]
             st == PutPacket([Now EXCEPT !.tx = Tail(@)], a, m)
             r(slot) == IF pcb[m.pcb].state = "OFF" THEN PutPacket(st, a, Free)
                        ELSE Reschedule(st, a, slot)
  <1>1. /\ tx # <<>> /\ taken.arg = a /\ mem[a].queued /\ Execute("TX_HANDLE")
        /\ UNCHANGED <<services, refused>>
    BY DEF TxHandle, IsNext
  <1>2. PICK slot \in Slots : Becomes(r(slot))
    BY <1>1 DEF TxHandle
  <1>3. early' = (early \/ ~m.due)
    BY <1>1 DEF TxHandle
  <1>4. mem[a] \in Packets /\ mem[a].due
    <2>1. a \in ToSet(tx)
      BY <1>1, NowFacts, TailFacts DEF Inv, Shaped
    <2>2. a \in Of(Now, mem[a].pcb) /\ mem[a] \in Packets
      BY <2>1, NowFacts, OfFacts DEF Inv
    <2> HIDE DEF a
    <2>3. mem[a].pcb \in Pcbs
      BY <2>2 DEF Packets
    <2>4. Sound(Now, mem[a].pcb)
      BY <2>3 DEF Inv, Good
    <2>5. mem[a].due
      BY <1>1, <2>2, <2>4, NowFacts DEF Inv, Sound
    <2>6. QED
      BY <2>2, <2>5
  <1>5. m.due
    BY <1>4 DEF Packets
  <1>6. ~early'
    BY <1>3, <1>5 DEF Inv, InTurn
  <1>7. /\ KeepsAll(Now, r(slot), Registered)
        /\ a \in ToSet(r(slot).tx) => ~r(slot).mem[a].queued
    <2>1. Shaped(Now, {}) /\ Now.tx # <<>>
      BY <1>1, NowFacts DEF Inv
    <2> DEFINE x == Now
               a1 == Head(x.tx)
               m1 == [x.mem[a1] EXCEPT !.queued = FALSE, !.sent = IF @ < 3 THEN @ + 1 ELSE @]
               st1 == PutPacket([x EXCEPT !.tx = Tail(@)], a1, m1)
               r1 == IF x.pcb[m1.pcb].state = "OFF" THEN PutPacket(st1, a1, Free)
                     ELSE Reschedule(st1, a1, slot)
    <2> HIDE DEF x
    <2>2. Shaped(x, {}) /\ x.tx # <<>>
      BY <2>1 DEF x
    <2>3. KeepsAll(x, r1, Registered) /\ (a1 \in ToSet(r1.tx) => ~r1.mem[a1].queued)
      BY <2>2, TxHandleFacts
    <2>4. x.tx = tx /\ x.mem = mem /\ x.pcb = pcb /\ x = Now
      BY NowFacts DEF Inv, x
    <2>5. a1 = a
      BY <2>4
    <2>6. m1 = m
      BY <2>4, <2>5
    <2>7. st1 = st
      BY <2>4, <2>5, <2>6
    <2>8. r1 = r(slot)
      BY <2>4, <2>5, <2>6, <2>7
    <2> HIDE DEF r, r1, a, a1
    <2>9. QED
      BY <2>3, <2>4, <2>5, <2>8
  <1> HIDE DEF r
  <1>8. Stands(Now, r(slot), Registered, Registered)
    BY <1>7, KeepsAllStands
  <1>9. Registered' = Registered /\ services' \in Seq(Services) /\ (services' # <<>> => hostname)
    BY <1>1 DEF Registered, Inv, Good
  <1>10. Good'
    BY <1>2, <1>8, <1>9, BecomesGood DEF Inv
  <1>11. Orderly'
    <2>1. Now' = r(slot) /\ Calm(Now, Now')
      BY <1>2, <1>8, BecomesNow DEF Stands
    <2>2. tx' = r(slot).tx /\ mem' = r(slot).mem
      BY <1>2 DEF Becomes
    <2>3. /\ lock = "free" /\ UNCHANGED <<queue, cur, refused>> /\ queue \in Seq(Requests)
          /\ taken' = NoAction
      BY <1>1 DEF Execute, Inv, InTurn
    <2> HIDE DEF a
    <2>4. ASSUME NEW b \in Addrs, b \in ToSet(tx'), mem'[b].queued
          PROVE  Handles(queue, taken', b) = Handles(queue, taken, b)
      <3>1. b # a
        BY <1>7, <2>2, <2>4
      <3>2. taken # Action("TX_HANDLE", b)
        BY <1>1, <3>1 DEF Action
      <3>3. QED
        BY <2>3, <3>2, HandlesDone
    <2>5. QED
      BY <1>10, <2>1, <2>3, <2>4, CalmOrderly
  <1>12. QED
    BY <1>1, <1>6, <1>10, <1>11, TurnKeeps

\* An action that comes too early is the address's first: the packet at the head stands
\* before, with an action that is still to come, so another comes for this one.
LEMMA TxSkipKeeps ==
  ASSUME Inv, TxSkip
  PROVE  Inv'
  <1>1. Good' /\ ~early' /\ Execute("TX_HANDLE")
    BY StillGood DEF Inv, InTurn, TxSkip, names
  <1>2. CASE refused
    <2>1. Orderly'
      BY <1>2 DEF TxSkip, Orderly
    <2>2. QED
      BY <1>1, <2>1, TurnKeeps
  <1>3. CASE ~refused
    <2> DEFINE c == taken.arg
               h == Head(tx)
    <2>1. /\ queue \in Seq(Requests) /\ taken' = NoAction /\ taken = Action("TX_HANDLE", c)
          /\ UNCHANGED <<tx, mem, queue, cur>>
      <3>1. taken \in Requests /\ taken.type = "TX_HANDLE" /\ queue \in Seq(Requests)
        BY <1>1 DEF Execute, Inv, InTurn
      <3>2. taken = Action("TX_HANDLE", c)
        BY <3>1 DEF Requests, Action
      <3>3. QED
        BY <1>1, <3>1, <3>2 DEF Execute, TxSkip, sending
    <2>2. ~(tx # <<>> /\ c = Head(tx) /\ mem[c].queued)
      BY DEF TxSkip, IsNext
    <2>3. tx \in Seq(Addrs)
      BY NowFacts DEF Inv
    <2> HIDE DEF c
    <2>4. \A a \in Addrs : /\ a # c => Handles(queue, NoAction, a) = Handles(queue, taken, a)
                           /\ Handles(queue, NoAction, a) \subseteq Nat
                           /\ Handles(queue, NoAction, a) = Handles(queue, taken, a) \ {0}
                           /\ Handles(queue, taken, a) \subseteq Nat
      <3>1. TAKE a \in Addrs
      <3>2. a # c => Handles(queue, NoAction, a) = Handles(queue, taken, a)
        <4>1. a # c => taken # Action("TX_HANDLE", a)
          BY <2>1 DEF Action
        <4>2. QED
          BY <2>1, <4>1, HandlesDone
      <3>3. Handles(queue, NoAction, a) = Handles(queue, taken, a) \ {0}
        <4>1. NoAction # Action("TX_HANDLE", a)
          BY ProbeAssumption DEF Action
        <4>2. QED
          BY <4>1 DEF Handles
      <3>4. Handles(queue, taken, a) \subseteq Nat /\ Handles(queue, NoAction, a) \subseteq Nat
        BY <2>1, HandlesAt
      <3>5. QED
        BY <3>2, <3>3, <3>4
    <2>5. ASSUME NEW a, NEW b, Ahead(tx, a, b), mem[b].queued
          PROVE  /\ Handles(queue, NoAction, b) # {}
                 /\ \A k \in Handles(queue, NoAction, a) : \E l \in Handles(queue, NoAction, b) : k <= l
      <3>1. a \in Addrs /\ b \in Addrs
        BY <2>3, <2>5 DEF Ahead
      <3>2. /\ Handles(queue, taken, b) # {}
            /\ \A k \in Handles(queue, taken, a) : \E l \in Handles(queue, taken, b) : k <= l
        BY <1>3, <2>5, OrderNow DEF Inv
      <3>3. Handles(queue, NoAction, b) # {}
        <4>1. CASE b # c
          BY <2>4, <3>1, <3>2, <4>1
        <4>2. CASE b = c
          <5>1. Ahead(tx, h, b) /\ h \in Addrs
            <6>1. PICK j \in DOMAIN tx : tx[j] = b
              BY <2>5 DEF Ahead
            <6>2. 1 \in DOMAIN tx /\ 1 <= j /\ tx[1] = h
              BY <2>3, <6>1
            <6>3. QED
              BY <2>3, <6>1, <6>2 DEF Ahead
          <5>2. tx # <<>>
            BY <2>3, <2>5 DEF Ahead
          <5>3. h # c
            BY <2>2, <2>5, <4>2, <5>2
          <5> HIDE DEF h
          <5>4. mem[h].queued
            BY <1>3, <2>5, <5>1, OrderNow DEF Inv
          <5>5. Handles(queue, taken, h) # {}
            <6>1. Ahead(tx, h, h)
              BY <2>3, <5>1 DEF Ahead
            <6>2. QED
              BY <1>3, <5>4, <6>1, OrderNow DEF Inv
          <5>6. PICK k : k \in Handles(queue, NoAction, h)
            BY <2>4, <5>1, <5>3, <5>5
          <5>7. k \in Nat /\ k # 0 /\ k \in Handles(queue, taken, h)
            BY <2>4, <5>1, <5>6
          <5>8. PICK l \in Handles(queue, taken, b) : k <= l
            BY <1>3, <2>5, <5>1, <5>7, OrderNow DEF Inv
          <5>9. l # 0
            BY <5>7, <5>8
          <5>10. QED
            BY <2>4, <3>1, <5>8, <5>9
        <4>3. QED
          BY <4>1, <4>2
      <3>4. ASSUME NEW k \in Handles(queue, NoAction, a)
            PROVE  \E l \in Handles(queue, NoAction, b) : k <= l
        <4>1. k \in Nat /\ k # 0 /\ k \in Handles(queue, taken, a)
          BY <2>4, <3>1, <3>4
        <4>2. PICK l \in Handles(queue, taken, b) : k <= l
          BY <3>2, <4>1
        <4>3. l # 0
          BY <4>1, <4>2
        <4>4. QED
          BY <2>4, <3>1, <4>2, <4>3
      <3>5. QED
        BY <3>3, <3>4
    <2>6. Orderly'
      BY <1>3, <2>1, <2>5, OrderNow, OrderNext DEF Inv
    <2>7. QED
      BY <1>1, <2>6, TurnKeeps
  <1>4. QED
    BY <1>2, <1>3

LEMMA TouchesStands ==
  ASSUME NEW st, NEW r, NEW p \in Pcbs, Touches(st, r, p), NEW Reg,
         Sound(st, p) => Sound(r, p),
         Sound(st, p) /\ Kept(st, p, Reg) => Kept(r, p, Reg)
  PROVE  Stands(st, r, Reg, Reg)
  <1>1. ASSUME NEW q \in Pcbs, q # p
        PROVE  (Sound(st, q) => Sound(r, q)) /\ (Kept(st, q, Reg) => Kept(r, q, Reg))
    <2>1. Same(st, r, q) /\ r.named = st.named
      BY <1>1 DEF Touches
    <2>2. QED
      BY <2>1, SameFacts
  <1>2. QED
    BY <1>1 DEF Stands, Touches

LEMMA LinkUpRunKeeps ==
  ASSUME MemoryLasts, Inv, LinkUpRun
  PROVE  Inv'
  <1> DEFINE p == taken.arg
  <1>1. Execute("ENABLE") /\ UNCHANGED <<services, early, refused>>
    BY DEF LinkUpRun
  <1>2. PICK slot \in Slots, up \in BOOLEAN : Becomes(PcbEnable(Now, p, up, slot))
    BY DEF LinkUpRun
  <1> DEFINE r == PcbEnable(Now, p, up, slot)
  <1>3. p \in Pcbs
    BY <1>1, TakenFacts
  <1>4. Becomes(r)
    BY <1>2
  <1> HIDE DEF p
  <1>5. /\ Touches(Now, r, p) /\ (Sound(Now, p) => Sound(r, p))
        /\ (Kept(Now, p, Registered) => Kept(r, p, Registered))
    BY <1>3, NowFacts, PcbEnableFacts DEF Inv
  <1> HIDE DEF r
  <1>6. Stands(Now, r, Registered, Registered)
    BY <1>3, <1>5, TouchesStands
  <1>7. QED
    BY <1>1, <1>4, <1>6, RunStands

LEMMA LinkDownRunKeeps ==
  ASSUME Inv, LinkDownRun
  PROVE  Inv'
  <1> DEFINE p == taken.arg
             r == PcbDisable(Now, p)
  <1>1. Execute("DISABLE") /\ UNCHANGED <<services, early, refused>> /\ Becomes(r)
    BY DEF LinkDownRun
  <1>2. p \in Pcbs
    BY <1>1, TakenFacts
  <1> HIDE DEF p
  <1>3. /\ Touches(Now, r, p) /\ (Sound(Now, p) => Sound(r, p))
        /\ (Kept(Now, p, Registered) => Kept(r, p, Registered))
    BY <1>2, NowFacts, PcbDisableFacts DEF Inv
  <1> HIDE DEF r
  <1>4. Stands(Now, r, Registered, Registered)
    BY <1>2, <1>3, TouchesStands
  <1>5. QED
    BY <1>1, <1>4, RunStands

LEMMA AnnounceRunKeeps ==
  ASSUME MemoryLasts, Inv, AnnounceRun
  PROVE  Inv'
  <1> DEFINE p == taken.arg
  <1>1. Execute("ANNOUNCE") /\ UNCHANGED <<services, early, refused>>
    BY DEF AnnounceRun
  <1>2. PICK slot \in Slots : Becomes(Announce(Now, p, <<>>, TRUE, slot))
    BY DEF AnnounceRun
  <1> DEFINE none == <<>>
             ip == TRUE
             r == Announce(Now, p, none, ip, slot)
  <1>3. p \in Pcbs
    BY <1>1, TakenFacts
  <1>4. Becomes(r)
    BY <1>2
  <1> HIDE DEF p
  <1>5. none \in Seq(Services) /\ ToSet(none) \subseteq Registered
    BY DEF ToSet
  <1>6. ip \in BOOLEAN /\ (none # <<>> \/ ip) /\ Shaped(Now, {})
    BY NowFacts DEF Inv
  <1> HIDE DEF none, ip
  <1>7. Touches(Now, r, p) /\ Keeps(Now, r, p, Registered)
    BY <1>3, <1>5, <1>6, AnnounceFacts
  <1> HIDE DEF r
  <1>8. Stands(Now, r, Registered, Registered)
    BY <1>7, TouchesKeepsAll, KeepsAllStands
  <1>9. QED
    BY <1>1, <1>4, <1>8, RunStands

LEMMA InstanceSetRunKeeps ==
  ASSUME MemoryLasts, Inv, InstanceSetRun
  PROVE  Inv'
  <1>1. Execute("INSTANCE_SET") /\ UNCHANGED <<services, early, refused>>
    BY DEF InstanceSetRun
  <1>2. PICK slot \in Slots : Becomes(RestartUnnamed(Now, slot))
    BY DEF InstanceSetRun
  <1>3. Stands(Now, RestartUnnamed(Now, slot), Registered, Registered)
    BY NowFacts, RestartUnnamedFacts DEF Inv
  <1>4. QED
    BY <1>1, <1>2, <1>3, RunStands

\* The first host name, or another.
LEMMA HostnameSetRunKeeps ==
  ASSUME MemoryLasts, Inv, HostnameSetRun
  PROVE  Inv'
  <1> DEFINE x == Rename(Now, {Host} \cup Services)
             s == [x EXCEPT !.named = TRUE]
  <1>1. Execute("HOSTNAME_SET") /\ UNCHANGED <<services, early, refused>>
    BY DEF HostnameSetRun
  <1>2. PICK slot \in Slots : Becomes(RestartAll(s, slot))
    BY DEF HostnameSetRun
  <1> DEFINE r == RestartAll(s, slot)
  <1>3. Shaped(x, {}) /\ x.pcb = pcb /\ Calm(Now, x)
    BY NowFacts, RenameDims DEF Inv, Dimmed
  <1> HIDE DEF x
  <1>4. Shaped(s, {}) /\ s.pcb = pcb /\ s.named = TRUE /\ Calm(x, s)
    <2>1. s \in Sendings /\ s.tx = x.tx /\ s.mem = x.mem /\ s.pcb = x.pcb /\ s.named = TRUE
      BY <1>3 DEF Shaped, Sendings
    <2> HIDE DEF s
    <2>2. Calm(x, s)
      BY <2>1, FewerCalm
    <2>3. QED
      BY <1>3, <2>1, <2>2 DEF Shaped
  <1> HIDE DEF s
  <1>5. /\ Shaped(r, {}) /\ r.named = s.named /\ Calm(s, r)
        /\ \A p \in Pcbs : Sound(r, p) /\ (Idle(s, p) => Kept(r, p, Registered))
    BY <1>4, NowFacts, RestartAllFacts DEF Inv
  <1>6. Becomes(r)
    BY <1>2
  <1> HIDE DEF r
  <1>7. Now' = r /\ hostname' = TRUE
    BY <1>4, <1>5, <1>6, BecomesNow DEF Becomes
  <1>8. \A p \in Pcbs : Kept(Now, p, Registered) => Idle(s, p)
    BY <1>4, NowFacts DEF Inv, Kept, Idle
  <1>9. Registered' = Registered /\ (stray => stray')
    BY <1>1, <1>6 DEF Registered, Becomes
  <1>10. Good'
    BY <1>1, <1>5, <1>7, <1>8, <1>9 DEF Inv, Good
  <1>11. ~early'
    BY <1>1 DEF Inv, InTurn
  <1>12. Calm(Now, Now')
    BY <1>3, <1>4, <1>5, <1>7, CalmTwice
  <1>13. QED
    BY <1>1, <1>10, <1>11, <1>12, RunKeeps

LEMMA NothingStands ==
  ASSUME Good
  PROVE  Stands(Now, Now, Registered, Registered)
  BY StillCalm DEF Good, Stands

\* A question is answered with registered services and the host.
LEMMA AskedFacts ==
  ASSUME NEW packet, services \in Seq(Services)
  PROVE  Asked(packet) \subseteq Registered \cup {Host} /\ Asked(packet) \subseteq Names
  <1>1. Registered \subseteq Services
    BY DEF Registered, ToSet
  <1>2. CASE packet.kind = "discovery"
    BY <1>1, <1>2 DEF Asked, Names
  <1>3. CASE packet.kind = "known"
    BY <1>3 DEF Asked
  <1>4. CASE packet.kind # "discovery" /\ packet.kind # "known"
    BY <1>1, <1>4 DEF Asked, Names
  <1>5. QED
    BY <1>2, <1>3, <1>4

\* A packet more, for an interface whose names are its own.
LEMMA AnswerStands ==
  ASSUME MemoryLasts, NEW st, Shaped(st, {}), NEW m \in Packets, NEW slot \in Slots, NEW Reg,
         AfterProbing(st.pcb[m.pcb]), m.kind = "answer", Blank(m),
         m.servers \cup m.answers \subseteq Reg \cup {Host}
  PROVE  Stands(st, Schedule(st, m, slot), Reg, Reg)
  <1> DEFINE r == Schedule(st, m, slot)
             a == NewAddr(st)
             p == m.pcb
             c == st.pcb[p]
  <1>1. p \in Pcbs
    BY DEF Packets
  <1>2. Touches(st, r, p) /\ r.pcb = st.pcb /\ Adds(st, r, p, a, m)
    BY ScheduleSame
  <1> HIDE DEF r, a
  <1>3. /\ Of(r, p) = Of(st, p) \cup {a} /\ a \notin Of(st, p) /\ r.mem[a] = m
        /\ \A b \in Of(st, p) : r.mem[b] = st.mem[b]
    BY <1>2 DEF Adds
  <1>4. ~Probing(c) /\ c.state # "PROBE_2" /\ c.state # "PROBE_3" /\ c.state # "OFF"
    BY DEF AfterProbing, Announcing, Probing
  <1>5. ASSUME Sound(st, p) PROVE Sound(r, p)
    <2>1. \A b \in Of(r, p) : r.mem[b].queued => r.mem[b].due
      BY <1>3, <1>5 DEF Sound, Blank
    <2>2. c.ready /\ Announcing(c) => \E b \in Of(r, p) : Carries(r.mem[b], c)
      BY <1>3, <1>5 DEF Sound
    <2>3. QED
      BY <1>2, <1>4, <2>1, <2>2 DEF Sound
  <1>6. ASSUME Kept(st, p, Reg) PROVE Kept(r, p, Reg)
    <2>1. c.ready
      BY <1>4, <1>6 DEF Kept
    <2>2. Fit(m, c, Reg)
      BY <1>4 DEF Fit
    <2>3. \A b \in Of(r, p) : Fit(r.mem[b], c, Reg)
      BY <1>3, <1>6, <2>1, <2>2 DEF Kept
    <2>4. r.named = st.named
      BY <1>2 DEF Touches
    <2>5. QED
      BY <1>2, <1>6, <2>1, <2>3, <2>4 DEF Kept
  <1>7. Stands(st, r, Reg, Reg)
    BY <1>1, <1>2, <1>5, <1>6, TouchesStands
  <1>8. QED
    BY <1>7 DEF r

LEMMA AnswerType ==
  ASSUME NEW p \in Pcbs, NEW asked, asked \subseteq Names, NEW shared \in BOOLEAN
  PROVE  LET m == [Packet("answer", p, <<>>, {}, {}, asked) EXCEPT !.shared = shared]
         IN /\ m \in Packets /\ m.pcb = p /\ m.kind = "answer" /\ Blank(m)
            /\ m.servers = {} /\ m.answers = asked
  <1> DEFINE m0 == Packet("answer", p, <<>>, {}, {}, asked)
  <1>1. <<>> \in Seq(Names)
    OBVIOUS
  <1>2. /\ m0 \in Packets /\ m0.pcb = p /\ m0.kind = "answer" /\ m0.queued = FALSE /\ m0.due = FALSE
        /\ m0.servers = {} /\ m0.answers = asked
    BY <1>1 DEF Packet, Packets, Kinds
  <1> HIDE DEF m0
  <1> DEFINE m == [m0 EXCEPT !.shared = shared]
  <1>3. /\ m \in Packets /\ m.pcb = p /\ m.kind = "answer" /\ Blank(m)
        /\ m.servers = {} /\ m.answers = asked
    BY <1>2 DEF Packets, Blank
  <1> HIDE DEF m
  <1>4. QED
    BY <1>3 DEF m, m0

LEMMA RxQuestionKeeps ==
  ASSUME MemoryLasts, Inv, RxQuestion
  PROVE  Inv'
  <1> DEFINE p == taken.arg.pcb
             m == [Packet("answer", p, <<>>, {}, {}, Asked(taken.arg))
                     EXCEPT !.shared = taken.arg.kind = "shared"]
             answered == hostname /\ m.answers # {} /\ AfterProbing(pcb[p])
  <1>1. Execute("RX_HANDLE") /\ UNCHANGED <<services, early, refused>>
    BY DEF RxQuestion
  <1>2. PICK slot \in Slots : Becomes(IF answered THEN Schedule(Now, m, slot) ELSE Now)
    BY DEF RxQuestion
  <1>3. p \in Pcbs
    BY <1>1, TakenFacts
  <1>4. CASE ~answered
    <2>1. Becomes(Now)
      BY <1>2, <1>4
    <2>2. QED
      BY <1>1, <2>1, NothingStands, RunStands DEF Inv
  <1>5. CASE answered
    <2> DEFINE asked == Asked(taken.arg)
               shared == taken.arg.kind = "shared"
    <2>1. asked \subseteq Registered \cup {Host} /\ asked \subseteq Names /\ shared \in BOOLEAN
      BY AskedFacts DEF Inv, Good
    <2>2. AfterProbing(pcb[p])
      BY <1>5
    <2> HIDE DEF p, asked, shared
    <2> DEFINE m1 == [Packet("answer", p, <<>>, {}, {}, asked) EXCEPT !.shared = shared]
    <2>3. /\ m1 \in Packets /\ m1.pcb = p /\ m1.kind = "answer" /\ Blank(m1)
          /\ m1.servers = {} /\ m1.answers = asked
      BY <1>3, <2>1, AnswerType
    <2>4. m = m1
      BY DEF p, asked, shared
    <2> HIDE DEF m, m1
    <2>5. m \in Packets /\ m.pcb = p /\ m.kind = "answer" /\ Blank(m)
      BY <2>3, <2>4
    <2>6. m.servers = {} /\ m.answers = asked
      BY <2>3, <2>4
    <2>7. Becomes(Schedule(Now, m, slot))
      BY <1>2, <1>5 DEF m
    <2> DEFINE st == Now
               r == Schedule(st, m, slot)
    <2>8. Shaped(st, {}) /\ AfterProbing(st.pcb[m.pcb])
      BY <2>2, <2>5, NowFacts DEF Inv
    <2> HIDE DEF st
    <2>9. Stands(st, r, Registered, Registered)
      BY <2>1, <2>5, <2>6, <2>8, AnswerStands
    <2>10. Becomes(r) /\ Stands(Now, r, Registered, Registered)
      BY <2>7, <2>9 DEF st
    <2> HIDE DEF r
    <2>11. QED
      BY <1>1, <2>10, RunStands
  <1>6. QED
    BY <1>4, <1>5

\* An answer that another device gave is taken out of shared packets, which carry
\* nothing on.
LEMMA RxAnswerKeeps ==
  ASSUME Inv, RxAnswer
  PROVE  Inv'
  <1> DEFINE heard == {a \in Addrs : mem[a] # Free /\ mem[a].shared /\ mem[a].pcb = taken.arg.pcb}
             known == taken.arg.about \in Registered \cup {Host}
             drop(m) == [m EXCEPT !.answers = @ \ {taken.arg.about}]
             mm == [a \in Addrs |-> IF known /\ a \in heard THEN drop(mem[a]) ELSE mem[a]]
             r == [Now EXCEPT !.mem = mm]
  <1>1. Execute("RX_HANDLE") /\ UNCHANGED <<services, early, refused>> /\ Becomes(r)
    BY DEF RxAnswer
  <1> DEFINE Alike(m, m1) == /\ Retouched(m, m1) /\ m1.renamed = m.renamed
                             /\ m1.due = m.due /\ m1.queued = m.queued
  <1>2. ASSUME NEW m \in Packets, m.shared PROVE Alike(m, drop(m))
    BY <1>2 DEF Packets, Retouched
  <1>3. \A m \in Packets : Alike(m, m)
    BY DEF Retouched
  <1>4. mem \in [Addrs -> Packets \cup {Free}] /\ Shaped(Now, {}) /\ Now.mem = mem
    BY NowFacts DEF Inv
  <1> HIDE DEF drop, known
  <1>5. ASSUME NEW a \in Addrs, mem[a] # Free PROVE Alike(mem[a], mm[a])
    BY <1>2, <1>3, <1>4, <1>5
  <1>6. \A a \in Addrs : mem[a] = Free => mm[a] = Free
    OBVIOUS
  <1> HIDE DEF heard
  <1>7. DOMAIN mm = Addrs /\ mm = [a \in Addrs |-> mm[a]]
    OBVIOUS
  <1> HIDE DEF mm
  <1>8. \A a \in Addrs : mm[a] \in Packets \cup {Free} /\ (mm[a] = Free <=> mem[a] = Free)
    BY <1>5, <1>6, PacketIsNotFree DEF Retouched
  <1>9. mm \in [Addrs -> Packets \cup {Free}]
    BY <1>7, <1>8
  <1>10. \A a \in ToSet(tx) : Alike(mem[a], mm[a])
    <2>1. \A a \in ToSet(tx) : a \in Addrs /\ mem[a] # Free
      BY <1>4, NowFacts, OfFacts, PacketIsNotFree DEF Inv
    <2>2. QED
      BY <1>5, <2>1
  <1>11. KeepsAll(Now, r, Registered)
    <2> DEFINE st == Now
    <2>1. Shaped(st, {}) /\ st.mem = mem /\ st.tx = tx
      BY NowFacts DEF Inv
    <2> HIDE DEF st
    <2>2. /\ \A a \in Addrs : mm[a] = Free <=> st.mem[a] = Free
          /\ \A a \in ToSet(st.tx) : Retouched(st.mem[a], mm[a])
          /\ \A a \in ToSet(st.tx) : mm[a].renamed = st.mem[a].renamed
          /\ \A a \in ToSet(st.tx) : mm[a].due = st.mem[a].due /\ mm[a].queued = st.mem[a].queued
      BY <1>8, <1>10, <2>1
    <2> DEFINE y == [st EXCEPT !.mem = mm]
    <2>3. /\ Shaped(y, {}) /\ y.named = st.named
          /\ (\A a \in ToSet(st.tx) : mm[a].renamed = st.mem[a].renamed)
             => \A p \in Pcbs : Keeps(st, y, p, Registered)
          /\ (\A a \in ToSet(st.tx) : mm[a].due = st.mem[a].due /\ mm[a].queued = st.mem[a].queued)
             => Calm(st, y)
      BY <1>9, <2>1, <2>2, RetouchFacts
    <2> HIDE DEF y
    <2>4. KeepsAll(st, y, Registered)
      BY <2>2, <2>3 DEF KeepsAll
    <2>5. QED
      BY <2>4 DEF st, y
  <1> HIDE DEF r
  <1>12. Stands(Now, r, Registered, Registered)
    BY <1>11, KeepsAllStands
  <1>13. QED
    BY <1>1, <1>12, RunStands

\* A conflict on an interface that is not probing: it is made to probe, also
\* when it is not up.
LEMMA ConflictKeeps ==
  ASSUME MemoryLasts, Inv, NEW type, Execute(type), type # "TX_HANDLE",
         UNCHANGED <<services, early, refused>>, hostname,
         NEW p \in Pcbs, NEW ss \in Seq(Services), ToSet(ss) \subseteq Registered,
         NEW ip \in BOOLEAN, NEW slot \in Slots, ss # <<>> \/ ip,
         Becomes(InitProbe(Now, p, ss, ip, slot))
  PROVE  Inv'
  <1> DEFINE r == InitProbe(Now, p, ss, ip, slot)
             st == Now
             c == st.pcb[p]
  <1>1. Shaped(st, {}) /\ st.named /\ st.pcb = pcb /\ st = Now
    BY NowFacts DEF Inv
  <1>2. Becomes(r)
    OBVIOUS
  <1> HIDE DEF st
  <1>3. /\ Touches(st, r, p)
        /\ Sound(r, p) /\ r.pcb[p].ready = c.ready /\ Probing(r.pcb[p])
        /\ ToSet(c.probes) \subseteq Registered /\ c.ready => Kept(r, p, Registered)
    <2> DEFINE i == InitProbe(st, p, ss, ip, slot)
    <2>1. /\ Touches(st, i, p)
          /\ Sound(i, p) /\ i.pcb[p].ready = c.ready /\ (st.named => Probing(i.pcb[p]))
          /\ /\ ToSet(ss) \subseteq Registered /\ ToSet(c.probes) \subseteq Registered
             /\ (st.named \/ c.probes = <<>>) /\ c.ready
             => Kept(i, p, Registered)
      BY <1>1, InitProbeFacts
    <2>2. i = r
      BY <1>1
    <2> HIDE DEF i, r
    <2>3. QED
      BY <1>1, <2>1, <2>2
  <1> HIDE DEF r
  <1>4. Now' = r /\ (stray => stray')
    BY <1>2, <1>3, BecomesNow DEF Touches, Becomes
  <1>5. Registered' = Registered
    BY DEF Registered
  <1>6. ASSUME NEW q \in Pcbs, q # p
        PROVE  Sound(r, q) /\ (Kept(Now, q, Registered) => Kept(r, q, Registered))
    <2>1. Same(st, r, q) /\ r.named = st.named
      BY <1>3, <1>6 DEF Touches
    <2>2. Sound(st, q)
      BY <1>1 DEF Inv, Good
    <2>3. QED
      BY <1>1, <2>1, <2>2, SameFacts
  <1>7. stray' \/ \A q \in Pcbs : Kept(r, q, Registered)
    <2>1. CASE c.ready
      <3>1. Kept(Now, p, Registered) => Kept(r, p, Registered)
        BY <1>1, <1>3, <2>1 DEF Kept
      <3>2. QED
        BY <1>4, <1>6, <3>1 DEF Inv, Good
    <2>2. CASE ~c.ready
      BY <1>2, <1>3, <2>2 DEF Becomes
    <2>3. QED
      BY <2>1, <2>2
  <1>8. hostname'
    <2>1. r.named = st.named
      BY <1>3 DEF Touches
    <2>2. QED
      BY <1>1, <1>2, <2>1 DEF Becomes
  <1>9. Shaped(r, {}) /\ \A q \in Pcbs : Sound(r, q)
    BY <1>3, <1>6 DEF Touches
  <1>10. Good'
    BY <1>4, <1>5, <1>7, <1>8, <1>9 DEF Inv, Good
  <1>11. ~early'
    BY DEF Inv, InTurn
  <1>12. Calm(Now, Now')
    BY <1>1, <1>3, <1>4 DEF Touches
  <1>13. QED
    BY <1>10, <1>11, <1>12, RunKeeps

LEMMA RxServiceKeeps ==
  ASSUME MemoryLasts, Inv, RxService
  PROVE  Inv'
  <1> DEFINE s == taken.arg.about
             p == taken.arg.pcb
  <1>1. Execute("RX_HANDLE") /\ UNCHANGED <<services, early, refused>>
    BY DEF RxService
  <1>2. PICK slot \in Slots :
          Becomes(IF ~Contains(services, s) THEN Now
                  ELSE IF Probing(pcb[p]) THEN NewName(s, slot)
                  ELSE InitProbe(Now, p, <<s>>, FALSE, slot))
    BY DEF RxService
  <1>3. p \in Pcbs
    BY <1>1, TakenFacts
  <1> HIDE DEF s, p
  <1>4. CASE ~Contains(services, s)
    <2>1. Becomes(Now)
      BY <1>2, <1>4
    <2>2. QED
      BY <1>1, <2>1, NothingStands, RunStands DEF Inv
  <1>5. CASE Contains(services, s) /\ Probing(pcb[p])
    <2>1. Becomes(NewName(s, slot)) /\ s \in Registered
      BY <1>2, <1>5, ContainsFacts DEF Inv, Good
    <2>2. Stands(Now, NewName(s, slot), Registered, Registered)
      BY <2>1, NowFacts, NewNameFacts DEF Inv
    <2>3. QED
      BY <1>1, <2>1, <2>2, RunStands
  <1>6. CASE Contains(services, s) /\ ~Probing(pcb[p])
    <2> DEFINE ss == <<s>>
               ip == FALSE
    <2>1. s \in Services /\ s \in Registered /\ hostname
      BY <1>6, ContainsFacts DEF Inv, Good
    <2>2. ss \in Seq(Services) /\ ToSet(ss) \subseteq Registered /\ ss # <<>> /\ ip \in BOOLEAN
      BY <2>1, OneService
    <2>3. Becomes(InitProbe(Now, p, ss, ip, slot))
      BY <1>2, <1>6
    <2> HIDE DEF ss, ip
    <2>4. QED
      BY <1>1, <1>3, <2>1, <2>2, <2>3, ConflictKeeps
  <1>7. QED
    BY <1>4, <1>5, <1>6

LEMMA RxTextKeeps ==
  ASSUME MemoryLasts, Inv, RxText
  PROVE  Inv'
  <1> DEFINE s == taken.arg.about
             p == taken.arg.pcb
  <1>1. Execute("RX_HANDLE") /\ UNCHANGED <<services, early, refused>>
    BY DEF RxText
  <1>2. PICK slot \in Slots :
          Becomes(IF ~Contains(services, s) \/ Probing(pcb[p]) THEN Now
                  ELSE InitProbe(Now, p, <<s>>, TRUE, slot))
    BY DEF RxText
  <1>3. p \in Pcbs
    BY <1>1, TakenFacts
  <1> HIDE DEF s, p
  <1>4. CASE ~Contains(services, s) \/ Probing(pcb[p])
    <2>1. Becomes(Now)
      BY <1>2, <1>4
    <2>2. QED
      BY <1>1, <2>1, NothingStands, RunStands DEF Inv
  <1>5. CASE Contains(services, s) /\ ~Probing(pcb[p])
    <2> DEFINE ss == <<s>>
               ip == TRUE
    <2>1. s \in Services /\ s \in Registered /\ hostname
      BY <1>5, ContainsFacts DEF Inv, Good
    <2>2. ss \in Seq(Services) /\ ToSet(ss) \subseteq Registered /\ ss # <<>> /\ ip \in BOOLEAN
      BY <2>1, OneService
    <2>3. Becomes(InitProbe(Now, p, ss, ip, slot))
      BY <1>2, <1>5
    <2> HIDE DEF ss, ip
    <2>4. QED
      BY <1>1, <1>3, <2>1, <2>2, <2>3, ConflictKeeps
  <1>6. QED
    BY <1>4, <1>5

LEMMA RxHostKeeps ==
  ASSUME MemoryLasts, Inv, RxHost
  PROVE  Inv'
  <1> DEFINE p == taken.arg.pcb
  <1>1. Execute("RX_HANDLE") /\ UNCHANGED <<services, early, refused>>
    BY DEF RxHost
  <1>2. PICK slot \in Slots :
          Becomes(IF ~hostname THEN Now
                  ELSE IF Probing(pcb[p]) THEN RestartAll(Rename(Now, {Host} \cup Services), slot)
                  ELSE InitProbe(Now, p, <<>>, TRUE, slot))
    BY DEF RxHost
  <1>3. p \in Pcbs
    BY <1>1, TakenFacts
  <1> HIDE DEF p
  <1>4. CASE ~hostname
    <2>1. Becomes(Now)
      BY <1>2, <1>4
    <2>2. QED
      BY <1>1, <2>1, NothingStands, RunStands DEF Inv
  <1>5. CASE hostname /\ Probing(pcb[p])
    <2> DEFINE r == RestartAll(Rename(Now, {Host} \cup Services), slot)
    <2>1. Becomes(r)
      BY <1>2, <1>5
    <2>2. Stands(Now, r, Registered, Registered)
      BY NowFacts, RestartRenamedFacts DEF Inv
    <2> HIDE DEF r
    <2>3. QED
      BY <1>1, <2>1, <2>2, RunStands
  <1>6. CASE hostname /\ ~Probing(pcb[p])
    <2> DEFINE ss == <<>>
               ip == TRUE
    <2>1. ss \in Seq(Services) /\ ToSet(ss) \subseteq Registered
      BY DEF ToSet
    <2>2. ip \in BOOLEAN /\ (ss # <<>> \/ ip)
      OBVIOUS
    <2>3. Becomes(InitProbe(Now, p, ss, ip, slot))
      BY <1>2, <1>6
    <2> HIDE DEF ss, ip
    <2>4. QED
      BY <1>1, <1>3, <1>6, <2>1, <2>2, <2>3, ConflictKeeps
  <1>7. QED
    BY <1>4, <1>5, <1>6

-----------------------------------------------------------------------------
\* The theorems.

LEMMA InitKeeps ==
  ASSUME Init
  PROVE  Inv
  <1>1. /\ Now.tx = <<>> /\ Now.mem = [a \in Addrs |-> Free]
        /\ Now.pcb = [p \in Pcbs |-> [PcbOff EXCEPT !.ready = TRUE, !.state = "RUNNING"]]
        /\ Now.named = FALSE /\ DOMAIN Now = {"tx", "mem", "pcb", "named"}
        /\ Now = [tx |-> Now.tx, mem |-> Now.mem, pcb |-> Now.pcb, named |-> Now.named]
    BY DEF Init, Now
  <1>2. /\ <<>> \in Seq(Addrs) /\ <<>> \in Seq(Services) /\ <<>> \in Seq(Requests)
        /\ ToSet(<<>>) = {} /\ Distinct(<<>>) /\ Len(<<>>) = 0
    BY DEF ToSet, Distinct
  <1> DEFINE off == PcbOff
             up == [off EXCEPT !.ready = TRUE, !.state = "RUNNING"]
  <1>3. up \in Interfaces /\ up.ready /\ up.state = "RUNNING" /\ up.probes = <<>>
    <2>1. off \in Interfaces /\ off.probes = <<>>
      BY <1>2 DEF PcbOff, Interfaces, States
    <2> HIDE DEF off
    <2>2. QED
      BY <2>1 DEF Interfaces, States
  <1>4. Now.pcb = [p \in Pcbs |-> up]
    BY <1>1
  <1> HIDE DEF up
  <1>5. \A p \in Pcbs : /\ Now.pcb[p] \in Interfaces /\ Now.pcb[p].ready
                        /\ Now.pcb[p].state = "RUNNING" /\ Now.pcb[p].probes = <<>>
    BY <1>3, <1>4
  <1>6. Now \in Sendings
    <2>1. Now.pcb \in [Pcbs -> Interfaces]
      BY <1>3, <1>4
    <2>2. Now.mem \in [Addrs -> Packets \cup {Free}]
      BY <1>1
    <2>3. QED
      BY <1>1, <1>2, <2>1, <2>2 DEF Sendings
  <1>7. Shaped(Now, {})
    BY <1>1, <1>2, <1>6 DEF Shaped
  <1>8. \A p : Of(Now, p) = {}
    BY <1>1, <1>2 DEF Of
  <1>9. \A p \in Pcbs : Sound(Now, p) /\ Kept(Now, p, Registered)
    BY <1>2, <1>5, <1>8 DEF Sound, Kept, Probing, Announcing
  <1>10. Good
    BY <1>2, <1>7, <1>9 DEF Good, Init
  <1>11. InTurn
    BY <1>2, ProbeAssumption DEF InTurn, Init
  <1>12. Orderly
    <2>1. \A a, b : ~Ahead(<<>>, a, b)
      BY DEF Ahead
    <2>2. QED
      BY <1>1, <2>1 DEF Orderly, InOrder, InLine, Called, Init
  <1>13. QED
    BY <1>10, <1>11, <1>12 DEF Inv

LEMMA ApplicationKeeps ==
  ASSUME MemoryLasts, Inv, Application
  PROVE  Inv'
  <1>1. CASE \E s \in Services : ServiceAdd(s) \/ InstanceNameSet(s) \/ ServiceRemove(s)
    BY <1>1, ServiceAddKeeps, InstanceNameSetKeeps, ServiceRemoveKeeps
  <1>2. CASE \E s \in Services : PortSet(s) \/ TextSet(s) \/ TextSetFails(s) \/ TextItemRemove(s)
                                  \/ SubtypeAdd(s) \/ SubtypeUpdate(s)
    <2>1. PICK s \in Services : PortSet(s) \/ TextSet(s) \/ TextSetFails(s) \/ TextItemRemove(s)
                                  \/ SubtypeAdd(s) \/ SubtypeUpdate(s)
      BY <1>2
    <2>2. Change(s) /\ \/ Announced(s, TRUE) \/ Announced(s, FALSE) \/ Unannounced
                       \/ lock' = "lost" /\ UNCHANGED <<sending, hostname>>
      BY <2>1 DEF PortSet, TextSet, TextSetFails, TextItemRemove, SubtypeAdd, SubtypeUpdate
    <2>3. QED
      BY <2>2, ChangeKeeps
  <1>3. CASE ServiceRemoveAll
    BY <1>3, ServiceRemoveAllKeeps
  <1>4. CASE HostnameSet \/ InstanceSet
    <2>1. PICK action \in Requests : PostCall(action) /\ action.type # "TX_HANDLE"
      BY <1>4, RequestTypes DEF HostnameSet, InstanceSet, Action
    <2>2. QED
      BY <2>1, PostKeeps DEF PostCall
  <1>5. QED
    BY <1>1, <1>2, <1>3, <1>4 DEF Application

LEMMA NetworkKeeps ==
  ASSUME Inv, Network
  PROVE  Inv'
  <1>1. CASE \E p \in Pcbs : LinkUp(p) \/ LinkDown(p) \/ AnnounceEvent(p)
    <2>1. PICK action \in Requests : PostCall(action) /\ action.type # "TX_HANDLE"
      BY <1>1, RequestTypes DEF LinkUp, LinkDown, AnnounceEvent, Action
    <2>2. QED
      BY <2>1, PostKeeps DEF PostCall
  <1>2. CASE \E p \in Pcbs, s \in Names, kind \in Questions \cup {"answer", "service", "text", "host"} :
               Receive(Rx(kind, p, s))
    <2>1. PICK p \in Pcbs, s \in Names, kind \in Questions \cup {"answer", "service", "text", "host"} :
            Receive(Rx(kind, p, s))
      BY <1>2
    <2>2. /\ Action("RX_HANDLE", Rx(kind, p, s)) \in Requests
          /\ Action("RX_HANDLE", Rx(kind, p, s)).type # "TX_HANDLE"
      BY RequestTypes DEF Action
    <2>3. QED
      BY <2>1, <2>2, PostKeeps DEF Receive
  <1>3. /\ Services \subseteq Names /\ Host \in Names
        /\ {"question", "shared", "answer", "service", "text"}
             \subseteq Questions \cup {"answer", "service", "text", "host"}
        /\ {"question", "known", "discovery", "host"}
             \subseteq Questions \cup {"answer", "service", "text", "host"}
    BY DEF Names, Questions
  <1>4. QED
    BY <1>1, <1>2, <1>3 DEF Network

LEMMA ServiceKeeps ==
  ASSUME MemoryLasts, Inv, Service
  PROVE  Inv'
  BY TakeKeeps, TxHandleKeeps, TxSkipKeeps, LinkUpRunKeeps, LinkDownRunKeeps, AnnounceRunKeeps,
     HostnameSetRunKeeps, InstanceSetRunKeeps, RxQuestionKeeps, RxAnswerKeeps, RxServiceKeeps,
     RxTextKeeps, RxHostKeeps DEF Service

LEMMA StutterKeeps ==
  ASSUME Inv, UNCHANGED vars
  PROVE  Inv'
  <1>1. Good'
    BY StillGood DEF Inv, vars, names
  <1>2. InTurn'
    BY DEF Inv, InTurn, vars, tasks, sending
  <1>3. Orderly'
    BY StillOrderly DEF Inv, vars, tasks, sending
  <1>4. QED
    BY <1>1, <1>2, <1>3 DEF Inv

LEMMA StepKeeps ==
  ASSUME MemoryLasts, Inv, [Next]_vars
  PROVE  Inv'
  BY ApplicationKeeps, NetworkKeeps, TimePassesKeeps, TimerStartKeeps, TimerQueuesKeeps,
     ServiceKeeps, StutterKeeps DEF Next, Timer

\* The inductive invariant holds while there is memory for packets.
THEOREM InvAlways == MemoryLasts => (Spec => []Inv)
  <1> SUFFICES ASSUME MemoryLasts PROVE Spec => []Inv
    OBVIOUS
  <1>1. Init => Inv
    BY InitKeeps
  <1>2. Inv /\ [Next]_vars => Inv'
    BY StepKeeps
  <1>3. QED
    BY <1>1, <1>2, PTL DEF Spec

\* A queue without repetition is as long as it has elements.
LEMMA DistinctLen ==
  ASSUME NEW seq \in Seq(Addrs), Distinct(seq)
  PROVE  Len(seq) = Cardinality(ToSet(seq))
  <1> DEFINE S == ToSet(seq)
             n == Len(seq)
  <1>1. n \in Nat /\ DOMAIN seq = 1..n /\ seq \in [1..n -> S]
    BY DEF ToSet
  <1>2. seq \in Bijection(1..n, S)
    BY <1>1, InToSet DEF Distinct, Bijection, Injection, Surjection, IsInjective
  <1>3. ExistsBijection(1..n, S)
    BY <1>2 DEF ExistsBijection
  <1> HIDE DEF S, n
  <1>4. Cardinality(S) = n
    BY <1>1, <1>3, FS_CountingElements
  <1>5. QED
    BY <1>4 DEF S, n

\* Memory in use is exactly that of the waiting packets, each linked once: no packet is
\* lost or freed twice by any operation on the queue; and tasks and names keep their types.
THEOREM ProbeTypes == MemoryLasts => (Spec => []ProbeTypeOK)
  <1>1. Inv => ProbeTypeOK
    <2>1. SUFFICES ASSUME Inv PROVE ProbeTypeOK
      OBVIOUS
    <2>2. Shaped(Now, {}) /\ Now.tx = tx /\ Now.mem = mem /\ tx \in Seq(Addrs) /\ pcb \in [Pcbs -> Interfaces]
          /\ services \in Seq(Services)
      BY <2>1, NowFacts DEF Inv
    <2>3. (\A a \in Addrs : mem[a] # Free <=> a \in Waiting) /\ Distinct(tx)
      BY <2>2 DEF Shaped, Waiting
    <2>4. Len(tx) = Cardinality(Waiting)
      BY <2>2, <2>3, DistinctLen DEF Waiting
    <2>5. \A p \in Pcbs : ToSet(pcb[p].probes) \subseteq Services
      BY <2>2 DEF Interfaces, ToSet
    <2>6. Registered \subseteq Services
      BY <2>2 DEF Registered, ToSet
    <2>7. QED
      BY <2>1, <2>3, <2>4, <2>5, <2>6 DEF Inv, InTurn, ProbeTypeOK
  <1>2. QED
    BY <1>1, InvAlways, PTL

\* An interface that is up and probing or announcing has a packet waiting that carries
\* it on, whatever the application, the network and the timer do.
THEOREM CarriedOnAlways == MemoryLasts => (Spec => []CarriedOn)
  <1>1. Inv => CarriedOn
    <2>1. SUFFICES ASSUME Inv, NEW p \in Pcbs, pcb[p].ready, Probing(pcb[p]) \/ Announcing(pcb[p])
                   PROVE  PacketsOf(Now, p) # <<>>
      BY DEF CarriedOn
    <2>2. Sound(Now, p) /\ Now.pcb = pcb /\ Now.tx = tx /\ tx \in Seq(Addrs)
      BY <2>1, NowFacts DEF Inv, Good
    <2>3. PICK a : a \in Of(Now, p)
      BY <2>1, <2>2 DEF Sound
    <2>4. ToSet(PacketsOf(Now, p)) = ToSet(tx) \cap Of(Now, p)
      BY <2>2, OnlyFacts DEF PacketsOf
    <2>5. a \in ToSet(PacketsOf(Now, p))
      BY <2>2, <2>3, <2>4 DEF Of
    <2>6. ToSet(<<>>) = {}
      BY DEF ToSet
    <2>7. QED
      BY <2>5, <2>6
  <1>2. QED
    BY <1>1, InvAlways, PTL

\* A waiting packet fits its interface, which is up.
LEMMA KeptPackets ==
  ASSUME Inv, ~stray, NEW a \in Waiting
  PROVE  \E p \in Pcbs : pcb[p].ready /\ Fit(mem[a], pcb[p], Registered)
  <1>1. Shaped(Now, {}) /\ Now.tx = tx /\ Now.mem = mem /\ Now.pcb = pcb
    BY NowFacts DEF Inv
  <1> DEFINE p == mem[a].pcb
  <1>2. a \in Of(Now, p) /\ mem[a] \in Packets
    BY <1>1, OfFacts DEF Waiting
  <1>3. p \in Pcbs
    BY <1>2 DEF Packets
  <1> HIDE DEF p
  <1>4. Kept(Now, p, Registered)
    BY <1>3 DEF Inv, Good
  <1>5. pcb[p].ready /\ Fit(mem[a], pcb[p], Registered)
    BY <1>1, <1>2, <1>4 DEF Kept
  <1>6. QED
    BY <1>3, <1>5

\* Names are announced after three probes for them and no change, unless a conflict
\* has made an interface probe that was down.
THEOREM AnnouncedAlwaysProbed == MemoryLasts => (Spec => []AnnouncedWasProbed)
  <1>1. Inv => AnnouncedWasProbed
    BY KeptPackets DEF AnnouncedWasProbed, Fit
  <1>2. QED
    BY <1>1, InvAlways, PTL

\* The address in a TX_HANDLE, though it may be stale, never sends a packet early.
THEOREM SentAlwaysDue == MemoryLasts => (Spec => []SentWhenDue)
  <1>1. Inv => SentWhenDue
    BY DEF Inv, InTurn, SentWhenDue
  <1>2. QED
    BY <1>1, InvAlways, PTL

\* A packet that is marked as queued is never forgotten: its action is in the queue or
\* with the service task, also when an earlier one for its address came too soon and was
\* skipped, unless the queue was full when a packet was due.
THEOREM QueuedAlwaysSent == MemoryLasts => (Spec => []QueuedIsSent)
  <1>1. Inv => QueuedIsSent
    <2>1. SUFFICES ASSUME Inv, ~refused, NEW a \in Waiting, mem[a].queued
                   PROVE  Action("TX_HANDLE", a) \in Actions
      BY DEF QueuedIsSent
    <2>2. tx \in Seq(Addrs) /\ a \in Addrs /\ queue \in Seq(Requests)
      BY <2>1, NowFacts, InToSet DEF Inv, InTurn, Waiting
    <2>3. Ahead(tx, a, a)
      <3>1. PICK i \in DOMAIN tx : tx[i] = a
        BY <2>1, InToSet DEF Waiting
      <3>2. QED
        BY <2>2, <3>1 DEF Ahead
    <2>4. PICK k : k \in Handles(queue, taken, a)
      BY <2>1, <2>3, OrderNow DEF Inv
    <2>5. CASE k = 0
      <3>1. taken = Action("TX_HANDLE", a)
        BY <2>4, <2>5 DEF Handles
      <3>2. taken # NoAction
        BY <2>2, <3>1, ProbeAssumption DEF Action
      <3>3. QED
        BY <3>1, <3>2 DEF Actions
    <2>6. CASE k # 0
      <3>1. k \in 1..Len(queue) /\ queue[k] = Action("TX_HANDLE", a)
        BY <2>2, <2>4, <2>6 DEF Handles
      <3>2. k \in DOMAIN queue
        BY <2>2, <3>1
      <3>3. QED
        BY <3>1, <3>2 DEF Actions
    <2>7. QED
      BY <2>5, <2>6
  <1>2. QED
    BY <1>1, InvAlways, PTL

\* No answer and no probe of a service that was removed is left waiting, with the same
\* exception.
THEOREM AnswersAlwaysRegistered == MemoryLasts => (Spec => []AnswersRegistered)
  <1>1. Inv => AnswersRegistered
    <2>1. SUFFICES ASSUME Inv, ~stray PROVE AnswersRegistered
      BY DEF AnswersRegistered
    <2>2. \A a \in Waiting : (mem[a].servers \cup mem[a].answers) \ {Host} \subseteq Registered
      BY <2>1, KeptPackets DEF Fit
    <2>3. ASSUME NEW p \in Pcbs PROVE ToSet(pcb[p].probes) \subseteq Registered
      <3>1. Kept(Now, p, Registered) /\ Now.pcb = pcb
        BY <2>1, NowFacts DEF Inv, Good
      <3>2. Able(Now, p, Registered)
        BY <3>1, KeptAble
      <3>3. QED
        BY <3>1, <3>2 DEF Able
    <2>4. QED
      BY <2>2, <2>3 DEF AnswersRegistered
  <1>2. QED
    BY <1>1, InvAlways, PTL
=============================================================================
