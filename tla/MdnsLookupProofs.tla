------------------------- MODULE MdnsLookupProofs -------------------------
(***************************************************************************)
(* For any number of searches, calls and packets and any length of the     *)
(* queue: a search in the chain, or on its way into it, is memory its      *)
(* caller may not free yet; the searches implement MdnsSearchApi; queue,   *)
(* lock, chain and timer keep their types; the notifier of the browse is   *)
(* told every entry as it is, once nothing is on its way; and no entry of  *)
(* a search or of the browse mixes names, unless it was misled.            *)
(***************************************************************************)
EXTENDS MdnsLookup, WellFoundedInduction, TLAPS

IsAdd(a) == a.type = "SEARCH_ADD"

(* A free search is nobody's; the callers' calls and the chain are typed.  *)
CallersInv ==
  /\ user \in [Searches -> {"none", "waiting", "open", "got"}]
  /\ given \subseteq Searches /\ \A s \in given : user[s] # "none"
  /\ chain \in Seq(Searches)
  /\ \E S : queue \in Seq(S)

(* A search is in the chain once, or has one SEARCH_ADD on its way.        *)
ChainOnce == \A i, j \in DOMAIN chain : chain[i] = chain[j] => i = j

Pending(s) ==
  \/ \E i \in DOMAIN queue : IsAdd(queue[i]) /\ queue[i].arg = s
  \/ taken # NoAction /\ IsAdd(taken) /\ taken.arg = s

AddOnce ==
  /\ \A i, j \in DOMAIN queue :
       IsAdd(queue[i]) /\ IsAdd(queue[j]) /\ queue[i].arg = queue[j].arg => i = j
  /\ taken # NoAction /\ IsAdd(taken) =>
       \A i \in DOMAIN queue : IsAdd(queue[i]) => queue[i].arg # taken.arg
  /\ \A s : Pending(s) => s \in Searches /\ s \notin Chained

(* The searches somebody may still write to.                               *)
Held == \A s \in Searches : Pending(s) \/ s \in Chained => ~Freed(s)

IInv == CallersInv /\ ChainOnce /\ AddOnce /\ Held

LEMMA InitIInv == Init => IInv
  <1> SUFFICES ASSUME Init PROVE IInv
    OBVIOUS
  <1>1. queue = <<>> /\ taken = NoAction /\ chain = <<>> /\ given = {}
        /\ user = [s \in Searches |-> "none"]
    BY DEF Init
  <1>2. queue \in Seq({})
    BY <1>1
  <1>3. CallersInv
    BY <1>1, <1>2 DEF CallersInv
  <1>4. QED
    BY <1>1, <1>3 DEF IInv, ChainOnce, AddOnce, Held, Pending, Chained

(* What the invariant says of the named property.                          *)
LEMMA IInvHolds == IInv => NoDangling
  <1> SUFFICES ASSUME IInv PROVE NoDangling
    OBVIOUS
  <1>1. \A s \in Chained : s \in Searches
    BY DEF IInv, CallersInv, Chained
  <1>2. \A a \in Actions : a.type = "SEARCH_ADD" => Pending(a.arg)
    BY DEF Actions, Pending, IsAdd
  <1>3. \A a \in Actions : a.type = "SEARCH_ADD" => a.arg \in Searches
    BY <1>2 DEF IInv, AddOnce
  <1>4. QED
    BY <1>1, <1>2, <1>3 DEF IInv, Held, NoDangling

----------------------------------------------------------------------------
(* A step that leaves the queue alone but for an action other than         *)
(* SEARCH_ADD at its end, and the action taken but for one that is no      *)
(* SEARCH_ADD, brings no search on its way and takes none off it.          *)
OtherPosted ==
  \/ UNCHANGED queue
  \/ \E a : ~IsAdd(a) /\ queue' = Append(queue, a)

LEMMA PostedKeeps ==
  ASSUME IInv, OtherPosted, taken' = taken \/ (~IsAdd(taken) /\ (taken' = NoAction \/ ~IsAdd(taken'))),
         Chained' \subseteq Chained
  PROVE  /\ \E S : queue' \in Seq(S)
         /\ AddOnce'
         /\ \A s : Pending(s)' => Pending(s)
  <1>1. PICK S : queue \in Seq(S)
    BY DEF IInv, CallersInv
  <1>2. CASE UNCHANGED queue
    <2>1. \A s : Pending(s)' => Pending(s)
      BY <1>2 DEF Pending
    <2>2. QED
      BY <1>1, <1>2, <2>1 DEF IInv, AddOnce
  <1>3. CASE \E a : ~IsAdd(a) /\ queue' = Append(queue, a)
    <2>1. PICK a : ~IsAdd(a) /\ queue' = Append(queue, a)
      BY <1>3
    <2>2. queue \in Seq(S \cup {a}) /\ queue' \in Seq(S \cup {a})
      BY <1>1, <2>1
    <2>3. \A i \in DOMAIN queue' : IsAdd(queue'[i]) => i \in DOMAIN queue /\ queue'[i] = queue[i]
      BY <2>1, <2>2
    <2>4. \A s : Pending(s)' => Pending(s)
      BY <2>3 DEF Pending, IsAdd
    <2>5. QED
      BY <2>2, <2>3, <2>4 DEF IInv, AddOnce, IsAdd
  <1>4. QED
    BY <1>2, <1>3 DEF OtherPosted
(* Everything that concerns neither the callers nor the chain.             *)
Bystander ==
  /\ OtherPosted
  /\ user' = user /\ given' = given /\ chain' = chain
  /\ taken' = taken \/ (~IsAdd(taken) /\ (taken' = NoAction \/ ~IsAdd(taken')))

LEMMA BystanderKeeps == IInv /\ Bystander => IInv'
  <1> SUFFICES ASSUME IInv, Bystander PROVE IInv'
    OBVIOUS
  <1> USE DEF Bystander
  <1>1. Chained' = Chained
    BY DEF Chained
  <1>2. (\E S : queue' \in Seq(S)) /\ AddOnce' /\ \A s : Pending(s)' => Pending(s)
    BY <1>1, PostedKeeps
  <1>3. CallersInv' /\ ChainOnce'
    BY <1>2 DEF IInv, CallersInv, ChainOnce
  <1>4. \A s : Freed(s)' <=> Freed(s)
    BY DEF Freed, Ended
  <1>5. Held'
    BY <1>1, <1>2, <1>4 DEF IInv, Held
  <1>6. QED
    BY <1>2, <1>3, <1>5 DEF IInv

LEMMA BystandersKeep ==
  IInv /\ ( BrowseNew \/ BrowseDelete \/ Surroundings \/ Timer \/ SearchSend
          \/ BrowseAddRun \/ BrowseEnd \/ BrowseSync
          \/ ParseRecord \/ ParseNull \/ ParseEnd )
  => IInv'
  <1> SUFFICES ASSUME IInv,
                      BrowseNew \/ BrowseDelete \/ Surroundings \/ Timer \/ SearchSend
                      \/ BrowseAddRun \/ BrowseEnd \/ BrowseSync
                      \/ ParseRecord \/ ParseNull \/ ParseEnd
               PROVE  IInv'
    OBVIOUS
  <1>1. CASE BrowseNew \/ BrowseDelete
    <2>1. OtherPosted
      BY <1>1 DEF BrowseNew, BrowseDelete, Post, Action, IsAdd, OtherPosted
    <2>2. Bystander
      BY <1>1, <2>1 DEF BrowseNew, BrowseDelete, searchVars, Bystander
    <2>3. QED
      BY <2>2, BystanderKeeps
  <1>2. CASE Surroundings
    <2>1. ASSUME NEW p \in Packets, Receive(p)
          PROVE  IInv'
      <3>1. OtherPosted
        BY <2>1 DEF Receive, Action, IsAdd, OtherPosted
      <3>2. Bystander
        BY <2>1, <3>1 DEF Receive, searchVars, Bystander
      <3>3. QED
        BY <3>2, BystanderKeeps
    <2>2. ASSUME NEW s \in Searches, TimeoutPasses(s)
          PROVE  IInv'
      <3>1. Bystander
        BY <2>2 DEF TimeoutPasses, OtherPosted, Bystander
      <3>2. QED
        BY <3>1, BystanderKeeps
    <2>3. QED
      BY <1>2, <2>1, <2>2 DEF Surroundings
  <1>3. CASE Timer
    <2>1. PICK s \in Searches : VisitOff(s) \/ VisitLate(s) \/ VisitSend(s) \/ VisitRunning(s)
      BY <1>3 DEF Timer
    <2>2. UNCHANGED <<taken, user, given, chain>>
      BY <2>1 DEF VisitOff, VisitLate, VisitSend, VisitRunning, Visit
    <2>3. OtherPosted
      BY <2>1 DEF VisitOff, VisitLate, VisitSend, VisitRunning, Action, IsAdd, OtherPosted
    <2>4. QED
      BY <2>2, <2>3, BystanderKeeps DEF Bystander
  <1>4. CASE SearchSend \/ BrowseAddRun \/ BrowseEnd
    <2>1. ~IsAdd(taken) /\ taken' = NoAction /\ UNCHANGED queue
      BY <1>4 DEF SearchSend, BrowseAddRun, BrowseEnd, Execute, IsAdd
    <2>2. UNCHANGED <<user, given, chain>>
      BY <1>4 DEF SearchSend, BrowseAddRun, BrowseEnd, searchVars
    <2>3. QED
      BY <2>1, <2>2, BystanderKeeps DEF OtherPosted, Bystander
  <1>5. CASE BrowseSync
    <2>1. UNCHANGED <<user, given, chain, queue>>
      BY <1>5 DEF BrowseSync, searchVars
    <2>2. ~IsAdd(taken) /\ taken' \in {NoAction, taken}
      BY <1>5 DEF BrowseSync, IsAdd
    <2>3. QED
      BY <2>1, <2>2, BystanderKeeps DEF OtherPosted, Bystander
  <1>6. CASE ParseRecord
    <2>1. UNCHANGED <<user, given, chain, queue>>
      BY <1>6 DEF ParseRecord
    <2>2. ~IsAdd(taken) /\ ~IsAdd(taken')
      BY <1>6 DEF ParseRecord, Parsing, IsAdd, Action
    <2>3. QED
      BY <2>1, <2>2, BystanderKeeps DEF OtherPosted, Bystander
  <1>null. CASE ParseNull
    <2>1. UNCHANGED <<user, given, chain, queue, taken>>
      BY <1>null DEF ParseNull, searchVars
    <2>2. QED
      BY <2>1, BystanderKeeps DEF OtherPosted, Bystander
  <1>7. CASE ParseEnd
    <2>1. UNCHANGED <<user, given, chain>>
      BY <1>7 DEF ParseEnd, searchVars
    <2>2. ~IsAdd(taken) /\ taken' = NoAction
      BY <1>7 DEF ParseEnd, Parsing, IsAdd
    <2>3. OtherPosted
      BY <1>7 DEF ParseEnd, Action, IsAdd, OtherPosted
    <2>4. QED
      BY <2>1, <2>2, <2>3, BystanderKeeps DEF Bystander
  <1>8. QED
    BY <1>1, <1>2, <1>3, <1>4, <1>5, <1>6, <1>null, <1>7
----------------------------------------------------------------------------
(* A call that is accepted has one SEARCH_ADD on its way, for memory that  *)
(* nobody knows of.                                                        *)
LEMMA QueryKeeps ==
  ASSUME IInv, NEW s \in Searches, NEW ask \in Asks, Query(s, ask)
  PROVE  IInv'
  <1>1. user[s] = "none" /\ UNCHANGED <<taken, chain, given>>
        /\ user' = [user EXCEPT ![s] = ask.mode]
        /\ queue' = Append(queue, Action("SEARCH_ADD", s))
    BY DEF Query, Post
  <1>2. s \notin given /\ ~Pending(s) /\ s \notin Chained
    BY <1>1 DEF IInv, CallersInv, Held, Freed, Ended
  <1>3. ask.mode \in {"waiting", "open"}
    BY AsksAssumption
  <1>4. PICK S : queue \in Seq(S)
    BY DEF IInv, CallersInv
  <1> DEFINE a == Action("SEARCH_ADD", s)
  <1>5. IsAdd(a) /\ a.arg = s
    BY DEF IsAdd, Action
  <1>6. queue' = Append(queue, a)
    BY <1>1
  <1> HIDE DEF a
  <1>7. queue \in Seq(S \cup {a}) /\ queue' \in Seq(S \cup {a})
    BY <1>4, <1>6
  <1>8. \A i \in DOMAIN queue' :
          \/ i \in DOMAIN queue /\ queue'[i] = queue[i]
          \/ i \notin DOMAIN queue /\ queue'[i] = a /\ i = Len(queue) + 1
    BY <1>6, <1>7
  <1>9. \A r : Pending(r)' => Pending(r) \/ r = s
    BY <1>1, <1>5, <1>8 DEF Pending
  <1>10. Chained' = Chained
    BY <1>1 DEF Chained
  <1>11. CallersInv'
    BY <1>1, <1>2, <1>3, <1>7 DEF IInv, CallersInv
  <1>12. AddOnce'
    <2>1. \A i \in DOMAIN queue : IsAdd(queue[i]) => queue[i].arg # s
      BY <1>2 DEF Pending
    <2>2. taken # NoAction /\ IsAdd(taken) => taken.arg # s
      BY <1>2 DEF Pending
    <2>3. \A i, j \in DOMAIN queue' :
            IsAdd(queue'[i]) /\ IsAdd(queue'[j]) /\ queue'[i].arg = queue'[j].arg => i = j
      BY <1>5, <1>8, <2>1 DEF IInv, AddOnce
    <2>4. taken # NoAction /\ IsAdd(taken) =>
            \A i \in DOMAIN queue' : IsAdd(queue'[i]) => queue'[i].arg # taken.arg
      BY <1>5, <1>8, <2>2 DEF IInv, AddOnce
    <2>5. \A r : Pending(r)' => r \in Searches /\ r \notin Chained'
      BY <1>2, <1>9, <1>10 DEF IInv, AddOnce
    <2>6. QED
      BY <1>1, <2>3, <2>4, <2>5 DEF AddOnce, IsAdd
  <1>13. Held'
    <2>1. ~Freed(s)'
      BY <1>1, <1>2, <1>3 DEF Freed, Ended, IInv, CallersInv
    <2>2. \A r \in Searches : r # s => (Freed(r)' <=> Freed(r))
      BY <1>1 DEF Freed, Ended, IInv, CallersInv
    <2>3. QED
      BY <1>9, <1>10, <2>1, <2>2 DEF IInv, Held
  <1>14. QED
    BY <1>1, <1>11, <1>12, <1>13 DEF IInv, ChainOnce
(* The caller of a search that has ended frees it, or takes its results:   *)
(* nobody held it.                                                         *)
LEMMA CallerKeeps ==
  ASSUME IInv, NEW s \in Searches, Return(s) \/ GetResults(s) \/ AsyncDelete(s)
  PROVE  IInv'
  <1>1. UNCHANGED <<queue, taken, chain>>
    BY DEF Return, GetResults, AsyncDelete
  <1>2. /\ given' = given \ {s}
        /\ user' = [user EXCEPT ![s] = "none"] \/ user' = [user EXCEPT ![s] = "got"]
    BY DEF Return, GetResults, AsyncDelete, Free
  <1>3. user \in [Searches -> {"none", "waiting", "open", "got"}]
    BY DEF IInv, CallersInv
  <1>4. Freed(s)
    BY DEF Return, GetResults, AsyncDelete, Freed, Ended
  <1>5. CallersInv'
    <2>1. given \subseteq Searches /\ (\A r \in given : user[r] # "none")
          /\ chain \in Seq(Searches) /\ \E S : queue \in Seq(S)
      BY DEF IInv, CallersInv
    <2>2. given' \subseteq Searches /\ \A r \in given' : user'[r] # "none"
      BY <1>2, <1>3, <2>1
    <2>3. QED
      BY <1>1, <1>2, <1>3, <2>1, <2>2 DEF CallersInv
  <1>6. ChainOnce' /\ AddOnce' /\ Chained' = Chained /\ \A r : Pending(r)' <=> Pending(r)
    BY <1>1 DEF IInv, ChainOnce, AddOnce, Chained, Pending
  <1>7. \A r \in Searches : r # s => (Freed(r)' <=> Freed(r))
    BY <1>2, <1>3 DEF Freed, Ended
  <1>8. Held'
    BY <1>4, <1>6, <1>7 DEF IInv, Held
  <1>9. QED
    BY <1>5, <1>6, <1>8 DEF IInv
----------------------------------------------------------------------------
(* An action leaves the queue for the task's hand.                         *)
LEMMA TakeKeeps == IInv /\ Take => IInv'
  <1> SUFFICES ASSUME IInv, Take PROVE IInv'
    OBVIOUS
  <1>1. PICK S : queue \in Seq(S)
    BY DEF IInv, CallersInv
  <1>2. queue # <<>> /\ taken = NoAction /\ taken' = Head(queue) /\ queue' = Tail(queue)
        /\ UNCHANGED <<chain, user, given>>
    BY DEF Take, searchVars
  <1>3. /\ queue' \in Seq(S) /\ 1 \in DOMAIN queue /\ taken' = queue[1]
        /\ \A i \in DOMAIN queue' : i + 1 \in DOMAIN queue /\ queue'[i] = queue[i + 1] /\ i \in Nat /\ i > 0
    BY <1>1, <1>2
  <1>4. \A s : Pending(s)' => Pending(s)
    BY <1>3 DEF Pending, IsAdd
  <1>5. Chained' = Chained /\ (\A s : Freed(s)' <=> Freed(s)) /\ ChainOnce' /\ CallersInv'
    BY <1>2, <1>3 DEF IInv, CallersInv, ChainOnce, Chained, Freed, Ended
  <1>6. AddOnce'
    <2>1. ASSUME NEW i \in DOMAIN queue', NEW j \in DOMAIN queue',
                 IsAdd(queue'[i]), IsAdd(queue'[j]), queue'[i].arg = queue'[j].arg
          PROVE  i = j
      <3>1. i + 1 = j + 1
        BY <1>3, <2>1 DEF IInv, AddOnce
      <3>2. QED
        BY <3>1, <1>3
    <2>2. ASSUME IsAdd(taken'), NEW i \in DOMAIN queue', IsAdd(queue'[i])
          PROVE  queue'[i].arg # taken'.arg
      <3>1. i + 1 # 1
        BY <1>3
      <3>2. QED
        BY <1>3, <2>2, <3>1 DEF IInv, AddOnce
    <2>3. QED
      BY <1>4, <1>5, <2>1, <2>2 DEF IInv, AddOnce, IsAdd
  <1>7. Held'
    BY <1>4, <1>5 DEF IInv, Held
  <1>8. QED
    BY <1>5, <1>6, <1>7 DEF IInv

(* The search that was on its way is in the chain.                         *)
LEMMA SearchAddKeeps == IInv /\ SearchAdd => IInv'
  <1> SUFFICES ASSUME IInv, SearchAdd PROVE IInv'
    OBVIOUS
  <1> DEFINE s == taken.arg
  <1>1. taken # NoAction /\ IsAdd(taken) /\ taken' = NoAction /\ chain' = <<s>> \o chain
        /\ UNCHANGED <<queue, user, given>>
    BY DEF SearchAdd, Execute, IsAdd
  <1>2. Pending(s)
    BY <1>1 DEF Pending
  <1>3. s \in Searches /\ s \notin Chained /\ ~Freed(s)
    BY <1>2 DEF IInv, AddOnce, Held
  <1>4. \A r : Pending(r)' => Pending(r) /\ r # s
    BY <1>1 DEF Pending, IInv, AddOnce, IsAdd
  <1> HIDE DEF s
  <1>5. chain \in Seq(Searches)
    BY DEF IInv, CallersInv
  <1>6. /\ chain' \in Seq(Searches) /\ 1 \in DOMAIN chain' /\ chain'[1] = s
        /\ \A i \in DOMAIN chain' : i \in Nat /\ (i # 1 => i - 1 \in DOMAIN chain /\ chain'[i] = chain[i - 1])
    BY <1>1, <1>3, <1>5
  <1>7. \A r : r \in Chained' => r \in Chained \/ r = s
    BY <1>6 DEF Chained
  <1>8. ChainOnce'
    <2>1. SUFFICES ASSUME NEW i \in DOMAIN chain', NEW j \in DOMAIN chain', chain'[i] = chain'[j]
                   PROVE  i = j
      BY DEF ChainOnce
    <2>2. CASE i # 1 /\ j # 1
      <3>1. i - 1 = j - 1
        BY <1>6, <2>1, <2>2 DEF IInv, ChainOnce
      <3>2. QED
        BY <3>1, <1>6
    <2>3. CASE i = 1 \/ j = 1
      <3>1. \A k \in DOMAIN chain : chain[k] # s
        BY <1>3 DEF Chained
      <3>2. QED
        BY <1>6, <2>1, <2>3, <3>1
    <2>4. QED
      BY <2>2, <2>3
  <1>9. CallersInv'
    BY <1>1, <1>6 DEF IInv, CallersInv
  <1>10. AddOnce'
    BY <1>1, <1>4, <1>7 DEF IInv, AddOnce
  <1>11. Held'
    <2>1. \A r : Freed(r)' <=> Freed(r)
      BY <1>1 DEF Freed, Ended
    <2>2. QED
      BY <1>3, <1>4, <1>7, <2>1 DEF IInv, Held
  <1>12. QED
    BY <1>8, <1>9, <1>10, <1>11 DEF IInv
----------------------------------------------------------------------------
(* queueDetach takes one element out of the chain.                         *)
LEMMA WithoutOne ==
  ASSUME chain \in Seq(Searches), ChainOnce, NEW k \in DOMAIN chain, chain' = Without(k)
  PROVE  /\ chain' \in Seq(Searches) /\ ChainOnce'
         /\ \A r \in Chained' : r \in Chained /\ r # chain[k]
  <1> DEFINE m == Len(chain)
  <1>1. m \in Nat /\ DOMAIN chain = 1..m /\ k \in 1..m /\ m - 1 \in Nat
    OBVIOUS
  <1>2. chain' = [j \in 1..(m - 1) |-> IF j < k THEN chain[j] ELSE chain[j + 1]]
    BY DEF Without
  <1> HIDE DEF m
  <1>3. \A j \in 1..(m - 1) : chain'[j] \in Searches
    BY <1>1, <1>2
  <1>4. chain' \in Seq(Searches) /\ DOMAIN chain' = 1..(m - 1)
    BY <1>1, <1>2, <1>3
  <1> DEFINE at(j) == IF j < k THEN j ELSE j + 1
  <1>moved. ASSUME NEW i \in 1..(m - 1)
        PROVE  at(i) \in 1..m /\ at(i) # k /\ chain'[i] = chain[at(i)]
    BY <1>1, <1>2
  <1>inj. \A i, j \in 1..(m - 1) : at(i) = at(j) => i = j
    BY <1>1
  <1> HIDE DEF at
  <1>5. ASSUME NEW i \in DOMAIN chain', NEW j \in DOMAIN chain', chain'[i] = chain'[j]
        PROVE  i = j
    BY <1>1, <1>4, <1>5, <1>inj, <1>moved DEF ChainOnce
  <1>6. ASSUME NEW i \in DOMAIN chain'
        PROVE  chain'[i] # chain[k] /\ \E j \in DOMAIN chain : chain'[i] = chain[j]
    BY <1>1, <1>4, <1>moved DEF ChainOnce
  <1>7. QED
    BY <1>4, <1>5, <1>6 DEF ChainOnce, Chained

(* search_finish: who is given the semaphore is held by nobody.            *)
LEMMA FinishKeeps ==
  ASSUME IInv, NEW s \in Searches, Finish(s), user[s] # "none", ~Pending(s),
         UNCHANGED <<queue, user>>,
         taken' = taken \/ (~IsAdd(taken) /\ taken' = NoAction)
  PROVE  IInv'
  <1>1. chain \in Seq(Searches) /\ ChainOnce
    BY DEF IInv, CallersInv
  <1>2. /\ chain' \in Seq(Searches) /\ ChainOnce'
        /\ \A r \in Chained' : r \in Chained /\ r # s
    <2>1. CASE s \in Chained
      <3>1. PICK k \in DOMAIN chain : chain[k] = s /\ chain' = Without(k)
        BY <2>1 DEF Finish
      <3>2. QED
        BY <1>1, <3>1, WithoutOne
    <2>2. CASE s \notin Chained
      <3>1. chain' = chain
        BY <2>2 DEF Finish
      <3>2. QED
        BY <1>1, <2>2, <3>1 DEF ChainOnce, Chained
    <2>3. QED
      BY <2>1, <2>2
  <1>3. given' = given \cup {s}
    BY DEF Finish
  <1>4. CallersInv'
    BY <1>2, <1>3 DEF IInv, CallersInv
  <1>5. \A r : Pending(r)' => Pending(r)
    BY DEF Pending, IsAdd
  <1>6. AddOnce'
    BY <1>2, <1>5 DEF IInv, AddOnce
  <1>7. \A r \in Searches : r # s => (Freed(r)' <=> Freed(r))
    BY <1>3 DEF Freed, Ended
  <1>8. Held'
    BY <1>2, <1>5, <1>7 DEF IInv, Held
  <1>9. QED
    BY <1>2, <1>4, <1>6, <1>8 DEF IInv

LEMMA SearchEndKeeps == IInv /\ SearchEnd => IInv'
  <1> SUFFICES ASSUME IInv, SearchEnd PROVE IInv'
    OBVIOUS
  <1> DEFINE s == taken.arg
  <1>1. ~IsAdd(taken) /\ taken' = NoAction /\ UNCHANGED <<queue, user>>
    BY DEF SearchEnd, Execute, IsAdd
  <1>2. CASE s \in Chained \cup Ended
    <2>1. Finish(s)
      BY <1>2 DEF SearchEnd
    <2>2. s \in Searches /\ user[s] # "none" /\ ~Pending(s)
      BY <1>2 DEF IInv, CallersInv, AddOnce, Held, Freed, Ended, Chained
    <2> HIDE DEF s
    <2>3. QED
      BY <1>1, <2>1, <2>2, FinishKeeps
  <1>3. CASE ~(s \in Chained \cup Ended)
    <2>1. Bystander
      BY <1>1, <1>3 DEF SearchEnd, Bystander, OtherPosted
    <2>2. QED
      BY <2>1, BystanderKeeps
  <1>4. QED
    BY <1>2, <1>3

LEMMA ParseDoneKeeps ==
  ASSUME IInv, NEW s \in Searches, ParseDone(s)
  PROVE  IInv'
  <1>1. Finish(s) /\ s \in Chained /\ UNCHANGED <<queue, taken, user>>
    BY DEF ParseDone
  <1>2. user[s] # "none" /\ ~Pending(s)
    BY <1>1 DEF IInv, AddOnce, Held, Freed, Ended
  <1>3. QED
    BY <1>1, <1>2, FinishKeeps
----------------------------------------------------------------------------
LEMMA NextIInv == IInv /\ [Next]_vars => IInv'
  <1> SUFFICES ASSUME IInv, [Next]_vars PROVE IInv'
    OBVIOUS
  <1>1. CASE Application
    BY <1>1, QueryKeeps, CallerKeeps, BystandersKeep DEF Application
  <1>2. CASE Surroundings \/ Timer
    BY <1>2, BystandersKeep
  <1>3. CASE Service
    BY <1>3, TakeKeeps, SearchAddKeeps, SearchEndKeeps, ParseDoneKeeps, BystandersKeep
       DEF Service
  <1>4. CASE UNCHANGED vars
    <2>1. Bystander
      BY <1>4 DEF vars, searchVars, Bystander, OtherPosted
    <2>2. QED
      BY <2>1, BystanderKeeps
  <1>5. QED
    BY <1>1, <1>2, <1>3, <1>4 DEF Next

(* The chain and the queue never hold a search that may be freed.          *)
THEOREM LookupNeverDangles == Spec => []NoDangling
  BY InitIInv, NextIInv, IInvHolds, PTL DEF Spec
----------------------------------------------------------------------------
(* A packet comes to the parser with no search kept, and as long as it has *)
(* records to come the searches it keeps are in the chain: the lock lets   *)
(* none of them leave.                                                     *)
IsRx(a) == a.type = "RX_HANDLE"
KeepsNone(a) == IsRx(a) => a.arg.kept = {}

Pointed ==
  /\ \A i \in DOMAIN queue : KeepsNone(queue[i])
  /\ taken # NoAction /\ IsRx(taken) /\ taken.arg.todo # <<>> => taken.arg.kept \subseteq Chained

LEMMA TakersChained ==
  ASSUME Pointed, ParseRecord
  PROVE  Takers(Head(taken.arg.todo)) \subseteq Chained
  <1> DEFINE rec == Head(taken.arg.todo)
  <1>1. taken # NoAction /\ IsRx(taken) /\ taken.arg.todo # <<>>
    BY DEF ParseRecord, Parsing, IsRx
  <1>2. taken.arg.kept \subseteq Chained
    BY <1>1 DEF Pointed
  <1> HIDE DEF rec
  <1>3. Hearers(rec) \subseteq Chained /\ Later(rec) \subseteq Chained
    BY DEF Hearers, Later, Chained
  <1>4. QED
    BY <1>2, <1>3 DEF Takers, rec

LEMMA PointedKept ==
  ASSUME IInv, Pointed,
         UNCHANGED queue \/ \E a : KeepsNone(a) /\ queue' = Append(queue, a),
         (UNCHANGED <<taken, chain>>) \/ taken' = NoAction
  PROVE  Pointed'
  <1>1. PICK S : queue \in Seq(S)
    BY DEF IInv, CallersInv
  <1>2. \A i \in DOMAIN queue' : KeepsNone(queue'[i])
    <2>1. CASE UNCHANGED queue
      BY <2>1 DEF Pointed
    <2>2. CASE \E a : KeepsNone(a) /\ queue' = Append(queue, a)
      <3>1. PICK a : KeepsNone(a) /\ queue' = Append(queue, a)
        BY <2>2
      <3>2. queue \in Seq(S \cup {a}) /\ queue' \in Seq(S \cup {a})
        BY <1>1, <3>1
      <3>3. \A i \in DOMAIN queue' : queue'[i] = a \/ (i \in DOMAIN queue /\ queue'[i] = queue[i])
        BY <3>1, <3>2
      <3>4. QED
        BY <3>1, <3>3 DEF Pointed
    <2>3. QED
      BY <2>1, <2>2
  <1>3. QED
    BY <1>2 DEF Pointed, KeepsNone, IsRx, Chained

LEMMA InitPointed == Init => Pointed
  BY DEF Init, Pointed

LEMMA NextPointed == IInv /\ Pointed /\ [Next]_vars => Pointed'
  <1> SUFFICES ASSUME IInv, Pointed, [Next]_vars PROVE Pointed'
    OBVIOUS
  <1> DEFINE Posted == UNCHANGED queue \/ \E a : KeepsNone(a) /\ queue' = Append(queue, a)
  <1>1. CASE Application
    <2>1. Posted
      BY <1>1 DEF Application, Query, Return, GetResults, AsyncDelete, BrowseNew, BrowseDelete,
         Post, Action, KeepsNone, IsRx
    <2>2. UNCHANGED <<taken, chain>>
      BY <1>1 DEF Application, Query, Return, GetResults, AsyncDelete, BrowseNew, BrowseDelete,
         searchVars
    <2>3. QED
      BY <2>1, <2>2, PointedKept
  <1>2. CASE Surroundings
    <2>1. ASSUME NEW p \in Packets, Receive(p)
          PROVE  Pointed'
      <3>1. KeepsNone(Action("RX_HANDLE", Unparsed(p)))
        BY DEF Action, Unparsed, KeepsNone
      <3>2. Posted
        BY <2>1, <3>1 DEF Receive
      <3>3. UNCHANGED <<taken, chain>>
        BY <2>1 DEF Receive, searchVars
      <3>4. QED
        BY <3>2, <3>3, PointedKept
    <2>2. ASSUME NEW s \in Searches, TimeoutPasses(s)
          PROVE  Pointed'
      BY <2>2, PointedKept DEF TimeoutPasses
    <2>3. QED
      BY <1>2, <2>1, <2>2 DEF Surroundings
  <1>3. CASE Timer
    <2>1. PICK s \in Searches : VisitOff(s) \/ VisitLate(s) \/ VisitSend(s) \/ VisitRunning(s)
      BY <1>3 DEF Timer
    <2>2. UNCHANGED <<taken, chain>>
      BY <2>1 DEF VisitOff, VisitLate, VisitSend, VisitRunning, Visit
    <2>3. Posted
      BY <2>1 DEF VisitOff, VisitLate, VisitSend, VisitRunning, Action, KeepsNone, IsRx
    <2>4. QED
      BY <2>2, <2>3, PointedKept
  <1>4. CASE Take
    <2>1. PICK S : queue \in Seq(S)
      BY DEF IInv, CallersInv
    <2>2. queue # <<>> /\ taken' = Head(queue) /\ queue' = Tail(queue)
      BY <1>4 DEF Take
    <2>3. /\ 1 \in DOMAIN queue /\ taken' = queue[1]
          /\ \A i \in DOMAIN queue' : i + 1 \in DOMAIN queue /\ queue'[i] = queue[i + 1]
      BY <2>1, <2>2
    <2>4. QED
      BY <2>3 DEF Pointed, KeepsNone, IsRx
  <1>5. CASE SearchAdd \/ SearchSend \/ SearchEnd \/ BrowseAddRun \/ BrowseEnd
    <2>1. taken' = NoAction /\ UNCHANGED queue
      BY <1>5 DEF SearchAdd, SearchSend, SearchEnd, BrowseAddRun, BrowseEnd, Execute
    <2>2. QED
      BY <2>1, PointedKept
  <1>6. CASE BrowseSync \/ ParseNull
    <2>1. (UNCHANGED <<taken, chain>> \/ taken' = NoAction) /\ UNCHANGED queue
      BY <1>6 DEF BrowseSync, ParseNull, searchVars
    <2>2. QED
      BY <2>1, PointedKept
  <1>7. CASE ParseRecord
    <2> DEFINE rec == Head(taken.arg.todo)
               told2 == IF Browses(rec) /\ rec.type # "PTR" /\ ~Dropped(rec)
                        THEN taken.arg.told \cup BrowseAdd(browse.results, Browsed(rec)).told
                        ELSE taken.arg.told
               kept2 == IF rec.type = "A" THEN {} ELSE Takers(rec)
    <2>1. UNCHANGED <<queue, chain>>
      BY <1>7 DEF ParseRecord
    <2>2. kept2 \subseteq Chained
      BY <1>7, TakersChained
    <2>3. taken'.arg.kept \in {kept2, taken.arg.kept}
      <3> DEFINE b == Browses(rec)
                 n == Instance(rec)
                 x == taken.arg
                 t == Tail(x.todo)
      <3>1. taken' = Action("RX_HANDLE", [x EXCEPT !.todo = t, !.told = told2,
                                                   !.kept = kept2, !.mine = b, !.inst = n])
        BY <1>7 DEF ParseRecord
      <3> HIDE DEF told2, kept2, b, n, x, t
      <3>2. taken'.arg = [x EXCEPT !.todo = t, !.told = told2, !.kept = kept2, !.mine = b, !.inst = n]
        BY <3>1 DEF Action
      <3>3. QED
        BY <3>2 DEF x
    <2>4. taken.arg.kept \subseteq Chained
      BY <1>7 DEF Pointed, ParseRecord, Parsing, IsRx
    <2> HIDE DEF rec, kept2
    <2>5. QED
      BY <2>1, <2>2, <2>3, <2>4 DEF Pointed, KeepsNone, IsRx, Chained
  <1>8. CASE ParseEnd
    <2>1. taken' = NoAction
      BY <1>8 DEF ParseEnd
    <2>2. Posted
      BY <1>8 DEF ParseEnd, Action, KeepsNone, IsRx
    <2>3. QED
      BY <2>1, <2>2, PointedKept
  <1>9. CASE \E s \in Searches : ParseDone(s)
    <2>1. taken.arg.todo = <<>> /\ UNCHANGED <<queue, taken>>
      BY <1>9 DEF ParseDone
    <2>2. QED
      BY <2>1 DEF Pointed, KeepsNone, IsRx
  <1>10. CASE UNCHANGED vars
    BY <1>10, PointedKept DEF vars, searchVars
  <1>11. QED
    BY <1>1, <1>2, <1>3, <1>4, <1>5, <1>6, <1>7, <1>8, <1>9, <1>10 DEF Next, Service
----------------------------------------------------------------------------
(* A list of results after a record: as long as before, or one longer      *)
(* where there was room.                                                   *)
IsSeq(rs) == \E S : rs \in Seq(S)

Kept(rs, rs2) == IsSeq(rs2) /\ Len(rs2) = Len(rs)

Grew(ask, rs, rs2) ==
  /\ IsSeq(rs2)
  /\ Len(rs2) = Len(rs) \/ (HasRoom(ask, rs) /\ Len(rs2) = Len(rs) + 1)

LEMMA AmendedLen ==
  ASSUME NEW rs, IsSeq(rs), NEW i, NEW v
  PROVE  Kept(rs, [rs EXCEPT ![i] = v])
  <1>1. PICK S : rs \in Seq(S)
    BY DEF IsSeq
  <1> DEFINE m == Len(rs)
             T == S \cup {v}
             rs2 == [rs EXCEPT ![i] = v]
  <1>2. m \in Nat /\ rs \in [1..m -> T]
    BY <1>1
  <1> HIDE DEF m, T
  <1>3. v \in T
    BY DEF T
  <1>4. rs2 \in [1..m -> T]
    BY <1>2, <1>3
  <1> HIDE DEF rs2
  <1>5. rs2 \in Seq(T) /\ Len(rs2) = m
    BY <1>2, <1>4
  <1>6. QED
    BY <1>5 DEF IsSeq, Kept, m, rs2

LEMMA GrownLen ==
  ASSUME NEW ask, NEW rs, IsSeq(rs), NEW r
  PROVE  Grew(ask, rs, Grown(ask, rs, r))
  <1>1. PICK S : rs \in Seq(S)
    BY DEF IsSeq
  <1>2. rs \in Seq(S \cup {r}) /\ <<r>> \in Seq(S \cup {r})
    BY <1>1
  <1>3. <<r>> \o rs \in Seq(S \cup {r}) /\ Len(<<r>> \o rs) = Len(rs) + 1
    BY <1>2
  <1>4. QED
    BY <1>1, <1>3 DEF IsSeq, Grew, Grown

LEMMA AddPtrLen ==
  ASSUME NEW ask, NEW rs, IsSeq(rs), NEW inst, NEW ttl
  PROVE  Grew(ask, rs, AddPtr(ask, rs, inst, ttl))
  <1> DEFINE i == CHOOSE i \in DOMAIN rs :
                    rs[i].inst = inst /\ \A j \in 1..(i - 1) : ~(rs[j].inst = inst)
             v == Heard(rs[i], ttl)
             es == Grown(ask, rs, NewResult(inst, NoName, NoName, {}, ttl))
  <1>1. AddPtr(ask, rs, inst, ttl) =
          IF \E j \in DOMAIN rs : rs[j].inst = inst THEN [rs EXCEPT ![i] = v] ELSE es
    BY DEF AddPtr, Amended, First, Has
  <1>2. Grew(ask, rs, es)
    BY GrownLen
  <1> HIDE DEF i, v, es
  <1>3. Kept(rs, [rs EXCEPT ![i] = v])
    BY AmendedLen
  <1>4. QED
    BY <1>1, <1>2, <1>3 DEF Grew, Kept

LEMMA EnteredLen ==
  ASSUME NEW ask, NEW rs, IsSeq(rs), NEW rec
  PROVE  Grew(ask, rs, Entered(ask, rs, rec))
  BY AddPtrLen DEF Entered, Grew

LEMMA CompletedLen ==
  ASSUME NEW rs, IsSeq(rs), NEW rec
  PROVE  Kept(rs, Completed(rs, rec))
  <1> DEFINE i == CHOOSE i \in DOMAIN rs :
                    rs[i].inst = rec.name /\ \A j \in 1..(i - 1) : ~(rs[j].inst = rec.name)
             v == Complete(rs[i], rec)
             es == rs
  <1>1. Completed(rs, rec) =
          IF \E j \in DOMAIN rs : rs[j].inst = rec.name THEN [rs EXCEPT ![i] = v] ELSE es
    BY DEF Completed, Amended, First, Has
  <1>2. Kept(rs, es)
    BY DEF Kept
  <1> HIDE DEF i, v, es
  <1>3. Kept(rs, [rs EXCEPT ![i] = v])
    BY AmendedLen
  <1>4. QED
    BY <1>1, <1>2, <1>3

LEMMA AddSrvLen ==
  ASSUME NEW ask, NEW rs, IsSeq(rs), NEW rec
  PROVE  Grew(ask, rs, AddSrv(ask, rs, rec))
  <1> DEFINE es == Entered(ask, rs, rec)
             cs == Completed(es, rec)
  <1>1. ask.type = "PTR" => AddSrv(ask, rs, rec) = cs
    BY DEF AddSrv
  <1>2. Grew(ask, rs, es)
    BY EnteredLen
  <1>3. Kept(es, cs)
    <2> HIDE DEF es
    <2>1. QED
      BY <1>2, CompletedLen DEF Grew
  <1> HIDE DEF cs, es
  <1>4. CASE ask.type = "PTR"
    BY <1>1, <1>2, <1>3, <1>4 DEF Grew, Kept
  <1>5. CASE ask.type # "PTR"
    <2> DEFINE i == CHOOSE i \in DOMAIN rs :
                      rs[i].host = rec.target /\ \A j \in 1..(i - 1) : ~(rs[j].host = rec.target)
               v == Heard(rs[i], rec.ttl)
               gs == Grown(ask, rs, NewResult(ask.name, rec.target, NoName, {}, rec.ttl))
    <2>1. AddSrv(ask, rs, rec) =
          IF \E j \in DOMAIN rs : rs[j].host = rec.target THEN [rs EXCEPT ![i] = v] ELSE gs
      BY <1>5 DEF AddSrv, Amended, First, Has
    <2>2. Grew(ask, rs, gs)
      BY GrownLen
    <2> HIDE DEF i, v, gs
    <2>3. Kept(rs, [rs EXCEPT ![i] = v])
      BY AmendedLen
    <2>4. QED
      BY <2>1, <2>2, <2>3 DEF Grew, Kept
  <1>6. QED
    BY <1>4, <1>5

LEMMA AddTxtLen ==
  ASSUME NEW ask, NEW rs, IsSeq(rs), NEW rec
  PROVE  Grew(ask, rs, AddTxt(ask, rs, rec))
  <1> DEFINE es == Entered(ask, rs, rec)
             cs == Completed(es, rec)
  <1>1. ask.type = "PTR" => AddTxt(ask, rs, rec) = cs
    BY DEF AddTxt
  <1>2. Grew(ask, rs, es)
    BY EnteredLen
  <1>3. Kept(es, cs)
    <2> HIDE DEF es
    <2>1. QED
      BY <1>2, CompletedLen DEF Grew
  <1> HIDE DEF cs, es
  <1>4. CASE ask.type = "PTR"
    BY <1>1, <1>2, <1>3, <1>4 DEF Grew, Kept
  <1>5. CASE ask.type # "PTR"
    <2>1. CASE rs # <<>>
      <3>1. AddTxt(ask, rs, rec) = [rs EXCEPT ![1] = FilledAndHeard(rs[1], rec)]
        BY <1>5, <2>1 DEF AddTxt
      <3>2. Kept(rs, [rs EXCEPT ![1] = FilledAndHeard(rs[1], rec)])
        <4> DEFINE v == FilledAndHeard(rs[1], rec)
        <4> HIDE DEF v
        <4>1. Kept(rs, [rs EXCEPT ![1] = v])
          BY AmendedLen
        <4>2. QED
          BY <4>1 DEF v
      <3>3. QED
        BY <3>1, <3>2 DEF Grew, Kept
    <2>2. CASE rs = <<>>
      BY <1>5, <2>2, GrownLen DEF AddTxt
    <2>3. QED
      BY <2>1, <2>2
  <1>6. QED
    BY <1>4, <1>5

LEMMA AddIpLen ==
  ASSUME NEW ask, NEW rs, IsSeq(rs), NEW rec
  PROVE  Grew(ask, rs, AddIp(ask, rs, rec))
  <1>1. CASE ask.type \in {"A", "ANY"} /\ rs # <<>>
    <2>1. AddIp(ask, rs, rec) = [rs EXCEPT ![1] = Reached(rs[1], rec)]
      BY <1>1 DEF AddIp
    <2>2. Kept(rs, [rs EXCEPT ![1] = Reached(rs[1], rec)])
      <3> DEFINE v == Reached(rs[1], rec)
      <3> HIDE DEF v
      <3>1. Kept(rs, [rs EXCEPT ![1] = v])
        BY AmendedLen
      <3>2. QED
        BY <3>1 DEF v
    <2>3. QED
      BY <2>1, <2>2 DEF Grew, Kept
  <1>2. CASE ask.type \in {"A", "ANY"} /\ rs = <<>>
    BY <1>2, GrownLen DEF AddIp
  <1>3. CASE ask.type \notin {"A", "ANY"}
    <2> DEFINE i == CHOOSE i \in DOMAIN rs :
                      rs[i].host = rec.name /\ \A j \in 1..(i - 1) : ~(rs[j].host = rec.name)
               v == Reached(rs[i], rec)
               gs == rs
    <2>1. AddIp(ask, rs, rec) =
          IF \E j \in DOMAIN rs : rs[j].host = rec.name THEN [rs EXCEPT ![i] = v] ELSE gs
      BY <1>3 DEF AddIp, Amended, First, Has
    <2>2. Grew(ask, rs, gs)
      BY GrownLen DEF Grew
    <2> HIDE DEF i, v, gs
    <2>3. Kept(rs, [rs EXCEPT ![i] = v])
      BY AmendedLen
    <2>4. QED
      BY <2>1, <2>2, <2>3 DEF Grew, Kept
  <1>4. QED
    BY <1>1, <1>2, <1>3

(* Whatever record comes, a search gets at most one more result, and never *)
(* more than it asked for.                                                 *)
LEMMA AddRecordLen ==
  ASSUME NEW ask, NEW rs, IsSeq(rs), NEW rec
  PROVE  Grew(ask, rs, AddRecord(ask, rs, rec))
  BY AddPtrLen, AddIpLen, AddSrvLen, AddTxtLen DEF AddRecord

----------------------------------------------------------------------------
(* What the refinement needs beyond IInv: the shape of a search, the       *)
(* timer's place, and where a SEARCH_END may come from.                    *)
BlankAsk == Blank.ask

Shaped(x) ==
  /\ x = [state |-> x.state, ask |-> x.ask, results |-> x.results, misled |-> x.misled]
  /\ x.ask \in Asks \cup {BlankAsk}
  /\ IsSeq(x.results)

Shape ==
  /\ search = [s \in Searches |-> search[s]]
  /\ \A s \in Searches : Shaped(search[s]) /\ (user[s] = "none" => search[s] = Blank)

TimerPlace == IF lock = "timer" THEN pos \in 2..Len(chain) ELSE pos = 1

(* A SEARCH_END is of a search whose timeout has passed, or of one that    *)
(* has ended: if its memory is a search again, that is not yet in the      *)
(* chain, and its SEARCH_ADD comes later.                                  *)
IsEnd(a) == a.type = "SEARCH_END"

Ends ==
  /\ \A i \in DOMAIN queue : IsEnd(queue[i]) =>
       \/ queue[i].arg \in late
       \/ /\ queue[i].arg \notin Chained
          /\ taken # NoAction /\ IsAdd(taken) => taken.arg # queue[i].arg
          /\ \A j \in DOMAIN queue : j < i /\ IsAdd(queue[j]) => queue[j].arg # queue[i].arg
  /\ taken # NoAction /\ IsEnd(taken) => taken.arg \in late \/ taken.arg \notin Chained

RInv == IInv /\ Shape /\ TimerPlace /\ Ends

LEMMA BlankIsShaped == Shaped(Blank) /\ Len(Blank.results) = 0 /\ Blank.ask.max = 0 /\ Blank.state = "OFF"
  <1>1. Blank.results = <<>> /\ <<>> \in Seq({})
    BY DEF Blank, NewSearch
  <1>2. Blank = [state |-> Blank.state, ask |-> Blank.ask, results |-> Blank.results,
                 misled |-> Blank.misled]
    BY DEF Blank, NewSearch
  <1>3. QED
    BY <1>1, <1>2 DEF Blank, NewSearch, Shaped, BlankAsk, IsSeq, Ask

LEMMA InitRInv == Init => RInv
  <1> SUFFICES ASSUME Init PROVE RInv
    OBVIOUS
  <1>1. Shape
    BY BlankIsShaped DEF Init, Shape
  <1>2. TimerPlace /\ Ends
    BY DEF Init, TimerPlace, Ends
  <1>3. QED
    BY <1>1, <1>2, InitIInv DEF RInv
----------------------------------------------------------------------------
(* Ends: whatever is posted, an action is dropped, searches leave the      *)
(* chain and time passes or is forgotten with a search nobody holds.       *)
LEMMA EndsKept ==
  ASSUME IInv, Ends,
         \/ UNCHANGED queue
         \/ \E a : (IsEnd(a) => a.arg \in late') /\ queue' = Append(queue, a),
         taken' = taken \/ taken' = NoAction \/ (~IsAdd(taken') /\ ~IsEnd(taken')),
         \A r \in Chained' : r \in Chained,
         \A r \in late : r \in late' \/ (r \notin Chained /\ ~Pending(r))
  PROVE  Ends'
  <1>1. PICK S : queue \in Seq(S)
    BY DEF IInv, CallersInv
  <1>2. ASSUME NEW i \in DOMAIN queue', IsEnd(queue'[i])
        PROVE  \/ queue'[i].arg \in late'
               \/ i \in DOMAIN queue /\ queue'[i] = queue[i]
    <2>1. CASE UNCHANGED queue
      BY <2>1
    <2>2. CASE \E a : (IsEnd(a) => a.arg \in late') /\ queue' = Append(queue, a)
      <3>1. PICK a : (IsEnd(a) => a.arg \in late') /\ queue' = Append(queue, a)
        BY <2>2
      <3>2. queue \in Seq(S \cup {a}) /\ queue' \in Seq(S \cup {a})
        BY <1>1, <3>1
      <3>3. queue'[i] = a \/ (i \in DOMAIN queue /\ queue'[i] = queue[i])
        BY <3>1, <3>2
      <3>4. QED
        BY <1>2, <3>1, <3>3
    <2>3. QED
      BY <2>1, <2>2
  <1>3. ASSUME NEW i \in DOMAIN queue, NEW j \in DOMAIN queue', j < i
        PROVE  j \in DOMAIN queue /\ queue'[j] = queue[j]
    <2>1. CASE UNCHANGED queue
      BY <2>1
    <2>2. CASE \E a : (IsEnd(a) => a.arg \in late') /\ queue' = Append(queue, a)
      <3>1. PICK a : queue' = Append(queue, a)
        BY <2>2
      <3>2. queue \in Seq(S \cup {a}) /\ queue' \in Seq(S \cup {a})
        BY <1>1, <3>1
      <3>3. QED
        BY <1>3, <3>1, <3>2
    <2>3. QED
      BY <2>1, <2>2
  <1>4. ASSUME NEW i \in DOMAIN queue', IsEnd(queue'[i])
        PROVE  \/ queue'[i].arg \in late'
               \/ /\ queue'[i].arg \notin Chained'
                  /\ taken' # NoAction /\ IsAdd(taken') => taken'.arg # queue'[i].arg
                  /\ \A j \in DOMAIN queue' : j < i /\ IsAdd(queue'[j]) => queue'[j].arg # queue'[i].arg
    <2> SUFFICES ASSUME queue'[i].arg \notin late'
                 PROVE  /\ queue'[i].arg \notin Chained'
                        /\ taken' # NoAction /\ IsAdd(taken') => taken'.arg # queue'[i].arg
                        /\ \A j \in DOMAIN queue' : j < i /\ IsAdd(queue'[j]) => queue'[j].arg # queue'[i].arg
      OBVIOUS
    <2> DEFINE r == queue'[i].arg
    <2>1. i \in DOMAIN queue /\ queue'[i] = queue[i] /\ IsEnd(queue[i])
      BY <1>2, <1>4
    <2>2. /\ r \notin Chained
          /\ taken # NoAction /\ IsAdd(taken) => taken.arg # r
          /\ \A j \in DOMAIN queue : j < i /\ IsAdd(queue[j]) => queue[j].arg # r
      BY <2>1 DEF Ends, Pending
    <2>3. QED
      BY <1>3, <2>1, <2>2
  <1>5. taken' # NoAction /\ IsEnd(taken') => taken'.arg \in late' \/ taken'.arg \notin Chained'
    BY DEF Ends
  <1>6. QED
    BY <1>4, <1>5 DEF Ends, IsAdd, IsEnd

(* An action leaves the queue for the task's hand: those before it are     *)
(* now in its hand, or gone.                                               *)
LEMMA EndsTaken == IInv /\ Ends /\ Take => Ends'
  <1> SUFFICES ASSUME IInv, Ends, Take PROVE Ends'
    OBVIOUS
  <1>1. PICK S : queue \in Seq(S)
    BY DEF IInv, CallersInv
  <1>2. queue # <<>> /\ taken' = Head(queue) /\ queue' = Tail(queue)
        /\ UNCHANGED <<chain, late>>
    BY DEF Take, searchVars
  <1>3. /\ queue' \in Seq(S) /\ 1 \in DOMAIN queue /\ taken' = queue[1]
        /\ \A i \in DOMAIN queue' : i + 1 \in DOMAIN queue /\ queue'[i] = queue[i + 1] /\ i \in Nat /\ i > 0
    BY <1>1, <1>2
  <1>4. Chained' = Chained
    BY <1>2 DEF Chained
  <1>5. ASSUME NEW i \in DOMAIN queue', IsEnd(queue'[i]), queue'[i].arg \notin late'
        PROVE  /\ queue'[i].arg \notin Chained'
               /\ IsAdd(taken') => taken'.arg # queue'[i].arg
               /\ \A j \in DOMAIN queue' : j < i /\ IsAdd(queue'[j]) => queue'[j].arg # queue'[i].arg
    <2>1. /\ queue[i + 1].arg \notin Chained
          /\ \A j \in DOMAIN queue : j < i + 1 /\ IsAdd(queue[j]) => queue[j].arg # queue[i + 1].arg
      BY <1>2, <1>3, <1>5 DEF Ends
    <2>2. 1 < i + 1
      BY <1>3
    <2>3. \A j \in DOMAIN queue' : j < i => j + 1 < i + 1
      BY <1>3
    <2>4. QED
      BY <1>3, <1>4, <2>1, <2>2, <2>3
  <1>6. IsEnd(taken') => taken'.arg \in late' \/ taken'.arg \notin Chained'
    BY <1>2, <1>3, <1>4 DEF Ends
  <1>7. QED
    BY <1>5, <1>6 DEF Ends, IsAdd, IsEnd

LEMMA EndsAdded == IInv /\ Ends /\ SearchAdd => Ends'
  <1> SUFFICES ASSUME IInv, Ends, SearchAdd PROVE Ends'
    OBVIOUS
  <1> DEFINE s == taken.arg
  <1>1. taken # NoAction /\ IsAdd(taken) /\ taken' = NoAction /\ chain' = <<s>> \o chain
        /\ UNCHANGED <<queue, late>>
    BY DEF SearchAdd, Execute, IsAdd
  <1>2. Pending(s)
    BY <1>1 DEF Pending
  <1>3. s \in Searches /\ chain \in Seq(Searches)
    BY <1>2 DEF IInv, CallersInv, AddOnce
  <1>4. \A r : r \in Chained' => r \in Chained \/ r = s
    <2> HIDE DEF s
    <2>1. /\ chain' \in Seq(Searches) /\ chain'[1] = s
          /\ \A i \in DOMAIN chain' : i # 1 => i - 1 \in DOMAIN chain /\ chain'[i] = chain[i - 1]
      BY <1>1, <1>3
    <2>2. QED
      BY <2>1 DEF Chained
  <1>5. QED
    BY <1>1, <1>4 DEF Ends
----------------------------------------------------------------------------
(* What a caller sees of the searches, and the steps of MdnsSearchApi in   *)
(* these terms.                                                            *)
Cnt(s) == Len(search[s].results)
Mx(s) == search[s].ask.max

SameFor(s) == Phase(s)' = Phase(s) /\ Cnt(s)' = Cnt(s) /\ Mx(s)' = Mx(s)

ApiStep == Api!Next \/ UNCHANGED Api!vars

LEMMA Stutters ==
  ASSUME \A s \in Searches : SameFor(s), UNCHANGED late
  PROVE  ApiStep
  BY DEF SameFor, Cnt, Mx, ApiStep, Api!vars

LEMMA Starts ==
  ASSUME NEW s \in Searches, NEW ask \in Asks, UNCHANGED late,
         \A r \in Searches : r # s => SameFor(r),
         Phase(s) = "none", Phase(s)' = "pending", Cnt(s)' = Cnt(s), Mx(s)' = ask.max
  PROVE  ApiStep
  <1>1. Api!Start(s, ask.max)
    BY DEF SameFor, Cnt, Mx, Api!Start
  <1>2. QED
    BY <1>1 DEF ApiStep, Api!Next

LEMMA Finishes ==
  ASSUME NEW s \in Searches, UNCHANGED late,
         \A r \in Searches : r # s => SameFor(r),
         Phase(s) = "pending", Phase(s)' = "done", Cnt(s)' = Cnt(s), Mx(s)' = Mx(s),
         s \in late \/ (Mx(s) > 0 /\ Cnt(s) >= Mx(s))
  PROVE  ApiStep
  <1>1. Api!Finish(s)
    BY DEF SameFor, Cnt, Mx, Api!Finish
  <1>2. QED
    BY <1>1 DEF ApiStep, Api!Next

LEMMA Collects ==
  ASSUME NEW s \in Searches, late' = late \ {s},
         \A r \in Searches : r # s => SameFor(r),
         Phase(s) = "done", Phase(s)' = "none", Cnt(s)' = 0, Mx(s)' = 0
  PROVE  ApiStep
  <1>1. Api!Collect(s)
    BY DEF SameFor, Cnt, Mx, Api!Collect
  <1>2. QED
    BY <1>1 DEF ApiStep, Api!Next

LEMMA TimePassing ==
  ASSUME NEW s \in Searches, late' = late \cup {s},
         \A r \in Searches : SameFor(r), Phase(s) # "none"
  PROVE  ApiStep
  <1>1. Api!TimePasses(s)
    BY DEF SameFor, Cnt, Mx, Api!TimePasses
  <1>2. QED
    BY <1>1 DEF ApiStep, Api!Next

LEMMA RecordFound ==
  ASSUME NEW S \in SUBSET Searches, UNCHANGED late,
         \A r \in Searches : Phase(r)' = Phase(r) /\ Mx(r)' = Mx(r),
         \A r \in Searches : Cnt(r)' = IF r \in S THEN Cnt(r) + 1 ELSE Cnt(r),
         \A r \in S : Phase(r) = "pending" /\ (Mx(r) = 0 \/ Cnt(r) < Mx(r))
  PROVE  ApiStep
  <1>1. Api!Found(S)
    BY DEF SameFor, Cnt, Mx, Api!Found
  <1>2. QED
    BY <1>1 DEF ApiStep, Api!Next
----------------------------------------------------------------------------
(* A state is set: the rest of the memory of the searches stays.           *)
LEMMA Restated ==
  ASSUME Shape, NEW s \in Searches, NEW v, search' = [search EXCEPT ![s].state = v],
         user[s] # "none", UNCHANGED user
  PROVE  Shape' /\ \A r \in Searches : Cnt(r)' = Cnt(r) /\ Mx(r)' = Mx(r)
  <1> DEFINE x == search[s]
             y == [x EXCEPT !.state = v]
  <1>1. search = [r \in Searches |-> search[r]] /\ Shaped(x)
    BY DEF Shape
  <1>2. Shaped(y) /\ y.ask = x.ask /\ y.results = x.results
    <2>1. x = [state |-> x.state, ask |-> x.ask, results |-> x.results, misled |-> x.misled]
      BY <1>1 DEF Shaped
    <2>2. y = [state |-> v, ask |-> x.ask, results |-> x.results, misled |-> x.misled]
      BY <2>1
    <2> HIDE DEF y, x
    <2>3. y.state = v /\ y.ask = x.ask /\ y.results = x.results
      BY <2>2
    <2>4. QED
      BY <1>1, <2>2, <2>3 DEF Shaped
  <1>3. search' = [search EXCEPT ![s] = y]
    BY <1>1
  <1> HIDE DEF x, y
  <1>4. search' = [r \in Searches |-> IF r = s THEN y ELSE search[r]]
    BY <1>1, <1>3
  <1>5. search'[s] = y /\ \A r \in Searches : r # s => search'[r] = search[r]
    BY <1>4
  <1>6. \A r \in Searches : search'[r].ask = search[r].ask /\ search'[r].results = search[r].results
    BY <1>2, <1>5 DEF x
  <1>7. search' = [r \in Searches |-> search'[r]]
    BY <1>4
  <1>8. \A r \in Searches : Shaped(search'[r]) /\ (user'[r] = "none" => search'[r] = Blank)
    BY <1>2, <1>5 DEF Shape
  <1>9. QED
    BY <1>6, <1>7, <1>8 DEF Shape, Cnt, Mx

(* A search is set anew, by its caller.                                    *)
LEMMA Rewritten ==
  ASSUME Shape, NEW s \in Searches, NEW x, search' = [search EXCEPT ![s] = x],
         Shaped(x), \A r \in Searches : r # s => user'[r] = user[r],
         user'[s] = "none" => x = Blank
  PROVE  Shape' /\ search'[s] = x /\ \A r \in Searches : r # s => search'[r] = search[r]
  <1>1. search = [r \in Searches |-> search[r]]
    BY DEF Shape
  <1>2. search' = [r \in Searches |-> IF r = s THEN x ELSE search[r]]
    BY <1>1
  <1>3. search'[s] = x /\ (\A r \in Searches : r # s => search'[r] = search[r])
        /\ search' = [r \in Searches |-> search'[r]]
    BY <1>2
  <1>4. QED
    BY <1>3 DEF Shape
----------------------------------------------------------------------------
(* The applications.                                                       *)
LEMMA QuerySim ==
  ASSUME RInv, NEW s \in Searches, NEW ask \in Asks, Query(s, ask)
  PROVE  Shape' /\ TimerPlace' /\ Ends' /\ ApiStep
  <1> USE DEF RInv
  <1>1. /\ user[s] = "none" /\ UNCHANGED <<taken, chain, given, late, lock, pos>>
        /\ user' = [user EXCEPT ![s] = ask.mode]
        /\ queue' = Append(queue, Action("SEARCH_ADD", s))
        /\ search' = [search EXCEPT ![s] = NewSearch("INIT", ask)]
    BY DEF Query, Post
  <1>2. user \in [Searches -> {"none", "waiting", "open", "got"}] /\ s \notin given
    BY <1>1 DEF IInv, CallersInv
  <1>3. ask.mode \in {"waiting", "open"} /\ ask.max \in Nat
    BY AsksAssumption
  <1> DEFINE x == NewSearch("INIT", ask)
  <1>4. Shaped(x) /\ x.ask = ask /\ Len(x.results) = 0
    <2>1. <<>> \in Seq({})
      OBVIOUS
    <2>2. x.state = "INIT" /\ x.ask = ask /\ x.results = <<>>
          /\ x = [state |-> x.state, ask |-> x.ask, results |-> x.results, misled |-> x.misled]
      BY DEF NewSearch
    <2>3. QED
      BY <2>1, <2>2 DEF Shaped, IsSeq
  <1>5. search' = [search EXCEPT ![s] = x]
    BY <1>1
  <1> HIDE DEF x
  <1>6. /\ user'[s] = ask.mode /\ \A r \in Searches : r # s => user'[r] = user[r]
    BY <1>1, <1>2
  <1>7. Shape' /\ search'[s] = x /\ \A r \in Searches : r # s => search'[r] = search[r]
    BY <1>3, <1>4, <1>5, <1>6, Rewritten
  <1>8. Ends'
    <2>1. ~IsEnd(Action("SEARCH_ADD", s))
      BY DEF IsEnd, Action
    <2>2. \E a : (IsEnd(a) => a.arg \in late') /\ queue' = Append(queue, a)
      BY <1>1, <2>1
    <2>3. Chained' = Chained
      BY <1>1 DEF Chained
    <2>4. QED
      BY <1>1, <2>2, <2>3, EndsKept
  <1>9. TimerPlace'
    BY <1>1 DEF TimerPlace
  <1>10. Phase(s) = "none" /\ Phase(s)' = "pending"
    BY <1>1, <1>2, <1>3, <1>6 DEF Phase, Ended
  <1>11. Cnt(s) = 0
    BY <1>1, BlankIsShaped DEF Shape, Cnt
  <1>12. Cnt(s)' = Cnt(s) /\ Mx(s)' = ask.max
    BY <1>4, <1>7, <1>11 DEF Cnt, Mx
  <1>13. \A r \in Searches : r # s => SameFor(r)
    BY <1>1, <1>6, <1>7 DEF SameFor, Phase, Ended, Cnt, Mx
  <1>14. ApiStep
    BY <1>1, <1>10, <1>12, <1>13, Starts
  <1>15. QED
    BY <1>7, <1>8, <1>9, <1>14

LEMMA CallerSim ==
  ASSUME RInv, NEW s \in Searches, Return(s) \/ GetResults(s) \/ AsyncDelete(s)
  PROVE  Shape' /\ TimerPlace' /\ Ends' /\ ApiStep
  <1> USE DEF RInv
  <1>1. UNCHANGED <<queue, taken, chain, lock, pos>>
    BY DEF Return, GetResults, AsyncDelete
  <1>2. user \in [Searches -> {"none", "waiting", "open", "got"}]
    BY DEF IInv, CallersInv
  <1>3. Chained' = Chained /\ TimerPlace'
    BY <1>1 DEF Chained, TimerPlace
  <1>4. Freed(s) /\ Phase(s) = "done"
    BY DEF Return, GetResults, AsyncDelete, Freed, Phase, Ended
  <1>5. ~Pending(s) /\ s \notin Chained
    BY <1>4 DEF IInv, Held
  <1>6. CASE GetResults(s)
    <2>1. late' = late /\ search' = search /\ given' = given \ {s}
          /\ user' = [user EXCEPT ![s] = "got"] /\ user[s] # "none" /\ s \in given
      BY <1>6 DEF GetResults
    <2>2. user'[s] = "got" /\ \A r \in Searches : r # s => user'[r] = user[r]
      BY <1>2, <2>1
    <2>3. Shape'
      BY <2>1, <2>2 DEF Shape
    <2>4. \A r \in Searches : SameFor(r)
      BY <2>1, <2>2 DEF SameFor, Phase, Ended, Cnt, Mx
    <2>5. Ends'
      BY <1>1, <1>3, <2>1, EndsKept
    <2>6. QED
      BY <1>3, <2>1, <2>3, <2>4, <2>5, Stutters
  <1>7. CASE Return(s) \/ AsyncDelete(s)
    <2>1. Free(s)
      BY <1>7 DEF Return, AsyncDelete
    <2>2. user'[s] = "none" /\ \A r \in Searches : r # s => user'[r] = user[r]
      BY <1>2, <2>1 DEF Free
    <2>3. Shape' /\ search'[s] = Blank /\ \A r \in Searches : r # s => search'[r] = search[r]
      BY <2>1, <2>2, Rewritten, BlankIsShaped DEF Free
    <2>4. given' = given \ {s} /\ late' = late \ {s}
      BY <2>1 DEF Free
    <2>5. Phase(s)' = "none" /\ Cnt(s)' = 0 /\ Mx(s)' = 0
      BY <2>2, <2>3, <2>4, BlankIsShaped DEF Phase, Ended, Cnt, Mx
    <2>6. \A r \in Searches : r # s => SameFor(r)
      BY <2>2, <2>3, <2>4 DEF SameFor, Phase, Ended, Cnt, Mx
    <2>7. Ends'
      BY <1>1, <1>3, <1>5, <2>4, EndsKept
    <2>8. QED
      BY <1>3, <1>4, <2>3, <2>4, <2>5, <2>6, <2>7, Collects
  <1>8. QED
    BY <1>6, <1>7
----------------------------------------------------------------------------
(* Steps that the caller of no search sees.                                *)
Unseen ==
  /\ UNCHANGED <<user, given, chain, search, late>>
  /\ \/ UNCHANGED queue
     \/ \E a : ~IsEnd(a) /\ queue' = Append(queue, a)
  /\ taken' = taken \/ taken' = NoAction \/ (~IsAdd(taken') /\ ~IsEnd(taken'))
  /\ TimerPlace'

LEMMA UnseenSim ==
  ASSUME RInv, Unseen
  PROVE  Shape' /\ TimerPlace' /\ Ends' /\ ApiStep
  <1> USE DEF RInv, Unseen
  <1>1. \A r \in Searches : SameFor(r)
    BY DEF SameFor, Phase, Ended, Cnt, Mx
  <1>2. Ends'
    <2>1. Chained' = Chained
      BY DEF Chained
    <2>2. QED
      BY <2>1, EndsKept
  <1>3. Shape'
    BY DEF Shape
  <1>4. QED
    BY <1>1, <1>2, <1>3, Stutters

LEMMA UnseenSteps ==
  ASSUME RInv,
         \/ BrowseNew \/ BrowseDelete \/ (\E p \in Packets : Receive(p))
         \/ SearchSend \/ BrowseAddRun \/ BrowseEnd \/ BrowseSync \/ ParseNull \/ ParseEnd
         \/ UNCHANGED vars
  PROVE  Shape' /\ TimerPlace' /\ Ends' /\ ApiStep
  <1> USE DEF RInv
  <1>1. CASE BrowseNew \/ BrowseDelete
    <2>1. \E a : ~IsEnd(a) /\ queue' = Append(queue, a)
      BY <1>1 DEF BrowseNew, BrowseDelete, Post, Action, IsEnd
    <2>2. Unseen
      BY <1>1, <2>1 DEF BrowseNew, BrowseDelete, searchVars, Unseen, TimerPlace
    <2>3. QED
      BY <2>2, UnseenSim
  <1>2. ASSUME NEW p \in Packets, Receive(p)
        PROVE  Shape' /\ TimerPlace' /\ Ends' /\ ApiStep
    <2>1. UNCHANGED queue \/ \E a : ~IsEnd(a) /\ queue' = Append(queue, a)
      BY <1>2 DEF Receive, Action, IsEnd
    <2>2. Unseen
      BY <1>2, <2>1 DEF Receive, searchVars, Unseen, TimerPlace
    <2>3. QED
      BY <2>2, UnseenSim
  <1>3. CASE SearchSend \/ BrowseAddRun \/ BrowseEnd
    <2>1. Unseen
      BY <1>3 DEF SearchSend, BrowseAddRun, BrowseEnd, Execute, searchVars, Unseen, TimerPlace
    <2>2. QED
      BY <2>1, UnseenSim
  <1>4. CASE BrowseSync
    <2>1. lock = "free" /\ lock' \in {"free", "service"} /\ UNCHANGED pos
      BY <1>4 DEF BrowseSync
    <2>2. UNCHANGED <<user, given, chain, search, late, queue>> /\ taken' \in {NoAction, taken}
      BY <1>4 DEF BrowseSync, searchVars
    <2>3. Unseen
      BY <2>1, <2>2 DEF Unseen, TimerPlace
    <2>4. QED
      BY <2>3, UnseenSim
  <1>null. CASE ParseNull
    <2>1. lock # "timer" /\ lock' = "service" /\ UNCHANGED pos
      BY <1>null DEF ParseNull, Parsing
    <2>2. UNCHANGED <<user, given, chain, search, late, queue, taken>>
      BY <1>null DEF ParseNull, searchVars
    <2>3. Unseen
      BY <2>1, <2>2 DEF Unseen, TimerPlace
    <2>4. QED
      BY <2>3, UnseenSim
  <1>5. CASE ParseEnd
    <2>1. UNCHANGED queue \/ \E a : ~IsEnd(a) /\ queue' = Append(queue, a)
      BY <1>5 DEF ParseEnd, Action, IsEnd
    <2>2. lock # "timer" /\ lock' = "free" /\ UNCHANGED pos
      BY <1>5 DEF ParseEnd, Parsing
    <2>3. UNCHANGED <<user, given, chain, search, late>> /\ taken' = NoAction
      BY <1>5 DEF ParseEnd, searchVars
    <2>4. Unseen
      BY <2>1, <2>2, <2>3 DEF Unseen, TimerPlace
    <2>5. QED
      BY <2>4, UnseenSim
  <1>6. CASE UNCHANGED vars
    <2>1. Unseen
      BY <1>6 DEF vars, searchVars, Unseen, TimerPlace
    <2>2. QED
      BY <2>1, UnseenSim
  <1>7. QED
    BY <1>1, <1>2, <1>3, <1>4, <1>null, <1>5, <1>6
----------------------------------------------------------------------------
(* Time passes, and the timer visits a search of the chain.                *)
LEMMA TimeoutSim ==
  ASSUME RInv, NEW s \in Searches, TimeoutPasses(s)
  PROVE  Shape' /\ TimerPlace' /\ Ends' /\ ApiStep
  <1> USE DEF RInv
  <1>1. /\ user[s] # "none" /\ late' = late \cup {s}
        /\ UNCHANGED <<queue, taken, lock, pos, chain, search, user, given>>
    BY DEF TimeoutPasses
  <1>2. Shape' /\ TimerPlace' /\ Chained' = Chained
    BY <1>1 DEF Shape, TimerPlace, Chained
  <1>3. Ends'
    BY <1>1, <1>2, EndsKept
  <1>4. Phase(s) # "none" /\ \A r \in Searches : SameFor(r)
    BY <1>1 DEF SameFor, Phase, Ended, Cnt, Mx
  <1>5. QED
    BY <1>1, <1>2, <1>3, <1>4, TimePassing

LEMMA TimerSim ==
  ASSUME RInv, Timer
  PROVE  Shape' /\ TimerPlace' /\ Ends' /\ ApiStep
  <1> USE DEF RInv
  <1>1. PICK s \in Searches : VisitOff(s) \/ VisitLate(s) \/ VisitSend(s) \/ VisitRunning(s)
    BY DEF Timer
  <1>2. Visit(s)
    BY <1>1 DEF VisitOff, VisitLate, VisitSend, VisitRunning
  <1>3. UNCHANGED <<taken, chain, user, given, late>> /\ Chained' = Chained
    BY <1>2 DEF Visit, Chained
  <1>4. chain \in Seq(Searches) /\ Len(chain) \in Nat
    BY DEF IInv, CallersInv
  <1>5. pos \in 1..Len(chain) /\ s = chain[pos] /\ chain # <<>>
    BY <1>2, <1>4 DEF Visit, TimerPlace
  <1>6. s \in Chained /\ user[s] # "none"
    BY <1>4, <1>5 DEF Chained, IInv, Held, Freed
  <1>7. TimerPlace'
    BY <1>2, <1>3, <1>4, <1>5 DEF Visit, TimerPlace
  <1>8. search' = search \/ \E v : search' = [search EXCEPT ![s].state = v]
    BY <1>1 DEF VisitOff, VisitLate, VisitSend, VisitRunning
  <1>9. Shape' /\ \A r \in Searches : Cnt(r)' = Cnt(r) /\ Mx(r)' = Mx(r)
    <2>1. CASE search' = search
      BY <1>3, <2>1 DEF Shape, Cnt, Mx
    <2>2. CASE \E v : search' = [search EXCEPT ![s].state = v]
      <3>1. PICK v : search' = [search EXCEPT ![s].state = v]
        BY <2>2
      <3>2. QED
        BY <1>3, <1>6, <3>1, Restated
    <2>3. QED
      BY <1>8, <2>1, <2>2
  <1>10. UNCHANGED queue \/ \E a : (IsEnd(a) => a.arg \in late') /\ queue' = Append(queue, a)
    <2>1. CASE VisitOff(s) \/ VisitRunning(s)
      BY <2>1 DEF VisitOff, VisitRunning
    <2>2. CASE VisitLate(s)
      <3>1. Action("SEARCH_END", s).arg = s /\ s \in late'
        BY <1>3, <2>2 DEF VisitLate, Action
      <3>2. QED
        BY <2>2, <3>1 DEF VisitLate
    <2>3. CASE VisitSend(s)
      <3>1. ~IsEnd(Action("SEARCH_SEND", s))
        BY DEF IsEnd, Action
      <3>2. QED
        BY <2>3, <3>1 DEF VisitSend
    <2>4. QED
      BY <1>1, <2>1, <2>2, <2>3
  <1>11. Ends'
    BY <1>3, <1>10, EndsKept
  <1>12. \A r \in Searches : SameFor(r)
    BY <1>3, <1>9 DEF SameFor, Phase, Ended
  <1>13. QED
    BY <1>3, <1>7, <1>9, <1>11, <1>12, Stutters
----------------------------------------------------------------------------
(* The service task.                                                       *)
LEMMA TakeSim ==
  ASSUME RInv, Take
  PROVE  Shape' /\ TimerPlace' /\ Ends' /\ ApiStep
  <1> USE DEF RInv
  <1>1. UNCHANGED <<lock, pos, chain, search, user, given, late>>
    BY DEF Take, searchVars
  <1>2. Shape' /\ TimerPlace'
    BY <1>1 DEF Shape, TimerPlace
  <1>3. \A r \in Searches : SameFor(r)
    BY <1>1 DEF SameFor, Phase, Ended, Cnt, Mx
  <1>4. QED
    BY <1>1, <1>2, <1>3, EndsTaken, Stutters

LEMMA SearchAddSim ==
  ASSUME RInv, SearchAdd
  PROVE  Shape' /\ TimerPlace' /\ Ends' /\ ApiStep
  <1> USE DEF RInv
  <1>1. UNCHANGED <<lock, pos, search, user, given, late>> /\ lock = "free"
    BY DEF SearchAdd, Execute
  <1>2. Shape' /\ TimerPlace'
    BY <1>1 DEF Shape, TimerPlace
  <1>3. \A r \in Searches : SameFor(r)
    BY <1>1 DEF SameFor, Phase, Ended, Cnt, Mx
  <1>4. QED
    BY <1>1, <1>2, <1>3, EndsAdded, Stutters

(* A finish gives the semaphore of one search, and takes nothing into the  *)
(* chain.                                                                  *)
LEMMA FinishSim ==
  ASSUME RInv, NEW s \in Searches, Finish(s), user[s] # "none",
         s \in Ended \/ s \in late \/ (Mx(s) > 0 /\ Cnt(s) >= Mx(s)),
         UNCHANGED <<queue, user, late, lock, pos>>, taken' = taken \/ taken' = NoAction,
         lock # "timer"
  PROVE  Shape' /\ TimerPlace' /\ Ends' /\ ApiStep
  <1> USE DEF RInv
  <1>1. given' = given \cup {s} /\ search' = [search EXCEPT ![s].state = "OFF"]
    BY DEF Finish
  <1>2. \A r \in Chained' : r \in Chained
    <2>1. CASE UNCHANGED chain
      BY <2>1 DEF Chained
    <2>2. CASE \E i \in DOMAIN chain : chain' = Without(i)
      <3>1. PICK i \in DOMAIN chain : chain' = Without(i)
        BY <2>2
      <3>2. chain \in Seq(Searches)
        BY DEF IInv, CallersInv
      <3>3. \A j \in DOMAIN chain' : chain'[j] \in Chained
        BY <3>1, <3>2 DEF Without, Chained
      <3>4. QED
        BY <3>3 DEF Chained
    <2>3. QED
      BY <2>1, <2>2 DEF Finish
  <1>3. Ends'
    BY <1>2, EndsKept
  <1>4. TimerPlace'
    BY DEF TimerPlace
  <1>5. Shape' /\ \A r \in Searches : Cnt(r)' = Cnt(r) /\ Mx(r)' = Mx(r)
    BY <1>1, Restated
  <1>6. \A r \in Searches : r # s => SameFor(r)
    BY <1>1, <1>5 DEF SameFor, Phase, Ended
  <1>7. Phase(s)' = "done" /\ Cnt(s)' = Cnt(s) /\ Mx(s)' = Mx(s)
    BY <1>1, <1>5 DEF Phase, Ended
  <1>8. CASE s \in Ended
    <2>1. SameFor(s)
      BY <1>7, <1>8 DEF SameFor, Phase
    <2>2. QED
      BY <1>3, <1>4, <1>5, <1>6, <2>1, Stutters
  <1>9. CASE s \notin Ended
    <2>1. Phase(s) = "pending"
      BY <1>9 DEF Phase
    <2>2. QED
      BY <1>3, <1>4, <1>5, <1>6, <1>7, <1>9, <2>1, Finishes
  <1>10. QED
    BY <1>8, <1>9

LEMMA SearchEndSim ==
  ASSUME RInv, SearchEnd
  PROVE  Shape' /\ TimerPlace' /\ Ends' /\ ApiStep
  <1> USE DEF RInv
  <1> DEFINE s == taken.arg
  <1>1. UNCHANGED <<queue, user, late, lock, pos>> /\ taken' = NoAction /\ lock = "free"
        /\ taken # NoAction /\ IsEnd(taken)
    BY DEF SearchEnd, Execute, IsEnd
  <1>2. s \in late \/ s \notin Chained
    BY <1>1 DEF Ends
  <1>3. CASE s \in Chained \cup Ended
    <2>1. Finish(s) /\ s \in Ended \cup late
      BY <1>2, <1>3 DEF SearchEnd
    <2>2. s \in Searches /\ user[s] # "none"
      <3>1. CASE s \in Chained
        BY <3>1 DEF IInv, CallersInv, Held, Freed, Chained
      <3>2. CASE s \in Ended
        BY <3>2 DEF IInv, CallersInv, Ended
      <3>3. QED
        BY <1>3, <3>1, <3>2
    <2> HIDE DEF s
    <2>3. QED
      BY <1>1, <2>1, <2>2, FinishSim
  <1>4. CASE s \notin Chained \cup Ended
    <2>1. UNCHANGED <<search, chain, given>>
      BY <1>4 DEF SearchEnd
    <2>2. Unseen
      BY <1>1, <2>1 DEF Unseen, TimerPlace
    <2>3. QED
      BY <2>2, UnseenSim
  <1>5. QED
    BY <1>3, <1>4

LEMMA ParseDoneSim ==
  ASSUME RInv, NEW s \in Searches, ParseDone(s)
  PROVE  Shape' /\ TimerPlace' /\ Ends' /\ ApiStep
  <1>1. user[s] # "none"
    BY DEF ParseDone, RInv, IInv, Held, Freed
  <1>2. Mx(s) > 0 /\ Cnt(s) >= Mx(s)
    BY DEF ParseDone, Full, Mx, Cnt
  <1>3. QED
    BY <1>1, <1>2, FinishSim DEF ParseDone

(* A record changes the results of those who hear it, which are all        *)
(* waiting in the chain.                                                   *)
LEMMA ParseRecordSim ==
  ASSUME RInv, Pointed, ParseRecord
  PROVE  Shape' /\ TimerPlace' /\ Ends' /\ ApiStep
  <1> USE DEF RInv
  <1> DEFINE rec == Head(taken.arg.todo)
             New(s) == AddRecord(search[s].ask, search[s].results, rec)
             S == {s \in Searches : s \in Takers(rec) /\ Len(New(s)) # Cnt(s)}
  <1>1. search' = [s \in Searches |-> IF s \in Takers(rec) THEN Taken(s, rec) ELSE search[s]]
    BY DEF ParseRecord
  <1>2. UNCHANGED <<queue, pos, chain, user, given, late>> /\ lock # "timer" /\ lock' = "service"
        /\ ~IsAdd(taken') /\ ~IsEnd(taken')
    BY DEF ParseRecord, Parsing, Action, IsAdd, IsEnd
  <1>3. \A s \in Takers(rec) : s \in Chained
    BY TakersChained
  <1> HIDE DEF rec, New
  <1>4. \A s \in Searches : s \in Takers(rec) => user[s] # "none" /\ s \notin Ended
    BY <1>3 DEF IInv, Held, Freed
  <1>5. \A s \in Searches : Grew(search[s].ask, search[s].results, New(s))
    <2>1. SUFFICES ASSUME NEW s \in Searches
                   PROVE  Grew(search[s].ask, search[s].results, New(s))
      OBVIOUS
    <2>2. IsSeq(search[s].results)
      BY DEF Shape, Shaped
    <2>3. QED
      BY <2>2, AddRecordLen DEF New
  <1>6. ASSUME NEW s \in Searches, s \in Takers(rec)
        PROVE  search'[s].results = New(s) /\ search'[s].ask = search[s].ask /\ Shaped(search'[s])
    <2> DEFINE x == search[s]
               n == New(s)
               m == x.misled \/ (rec.own /\ s \in taken.arg.kept /\ x.ask.type # "PTR")
    <2>1. x = [state |-> x.state, ask |-> x.ask, results |-> x.results, misled |-> x.misled] /\ Shaped(x)
      BY DEF Shape, Shaped
    <2>2. search'[s] = [x EXCEPT !.results = n, !.misled = m]
      BY <1>1, <1>6 DEF Taken, New
    <2>3. IsSeq(n)
      BY <1>5 DEF Grew
    <2> HIDE DEF x, n, m
    <2>4. search'[s] = [state |-> x.state, ask |-> x.ask, results |-> n, misled |-> m]
      BY <2>1, <2>2
    <2>5. search'[s].state = x.state /\ search'[s].ask = x.ask /\ search'[s].results = n
          /\ search'[s].misled = m
      BY <2>4
    <2>6. QED
      BY <2>1, <2>3, <2>4, <2>5 DEF Shaped, x, n
  <1>7. \A s \in Searches : s \notin Takers(rec) => search'[s] = search[s]
    BY <1>1
  <1>8. Shape'
    <2>1. search' = [s \in Searches |-> search'[s]]
      BY <1>1
    <2>2. \A s \in Searches : Shaped(search'[s]) /\ (user'[s] = "none" => search'[s] = Blank)
      BY <1>2, <1>4, <1>6, <1>7 DEF Shape
    <2>3. QED
      BY <2>1, <2>2 DEF Shape
  <1>9. TimerPlace'
    BY <1>2 DEF TimerPlace
  <1>10. Ends'
    BY <1>2, EndsKept DEF Chained
  <1>11. \A s \in Searches : Phase(s)' = Phase(s) /\ Mx(s)' = Mx(s)
    BY <1>2, <1>6, <1>7 DEF Phase, Ended, Mx
  <1>12. ASSUME NEW s \in Searches
         PROVE  /\ Cnt(s)' = IF s \in S THEN Cnt(s) + 1 ELSE Cnt(s)
                /\ s \in S => Phase(s) = "pending" /\ (Mx(s) = 0 \/ Cnt(s) < Mx(s))
    <2>1. CASE s \in S
      <3>1. Len(New(s)) = Cnt(s) + 1 /\ HasRoom(search[s].ask, search[s].results)
        BY <1>5, <2>1 DEF Grew, Cnt
      <3>2. Phase(s) = "pending"
        BY <1>4, <2>1 DEF Phase
      <3>3. QED
        BY <1>6, <2>1, <3>1, <3>2 DEF Cnt, Mx, HasRoom
    <2>2. CASE s \notin S
      BY <1>6, <1>7, <2>2 DEF Cnt
    <2>3. QED
      BY <2>1, <2>2
  <1> HIDE DEF S
  <1>13. ApiStep
    <2>1. S \in SUBSET Searches
      BY DEF S
    <2>2. QED
      BY <1>2, <1>11, <1>12, <2>1, RecordFound
  <1>14. QED
    BY <1>8, <1>9, <1>10, <1>13
----------------------------------------------------------------------------
LEMMA NextSim == RInv /\ Pointed /\ [Next]_vars => RInv' /\ Pointed' /\ ApiStep
  <1> SUFFICES ASSUME RInv, Pointed, [Next]_vars PROVE RInv' /\ Pointed' /\ ApiStep
    OBVIOUS
  <1>1. IInv' /\ Pointed'
    BY NextIInv, NextPointed DEF RInv
  <1>2. Shape' /\ TimerPlace' /\ Ends' /\ ApiStep
    <2>1. CASE Application
      BY <2>1, QuerySim, CallerSim, UnseenSteps DEF Application
    <2>2. CASE Surroundings
      BY <2>2, TimeoutSim, UnseenSteps DEF Surroundings
    <2>3. CASE Timer
      BY <2>3, TimerSim
    <2>4. CASE Service
      BY <2>4, TakeSim, SearchAddSim, SearchEndSim, ParseRecordSim, ParseDoneSim, UnseenSteps
         DEF Service
    <2>5. CASE UNCHANGED vars
      BY <2>5, UnseenSteps
    <2>6. QED
      BY <2>1, <2>2, <2>3, <2>4, <2>5 DEF Next
  <1>3. QED
    BY <1>1, <1>2 DEF RInv

LEMMA InitSim == Init => Api!Init
  <1> SUFFICES ASSUME Init PROVE Api!Init
    OBVIOUS
  <1>1. \A s \in Searches : Phase(s) = "none" /\ Cnt(s) = 0 /\ Mx(s) = 0
    BY BlankIsShaped DEF Init, Phase, Ended, Cnt, Mx
  <1>2. QED
    BY <1>1 DEF Init, Api!Init, Cnt, Mx

(* The chain, the queue, the lock, the timer and the service task together *)
(* keep the promise of the query functions: every behaviour of the         *)
(* searches is one of MdnsSearchApi (mdns_querier.c:59-131, 136-210,       *)
(* 787-900).                                                               *)
THEOREM LookupKeepsPromise == Spec => SearchesKeepPromise
  <1>1. RInv /\ Pointed /\ [Next]_vars => [Api!Next]_(Api!vars)
    BY NextSim DEF ApiStep
  <1>2. QED
    BY InitRInv, InitPointed, InitSim, NextSim, <1>1, PTL DEF Spec, SearchesKeepPromise, Api!Spec
----------------------------------------------------------------------------
(* What the types need beyond RInv.                                        *)
States == \A s \in Searches : search[s].state \in {"OFF", "INIT", "RUNNING"}

Typed ==
  /\ Len(queue) <= QueueLen
  /\ lock \in {"free", "timer", "service"}
  /\ late \subseteq Searches
  /\ States

LEMMA InitTyped == Init => Typed
  <1> SUFFICES ASSUME Init PROVE Typed
    OBVIOUS
  <1>1. States
    BY BlankIsShaped DEF Init, States
  <1>2. Len(queue) = 0 /\ lock = "free" /\ late = {}
    BY DEF Init
  <1>3. QED
    BY <1>1, <1>2, QueueAssumption DEF Typed

(* The queue takes an action only where it has a slot for it.              *)
LEMMA QueueBounded ==
  ASSUME IInv, Len(queue) <= QueueLen,
         UNCHANGED queue \/ (HasSlot /\ \E a : queue' = Append(queue, a))
  PROVE  Len(queue') <= QueueLen
  <1>1. PICK S : queue \in Seq(S)
    BY DEF IInv, CallersInv
  <1>2. CASE UNCHANGED queue
    BY <1>2
  <1>3. CASE HasSlot /\ \E a : queue' = Append(queue, a)
    <2>1. PICK a : queue' = Append(queue, a)
      BY <1>3
    <2>2. queue \in Seq(S \cup {a})
      BY <1>1
    <2>3. Len(queue') = Len(queue) + 1 /\ Len(queue) \in Nat
      BY <2>1, <2>2
    <2>4. QED
      BY <1>3, <2>3, QueueAssumption DEF HasSlot
  <1>4. QED
    BY <1>2, <1>3

(* A search is set anew, or changes its state.                             *)
LEMMA StatesReset ==
  ASSUME States, NEW s \in Searches, search'[s].state \in {"OFF", "INIT", "RUNNING"},
         \A r \in Searches : r # s => search'[r] = search[r]
  PROVE  States'
  BY DEF States

LEMMA StatesKept ==
  ASSUME States, Shape,
         \/ search' = search
         \/ \E s \in Searches, v \in {"OFF", "INIT", "RUNNING"} :
              search' = [search EXCEPT ![s].state = v]
  PROVE  States'
  <1>1. search = [s \in Searches |-> search[s]]
    BY DEF Shape
  <1>2. CASE search' = search
    BY <1>2 DEF States
  <1>3. CASE \E s \in Searches, v \in {"OFF", "INIT", "RUNNING"} :
               search' = [search EXCEPT ![s].state = v]
    <2>1. PICK s \in Searches, v \in {"OFF", "INIT", "RUNNING"} :
                 search' = [search EXCEPT ![s].state = v]
      BY <1>3
    <2>2. search[s] = [state |-> search[s].state, ask |-> search[s].ask,
                       results |-> search[s].results, misled |-> search[s].misled]
      BY DEF Shape, Shaped
    <2>3. search'[s].state = v /\ \A r \in Searches : r # s => search'[r] = search[r]
      BY <1>1, <2>1, <2>2
    <2>4. QED
      BY <2>3 DEF States
  <1>4. QED
    BY <1>2, <1>3

LEMMA ApplicationTyped == RInv /\ Typed /\ Application => Typed'
  <1> SUFFICES ASSUME RInv, Typed, Application PROVE Typed'
    OBVIOUS
  <1> USE DEF RInv, Typed
  <1>1. ASSUME NEW s \in Searches, NEW ask \in Asks, Query(s, ask)
        PROVE  Typed'
    <2>1. UNCHANGED <<lock, late>> /\ HasSlot /\ \E a : queue' = Append(queue, a)
      BY <1>1 DEF Query, Post
    <2> DEFINE x == NewSearch("INIT", ask)
    <2>2. x.state = "INIT" /\ search' = [search EXCEPT ![s] = x]
      BY <1>1 DEF Query, NewSearch
    <2> HIDE DEF x
    <2>3. search'[s] = x /\ \A r \in Searches : r # s => search'[r] = search[r]
      BY <2>2 DEF Shape
    <2>4. States'
      BY <2>2, <2>3, StatesReset
    <2>5. QED
      BY <2>1, <2>4, QueueBounded
  <1>2. ASSUME NEW s \in Searches, Return(s) \/ GetResults(s) \/ AsyncDelete(s)
        PROVE  Typed'
    <2>1. UNCHANGED <<lock, queue>> /\ late' \subseteq late
      BY <1>2 DEF Return, GetResults, AsyncDelete, Free
    <2>2. CASE search' = search
      BY <2>1, <2>2, StatesKept
    <2>3. CASE search' = [search EXCEPT ![s] = Blank]
      <3>1. search'[s] = Blank /\ \A r \in Searches : r # s => search'[r] = search[r]
        BY <2>3 DEF Shape
      <3>2. QED
        BY <2>1, <3>1, StatesReset, BlankIsShaped
    <2>4. QED
      BY <1>2, <2>2, <2>3 DEF Return, GetResults, AsyncDelete, Free
  <1>3. CASE BrowseNew \/ BrowseDelete
    <2>1. UNCHANGED <<lock, late, search>> /\ HasSlot /\ \E a : queue' = Append(queue, a)
      BY <1>3 DEF BrowseNew, BrowseDelete, Post, searchVars
    <2>2. QED
      BY <2>1, QueueBounded, StatesKept
  <1>4. QED
    BY <1>1, <1>2, <1>3 DEF Application

LEMMA SurroundingsTyped == RInv /\ Typed /\ Surroundings => Typed'
  <1> SUFFICES ASSUME RInv, Typed, Surroundings PROVE Typed'
    OBVIOUS
  <1> USE DEF RInv, Typed
  <1>1. ASSUME NEW p \in Packets, Receive(p)
        PROVE  Typed'
    <2>1. UNCHANGED <<lock, late, search>>
          /\ (UNCHANGED queue \/ (HasSlot /\ \E a : queue' = Append(queue, a)))
      BY <1>1 DEF Receive, searchVars
    <2>2. QED
      BY <2>1, QueueBounded, StatesKept
  <1>2. ASSUME NEW s \in Searches, TimeoutPasses(s)
        PROVE  Typed'
    BY <1>2, StatesKept DEF TimeoutPasses
  <1>3. QED
    BY <1>1, <1>2 DEF Surroundings

LEMMA TimerTyped == RInv /\ Typed /\ Timer => Typed'
  <1> SUFFICES ASSUME RInv, Typed, Timer PROVE Typed'
    OBVIOUS
  <1> USE DEF RInv, Typed
  <1>1. PICK s \in Searches : VisitOff(s) \/ VisitLate(s) \/ VisitSend(s) \/ VisitRunning(s)
    BY DEF Timer
  <1>2. UNCHANGED late /\ lock' \in {"free", "timer"}
    BY <1>1 DEF VisitOff, VisitLate, VisitSend, VisitRunning, Visit
  <1>3. UNCHANGED queue \/ (HasSlot /\ \E a : queue' = Append(queue, a))
    BY <1>1 DEF VisitOff, VisitLate, VisitSend, VisitRunning
  <1>4. \/ search' = search
        \/ \E v \in {"OFF", "INIT", "RUNNING"} : search' = [search EXCEPT ![s].state = v]
    BY <1>1 DEF VisitOff, VisitLate, VisitSend, VisitRunning
  <1>5. QED
    BY <1>2, <1>3, <1>4, QueueBounded, StatesKept

LEMMA FinishTyped ==
  ASSUME RInv, Typed, NEW s \in Searches, Finish(s)
  PROVE  States'
  BY StatesKept DEF RInv, Typed, Finish

LEMMA ServiceTyped == RInv /\ Typed /\ Service => Typed'
  <1> SUFFICES ASSUME RInv, Typed, Service PROVE Typed'
    OBVIOUS
  <1> USE DEF RInv, Typed
  <1>1. CASE Take
    <2>1. queue # <<>> /\ queue' = Tail(queue) /\ UNCHANGED <<lock, late, search>>
      BY <1>1 DEF Take, searchVars
    <2>2. PICK S : queue \in Seq(S)
      BY DEF IInv, CallersInv
    <2>3. Len(queue') = Len(queue) - 1 /\ Len(queue) \in Nat
      BY <2>1, <2>2
    <2>4. QED
      BY <2>1, <2>3, StatesKept, QueueAssumption
  <1>2. CASE SearchAdd \/ SearchSend \/ BrowseAddRun \/ BrowseEnd
    <2>1. UNCHANGED <<queue, lock, late, search>>
      BY <1>2 DEF SearchAdd, SearchSend, BrowseAddRun, BrowseEnd, Execute, searchVars
    <2>2. QED
      BY <2>1, StatesKept
  <1>3. CASE SearchEnd
    <2>1. UNCHANGED <<queue, lock, late>>
      BY <1>3 DEF SearchEnd, Execute
    <2>2. CASE taken.arg \in Chained \cup Ended
      <3>1. Finish(taken.arg) /\ taken.arg \in Searches
        BY <1>3, <2>2 DEF SearchEnd, IInv, CallersInv, Chained, Ended
      <3>2. QED
        BY <2>1, <3>1, FinishTyped
    <2>3. CASE taken.arg \notin Chained \cup Ended
      BY <1>3, <2>1, <2>3, StatesKept DEF SearchEnd
    <2>4. QED
      BY <2>2, <2>3
  <1>4. CASE BrowseSync
    <2>1. UNCHANGED <<queue, late, search>> /\ lock' \in {"free", "service"}
      BY <1>4 DEF BrowseSync, searchVars
    <2>2. QED
      BY <2>1, StatesKept
  <1>5. CASE ParseRecord
    <2>1. UNCHANGED <<queue, late>> /\ lock' = "service"
      BY <1>5 DEF ParseRecord
    <2>2. \A s \in Searches : search'[s].state = search[s].state
      <3>1. SUFFICES ASSUME NEW s \in Searches PROVE search'[s].state = search[s].state
        OBVIOUS
      <3>2. PICK n, m : \/ search'[s] = [search[s] EXCEPT !.results = n, !.misled = m]
                        \/ search'[s] = search[s]
        BY <1>5 DEF ParseRecord, Taken
      <3>3. search[s] = [state |-> search[s].state, ask |-> search[s].ask,
                         results |-> search[s].results, misled |-> search[s].misled]
        BY DEF Shape, Shaped
      <3>4. QED
        BY <3>2, <3>3
    <2>3. QED
      BY <2>1, <2>2 DEF States
  <1>null. CASE ParseNull
    <2>1. UNCHANGED <<queue, late, search>> /\ lock' = "service"
      BY <1>null DEF ParseNull, searchVars
    <2>2. QED
      BY <2>1, StatesKept
  <1>6. CASE ParseEnd
    <2>1. UNCHANGED <<late, search>> /\ lock' = "free"
          /\ (UNCHANGED queue \/ (HasSlot /\ \E a : queue' = Append(queue, a)))
      BY <1>6 DEF ParseEnd, searchVars
    <2>2. QED
      BY <2>1, QueueBounded, StatesKept
  <1>7. ASSUME NEW s \in Searches, ParseDone(s)
        PROVE  Typed'
    <2>1. UNCHANGED <<queue, lock, late>> /\ Finish(s)
      BY <1>7 DEF ParseDone
    <2>2. QED
      BY <2>1, FinishTyped
  <1>8. QED
    BY <1>1, <1>2, <1>3, <1>4, <1>5, <1>null, <1>6, <1>7 DEF Service

LEMMA NextTyped == RInv /\ Typed /\ [Next]_vars => Typed'
  <1> SUFFICES ASSUME RInv, Typed, [Next]_vars PROVE Typed'
    OBVIOUS
  <1>1. CASE UNCHANGED vars
    <2>1. UNCHANGED <<queue, lock, late, search>>
      BY <1>1 DEF vars, searchVars
    <2>2. QED
      BY <2>1 DEF Typed, States
  <1>2. QED
    BY <1>1, ApplicationTyped, SurroundingsTyped, TimerTyped, ServiceTyped DEF Next

LEMMA TypedHolds == RInv /\ Typed => LookupTypeOK
  <1> SUFFICES ASSUME RInv, Typed PROVE LookupTypeOK
    OBVIOUS
  <1>1. chain \in Seq(Searches) /\ Len(chain) \in Nat /\ Chained \subseteq Searches
    BY DEF RInv, IInv, CallersInv, Chained
  <1>2. pos \in 1..(Len(chain) + 1) /\ (pos > 1 <=> lock = "timer")
    BY <1>1 DEF RInv, TimerPlace
  <1>3. QED
    BY <1>1, <1>2 DEF RInv, IInv, CallersInv, Typed, States, LookupTypeOK

(* The queue never holds more than its length, whoever posts; the timer    *)
(* walks inside the chain as long as it has the lock, though the service   *)
(* task takes searches out of it (mdns_querier.c:107-163,                  *)
(* mdns_service.c:163-300).                                                *)
THEOREM LookupTypes == Spec => []LookupTypeOK
  BY InitRInv, InitPointed, InitTyped, NextSim, NextTyped, TypedHolds, PTL DEF Spec
----------------------------------------------------------------------------
(* The browse.  What the notifier has been told of an instance and what    *)
(* the entries say of it agree, unless a change is still on its way: noted *)
(* while the packet is parsed, or in a BROWSE_SYNC.                        *)
IsSync(a) == a.type = "BROWSE_SYNC"

Untold(n) ==
  \/ \E i \in DOMAIN queue : IsSync(queue[i]) /\ n \in queue[i].arg.insts
  \/ taken # NoAction /\ IsSync(taken) /\ n \in taken.arg.insts
  \/ taken # NoAction /\ IsRx(taken) /\ n \in taken.arg.told

Alike(r, e) == r.inst = e.inst /\ r.host = e.host /\ r.addr = e.addr /\ r.ttl = e.ttl

Agreed ==
  /\ \A r \in told : Untold(r.inst) \/ \E e \in Entries : Alike(r, e)
  /\ \A e \in Entries : Untold(e.inst) \/ \E r \in told : Alike(r, e)

(* A packet that is not being parsed has found nothing yet.                *)
PacketShaped(x) ==
  x = [todo |-> x.todo, end |-> x.end, told |-> x.told,
       kept |-> x.kept, mine |-> x.mine, inst |-> x.inst]

RxClean ==
  /\ \A i \in DOMAIN queue : IsRx(queue[i]) =>
       PacketShaped(queue[i].arg) /\ queue[i].arg.told = {}
  /\ taken # NoAction /\ IsRx(taken) =>
       PacketShaped(taken.arg) /\ (lock # "service" => taken.arg.told = {})

EntryShaped(r) ==
  r = [inst |-> r.inst, host |-> r.host, txt |-> r.txt, addr |-> r.addr, ttl |-> r.ttl]

BrowseShape ==
  /\ browse = [on |-> browse.on, id |-> browse.id, results |-> browse.results,
               misled |-> browse.misled]
  /\ IsSeq(browse.results)
  /\ \A i \in DOMAIN browse.results : EntryShaped(browse.results[i])

(* NoAction stands for an address that no action has.                      *)
NoActionIsNone == \A type, arg : Action(type, arg) # NoAction

BInv ==
  /\ \E S : queue \in Seq(S) /\ NoAction \notin S
  /\ lost \in BOOLEAN /\ (~lost => Agreed)
  /\ RxClean /\ BrowseShape

LEMMA InitBInv == Init => BInv
  <1> SUFFICES ASSUME Init PROVE BInv
    OBVIOUS
  <1>1. queue = <<>> /\ taken = NoAction /\ told = {} /\ lost = FALSE /\ browse = BrowseOff
    BY DEF Init
  <1>2. queue \in Seq({}) /\ <<>> \in Seq({}) /\ NoAction \notin {}
    BY <1>1
  <1>3. browse = [on |-> FALSE, id |-> 0, results |-> <<>>, misled |-> FALSE] /\ browse.results = <<>>
    BY <1>1 DEF BrowseOff, NewBrowse
  <1>4. Entries = {}
    BY <1>3 DEF Entries
  <1>5. BrowseShape
    BY <1>2, <1>3 DEF BrowseShape, IsSeq
  <1>6. Agreed
    BY <1>1, <1>4 DEF Agreed
  <1>7. RxClean
    BY <1>1, <1>2 DEF RxClean
  <1>8. \E S : queue \in Seq(S) /\ NoAction \notin S
    <2>1. WITNESS {}
    <2>2. QED
      BY <1>2
  <1>9. QED
    BY <1>1, <1>5, <1>6, <1>7, <1>8 DEF BInv

LEMMA BInvHolds == BInv => BrowserToldHosts
  <1> SUFFICES ASSUME BInv, Quiet, ~lost PROVE Seen(told) = Seen(Entries)
    BY DEF BrowserToldHosts
  <1>1. \A n : ~Untold(n)
    BY DEF Quiet, Actions, Untold, BInv, RxClean, IsSync, IsRx
  <1>2. /\ \A r \in told : \E e \in Entries : Alike(r, e)
        /\ \A e \in Entries : \E r \in told : Alike(r, e)
    BY <1>1 DEF BInv, Agreed
  <1>3. QED
    BY <1>2 DEF Seen, Alike
----------------------------------------------------------------------------
(* Steps that do not concern the browse, or post what is neither a packet  *)
(* being parsed nor its end.                                               *)
Apart ==
  /\ UNCHANGED <<browse, told, lost>>
  /\ \/ UNCHANGED queue
     \/ \E a : /\ queue' = Append(queue, a) /\ a # NoAction
               /\ IsRx(a) => PacketShaped(a.arg) /\ a.arg.told = {}
  /\ taken' = taken \/ (taken' = NoAction /\ ~IsSync(taken) /\ ~IsRx(taken))
  /\ lock' = lock \/ lock' = "service" \/ taken' = NoAction \/ ~IsRx(taken)
     \/ lock # "service"

LEMMA ApartKeeps == BInv /\ Apart => BInv'
  <1> SUFFICES ASSUME BInv, Apart PROVE BInv'
    OBVIOUS
  <1> USE DEF Apart
  <1>1. PICK S : queue \in Seq(S) /\ NoAction \notin S
    BY DEF BInv
  <1>2. /\ \E T : queue' \in Seq(T) /\ NoAction \notin T
        /\ \A i \in DOMAIN queue : i \in DOMAIN queue' /\ queue'[i] = queue[i]
        /\ \A i \in DOMAIN queue' :
             \/ i \in DOMAIN queue /\ queue'[i] = queue[i]
             \/ IsRx(queue'[i]) => PacketShaped(queue'[i].arg) /\ queue'[i].arg.told = {}
    <2>1. CASE UNCHANGED queue
      BY <1>1, <2>1
    <2>2. CASE \E a : /\ queue' = Append(queue, a) /\ a # NoAction
                      /\ IsRx(a) => PacketShaped(a.arg) /\ a.arg.told = {}
      <3>1. PICK a : /\ queue' = Append(queue, a) /\ a # NoAction
                     /\ IsRx(a) => PacketShaped(a.arg) /\ a.arg.told = {}
        BY <2>2
      <3>2. queue \in Seq(S \cup {a}) /\ queue' \in Seq(S \cup {a}) /\ NoAction \notin S \cup {a}
        BY <1>1, <3>1
      <3>3. QED
        BY <3>1, <3>2
    <2>3. QED
      BY <2>1, <2>2
  <1>3. \A n : Untold(n) => Untold(n)'
    BY <1>2 DEF Untold, IsSync, IsRx
  <1>4. ~lost => Agreed'
    BY <1>3 DEF BInv, Agreed, Entries
  <1>5. RxClean'
    BY <1>2 DEF BInv, RxClean, IsRx
  <1>6. QED
    BY <1>2, <1>4, <1>5 DEF BInv, BrowseShape

LEMMA ApartSteps ==
  NoActionIsNone /\ BInv /\ ( Application \/ Surroundings \/ Timer \/ SearchAdd \/ SearchSend \/ SearchEnd
                           \/ ParseNull \/ (\E s \in Searches : ParseDone(s)) \/ UNCHANGED vars )
  => BInv'
  <1> SUFFICES ASSUME NoActionIsNone, BInv,
                      Application \/ Surroundings \/ Timer \/ SearchAdd \/ SearchSend \/ SearchEnd
                      \/ ParseNull \/ (\E s \in Searches : ParseDone(s)) \/ UNCHANGED vars
               PROVE  Apart
    BY ApartKeeps
  <1>1. CASE Application
    <2>1. UNCHANGED <<browse, told, lost, taken, lock>>
      BY <1>1 DEF Application, Query, Return, GetResults, AsyncDelete, BrowseNew, BrowseDelete,
                  browseVars
    <2>2. \A arg : \A type \in {"SEARCH_ADD", "BROWSE_ADD", "BROWSE_END"} : 
            ~IsRx(Action(type, arg)) /\ Action(type, arg) # NoAction
      BY DEF Action, IsRx, NoActionIsNone
    <2>3. \/ UNCHANGED queue
          \/ \E arg : \E type \in {"SEARCH_ADD", "BROWSE_ADD", "BROWSE_END"} :
               queue' = Append(queue, Action(type, arg))
      BY <1>1 DEF Application, Query, Return, GetResults, AsyncDelete, BrowseNew, BrowseDelete,
                  Post
    <2>4. UNCHANGED queue \/ \E a : queue' = Append(queue, a) /\ ~IsRx(a) /\ a # NoAction
      BY <2>2, <2>3
    <2>5. QED
      BY <2>1, <2>4 DEF Apart
  <1>2. ASSUME NEW p \in Packets, Receive(p)
        PROVE  Apart
    <2> DEFINE x == Unparsed(p)
    <2>1. PacketShaped(x) /\ x.told = {}
      BY DEF PacketShaped, Unparsed
    <2>2. UNCHANGED queue \/ queue' = Append(queue, Action("RX_HANDLE", x))
      BY <1>2 DEF Receive
    <2>3. UNCHANGED <<browse, told, lost, taken, lock>>
      BY <1>2 DEF Receive, browseVars
    <2> HIDE DEF x
    <2>4. Action("RX_HANDLE", x).arg = x /\ Action("RX_HANDLE", x) # NoAction
      BY DEF Action, NoActionIsNone
    <2>5. QED
      BY <2>1, <2>2, <2>3, <2>4 DEF Apart
  <1>3. ASSUME NEW s \in Searches, TimeoutPasses(s)
        PROVE  Apart
    BY <1>3 DEF TimeoutPasses, browseVars, Apart
  <1>4. CASE Timer
    <2>1. PICK s \in Searches : VisitOff(s) \/ VisitLate(s) \/ VisitSend(s) \/ VisitRunning(s)
      BY <1>4 DEF Timer
    <2>2. UNCHANGED <<browse, told, lost, taken>> /\ lock # "service"
      BY <2>1 DEF VisitOff, VisitLate, VisitSend, VisitRunning, Visit, browseVars
    <2>3. \A type \in {"SEARCH_END", "SEARCH_SEND"} :
            ~IsRx(Action(type, s)) /\ Action(type, s) # NoAction
      BY DEF Action, IsRx, NoActionIsNone
    <2>4. UNCHANGED queue \/ \E type \in {"SEARCH_END", "SEARCH_SEND"} : queue' = Append(queue, Action(type, s))
      BY <2>1 DEF VisitOff, VisitLate, VisitSend, VisitRunning
    <2>5. QED
      BY <2>2, <2>3, <2>4 DEF Apart
  <1>5. CASE SearchAdd \/ SearchSend \/ SearchEnd
    BY <1>5 DEF SearchAdd, SearchSend, SearchEnd, Execute, browseVars, Apart, IsSync, IsRx
  <1>null. CASE ParseNull
    BY <1>null DEF ParseNull, browseVars, Apart
  <1>6. ASSUME NEW s \in Searches, ParseDone(s)
        PROVE  Apart
    BY <1>6 DEF ParseDone, browseVars, Apart
  <1>7. CASE UNCHANGED vars
    BY <1>7 DEF vars, browseVars, Apart
  <1>8. QED
    BY <1>1, <1>2, <1>3, <1>4, <1>5, <1>null, <1>6, <1>7 DEF Surroundings
----------------------------------------------------------------------------
(* The browse starts with nothing to tell, and ends with it.               *)
LEMMA BrowseStartEnd == BInv /\ (BrowseAddRun \/ BrowseEnd) => BInv'
  <1> SUFFICES ASSUME BInv, BrowseAddRun \/ BrowseEnd PROVE BInv'
    OBVIOUS
  <1>1. /\ taken # NoAction /\ ~IsSync(taken) /\ ~IsRx(taken) /\ taken' = NoAction
        /\ UNCHANGED <<queue, lost>>
    BY DEF BrowseAddRun, BrowseEnd, Execute, IsSync, IsRx
  <1>2. CASE browse' = browse /\ told' = told
    <2>1. Apart
      BY <1>1, <1>2 DEF Apart
    <2>2. QED
      BY <2>1, ApartKeeps
  <1>3. CASE told' = {} /\ \E on, id : browse' = NewBrowse(on, id)
    <2>1. PICK on, id : browse' = [on |-> on, id |-> id, results |-> <<>>, misled |-> FALSE]
      BY <1>3 DEF NewBrowse
    <2>2. browse'.on = on /\ browse'.id = id /\ browse'.results = <<>> /\ <<>> \in Seq({})
      BY <2>1
    <2>3. BrowseShape' /\ Entries' = {}
      BY <2>1, <2>2 DEF BrowseShape, IsSeq, Entries
    <2>4. Agreed'
      BY <1>3, <2>3 DEF Agreed
    <2>5. RxClean'
      BY <1>1 DEF BInv, RxClean
    <2>6. QED
      BY <1>1, <2>3, <2>4, <2>5 DEF BInv
  <1>4. QED
    <2>1. CASE BrowseAddRun
      BY <1>2, <1>3, <2>1 DEF BrowseAddRun
    <2>2. CASE BrowseEnd
      BY <1>3, <2>2 DEF BrowseEnd, BrowseOff
    <2>3. QED
      BY <2>1, <2>2

(* An action that is taken is still on its way.                            *)
LEMMA BrowseTake == BInv /\ Take => BInv'
  <1> SUFFICES ASSUME BInv, Take PROVE BInv'
    OBVIOUS
  <1>1. PICK S : queue \in Seq(S) /\ NoAction \notin S
    BY DEF BInv
  <1>2. queue # <<>> /\ taken = NoAction /\ taken' = Head(queue) /\ queue' = Tail(queue)
        /\ UNCHANGED <<browse, told, lost>>
    BY DEF Take, browseVars
  <1>3. /\ queue' \in Seq(S) /\ 1 \in DOMAIN queue /\ taken' = queue[1] /\ taken' # NoAction
        /\ \A i \in DOMAIN queue' : i + 1 \in DOMAIN queue /\ queue'[i] = queue[i + 1]
        /\ \A i \in DOMAIN queue : i # 1 => i - 1 \in DOMAIN queue' /\ queue'[i - 1] = queue[i]
    BY <1>1, <1>2
  <1>4. RxClean'
    BY <1>2, <1>3 DEF BInv, RxClean, IsRx
  <1>5. ASSUME NEW n, Untold(n)
        PROVE  Untold(n)'
    <2>1. PICK i \in DOMAIN queue : IsSync(queue[i]) /\ n \in queue[i].arg.insts
      BY <1>2, <1>5 DEF Untold
    <2>2. CASE i = 1
      BY <1>3, <1>5, <2>1, <2>2 DEF Untold, IsSync
    <2>3. CASE i # 1
      BY <1>3, <2>1, <2>3 DEF Untold, IsSync
    <2>4. QED
      BY <2>2, <2>3
  <1>6. ~lost => Agreed'
    BY <1>2, <1>5 DEF BInv, Agreed, Entries
  <1>7. QED
    BY <1>1, <1>2, <1>3, <1>4, <1>6 DEF BInv, BrowseShape
----------------------------------------------------------------------------
(* The entries after a record: whoever has changed in what is told is      *)
(* among those to tell.                                                    *)
Tells(rs, es, tl) ==
  /\ IsSeq(es) /\ \A j \in DOMAIN es : EntryShaped(es[j])
  /\ \A i \in DOMAIN rs : rs[i].inst \in tl \/ \E j \in DOMAIN es : Alike(rs[i], es[j])
  /\ \A j \in DOMAIN es : es[j].inst \in tl \/ \E i \in DOMAIN rs : Alike(rs[i], es[j])

LEMMA PutTells ==
  ASSUME NEW rs, IsSeq(rs), \A j \in DOMAIN rs : EntryShaped(rs[j]), NEW i, NEW e, NEW tl,
         i \in DOMAIN rs => /\ EntryShaped(e) /\ e.inst = rs[i].inst
                            /\ rs[i].inst \in tl \/ Alike(rs[i], e)
  PROVE  Tells(rs, [rs EXCEPT ![i] = e], tl)
  <1> DEFINE es == [rs EXCEPT ![i] = e]
  <1>1. IsSeq(es)
    BY AmendedLen DEF Kept
  <1>2. DOMAIN es = DOMAIN rs /\ \A j \in DOMAIN rs : es[j] = IF j = i THEN e ELSE rs[j]
    OBVIOUS
  <1> HIDE DEF es
  <1>3. \A j \in DOMAIN rs : EntryShaped(es[j])
    BY <1>2
  <1>4. \A j \in DOMAIN rs : es[j].inst = rs[j].inst /\ (rs[j].inst \in tl \/ Alike(rs[j], es[j]))
    BY <1>2 DEF Alike
  <1>5. QED
    BY <1>1, <1>2, <1>3, <1>4 DEF Tells, es

LEMMA FreshTells ==
  ASSUME NEW rs, IsSeq(rs), \A j \in DOMAIN rs : EntryShaped(rs[j]), NEW e, EntryShaped(e)
  PROVE  Tells(rs, <<e>> \o rs, {e.inst})
  <1>1. PICK S : rs \in Seq(S)
    BY DEF IsSeq
  <1> DEFINE es == <<e>> \o rs
             T == S \cup {e}
  <1>2. rs \in Seq(T) /\ e \in T
    BY <1>1
  <1> HIDE DEF T
  <1>3. /\ es \in Seq(T) /\ Len(es) = Len(rs) + 1 /\ Len(rs) \in Nat
        /\ es[1] = e
        /\ \A j \in DOMAIN rs : j + 1 \in DOMAIN es /\ es[j + 1] = rs[j]
        /\ \A j \in DOMAIN es : j # 1 => j - 1 \in DOMAIN rs /\ es[j] = rs[j - 1]
    BY <1>2
  <1> HIDE DEF es
  <1>4. \A j \in DOMAIN es : EntryShaped(es[j])
    BY <1>3
  <1>5. \A j \in DOMAIN rs : Alike(rs[j], es[j + 1])
    BY <1>3 DEF Alike
  <1>6. \A j \in DOMAIN es : es[j] = e \/ \E k \in DOMAIN rs : Alike(rs[k], es[j])
    BY <1>3 DEF Alike
  <1>7. QED
    BY <1>3, <1>4, <1>5, <1>6 DEF Tells, IsSeq, es

LEMMA SameTells ==
  ASSUME NEW rs, IsSeq(rs), \A j \in DOMAIN rs : EntryShaped(rs[j])
  PROVE  Tells(rs, rs, {})
  BY DEF Tells, Alike

(* The change of one entry keeps its instance, and is told if the host,    *)
(* the addresses or the TTL have changed (mdns_browser.c:61-77, 249-276).  *)
LEMMA SrvChangeTold ==
  ASSUME NEW rs, NEW r, EntryShaped(r), NEW rec
  PROVE  LET c == SrvChange(rs, r, rec)
         IN EntryShaped(c.entry) /\ c.entry.inst = r.inst /\ (c.told \/ Alike(r, c.entry))
  <1> DEFINE known == {i \in DOMAIN rs : rs[i].host = rec.target /\ rs[i].addr # {}}
             addr == IF r.host # rec.target /\ r.addr = {} /\ known # {}
                     THEN rs[CHOOSE i \in known : \A j \in known : i <= j].addr
                     ELSE r.addr
             ttl == Ttl(r.ttl, rec.ttl)
             r01 == [r EXCEPT !.host = rec.target]
             r02 == [r01 EXCEPT !.addr = addr]
             r1 == [r02 EXCEPT !.ttl = ttl]
             tl == r.host # rec.target \/ r1.ttl # r.ttl
  <1>1. SrvChange(rs, r, rec) = [entry |-> r1, told |-> tl]
    BY DEF SrvChange
  <1>2. r.host = rec.target => addr = r.addr
    OBVIOUS
  <1> DEFINE a == r.inst
             b == r.host
             c == r.txt
             d == r.addr
             e == r.ttl
  <1>r. r = [inst |-> a, host |-> b, txt |-> c, addr |-> d, ttl |-> e]
    BY DEF EntryShaped
  <1> HIDE DEF addr, ttl, a, b, c, d, e
  <1>3. r1 = [inst |-> a, host |-> rec.target, txt |-> c, addr |-> addr, ttl |-> ttl]
    <2>1. r01 = [inst |-> a, host |-> rec.target, txt |-> c, addr |-> d, ttl |-> e]
      BY <1>r
    <2> HIDE DEF r01
    <2>2. r02 = [inst |-> a, host |-> rec.target, txt |-> c, addr |-> addr, ttl |-> e]
      BY <2>1
    <2> HIDE DEF r02
    <2>3. QED
      BY <2>2
  <1> HIDE DEF r1
  <1>4. EntryShaped(r1) /\ r1.inst = r.inst /\ r1.host = rec.target /\ r1.addr = addr
    BY <1>3 DEF EntryShaped, a
  <1>5. tl \/ Alike(r, r1)
    BY <1>2, <1>4 DEF Alike
  <1> HIDE DEF tl
  <1>6. SrvChange(rs, r, rec).entry = r1 /\ SrvChange(rs, r, rec).told = tl
    BY <1>1
  <1>7. QED
    BY <1>4, <1>5, <1>6

LEMMA TxtChangeTold ==
  ASSUME NEW r, EntryShaped(r), NEW rec
  PROVE  LET c == TxtChange(r, rec)
         IN EntryShaped(c.entry) /\ c.entry.inst = r.inst /\ (c.told \/ Alike(r, c.entry))
  <1> DEFINE ttl == Ttl(r.ttl, rec.ttl)
             r01 == [r EXCEPT !.txt = rec.target]
             r1 == [r01 EXCEPT !.ttl = ttl]
             tl == r1.ttl # r.ttl \/ r.txt \notin {NoName, rec.target}
  <1>1. TxtChange(r, rec) = [entry |-> r1, told |-> tl]
    BY DEF TxtChange
  <1> DEFINE a == r.inst
             b == r.host
             c == r.txt
             d == r.addr
             e == r.ttl
  <1>r. r = [inst |-> a, host |-> b, txt |-> c, addr |-> d, ttl |-> e]
    BY DEF EntryShaped
  <1> HIDE DEF ttl, a, b, c, d, e
  <1>2. r1 = [inst |-> a, host |-> b, txt |-> rec.target, addr |-> d, ttl |-> ttl]
    <2>1. r01 = [inst |-> a, host |-> b, txt |-> rec.target, addr |-> d, ttl |-> e]
      BY <1>r
    <2> HIDE DEF r01
    <2>2. QED
      BY <2>1
  <1> HIDE DEF r1
  <1>3. EntryShaped(r1) /\ r1.inst = r.inst /\ r1.host = r.host /\ r1.addr = r.addr
    BY <1>2 DEF EntryShaped, a, b, d
  <1>4. tl \/ Alike(r, r1)
    BY <1>3 DEF Alike
  <1> HIDE DEF tl
  <1>5. TxtChange(r, rec).entry = r1 /\ TxtChange(r, rec).told = tl
    BY <1>1
  <1>6. QED
    BY <1>3, <1>4, <1>5

(* An address that is new goes to one entry, which is told.                *)
LEMMA AddressTold ==
  ASSUME NEW r, EntryShaped(r), NEW rec
  PROVE  LET r1 == [r EXCEPT !.addr = @ \cup {rec.target}, !.ttl = Ttl(@, rec.ttl)]
         IN EntryShaped(r1) /\ r1.inst = r.inst
  <1> DEFINE a == r.inst
             b == r.host
             c == r.txt
             d == r.addr
             e == r.ttl
             addr == r.addr \cup {rec.target}
             ttl == Ttl(r.ttl, rec.ttl)
             r01 == [r EXCEPT !.addr = @ \cup {rec.target}]
             r1 == [r EXCEPT !.addr = @ \cup {rec.target}, !.ttl = Ttl(@, rec.ttl)]
  <1>1. r = [inst |-> a, host |-> b, txt |-> c, addr |-> d, ttl |-> e]
    BY DEF EntryShaped
  <1>2. r01 = [r EXCEPT !.addr = addr]
    OBVIOUS
  <1>3. r01 = [inst |-> a, host |-> b, txt |-> c, addr |-> addr, ttl |-> e]
    <2> HIDE DEF addr, a, b, c, d, e, r01
    <2>1. QED
      BY <1>1, <1>2
  <1>4. r1 = [r01 EXCEPT !.ttl = ttl]
    <2>1. r1 = [r01 EXCEPT !.ttl = Ttl(r01.ttl, rec.ttl)]
      OBVIOUS
    <2> HIDE DEF r01, r1
    <2>2. r01.ttl = e
      BY <1>3
    <2>3. QED
      BY <2>1, <2>2
  <1>5. r1 = [inst |-> a, host |-> b, txt |-> c, addr |-> addr, ttl |-> ttl]
    <2> HIDE DEF addr, ttl, a, b, c, d, e, r01, r1
    <2>1. QED
      BY <1>3, <1>4
  <1> HIDE DEF r1
  <1>6. EntryShaped(r1) /\ r1.inst = a
    <2> HIDE DEF addr, ttl, a, b, c, d, e
    <2>1. QED
      BY <1>5 DEF EntryShaped
  <1>7. QED
    BY <1>6 DEF r1

(* Whatever record comes, the browse notes every instance it changes.      *)
LEMMA BrowseAddTells ==
  ASSUME NEW rs, IsSeq(rs), \A j \in DOMAIN rs : EntryShaped(rs[j]), NEW rec
  PROVE  Tells(rs, BrowseAdd(rs, rec).entries, BrowseAdd(rs, rec).told)
  <1> DEFINE i == CHOOSE i \in DOMAIN rs :
                    rs[i].inst = rec.name /\ \A j \in 1..(i - 1) : ~(rs[j].inst = rec.name)
             New(r) == r.host = rec.name /\ rec.target \notin r.addr
             k == CHOOSE k \in DOMAIN rs : New(rs[k]) /\ \A j \in 1..(k - 1) : ~New(rs[j])
             new == BrowseAdd(rs, rec)
  <1>1. CASE rec.type = "A"
    <2>1. CASE \E j \in DOMAIN rs : New(rs[j])
      <3> DEFINE e == [rs[k] EXCEPT !.addr = @ \cup {rec.target}, !.ttl = Ttl(@, rec.ttl)]
      <3>1. new = [entries |-> [rs EXCEPT ![k] = e], told |-> {rs[k].inst}]
        BY <1>1, <2>1 DEF BrowseAdd, Has, First
      <3>2. k \in DOMAIN rs => EntryShaped(e) /\ e.inst = rs[k].inst
        BY AddressTold
      <3> HIDE DEF e, k
      <3>3. Tells(rs, [rs EXCEPT ![k] = e], {rs[k].inst})
        BY <3>2, PutTells
      <3>4. QED
        BY <3>1, <3>3
    <2>2. CASE ~\E j \in DOMAIN rs : New(rs[j])
      <3>1. new = [entries |-> rs, told |-> {}]
        BY <1>1, <2>2 DEF BrowseAdd, Has, First
      <3>2. QED
        BY <3>1, SameTells
    <2>3. QED
      BY <2>1, <2>2
  <1>2. CASE rec.type # "A" /\ ~\E j \in DOMAIN rs : rs[j].inst = rec.name
    <2> DEFINE f == Fresh(rec)
    <2>1. new = [entries |-> <<f>> \o rs, told |-> {rec.name}]
      BY <1>2 DEF BrowseAdd, Has, First
    <2>2. EntryShaped(f) /\ f.inst = rec.name
      BY DEF Fresh, NewResult, EntryShaped
    <2> HIDE DEF f
    <2>3. QED
      BY <2>1, <2>2, FreshTells
  <1>3. CASE rec.type # "A" /\ \E j \in DOMAIN rs : rs[j].inst = rec.name
    <2> DEFINE c == IF rec.type = "SRV" THEN SrvChange(rs, rs[i], rec) ELSE TxtChange(rs[i], rec)
               tl == IF c.told THEN {rs[i].inst} ELSE {}
    <2>1. new = [entries |-> [rs EXCEPT ![i] = c.entry], told |-> tl]
      BY <1>3 DEF BrowseAdd, Has, First
    <2>2. i \in DOMAIN rs => EntryShaped(c.entry) /\ c.entry.inst = rs[i].inst
                             /\ (c.told \/ Alike(rs[i], c.entry))
      BY SrvChangeTold, TxtChangeTold
    <2> HIDE DEF c, i
    <2>3. Tells(rs, [rs EXCEPT ![i] = c.entry], tl)
      BY <2>2, PutTells
    <2>4. QED
      BY <2>1, <2>3
  <1>4. QED
    BY <1>1, <1>2, <1>3
----------------------------------------------------------------------------
(* A record: what it changes is noted until the packet has been parsed.    *)
PacketWith(p, td, tl, kp, mn, nm) ==
  [p EXCEPT !.todo = td, !.told = tl, !.kept = kp, !.mine = mn, !.inst = nm]

LEMMA PacketSet ==
  ASSUME NEW p, PacketShaped(p), NEW td, NEW tl, NEW kp, NEW mn, NEW nm
  PROVE  /\ PacketShaped(PacketWith(p, td, tl, kp, mn, nm))
         /\ PacketWith(p, td, tl, kp, mn, nm).todo = td
         /\ PacketWith(p, td, tl, kp, mn, nm).told = tl
  <1> DEFINE x == PacketWith(p, td, tl, kp, mn, nm)
             a == p.todo
             b == p.end
             c == p.told
             d == p.kept
             e == p.mine
             f == p.inst
             x1 == [p EXCEPT !.todo = td]
             x2 == [x1 EXCEPT !.told = tl]
             x3 == [x2 EXCEPT !.kept = kp]
             x4 == [x3 EXCEPT !.mine = mn]
  <1>0. x = [x4 EXCEPT !.inst = nm]
    BY DEF PacketWith
  <1> HIDE DEF x
  <1>1. p = [todo |-> a, end |-> b, told |-> c, kept |-> d, mine |-> e, inst |-> f]
    BY DEF PacketShaped
  <1> HIDE DEF a, b, c, d, e, f
  <1>2. x1 = [todo |-> td, end |-> b, told |-> c, kept |-> d, mine |-> e, inst |-> f]
    BY <1>1
  <1> HIDE DEF x1
  <1>3. x2 = [todo |-> td, end |-> b, told |-> tl, kept |-> d, mine |-> e, inst |-> f]
    BY <1>2
  <1> HIDE DEF x2
  <1>4. x3 = [todo |-> td, end |-> b, told |-> tl, kept |-> kp, mine |-> e, inst |-> f]
    BY <1>3
  <1> HIDE DEF x3
  <1>5. x4 = [todo |-> td, end |-> b, told |-> tl, kept |-> kp, mine |-> mn, inst |-> f]
    BY <1>4
  <1> HIDE DEF x4
  <1> DEFINE r == [todo |-> td, end |-> b, told |-> tl, kept |-> kp, mine |-> mn, inst |-> nm]
  <1>6. x = r
    BY <1>0, <1>5
  <1>7. PacketShaped(r) /\ r.todo = td /\ r.told = tl
    BY DEF PacketShaped
  <1>8. QED
    BY <1>6, <1>7 DEF x

LEMMA BrowseRecord == NoActionIsNone /\ BInv /\ ParseRecord => BInv'
  <1> SUFFICES ASSUME NoActionIsNone, BInv, ParseRecord PROVE BInv'
    OBVIOUS
  <1> DEFINE rec == Head(taken.arg.todo)
             new == BrowseAdd(browse.results, Browsed(rec))
             adds == Browses(rec) /\ rec.type # "PTR" /\ ~Dropped(rec)
             p == taken.arg
             tl == IF adds THEN p.told \cup new.told ELSE p.told
             ms == browse.misled \/ (rec.own /\ rec.type # "A")
             kp == IF rec.type = "A" THEN {} ELSE Takers(rec)
             mn == Browses(rec)
             nm == Instance(rec)
             td == Tail(p.todo)
             x == [p EXCEPT !.todo = td, !.told = tl, !.kept = kp, !.mine = mn, !.inst = nm]
  <1>1. /\ taken # NoAction /\ IsRx(taken) /\ lock' = "service"
        /\ UNCHANGED <<queue, told, lost>>
        /\ browse' = IF adds THEN [browse EXCEPT !.results = new.entries, !.misled = ms] ELSE browse
        /\ taken' = Action("RX_HANDLE", x)
    BY DEF ParseRecord, Parsing, IsRx
  <1>2. PacketShaped(x) /\ x.told = tl
    <2>1. PacketShaped(p)
      BY <1>1 DEF BInv, RxClean
    <2>2. x = PacketWith(p, td, tl, kp, mn, nm)
      BY DEF PacketWith
    <2> HIDE DEF p, tl, kp, mn, nm, td, x
    <2>3. QED
      BY <2>1, <2>2, PacketSet
  <1> HIDE DEF x
  <1>3. taken'.type = "RX_HANDLE" /\ taken'.arg = x
    BY <1>1 DEF Action
  <1>4. RxClean'
    BY <1>1, <1>2, <1>3 DEF BInv, RxClean, IsRx
  <1>5. Tells(browse.results, new.entries, new.told)
    BY BrowseAddTells DEF BInv, BrowseShape
  <1>6. BrowseShape' /\ browse'.results = IF adds THEN new.entries ELSE browse.results
    <2> DEFINE b == browse
               es == new.entries
    <2>1. b = [on |-> b.on, id |-> b.id, results |-> b.results, misled |-> b.misled]
      BY DEF BInv, BrowseShape
    <2>2. CASE adds
      <3>1. browse' = [b EXCEPT !.results = es, !.misled = ms]
        BY <1>1, <2>2
      <3> HIDE DEF b, es, adds, new, ms
      <3>2. browse' = [on |-> b.on, id |-> b.id, results |-> es, misled |-> ms]
        BY <2>1, <3>1
      <3>3. /\ browse'.results = es
            /\ browse' = [on |-> browse'.on, id |-> browse'.id, results |-> browse'.results,
                          misled |-> browse'.misled]
        BY <3>2
      <3>4. QED
        BY <1>5, <2>2, <3>3 DEF Tells, BrowseShape, es
    <2>3. CASE ~adds
      BY <1>1, <2>3 DEF BInv, BrowseShape
    <2>4. QED
      BY <2>2, <2>3
  <1>7. /\ \A n : Untold(n) => Untold(n)'
        /\ adds => \A n \in new.told : Untold(n)'
    <2>1. taken' # NoAction
      BY <1>1 DEF NoActionIsNone
    <2>2. QED
      BY <1>1, <1>2, <1>3, <2>1 DEF Untold, IsSync, IsRx
  <1>8. ~lost => Agreed'
    <2>1. CASE adds
      <3> DEFINE es == new.entries
                 nt == new.told
      <3>1. browse'.results = es /\ Tells(browse.results, es, nt) /\ \A n \in nt : Untold(n)'
        BY <1>5, <1>6, <1>7, <2>1
      <3> HIDE DEF es, nt, new, adds
      <3>2. SUFFICES ASSUME ~lost PROVE Agreed'
        OBVIOUS
      <3>3. ASSUME NEW r \in told
            PROVE  Untold(r.inst)' \/ \E e \in Entries' : Alike(r, e)
        <4>1. CASE Untold(r.inst)
          BY <1>7, <4>1
        <4>2. CASE \E e \in Entries : Alike(r, e)
          <5>1. PICK j \in DOMAIN browse.results : Alike(r, browse.results[j])
            BY <4>2 DEF Entries
          <5>2. browse.results[j].inst \in nt \/ \E m \in DOMAIN es : Alike(browse.results[j], es[m])
            BY <3>1 DEF Tells
          <5>3. QED
            BY <3>1, <5>1, <5>2 DEF Alike, Entries
        <4>3. QED
          BY <3>2, <4>1, <4>2 DEF BInv, Agreed
      <3>4. ASSUME NEW e \in Entries'
            PROVE  Untold(e.inst)' \/ \E r \in told : Alike(r, e)
        <4>1. PICK m \in DOMAIN es : e = es[m]
          BY <3>1 DEF Entries
        <4>2. CASE e.inst \in nt
          BY <3>1, <4>2
        <4>3. CASE e.inst \notin nt
          <5>1. PICK j \in DOMAIN browse.results : Alike(browse.results[j], e)
            BY <3>1, <4>1, <4>3 DEF Tells
          <5>2. browse.results[j] \in Entries
            BY DEF Entries
          <5>3. Untold(browse.results[j].inst) \/ \E r \in told : Alike(r, browse.results[j])
            BY <3>2, <5>2 DEF BInv, Agreed
          <5>4. QED
            BY <1>7, <5>1, <5>3 DEF Alike
        <4>4. QED
          BY <4>2, <4>3
      <3>5. QED
        BY <1>1, <3>3, <3>4 DEF Agreed
    <2>2. CASE ~adds
      BY <1>1, <1>7, <2>2 DEF BInv, Agreed, Entries
    <2>3. QED
      BY <2>1, <2>2
  <1>9. QED
    BY <1>1, <1>4, <1>6, <1>8 DEF BInv

(* The end of a packet: what was noted is posted, or it is lost.           *)
LEMMA BrowseParsed == NoActionIsNone /\ BInv /\ ParseEnd => BInv'
  <1> SUFFICES ASSUME NoActionIsNone, BInv, ParseEnd PROVE BInv'
    OBVIOUS
  <1> DEFINE insts == taken.arg.told
             tell == taken.arg.end # "cut" /\ insts # {}
             a == Action("BROWSE_SYNC", [id |-> browse.id, insts |-> insts])
  <1>1. /\ taken # NoAction /\ IsRx(taken) /\ taken' = NoAction
        /\ UNCHANGED <<browse, told>>
        /\ queue' = IF tell /\ HasSlot THEN Append(queue, a) ELSE queue
        /\ lost' = (lost \/ (insts # {} /\ queue' = queue))
    BY DEF ParseEnd, Parsing, IsRx
  <1>2. a # NoAction /\ IsSync(a) /\ ~IsRx(a) /\ a.arg.insts = insts
    BY DEF NoActionIsNone, Action, IsSync, IsRx
  <1>3. PICK S : queue \in Seq(S) /\ NoAction \notin S
    BY DEF BInv
  <1> HIDE DEF a
  <1>4. \/ queue' = queue
        \/ /\ queue' = Append(queue, a)
           /\ queue \in Seq(S \cup {a}) /\ queue' \in Seq(S \cup {a}) /\ NoAction \notin S \cup {a}
    BY <1>1, <1>2, <1>3
  <1>5. /\ \E T : queue' \in Seq(T) /\ NoAction \notin T
        /\ \A i \in DOMAIN queue : i \in DOMAIN queue' /\ queue'[i] = queue[i]
        /\ \A i \in DOMAIN queue' : (i \in DOMAIN queue /\ queue'[i] = queue[i]) \/ ~IsRx(queue'[i])
        /\ queue' # queue => \E i \in DOMAIN queue' : queue'[i] = a
    <2>1. CASE queue' = queue
      BY <1>3, <2>1
    <2>2. CASE queue' # queue
      BY <1>2, <1>4, <2>2
    <2>3. QED
      BY <2>1, <2>2
  <1>6. RxClean'
    BY <1>1, <1>5 DEF BInv, RxClean, IsRx
  <1>7. lost' \in BOOLEAN
    BY <1>1 DEF BInv
  <1>8. ~lost' => Agreed'
    <2>1. SUFFICES ASSUME ~lost' PROVE Agreed'
      OBVIOUS
    <2>2. ~lost /\ (insts = {} \/ queue' # queue)
      BY <1>1, <2>1 DEF BInv
    <2>3. ASSUME NEW n, Untold(n)
          PROVE  Untold(n)'
      <3>1. CASE n \in insts
        <4>1. PICK i \in DOMAIN queue' : queue'[i] = a
          BY <1>5, <2>2, <3>1
        <4>2. QED
          BY <1>2, <3>1, <4>1 DEF Untold, IsSync
      <3>2. CASE n \notin insts
        <4>1. PICK i \in DOMAIN queue : IsSync(queue[i]) /\ n \in queue[i].arg.insts
          BY <1>1, <2>3, <3>2 DEF Untold, IsSync, IsRx
        <4>2. QED
          BY <1>5, <4>1 DEF Untold, IsSync
      <3>3. QED
        BY <3>1, <3>2
    <2>4. QED
      BY <1>1, <2>2, <2>3 DEF BInv, Agreed, Entries
  <1>9. QED
    BY <1>1, <1>5, <1>6, <1>7, <1>8 DEF BInv, BrowseShape

(* The notifier is told the entries of the instances as they are now.      *)
LEMMA BrowseTold == BInv /\ BrowseSync => BInv'
  <1> SUFFICES ASSUME BInv, BrowseSync PROVE BInv'
    OBVIOUS
  <1> DEFINE insts == taken.arg.insts
             tell == browse.on /\ browse.id = taken.arg.id
                     /\ ~\E i \in Changed(taken.arg) : browse.results[i].ttl = 0
             kept == {r \in told : r.inst \notin insts}
             now == {browse.results[i] : i \in Changed(taken.arg)}
  <1>1. /\ taken # NoAction /\ IsSync(taken) /\ ~IsRx(taken)
        /\ UNCHANGED <<queue, browse, lost>>
        /\ taken' = IF tell THEN NoAction ELSE taken
        /\ told' = IF tell THEN kept \cup now ELSE told
    BY DEF BrowseSync, IsSync, IsRx
  <1>2. CASE ~tell
    <2>1. Apart
      BY <1>1, <1>2 DEF Apart
    <2>2. QED
      BY <2>1, ApartKeeps
  <1>3. CASE tell
    <2>1. taken' = NoAction /\ told' = kept \cup now
      BY <1>1, <1>3
    <2>2. now = {e \in Entries : e.inst \in insts}
      BY DEF Changed, Entries
    <2> HIDE DEF now, tell
    <2>3. ASSUME NEW n, Untold(n)
          PROVE  n \in insts \/ Untold(n)'
      BY <1>1, <2>1, <2>3 DEF Untold, IsSync, IsRx
    <2>4. ~lost => Agreed'
      <3>1. SUFFICES ASSUME ~lost PROVE Agreed'
        OBVIOUS
      <3>2. Entries' = Entries
        BY <1>1 DEF Entries
      <3>3. ASSUME NEW r \in told'
            PROVE  Untold(r.inst)' \/ \E e \in Entries : Alike(r, e)
        BY <2>1, <2>2, <2>3, <3>1, <3>3 DEF BInv, Agreed, Alike
      <3>4. ASSUME NEW e \in Entries
            PROVE  Untold(e.inst)' \/ \E r \in told' : Alike(r, e)
        <4>1. CASE e.inst \in insts
          BY <2>1, <2>2, <4>1 DEF Alike
        <4>2. CASE e.inst \notin insts
          BY <2>1, <2>3, <3>1, <4>2 DEF BInv, Agreed, Alike
        <4>3. QED
          BY <4>1, <4>2
      <3>5. QED
        BY <3>2, <3>3, <3>4 DEF Agreed
    <2>5. RxClean'
      BY <1>1, <2>1 DEF BInv, RxClean
    <2>6. QED
      BY <1>1, <2>4, <2>5 DEF BInv, BrowseShape
  <1>4. QED
    BY <1>2, <1>3
----------------------------------------------------------------------------
LEMMA NextBInv == NoActionIsNone /\ BInv /\ [Next]_vars => BInv'
  BY ApartSteps, BrowseStartEnd, BrowseTake, BrowseRecord, BrowseParsed, BrowseTold
     DEF Next, Service

(* Whatever packets come in whatever order, and however the browse, the    *)
(* queue and the parser interleave: once nothing is on its way, the        *)
(* notifier knows every entry as it is, unless a change was lost           *)
(* (mdns_browser.c:61-77, 249-276, 595-615, mdns_receive.c:1220-1230).     *)
THEOREM LookupTellsHosts ==
  ASSUME NoActionIsNone
  PROVE  Spec => []BrowserToldHosts
  <1>1. BInv /\ [Next]_vars => BInv'
    BY NextBInv
  <1>2. QED
    BY <1>1, InitBInv, BInvHolds, PTL DEF Spec
----------------------------------------------------------------------------
(* What is put together.  A list is good for its search if every entry is  *)
(* whole and truthful; each operator that takes in a record which belongs  *)
(* to the search keeps it so.                                              *)
Good(ask, rs) ==
  /\ IsSeq(rs)
  /\ \A i \in DOMAIN rs : EntryShaped(rs[i]) /\ TruthfulFor(ask, rs[i])

(* Only a name that was sent has a host, a text or an address.             *)
LEMMA SaidTells ==
  ASSUME NEW rec \in Said
  PROVE  rec.target \in SaidOf(rec.type, rec.name)
  BY DEF SaidOf

LEMMA NoNameHasNone == \A type : type # "PTR" => SaidOf(type, NoName) = {}
  BY PacketsAssumption DEF SaidOf

(* CHOOSE finds the newest entry that fits, if there is one.               *)
LEMMA FirstOf ==
  ASSUME NEW rs, IsSeq(rs), NEW S \in SUBSET DOMAIN rs, S # {}
  PROVE  \E i \in S : \A j \in 1..(i - 1) : j \notin S
  <1> DEFINE R == OpToRel(<, Nat)
  <1>1. IsWellFoundedOn(R, Nat)
    BY NatLessThanWellFounded
  <1>2. \A i, j \in Nat : i < j => <<i, j>> \in R
    BY DEF OpToRel
  <1> HIDE DEF R
  <1>3. S \in SUBSET Nat
    <2>1. PICK T : rs \in Seq(T)
      BY DEF IsSeq
    <2>2. DOMAIN rs = 1..Len(rs) /\ Len(rs) \in Nat
      BY <2>1
    <2>3. QED
      BY <2>2
  <1>4. PICK i \in S : \A j \in S : <<j, i>> \notin R
    BY <1>1, <1>3, WFMin
  <1>5. \A j \in S : ~(j < i)
    BY <1>2, <1>3, <1>4
  <1>6. \A j \in 1..(i - 1) : j \in Nat /\ j < i
    BY <1>3, <1>4
  <1>7. QED
    BY <1>4, <1>5, <1>6

LEMMA FirstByInst ==
  ASSUME NEW rs, IsSeq(rs), NEW rec, \E j \in DOMAIN rs : rs[j].inst = rec.name
  PROVE  LET i == CHOOSE i \in DOMAIN rs :
                    rs[i].inst = rec.name /\ \A j \in 1..(i - 1) : ~(rs[j].inst = rec.name)
         IN i \in DOMAIN rs /\ rs[i].inst = rec.name
  <1> DEFINE S == {j \in DOMAIN rs : rs[j].inst = rec.name}
  <1>1. \E i \in S : \A j \in 1..(i - 1) : j \notin S
    BY FirstOf
  <1>2. \A i \in DOMAIN rs : \A j \in 1..(i - 1) : j \in DOMAIN rs
    <2>1. PICK T : rs \in Seq(T)
      BY DEF IsSeq
    <2>2. DOMAIN rs = 1..Len(rs) /\ Len(rs) \in Nat
      BY <2>1
    <2>3. QED
      BY <2>2
  <1>3. \E i \in DOMAIN rs : rs[i].inst = rec.name /\ \A j \in 1..(i - 1) : ~(rs[j].inst = rec.name)
    BY <1>1, <1>2
  <1>4. QED
    BY <1>3

LEMMA FirstByHost ==
  ASSUME NEW rs, IsSeq(rs), NEW x, \E j \in DOMAIN rs : rs[j].host = x
  PROVE  LET i == CHOOSE i \in DOMAIN rs :
                    rs[i].host = x /\ \A j \in 1..(i - 1) : ~(rs[j].host = x)
         IN i \in DOMAIN rs /\ rs[i].host = x
  <1> DEFINE S == {j \in DOMAIN rs : rs[j].host = x}
  <1>1. \E i \in S : \A j \in 1..(i - 1) : j \notin S
    BY FirstOf
  <1>2. \A i \in DOMAIN rs : \A j \in 1..(i - 1) : j \in DOMAIN rs
    <2>1. PICK T : rs \in Seq(T)
      BY DEF IsSeq
    <2>2. DOMAIN rs = 1..Len(rs) /\ Len(rs) \in Nat
      BY <2>1
    <2>3. QED
      BY <2>2
  <1>3. \E i \in DOMAIN rs : rs[i].host = x /\ \A j \in 1..(i - 1) : ~(rs[j].host = x)
    BY <1>1, <1>2
  <1>4. QED
    BY <1>3

NewAddressAt(rs, x, y) ==
  CHOOSE i \in DOMAIN rs : (rs[i].host = x /\ y \notin rs[i].addr)
                           /\ \A j \in 1..(i - 1) : ~(rs[j].host = x /\ y \notin rs[j].addr)

LEMMA FirstByNewAddress ==
  ASSUME NEW rs, IsSeq(rs), NEW x, NEW y, \E j \in DOMAIN rs : rs[j].host = x /\ y \notin rs[j].addr
  PROVE  LET i == NewAddressAt(rs, x, y)
         IN i \in DOMAIN rs /\ rs[i].host = x /\ y \notin rs[i].addr
  <1> DEFINE S == {j \in DOMAIN rs : rs[j].host = x /\ y \notin rs[j].addr}
  <1>1. \E i \in S : \A j \in 1..(i - 1) : j \notin S
    BY FirstOf
  <1>2. \A i \in DOMAIN rs : \A j \in 1..(i - 1) : j \in DOMAIN rs
    <2>1. PICK T : rs \in Seq(T)
      BY DEF IsSeq
    <2>2. DOMAIN rs = 1..Len(rs) /\ Len(rs) \in Nat
      BY <2>1
    <2>3. QED
      BY <2>2
  <1>3. \E i \in DOMAIN rs : (rs[i].host = x /\ y \notin rs[i].addr)
            /\ \A j \in 1..(i - 1) : ~(rs[j].host = x /\ y \notin rs[j].addr)
    BY <1>1, <1>2
  <1>4. QED
    BY <1>3 DEF NewAddressAt

LEMMA AmendedGood ==
  ASSUME NEW ask, NEW rs, Good(ask, rs), NEW i, NEW v,
         i \in DOMAIN rs => EntryShaped(v) /\ TruthfulFor(ask, v)
  PROVE  Good(ask, [rs EXCEPT ![i] = v])
  <1> DEFINE es == [rs EXCEPT ![i] = v]
  <1>1. IsSeq(es)
    BY AmendedLen DEF Kept, Good
  <1>2. DOMAIN es = DOMAIN rs /\ \A j \in DOMAIN rs : es[j] = IF j = i THEN v ELSE rs[j]
    OBVIOUS
  <1> HIDE DEF es
  <1>3. QED
    BY <1>1, <1>2 DEF Good, es

LEMMA GrownGood ==
  ASSUME NEW ask, NEW rs, Good(ask, rs), NEW e, EntryShaped(e), TruthfulFor(ask, e)
  PROVE  Good(ask, Grown(ask, rs, e))
  <1>1. PICK S : rs \in Seq(S)
    BY DEF Good, IsSeq
  <1> DEFINE es == <<e>> \o rs
             T == S \cup {e}
  <1>2. rs \in Seq(T) /\ e \in T
    BY <1>1
  <1> HIDE DEF T
  <1>3. /\ es \in Seq(T) /\ es[1] = e
        /\ \A j \in DOMAIN es : j # 1 => j - 1 \in DOMAIN rs /\ es[j] = rs[j - 1]
    BY <1>2
  <1> HIDE DEF es
  <1>4. Good(ask, es)
    BY <1>3 DEF Good, IsSeq
  <1>5. QED
    BY <1>4 DEF Grown, es
----------------------------------------------------------------------------
(* The changes of one entry: the fields a change does not name stay.       *)
Like(r, r1) ==
  EntryShaped(r1) /\ r1.inst = r.inst /\ r1.host = r.host /\ r1.txt = r.txt /\ r1.addr = r.addr

LEMMA TtlSet ==
  ASSUME NEW r, EntryShaped(r), NEW x, NEW r1, r1 = [r EXCEPT !.ttl = x]
  PROVE  Like(r, r1)
  <1> DEFINE a == r.inst
             b == r.host
             c == r.txt
             d == r.addr
             e == r.ttl
  <1>1. r = [inst |-> a, host |-> b, txt |-> c, addr |-> d, ttl |-> e]
    BY DEF EntryShaped
  <1> HIDE DEF a, b, c, d, e
  <1>2. r1 = [inst |-> a, host |-> b, txt |-> c, addr |-> d, ttl |-> x]
    BY <1>1
  <1>3. QED
    BY <1>2 DEF EntryShaped, Like, a, b, c, d

LEMMA HostSet ==
  ASSUME NEW r, EntryShaped(r), NEW x, NEW r1, r1 = [r EXCEPT !.host = x]
  PROVE  EntryShaped(r1) /\ r1.inst = r.inst /\ r1.host = x /\ r1.txt = r.txt /\ r1.addr = r.addr
  <1> DEFINE a == r.inst
             b == r.host
             c == r.txt
             d == r.addr
             e == r.ttl
  <1>1. r = [inst |-> a, host |-> b, txt |-> c, addr |-> d, ttl |-> e]
    BY DEF EntryShaped
  <1> HIDE DEF a, b, c, d, e
  <1>2. r1 = [inst |-> a, host |-> x, txt |-> c, addr |-> d, ttl |-> e]
    BY <1>1
  <1>3. QED
    BY <1>2 DEF EntryShaped, Like, a, b, c, d

LEMMA TxtSet ==
  ASSUME NEW r, EntryShaped(r), NEW x, NEW r1, r1 = [r EXCEPT !.txt = x]
  PROVE  EntryShaped(r1) /\ r1.inst = r.inst /\ r1.host = r.host /\ r1.txt = x /\ r1.addr = r.addr
  <1> DEFINE a == r.inst
             b == r.host
             c == r.txt
             d == r.addr
             e == r.ttl
  <1>1. r = [inst |-> a, host |-> b, txt |-> c, addr |-> d, ttl |-> e]
    BY DEF EntryShaped
  <1> HIDE DEF a, b, c, d, e
  <1>2. r1 = [inst |-> a, host |-> b, txt |-> x, addr |-> d, ttl |-> e]
    BY <1>1
  <1>3. QED
    BY <1>2 DEF EntryShaped, Like, a, b, c, d

LEMMA AddrSet ==
  ASSUME NEW r, EntryShaped(r), NEW x, NEW r1, r1 = [r EXCEPT !.addr = x]
  PROVE  EntryShaped(r1) /\ r1.inst = r.inst /\ r1.host = r.host /\ r1.txt = r.txt /\ r1.addr = x
  <1> DEFINE a == r.inst
             b == r.host
             c == r.txt
             d == r.addr
             e == r.ttl
  <1>1. r = [inst |-> a, host |-> b, txt |-> c, addr |-> d, ttl |-> e]
    BY DEF EntryShaped
  <1> HIDE DEF a, b, c, d, e
  <1>2. r1 = [inst |-> a, host |-> b, txt |-> c, addr |-> x, ttl |-> e]
    BY <1>1
  <1>3. QED
    BY <1>2 DEF EntryShaped, Like, a, b, c, d

LEMMA HeardLike ==
  ASSUME NEW r, EntryShaped(r), NEW ttl
  PROVE  Like(r, Heard(r, ttl))
  <1> DEFINE x == Lower(r.ttl, ttl)
  <1>1. Heard(r, ttl) = [r EXCEPT !.ttl = x]
    BY DEF Heard
  <1> HIDE DEF x
  <1>2. QED
    BY <1>1, TtlSet

LEMMA LikeGood ==
  ASSUME NEW ask, NEW r, NEW r1, Like(r, r1), TruthfulFor(ask, r)
  PROVE  EntryShaped(r1) /\ TruthfulFor(ask, r1)
  BY DEF Like, TruthfulFor, ReachesHost, TellsOf

LEMMA ReachedFields ==
  ASSUME NEW r, EntryShaped(r), NEW rec
  PROVE  LET r1 == Reached(r, rec)
         IN /\ EntryShaped(r1) /\ r1.inst = r.inst /\ r1.host = r.host /\ r1.txt = r.txt
            /\ r1.addr = r.addr \cup {rec.target}
  <1> DEFINE h == Heard(r, rec.ttl)
             x == h.addr \cup {rec.target}
  <1>1. Reached(r, rec) = [h EXCEPT !.addr = x]
    BY DEF Reached
  <1>2. Like(r, h)
    BY HeardLike
  <1> HIDE DEF h
  <1>3. x = r.addr \cup {rec.target} /\ EntryShaped(h)
    BY <1>2 DEF Like
  <1> HIDE DEF x
  <1>4. QED
    BY <1>1, <1>2, <1>3, AddrSet DEF Like
----------------------------------------------------------------------------
(* The record of an address.                                               *)
LEMMA AddIpGood ==
  ASSUME NEW ask, NEW rs, Good(ask, rs), NEW rec \in Said, rec.type = "A",
         Finds(ask, rs, rec) \/ ask.type = "PTR"
  PROVE  Good(ask, AddIp(ask, rs, rec))
  <1>1. rec.target \in SaidOf("A", rec.name) /\ rec.name # NoName
    BY SaidTells, PacketsAssumption
  <1>2. ASSUME NEW r, EntryShaped(r), TruthfulFor(ask, r), r.host = rec.name
        PROVE  EntryShaped(Reached(r, rec)) /\ TruthfulFor(ask, Reached(r, rec))
    <2> DEFINE r1 == Reached(r, rec)
    <2>1. /\ EntryShaped(r1) /\ r1.inst = r.inst /\ r1.host = r.host /\ r1.txt = r.txt
          /\ r1.addr = r.addr \cup {rec.target}
      BY <1>2, ReachedFields
    <2> HIDE DEF r1
    <2>2. QED
      BY <1>1, <1>2, <2>1 DEF TruthfulFor, ReachesHost, TellsOf, r1
  <1>3. CASE ask.type \in {"A", "ANY"}
    <2>1. (ask.type = "A" \/ (ask.type = "ANY" /\ ~ask.service)) /\ ask.name = rec.name
      BY <1>3 DEF Finds
    <2>2. CASE rs # <<>>
      <3> DEFINE v == Reached(rs[1], rec)
      <3>1. AddIp(ask, rs, rec) = [rs EXCEPT ![1] = v]
        BY <1>3, <2>2 DEF AddIp
      <3>2. 1 \in DOMAIN rs => rs[1].host = rec.name
        BY <2>1 DEF Good, TruthfulFor
      <3>3. 1 \in DOMAIN rs => EntryShaped(v) /\ TruthfulFor(ask, v)
        BY <1>2, <3>2 DEF Good
      <3> HIDE DEF v
      <3>4. Good(ask, [rs EXCEPT ![1] = v])
        BY <3>3, AmendedGood
      <3>5. QED
        BY <3>1, <3>4
    <2>3. CASE rs = <<>>
      <3> DEFINE e == NewResult(NoName, rec.name, NoName, {rec.target}, rec.ttl)
      <3>1. AddIp(ask, rs, rec) = Grown(ask, rs, e)
        BY <1>3, <2>3 DEF AddIp
      <3>2. EntryShaped(e) /\ TruthfulFor(ask, e)
        BY <1>1, <2>1 DEF NewResult, EntryShaped, TruthfulFor, ReachesHost
      <3> HIDE DEF e
      <3>3. QED
        BY <3>1, <3>2, GrownGood
    <2>4. QED
      BY <2>2, <2>3
  <1>4. CASE ask.type \notin {"A", "ANY"}
    <2> DEFINE i == CHOOSE i \in DOMAIN rs :
                      rs[i].host = rec.name /\ \A j \in 1..(i - 1) : ~(rs[j].host = rec.name)
               v == Reached(rs[i], rec)
    <2>1. AddIp(ask, rs, rec) =
          IF \E j \in DOMAIN rs : rs[j].host = rec.name THEN [rs EXCEPT ![i] = v] ELSE rs
      BY <1>4 DEF AddIp, Amended, First, Has
    <2>2. CASE \E j \in DOMAIN rs : rs[j].host = rec.name
      <3>1. i \in DOMAIN rs /\ rs[i].host = rec.name
        <4> DEFINE h == rec.name
        <4>1. IsSeq(rs) /\ \E j \in DOMAIN rs : rs[j].host = h
          BY <2>2 DEF Good
        <4> HIDE DEF h
        <4>2. LET m == CHOOSE m \in DOMAIN rs :
                         rs[m].host = h /\ \A j \in 1..(m - 1) : ~(rs[j].host = h)
              IN m \in DOMAIN rs /\ rs[m].host = h
          BY ONLY <4>1, FirstByHost
        <4>3. QED
          BY <4>2 DEF h
      <3> HIDE DEF i
      <3>2. EntryShaped(v) /\ TruthfulFor(ask, v)
        BY <1>2, <3>1 DEF Good
      <3> HIDE DEF v
      <3>3. QED
        BY <2>1, <2>2, <3>2, AmendedGood
    <2>3. QED
      BY <2>1, <2>2
  <1>5. QED
    BY <1>3, <1>4

(* The record of a pointer: an entry of its own for the instance.          *)
LEMMA AddPtrGood ==
  ASSUME NEW ask, NEW rs, Good(ask, rs), ask.type = "PTR", NEW inst, NEW ttl
  PROVE  Good(ask, AddPtr(ask, rs, inst, ttl))
  <1> DEFINE i == CHOOSE i \in DOMAIN rs :
                    rs[i].inst = inst /\ \A j \in 1..(i - 1) : ~(rs[j].inst = inst)
             v == Heard(rs[i], ttl)
             e == NewResult(inst, NoName, NoName, {}, ttl)
             es == Grown(ask, rs, e)
  <1>1. AddPtr(ask, rs, inst, ttl) =
          IF \E j \in DOMAIN rs : rs[j].inst = inst THEN [rs EXCEPT ![i] = v] ELSE es
    BY DEF AddPtr, Amended, First, Has
  <1>2. Good(ask, es)
    <2>1. EntryShaped(e) /\ TruthfulFor(ask, e)
      BY DEF NewResult, EntryShaped, TruthfulFor, ReachesHost, TellsOf
    <2> HIDE DEF e
    <2>2. QED
      BY <2>1, GrownGood
  <1> HIDE DEF es
  <1>3. i \in DOMAIN rs => EntryShaped(v) /\ TruthfulFor(ask, v)
    <2>1. ASSUME i \in DOMAIN rs
          PROVE  Like(rs[i], v) /\ TruthfulFor(ask, rs[i])
      <3> HIDE DEF i
      <3>1. QED
        BY <2>1, HeardLike DEF Good
    <2>2. QED
      BY <2>1, LikeGood
  <1> HIDE DEF i, v
  <1>4. Good(ask, [rs EXCEPT ![i] = v])
    BY <1>3, AmendedGood
  <1>5. QED
    BY <1>1, <1>2, <1>4

LEMMA EnteredGood ==
  ASSUME NEW ask, NEW rs, Good(ask, rs), ask.type = "PTR", NEW rec
  PROVE  Good(ask, Entered(ask, rs, rec))
  BY AddPtrGood DEF Entered

(* A service or a text completes the entry of its own instance.            *)
LEMMA CompleteTruthful ==
  ASSUME NEW ask, ask.type = "PTR", NEW r, EntryShaped(r), TruthfulFor(ask, r),
         NEW rec \in Said, rec.type \in {"SRV", "TXT"}, r.inst = rec.name
  PROVE  EntryShaped(Complete(r, rec)) /\ TruthfulFor(ask, Complete(r, rec))
  <1> DEFINE x == rec.target
             r1 == [r EXCEPT !.host = x]
             r2 == [r EXCEPT !.txt = x]
  <1>1. /\ EntryShaped(r1) /\ r1.inst = r.inst /\ r1.host = x /\ r1.txt = r.txt /\ r1.addr = r.addr
    <2> HIDE DEF x
    <2>1. QED
      BY HostSet
  <1>2. /\ EntryShaped(r2) /\ r2.inst = r.inst /\ r2.host = r.host /\ r2.txt = x /\ r2.addr = r.addr
    <2> HIDE DEF x
    <2>1. QED
      BY TxtSet
  <1>3. Complete(r, rec) = IF rec.type = "SRV"
                           THEN IF r.host = NoName THEN r1 ELSE r
                           ELSE IF r.txt = NoName THEN r2 ELSE r
    BY DEF Complete, Hosted, Filled
  <1> HIDE DEF r1, r2
  <1>4. x \in SaidOf(rec.type, r.inst)
    BY SaidTells
  <1>5. r.host = NoName => r.addr = {}
    BY NoNameHasNone DEF TruthfulFor, ReachesHost
  <1>6. CASE rec.type = "SRV"
    BY <1>1, <1>3, <1>4, <1>5, <1>6 DEF TruthfulFor, ReachesHost, TellsOf
  <1>7. CASE rec.type = "TXT"
    BY <1>2, <1>3, <1>4, <1>7 DEF TruthfulFor, ReachesHost, TellsOf
  <1>8. QED
    BY <1>6, <1>7

LEMMA CompletedGood ==
  ASSUME NEW ask, NEW rs, Good(ask, rs), ask.type = "PTR",
         NEW rec \in Said, rec.type \in {"SRV", "TXT"}
  PROVE  Good(ask, Completed(rs, rec))
  <1> DEFINE i == CHOOSE i \in DOMAIN rs :
                    rs[i].inst = rec.name /\ \A j \in 1..(i - 1) : ~(rs[j].inst = rec.name)
             v == Complete(rs[i], rec)
  <1>1. Completed(rs, rec) =
          IF \E j \in DOMAIN rs : rs[j].inst = rec.name THEN [rs EXCEPT ![i] = v] ELSE rs
    BY DEF Completed, Amended, First, Has
  <1>2. CASE \E j \in DOMAIN rs : rs[j].inst = rec.name
    <2>1. i \in DOMAIN rs /\ rs[i].inst = rec.name
      BY <1>2, FirstByInst DEF Good
    <2> HIDE DEF i
    <2>2. EntryShaped(v) /\ TruthfulFor(ask, v)
      BY <2>1, CompleteTruthful DEF Good
    <2> HIDE DEF v
    <2>3. Good(ask, [rs EXCEPT ![i] = v])
      BY <2>2, AmendedGood
    <2>4. QED
      BY <1>1, <1>2, <2>3
  <1>3. QED
    BY <1>1, <1>2

LEMMA AddSrvGood ==
  ASSUME NEW ask, NEW rs, Good(ask, rs), NEW rec \in Said, rec.type = "SRV",
         Finds(ask, rs, rec) \/ ask.type = "PTR"
  PROVE  Good(ask, AddSrv(ask, rs, rec))
  <1>1. CASE ask.type = "PTR"
    BY <1>1, EnteredGood, CompletedGood DEF AddSrv
  <1>2. CASE ask.type # "PTR"
    <2>1. /\ ask.type = "SRV" \/ (ask.type = "ANY" /\ ask.service)
          /\ ask.name = rec.name /\ rec.target \in SaidOf("SRV", ask.name)
      BY <1>2, SaidTells DEF Finds
    <2> DEFINE i == CHOOSE i \in DOMAIN rs :
                      rs[i].host = rec.target /\ \A j \in 1..(i - 1) : ~(rs[j].host = rec.target)
               v == Heard(rs[i], rec.ttl)
               e == NewResult(ask.name, rec.target, NoName, {}, rec.ttl)
    <2>2. AddSrv(ask, rs, rec) =
          IF \E j \in DOMAIN rs : rs[j].host = rec.target
          THEN [rs EXCEPT ![i] = v] ELSE Grown(ask, rs, e)
      BY <1>2 DEF AddSrv, Amended, First, Has
    <2>3. Good(ask, Grown(ask, rs, e))
      <3>1. EntryShaped(e) /\ TruthfulFor(ask, e)
        BY <1>2, <2>1 DEF NewResult, EntryShaped, TruthfulFor, ReachesHost, TellsOf
      <3> HIDE DEF e
      <3>2. QED
        BY <3>1, GrownGood
    <2> HIDE DEF e
    <2>4. i \in DOMAIN rs => EntryShaped(v) /\ TruthfulFor(ask, v)
      <3>1. ASSUME i \in DOMAIN rs
            PROVE  Like(rs[i], v) /\ TruthfulFor(ask, rs[i])
        <4> HIDE DEF i
        <4>1. QED
          BY <3>1, HeardLike DEF Good
      <3>2. QED
        BY <3>1, LikeGood
    <2> HIDE DEF i, v
    <2>5. Good(ask, [rs EXCEPT ![i] = v])
      BY <2>4, AmendedGood
    <2>6. QED
      BY <2>2, <2>3, <2>5
  <1>3. QED
    BY <1>1, <1>2

LEMMA AddTxtGood ==
  ASSUME NEW ask, NEW rs, Good(ask, rs), NEW rec \in Said, rec.type = "TXT",
         Finds(ask, rs, rec) \/ ask.type = "PTR"
  PROVE  Good(ask, AddTxt(ask, rs, rec))
  <1>1. CASE ask.type = "PTR"
    BY <1>1, EnteredGood, CompletedGood DEF AddTxt
  <1>2. CASE ask.type # "PTR"
    <2>1. /\ ask.type = "TXT" \/ (ask.type = "ANY" /\ ask.service)
          /\ ask.name = rec.name /\ rec.target \in SaidOf("TXT", ask.name)
      BY <1>2, SaidTells DEF Finds
    <2>2. CASE rs # <<>>
      <3> DEFINE v == FilledAndHeard(rs[1], rec)
      <3>1. AddTxt(ask, rs, rec) = [rs EXCEPT ![1] = v]
        BY <1>2, <2>2 DEF AddTxt
      <3>2. ASSUME 1 \in DOMAIN rs
            PROVE  EntryShaped(v) /\ TruthfulFor(ask, v)
        <4> DEFINE r == rs[1]
                   x == rec.target
                   f == [r EXCEPT !.txt = x]
        <4>1. EntryShaped(r) /\ TruthfulFor(ask, r)
          BY <3>2 DEF Good
        <4>2. v = IF r.txt = NoName THEN Heard(f, rec.ttl) ELSE r
          BY DEF FilledAndHeard, Filled
        <4> HIDE DEF r, x
        <4>3. /\ EntryShaped(f) /\ f.inst = r.inst /\ f.host = r.host /\ f.txt = x /\ f.addr = r.addr
          BY <4>1, TxtSet
        <4> HIDE DEF f, v
        <4>4. TruthfulFor(ask, f)
          BY <1>2, <2>1, <4>1, <4>3 DEF TruthfulFor, ReachesHost, TellsOf, x
        <4>5. EntryShaped(Heard(f, rec.ttl)) /\ TruthfulFor(ask, Heard(f, rec.ttl))
          BY <4>3, <4>4, HeardLike, LikeGood
        <4>6. QED
          BY <4>1, <4>2, <4>5
      <3> HIDE DEF v
      <3>3. Good(ask, [rs EXCEPT ![1] = v])
        BY <3>2, AmendedGood
      <3>4. QED
        BY <3>1, <3>3
    <2>3. CASE rs = <<>>
      <3> DEFINE e == NewResult(NoName, NoName, rec.target, {}, rec.ttl)
      <3>1. AddTxt(ask, rs, rec) = Grown(ask, rs, e)
        BY <1>2, <2>3 DEF AddTxt
      <3>2. EntryShaped(e) /\ TruthfulFor(ask, e)
        BY <1>2, <2>1 DEF NewResult, EntryShaped, TruthfulFor, ReachesHost, TellsOf
      <3> HIDE DEF e
      <3>3. QED
        BY <3>1, <3>2, GrownGood
    <2>4. QED
      BY <2>2, <2>3
  <1>3. QED
    BY <1>1, <1>2

(* Whatever record of the network a search takes in, its entries stay      *)
(* truthful, if the record belongs to it or it is a PTR search             *)
(* (mdns_querier.c:466-640, mdns_receive.c:880-1080).                      *)
LEMMA AddRecordGood ==
  ASSUME NEW ask, NEW rs, Good(ask, rs), NEW rec \in Said,
         Finds(ask, rs, rec) \/ ask.type = "PTR"
  PROVE  Good(ask, AddRecord(ask, rs, rec))
  <1>1. rec.type \in {"PTR", "SRV", "TXT", "A"}
    BY PacketsAssumption
  <1>2. CASE rec.type = "PTR"
    BY <1>2, AddPtrGood DEF AddRecord, Finds
  <1>3. CASE rec.type = "SRV"
    BY <1>3, AddSrvGood DEF AddRecord
  <1>4. CASE rec.type = "TXT"
    BY <1>4, AddTxtGood DEF AddRecord
  <1>5. CASE rec.type = "A"
    BY <1>5, AddIpGood DEF AddRecord
  <1>6. QED
    BY <1>1, <1>2, <1>3, <1>4, <1>5
----------------------------------------------------------------------------
(* The browse: the same of its entries, as long as no service moves.       *)
BrowseTrue(r) == EntryShaped(r) /\ TellsOf(r.inst, r) /\ (Steady => ReachesHost(r))

BrowseGood(rs) == IsSeq(rs) /\ \A i \in DOMAIN rs : BrowseTrue(rs[i])

LEMMA PutGood ==
  ASSUME NEW rs, BrowseGood(rs), NEW i, NEW v, i \in DOMAIN rs => BrowseTrue(v)
  PROVE  BrowseGood([rs EXCEPT ![i] = v])
  <1> DEFINE es == [rs EXCEPT ![i] = v]
  <1>1. IsSeq(es)
    BY AmendedLen DEF Kept, BrowseGood
  <1>2. DOMAIN es = DOMAIN rs /\ \A j \in DOMAIN rs : es[j] = IF j = i THEN v ELSE rs[j]
    OBVIOUS
  <1> HIDE DEF es
  <1>3. QED
    BY <1>1, <1>2 DEF BrowseGood, es

LEMMA FreshGood ==
  ASSUME NEW rs, BrowseGood(rs), NEW e, BrowseTrue(e)
  PROVE  BrowseGood(<<e>> \o rs)
  <1>1. PICK S : rs \in Seq(S)
    BY DEF BrowseGood, IsSeq
  <1> DEFINE es == <<e>> \o rs
             T == S \cup {e}
  <1>2. rs \in Seq(T) /\ e \in T
    BY <1>1
  <1> HIDE DEF T
  <1>3. /\ es \in Seq(T) /\ es[1] = e
        /\ \A j \in DOMAIN es : j # 1 => j - 1 \in DOMAIN rs /\ es[j] = rs[j - 1]
    BY <1>2
  <1> HIDE DEF es
  <1>4. BrowseGood(es)
    BY <1>3 DEF BrowseGood, IsSeq
  <1>5. QED
    BY <1>4 DEF es

(* The addresses copied to a service at a known host are those of the      *)
(* host (mdns_browser.c:492-511).                                          *)
LEMMA KnownAddresses ==
  ASSUME NEW rs, BrowseGood(rs), Steady, NEW host,
         NEW known, known = {i \in DOMAIN rs : rs[i].host = host /\ rs[i].addr # {}},
         known # {}
  PROVE  rs[CHOOSE i \in known : \A j \in known : i <= j].addr \subseteq SaidOf("A", host)
  <1>1. PICK i \in known : \A j \in 1..(i - 1) : j \notin known
    BY FirstOf DEF BrowseGood
  <1>2. PICK T : rs \in Seq(T)
    BY DEF BrowseGood, IsSeq
  <1>3. DOMAIN rs = 1..Len(rs) /\ Len(rs) \in Nat
    BY <1>2
  <1>4. known \subseteq 1..Len(rs)
    BY <1>3
  <1>5. \A j \in known : i <= j
    BY <1>1, <1>3, <1>4
  <1> DEFINE k == CHOOSE k \in known : \A j \in known : k <= j
  <1>6. k \in known
    BY <1>5
  <1> HIDE DEF k
  <1>7. rs[k].host = host /\ BrowseTrue(rs[k])
    BY <1>6 DEF BrowseGood
  <1>8. rs[k].addr \subseteq SaidOf("A", host)
    BY <1>7 DEF BrowseTrue, ReachesHost
  <1>9. QED
    BY <1>8 DEF k

LEMMA SrvChangeGood ==
  ASSUME NEW rs, BrowseGood(rs), NEW r, BrowseTrue(r), NEW rec \in Said,
         rec.type = "SRV", r.inst = rec.name
  PROVE  BrowseTrue(SrvChange(rs, r, rec).entry)
  <1> DEFINE known == {i \in DOMAIN rs : rs[i].host = rec.target /\ rs[i].addr # {}}
             copied == rs[CHOOSE i \in known : \A j \in known : i <= j].addr
             addr == IF r.host # rec.target /\ r.addr = {} /\ known # {} THEN copied ELSE r.addr
             ttl == Ttl(r.ttl, rec.ttl)
             host == rec.target
             r01 == [r EXCEPT !.host = host]
             r02 == [r01 EXCEPT !.addr = addr]
             r1 == [r02 EXCEPT !.ttl = ttl]
  <1>1. SrvChange(rs, r, rec).entry = r1
    BY DEF SrvChange
  <1>2. Steady /\ known # {} => copied \subseteq SaidOf("A", host)
    BY KnownAddresses
  <1>3. host \in SaidOf("SRV", r.inst)
    BY SaidTells
  <1>4. Steady /\ r.host # host => r.addr = {}
    <2>1. SUFFICES ASSUME Steady, r.host # host PROVE r.addr = {}
      OBVIOUS
    <2>2. r.host \in SaidOf("SRV", r.inst) => r.host = host
      BY <2>1 DEF SaidOf, Steady
    <2>3. r.host = NoName
      BY <2>1, <2>2 DEF BrowseTrue, TellsOf
    <2>4. QED
      BY <2>1, <2>3, NoNameHasNone DEF BrowseTrue, ReachesHost
  <1>5. Steady => addr \subseteq SaidOf("A", host)
    BY <1>2, <1>4 DEF BrowseTrue, ReachesHost
  <1>6. EntryShaped(r)
    BY DEF BrowseTrue
  <1> HIDE DEF addr, ttl, host
  <1>7. /\ EntryShaped(r01) /\ r01.inst = r.inst /\ r01.host = host /\ r01.txt = r.txt /\ r01.addr = r.addr
    BY <1>6, HostSet
  <1> HIDE DEF r01
  <1>8. /\ EntryShaped(r02) /\ r02.inst = r.inst /\ r02.host = host /\ r02.txt = r.txt /\ r02.addr = addr
    BY <1>7, AddrSet
  <1> HIDE DEF r02
  <1>9. Like(r02, r1)
    BY <1>8, TtlSet
  <1> HIDE DEF r1
  <1>10. /\ EntryShaped(r1) /\ r1.inst = r.inst /\ r1.host = host /\ r1.txt = r.txt /\ r1.addr = addr
    BY <1>8, <1>9 DEF Like
  <1>11. BrowseTrue(r1)
    BY <1>3, <1>5, <1>10 DEF BrowseTrue, TellsOf, ReachesHost
  <1>12. QED
    BY <1>1, <1>11

LEMMA TxtChangeGood ==
  ASSUME NEW r, BrowseTrue(r), NEW rec \in Said, rec.type = "TXT", r.inst = rec.name
  PROVE  BrowseTrue(TxtChange(r, rec).entry)
  <1> DEFINE ttl == Ttl(r.ttl, rec.ttl)
             x == rec.target
             r01 == [r EXCEPT !.txt = x]
             r1 == [r01 EXCEPT !.ttl = ttl]
  <1>1. TxtChange(r, rec).entry = r1
    BY DEF TxtChange
  <1>2. x \in SaidOf("TXT", r.inst)
    BY SaidTells
  <1> HIDE DEF ttl, x
  <1>3. /\ EntryShaped(r01) /\ r01.inst = r.inst /\ r01.host = r.host /\ r01.txt = x /\ r01.addr = r.addr
    BY TxtSet DEF BrowseTrue
  <1> HIDE DEF r01
  <1>4. Like(r01, r1)
    BY <1>3, TtlSet
  <1> HIDE DEF r1
  <1>5. BrowseTrue(r1)
    BY <1>2, <1>3, <1>4 DEF Like, BrowseTrue, TellsOf, ReachesHost
  <1>6. QED
    BY <1>1, <1>5

LEMMA AddressGood ==
  ASSUME NEW r, BrowseTrue(r), NEW rec \in Said, rec.type = "A", r.host = rec.name
  PROVE  BrowseTrue([r EXCEPT !.addr = @ \cup {rec.target}, !.ttl = Ttl(@, rec.ttl)])
  <1> DEFINE addr == r.addr \cup {rec.target}
             ttl == Ttl(r.ttl, rec.ttl)
             r01 == [r EXCEPT !.addr = addr]
             r1 == [r EXCEPT !.addr = @ \cup {rec.target}, !.ttl = Ttl(@, rec.ttl)]
             r2 == [r01 EXCEPT !.ttl = ttl]
  <1>1. EntryShaped(r01) /\ r01.inst = r.inst /\ r01.host = r.host /\ r01.txt = r.txt /\ r01.addr = addr
    <2> HIDE DEF addr
    <2>1. QED
      BY AddrSet DEF BrowseTrue
  <1>2. r01.ttl = r.ttl
    <2> HIDE DEF addr
    <2>1. QED
      BY DEF BrowseTrue, EntryShaped
  <1>3. r1 = r2
    <2>1. r1 = [r01 EXCEPT !.ttl = Ttl(r01.ttl, rec.ttl)]
      OBVIOUS
    <2> HIDE DEF r01, r1
    <2>2. QED
      BY <2>1, <1>2
  <1>4. Like(r01, r2)
    <2> HIDE DEF r01, ttl
    <2>1. QED
      BY <1>1, TtlSet
  <1> HIDE DEF r01, r1, r2
  <1>5. addr \subseteq SaidOf("A", r.host) \/ ~Steady
    BY SaidTells DEF BrowseTrue, ReachesHost
  <1> HIDE DEF addr
  <1>6. BrowseTrue(r2)
    BY <1>1, <1>4, <1>5 DEF Like, BrowseTrue, TellsOf, ReachesHost
  <1>7. QED
    BY <1>3, <1>6 DEF r1

(* Whatever record of the network the browse takes in, its entries stay    *)
(* truthful.                                                               *)
LEMMA BrowseAddGood ==
  ASSUME NEW rs, BrowseGood(rs), NEW rec \in Said, rec.type # "PTR"
  PROVE  BrowseGood(BrowseAdd(rs, rec).entries)
  <1> DEFINE i == CHOOSE i \in DOMAIN rs :
                    rs[i].inst = rec.name /\ \A j \in 1..(i - 1) : ~(rs[j].inst = rec.name)
             New(r) == r.host = rec.name /\ rec.target \notin r.addr
             k == CHOOSE k \in DOMAIN rs : New(rs[k]) /\ \A j \in 1..(k - 1) : ~New(rs[j])
             new == BrowseAdd(rs, rec)
  <1>1. CASE rec.type = "A"
    <2>1. CASE \E j \in DOMAIN rs : New(rs[j])
      <3> DEFINE e == [rs[k] EXCEPT !.addr = @ \cup {rec.target}, !.ttl = Ttl(@, rec.ttl)]
      <3>1. new.entries = [rs EXCEPT ![k] = e]
        BY <1>1, <2>1 DEF BrowseAdd, Has, First
      <3>2. k \in DOMAIN rs /\ New(rs[k])
        <4> DEFINE x == rec.name
                   y == rec.target
        <4>0. IsSeq(rs) /\ \E j \in DOMAIN rs : rs[j].host = x /\ y \notin rs[j].addr
          BY <2>1 DEF BrowseGood
        <4> HIDE DEF x, y
        <4> HIDE DEF k
        <4>1. LET m == NewAddressAt(rs, x, y)
              IN m \in DOMAIN rs /\ rs[m].host = x /\ y \notin rs[m].addr
          BY <4>0, FirstByNewAddress
        <4>2. k = NewAddressAt(rs, x, y)
          BY DEF k, x, y, NewAddressAt
        <4>3. QED
          BY <4>1, <4>2 DEF x, y
      <3> HIDE DEF k
      <3>3. BrowseTrue(e)
        BY <1>1, <3>2, AddressGood DEF BrowseGood
      <3> HIDE DEF e
      <3>4. BrowseGood([rs EXCEPT ![k] = e])
        BY <3>3, PutGood
      <3>5. QED
        BY <3>1, <3>4
    <2>2. CASE ~\E j \in DOMAIN rs : New(rs[j])
      <3>1. new.entries = rs
        BY <1>1, <2>2 DEF BrowseAdd, Has, First
      <3>2. QED
        BY <3>1
    <2>3. QED
      BY <2>1, <2>2
  <1>2. CASE rec.type # "A"
    <2>1. rec.type \in {"SRV", "TXT"}
      BY <1>2, PacketsAssumption
    <2>2. CASE ~\E j \in DOMAIN rs : rs[j].inst = rec.name
      <3> DEFINE f == Fresh(rec)
      <3>1. new.entries = <<f>> \o rs
        BY <1>2, <2>2 DEF BrowseAdd, Has, First
      <3>2. BrowseTrue(f)
        BY <2>1, SaidTells DEF Fresh, NewResult, BrowseTrue, EntryShaped, TellsOf, ReachesHost
      <3> HIDE DEF f
      <3>3. BrowseGood(<<f>> \o rs)
        BY <3>2, FreshGood
      <3>4. QED
        BY <3>1, <3>3
    <2>3. CASE \E j \in DOMAIN rs : rs[j].inst = rec.name
      <3> DEFINE v == IF rec.type = "SRV" THEN SrvChange(rs, rs[i], rec).entry
                                          ELSE TxtChange(rs[i], rec).entry
      <3>1. new.entries = [rs EXCEPT ![i] = v]
        BY <1>2, <2>3 DEF BrowseAdd, Has, First
      <3>2. i \in DOMAIN rs /\ rs[i].inst = rec.name
        BY <2>3, FirstByInst DEF BrowseGood
      <3> HIDE DEF i
      <3>3. BrowseTrue(v)
        BY <2>1, <3>2, SrvChangeGood, TxtChangeGood DEF BrowseGood
      <3> HIDE DEF v
      <3>4. BrowseGood([rs EXCEPT ![i] = v])
        BY <3>3, PutGood
      <3>5. QED
        BY <3>1, <3>4
    <2>4. QED
      BY <2>2, <2>3
  <1>3. QED
    BY <1>1, <1>2
----------------------------------------------------------------------------
(* The invariant: every list is good, unless it was misled, and what the   *)
(* service task has yet to parse was said by the network.                  *)
Coming(a) == IsRx(a) => a.arg.todo \in Seq(Said)

TInv ==
  /\ \A i \in DOMAIN queue : Coming(queue[i])
  /\ taken # NoAction => Coming(taken)
  /\ \A s \in Searches : ~search[s].misled => Good(search[s].ask, search[s].results)
  /\ ~browse.misled => BrowseGood(browse.results)

LEMMA EmptyGood == BrowseGood(<<>>) /\ \A ask : Good(ask, <<>>)
  <1>1. <<>> \in Seq({})
    OBVIOUS
  <1>2. QED
    BY <1>1 DEF BrowseGood, Good, IsSeq

LEMMA InitTInv == Init => TInv
  <1> SUFFICES ASSUME Init PROVE TInv
    OBVIOUS
  <1>1. queue = <<>> /\ taken = NoAction /\ browse.results = <<>>
        /\ \A s \in Searches : search[s].results = <<>>
    BY DEF Init, BrowseOff, NewBrowse, Blank, NewSearch
  <1>2. QED
    BY <1>1, EmptyGood DEF TInv

LEMMA TInvHolds == TInv => ResultsTruthful
  BY DEF TInv, Good, BrowseGood, BrowseTrue, ResultsTruthful, Entries

(* A search keeps its results, or is set anew without any; so does the     *)
(* browse; and what comes into the queue was said by the network.          *)
SearchesStay ==
  \A s \in Searches :
    \/ /\ search'[s].ask = search[s].ask /\ search'[s].results = search[s].results
       /\ search'[s].misled = search[s].misled
    \/ search'[s].results = <<>>

BrowseStays == browse' = browse \/ browse'.results = <<>>

QueueSaid ==
  \/ UNCHANGED queue
  \/ \E a : Coming(a) /\ queue' = Append(queue, a)

LEMMA Stay ==
  ASSUME BInv, TInv, SearchesStay, BrowseStays, QueueSaid, taken' \in {taken, NoAction}
  PROVE  TInv'
  <1>1. \A s \in Searches : ~search'[s].misled => Good(search'[s].ask, search'[s].results)
    BY EmptyGood DEF TInv, SearchesStay
  <1>2. ~browse'.misled => BrowseGood(browse'.results)
    BY EmptyGood DEF TInv, BrowseStays
  <1>3. \A i \in DOMAIN queue' : Coming(queue'[i])
    <2>1. PICK S : queue \in Seq(S)
      BY DEF BInv
    <2>2. CASE UNCHANGED queue
      BY <2>2 DEF TInv
    <2>3. ASSUME NEW a, Coming(a), queue' = Append(queue, a)
          PROVE  \A i \in DOMAIN queue' : Coming(queue'[i])
      <3> DEFINE T == S \cup {a}
      <3>1. queue \in Seq(T) /\ a \in T
        BY <2>1
      <3> HIDE DEF T
      <3>2. \A i \in DOMAIN queue' :
              (i \in DOMAIN queue /\ queue'[i] = queue[i]) \/ queue'[i] = a
        BY <2>3, <3>1
      <3>3. QED
        BY <2>3, <3>2 DEF TInv
    <2>4. QED
      BY <2>2, <2>3 DEF QueueSaid
  <1>4. taken' # NoAction => Coming(taken')
    BY DEF TInv
  <1>5. (\A i \in DOMAIN queue : Coming(queue[i]))' /\ (taken # NoAction => Coming(taken))'
    BY <1>3, <1>4 DEF Coming, IsRx
  <1>6. QED
    BY <1>1, <1>2, <1>5 DEF TInv, Good, BrowseGood, BrowseTrue
----------------------------------------------------------------------------
(* The steps.  Most leave the entries alone.                               *)
LEMMA StateSet ==
  ASSUME Shape, NEW s, NEW v, search' = [search EXCEPT ![s].state = v]
  PROVE  SearchesStay
  <1> DEFINE x == search[s]
             y == [x EXCEPT !.state = v]
  <1>1. search = [r \in Searches |-> search[r]] /\ \A r \in Searches : Shaped(search[r])
    BY DEF Shape
  <1>2. s \in Searches => y.ask = x.ask /\ y.results = x.results /\ y.misled = x.misled
    <2>1. SUFFICES ASSUME s \in Searches
                   PROVE  y.ask = x.ask /\ y.results = x.results /\ y.misled = x.misled
      OBVIOUS
    <2>2. x = [state |-> x.state, ask |-> x.ask, results |-> x.results, misled |-> x.misled]
      BY <1>1, <2>1 DEF Shaped
    <2>3. y = [state |-> v, ask |-> x.ask, results |-> x.results, misled |-> x.misled]
      BY <2>2
    <2> HIDE DEF y, x
    <2>4. QED
      BY <2>3
  <1>3. search' = [search EXCEPT ![s] = y]
    OBVIOUS
  <1> HIDE DEF x, y
  <1>4. search' = [r \in Searches |-> IF r = s THEN y ELSE search[r]]
    BY <1>1, <1>3
  <1>5. QED
    BY <1>2, <1>4 DEF SearchesStay, x

LEMMA SetAnew ==
  ASSUME Shape, NEW s, NEW x, search' = [search EXCEPT ![s] = x], x.results = <<>>
  PROVE  SearchesStay
  <1>1. search = [r \in Searches |-> search[r]]
    BY DEF Shape
  <1>2. search' = [r \in Searches |-> IF r = s THEN x ELSE search[r]]
    BY <1>1
  <1>3. QED
    BY <1>2 DEF SearchesStay

LEMMA PostedSaid ==
  ASSUME NEW type, type # "RX_HANDLE", NEW arg, UNCHANGED queue \/ queue' = Append(queue, Action(type, arg))
  PROVE  QueueSaid
  <1>1. Coming(Action(type, arg))
    BY DEF Coming, IsRx, Action
  <1>2. QED
    BY <1>1 DEF QueueSaid

LEMMA QuietSteps ==
  RInv /\ BInv /\ TInv /\ ( Application \/ Surroundings \/ Timer \/ SearchAdd \/ SearchSend \/ SearchEnd
                          \/ BrowseAddRun \/ BrowseEnd \/ BrowseSync \/ ParseNull \/ ParseEnd
                          \/ (\E s \in Searches : ParseDone(s)) \/ UNCHANGED vars )
  => TInv'
  <1> SUFFICES ASSUME RInv, BInv, TInv,
                      \/ Application \/ Surroundings \/ Timer \/ SearchAdd \/ SearchSend \/ SearchEnd
                      \/ BrowseAddRun \/ BrowseEnd \/ BrowseSync \/ ParseNull \/ ParseEnd
                      \/ (\E s \in Searches : ParseDone(s)) \/ UNCHANGED vars
               PROVE  SearchesStay /\ BrowseStays /\ QueueSaid /\ taken' \in {taken, NoAction}
    BY Stay
  <1>1. Shape
    BY DEF RInv
  <1>2. UNCHANGED search => SearchesStay
    BY DEF SearchesStay
  <1>3. UNCHANGED browse => BrowseStays
    BY DEF BrowseStays
  <1>4. UNCHANGED queue => QueueSaid
    BY DEF QueueSaid
  <1>5. CASE \E s \in Searches, ask \in Asks : Query(s, ask)
    <2>1. PICK s \in Searches, ask \in Asks : Query(s, ask)
      BY <1>5
    <2> DEFINE x == NewSearch("INIT", ask)
    <2>2. search' = [search EXCEPT ![s] = x] /\ x.results = <<>>
      BY <2>1 DEF Query, NewSearch
    <2> HIDE DEF x
    <2>3. SearchesStay
      BY <1>1, <2>2, SetAnew
    <2>4. QueueSaid
      BY <2>1, PostedSaid DEF Query, Post
    <2>5. QED
      BY <1>3, <2>1, <2>3, <2>4 DEF Query, browseVars
  <1>6. CASE \E s \in Searches : Return(s) \/ AsyncDelete(s)
    <2>1. PICK s \in Searches : Return(s) \/ AsyncDelete(s)
      BY <1>6
    <2>2. search' = [search EXCEPT ![s] = Blank] /\ Blank.results = <<>>
      BY <2>1 DEF Return, AsyncDelete, Free, Blank, NewSearch
    <2>3. SearchesStay
      BY <1>1, <2>2, SetAnew
    <2>4. QED
      BY <1>3, <1>4, <2>1, <2>3 DEF Return, AsyncDelete, browseVars
  <1>7. CASE \E s \in Searches : GetResults(s)
    BY <1>2, <1>3, <1>4, <1>7 DEF GetResults, browseVars
  <1>8. CASE BrowseNew \/ BrowseDelete
    BY <1>2, <1>3, <1>8, PostedSaid DEF BrowseNew, BrowseDelete, Post, searchVars, browseVars
  <1>9. CASE \E p \in Packets : Receive(p)
    <2>1. PICK p \in Packets : Receive(p)
      BY <1>9
    <2> DEFINE x == Unparsed(p)
    <2>2. Coming(Action("RX_HANDLE", x))
      BY PacketsAssumption DEF Coming, Action, Unparsed
    <2>3. UNCHANGED queue \/ queue' = Append(queue, Action("RX_HANDLE", x))
      BY <2>1 DEF Receive
    <2> HIDE DEF x
    <2>4. QueueSaid
      BY <2>2, <2>3 DEF QueueSaid
    <2>5. QED
      BY <1>2, <1>3, <2>1, <2>4 DEF Receive, searchVars, browseVars
  <1>10. CASE \E s \in Searches : TimeoutPasses(s)
    BY <1>2, <1>3, <1>4, <1>10 DEF TimeoutPasses, browseVars
  <1>11. CASE Timer
    <2>1. PICK s \in Searches : VisitOff(s) \/ VisitLate(s) \/ VisitSend(s) \/ VisitRunning(s)
      BY <1>11 DEF Timer
    <2>2. UNCHANGED <<taken, browse>>
      BY <2>1 DEF VisitOff, VisitLate, VisitSend, VisitRunning, Visit, browseVars
    <2>3. SearchesStay
      BY <1>1, <1>2, <2>1, StateSet DEF VisitOff, VisitLate, VisitSend, VisitRunning
    <2>4. QueueSaid
      <3>1. CASE VisitOff(s) \/ VisitRunning(s)
        BY <1>4, <3>1 DEF VisitOff, VisitRunning
      <3>2. CASE VisitLate(s)
        BY <3>2, PostedSaid DEF VisitLate
      <3>3. CASE VisitSend(s)
        BY <3>3, PostedSaid DEF VisitSend
      <3>4. QED
        BY <2>1, <3>1, <3>2, <3>3
    <2>5. QED
      BY <1>3, <2>2, <2>3, <2>4
  <1>12. CASE SearchAdd \/ SearchSend
    BY <1>2, <1>3, <1>4, <1>12 DEF SearchAdd, SearchSend, Execute, searchVars, browseVars
  <1>13. CASE SearchEnd
    <2>1. UNCHANGED search \/ search' = [search EXCEPT ![taken.arg].state = "OFF"]
      BY <1>13 DEF SearchEnd, Finish
    <2>2. SearchesStay
      BY <1>1, <1>2, <2>1, StateSet
    <2>3. QED
      BY <1>3, <1>4, <1>13, <2>2 DEF SearchEnd, Execute, browseVars
  <1>14. CASE \E s \in Searches : ParseDone(s)
    <2>1. PICK s \in Searches : ParseDone(s)
      BY <1>14
    <2>2. SearchesStay
      BY <1>1, <2>1, StateSet DEF ParseDone, Finish
    <2>3. QED
      BY <1>3, <1>4, <2>1, <2>2 DEF ParseDone, browseVars
  <1>15. CASE BrowseAddRun \/ BrowseEnd
    <2>1. BrowseStays
      BY <1>15 DEF BrowseAddRun, BrowseEnd, BrowseOff, NewBrowse, BrowseStays
    <2>2. QED
      BY <1>2, <1>4, <1>15, <2>1 DEF BrowseAddRun, BrowseEnd, Execute, searchVars
  <1>16. CASE BrowseSync
    <2>1. UNCHANGED <<queue, search, browse>>
      BY <1>16 DEF BrowseSync, searchVars
    <2>2. taken' \in {taken, NoAction}
      BY <1>16 DEF BrowseSync
    <2>3. QED
      BY <1>2, <1>3, <1>4, <2>1, <2>2
  <1>null. CASE ParseNull
    BY <1>2, <1>3, <1>4, <1>null DEF ParseNull, searchVars, browseVars
  <1>17. CASE ParseEnd
    <2>1. QueueSaid
      BY <1>4, <1>17, PostedSaid DEF ParseEnd
    <2>2. QED
      BY <1>2, <1>3, <1>17, <2>1 DEF ParseEnd, searchVars
  <1>18. CASE UNCHANGED vars
    BY <1>2, <1>3, <1>4, <1>18 DEF vars, searchVars, browseVars
  <1>19. QED
    BY <1>5, <1>6, <1>7, <1>8, <1>9, <1>10, <1>11, <1>12, <1>13, <1>14, <1>15, <1>16, <1>null,
       <1>17, <1>18
       DEF Application, Surroundings

(* What is taken was in the queue.                                         *)
LEMMA TakeSaid == BInv /\ TInv /\ Take => TInv'
  <1> SUFFICES ASSUME BInv, TInv, Take PROVE TInv'
    OBVIOUS
  <1>1. PICK S : queue \in Seq(S)
    BY DEF BInv
  <1>2. queue # <<>> /\ taken' = Head(queue) /\ queue' = Tail(queue) /\ UNCHANGED <<search, browse>>
    BY DEF Take, searchVars, browseVars
  <1>3. /\ 1 \in DOMAIN queue /\ taken' = queue[1]
        /\ \A i \in DOMAIN queue' : i + 1 \in DOMAIN queue /\ queue'[i] = queue[i + 1]
    BY <1>1, <1>2
  <1>4. Coming(taken') /\ \A i \in DOMAIN queue' : Coming(queue'[i])
    BY <1>3 DEF TInv
  <1>5. (\A i \in DOMAIN queue : Coming(queue[i]))' /\ (taken # NoAction => Coming(taken))'
    BY <1>4 DEF Coming, IsRx
  <1>6. QED
    BY <1>2, <1>5 DEF TInv, Good, BrowseGood, BrowseTrue

(* A record goes to the searches it belongs to, and to the browse.         *)
LEMMA ParseRecordTrue == RInv /\ BInv /\ TInv /\ ParseRecord => TInv'
  <1> SUFFICES ASSUME RInv, BInv, TInv, ParseRecord PROVE TInv'
    OBVIOUS
  <1> DEFINE todo == taken.arg.todo
             rec == Head(taken.arg.todo)
             New(s) == AddRecord(search[s].ask, search[s].results, rec)
             Led(s) == \/ search[s].misled
                       \/ rec.own /\ s \in taken.arg.kept /\ search[s].ask.type # "PTR"
             new == BrowseAdd(browse.results, Browsed(rec))
             adds == Browses(rec) /\ rec.type # "PTR" /\ ~Dropped(rec)
             p == taken.arg
             tl == IF adds THEN p.told \cup new.told ELSE p.told
             ms == browse.misled \/ (rec.own /\ rec.type # "A")
             kp == IF rec.type = "A" THEN {} ELSE Takers(rec)
             mn == Browses(rec)
             nm == Instance(rec)
             td == Tail(p.todo)
             x == [p EXCEPT !.todo = td, !.told = tl, !.kept = kp, !.mine = mn, !.inst = nm]
  <1>1. /\ taken # NoAction /\ IsRx(taken) /\ todo # <<>> /\ UNCHANGED queue
        /\ taken' = Action("RX_HANDLE", x)
        /\ browse' = IF adds THEN [browse EXCEPT !.results = new.entries, !.misled = ms] ELSE browse
        /\ search' = [s \in Searches |-> IF s \in Takers(rec) THEN Taken(s, rec) ELSE search[s]]
    BY DEF ParseRecord, Parsing, IsRx
  <1>2. todo \in Seq(Said)
    BY <1>1 DEF TInv, Coming
  <1>3. rec \in Said /\ Tail(todo) \in Seq(Said)
    <2> DEFINE y == todo
    <2> HIDE DEF y
    <2>1. y \in Seq(Said) /\ y # <<>>
      BY <1>1, <1>2 DEF y
    <2>2. Head(y) \in Said /\ Tail(y) \in Seq(Said)
      BY <2>1
    <2>3. QED
      BY <2>2 DEF y
  <1>4. Coming(taken')
    <2>1. PacketShaped(p)
      BY <1>1 DEF BInv, RxClean
    <2>2. td = Tail(todo)
      OBVIOUS
    <2>x. x = PacketWith(p, td, tl, kp, mn, nm)
      BY DEF PacketWith
    <2> HIDE DEF p, tl, kp, mn, nm, td, todo, rec, x
    <2>3. x.todo = td
      BY <2>1, <2>x, PacketSet
    <2>4. x.todo = Tail(todo)
      BY <2>2, <2>3
    <2>5. taken'.arg = x
      BY <1>1 DEF Action
    <2>6. QED
      BY <1>3, <2>4, <2>5 DEF Coming
  <1>5. ASSUME NEW s \in Searches
        PROVE  ~search'[s].misled => Good(search'[s].ask, search'[s].results)
    <2>1. CASE s \notin Takers(rec)
      <3>1. search'[s] = search[s]
        BY <1>1, <2>1
      <3>2. QED
        BY <3>1 DEF TInv
    <2>2. CASE s \in Takers(rec)
      <3> DEFINE z == search[s]
                 n == New(s)
                 m == Led(s)
      <3>1. z = [state |-> z.state, ask |-> z.ask, results |-> z.results, misled |-> z.misled]
        BY DEF RInv, Shape, Shaped
      <3>2. search'[s] = [z EXCEPT !.results = n, !.misled = m]
        BY <1>1, <2>2 DEF Taken
      <3>3. ASSUME ~m
            PROVE  /\ Good(z.ask, z.results)
                   /\ Finds(z.ask, z.results, rec) \/ z.ask.type = "PTR"
        <4>1. Good(z.ask, z.results)
          BY <3>3 DEF TInv
        <4>2. \/ s \in Hearers(rec) \/ s \in Later(rec)
              \/ rec.own /\ s \in taken.arg.kept
          BY <2>2 DEF Takers
        <4>3. QED
          BY <3>3, <4>1, <4>2 DEF Hearers, Later, Listens
      <3>4. ~m => Good(z.ask, n)
        <4> HIDE DEF rec, z, m
        <4>1. ~m => Good(z.ask, AddRecord(z.ask, z.results, rec))
          BY <1>3, <3>3, AddRecordGood
        <4>2. QED
          BY <4>1 DEF z
      <3> HIDE DEF z, n, m
      <3>5. search'[s] = [state |-> z.state, ask |-> z.ask, results |-> n, misled |-> m]
        BY <3>1, <3>2
      <3>6. QED
        BY <3>4, <3>5
    <2>3. QED
      BY <2>1, <2>2
  <1>6. ~browse'.misled => BrowseGood(browse'.results)
    <2> DEFINE b == browse
               es == new.entries
    <2>1. /\ b = [on |-> b.on, id |-> b.id, results |-> b.results, misled |-> b.misled]
          /\ ~b.misled => BrowseGood(b.results)
      BY DEF BInv, BrowseShape, TInv
    <2>2. CASE adds
      <3>1. browse' = [b EXCEPT !.results = es, !.misled = ms]
        BY <1>1, <2>2
      <3>2. ~ms => BrowseGood(es)
        <4>1. ~ms => Browsed(rec) = rec /\ rec.type # "PTR" /\ BrowseGood(b.results)
          BY <2>1, <2>2 DEF Browsed
        <4>2. BrowseGood(b.results) /\ rec.type # "PTR" =>
                BrowseGood(BrowseAdd(b.results, rec).entries)
          <5> HIDE DEF rec, b
          <5>1. QED
            BY <1>3, BrowseAddGood
        <4>3. QED
          BY <4>1, <4>2
      <3> HIDE DEF b, es, adds, new, ms
      <3>3. browse' = [on |-> b.on, id |-> b.id, results |-> es, misled |-> ms]
        BY <2>1, <3>1
      <3>4. QED
        BY <3>2, <3>3
    <2>3. CASE ~adds
      BY <1>1, <2>1, <2>3
    <2>4. QED
      BY <2>2, <2>3
  <1>7. \A i \in DOMAIN queue' : Coming(queue'[i])
    BY <1>1 DEF TInv
  <1>8. (\A i \in DOMAIN queue : Coming(queue[i]))' /\ (taken # NoAction => Coming(taken))'
    BY <1>4, <1>7 DEF Coming, IsRx
  <1>9. QED
    BY <1>5, <1>6, <1>8 DEF TInv, Good, BrowseGood, BrowseTrue

LEMMA NextTInv == RInv /\ BInv /\ TInv /\ [Next]_vars => TInv'
  BY QuietSteps, TakeSaid, ParseRecordTrue DEF Next, Service

(* For any network, however its packets, the searches and the browse       *)
(* interleave: no entry mixes names, except in a search of another type    *)
(* than PTR, or in the browse, once the parser has taken a record of this  *)
(* device for it: search_result, browse_result and browse_result_instance  *)
(* are still those of the record before (mdns_receive.c:599-603, 796-848). *)
(* A PTR search stays truthful then too.  The browse is, as long as no     *)
(* service moves (mdns_querier.c:466-640, mdns_receive.c:880-1080,         *)
(* mdns_browser.c:249-276, 492-594).                                       *)
THEOREM LookupTellsTheTruth ==
  ASSUME NoActionIsNone
  PROVE  Spec => []ResultsTruthful
  <1>1. RInv /\ Pointed /\ [Next]_vars => RInv' /\ Pointed'
    BY NextSim
  <1>2. BInv /\ [Next]_vars => BInv'
    BY NextBInv
  <1>3. QED
    BY <1>1, <1>2, InitRInv, InitPointed, InitBInv, InitTInv, NextTInv, TInvHolds, PTL DEF Spec
===========================================================================
