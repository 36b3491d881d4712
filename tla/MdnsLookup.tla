---------------------------- MODULE MdnsLookup ----------------------------
(***************************************************************************)
(* Searches and the browse of the mDNS component: the tasks that call      *)
(* mdns_query*, mdns_browse_*, the periodic timer (mdns_priv_query_start_  *)
(* stop), the receive callback that queues packets, and the service task   *)
(* that executes the queued actions under the service lock.                *)
(*                                                                         *)
(* The service task takes an action before it takes the lock, and keeps    *)
(* the lock while it executes it; the timer keeps it for a whole walk of   *)
(* the chain.  Posting to the queue never blocks: a full queue refuses.    *)
(***************************************************************************)
EXTENDS MdnsResults

CONSTANTS
  Searches,      \* addresses of mdns_search_once_t
  Asks,          \* what an application asks for
  Packets,       \* packets from the network: [records, end]
  QueueLen,      \* MDNS_ACTION_QUEUE_LEN
  MaxCalls,      \* bound: calls of the application
  MaxRx,         \* bound: packets received
  NoAction

ASSUME QueueAssumption == QueueLen \in Nat \ {0}
\* The records the network may send.  Only a PTR comes without a name.
Said == UNION {{p.records[i] : i \in DOMAIN p.records} : p \in Packets}

ASSUME PacketsAssumption ==
  /\ \A p \in Packets : p.records \in Seq(Said)
  /\ \A rec \in Said : rec.type \in {"PTR", "SRV", "TXT", "A"} /\ rec.own \in BOOLEAN
                      /\ (rec.type # "PTR" => rec.name # NoName)
ASSUME AsksAssumption == \A ask \in Asks : ask.mode \in {"waiting", "open"} /\ ask.max \in Nat

VARIABLES
  queue,         \* s_action_queue
  taken,         \* the action the service task has received, or NoAction
  lock,          \* who holds s_service_semaphore
  pos,           \* the timer's place in the chain
  chain,         \* s_search_once, newest first
  search,        \* the memory of each search
  user,          \* what the caller of each search is doing
  given,         \* searches whose done_semaphore is given
  late,          \* searches whose timeout has passed
  browse,        \* the browse in s_browse: results, or off
  told,          \* what the notifier was told of each instance
  fault,         \* the service task's end, if it has met one
  lost,          \* a BROWSE_SYNC found the queue full
  calls, rx      \* counters for the bounds

searchVars == <<chain, search, user, given, late>>
browseVars == <<browse, told, lost>>
vars == <<queue, taken, lock, pos, searchVars, browseVars, fault, calls, rx>>

Action(type, arg) == [type |-> type, arg |-> arg]

\* A search, and a browse.  misled is history: it was given a record of this
\* device that belongs to another name, see Takers.
NewSearch(state, ask) == [state |-> state, ask |-> ask, results |-> <<>>, misled |-> FALSE]
NewBrowse(on, id) == [on |-> on, id |-> id, results |-> <<>>, misled |-> FALSE]

\* Memory that holds none.
Blank == NewSearch("OFF", Ask("PTR", NoName, TRUE, 0, "open"))
BrowseOff == NewBrowse(FALSE, 0)

Init ==
  /\ queue = <<>> /\ taken = NoAction /\ lock = "free" /\ pos = 1
  /\ chain = <<>>
  /\ search = [s \in Searches |-> Blank]
  /\ user = [s \in Searches |-> "none"]
  /\ given = {} /\ late = {}
  /\ browse = BrowseOff /\ told = {} /\ lost = FALSE
  /\ fault = "none" /\ calls = 0 /\ rx = 0

----------------------------------------------------------------------------
\* Mutant: the queue takes one action too many.
HasSlotAndOne == Len(queue) <= QueueLen

\* mdns_priv_queue_action.
HasSlot == Len(queue) < QueueLen
Post(type, arg) == HasSlot /\ queue' = Append(queue, Action(type, arg))

\* The application.  A call whose action the queue refuses frees what it had
\* allocated and returns an error: nothing changes.

Calls == calls < MaxCalls /\ calls' = calls + 1

\* mdns_query_generic blocks ("waiting"), mdns_query_async_new does not ("open").
Query(s, ask) ==
  /\ Calls
  /\ user[s] = "none"
  /\ Post("SEARCH_ADD", s)
  /\ search' = [search EXCEPT ![s] = NewSearch("INIT", ask)]
  /\ user' = [user EXCEPT ![s] = ask.mode]
  /\ UNCHANGED <<taken, lock, pos, chain, given, late, browseVars, fault, rx>>

\* search_free: the memory and the semaphore in it.
Free(s) ==
  /\ search' = [search EXCEPT ![s] = Blank]
  /\ user' = [user EXCEPT ![s] = "none"]
  /\ late' = late \ {s} /\ given' = given \ {s}

\* mdns_query_generic wakes: it takes the results and frees the search.
Return(s) ==
  /\ user[s] = "waiting" /\ s \in given
  /\ Free(s)
  /\ UNCHANGED <<queue, taken, lock, pos, chain, browseVars, fault, calls, rx>>

\* mdns_query_async_get_results returns true.
GetResults(s) ==
  /\ user[s] = "open" /\ s \in given
  /\ given' = given \ {s}
  /\ user' = [user EXCEPT ![s] = "got"]
  /\ UNCHANGED <<queue, taken, lock, pos, chain, search, late, browseVars, fault, calls, rx>>

\* mdns_query_async_delete, after the results: the state is read without the
\* lock, the search is freed with it.
AsyncDelete(s) ==
  /\ user[s] = "got" /\ search[s].state = "OFF"
  /\ lock = "free"
  /\ Free(s)
  /\ UNCHANGED <<queue, taken, lock, pos, chain, browseVars, fault, calls, rx>>

\* mdns_browse_new and mdns_browse_delete only post an action.
BrowseNew ==
  /\ Calls
  /\ Post("BROWSE_ADD", calls')
  /\ UNCHANGED <<taken, lock, pos, searchVars, browseVars, fault, rx>>

BrowseDelete ==
  /\ Calls
  /\ Post("BROWSE_END", calls')
  /\ UNCHANGED <<taken, lock, pos, searchVars, browseVars, fault, rx>>

----------------------------------------------------------------------------
\* The surroundings.

\* A packet as mdns_parse_packet begins with it: the records to come, the
\* instances to tell of, and what its three pointers point to: search_result,
\* browse_result and browse_result_instance.
Unparsed(p) == [todo |-> p.records, end |-> p.end, told |-> {},
                kept |-> {}, mine |-> FALSE, inst |-> NoName]

\* The receive callback queues a packet, or drops it.
Receive(p) ==
  /\ rx < MaxRx /\ rx' = rx + 1
  /\ queue' = IF HasSlot
              THEN Append(queue, Action("RX_HANDLE", Unparsed(p)))
              ELSE queue
  /\ UNCHANGED <<taken, lock, pos, searchVars, browseVars, fault, calls>>

TimeoutPasses(s) ==
  /\ user[s] # "none" /\ search[s].state # "OFF" /\ s \notin late
  /\ late' = late \cup {s}
  /\ UNCHANGED <<queue, taken, lock, pos, chain, search, user, given, browseVars, fault, calls, rx>>

----------------------------------------------------------------------------
\* The timer: mdns_priv_query_start_stop.

\* The search under the timer's eye, and the step to the next one; the lock is
\* taken before the first and given back after the last.
Visit(s) ==
  /\ lock = IF pos = 1 THEN "free" ELSE "timer"
  /\ chain # <<>> /\ s = chain[pos]
  /\ IF pos = Len(chain) THEN pos' = 1 /\ lock' = "free"
                         ELSE pos' = pos + 1 /\ lock' = "timer"
  /\ UNCHANGED <<taken, chain, user, given, late, browseVars, fault, calls, rx>>

VisitOff(s) ==
  /\ Visit(s)
  /\ search[s].state = "OFF"
  /\ UNCHANGED <<queue, search>>

\* Mutant: it stays OFF when the queue is full.
VisitLateOnce(s) ==
  /\ Visit(s)
  /\ search[s].state # "OFF" /\ s \in late
  /\ search' = [search EXCEPT ![s].state = "OFF"]
  /\ queue' = IF HasSlot THEN Append(queue, Action("SEARCH_END", s)) ELSE queue

\* Its timeout has passed: OFF, and RUNNING again when the queue is full.
VisitLate(s) ==
  /\ Visit(s)
  /\ search[s].state # "OFF" /\ s \in late
  /\ IF HasSlot
     THEN /\ queue' = Append(queue, Action("SEARCH_END", s))
          /\ search' = [search EXCEPT ![s].state = "OFF"]
     ELSE /\ search' = [search EXCEPT ![s].state = "RUNNING"]
          /\ UNCHANGED queue

\* It is new, or was sent a second ago (or could not be): it is sent.
VisitSend(s) ==
  /\ Visit(s)
  /\ search[s].state # "OFF" /\ s \notin late
  /\ search' = [search EXCEPT ![s].state = "RUNNING"]
  /\ queue' = IF HasSlot THEN Append(queue, Action("SEARCH_SEND", s)) ELSE queue

\* It was sent less than a second ago.
VisitRunning(s) ==
  /\ Visit(s)
  /\ search[s].state = "RUNNING" /\ s \notin late
  /\ UNCHANGED <<queue, search>>

Timer ==
  \E s \in Searches : VisitOff(s) \/ VisitLate(s) \/ VisitSend(s) \/ VisitRunning(s)

----------------------------------------------------------------------------
\* The service task.

Take ==
  /\ fault = "none" /\ taken = NoAction /\ queue # <<>>
  /\ taken' = Head(queue) /\ queue' = Tail(queue)
  /\ UNCHANGED <<lock, pos, searchVars, browseVars, fault, calls, rx>>

\* Execute an action of this type with the lock, and give it back.
Execute(type) ==
  /\ fault = "none" /\ lock = "free"
  /\ taken # NoAction /\ taken.type = type
  /\ taken' = NoAction
  /\ UNCHANGED <<lock, pos, calls, rx>>

SearchAdd ==
  /\ Execute("SEARCH_ADD")
  /\ chain' = <<taken.arg>> \o chain
  /\ UNCHANGED <<queue, search, user, given, late, browseVars, fault>>

\* search_send: a packet, if the search is still in the chain.
SearchSend ==
  /\ Execute("SEARCH_SEND")
  /\ UNCHANGED <<queue, searchVars, browseVars, fault>>

Chained == {chain[i] : i \in DOMAIN chain}
Ended == {s \in Searches : s \in given \/ user[s] = "got"}

\* queueDetach of the i-th element.
Without(i) == [j \in 1..(Len(chain) - 1) |-> IF j < i THEN chain[j] ELSE chain[j + 1]]

\* Mutant: the search stays in the chain.
FinishInChain(s) ==
  /\ search' = [search EXCEPT ![s].state = "OFF"]
  /\ given' = given \cup {s}
  /\ UNCHANGED chain

\* search_finish: state, chain, semaphore.
Finish(s) ==
  /\ search' = [search EXCEPT ![s].state = "OFF"]
  /\ IF s \in Chained
     THEN \E i \in DOMAIN chain : chain[i] = s /\ chain' = Without(i)
     ELSE UNCHANGED chain
  /\ given' = given \cup {s}

\* A search that a packet has finished meanwhile is finished again; if its
\* caller has freed it by then, the task works on freed memory ("freed").
SearchEnd ==
  /\ Execute("SEARCH_END")
  /\ IF taken.arg \in Chained \cup Ended
     THEN Finish(taken.arg) /\ UNCHANGED fault
     ELSE fault' = "freed" /\ UNCHANGED <<search, chain, given>>
  /\ UNCHANGED <<queue, user, late, browseVars>>

BrowseAddRun ==
  /\ Execute("BROWSE_ADD")
  /\ browse' = IF browse.on THEN browse ELSE NewBrowse(TRUE, taken.arg)
  /\ told' = IF browse.on THEN told ELSE {}
  /\ UNCHANGED <<queue, searchVars, fault, lost>>

BrowseEnd ==
  /\ Execute("BROWSE_END")
  /\ browse' = BrowseOff /\ told' = {}
  /\ UNCHANGED <<queue, searchVars, fault, lost>>

\* browse_sync.  The action holds the address of the browse: when that has
\* been freed since, the task reads freed memory ("stale").  An entry with
\* TTL 0 is freed with the public mdns_query_results_free, which waits for
\* the lock this task holds ("self").
Changed(sync) == {i \in DOMAIN browse.results : browse.results[i].inst \in sync.insts}

BrowseSync ==
  /\ fault = "none" /\ lock = "free"
  /\ taken # NoAction /\ taken.type = "BROWSE_SYNC"
  /\ LET sync == taken.arg
         alive == browse.on /\ browse.id = sync.id
         gone == alive /\ \E i \in Changed(sync) : browse.results[i].ttl = 0
     IN /\ fault' = IF ~alive THEN "stale" ELSE IF gone THEN "self" ELSE "none"
        /\ lock' = IF alive /\ ~gone THEN "free" ELSE "service"
        /\ taken' = IF alive /\ ~gone THEN NoAction ELSE taken
        /\ told' = IF alive /\ ~gone
                   THEN {r \in told : r.inst \notin sync.insts}
                          \cup {browse.results[i] : i \in Changed(sync)}
                   ELSE told
  /\ UNCHANGED <<queue, pos, searchVars, browse, lost, calls, rx>>

\* mdns_parse_packet: with the lock, the records one by one.
Parsing ==
  /\ fault = "none" /\ lock \in {"free", "service"}
  /\ taken # NoAction /\ taken.type = "RX_HANDLE"

Listens(s, rec) ==
  search[s].state # "OFF" /\ Finds(search[s].ask, search[s].results, rec)

\* mdns_priv_query_find returns the newest search a record belongs to; only
\* an address is offered to the others too.
Hearers(rec) ==
  {chain[i] : i \in {k \in DOMAIN chain :
      /\ Listens(chain[k], rec)
      /\ rec.type # "A" => \A j \in 1..(k - 1) : ~Listens(chain[j], rec)}}

\* The pointers are set anew for a record of other names only.  For one of
\* this device they are what the record before has left: the search, to which
\* it is then added whatever that search asks for (and an address to the later
\* searches it belongs to), and the browse with the instance last read.
Later(rec) ==
  {chain[i] : i \in {k \in DOMAIN chain :
      Listens(chain[k], rec) /\ \E j \in 1..(k - 1) : chain[j] \in taken.arg.kept}}

Takers(rec) ==
  IF ~rec.own THEN Hearers(rec)
  ELSE IF rec.type = "A" /\ taken.arg.kept # {} THEN taken.arg.kept \cup Later(rec)
  ELSE taken.arg.kept

Browses(rec) ==
  browse.on /\ IF rec.own THEN taken.arg.mine ELSE BrowseFinds(browse.results, rec)

Instance(rec) ==
  IF ~rec.own /\ Browses(rec) /\ rec.type \in {"SRV", "TXT"} THEN rec.name ELSE taken.arg.inst

Taken(s, rec) ==
  [search[s] EXCEPT !.results = AddRecord(search[s].ask, @, rec),
                    !.misled = @ \/ (rec.own /\ s \in taken.arg.kept /\ search[s].ask.type # "PTR")]

\* A SRV record for which a PTR search has no room is not read any further.
Dropped(rec) ==
  /\ rec.type = "SRV"
  /\ \E s \in Takers(rec) :
       /\ search[s].ask.type = "PTR" /\ ~HasRoom(search[s].ask, search[s].results)
       /\ \A i \in DOMAIN search[s].results : search[s].results[i].inst # rec.name

\* What the browse reads of a record.
Browsed(rec) ==
  IF rec.own /\ rec.type # "A" THEN [rec EXCEPT !.name = taken.arg.inst] ELSE rec

\* A record of this device after an address only: there is a browse but no
\* instance, and a null pointer is compared.
Unnamed(rec) ==
  Browses(rec) /\ rec.own /\ rec.type \in {"SRV", "TXT"} /\ taken.arg.inst = NoName

ParseRecord ==
  /\ Parsing /\ taken.arg.todo # <<>>
  /\ ~Unnamed(Head(taken.arg.todo))
  /\ LET rec == Head(taken.arg.todo)
         new == BrowseAdd(browse.results, Browsed(rec))
         adds == Browses(rec) /\ rec.type # "PTR" /\ ~Dropped(rec)
     IN /\ search' = [s \in Searches |-> IF s \in Takers(rec) THEN Taken(s, rec) ELSE search[s]]
        /\ browse' = IF adds
                     THEN [browse EXCEPT !.results = new.entries,
                                         !.misled = @ \/ (rec.own /\ rec.type # "A")]
                     ELSE browse
        /\ taken' = Action("RX_HANDLE",
             [taken.arg EXCEPT !.todo = Tail(@),
                               !.told = IF adds THEN @ \cup new.told ELSE @,
                               !.kept = IF rec.type = "A" THEN {} ELSE Takers(rec),
                               !.mine = Browses(rec),
                               !.inst = Instance(rec)])
  /\ lock' = "service"
  /\ UNCHANGED <<queue, pos, chain, user, given, late, told, lost, fault, calls, rx>>

ParseNull ==
  /\ Parsing /\ taken.arg.todo # <<>>
  /\ Unnamed(Head(taken.arg.todo))
  /\ fault' = "null"
  /\ lock' = "service"
  /\ UNCHANGED <<queue, taken, pos, searchVars, browseVars, calls, rx>>

\* mdns_priv_query_done, after the last record of an authoritative packet
\* that was read to its end (not "cut" by a record it cannot read, and not
\* "truncated": a response with other flags than QR and AA): every search
\* with all its results is finished.
Full(s) == search[s].ask.max > 0 /\ Len(search[s].results) >= search[s].ask.max

ParseDone(s) ==
  /\ Parsing /\ taken.arg.todo = <<>> /\ taken.arg.end = "whole" /\ lock = "service"
  /\ s \in Chained /\ Full(s)
  /\ Finish(s)
  /\ UNCHANGED <<queue, taken, lock, pos, user, late, browseVars, fault, calls, rx>>

\* The changes are posted to be told, and the packet is freed.
ParseEnd ==
  /\ Parsing /\ taken.arg.todo = <<>>
  /\ taken.arg.end = "whole" => \A i \in DOMAIN chain : ~Full(chain[i])
  /\ LET tell == taken.arg.end # "cut" /\ taken.arg.told # {}
     IN /\ queue' = IF tell /\ HasSlot
                    THEN Append(queue, Action("BROWSE_SYNC", [id |-> browse.id, insts |-> taken.arg.told]))
                    ELSE queue
        /\ lost' = (lost \/ (taken.arg.told # {} /\ queue' = queue))
  /\ taken' = NoAction /\ lock' = "free"
  /\ UNCHANGED <<pos, searchVars, browse, told, fault, calls, rx>>

Service ==
  \/ Take
  \/ SearchAdd \/ SearchSend \/ SearchEnd
  \/ BrowseAddRun \/ BrowseEnd \/ BrowseSync
  \/ ParseRecord \/ ParseNull \/ ParseEnd
  \/ \E s \in Searches : ParseDone(s)

----------------------------------------------------------------------------
Application ==
  \/ \E s \in Searches, ask \in Asks : Query(s, ask)
  \/ \E s \in Searches : Return(s) \/ GetResults(s) \/ AsyncDelete(s)
  \/ BrowseNew \/ BrowseDelete

Surroundings ==
  \/ \E p \in Packets : Receive(p)
  \/ \E s \in Searches : TimeoutPasses(s)

Next == Application \/ Surroundings \/ Timer \/ Service

Spec == Init /\ [][Next]_vars

\* The tasks run; time passes.  The service task waits for a mutex that the
\* timer gives back every 100 ms, and is woken when it is: strong fairness.
FairSpec ==
  /\ Spec
  /\ WF_vars(Timer) /\ SF_vars(Service)
  /\ \A s \in Searches : WF_vars(TimeoutPasses(s)) /\ WF_vars(Return(s))
----------------------------------------------------------------------------
\* Properties.

Actions == {queue[i] : i \in DOMAIN queue} \cup (IF taken = NoAction THEN {} ELSE {taken})

LookupTypeOK ==
  /\ Len(queue) <= QueueLen
  /\ lock \in {"free", "timer", "service"}
  /\ pos \in 1..(Len(chain) + 1) /\ (pos > 1 <=> lock = "timer")
  /\ Chained \subseteq Searches
  /\ user \in [Searches -> {"none", "waiting", "open", "got"}]
  /\ \A s \in Searches : search[s].state \in {"OFF", "INIT", "RUNNING"}
  /\ given \subseteq Searches /\ late \subseteq Searches

\* The chain, and every search still to be put into it, are memory the caller
\* may not free yet: a search leaves the chain before its semaphore is given
\* (mdns_querier.c:59-67, 107-131).
Freed(s) == user[s] = "none" \/ s \in Ended

NoDangling ==
  /\ \A s \in Chained : ~Freed(s)
  /\ \A a \in Actions : a.type = "SEARCH_ADD" => ~Freed(a.arg)

\* mdns.h:645-646: a query of mdns_query_async_new may be deleted after its
\* search has ended.  Read as: what has ended and been deleted is not touched
\* by the service task any more.
DeletedIsForgotten == fault # "freed"

\* A blocked caller of mdns_query_generic always gets its results, whatever
\* the queue refused meanwhile, unless a fault has stopped the task
\* (mdns_querier.c:136-163, 787).
QueryReturns ==
  \A s \in Searches : user[s] = "waiting" ~> user[s] = "none" \/ fault # "none"

\* The searches implement the promise of the query functions.
Phase(s) ==
  IF s \in Ended THEN "done"
  ELSE IF user[s] = "none" THEN "none" ELSE "pending"

Api == INSTANCE MdnsSearchApi WITH
  Limits <- {a.max : a \in Asks},
  phase <- [s \in Searches |-> Phase(s)],
  count <- [s \in Searches |-> Len(search[s].results)],
  max <- [s \in Searches |-> search[s].ask.max]

SearchesKeepPromise == Api!Spec

\* Once nothing is on its way, the notifier has been told the host, the
\* addresses and the TTL of every entry, unless a full queue or a broken
\* packet lost the change (mdns_browser.c:61-77, 249-276).
Seen(rs) == {<<r.inst, r.host, r.addr, r.ttl>> : r \in rs}
Entries == {browse.results[i] : i \in DOMAIN browse.results}
Quiet ==
  /\ lock # "service"
  /\ \A a \in Actions : a.type # "BROWSE_SYNC"

BrowserToldHosts == browse.on /\ Quiet /\ ~lost => Seen(told) = Seen(Entries)

\* What the network says of a name.
SaidOf(type, name) == {rec.target : rec \in {x \in Said : x.type = type /\ x.name = name}}

\* The host and the text of an entry, if it has them, are ones of its instance.
TellsOf(inst, r) ==
  /\ r.host # NoName => r.host \in SaidOf("SRV", inst)
  /\ r.txt # NoName => r.txt \in SaidOf("TXT", inst)

ReachesHost(r) == r.addr \subseteq SaidOf("A", r.host)

\* A PTR search keeps one entry per instance; a search for one host or one
\* instance tells of what it asked for.
TruthfulFor(ask, r) ==
  /\ ReachesHost(r)
  /\ CASE ask.type = "PTR" -> TellsOf(r.inst, r)
       [] ask.type = "A" \/ (ask.type = "ANY" /\ ~ask.service) ->
            r.host = ask.name /\ r.inst = NoName /\ r.txt = NoName
       [] OTHER -> TellsOf(ask.name, r) /\ r.inst \in {NoName, ask.name}

\* No service moves to another host.
Steady ==
  \A x, y \in Said : x.type = "SRV" /\ y.type = "SRV" /\ x.name = y.name => x.target = y.target

\* However records, packets and searches interleave, an entry a search or the
\* browse has put together never mixes names: it has the host and the text of
\* its own instance, and the addresses of its own host; for a PTR search even
\* when the parser takes a record of this device for the search of the record
\* before, but not for a search of another type or the browse it misled that
\* way.  The browse keeps the addresses of a service that moves
\* (mdns_querier.c:466-640, mdns_receive.c:599-1080, mdns_browser.c:492-615).
ResultsTruthful ==
  /\ \A s \in Searches : ~search[s].misled =>
       \A i \in DOMAIN search[s].results : TruthfulFor(search[s].ask, search[s].results[i])
  /\ ~browse.misled => \A r \in Entries : TellsOf(r.inst, r) /\ (Steady => ReachesHost(r))
============================================================================
