----------------------------- MODULE MdnsProbe -----------------------------
(***************************************************************************)
(* The names this device claims: the states of its interfaces              *)
(* (mdns_pcb.c), the packets waiting to be sent (mdns_send.c), the         *)
(* services and names of the application (mdns_responder.c), the conflicts *)
(* and questions that arrive (mdns_receive.c), the interfaces that come    *)
(* and go (mdns_netif.c, mdns_networking_lwip.c), and the two tasks that   *)
(* carry it on (mdns_service.c).                                           *)
(*                                                                         *)
(* Every operation holds the service lock.  The timer keeps it for a walk  *)
(* of the packets that are due, the service task for one action.  Time is  *)
(* the moment each waiting packet becomes due, one after the other.        *)
(***************************************************************************)
EXTENDS Integers, Sequences, FiniteSets, SequencesExt

CONSTANTS
  Pcbs,          \* the interfaces, each with one protocol
  Services,      \* addresses of mdns_srv_item_t
  Named,         \* the services registered with an instance name of their own
  TypeOf(_),     \* service type
  Host,          \* stands for the records of the host name
  NoAction,
  Addrs,         \* memory: where packets may be
  Places,        \* places in the queue a delay may lead to
  QueueLen,      \* MDNS_ACTION_QUEUE_LEN
  MaxCalls,      \* bound: calls of the application and events of the network
  MaxRx          \* bound: packets received

ASSUME ProbeAssumption ==
  /\ Host \notin Services
  /\ IsFiniteSet(Pcbs)
  /\ QueueLen \in Nat
  /\ Places \subseteq Nat
  /\ \A a \in Addrs : NoAction # [type |-> "TX_HANDLE", arg |-> a]

VARIABLES
  tx,            \* s_tx_queue_head: addresses, by the time they are due
  mem,           \* the packet at each address
  pcb,           \* s_pcbs, with mdns_priv_if_ready
  services,      \* s_server->services, newest first
  hostname,      \* s_server->hostname is set
  instance,      \* s_server->instance is set
  own,           \* the services that have an instance name of their own
  queue, taken, lock,   \* as in MdnsLookup
  cur,           \* the timer's place in tx, 0 when it is not at work
  early,         \* a packet was sent before it was due
  refused,       \* the queue was full when a packet was due
  stray,         \* an interface that is not up has been made to probe
  calls, rx      \* counters for the bounds

names == <<services, hostname, instance, own>>
sending == <<tx, mem, pcb, stray>>
tasks == <<queue, taken, lock, cur>>
vars == <<sending, names, tasks, early, refused, calls, rx>>

PcbSeq == SetToSeq(Pcbs)
Slots == [Pcbs -> Places]  \* by the delay that an interface chooses
Waiting == ToSet(tx)
Registered == ToSet(services)

\* x carried by Step through the elements of seq, and the elements of seq that
\* are in S; functions, so that they can be proved about.
Walk(Step(_, _), x, seq) ==
  LET walk[i \in 0..Len(seq)] == IF i = 0 THEN x ELSE Step(walk[i - 1], seq[i])
  IN walk[Len(seq)]

Only(seq, S) == Walk(LAMBDA kept, e : IF e \in S THEN Append(kept, e) ELSE kept, <<>>, seq)

\* asks are the instances (and Host) the questions name; hosts are the services
\* whose copy of the host name a question points to; servers and answers are
\* the services (and Host) with records there; kind is what it is made for;
\* sent counts its transmissions, renamed tells that a name in it has changed
\* since it was made, and shared that other devices may answer for it
\* (distributed).
Packet(kind, p, asks, hosts, servers, answers) ==
  [kind |-> kind, pcb |-> p, asks |-> asks, hosts |-> hosts,
   servers |-> servers, answers |-> answers,
   due |-> FALSE, queued |-> FALSE, sent |-> 0, renamed |-> FALSE,
   shared |-> FALSE]
Free == [kind |-> "free"]

Probing(c)    == c.state \in {"PROBE_1", "PROBE_2", "PROBE_3"}
Announcing(c) == c.state \in {"ANNOUNCE_1", "ANNOUNCE_2", "ANNOUNCE_3"}
AfterProbing(c) == Announcing(c) \/ c.state = "RUNNING"

\* Mutant: the second announcement is repeated for ever.
NextStateStops == [PROBE_1 |-> "PROBE_2", PROBE_2 |-> "PROBE_3", PROBE_3 |-> "ANNOUNCE_1",
                   ANNOUNCE_1 |-> "ANNOUNCE_2", ANNOUNCE_2 |-> "ANNOUNCE_2"]

NextState == [PROBE_1 |-> "PROBE_2", PROBE_2 |-> "PROBE_3", PROBE_3 |-> "ANNOUNCE_1",
              ANNOUNCE_1 |-> "ANNOUNCE_2", ANNOUNCE_2 |-> "ANNOUNCE_3"]

PcbOff == [ready |-> FALSE, state |-> "OFF", probes |-> <<>>, ip |-> FALSE]

\* mdns_init with both interfaces up: nothing to probe without a host name.
Init ==
  /\ tx = <<>> /\ mem = [a \in Addrs |-> Free]
  /\ pcb = [p \in Pcbs |-> [PcbOff EXCEPT !.ready = TRUE, !.state = "RUNNING"]]
  /\ services = <<>> /\ hostname = FALSE /\ instance = FALSE /\ own = Named
  /\ queue = <<>> /\ taken = NoAction /\ lock = "free" /\ cur = 0
  /\ early = FALSE /\ refused = FALSE /\ stray = FALSE /\ calls = 0 /\ rx = 0

----------------------------------------------------------------------------
\* The packets, as functions of the state st.

Now == [tx |-> tx, mem |-> mem, pcb |-> pcb, named |-> hostname]
Becomes(st) ==
  /\ tx' = st.tx /\ mem' = st.mem /\ pcb' = st.pcb /\ hostname' = st.named
  /\ stray' = (stray \/ \E p \in Pcbs : ~st.pcb[p].ready /\ Probing(st.pcb[p]))

PutPacket(st, a, m) == [st EXCEPT !.mem[a] = m]
PutPcb(st, p, c) == [st EXCEPT !.pcb[p] = c]

\* Memory is reused at once (TLC takes the lowest): the worst case for an
\* address kept too long.
NewAddr(st) == CHOOSE a \in Addrs : st.mem[a] = Free

\* Mutant: it is put before what is due.
SendAfterFirst(st, a, slot) == [st EXCEPT !.tx = <<a>> \o @]

\* mdns_priv_send_after: where the delay puts it, behind what is due.
SendAfter(st, a, slot) ==
  LET due == Cardinality({i \in DOMAIN st.tx : st.mem[st.tx[i]].due})
      p == st.mem[a].pcb
      at == IF slot[p] > Len(st.tx) THEN Len(st.tx) ELSE IF slot[p] < due THEN due ELSE slot[p]
  IN [st EXCEPT !.tx = SubSeq(@, 1, at) \o <<a>> \o SubSeq(@, at + 1, Len(@))]

Schedule(st, packet, slot) ==
  LET a == NewAddr(st) IN SendAfter(PutPacket(st, a, packet), a, slot)

\* mdns_priv_clear_tx_queue and _if.
ClearTx(st, gone) ==
  [st EXCEPT !.tx = Only(@, ToSet(@) \ gone),
             !.mem = [a \in Addrs |-> IF a \in gone THEN Free ELSE st.mem[a]]]

\* mdns_priv_get_next_packet.
Of(st, p) == {a \in ToSet(st.tx) : st.mem[a].pcb = p}
PacketsOf(st, p) == Only(st.tx, Of(st, p))

\* Mutant: the packets are unlinked and not given back.
ClearTxIfLeaks(st, p) == [st EXCEPT !.tx = Only(@, ToSet(@) \ Of(st, p))]

ClearTxIf(st, p) == ClearTx(st, Of(st, p))

----------------------------------------------------------------------------
\* The interfaces.

\* init_probe_new_service: these services, and the ones already probed.
Probe(st, p, ss, ip, slot) ==
  LET c == st.pcb[p]
      old == IF Probing(c) THEN c.probes ELSE <<>>
      all == Only(ss, Services \ ToSet(old)) \o old
      withHost == c.ip \/ ip
      asks == IF withHost THEN Append(all, Host) ELSE all
      hosts == IF withHost THEN ToSet(all) ELSE {}
      c1 == [c EXCEPT !.state = "PROBE_1", !.probes = all, !.ip = withHost]
  IN Schedule(PutPcb(st, p, c1), Packet("probe", p, asks, hosts, ToSet(asks), {}), slot)

\* The state of one interface, nothing else.
To(st, p, state) == PutPcb(st, p, [st.pcb[p] EXCEPT !.state = state])

\* Mutant: the queue is cleared after the probe is in it.
InitProbeClearsLast(st, p, ss, ip, slot) ==
  ClearTxIf(IF st.named THEN Probe(st, p, ss, ip, slot) ELSE To(st, p, "RUNNING"), p)

\* mdns_priv_init_pcb_probe.
InitProbe(st, p, ss, ip, slot) ==
  LET c == ClearTxIf(st, p)
  IN IF c.named THEN Probe(c, p, ss, ip, slot) ELSE To(c, p, "RUNNING")

\* mdns_priv_probe_all_pcbs.
ProbeUp(st, p, ss, ip, forget, slot) ==
  IF ~st.pcb[p].ready THEN st
  ELSE InitProbe(IF forget THEN PutPcb(st, p, [st.pcb[p] EXCEPT !.probes = <<>>]) ELSE st,
                 p, ss, ip, slot)

ProbeAll(st, ss, ip, forget, slot) ==
  Walk(LAMBDA s0, p : ProbeUp(s0, p, ss, ip, forget, slot), st, PcbSeq)

\* mdns_priv_pcb_announce.
Announce(st, p, ss, ip, slot) ==
  LET c == st.pcb[p]
      new == ToSet(ss) \cup (IF ip THEN {Host} ELSE {})
      first == Head(PacketsOf(st, p))
  IN CASE c.ready /\ Probing(c) -> InitProbe(st, p, ss, ip, slot)
       [] c.ready /\ Announcing(c) /\ PacketsOf(st, p) # <<>> ->
            PutPacket(To(st, p, "ANNOUNCE_1"), first, [st.mem[first] EXCEPT !.answers = @ \cup new])
       [] c.ready /\ c.state = "RUNNING" /\ st.named ->
            Schedule(To(st, p, "ANNOUNCE_1"),
                     Packet("update", p, <<>>, {}, IF ip THEN {Host} ELSE {}, ToSet(ss)), slot)
       [] OTHER -> st

AnnounceAll(st, ss, ip, slot) ==
  Walk(LAMBDA s0, p : Announce(s0, p, ss, ip, slot), st, PcbSeq)

\* mdns_priv_pcb_enable; joining the group fails when the link is down again.
PcbEnable(st, p, up, slot) ==
  IF st.pcb[p].ready \/ up
  THEN InitProbe(PutPcb(st, p, [st.pcb[p] EXCEPT !.ready = TRUE]), p, services, TRUE, slot)
  ELSE st

\* mdns_priv_pcb_disable with deinit_pcb.
PcbDisable(st, p) ==
  IF st.pcb[p].ready THEN PutPcb(ClearTxIf(st, p), p, PcbOff) ELSE To(st, p, "OFF")

\* mdns_priv_create_announce_from_probe: with every service its host.
AnnounceFromProbe(m) ==
  [m EXCEPT !.kind = "announce", !.asks = <<>>, !.hosts = {}, !.servers = {}, !.due = FALSE,
            !.answers = m.servers \cup (IF m.servers = {} THEN {} ELSE {Host})]

\* mdns_priv_pcb_schedule_tx_packet, for a packet that has left the queue.
\* The state of the interface decides, whatever the packet is.
Reschedule(st, a, slot) ==
  LET m == st.mem[a]
      p == m.pcb
      again == [m EXCEPT !.due = FALSE]
      c == st.pcb[p]
      moved == [c EXCEPT !.state = NextState[@]]
      probed == [moved EXCEPT !.probes = <<>>, !.ip = FALSE]
      b == NewAddr(st)
      freed == PutPacket(st, a, Free)
  IN CASE c.state \in {"PROBE_1", "PROBE_2", "ANNOUNCE_1", "ANNOUNCE_2"} ->
            SendAfter(PutPacket(PutPcb(st, p, moved), a, again), a, slot)
       [] c.state = "PROBE_3" ->
            SendAfter(PutPacket(PutPcb(freed, p, probed), b, AnnounceFromProbe(m)), b, slot)
       [] c.state = "ANNOUNCE_3" -> To(freed, p, "RUNNING")
       [] OTHER -> freed

\* One packet loses its answers for a service that is removed, and one
\* question of its type if the interface was probing it; without anything
\* left it goes (mdns_priv_remove_scheduled_service_packets,
\* mdns_priv_pcb_check_probing_services).
Purge(st, a, s) ==
  LET m == st.mem[a]
      c == st.pcb[m.pcb]
      probes == Only(c.probes, Services \ {s})
      bare == m.answers # {} /\ m.answers \subseteq {s}
      hit == c.ready /\ Probing(c) /\ Contains(c.probes, s)
      sameType == {i \in DOMAIN m.asks : m.asks[i] # Host /\ TypeOf(m.asks[i]) = TypeOf(s)}
      asks == IF hit /\ sameType # {}
              THEN RemoveAt(m.asks, CHOOSE i \in sameType : \A j \in sameType : i <= j)
              ELSE m.asks
      m1 == [m EXCEPT !.answers = @ \ {s}, !.servers = @ \ {s}, !.asks = asks]
      c1 == IF hit THEN [c EXCEPT !.probes = probes,
                                  !.state = IF probes = <<>> /\ ~c.ip THEN "RUNNING" ELSE @]
            ELSE IF c.ready /\ Announcing(c) /\ bare THEN [c EXCEPT !.state = "RUNNING"]
            ELSE c
      st1 == PutPcb(st, m.pcb, c1)
  IN IF m1.asks = <<>> /\ m1.servers = {} /\ m1.answers = {}
     THEN ClearTx(st1, {a})
     ELSE PutPacket(st1, a, m1)

\* Mutant: only the first packet is looked at.
RemoveScheduledFirst(st, s) == IF st.tx = <<>> THEN st ELSE Purge(st, Head(st.tx), s)

RemoveScheduled(st, s) == Walk(LAMBDA s0, a : Purge(s0, a, s), st, st.tx)

\* The names in the packets of these services are new from now on.
Rename(st, S) ==
  [st EXCEPT !.mem = [a \in Addrs |->
     IF st.mem[a] # Free /\ (st.mem[a].servers \cup st.mem[a].answers) \cap S # {}
     THEN [st.mem[a] EXCEPT !.renamed = TRUE] ELSE st.mem[a]]]

----------------------------------------------------------------------------
\* The application: each call takes the lock and does its work, or posts it.

HasSlot == Len(queue) < QueueLen
Action(type, arg) == [type |-> type, arg |-> arg]
Post(action) == queue' = IF HasSlot THEN Append(queue, action) ELSE queue

Calls == calls < MaxCalls /\ calls' = calls + 1
Call == Calls /\ lock = "free" /\ UNCHANGED <<instance, queue, taken, cur, early, refused, rx>>

\* The services without an instance name answer to the device's.
Unnamed == Only(services, Services \ own)

\* mdns_service_add_for_host.
ServiceAdd(s) ==
  /\ Call
  /\ hostname /\ ~Contains(services, s)
  /\ services' = <<s>> \o services
  /\ own' = IF s \in Named THEN own \cup {s} ELSE own \ {s}
  /\ \E slot \in Slots : Becomes(ProbeAll(Now, <<s>>, FALSE, FALSE, slot))
  /\ UNCHANGED lock

\* The functions that change a registered service under its name.
Change(s) ==
  /\ Call
  /\ Contains(services, s)
  /\ UNCHANGED <<services, own>>

Announced(s, ip) == UNCHANGED lock /\ \E slot \in Slots : Becomes(AnnounceAll(Now, <<s>>, ip, slot))
Unannounced == UNCHANGED <<lock, sending, hostname>>

\* mdns_service_port_set; the address goes with it.
PortSet(s) == Change(s) /\ Announced(s, TRUE)

\* mdns_service_txt_set and _txt_item_set; a failed malloc changes nothing ...
TextSet(s) == Change(s) /\ (Announced(s, FALSE) \/ Unannounced)

\* ... but mdns_service_txt_set returns from it with the lock.
TextSetFails(s) == Change(s) /\ lock' = "lost" /\ UNCHANGED <<sending, hostname>>

\* mdns_service_txt_item_remove: nothing, when there is no item at all.
TextItemRemove(s) == Change(s) /\ (Announced(s, FALSE) \/ Unannounced)

\* mdns_service_subtype_add_*: nothing, when one is there already.
SubtypeAdd(s) == Change(s) /\ (Announced(s, FALSE) \/ Unannounced)

\* mdns_service_subtype_update_*: nothing more than a bye, when none is left.
SubtypeUpdate(s) == Change(s) /\ (Announced(s, FALSE) \/ Unannounced)

\* mdns_service_instance_name_set_for_host.
InstanceNameSet(s) ==
  /\ Call
  /\ Contains(services, s)
  /\ own' = own \cup {s}
  /\ \E slot \in Slots : Becomes(ProbeAll(Rename(Now, {s}), <<s>>, FALSE, FALSE, slot))
  /\ UNCHANGED <<services, lock>>

\* mdns_service_remove_for_host.
ServiceRemove(s) ==
  /\ Call
  /\ Contains(services, s)
  /\ services' = Only(services, Services \ {s})
  /\ Becomes(RemoveScheduled(Now, s))
  /\ UNCHANGED <<own, lock>>

\* mdns_service_remove_all.
ServiceRemoveAll ==
  /\ Call
  /\ services # <<>> /\ services' = <<>>
  /\ Becomes(Walk(RemoveScheduled, Now, services))
  /\ UNCHANGED <<own, lock>>

\* mdns_hostname_set, mdns_instance_name_set, and the events of the network
\* (post_custom_action), which a full queue loses.
PostCall(action) ==
  /\ Calls
  /\ Post(action)
  /\ UNCHANGED <<sending, names, taken, lock, cur, early, refused, rx>>

HostnameSet == PostCall(Action("HOSTNAME_SET", Host))
InstanceSet == hostname /\ PostCall(Action("INSTANCE_SET", Host))
LinkUp(p) == PostCall(Action("ENABLE", p))
LinkDown(p) == PostCall(Action("DISABLE", p))
AnnounceEvent(p) == PostCall(Action("ANNOUNCE", p))

\* A packet with a question for a service or the host, or with a record that
\* conflicts with one of ours; dropped when the queue is full.
Rx(kind, p, s) == [kind |-> kind, pcb |-> p, about |-> s]

\* The bound leaves room for the answer of another device to a shared question.
Rxs(packet) ==
  /\ \/ rx < MaxRx
     \/ rx = MaxRx /\ packet.kind = "answer" /\ \E a \in Waiting : mem[a].shared
  /\ rx' = rx + 1

\* The callback asks whether any protocol of the interface is up.
Receive(packet) ==
  /\ Rxs(packet)
  /\ \E p \in Pcbs : pcb[p].ready
  /\ Post(Action("RX_HANDLE", packet))
  /\ UNCHANGED <<sending, names, taken, lock, cur, early, refused, calls>>

\* The next packet is due.
TimePasses ==
  \E i \in DOMAIN tx :
    /\ ~mem[tx[i]].due /\ \A j \in 1..(i - 1) : mem[tx[j]].due
    /\ mem' = [mem EXCEPT ![tx[i]].due = TRUE]
    /\ UNCHANGED <<tx, pcb, stray, names, tasks, early, refused, calls, rx>>

----------------------------------------------------------------------------
\* The timer: mdns_priv_send_packets, from the first packet that is not queued.

TimerStart ==
  /\ lock = "free"
  /\ \E i \in DOMAIN tx :
       /\ ~mem[tx[i]].queued /\ \A j \in 1..(i - 1) : mem[tx[j]].queued
       /\ mem[tx[i]].due
       /\ cur' = i
  /\ lock' = "timer"
  /\ UNCHANGED <<sending, names, queue, taken, early, refused, calls, rx>>

TimerQueues ==
  /\ cur > 0
  /\ mem' = [mem EXCEPT ![tx[cur]].queued = HasSlot]
  /\ Post(Action("TX_HANDLE", tx[cur]))
  /\ IF cur < Len(tx) /\ mem[tx[cur + 1]].due
     THEN cur' = cur + 1 /\ UNCHANGED lock
     ELSE cur' = 0 /\ lock' = "free"
  /\ refused' = (refused \/ ~HasSlot)
  /\ UNCHANGED <<tx, pcb, stray, names, taken, early, calls, rx>>

----------------------------------------------------------------------------
\* The service task.

Take ==
  /\ taken = NoAction /\ queue # <<>>
  /\ taken' = Head(queue) /\ queue' = Tail(queue)
  /\ UNCHANGED <<sending, names, lock, cur, early, refused, calls, rx>>

Execute(type) ==
  /\ lock = "free"
  /\ taken # NoAction /\ taken.type = type
  /\ taken' = NoAction
  /\ UNCHANGED <<queue, lock, cur, calls, rx>>

\* Mutant: whatever is at the head is sent.
IsNextUnqueued(a) == tx # <<>> /\ a = Head(tx)

\* send_packet of the head of the queue, or of a packet that is not there.
IsNext(a) == tx # <<>> /\ a = Head(tx) /\ mem[a].queued

TxHandle ==
  /\ Execute("TX_HANDLE")
  /\ IsNext(taken.arg)
  /\ LET a == taken.arg
         m == [mem[a] EXCEPT !.queued = FALSE, !.sent = IF @ < 3 THEN @ + 1 ELSE @]
         st == PutPacket([Now EXCEPT !.tx = Tail(@)], a, m)
     IN /\ \E slot \in Slots :
             Becomes(IF pcb[m.pcb].state = "OFF" THEN PutPacket(st, a, Free)
                     ELSE Reschedule(st, a, slot))
        /\ early' = (early \/ ~m.due)
  /\ UNCHANGED <<services, instance, own, refused>>

TxSkip ==
  /\ Execute("TX_HANDLE")
  /\ ~IsNext(taken.arg)
  /\ UNCHANGED <<sending, names, early, refused>>

\* perform_event_action.
LinkUpRun ==
  /\ Execute("ENABLE")
  /\ \E slot \in Slots, up \in BOOLEAN : Becomes(PcbEnable(Now, taken.arg, up, slot))
  /\ UNCHANGED <<services, instance, own, early, refused>>

LinkDownRun ==
  /\ Execute("DISABLE")
  /\ Becomes(PcbDisable(Now, taken.arg))
  /\ UNCHANGED <<services, instance, own, early, refused>>

AnnounceRun ==
  /\ Execute("ANNOUNCE")
  /\ \E slot \in Slots : Becomes(Announce(Now, taken.arg, <<>>, TRUE, slot))
  /\ UNCHANGED <<services, instance, own, early, refused>>

\* mdns_priv_restart_all_pcbs.
RestartAll(st, slot) ==
  ProbeAll(ClearTx(st, ToSet(st.tx)), services, TRUE, TRUE, slot)

\* mdns_priv_responder_action.
HostnameSetRun ==
  /\ Execute("HOSTNAME_SET")
  /\ \E slot \in Slots :
       Becomes(RestartAll([Rename(Now, {Host} \cup Services) EXCEPT !.named = TRUE], slot))
  /\ UNCHANGED <<services, instance, own, early, refused>>

\* mdns_priv_restart_all_pcbs_no_instance.
RestartUnnamed(st, slot) ==
  IF Unnamed = <<>> THEN st
  ELSE ProbeAll(Rename(st, ToSet(Unnamed)), Unnamed, FALSE, TRUE, slot)

InstanceSetRun ==
  /\ Execute("INSTANCE_SET")
  /\ instance' = TRUE
  /\ \E slot \in Slots : Becomes(RestartUnnamed(Now, slot))
  /\ UNCHANGED <<services, own, early, refused>>

\* A received packet (mdns_parse_packet) with questions: the names they ask
\* for that are ours, without the ones whose answer the packet has already.
Questions == {"question", "shared", "known", "discovery"}

Asked(packet) ==
  CASE packet.kind = "discovery" -> Registered
    [] packet.kind = "known" -> {}
    [] OTHER -> {packet.about} \cap (Registered \cup {Host})

\* The answer is sent a little later, once the names are the device's
\* (mdns_priv_create_answer_from_parsed_packet).  A question of another
\* device's probe is answered at once and leaves nothing behind.
RxQuestion ==
  /\ Execute("RX_HANDLE") /\ taken.arg.kind \in Questions
  /\ LET p == taken.arg.pcb
         answer == [Packet("answer", p, <<>>, {}, {}, Asked(taken.arg))
                      EXCEPT !.shared = taken.arg.kind = "shared"]
     IN \E slot \in Slots :
          Becomes(IF hostname /\ answer.answers # {} /\ AfterProbing(pcb[p])
                  THEN Schedule(Now, answer, slot) ELSE Now)
  /\ UNCHANGED <<services, instance, own, early, refused>>

\* mdns_priv_remove_scheduled_answer: another device has given this answer.
RxAnswer ==
  /\ Execute("RX_HANDLE") /\ taken.arg.kind = "answer"
  /\ LET heard == {a \in Addrs : /\ mem[a] # Free /\ mem[a].shared
                                 /\ mem[a].pcb = taken.arg.pcb}
         known == taken.arg.about \in Registered \cup {Host}
     IN Becomes([Now EXCEPT !.mem = [a \in Addrs |->
          IF known /\ a \in heard THEN [mem[a] EXCEPT !.answers = @ \ {taken.arg.about}]
                                 ELSE mem[a]]])
  /\ UNCHANGED <<services, instance, own, early, refused>>

\* Mutant: the new name is taken without a probe.
NewNameUnprobed(s, slot) ==
  IF s \in own THEN Rename(Now, {s})
  ELSE IF instance THEN RestartUnnamed(Now, slot)
  ELSE RestartAll(Rename(Now, {Host} \cup Services), slot)

\* The service, else the device's instance name, else the host takes another
\* name (mangle_name).
NewName(s, slot) ==
  IF s \in own THEN ProbeAll(Rename(Now, {s}), <<s>>, FALSE, FALSE, slot)
  ELSE IF instance THEN RestartUnnamed(Now, slot)
  ELSE RestartAll(Rename(Now, {Host} \cup Services), slot)

\* Another device has a SRV record of ours with other data: a name that is
\* being probed is given up, one that is ours is probed again.
RxService ==
  /\ Execute("RX_HANDLE") /\ taken.arg.kind = "service"
  /\ LET s == taken.arg.about
         p == taken.arg.pcb
     IN \E slot \in Slots :
          Becomes(IF ~Contains(services, s) THEN Now
                  ELSE IF Probing(pcb[p]) THEN NewName(s, slot)
                  ELSE InitProbe(Now, p, <<s>>, FALSE, slot))
  /\ UNCHANGED <<services, instance, own, early, refused>>

\* A TXT record of ours with other data.
RxText ==
  /\ Execute("RX_HANDLE") /\ taken.arg.kind = "text"
  /\ LET s == taken.arg.about
         p == taken.arg.pcb
     IN \E slot \in Slots :
          Becomes(IF ~Contains(services, s) \/ Probing(pcb[p]) THEN Now
                  ELSE InitProbe(Now, p, <<s>>, TRUE, slot))
  /\ UNCHANGED <<services, instance, own, early, refused>>

\* An address of our host name that is not ours.
RxHost ==
  /\ Execute("RX_HANDLE") /\ taken.arg.kind = "host"
  /\ LET p == taken.arg.pcb
     IN \E slot \in Slots :
          Becomes(IF ~hostname THEN Now
                  ELSE IF Probing(pcb[p]) THEN RestartAll(Rename(Now, {Host} \cup Services), slot)
                  ELSE InitProbe(Now, p, <<>>, TRUE, slot))
  /\ UNCHANGED <<services, instance, own, early, refused>>

Service ==
  \/ Take \/ TxHandle \/ TxSkip
  \/ LinkUpRun \/ LinkDownRun \/ AnnounceRun \/ HostnameSetRun \/ InstanceSetRun
  \/ RxQuestion \/ RxAnswer \/ RxService \/ RxText \/ RxHost

Timer == TimerStart \/ TimerQueues

Application ==
  \/ \E s \in Services : ServiceAdd(s) \/ InstanceNameSet(s) \/ ServiceRemove(s)
  \/ \E s \in Services : PortSet(s) \/ TextSet(s) \/ TextSetFails(s) \/ TextItemRemove(s)
                          \/ SubtypeAdd(s) \/ SubtypeUpdate(s)
  \/ ServiceRemoveAll \/ HostnameSet \/ InstanceSet

Network ==
  \/ \E p \in Pcbs : LinkUp(p) \/ LinkDown(p) \/ AnnounceEvent(p)
  \/ \E p \in Pcbs, s \in Services, kind \in {"question", "shared", "answer", "service", "text"} :
       Receive(Rx(kind, p, s))
  \/ \E p \in Pcbs, kind \in {"question", "known", "discovery", "host"} : Receive(Rx(kind, p, Host))

Next == Application \/ Network \/ TimePasses \/ Timer \/ Service

Spec == Init /\ [][Next]_vars

\* The turns of the service task: what Take and every Execute do to taken, and
\* all of their guards.
ServiceTurn ==
  \/ taken = NoAction /\ queue # <<>> /\ taken' = Head(queue)
  \/ lock = "free" /\ taken # NoAction /\ taken' = NoAction

\* Time passes and the tasks run; the service task waits for a mutex that the
\* timer gives back, and is woken when it is: strong fairness.
FairSpec == Spec /\ WF_vars(TimePasses) /\ WF_vars(Timer) /\ SF_taken(ServiceTurn)
----------------------------------------------------------------------------
\* Properties.

Actions == {queue[i] : i \in DOMAIN queue} \cup (IF taken = NoAction THEN {} ELSE {taken})

ProbeTypeOK ==
  /\ \A a \in Addrs : mem[a] # Free <=> a \in Waiting
  /\ Len(tx) = Cardinality(Waiting)
  /\ \A p \in Pcbs : ToSet(pcb[p].probes) \subseteq Services
  /\ Registered \subseteq Services
  /\ cur \in 0..Len(tx) /\ (cur > 0 <=> lock = "timer")
  /\ lock \in {"free", "timer", "lost"}
  /\ Len(queue) <= QueueLen

\* An interface that is probing or announcing has a packet waiting that will
\* carry it on: it is never left in between (mdns_pcb.c:210-300, 397-424).
CarriedOn ==
  \A p \in Pcbs : pcb[p].ready /\ (Probing(pcb[p]) \/ Announcing(pcb[p])) => PacketsOf(Now, p) # <<>>

\* Nothing is announced from a probe that was not sent three times, each time
\* under the names it is announced with (mdns_pcb.c:218-245).  The exception,
\* here and below, is a conflict handled after its interface went down: the
\* probe it starts is not kept up with the names and the services.
AnnouncedWasProbed == stray \/
  \A a \in Waiting : mem[a].kind = "announce" => mem[a].sent >= 3 /\ ~mem[a].renamed

\* A packet goes out when it is due and not before, though the action that
\* sends it may hold the address of one that is gone (mdns_send.c:1837-1848).
SentWhenDue == ~early

\* The answers of the waiting packets and the services being probed are
\* registered: what is removed is forgotten (mdns_send.c:1778-1825).
AnswersRegistered == stray \/
  /\ \A a \in Waiting : (mem[a].servers \cup mem[a].answers) \ {Host} \subseteq Registered
  /\ \A p \in Pcbs : ToSet(pcb[p].probes) \subseteq Registered

\* The TX_HANDLE of a packet that is marked as queued is on its way, though one
\* whose packet is not at the head, or gone, is skipped (mdns_send.c:1714-1746,
\* 1837-1848).  The exception: the queue has refused one.  The walk goes on, and
\* the TX_HANDLE of the next packet may be skipped; what is marked then waits
\* for the turn of the timer that starts at the refused packet.
QueuedIsSent == refused \/
  \A a \in Waiting : mem[a].queued => Action("TX_HANDLE", a) \in Actions

\* Every interface that is up ends with its names its own, unless a function
\* of the application has kept the lock (mdns_responder.c:1024).
Settles ==
  \A p \in Pcbs : pcb[p].ready ~> pcb[p].state = "RUNNING" \/ ~pcb[p].ready \/ lock = "lost"
============================================================================
