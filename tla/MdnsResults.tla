---------------------------- MODULE MdnsResults ----------------------------
(***************************************************************************)
(* What one record of a received packet does to the results of the mDNS    *)
(* searches (mdns_querier.c) and of the browse (mdns_browser.c), as        *)
(* mdns_parse_packet (mdns_receive.c) applies it.                          *)
(*                                                                         *)
(* A record is [type, name, target, ttl, own]: name is the instance of a   *)
(* SRV or TXT record and the host of an A record; target is the instance   *)
(* of a PTR, the host of a SRV, the data of a TXT or A record; own says    *)
(* that the name is one of this device (is_ours).  AAAA is treated by the  *)
(* code line for line as A is.  One service type, one interface.           *)
(***************************************************************************)
EXTENDS Naturals, Sequences

CONSTANT NoName          \* a string that is not set

\* mdns_search_once_t, as far as the results depend on it: type, instance,
\* whether a service was named, the largest number of results (0: no limit),
\* and whether its caller blocks ("waiting") or holds a handle ("open").
Ask(type, name, service, max, mode) ==
  [type |-> type, name |-> name, service |-> service, max |-> max, mode |-> mode]

NewResult(inst, host, txt, addr, ttl) ==
  [inst |-> inst, host |-> host, txt |-> txt, addr |-> addr, ttl |-> ttl]

\* The lists are walked from the newest result: the first one that fits wins.
Has(rs, Fits(_)) == \E i \in DOMAIN rs : Fits(rs[i])

First(rs, Fits(_)) ==
  CHOOSE i \in DOMAIN rs : Fits(rs[i]) /\ \A j \in 1..(i - 1) : ~Fits(rs[j])

Amended(rs, Fits(_), Change(_)) ==
  LET i == First(rs, Fits) IN [rs EXCEPT ![i] = Change(rs[i])]

----------------------------------------------------------------------------
\* The searches.

HasHost(rs, host) == \E i \in DOMAIN rs : rs[i].host = host

\* mdns_priv_query_find_from: may this record belong to that running search?
Finds(ask, rs, rec) ==
  CASE rec.type = "A" ->
         \/ ask.type = "A" /\ ask.name = rec.name
         \/ ask.type = "ANY" /\ ~ask.service /\ ask.name = rec.name
         \/ ask.type \in {"PTR", "SRV"} /\ HasHost(rs, rec.name)
    [] rec.type \in {"SRV", "TXT"} ->
         \/ ask.type = "PTR"
         \/ ask.type = rec.type /\ ask.name = rec.name
         \/ ask.type = "ANY" /\ ask.service /\ ask.name = rec.name
    [] rec.type = "PTR" -> ask.type = "PTR"

\* Mutant: one result too many.
HasRoomForOne(ask, rs) == ask.max = 0 \/ Len(rs) <= ask.max

HasRoom(ask, rs) == ask.max = 0 \/ Len(rs) < ask.max

\* mdns_priv_query_update_result_ttl: a TTL only ever goes down.
Lower(old, new) == IF old < new THEN old ELSE new
Heard(r, ttl) == [r EXCEPT !.ttl = Lower(@, ttl)]

Grown(ask, rs, r) == IF HasRoom(ask, rs) THEN <<r>> \o rs ELSE rs

\* mdns_priv_query_result_add_ptr.
AddPtr(ask, rs, inst, ttl) ==
  LET Mine(r) == r.inst = inst
  IN IF Has(rs, Mine)
     THEN Amended(rs, Mine, LAMBDA r : Heard(r, ttl))
     ELSE Grown(ask, rs, NewResult(inst, NoName, NoName, {}, ttl))

\* For a PTR search, the parser finds or makes the entry of the instance,
\* and completes it if there is one now.
Entered(ask, rs, rec) ==
  LET Mine(r) == r.inst = rec.name
  IN IF Has(rs, Mine) THEN rs ELSE AddPtr(ask, rs, rec.name, rec.ttl)

Hosted(r, rec) == IF r.host = NoName THEN [r EXCEPT !.host = rec.target] ELSE r
Filled(r, rec) == IF r.txt = NoName THEN [r EXCEPT !.txt = rec.target] ELSE r
Complete(r, rec) == IF rec.type = "SRV" THEN Hosted(r, rec) ELSE Filled(r, rec)

Completed(rs, rec) ==
  LET Mine(r) == r.inst = rec.name
  IN IF Has(rs, Mine) THEN Amended(rs, Mine, LAMBDA r : Complete(r, rec)) ELSE rs

\* The SRV branch of the parser: a PTR search completes the entry of the
\* instance, once; any other search gets an entry for the host.
AddSrv(ask, rs, rec) ==
  LET AtHost(r) == r.host = rec.target
  IN IF ask.type = "PTR"
     THEN Completed(Entered(ask, rs, rec), rec)
     ELSE IF Has(rs, AtHost) THEN Amended(rs, AtHost, LAMBDA r : Heard(r, rec.ttl))
     ELSE Grown(ask, rs, NewResult(ask.name, rec.target, NoName, {}, rec.ttl))

\* The TXT branch: a PTR search by instance, another one its newest entry.
FilledAndHeard(r, rec) == IF r.txt = NoName THEN Heard(Filled(r, rec), rec.ttl) ELSE r

AddTxt(ask, rs, rec) ==
  IF ask.type = "PTR"
  THEN Completed(Entered(ask, rs, rec), rec)
  ELSE IF rs # <<>> THEN [rs EXCEPT ![1] = FilledAndHeard(@, rec)]
  ELSE Grown(ask, rs, NewResult(NoName, NoName, rec.target, {}, rec.ttl))

\* Mutant: an address goes to the newest entry of any search.
AddIpNewest(ask, rs, rec) ==
  IF rs # <<>> THEN [rs EXCEPT ![1].addr = @ \cup {rec.target}] ELSE rs

\* result_add_ip.
Reached(r, rec) == [Heard(r, rec.ttl) EXCEPT !.addr = @ \cup {rec.target}]

\* mdns_priv_query_result_add_ip.
AddIp(ask, rs, rec) ==
  LET AtHost(r) == r.host = rec.name
  IN IF ask.type \in {"A", "ANY"}
     THEN IF rs # <<>> THEN [rs EXCEPT ![1] = Reached(@, rec)]
          ELSE Grown(ask, rs, NewResult(NoName, rec.name, NoName, {rec.target}, rec.ttl))
     ELSE IF Has(rs, AtHost) THEN Amended(rs, AtHost, LAMBDA r : Reached(r, rec)) ELSE rs

AddRecord(ask, rs, rec) ==
  CASE rec.type = "PTR" -> AddPtr(ask, rs, rec.target, rec.ttl)
    [] rec.type = "SRV" -> AddSrv(ask, rs, rec)
    [] rec.type = "TXT" -> AddTxt(ask, rs, rec)
    [] OTHER -> AddIp(ask, rs, rec)

----------------------------------------------------------------------------
\* The browse: its own entries, and the ones the notifier has to be told of.

\* Here 0 stands for a TTL that is not set.
Ttl(old, new) == IF old = 0 THEN new ELSE Lower(old, new)

\* mdns_priv_browse_find.
BrowseFinds(rs, rec) ==
  \/ rec.type \in {"SRV", "TXT"}
  \/ rec.type = "A" /\ HasHost(rs, rec.name)

\* Mutant: a service that moved is not told.
SrvChangeQuiet(rs, r, rec) ==
  LET r1 == [r EXCEPT !.host = rec.target, !.ttl = Ttl(@, rec.ttl)]
  IN [entry |-> r1, told |-> FALSE]

\* The change of the entry of one instance, and whether it is told.
SrvChange(rs, r, rec) ==
  LET moved == r.host # rec.target
      known == {i \in DOMAIN rs : rs[i].host = rec.target /\ rs[i].addr # {}}
      addr  == IF moved /\ r.addr = {} /\ known # {}
               THEN rs[CHOOSE i \in known : \A j \in known : i <= j].addr
               ELSE r.addr
      r1 == [r EXCEPT !.host = rec.target, !.addr = addr, !.ttl = Ttl(@, rec.ttl)]
  IN [entry |-> r1, told |-> moved \/ r1.ttl # r.ttl]

TxtChange(r, rec) ==
  LET r1 == [r EXCEPT !.txt = rec.target, !.ttl = Ttl(@, rec.ttl)]
  IN [entry |-> r1, told |-> r1.ttl # r.ttl \/ r.txt \notin {NoName, rec.target}]

Fresh(rec) ==
  IF rec.type = "SRV" THEN NewResult(rec.name, rec.target, NoName, {}, rec.ttl)
                      ELSE NewResult(rec.name, NoName, rec.target, {}, rec.ttl)

\* mdns_priv_browse_result_add_srv, _add_txt and _add_ip: the new entries and
\* the instances to tell of (add_browse_result).
BrowseAdd(rs, rec) ==
  LET Mine(r)   == r.inst = rec.name
      NewAddr(r) == r.host = rec.name /\ rec.target \notin r.addr
      Put(i, c) == [entries |-> [rs EXCEPT ![i] = c.entry],
                    told |-> IF c.told THEN {rs[i].inst} ELSE {}]
      i == First(rs, Mine)
      a == First(rs, NewAddr)
  IN CASE rec.type = "A" ->
            IF Has(rs, NewAddr)
            THEN Put(a, [entry |-> [rs[a] EXCEPT !.addr = @ \cup {rec.target},
                                                 !.ttl = Ttl(@, rec.ttl)],
                         told |-> TRUE])
            ELSE [entries |-> rs, told |-> {}]
       [] rec.type # "A" /\ ~Has(rs, Mine) ->
            [entries |-> <<Fresh(rec)>> \o rs, told |-> {rec.name}]
       [] OTHER ->
            Put(i, IF rec.type = "SRV" THEN SrvChange(rs, rs[i], rec)
                                       ELSE TxtChange(rs[i], rec))
============================================================================
