--------------------------- MODULE MCMdnsLookup ---------------------------
\* A small network: three instances, two hosts, and what they answer; and an
\* answer that another device gives for an instance of this one.
EXTENDS MdnsLookup

CONSTANTS s1, s2, i1, i2, i3, me, h, h2, ip, t1

Rec(type, name, target, ttl) ==
  [type |-> type, name |-> name, target |-> target, ttl |-> ttl, own |-> name = me]

TwoAsks == {Ask("PTR", NoName, TRUE, 2, "waiting"), Ask("A", h, FALSE, 0, "open")}
OpenAsk == {Ask("PTR", NoName, TRUE, 2, "open")}

Answer == [end |-> "whole", records |->
  <<Rec("SRV", i1, h, 2), Rec("PTR", NoName, i2, 2), Rec("A", h, ip, 2)>>]
Second == [end |-> "truncated", records |->
  <<Rec("SRV", i3, h2, 2), Rec("TXT", i1, t1, 2), Rec("SRV", me, h2, 2)>>]
Conflict == [end |-> "whole", records |->
  <<Rec("A", h, ip, 2), Rec("SRV", me, h2, 2), Rec("SRV", i1, h, 0)>>]
ThreePackets == {Answer, Second, Conflict}
============================================================================
