\* Two searches and a browse: two calls, two packets, a queue of two.
CONSTANTS
  Searches = {s1, s2}
  s1 = s1
  s2 = s2
  i1 = i1
  i2 = i2
  i3 = i3
  me = me
  h = h
  h2 = h2
  ip = ip
  t1 = t1
  NoName = NoName
  NoAction = NoAction
  Asks <- TwoAsks
  Packets <- ThreePackets
  QueueLen = 2
  MaxCalls = 2
  MaxRx = 2
SPECIFICATION FairSpec
INVARIANTS LookupTypeOK NoDangling ResultsTruthful BrowserToldHosts
PROPERTIES SearchesKeepPromise QueryReturns
CHECK_DEADLOCK FALSE
