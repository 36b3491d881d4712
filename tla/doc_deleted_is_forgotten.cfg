\* One asynchronous query, two packets.
CONSTANTS
  Searches = {s1, s2}
  s1 = s1
  s2 = s2
  i1 = i1
  i2 = i2
  i3 = i3
  me = me
  h = h
  h2 = h2
  ip = ip
  t1 = t1
  NoName = NoName
  NoAction = NoAction
  Asks <- OpenAsk
  Packets <- ThreePackets
  QueueLen = 2
  MaxCalls = 1
  MaxRx = 2
SPECIFICATION Spec
INVARIANT DeletedIsForgotten
CHECK_DEADLOCK FALSE
