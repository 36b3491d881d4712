\* One interface, the service the device registers and one with an instance
\* name of its own; the host name and two more calls, one packet.
CONSTANTS
  ap = ap
  http = http
  log = log
  Host = Host
  NoAction = NoAction
  Pcbs = {ap}
  Services = {http, log}
  Named = {log}
  TypeOf <- OwnType
  Addrs = {1, 2, 3, 4, 5}
  Places = {0, 5}
  QueueLen = 16
  MaxCalls = 3
  MaxRx = 1
SPECIFICATION FairSpec
INVARIANTS ProbeTypeOK CarriedOn AnnouncedWasProbed SentWhenDue AnswersRegistered QueuedIsSent
PROPERTIES Settles
CHECK_DEADLOCK FALSE
