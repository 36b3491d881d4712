\* A network whose DHCP server says nothing; no other fault.
CONSTANTS
  Creds = {a}
  NoCred = NoCred
  MaxEvents = 2
  MaxFaults = 0
  MaxSaves = 1
  ConnectMayFail = FALSE
  Requests = {"save"}
SPECIFICATION FairSpec
PROPERTY AttemptsEnd
\* A device without credentials and without its access point waits for ever.
CHECK_DEADLOCK FALSE
