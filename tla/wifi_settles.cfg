\* From first boot to the dashboard, with fair tasks.
CONSTANTS
  Creds = {a, b}
  NoCred = NoCred
  MaxEvents = 2
  MaxFaults = 2
  MaxSaves = 2
  ConnectMayFail = TRUE
  Requests = {"save", "root"}
SPECIFICATION FairSpec
PROPERTIES BootSettles ConnectingEnds DnsStops 
\* A device without credentials and without its access point waits for ever.
CHECK_DEADLOCK FALSE
