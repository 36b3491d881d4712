\* Every request, every fault: the races of the three tasks.
CONSTANTS
  Creds = {a, b}
  NoCred = NoCred
  MaxEvents = 2
  MaxFaults = 3
  MaxSaves = 2
  ConnectMayFail = TRUE
  Requests = {"save", "typo", "root", "ap_shutdown", "reboot"}
SPECIFICATION Spec
INVARIANTS WifiTypeOK ShutdownOnce ConnectedIsLinked AddressIsOfLink
INVARIANTS NothingStagedWhenConnected LinkIsKnown
PROPERTIES SaveSparesWorkingLink SavedPairIsJoined
SYMMETRY Networks
\* A device without credentials and without its access point waits for ever.
CHECK_DEADLOCK FALSE
