\* The main loop reconnects while a /save waits its 600 ms.
CONSTANTS
  Creds = {a, b}
  NoCred = NoCred
  MaxEvents = 2
  MaxFaults = 1
  MaxSaves = 2
  ConnectMayFail = FALSE
  Requests = {"save", "root"}
SPECIFICATION Spec
INVARIANT ReconnectIsSafe
\* A device without credentials and without its access point waits for ever.
CHECK_DEADLOCK FALSE
