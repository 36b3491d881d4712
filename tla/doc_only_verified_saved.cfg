\* The same race, with the association of the stored pair.
CONSTANTS
  Creds = {a, b}
  NoCred = NoCred
  MaxEvents = 2
  MaxFaults = 1
  MaxSaves = 2
  ConnectMayFail = FALSE
  Requests = {"save", "root"}
SPECIFICATION Spec
INVARIANT OnlyVerifiedSaved
\* A device without credentials and without its access point waits for ever.
CHECK_DEADLOCK FALSE
