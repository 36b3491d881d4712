\* A visitor of the open portal mistypes the password of another network.
CONSTANTS
  Creds = {a, b}
  NoCred = NoCred
  MaxEvents = 2
  MaxFaults = 1
  MaxSaves = 2
  ConnectMayFail = FALSE
  Requests = {"save", "typo"}
SPECIFICATION Spec
PROPERTY ErasesWhatFailed
\* A device without credentials and without its access point waits for ever.
CHECK_DEADLOCK FALSE
