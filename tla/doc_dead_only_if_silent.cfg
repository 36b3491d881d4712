\* A reading marked between the clock of the check and its mutex.
CONSTANTS
  Readings <- TwoReadings
  Flows = {0, 1}
  dht = dht
  flow = flow
  Sensors = {dht, flow}
  Timeout <- Timeouts
  HealthPeriod = 2
  Width = 12
  MaxLate = 1
  MaxSilence = 8
  MaxPulses = 8
  Fds = {0, 1}
  MaxConns = 3
  LogDepth = 2
  WorkLen = 2
  MaxScans = 2
  MaxAps = 2
  MaxChunks = 3
  Measured <- TwoMeasured
  MaxDisturbed = 1
SPECIFICATION PartsSpec
PROPERTIES DeadOnlyIfSilent
