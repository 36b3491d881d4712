\* Flow: several windows with several edges each, some between the task's read
\* and its reset.  Health: the clock wraps several times; no silence is long
\* enough to span a wrap.  Tray: two readings, two flows: every order of three
\* producers and push_task.  Sockets: a descriptor is reused, by each kind
\* of connection.  Scans: two after the one at boot, lists of two networks.
\* Upload: three chunks.  DHT11: one disturbed pulse in each of three attempts.
CONSTANTS
  MaxPulses = 8
  Readings <- TwoReadings
  Flows = {0, 1}
  dht = dht
  flow = flow
  Sensors = {dht, flow}
  Timeout <- Timeouts
  HealthPeriod = 2
  Width = 10
  MaxLate = 1
  MaxSilence = 7
  Fds = {0, 1}
  MaxConns = 3
  LogDepth = 2
  WorkLen = 2
  MaxScans = 2
  MaxAps = 2
  MaxChunks = 3
  Measured <- TwoMeasured
  MaxDisturbed = 1
SPECIFICATION PartsSpec
INVARIANTS PartsTypeOK NoPulseLost DeadDetected PublishedIsOpen FramesReachDashboards
INVARIANTS ListFromOneScan BootsWholeImage ReadingIsMeasured
INVARIANTS JsonWhole DashboardCurrent TrayIsLastReading
PROPERTIES SilentIsDead LogDrains ScanEnds ReadingArrives
