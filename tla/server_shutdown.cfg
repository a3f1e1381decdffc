SPECIFICATION LifeFairSpec
CONSTANTS
  Procs = {p1}
  MaxInFlight = 2
PROPERTY GracefulShutdown
