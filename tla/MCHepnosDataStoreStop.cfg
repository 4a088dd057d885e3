CONSTANTS
  NJobs = 3
  MaxSpurious = 0
SPECIFICATION Spec
PROPERTY WorkerStops
