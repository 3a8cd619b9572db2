\* Two workers of three pids, a backlog of up to two, two faults.
CONSTANTS
  Pids = {1, 2, 3}
  Workers = 2
  MaxBacklog = 2
  MaxFaults = 2
  None = None
SPECIFICATION Spec
INVARIANT TypeOK
PROPERTIES BacklogIsSeen GaugeSettles
