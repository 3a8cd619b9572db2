\* The Deployment and runs by hand; deliveries of one entity fail once, or always.
CONSTANTS
  Events = {1, 2, 3, 4}
  KeyOf <- MCTwoKeys
  LooseKeys = {0}
  Relays = {s1, s2}
  OnceRelays = {s2}
  BatchSize = 2
  MayFail = {2}
  Poison = {4}
  MaxFaults = 1
  MaxAttempts = 1
SPECIFICATION FairSpec
INVARIANTS TypeOK NoEventIsLost ReportsAreOfTheBatch FirstDeliveriesInOrder RepeatsNeedAFault
PROPERTIES KeepsContract EventuallyPublished
