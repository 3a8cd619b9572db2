\* A failed delivery lets a later event of the same entity pass.
CONSTANTS
  Events = {1, 2, 3}
  KeyOf <- MCTwoKeys
  LooseKeys = {}
  Relays = {s1}
  OnceRelays = {}
  BatchSize = 2
  MayFail = {1, 3}
  Poison = {}
  MaxFaults = 1
  MaxAttempts = 2
SPECIFICATION Spec
INVARIANTS EveryEntityInOrder
