\* Two payments of one customer commit in the other order.
CONSTANTS
  Requests = {r1, r2, r3}
  c1 = c1
  c2 = c2
  e1 = e1
  e2 = e2
  f1 = f1
  g1 = g1
  Tables <- MCTables
  Customers = {c1, c2}
  References <- MCReferences
  InUse = {g1}
  Orders = {o1}
  Statuses = {s1}
  Checks = {k1, k2}
  Ops <- MCPaymentOps
  NoRow = NoRow
  NoJob = NoJob
  NoStatus = NoStatus
  SeedRows <- MCSeedRows
  SeedOrders <- MCSeedOrders
  LinedOrders <- MCSeedLined
  Owners = {c1, c2}
  NoProfile = NoProfile
  ViewOf <- MCViewOf
SPECIFICATION Spec
PROPERTIES PaymentEventIdsFollowCommits
