\* Every endpoint of orders, payments, customers, employees and offices, three
\* requests at once; and the access rules of their views, for every set of groups.
CONSTANTS
  Requests = {r1, r2, r3}
  c1 = c1
  c2 = c2
  e1 = e1
  e2 = e2
  f1 = f1
  g1 = g1
  Tables <- MCTables
  Customers = {c1, c2}
  References <- MCReferences
  InUse = {g1}
  Orders = {o1, o2}
  Statuses = {s1, s2}
  Checks = {k1, k2}
  Ops <- AllOps
  NoRow = NoRow
  NoJob = NoJob
  NoStatus = NoStatus
  SeedRows <- MCSeedRows
  SeedOrders <- MCSeedOrders
  LinedOrders <- MCSeedLined
  Owners = {c1, c2}
  NoProfile = NoProfile
  ViewOf <- MCViewOf
SYMMETRY AlikeRequests
SPECIFICATION HistorySpec
INVARIANTS TypeOK OwnersExist RoutesAgreeButForThree OnlyTwoListsCross
PROPERTIES EventsTellTheirChange SilentEditsGoBack OrderEventIdsFollowCommits
