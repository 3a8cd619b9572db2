\* Every endpoint, three requests at once, with one line already there.
CONSTANTS
  Requests = {r1, r2, r3}
  Products = {p1, p2}
  Orders = {o1}
  Prices = {c1, c2}
  MaxStock = 2
  Stocks <- MCEmpty
  Quantities <- MCLast
  Ops <- AllOps
  NoRow = NoRow
  NoJob = NoJob
  SeedProducts <- MCSeedProducts
  SeedLines <- MCSeedLines
SYMMETRY AlikeRequests
SPECIFICATION Spec
INVARIANTS TypeOK LockedReadIsCurrent AnnouncedIffCommitted
PROPERTIES OrderTakeIsExact EventIdsFollowCommits
