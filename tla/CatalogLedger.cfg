\* Every endpoint but the edit of a product: a ledger.
CONSTANTS
  Requests = {r1, r2, r3}
  Products = {p1}
  Orders = {o1, o2}
  Prices = {c1}
  MaxStock = 2
  Stocks <- MCStocks
  Quantities <- MCReturnAndSale
  Ops <- MCAllButEdit
  NoRow = NoRow
  NoJob = NoJob
  SeedProducts <- MCSeedProducts
  SeedLines <- MCSeedLines
SYMMETRY AlikeRequests
SPECIFICATION Spec
INVARIANTS StockIsLastAnnounced
PROPERTY IsALedger
