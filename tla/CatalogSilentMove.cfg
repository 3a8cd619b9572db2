\* An order line and an edit of another column race: stock moves unannounced.
CONSTANTS
  Requests = {r1, r2}
  Products = {p1}
  Orders = {o1}
  Prices = {c1}
  MaxStock = 3
  Stocks <- MCStocks
  Quantities = {1}
  Ops = {"create_line", "update_product"}
  NoRow = NoRow
  NoJob = NoJob
  SeedProducts <- MCSeedProducts
  SeedLines <- MCNoLines
SPECIFICATION Spec
INVARIANTS StockIsLastAnnounced
