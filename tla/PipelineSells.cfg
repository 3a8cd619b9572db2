\* Order lines, the relay with its faults and runs by hand, and a consumer.
CONSTANTS
  Requests = {r1, r2}
  Products = {p1}
  TheProduct = p1
  Orders = {o1, o2}
  Prices = {c1}
  MaxStock = 3
  Stocks <- MCStocks
  Quantities <- MCReturnAndSale
  Ops = {"create_line"}
  NoRow = NoRow
  NoJob = NoJob
  SeedProducts <- MCSeedProducts
  SeedLines <- MCNoLines
  LastId = 2
  Relays = {s1, s2}
  OnceRelays = {s2}
  BatchSize = 2
  MaxFaults = 2
SPECIFICATION PipelineSpec
INVARIANTS ConsumersBooksBalance PiecesAreConserved
PROPERTIES ApiFeedsRelay ConsumerCatchesUp
