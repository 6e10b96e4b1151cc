\* A PATCH of the size races a claim.
CONSTANTS
  Listings   = {1}
  Recipients = {ana}
  Host       = host
  Requests   = {req1, req2}
  Sweepers   = {sweeper}
  Quantities = {1}
  Totals     = {2}
  NewTotals  = {3}
  Publish    = {"now"}
  Windows    = {1}
  Lead       = 1
  Hold       = 1
  Horizon    = 1
  None       = None
  NoChange   = NoChange
SPECIFICATION MarketSpec
INVARIANTS PortionsConserved
