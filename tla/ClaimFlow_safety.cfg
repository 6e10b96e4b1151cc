\* Two recipients and two concurrent requests against the sweep, one listing of
\* two portions.
CONSTANTS
  Listings   = {1}
  Recipients = {ana, bo}
  Host       = host
  Requests   = {req1, req2}
  Sweepers   = {sweeper}
  Quantities = {1, 2}
  Totals     = {2}
  Windows    = {2}
  Hold       = 1
  Horizon    = 2
  None       = None
SYMMETRY Symmetry
SPECIFICATION Spec
INVARIANTS TypeOK PortionsConserved StatusMatchesShelf BookedInDate
PROPERTIES ResolvedIsFinal PantrySpec
