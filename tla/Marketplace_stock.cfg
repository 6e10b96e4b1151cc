\* Claims, edits of the post and the scheduler, under fairness: drafts, scheduled
\* posts, and a batch with a release that breaks a CHECK.
CONSTANTS
  Listings   = {1}
  Recipients = {ana, ben}
  Newcomers  = {ana}
  Host       = host
  Requests   = {req1, req2}
  ClaimSlots = {req1}
  EditSlots  = {req2}
  Sweepers   = {sweeper}
  Quantities = {2}
  Totals     = {3}
  NewTotals  = {2}
  Publish    = {"now", "draft", "scheduled"}
  Windows    = {1}
  Lead       = 1
  Hold       = 1
  Horizon    = 1
  None       = None
  NoChange   = NoChange
SPECIFICATION MCSpec
INVARIANTS MarketTypeOK StockWithinBounds PreliveIsUnclaimed
PROPERTIES ReservedFromTheShelf ScheduledGoesLive FinishedIsExpired LapsedIsReleased
