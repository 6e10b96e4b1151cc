---------------------------- MODULE ListingRules ----------------------------
(***************************************************************************)
(* The listing state rules of api/services/listings.py and the enums they  *)
(* range over (api/models/enums.py): pure operators on a listing row.      *)
(*                                                                         *)
(* A row is a record with the columns the rules read or write:             *)
(*   status, total (quantity_total), remaining (quantity_remaining),       *)
(*   window (expiry_minutes), expires (expires_at) and scheduled           *)
(*   (scheduled_for, or NoTime).                                           *)
(***************************************************************************)
EXTENDS Integers

NoTime == -1        \* a NULL timestamp
Absent == "absent"  \* the primary key has no row

ListingStatus ==
  {"draft", "scheduled", "active", "claimed", "expired", "cancelled"}

ClaimStatus == {"pending", "picked_up", "no_show", "cancelled"}

\* Which statuses a listing may move to from each status.
TRANSITIONS ==
  [ draft     |-> {"active", "cancelled"},
    scheduled |-> {"active", "cancelled"},
    active    |-> {"claimed", "cancelled"},
    claimed   |-> {"active", "cancelled"},
    expired   |-> {},
    cancelled |-> {} ]

PRELIVE  == {"draft", "scheduled"}
TERMINAL == {"expired", "cancelled"}

\* Claim statuses that hand the portions back.
RELEASING == {"no_show", "cancelled"}

CanTransition(current, target) ==
  current = target \/ target \in TRANSITIONS[current]

HasExpired(row, now) == row.expires <= now

Editable(row, now) ==
  /\ row.status \notin TERMINAL
  /\ row.status \in PRELIVE \/ ~HasExpired(row, now)

PortionsSpokenFor(row) == row.total - row.remaining

\* Mutant: the new total may be smaller than what is already spoken for.
TotalAcceptedAlways(row, newTotal) == TRUE

\* apply_new_total, for the totals it accepts.
TotalAccepted(row, newTotal) == newTotal >= PortionsSpokenFor(row)

ApplyNewTotal(row, newTotal) ==
  [row EXCEPT !.total = newTotal,
              !.remaining = newTotal - PortionsSpokenFor(row)]

=============================================================================
