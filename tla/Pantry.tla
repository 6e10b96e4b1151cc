------------------------------- MODULE Pantry -------------------------------
(***************************************************************************)
(* What the claim service promises, without transactions: portions lie on  *)
(* a shelf; a recipient may take some in hand, once per listing; what is   *)
(* in hand is then collected, or goes back to the shelf, once.             *)
(*                                                                         *)
(* ClaimFlow implements it: a reservation is the commit of create_claim,   *)
(* and a hand is emptied by the commit of resolve_claim.                   *)
(***************************************************************************)
EXTENDS ListingRules

CONSTANTS Listings, Recipients, Quantities, Totals

VARIABLES
  shelf,   \* portions anyone may still take
  hand     \* each recipient's reservation on each listing

Empty == [status |-> Absent, quantity |-> 0]

Init ==
  /\ shelf \in [Listings -> Totals]
  /\ hand = [l \in Listings |-> [r \in Recipients |-> Empty]]

\* create_claim: the portions leave the shelf with the reservation.
TakeInHand(l, r, q) ==
  /\ hand[l][r].status = Absent
  /\ q <= shelf[l]
  /\ shelf' = [shelf EXCEPT ![l] = @ - q]
  /\ hand' = [hand EXCEPT ![l][r] = [status |-> "pending", quantity |-> q]]

\* resolve_claim to picked_up.
Collect(l, r) ==
  /\ hand[l][r].status = "pending"
  /\ hand' = [hand EXCEPT ![l][r].status = "picked_up"]
  /\ UNCHANGED shelf

\* resolve_claim to no_show or cancelled.
PutBack(l, r) ==
  /\ hand[l][r].status = "pending"
  /\ shelf' = [shelf EXCEPT ![l] = @ + hand[l][r].quantity]
  /\ \E how \in RELEASING : hand' = [hand EXCEPT ![l][r].status = how]

Next ==
  \E l \in Listings, r \in Recipients :
    \/ \E q \in Quantities : TakeInHand(l, r, q)
    \/ Collect(l, r)
    \/ PutBack(l, r)

Spec == Init /\ [][Next]_<<shelf, hand>>
=============================================================================
