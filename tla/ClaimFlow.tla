----------------------------- MODULE ClaimFlow ------------------------------
(***************************************************************************)
(* Claims and the portions they hold: api/services/claims.py, the claim    *)
(* endpoints of api/routers/claims.py that call it, and the reservation    *)
(* sweep.                                                                  *)
(*                                                                         *)
(* Every request and every step of the sweep is a PostgreSQL transaction   *)
(* (READ COMMITTED).  A transaction is a process with a program counter:   *)
(*                                                                         *)
(*   idle --Request..--> waiting --Grant..--> locked --Commit--> idle      *)
(*                          |                  `--Rollback--> idle         *)
(*                          `--Refuse..--> idle                            *)
(*                                                                         *)
(* `waiting' is the queue of SELECT ... FOR UPDATE on the listing row.     *)
(* Grant.. reads the locked row, runs the handler's checks and computes    *)
(* the row to write; nobody else sees it until Commit, which writes the    *)
(* columns that differ from the ones read (SQLAlchemy emits the net        *)
(* changes, as absolute values) and releases the lock.                     *)
(***************************************************************************)
EXTENDS ListingRules, FiniteSets

CONSTANTS
  Listings,      \* primary keys of the listings table
  Recipients,    \* accounts that claim
  Host,          \* the organizer who owns the listings
  Requests,      \* slots for concurrent HTTP requests
  Sweepers,      \* one background sweeper per web worker
  Quantities,    \* quantities a claim may ask for (1..20 in the schema)
  Totals,        \* sizes of the listings at the start
  Windows,       \* expiry choices of those listings, in ticks
  Hold,          \* RESERVATION_MINUTES, in ticks
  Horizon,       \* bound: the clock stops here
  None           \* no transaction, no row, no account

ASSUME KeysAssumption ==
  /\ IsFiniteSet(Recipients)
  /\ Host \notin Recipients
  /\ Requests \cap Sweepers = {}
  /\ None \notin Requests \cup Sweepers \cup Listings
  /\ Sweepers \cap (Recipients \cup {Host}) = {}

ASSUME NumbersAssumption ==
  /\ Quantities \subseteq Nat \ {0}
  /\ Totals \subseteq Nat \ {0}
  /\ Windows \subseteq Nat \ {0}
  /\ Hold \in Nat \ {0}
  /\ Horizon \in Nat

VARIABLES
  clock,         \* wall clock, datetime.now(UTC)
  listings,      \* committed rows of the listings table
  claims,        \* committed rows of the claims table, by (listing, recipient)
  lock,          \* holder of each listing's row lock
  txn,           \* the transaction each process runs
  due,           \* claims a sweeper scanned and has still to release
  sweepNow       \* per sweeper: `now', read once when the pass started

db   == <<listings, claims>>
vars == <<clock, listings, claims, lock, txn, due, sweepNow>>

Proc     == Requests \cup Sweepers
ClaimId  == Listings \X Recipients
Actor    == Recipients \cup {Host} \cup Sweepers
Time     == Nat \cup {NoTime}

Row == [status: ListingStatus \cup {Absent}, total: Nat, remaining: Nat,
        window: Nat, expires: Nat, scheduled: Time]

\* uq_claim_per_recipient makes (listing, recipient) a key of the table.
Claim == [status: ClaimStatus \cup {Absent}, quantity: Nat, deadline: Nat]

NoRow   == [status |-> Absent, total |-> 0, remaining |-> 0,
            window |-> 0, expires |-> 0, scheduled |-> NoTime]
NoClaim == [status |-> Absent, quantity |-> 0, deadline |-> 0]

\* target is the status the transaction takes the claim to ("pending" is
\* create_claim, Absent an edit of the listing itself); loaded the claim's status
\* as first read, before the lock; seen and new the listing row as the
\* transaction read it and as it wants it.
NoTxn == [pc |-> "idle", listing |-> None, recipient |-> None, actor |-> None,
          target |-> Absent, quantity |-> 0, now |-> 0, loaded |-> Absent,
          seen |-> NoRow, new |-> NoRow]

Txn == [pc: {"idle", "waiting", "locked"},
        listing: Listings \cup {None}, recipient: Recipients \cup {None},
        actor: Actor \cup {None}, target: ClaimStatus \cup {Absent},
        quantity: Nat, now: Nat, loaded: ClaimStatus \cup {Absent},
        seen: Row, new: Row]

-----------------------------------------------------------------------------
(***************************************************************************)
(* The database, as the handlers use it.                                   *)
(***************************************************************************)

\* Mutant: the SELECT loses its FOR UPDATE.
LockFreeNoForUpdate(l) == TRUE

LockFree(l) == lock[l] = None

\* Mutant: no ck_listings_remaining_within_total.
RowAllowedNoUpperBound(row) == row.total > 0 /\ row.remaining >= 0

\* The CHECK constraints of the listings table.
RowAllowed(row) ==
  /\ row.total > 0
  /\ row.remaining >= 0
  /\ row.remaining <= row.total

\* UPDATE listings SET <the columns in which new differs from seen>, applied to
\* the newest committed row.
Updated(row, seen, new) ==
  [ status    |-> IF new.status # seen.status THEN new.status ELSE row.status,
    total     |-> IF new.total # seen.total THEN new.total ELSE row.total,
    remaining |-> IF new.remaining # seen.remaining
                    THEN new.remaining ELSE row.remaining,
    window    |-> row.window,
    expires   |-> IF new.expires # seen.expires
                    THEN new.expires ELSE row.expires,
    scheduled |-> IF new.scheduled # seen.scheduled
                    THEN new.scheduled ELSE row.scheduled ]

Waiting(p) == txn[p].pc = "waiting"

\* SELECT ... FOR UPDATE returns, and the handler's flush writes `new'.
Lock(p, new) ==
  LET l == txn[p].listing IN
  /\ lock' = [lock EXCEPT ![l] = p]
  /\ txn'  = [txn EXCEPT ![p].pc = "locked", ![p].seen = listings[l],
                         ![p].new = new]
  /\ UNCHANGED <<clock, db, due, sweepNow>>

\* The session ends with nothing written: an error response, or the sweep
\* moving on.  An exception in the sweep leaves the rest of the batch undone.
End(p, rest) ==
  /\ txn' = [txn EXCEPT ![p] = NoTxn]
  /\ due' = [due EXCEPT ![p] = rest]
  /\ UNCHANGED <<clock, db, sweepNow>>

-----------------------------------------------------------------------------
(***************************************************************************)
(* create_claim                                                            *)
(***************************************************************************)

\* The endpoint's role check and create_claim up to the lock; `now' is read
\* here, before the wait.
RequestClaim(p, l, r, q) ==
  /\ txn[p].pc = "idle"
  /\ txn' = [txn EXCEPT ![p] = [NoTxn EXCEPT
               !.pc = "waiting", !.listing = l, !.recipient = r, !.actor = r,
               !.target = "pending", !.quantity = q, !.now = clock]]
  /\ UNCHANGED <<clock, db, lock, due, sweepNow>>

\* Mutants: the clock, the quantity or the status is not checked.
ClaimableNoClock(row, quantity, now) ==
  row.status = "active" /\ row.remaining >= quantity
ClaimableNoQuantity(row, quantity, now) ==
  row.status = "active" /\ ~HasExpired(row, now)
ClaimableNoStatus(row, quantity, now) ==
  row.status # Absent /\ ~HasExpired(row, now) /\ row.remaining >= quantity

Claimable(row, quantity, now) ==
  /\ row.status = "active"
  /\ ~HasExpired(row, now)
  /\ row.remaining >= quantity

\* Mutant: the last portion leaves the post active.
ReserveNoSoldOut(row, quantity) == [row EXCEPT !.remaining = @ - quantity]

Reserve(row, quantity) ==
  [row EXCEPT !.remaining = @ - quantity,
              !.status = IF row.remaining = quantity THEN "claimed" ELSE @]

MayClaim(p) ==
  LET t == txn[p] IN
  /\ Claimable(listings[t.listing], t.quantity, t.now)
  /\ claims[t.listing][t.recipient].status = Absent

GrantClaim(p) ==
  /\ Waiting(p)
  /\ txn[p].target = "pending"
  /\ LockFree(txn[p].listing)
  /\ MayClaim(p)
  /\ Lock(p, Reserve(listings[txn[p].listing], txn[p].quantity))

RefuseClaim(p) ==
  /\ Waiting(p)
  /\ txn[p].target = "pending"
  /\ LockFree(txn[p].listing)
  /\ ~MayClaim(p)
  /\ End(p, {})
  /\ UNCHANGED lock

-----------------------------------------------------------------------------
(***************************************************************************)
(* load_claim_for_update and resolve_claim: pickup, no-show, cancel, and   *)
(* the sweep's own no-show.                                                *)
(***************************************************************************)

Load(p, l, r, actor, target, now) ==
  /\ txn[p].pc = "idle"
  /\ claims[l][r].status # Absent
  /\ txn' = [txn EXCEPT ![p] = [NoTxn EXCEPT
               !.pc = "waiting", !.listing = l, !.recipient = r,
               !.actor = actor, !.target = target, !.now = now,
               !.loaded = claims[l][r].status]]
  /\ UNCHANGED <<clock, db, lock, due, sweepNow>>

RequestResolve(p, l, r, actor, target) ==
  Load(p, l, r, actor, target, 0)

\* Mutant: no refresh, the status loaded before the lock is used.
StatusUnderLockNoRefresh(p) == txn[p].loaded

\* db.refresh(claim) once the listing is locked.
StatusUnderLock(p) == claims[txn[p].listing][txn[p].recipient].status

\* resolve_claim takes its own `now' for a request and the pass's for the sweep.
ResolveNow(p) == IF p \in Sweepers THEN txn[p].now ELSE clock

Entitled(p) ==
  CASE txn[p].actor \in Sweepers -> TRUE
    [] txn[p].target = "cancelled" -> txn[p].actor = txn[p].recipient
    [] OTHER -> txn[p].actor = Host

Release(row, quantity, now) ==
  [row EXCEPT !.remaining = @ + quantity,
              !.status = IF row.status = "claimed" /\ ~HasExpired(row, now)
                         THEN "active" ELSE @]

Resolved(p) ==
  LET t == txn[p] IN
  IF t.target \in RELEASING
  THEN Release(listings[t.listing],
               claims[t.listing][t.recipient].quantity, ResolveNow(p))
  ELSE listings[t.listing]

\* Mutant: no guard on the status.
MayResolveNoGuard(p) == Entitled(p)

MayResolve(p) == Entitled(p) /\ StatusUnderLock(p) = "pending"

WaitingToResolve(p) ==
  /\ Waiting(p)
  /\ txn[p].target \in ClaimStatus \ {"pending"}
  /\ LockFree(txn[p].listing)

\* The flush passes the CHECKs: claims alone never break one (PortionsConserved);
\* Marketplace has the flush that fails.
GrantResolve(p) ==
  /\ WaitingToResolve(p)
  /\ MayResolve(p)
  /\ RowAllowed(Resolved(p))
  /\ Lock(p, Resolved(p))

\* Not the caller's claim, or no longer pending: nothing happens, and the sweep
\* goes on with the next claim.
RefuseResolve(p) ==
  /\ WaitingToResolve(p)
  /\ ~MayResolve(p)
  /\ End(p, due[p] \ {<<txn[p].listing, txn[p].recipient>>})
  /\ UNCHANGED lock

-----------------------------------------------------------------------------
(***************************************************************************)
(* The end of a transaction.                                               *)
(***************************************************************************)

\* The claims row a transaction inserts or updates.
ClaimWritten(t, row) ==
  IF t.target = "pending"
  THEN [status |-> "pending", quantity |-> t.quantity,
        deadline |-> t.now + Hold]
  ELSE [row EXCEPT !.status = t.target]

Commit(p) ==
  LET t == txn[p] IN
  /\ t.pc = "locked"
  /\ listings' = [listings EXCEPT ![t.listing] = Updated(@, t.seen, t.new)]
  /\ claims' = IF t.target = Absent THEN claims
               ELSE [claims EXCEPT ![t.listing][t.recipient] =
                       ClaimWritten(t, @)]
  /\ lock' = [lock EXCEPT ![t.listing] = None]
  /\ txn'  = [txn EXCEPT ![p] = NoTxn]
  /\ due'  = [due EXCEPT ![p] = @ \ {<<t.listing, t.recipient>>}]
  /\ UNCHANGED <<clock, sweepNow>>

\* The connection or the process dies, or a later statement fails: PostgreSQL
\* forgets the transaction.  (One that dies waiting has done nothing yet.)
Rollback(p) ==
  /\ txn[p].pc = "locked"
  /\ lock' = [lock EXCEPT ![txn[p].listing] = None]
  /\ End(p, {})

-----------------------------------------------------------------------------
(***************************************************************************)
(* sweep_expired_reservations, run over and over by every sweeper.         *)
(***************************************************************************)

Lapsed(c, now) ==
  /\ claims[c[1]][c[2]].status = "pending"
  /\ claims[c[1]][c[2]].deadline <= now

\* Mutant: the scan looks at active listings only.
DueClaimsActiveOnly(now) ==
  {c \in ClaimId : Lapsed(c, now) /\ listings[c[1]].status = "active"}

\* The scan, without a lock and in no particular order.
DueClaims(now) == {c \in ClaimId : Lapsed(c, now)}

\* One pass starts: `now' is read once.  A scan that finds nothing changes nothing.
ScanReservations(s) ==
  /\ txn[s].pc = "idle"
  /\ due[s] = {}
  /\ DueClaims(clock) # {}
  /\ due' = [due EXCEPT ![s] = DueClaims(clock)]
  /\ sweepNow' = [sweepNow EXCEPT ![s] = clock]
  /\ UNCHANGED <<clock, db, lock, txn>>

\* The next claim of the batch, in the order the scan happened to return.
SweepNext(s) ==
  \E l \in Listings, r \in Recipients :
    /\ <<l, r>> \in due[s]
    /\ Load(s, l, r, s, "no_show", sweepNow[s])

-----------------------------------------------------------------------------

Tick ==
  /\ clock < Horizon
  /\ clock' = clock + 1
  /\ UNCHANGED <<db, lock, txn, due, sweepNow>>

\* A post of n portions that goes live at clock 0.
Posted(n, w) ==
  [status |-> "active", total |-> n, remaining |-> n, window |-> w,
   expires |-> w, scheduled |-> NoTime]

\* Nobody has asked for anything yet.
AtRest ==
  /\ clock = 0
  /\ claims = [l \in Listings |-> [r \in Recipients |-> NoClaim]]
  /\ lock = [l \in Listings |-> None]
  /\ txn = [p \in Proc |-> NoTxn]
  /\ due = [p \in Proc |-> {}]
  /\ sweepNow = [s \in Sweepers |-> 0]

Init ==
  /\ listings \in [Listings -> {Posted(n, w) : n \in Totals, w \in Windows}]
  /\ AtRest

\* A claim is resolved by its recipient or by the host; another account is
\* refused whatever it asks, as the host is when it asks to cancel.
Request(p) ==
  \E l \in Listings, r \in Recipients :
    \/ \E q \in Quantities : RequestClaim(p, l, r, q)
    \/ \E a \in {r, Host}, target \in ClaimStatus \ {"pending"} :
         RequestResolve(p, l, r, a, target)

Sweep(s) == ScanReservations(s) \/ SweepNext(s)

Settle(p) == GrantClaim(p) \/ RefuseClaim(p) \/ GrantResolve(p) \/ RefuseResolve(p)

Next ==
  \/ Tick
  \/ \E p \in Requests : Request(p)
  \/ \E s \in Sweepers : Sweep(s)
  \/ \E p \in Proc : Settle(p) \/ Commit(p) \/ Rollback(p)

Spec == Init /\ [][Next]_vars

-----------------------------------------------------------------------------
(***************************************************************************)
(* Properties.                                                             *)
(***************************************************************************)

\* The type invariant.
TypeOK ==
  /\ clock \in Nat
  /\ listings \in [Listings -> Row]
  /\ claims \in [Listings -> [Recipients -> Claim]]
  /\ lock \in [Listings -> Proc \cup {None}]
  /\ txn \in [Proc -> Txn]
  /\ due \in [Proc -> SUBSET ClaimId]
  /\ sweepNow \in [Sweepers -> Nat]

\* The portions that the claims on one listing hold, counting the claims in the
\* given statuses: one token per portion.
PortionsOf(onListing, statuses) ==
  UNION {{r} \X (1 .. onListing[r].quantity) :
           r \in {x \in Recipients : onListing[x].status \in statuses}}

SpokenFor(l) == Cardinality(PortionsOf(claims[l], {"pending", "picked_up"}))

\* No portion is lost or made up: what is on the shelf, reserved or collected is
\* what was posted, however claims, resolutions and sweeps interleave
\* (create_claim, resolve_claim: the arithmetic "exists in exactly one place").
PortionsConserved ==
  \A l \in Listings : listings[l].remaining + SpokenFor(l) = listings[l].total

\* The status column tells the truth about the shelf while the post is in date:
\* `active' means there is food, `claimed' that it has all been spoken for
\* (create_claim:74-76 and the reopening in resolve_claim:126-127).
StatusMatchesShelf ==
  \A l \in Listings :
    /\ listings[l].status = "active" => listings[l].remaining > 0
    /\ listings[l].status = "claimed" /\ ~HasExpired(listings[l], clock)
         => listings[l].remaining = 0

\* A reservation never outlives the post by more than the reservation window:
\* nobody who asks after expires_at gets one (create_claim:49).
BookedInDate ==
  \A l \in Listings, r \in Recipients :
    claims[l][r].status # Absent
      => claims[l][r].deadline < listings[l].expires + Hold

\* A transaction under way knows its listing and its claim, and one that creates
\* a claim asks for a quantity the schema allows.
Underway(t) ==
  /\ t.listing \in Listings
  /\ t.recipient \in Recipients
  /\ t.target \in ClaimStatus
  /\ t.target = "pending" => t.quantity \in Quantities

WellFormed == \A p \in Proc : txn[p].pc # "idle" => Underway(txn[p])

\* Only a transaction past its lock holds one, and it is its listing's.
LockOwned ==
  \A l \in Listings : lock[l] # None =>
    txn[lock[l]].pc = "locked" /\ txn[lock[l]].listing = l

\* A transaction will write the outcome of create_claim or resolve_claim on the
\* row and the claim it is given, at some moment up to `time'.
Planned(t, row, c, time) ==
  /\ t.seen = row
  /\ t.target = "pending" =>
       /\ c.status = Absent
       /\ Claimable(row, t.quantity, t.now)
       /\ t.new = Reserve(row, t.quantity)
  /\ t.target # "pending" =>
       /\ c.status = "pending"
       /\ t.target = "picked_up" => t.new = row
       /\ t.target \in RELEASING =>
            \E now \in 0 .. time : t.new = Release(row, c.quantity, now)

\* What a transaction read under the lock is still what is stored.
Fresh ==
  \A p \in Proc : txn[p].pc = "locked" =>
    LET t == txn[p] IN
    /\ lock[t.listing] = p
    /\ Planned(t, listings[t.listing], claims[t.listing][t.recipient], clock)

ClaimsPositive ==
  \A l \in Listings, r \in Recipients :
    claims[l][r].status # Absent => claims[l][r].quantity > 0

\* The inductive invariant.
IInv ==
  /\ TypeOK
  /\ WellFormed
  /\ LockOwned
  /\ Fresh
  /\ \A s \in Proc : txn[s].now <= clock
  /\ \A s \in Sweepers : sweepNow[s] <= clock
  /\ PortionsConserved
  /\ StatusMatchesShelf
  /\ BookedInDate
  /\ ClaimsPositive

\* A claim that has left `pending' never changes again: of two racing
\* resolutions one wins and the other is refused (the guard in resolve_claim and
\* the refresh in load_claim_for_update).
ResolvedIsFinal ==
  [][\A l \in Listings, r \in Recipients :
       claims[l][r].status \notin {Absent, "pending"}
         => claims'[l][r] = claims[l][r]]_vars

\* The shelf and the reservations, one atomic step per operation.
Pantry == INSTANCE Pantry
  WITH shelf <- [l \in Listings |-> listings[l].remaining],
       hand  <- [l \in Listings |-> [r \in Recipients |->
                   [status   |-> claims[l][r].status,
                    quantity |-> claims[l][r].quantity]]]
PantrySpec == Pantry!Spec
=============================================================================
