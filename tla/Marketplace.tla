---------------------------- MODULE Marketplace -----------------------------
(***************************************************************************)
(* ClaimFlow together with everything else that writes a listing: the      *)
(* organizer's endpoints (create, update and cancel in                     *)
(* api/routers/listings.py) and the two lifecycle sweeps of                *)
(* api/services/claims.py, run in the scheduler's order                    *)
(* (api/services/scheduler.py).                                            *)
(*                                                                         *)
(* These writers take no lock when they read: they load the row, decide on *)
(* what they loaded, and their UPDATE waits for the row's lock only when   *)
(* it is sent.  It then overwrites the columns that differ from the row    *)
(* they had loaded.                                                        *)
(***************************************************************************)
EXTENDS ClaimFlow

CONSTANTS
  NewTotals,     \* sizes the organizer may change a listing to
  Publish,       \* how a post is created: "now", "draft" or "scheduled"
  Lead,          \* bound: a post is scheduled at most so far ahead
  NoChange       \* a field the PATCH body leaves out

ASSUME MarketAssumption ==
  /\ Listings \subseteq Nat
  /\ NewTotals \subseteq Nat \ {0}
  /\ Publish \subseteq {"now", "draft", "scheduled"}
  /\ Lead \in Nat
  /\ NoChange \notin NewTotals /\ NoChange \notin ListingStatus

VARIABLES
  phase,         \* where each sweeper is in its pass
  batch,         \* rows its open lifecycle transaction will write
  snap           \* those rows as that transaction read them

sweepVars == <<phase, batch, snap>>
allVars   == <<vars, sweepVars>>

Phase == {"asleep", "reservations", "finished", "golives"}

NoSnap == [l \in Listings |-> NoRow]

-----------------------------------------------------------------------------
(***************************************************************************)
(* The organizer's endpoints.                                              *)
(***************************************************************************)

\* POST /listings.  A draft's expiry is a placeholder; a scheduled post's
\* counts from its go-live.
Create(l, n, w) ==
  /\ listings[l].status = Absent
  /\ \/ /\ "now" \in Publish
        /\ listings' = [listings EXCEPT ![l] =
             [status |-> "active", total |-> n, remaining |-> n, window |-> w,
              expires |-> clock + w, scheduled |-> NoTime]]
     \/ /\ "draft" \in Publish
        /\ listings' = [listings EXCEPT ![l] =
             [status |-> "draft", total |-> n, remaining |-> n, window |-> w,
              expires |-> clock + w, scheduled |-> NoTime]]
     \/ /\ "scheduled" \in Publish
        /\ \E at \in clock + 1 .. clock + Lead :
             listings' = [listings EXCEPT ![l] =
               [status |-> "scheduled", total |-> n, remaining |-> n,
                window |-> w, expires |-> at + w, scheduled |-> at]]
  /\ UNCHANGED <<clock, claims, lock, txn, due, sweepNow>>

\* The row the handler read, unlocked, and the one it is about to write.
Edit(p, l, new) ==
  /\ txn[p].pc = "idle"
  /\ new # listings[l]
  /\ txn' = [txn EXCEPT ![p] = [NoTxn EXCEPT
               !.pc = "waiting", !.listing = l, !.actor = Host,
               !.seen = listings[l], !.new = new]]
  /\ UNCHANGED <<clock, db, lock, due, sweepNow>>

Resized(row, newTotal) ==
  IF newTotal = NoChange THEN row ELSE ApplyNewTotal(row, newTotal)

\* Publishing a draft or a scheduled post starts its window now.
WithStatus(row, target, now) ==
  IF target = NoChange THEN row
  ELSE IF target = "active" /\ row.status \in PRELIVE
  THEN [row EXCEPT !.status = target, !.expires = now + row.window,
                   !.scheduled = NoTime]
  ELSE [row EXCEPT !.status = target]

\* PATCH /listings/{id}, by its owner: anyone else is refused before any write.
Update(p, l, newTotal, target) ==
  /\ listings[l].status # Absent
  /\ Editable(listings[l], clock)
  /\ newTotal # NoChange => TotalAccepted(listings[l], newTotal)
  /\ target # NoChange => CanTransition(listings[l].status, target)
  /\ Edit(p, l, WithStatus(Resized(listings[l], newTotal), target, clock))

\* POST /listings/{id}/cancel; asking twice is not an error and writes nothing.
Cancel(p, l) ==
  /\ listings[l].status # Absent
  /\ CanTransition(listings[l].status, "cancelled")
  /\ Edit(p, l, [listings[l] EXCEPT !.status = "cancelled"])

WaitingToWrite(p) ==
  /\ Waiting(p)
  /\ txn[p].target = Absent
  /\ LockFree(txn[p].listing)

\* The UPDATE gets the row.  apply_new_total changes both counts or neither, so
\* no CHECK is in its way (StockWithinBounds).
GrantEdit(p) ==
  /\ WaitingToWrite(p)
  /\ lock' = [lock EXCEPT ![txn[p].listing] = p]
  /\ txn' = [txn EXCEPT ![p].pc = "locked"]
  /\ UNCHANGED <<clock, db, due, sweepNow>>

\* resolve_claim on a row that a stale edit has left too small: the new row breaks
\* a CHECK and the flush raises.  In the sweep the exception leaves the loop.
RejectResolve(p) ==
  /\ WaitingToResolve(p)
  /\ MayResolve(p)
  /\ ~RowAllowed(Resolved(p))
  /\ End(p, {})
  /\ UNCHANGED lock

HostRequest(p) ==
  \E l \in Listings :
    \/ Cancel(p, l)
    \/ \E n \in NewTotals \cup {NoChange},
          target \in {"active", "claimed", NoChange} : Update(p, l, n, target)

-----------------------------------------------------------------------------
(***************************************************************************)
(* One pass of the scheduler: reservations, finished listings, go-lives.   *)
(* A sweep that fails is logged and the next one runs (run_sweeps).        *)
(***************************************************************************)

Quiet(s) == txn[s].pc = "idle" /\ due[s] = {} /\ batch[s] = {}

\* The interval is over; the reservation scan may find nothing.
Wake(s) ==
  /\ phase[s] = "asleep"
  /\ \/ ScanReservations(s)
     \/ /\ DueClaims(clock) = {}
        /\ UNCHANGED vars
  /\ phase' = [phase EXCEPT ![s] = "reservations"]
  /\ UNCHANGED <<batch, snap>>

\* Rows the two lifecycle sweeps select.
Stale(l) ==
  listings[l].status \in {"active", "claimed"} /\ HasExpired(listings[l], clock)
DueToGoLive(l) ==
  listings[l].status = "scheduled" /\ listings[l].scheduled <= clock

\* A lifecycle sweep opens its one transaction and reads, without locking.
Open(s, from, to, rows) ==
  /\ phase[s] = from
  /\ Quiet(s)
  /\ phase' = [phase EXCEPT ![s] = to]
  /\ batch' = [batch EXCEPT ![s] = rows]
  /\ snap' = [snap EXCEPT ![s] =
                [l \in Listings |-> IF l \in rows THEN listings[l] ELSE NoRow]]
  /\ sweepNow' = [sweepNow EXCEPT ![s] = clock]
  /\ UNCHANGED <<clock, db, lock, txn, due>>

\* Mutant: posts that sold out are forgotten.
ScanFinishedActiveOnly(s) ==
  Open(s, "reservations", "finished",
       {l \in Listings : Stale(l) /\ listings[l].status = "active"})

ScanFinished(s) ==
  Open(s, "reservations", "finished", {l \in Listings : Stale(l)})

ScanGoLives(s) ==
  Open(s, "finished", "golives", {l \in Listings : DueToGoLive(l)})

EndPass(s) ==
  /\ phase[s] = "golives"
  /\ Quiet(s)
  /\ phase' = [phase EXCEPT ![s] = "asleep"]
  /\ UNCHANGED <<vars, batch, snap>>

\* Mutant: going live starts the window but forgets the status.
SweptNoStatus(s, row) ==
  IF phase[s] = "finished" THEN [row EXCEPT !.status = "expired"]
  ELSE [row EXCEPT !.expires = sweepNow[s] + row.window, !.scheduled = NoTime]

\* What the sweep sets on a row it read.
Swept(s, row) ==
  IF phase[s] = "finished" THEN [row EXCEPT !.status = "expired"]
  ELSE [row EXCEPT !.status = "active", !.expires = sweepNow[s] + row.window,
                   !.scheduled = NoTime]

\* The flush sends one UPDATE per row, in primary-key order; each waits for the
\* row's lock and keeps it until the commit.
LockSwept(s) ==
  \E l \in batch[s] :
    /\ LockFree(l)
    /\ \A k \in batch[s] : k < l => lock[k] = s
    /\ lock' = [lock EXCEPT ![l] = s]
    /\ UNCHANGED <<clock, db, txn, due, sweepNow, sweepVars>>

Unlocked(s) == [l \in Listings |-> IF lock[l] = s THEN None ELSE lock[l]]

CommitSwept(s) ==
  /\ batch[s] # {}
  /\ \A l \in batch[s] : lock[l] = s
  /\ listings' = [l \in Listings |->
       IF l \in batch[s]
       THEN Updated(listings[l], snap[s][l], Swept(s, snap[s][l]))
       ELSE listings[l]]
  /\ lock' = Unlocked(s)
  /\ batch' = [batch EXCEPT ![s] = {}]
  /\ snap' = [snap EXCEPT ![s] = NoSnap]
  /\ UNCHANGED <<clock, claims, txn, due, sweepNow, phase>>

RollbackSwept(s) ==
  /\ \E l \in batch[s] : lock[l] = s
  /\ lock' = Unlocked(s)
  /\ batch' = [batch EXCEPT ![s] = {}]
  /\ snap' = [snap EXCEPT ![s] = NoSnap]
  /\ UNCHANGED <<clock, db, txn, due, sweepNow, phase>>

SweeperStep(s) ==
  \/ Wake(s)
  \/ phase[s] = "reservations" /\ SweepNext(s) /\ UNCHANGED sweepVars
  \/ ScanFinished(s)
  \/ ScanGoLives(s)
  \/ EndPass(s)

-----------------------------------------------------------------------------

MarketInit ==
  /\ listings = [l \in Listings |-> NoRow]
  /\ AtRest
  /\ phase = [s \in Sweepers |-> "asleep"]
  /\ batch = [s \in Sweepers |-> {}]
  /\ snap = [s \in Sweepers |-> NoSnap]

Settled(p) == Settle(p) \/ RejectResolve(p) \/ GrantEdit(p)

MarketNext ==
  \/ Tick /\ UNCHANGED sweepVars
  \/ \E l \in Listings, n \in Totals, w \in Windows :
       Create(l, n, w) /\ UNCHANGED sweepVars
  \/ \E p \in Requests : Request(p) /\ UNCHANGED sweepVars
  \/ \E p \in Requests : HostRequest(p) /\ UNCHANGED sweepVars
  \/ \E p \in Proc : Settled(p) /\ UNCHANGED sweepVars
  \/ \E p \in Proc : Commit(p) /\ UNCHANGED sweepVars
  \/ \E p \in Proc : Rollback(p) /\ UNCHANGED sweepVars
  \/ \E s \in Sweepers : SweeperStep(s)
  \/ \E s \in Sweepers : LockSwept(s) \/ CommitSwept(s) \/ RollbackSwept(s)

MarketSpec == MarketInit /\ [][MarketNext]_allVars

(***************************************************************************)
(* Fairness.  A transaction that holds a lock ends (WF).  The sweep loop   *)
(* never stops (WF).  PostgreSQL queues lock waiters, so a sweeper's turn  *)
(* comes however often others get the lock first (SF), and its             *)
(* transactions do not fail for ever (SF on their commit).                 *)
(***************************************************************************)
MarketFairness ==
  /\ \A p \in Requests : WF_allVars(Commit(p) /\ UNCHANGED sweepVars)
  /\ \A s \in Sweepers : /\ WF_allVars(SweeperStep(s))
                         /\ SF_allVars(Settled(s) /\ UNCHANGED sweepVars)
                         /\ SF_allVars(Commit(s) /\ UNCHANGED sweepVars)
                         /\ SF_allVars(LockSwept(s))
                         /\ SF_allVars(CommitSwept(s))

-----------------------------------------------------------------------------
(***************************************************************************)
(* Properties.                                                             *)
(***************************************************************************)

MarketTypeOK ==
  /\ TypeOK
  /\ phase \in [Sweepers -> Phase]
  /\ batch \in [Sweepers -> SUBSET Listings]
  /\ snap \in [Sweepers -> [Listings -> Row]]

\* Whatever races whatever, a stored row never offers more portions than the post
\* has or fewer than none, also when an UPDATE lands on a row newer than the one
\* it was computed from.
StockWithinBounds ==
  \A l \in Listings : listings[l].remaining \in 0 .. listings[l].total

\* Portions are handed out only from a post that is active and has them at the
\* moment the reservation commits, whatever stale edits are in flight.
ReservedFromTheShelf ==
  [][\A l \in Listings, r \in Recipients :
       claims[l][r].status = Absent /\ claims'[l][r].status = "pending"
         => /\ listings[l].status = "active"
            /\ claims'[l][r].quantity <= listings[l].remaining]_allVars

\* A draft or scheduled post has no claims, and what was live is never again a
\* draft or scheduled.
PreliveIsUnclaimed ==
  \A l \in Listings, r \in Recipients :
    listings[l].status \in PRELIVE => claims[l][r].status = Absent

\* A post whose go-live time has come goes live, or has been withdrawn.
ScheduledGoesLive ==
  \A l \in Listings : DueToGoLive(l) ~> listings[l].status # "scheduled"

\* A finished post is not described as active for ever (expire_stale_listings).
FinishedIsExpired ==
  \A l \in Listings : Stale(l) ~> ~Stale(l)

\* A reservation that a stale edit has left its post too small to take back: the
\* flush of its release breaks a CHECK on every pass.
Broken(c) ==
  /\ claims[c[1]][c[2]].status = "pending"
  /\ ~RowAllowed(Release(listings[c[1]], claims[c[1]][c[2]].quantity, clock))

\* A lapsed reservation does not hold its portions for ever: a pass releases it,
\* unless some reservation is broken.  Its own need not be the broken one: the
\* exception ends the batch (sweep_expired_reservations), whose docstring has it
\* that a bad row cannot stall the rest.
LapsedIsReleased ==
  \A c \in ClaimId :
    Lapsed(c, clock) ~>
      \/ claims[c[1]][c[2]].status # "pending"
      \/ \E d \in ClaimId : Broken(d)
=============================================================================
