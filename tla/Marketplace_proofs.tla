------------------------- MODULE Marketplace_proofs -------------------------
(***************************************************************************)
(* Theorems about Marketplace, for every number of listings, recipients,   *)
(* requests and sweepers, every size, window and clock bound: what is left *)
(* of ClaimFlow's guarantees when unlocked edits and the lifecycle sweeps  *)
(* write the same rows.                                                    *)
(***************************************************************************)
EXTENDS Marketplace, ClaimFlow_proofs

-----------------------------------------------------------------------------
(***************************************************************************)
(* The inductive invariant.                                                *)
(***************************************************************************)

\* The statuses of a post that has been live, or was withdrawn.
LIVE == ListingStatus \ PRELIVE

\* What an edit asks for: the two counts move together and stay in bounds
\* (apply_new_total), or neither moves; a status is never moved back to a draft.
Rewrites(seen, new) ==
  /\ \/ new.total = seen.total /\ new.remaining = seen.remaining
     \/ /\ new.total # seen.total /\ new.remaining # seen.remaining
        /\ new.remaining <= new.total
  /\ new.status = seen.status \/ new.status \in LIVE

\* A transaction under way serves a claim or an edit.
Errand(t) ==
  /\ t.listing \in Listings
  /\ t.target # Absent => Underway(t)
  /\ t.target = Absent => Rewrites(t.seen, t.new)

Errands == \A p \in Proc : txn[p].pc # "idle" => Errand(txn[p])

\* A transaction past its lock still has it, and if it serves a claim nothing it
\* read under the lock has moved.  (Of an edit's row nothing of the kind is true.)
Holding ==
  \A p \in Proc : txn[p].pc = "locked" =>
    LET t == txn[p] IN
    /\ lock[t.listing] = p
    /\ t.target # Absent =>
         /\ Planned(t, listings[t.listing], claims[t.listing][t.recipient], clock)
         /\ t.new.remaining <= t.new.total

\* A sweeper never has a lifecycle batch and a claim in hand at once: its sweeps
\* run one after the other, so no lock of the one is taken for the other's.
InTurn ==
  \A s \in Sweepers :
    /\ phase[s] \in {"asleep", "reservations"} => batch[s] = {}
    /\ phase[s] \in {"finished", "golives"} => txn[s].pc = "idle"

Past ==
  /\ \A p \in Proc : txn[p].now <= clock
  /\ \A s \in Sweepers : sweepNow[s] <= clock

ClaimedIsLive ==
  \A l \in Listings, r \in Recipients :
    claims[l][r].status # Absent => listings[l].status \in LIVE

MarketIInv ==
  /\ MarketTypeOK
  /\ Errands
  /\ Holding
  /\ InTurn
  /\ Past
  /\ StockWithinBounds
  /\ ClaimedIsLive

-----------------------------------------------------------------------------
(***************************************************************************)
(* What an UPDATE leaves behind.                                           *)
(***************************************************************************)

\* An UPDATE gives a row whatever it lands on, and takes no post back to prelive.
LEMMA UpdatedType ==
  ASSUME NEW row \in Row, NEW seen \in Row, NEW new \in Row
  PROVE  /\ Updated(row, seen, new) \in Row
         /\ new.status = seen.status \/ new.status \in LIVE
              => \/ Updated(row, seen, new).status = row.status
                 \/ Updated(row, seen, new).status \in LIVE
BY DEF Updated, Row

\* A stale edit that lands on a newer row still leaves its stock within bounds:
\* the two counts it writes belong together.
LEMMA UpdatedStock ==
  ASSUME NEW row \in Row, NEW seen \in Row, NEW new \in Row,
         Rewrites(seen, new), row.remaining <= row.total
  PROVE  Updated(row, seen, new).remaining <= Updated(row, seen, new).total
BY DEF Updated, Row, Rewrites

\* A post of `total' portions, `left' of them on the shelf, is resized to n.
LEMMA ResizeArithmetic ==
  ASSUME NEW total \in Nat, NEW left \in Nat, NEW n \in Nat,
         left <= total, n >= total - left
  PROVE  \/ n = total /\ n - (total - left) = left
         \/ n # total /\ n - (total - left) # left /\ n - (total - left) <= n
OBVIOUS

\* What PATCH and cancel ask for.
LEMMA EditRewrites ==
  ASSUME NEW row \in Row, row.remaining <= row.total, row.status # Absent,
         NEW n \in NewTotals \cup {NoChange}, NEW now \in Nat,
         NEW target \in {"active", "claimed", NoChange},
         n # NoChange => TotalAccepted(row, n)
  PROVE  LET new == WithStatus(Resized(row, n), target, now) IN
         new \in Row /\ Rewrites(row, new)
<1> DEFINE sized == Resized(row, n)
           new == WithStatus(sized, target, now)
<1>1. /\ row.total \in Nat /\ row.remaining \in Nat /\ row.window \in Nat
      /\ row.status \in ListingStatus
  BY DEF Row
<1>2. /\ sized \in Row
      /\ sized.window = row.window /\ sized.status = row.status
      /\ \/ sized.total = row.total /\ sized.remaining = row.remaining
         \/ /\ sized.total # row.total /\ sized.remaining # row.remaining
            /\ sized.remaining <= sized.total
  <2>1. CASE n = NoChange
    BY <2>1 DEF Resized
  <2>2. CASE n # NoChange
    <3>1. n \in Nat /\ n >= row.total - row.remaining
      BY <2>2, MarketAssumption DEF TotalAccepted, PortionsSpokenFor
    <3>2. sized = [row EXCEPT !.total = n,
                              !.remaining = n - (row.total - row.remaining)]
      BY <2>2 DEF Resized, ApplyNewTotal, PortionsSpokenFor
    <3>3. n - (row.total - row.remaining) \in Nat
      BY <1>1, <3>1
    <3>4. /\ sized \in Row /\ sized.total = n
          /\ sized.remaining = n - (row.total - row.remaining)
          /\ sized.window = row.window /\ sized.status = row.status
      <4> HIDE DEF sized
      <4> QED BY <3>1, <3>2, <3>3 DEF Row
    <3>5. \/ /\ n = row.total
             /\ n - (row.total - row.remaining) = row.remaining
          \/ /\ n # row.total
             /\ n - (row.total - row.remaining) # row.remaining
             /\ n - (row.total - row.remaining) <= n
      BY <1>1, <3>1, ResizeArithmetic
    <3> HIDE DEF sized
    <3> QED BY <3>4, <3>5
  <2> QED BY <2>1, <2>2
<1>3. /\ new \in Row
      /\ new.total = sized.total /\ new.remaining = sized.remaining
      /\ new.status = sized.status \/ new.status \in {"active", "claimed"}
  <2>1. now + sized.window \in Nat /\ NoTime \in Time
    BY <1>2 DEF Row, Time
  <2> HIDE DEF sized
  <2>2. CASE target = NoChange
    BY <1>2, <2>2 DEF WithStatus
  <2>3. CASE target # NoChange /\ target = "active" /\ sized.status \in PRELIVE
    <3>1. new = [sized EXCEPT !.status = "active",
                              !.expires = now + sized.window,
                              !.scheduled = NoTime]
      BY <2>3 DEF WithStatus
    <3> HIDE DEF new
    <3> QED BY <1>2, <2>1, <3>1 DEF Row, ListingStatus
  <2>4. CASE target # NoChange /\ ~(target = "active" /\ sized.status \in PRELIVE)
    <3>1. new = [sized EXCEPT !.status = target]
      BY <2>4 DEF WithStatus
    <3>2. target \in {"active", "claimed"}
      BY <2>4
    <3> HIDE DEF new
    <3> QED BY <1>2, <3>1, <3>2 DEF Row, ListingStatus
  <2> QED BY <2>2, <2>3, <2>4
<1>4. {"active", "claimed"} \subseteq LIVE
  BY DEF LIVE, ListingStatus, PRELIVE
<1> HIDE DEF sized, new
<1> QED BY <1>2, <1>3, <1>4 DEF Rewrites, new, sized

\* What a lifecycle sweep writes: only a status and dates.
LEMMA SweptRewrites ==
  ASSUME MarketTypeOK, NEW s \in Sweepers, NEW row \in Row
  PROVE  Swept(s, row) \in Row /\ Rewrites(row, Swept(s, row))
<1>1. sweepNow[s] + row.window \in Nat
  BY DEF MarketTypeOK, TypeOK, Row
<1>2. {"active", "expired"} \subseteq ListingStatus \cap LIVE
  BY DEF LIVE, ListingStatus, PRELIVE
<1> QED BY <1>1, <1>2 DEF Swept, Row, Rewrites, Time


-----------------------------------------------------------------------------
(***************************************************************************)
(* Steps in general, by what they touch.                                   *)
(***************************************************************************)

\* A transaction that holds no lock starts, or ends, without writing.
LEMMA StartStep ==
  ASSUME MarketIInv, NEW p \in Proc, NEW t \in Txn,
         txn[p].pc # "locked", txn' = [txn EXCEPT ![p] = t],
         t.pc # "locked", t.now <= clock, t.pc # "idle" => Errand(t),
         t.pc = "idle" \/ p \notin Sweepers \/ phase[p] = "reservations",
         UNCHANGED <<clock, db, lock, sweepNow, sweepVars>>,
         due' \in [Proc -> SUBSET ClaimId]
  PROVE  MarketIInv'
<1> USE DEF db, sweepVars
<1>1. MarketTypeOK /\ TypeOK
  BY DEF MarketIInv, MarketTypeOK
<1>2. /\ txn' \in [Proc -> Txn]
      /\ txn'[p] = t
      /\ \A x \in Proc \ {p} : txn'[x] = txn[x]
  BY <1>1 DEF TypeOK
<1>3. MarketTypeOK'
  BY <1>1, <1>2 DEF MarketTypeOK, TypeOK
<1>4. Errands'
  BY <1>2 DEF MarketIInv, Errands, Errand, Underway
<1>5. Holding'
  BY <1>2 DEF MarketIInv, Holding
<1>6. InTurn'
  BY <1>2 DEF MarketIInv, InTurn, Proc
<1>7. Past'
  BY <1>2 DEF MarketIInv, Past
<1>8. StockWithinBounds' /\ ClaimedIsLive'
  BY DEF MarketIInv, StockWithinBounds, ClaimedIsLive
<1> QED BY <1>3, <1>4, <1>5, <1>6, <1>7, <1>8 DEF MarketIInv

\* A transaction gets its lock and knows what to write.
LEMMA GrantStep ==
  ASSUME MarketIInv, NEW p \in Proc, Waiting(p), LockFree(txn[p].listing),
         NEW t \in Txn, t.pc = "locked", t.listing = txn[p].listing,
         t.now = txn[p].now, Errand(t),
         t.target # Absent =>
           /\ Planned(t, listings[t.listing], claims[t.listing][t.recipient],
                      clock)
           /\ t.new.remaining <= t.new.total,
         txn' = [txn EXCEPT ![p] = t],
         lock' = [lock EXCEPT ![t.listing] = p],
         UNCHANGED <<clock, db, due, sweepNow, sweepVars>>
  PROVE  MarketIInv'
<1> USE DEF db, sweepVars
<1>1. MarketTypeOK /\ TypeOK
  BY DEF MarketIInv, MarketTypeOK
<1>2. /\ txn' \in [Proc -> Txn]
      /\ txn'[p] = t
      /\ \A x \in Proc \ {p} : txn'[x] = txn[x]
  BY <1>1 DEF TypeOK
<1>3. /\ t.listing \in Listings
      /\ lock' \in [Listings -> Proc \cup {None}]
      /\ lock'[t.listing] = p
      /\ \A k \in Listings \ {t.listing} : lock'[k] = lock[k]
  BY <1>1 DEF TypeOK, Errand
<1>4. MarketTypeOK'
  BY <1>1, <1>2, <1>3 DEF MarketTypeOK, TypeOK
<1>5. Errands'
  BY <1>2 DEF MarketIInv, Errands, Errand, Underway
<1>6. Holding'
  <2> SUFFICES ASSUME NEW x \in Proc, txn'[x].pc = "locked"
               PROVE  LET u == txn'[x] IN
                      /\ lock'[u.listing] = x
                      /\ u.target # Absent =>
                           /\ Planned(u, listings[u.listing],
                                      claims[u.listing][u.recipient], clock)
                           /\ u.new.remaining <= u.new.total
    BY DEF Holding
  <2>1. CASE x = p
    BY <1>2, <1>3, <2>1
  <2>2. CASE x # p
    <3>1. txn'[x] = txn[x] /\ txn[x].pc = "locked"
      BY <1>2, <2>2
    <3>2. lock[txn[x].listing] = x /\ txn[x].listing \in Listings
      BY <3>1 DEF MarketIInv, Holding, Errands, Errand
    <3>3. txn[x].listing # t.listing
      BY KeysAssumption, <3>2 DEF LockFree, Proc
    <3>4. lock'[txn[x].listing] = x
      BY <1>3, <3>2, <3>3
    <3> QED BY <3>1, <3>4 DEF MarketIInv, Holding
  <2> QED BY <2>1, <2>2
<1>7. InTurn'
  <2>1. p \in Sweepers => phase[p] \notin {"finished", "golives"}
    BY DEF MarketIInv, InTurn, Waiting
  <2> QED BY <1>2, <2>1 DEF MarketIInv, InTurn, Proc
<1>8. Past'
  BY <1>2 DEF MarketIInv, Past
<1>9. StockWithinBounds' /\ ClaimedIsLive'
  BY DEF MarketIInv, StockWithinBounds, ClaimedIsLive
<1> QED BY <1>4, <1>5, <1>6, <1>7, <1>8, <1>9 DEF MarketIInv

\* A lock holder leaves its lock and its slot; if it wrote nothing but its own
\* listing and that listing's claims, the others go on as they were.
LEMMA LeaveMarket ==
  ASSUME MarketIInv, NEW p \in Proc, txn[p].pc = "locked",
         txn' = [txn EXCEPT ![p] = NoTxn],
         lock' = [lock EXCEPT ![txn[p].listing] = None],
         UNCHANGED <<clock, sweepNow, sweepVars>>,
         due' \in [Proc -> SUBSET ClaimId],
         listings' \in [Listings -> Row],
         claims' \in [Listings -> [Recipients -> Claim]],
         \A l \in Listings \ {txn[p].listing} :
           listings'[l] = listings[l] /\ claims'[l] = claims[l],
         StockWithinBounds', ClaimedIsLive'
  PROVE  MarketIInv'
<1> USE DEF sweepVars
<1> DEFINE l == txn[p].listing
<1>1. MarketTypeOK /\ TypeOK /\ l \in Listings /\ lock[l] = p
  BY DEF MarketIInv, MarketTypeOK, Errands, Errand, Holding
<1>2. /\ txn' \in [Proc -> Txn]
      /\ txn'[p] = NoTxn
      /\ \A x \in Proc \ {p} : txn'[x] = txn[x]
  BY <1>1, NoTxnType DEF TypeOK
<1>3. /\ lock' \in [Listings -> Proc \cup {None}]
      /\ \A k \in Listings \ {l} : lock'[k] = lock[k]
  BY <1>1 DEF TypeOK
<1>4. MarketTypeOK'
  BY <1>1, <1>2, <1>3 DEF MarketTypeOK, TypeOK
<1>5. Errands'
  BY <1>2, NoTxnType DEF MarketIInv, Errands, Errand, Underway
<1>6. Holding'
  <2> SUFFICES ASSUME NEW x \in Proc, txn'[x].pc = "locked"
               PROVE  LET u == txn'[x] IN
                      /\ lock'[u.listing] = x
                      /\ u.target # Absent =>
                           /\ Planned(u, listings'[u.listing],
                                      claims'[u.listing][u.recipient], clock)
                           /\ u.new.remaining <= u.new.total
    BY DEF Holding
  <2>1. x # p /\ txn'[x] = txn[x] /\ txn[x].pc = "locked"
    BY <1>2, NoTxnType
  <2>2. lock[txn[x].listing] = x /\ txn[x].listing \in Listings \ {l}
    BY <1>1, <2>1 DEF MarketIInv, Holding, Errands, Errand
  <2> HIDE DEF l
  <2>3. lock'[txn[x].listing] = x
    BY <1>3, <2>2
  <2>4. /\ listings'[txn[x].listing] = listings[txn[x].listing]
        /\ claims'[txn[x].listing] = claims[txn[x].listing]
    BY <2>2 DEF l
  <2> QED BY <2>1, <2>3, <2>4 DEF MarketIInv, Holding
<1>7. InTurn'
  BY <1>2, NoTxnType DEF MarketIInv, InTurn, Proc
<1>8. Past'
  <2>1. 0 <= clock
    BY <1>1 DEF TypeOK
  <2> QED BY <1>2, <2>1, NoTxnType DEF MarketIInv, Past
<1> QED BY <1>4, <1>5, <1>6, <1>7, <1>8 DEF MarketIInv

\* A step of a lifecycle sweep, or of POST /listings: no transaction moves, and no
\* row that a claim is being served on.
LEMMA AsideStep ==
  ASSUME MarketIInv, UNCHANGED <<clock, claims, txn>>, MarketTypeOK', InTurn',
         \A s \in Sweepers : sweepNow'[s] <= clock,
         \A p \in Proc : txn[p].pc = "locked" =>
           LET l == txn[p].listing IN
           /\ lock'[l] = p
           /\ txn[p].target # Absent => listings'[l] = listings[l],
         StockWithinBounds', ClaimedIsLive'
  PROVE  MarketIInv'
<1>1. Errands'
  BY DEF MarketIInv, Errands, Errand, Underway
<1>2. Holding'
  BY DEF MarketIInv, Holding
<1>3. Past'
  BY DEF MarketIInv, Past
<1> QED BY <1>1, <1>2, <1>3 DEF MarketIInv


-----------------------------------------------------------------------------
(***************************************************************************)
(* The actions.                                                            *)
(***************************************************************************)

\* No listings, no claims, no transactions.
LEMMA MarketInitIInv == MarketInit => MarketIInv
<1> SUFFICES ASSUME MarketInit PROVE MarketIInv
  OBVIOUS
<1> USE DEF MarketInit, AtRest
<1>1. NoRow \in Row /\ NoRow.remaining = 0 /\ NoRow.total = 0
  BY DEF NoRow, Row, Time
<1>2. NoClaim \in Claim /\ NoClaim.status = Absent
  BY DEF NoClaim, Claim
<1>3. MarketTypeOK
  BY <1>1, <1>2, NoTxnType DEF MarketTypeOK, TypeOK, Phase, NoSnap
<1>4. Errands /\ Holding /\ InTurn /\ Past
  BY NoTxnType DEF Errands, Holding, InTurn, Past
<1>5. StockWithinBounds /\ ClaimedIsLive
  BY <1>1, <1>2 DEF StockWithinBounds, ClaimedIsLive
<1> QED BY <1>3, <1>4, <1>5 DEF MarketIInv

\* The clock advances.
LEMMA MarketTick ==
  ASSUME MarketIInv, Tick, UNCHANGED sweepVars PROVE MarketIInv'
<1> USE DEF Tick, db, sweepVars
<1>1. clock \in Nat /\ clock' = clock + 1 /\ clock' \in Nat
  BY DEF MarketIInv, MarketTypeOK, TypeOK
<1>2. MarketTypeOK'
  BY <1>1 DEF MarketIInv, MarketTypeOK, TypeOK
<1>3. Errands' /\ InTurn' /\ StockWithinBounds' /\ ClaimedIsLive'
  BY DEF MarketIInv, Errands, Errand, Underway, InTurn, StockWithinBounds,
         ClaimedIsLive
<1>4. Holding'
  BY <1>1, PlannedLater DEF MarketIInv, Holding
<1>5. Past'
  BY <1>1 DEF MarketIInv, MarketTypeOK, TypeOK, Txn, Past
<1> QED BY <1>2, <1>3, <1>4, <1>5 DEF MarketIInv

\* A claim or an edit is asked for: the handler's first reads.
LEMMA MarketLoad ==
  ASSUME MarketIInv, NEW p \in Proc, NEW l \in Listings, NEW r \in Recipients,
         NEW actor \in Actor, NEW target \in ClaimStatus \ {"pending"},
         NEW now \in Nat, now <= clock, Load(p, l, r, actor, target, now),
         p \notin Sweepers \/ phase[p] = "reservations", UNCHANGED sweepVars
  PROVE  MarketIInv'
<1> DEFINE t == [NoTxn EXCEPT !.pc = "waiting", !.listing = l, !.recipient = r,
                              !.actor = actor, !.target = target, !.now = now,
                              !.loaded = claims[l][r].status]
<1>0. TypeOK
  BY DEF MarketIInv, MarketTypeOK
<1>1. claims[l][r].status \in ClaimStatus \cup {Absent}
  BY <1>0, CellTypes DEF Claim
<1>2. /\ t \in Txn
      /\ t.pc = "waiting" /\ t.listing = l /\ t.recipient = r
      /\ t.target = target /\ t.now = now
  BY <1>1, NoTxnType DEF NoTxn, Txn
<1>3. /\ txn[p].pc # "locked" /\ txn' = [txn EXCEPT ![p] = t]
      /\ UNCHANGED <<clock, db, lock, due, sweepNow>>
  BY DEF Load
<1>4. Errand(t)
  <2>1. target # Absent
    BY DEF ClaimStatus, Absent
  <2> HIDE DEF t
  <2> QED BY <1>2, <2>1 DEF Errand, Underway
<1> HIDE DEF t
<1> QED BY <1>0, <1>2, <1>3, <1>4, StartStep DEF TypeOK

LEMMA MarketRequest ==
  ASSUME MarketIInv, NEW p \in Requests, Request(p), UNCHANGED sweepVars
  PROVE  MarketIInv'
<1>0. TypeOK /\ p \in Proc /\ p \notin Sweepers
  BY KeysAssumption DEF MarketIInv, MarketTypeOK, Proc
<1>1. PICK l \in Listings, r \in Recipients :
        \/ \E q \in Quantities : RequestClaim(p, l, r, q)
        \/ \E a \in {r, Host}, target \in ClaimStatus \ {"pending"} :
             RequestResolve(p, l, r, a, target)
  BY DEF Request
<1>2. CASE \E q \in Quantities : RequestClaim(p, l, r, q)
  <2> PICK q \in Quantities : RequestClaim(p, l, r, q)
    BY <1>2
  <2> DEFINE t == [NoTxn EXCEPT !.pc = "waiting", !.listing = l, !.recipient = r,
                                !.actor = r, !.target = "pending",
                                !.quantity = q, !.now = clock]
  <2>1. clock \in Nat /\ q \in Nat
    BY <1>0, NumbersAssumption DEF TypeOK
  <2>2. /\ t \in Txn
        /\ t.pc = "waiting" /\ t.listing = l /\ t.recipient = r
        /\ t.target = "pending" /\ t.quantity = q /\ t.now = clock
    BY <2>1, NoTxnType DEF NoTxn, Txn, Actor, ClaimStatus
  <2>3. /\ txn[p].pc # "locked" /\ txn' = [txn EXCEPT ![p] = t]
        /\ UNCHANGED <<clock, db, lock, due, sweepNow>>
    BY DEF RequestClaim
  <2> HIDE DEF t
  <2>4. Errand(t)
    BY <2>2 DEF Errand, Underway, ClaimStatus, Absent
  <2>5. t.now <= clock /\ due' \in [Proc -> SUBSET ClaimId]
    BY <1>0, <2>1, <2>2, <2>3 DEF TypeOK
  <2> QED BY <1>0, <2>2, <2>3, <2>4, <2>5, StartStep
<1>3. CASE \E a \in {r, Host}, target \in ClaimStatus \ {"pending"} :
             RequestResolve(p, l, r, a, target)
  <2>1. PICK a \in {r, Host}, target \in ClaimStatus \ {"pending"} :
          Load(p, l, r, a, target, 0)
    BY <1>3 DEF RequestResolve
  <2>2. a \in Actor /\ 0 \in Nat /\ 0 <= clock
    BY <1>0 DEF Actor, TypeOK
  <2> QED BY <1>0, <2>1, <2>2, MarketLoad
<1> QED BY <1>1, <1>2, <1>3

\* PATCH and cancel: whatever the row says by the time it is written, the edit
\* was computed from a row that was once stored.
LEMMA MarketEdit ==
  ASSUME MarketIInv, NEW p \in Requests, NEW l \in Listings, NEW new \in Row,
         Rewrites(listings[l], new), Edit(p, l, new), UNCHANGED sweepVars
  PROVE  MarketIInv'
<1>0. TypeOK /\ p \in Proc /\ p \notin Sweepers
  BY KeysAssumption DEF MarketIInv, MarketTypeOK, Proc
<1> DEFINE t == [NoTxn EXCEPT !.pc = "waiting", !.listing = l, !.actor = Host,
                              !.seen = listings[l], !.new = new]
<1>1. listings[l] \in Row /\ Host \in Actor
  BY <1>0 DEF TypeOK, Actor
<1>2. /\ t \in Txn
      /\ t.pc = "waiting" /\ t.listing = l /\ t.target = Absent
      /\ t.seen = listings[l] /\ t.new = new /\ t.now = 0
  BY <1>1, NoTxnType DEF NoTxn, Txn
<1>3. /\ txn[p].pc # "locked" /\ txn' = [txn EXCEPT ![p] = t]
      /\ UNCHANGED <<clock, db, lock, due, sweepNow>>
  BY DEF Edit
<1> HIDE DEF t
<1>4. Errand(t)
  BY <1>2 DEF Errand
<1>5. t.now <= clock /\ due' \in [Proc -> SUBSET ClaimId]
  BY <1>0, <1>2, <1>3 DEF TypeOK
<1> QED BY <1>0, <1>2, <1>3, <1>4, <1>5, StartStep

LEMMA MarketHostRequest ==
  ASSUME MarketIInv, NEW p \in Requests, HostRequest(p), UNCHANGED sweepVars
  PROVE  MarketIInv'
<1>1. PICK l \in Listings :
        \/ Cancel(p, l)
        \/ \E n \in NewTotals \cup {NoChange},
              target \in {"active", "claimed", NoChange} : Update(p, l, n, target)
  BY DEF HostRequest
<1>2. /\ listings[l] \in Row /\ clock \in Nat
      /\ listings[l].remaining <= listings[l].total
  BY DEF MarketIInv, MarketTypeOK, TypeOK, StockWithinBounds
<1>3. CASE Cancel(p, l)
  <2> DEFINE new == [listings[l] EXCEPT !.status = "cancelled"]
  <2>1. new \in Row /\ Rewrites(listings[l], new)
    BY <1>2 DEF Row, Rewrites, ListingStatus, LIVE, PRELIVE
  <2>2. Edit(p, l, new)
    BY <1>3 DEF Cancel
  <2> HIDE DEF new
  <2> QED BY <2>1, <2>2, MarketEdit
<1>4. CASE \E n \in NewTotals \cup {NoChange},
              target \in {"active", "claimed", NoChange} : Update(p, l, n, target)
  <2> PICK n \in NewTotals \cup {NoChange},
           target \in {"active", "claimed", NoChange} : Update(p, l, n, target)
    BY <1>4
  <2> DEFINE new == WithStatus(Resized(listings[l], n), target, clock)
  <2>1. new \in Row /\ Rewrites(listings[l], new)
    BY <1>2, EditRewrites DEF Update
  <2>2. Edit(p, l, new)
    BY DEF Update
  <2> HIDE DEF new
  <2> QED BY <2>1, <2>2, MarketEdit
<1> QED BY <1>1, <1>3, <1>4

\* What a transaction in its slot is about.
LEMMA MarketSlot ==
  ASSUME MarketIInv, NEW p \in Proc, txn[p].pc # "idle"
  PROVE  LET t == txn[p] IN
         /\ TypeOK /\ t \in Txn /\ t.listing \in Listings
         /\ listings[t.listing] \in Row
         /\ listings[t.listing].remaining <= listings[t.listing].total
         /\ t.target # Absent =>
              /\ Underway(t)
              /\ claims[t.listing][t.recipient] \in Claim
         /\ t.target = Absent => Rewrites(t.seen, t.new)
<1>1. TypeOK /\ Errand(txn[p])
  BY DEF MarketIInv, MarketTypeOK, Errands
<1> QED BY <1>1, CellTypes
        DEF TypeOK, Errand, Underway, MarketIInv, StockWithinBounds

\* A transaction that waited ends without having written.
LEMMA MarketEnd ==
  ASSUME MarketIInv, NEW p \in Proc, NEW rest \in SUBSET ClaimId, Waiting(p),
         End(p, rest), UNCHANGED <<lock, sweepVars>>
  PROVE  MarketIInv'
<1>1. /\ txn[p].pc # "locked" /\ txn' = [txn EXCEPT ![p] = NoTxn]
      /\ due' = [due EXCEPT ![p] = rest]
      /\ UNCHANGED <<clock, db, lock, sweepNow, sweepVars>>
  BY DEF Waiting, End
<1>2. TypeOK
  BY DEF MarketIInv, MarketTypeOK
<1>3. due' \in [Proc -> SUBSET ClaimId] /\ 0 <= clock
  BY <1>1, <1>2 DEF TypeOK
<1> QED BY <1>1, <1>3, NoTxnType, StartStep

\* create_claim and resolve_claim get the row: what they compute keeps its stock
\* within bounds.
LEMMA MarketLock ==
  ASSUME MarketIInv, NEW p \in Proc, Waiting(p), LockFree(txn[p].listing),
         NEW new \in Row, Lock(p, new), UNCHANGED sweepVars,
         txn[p].target # Absent, new.remaining <= new.total,
         LET t == txn[p] IN
         Planned(txn'[p], listings[t.listing], claims[t.listing][t.recipient],
                 clock)
  PROVE  MarketIInv'
<1> DEFINE t == txn[p]
           u == [t EXCEPT !.pc = "locked", !.seen = listings[t.listing],
                          !.new = new]
<1>1. /\ TypeOK /\ t \in Txn /\ t.listing \in Listings
      /\ listings[t.listing] \in Row /\ Underway(t)
  BY MarketSlot DEF Waiting
<1>2. /\ u \in Txn /\ u.pc = "locked" /\ u.listing = t.listing
      /\ u.recipient = t.recipient /\ u.target = t.target /\ u.now = t.now
      /\ u.quantity = t.quantity /\ u.new = new
  <2> HIDE DEF t
  <2> QED BY <1>1 DEF Txn
<1>3. /\ txn' = [txn EXCEPT ![p] = u]
      /\ lock' = [lock EXCEPT ![t.listing] = p]
      /\ UNCHANGED <<clock, db, due, sweepNow, sweepVars>>
  BY DEF Lock
<1>4. txn'[p] = u
  BY <1>1, <1>3 DEF TypeOK
<1>5. Errand(u)
  <2> HIDE DEF u
  <2> QED BY <1>1, <1>2 DEF Errand, Underway
<1> HIDE DEF u
<1> QED BY <1>1, <1>2, <1>3, <1>4, <1>5, GrantStep

LEMMA MarketSettle ==
  ASSUME MarketIInv, NEW p \in Proc, Settle(p) \/ RejectResolve(p),
         UNCHANGED sweepVars
  PROVE  MarketIInv'
<1> DEFINE t == txn[p]
           row == listings[t.listing]
           c == claims[t.listing][t.recipient]
<1>0. Waiting(p) /\ t.target \in ClaimStatus /\ t.target # Absent
  BY DEF Settle, GrantClaim, RefuseClaim, GrantResolve, RefuseResolve,
         RejectResolve, WaitingToResolve, ClaimStatus, Absent
<1>1. /\ TypeOK /\ t \in Txn /\ row \in Row /\ c \in Claim
      /\ row.remaining <= row.total
  BY <1>0, MarketSlot DEF Waiting
<1>2. /\ t.quantity \in Nat /\ t.now \in Nat /\ c.quantity \in Nat
      /\ row.remaining \in Nat /\ row.total \in Nat
  BY <1>1 DEF Txn, Row, Claim
<1>3. CASE GrantClaim(p)
  <2>1. /\ t.target = "pending" /\ LockFree(t.listing)
        /\ Claimable(row, t.quantity, t.now) /\ c.status = Absent
        /\ Lock(p, Reserve(row, t.quantity))
    BY <1>3 DEF GrantClaim, MayClaim
  <2>2. Reserve(row, t.quantity) \in Row
    BY <1>1, <1>2, <2>1, ReserveType DEF Claimable
  <2>3. Reserve(row, t.quantity).remaining <= Reserve(row, t.quantity).total
    BY <1>1, <1>2, <2>1 DEF Reserve, Row, Claimable
  <2>4. Planned(txn'[p], row, c, clock)
    BY <1>1, <2>1 DEF Lock, TypeOK, Txn, Planned
  <2> QED BY <1>0, <2>1, <2>2, <2>3, <2>4, MarketLock
<1>4. CASE GrantResolve(p)
  <2>1. /\ t.target \in ClaimStatus \ {"pending"} /\ LockFree(t.listing)
        /\ c.status = "pending" /\ Lock(p, Resolved(p))
        /\ Resolved(p).remaining <= Resolved(p).total
    BY <1>4 DEF GrantResolve, WaitingToResolve, MayResolve, StatusUnderLock,
                RowAllowed
  <2>2. ResolveNow(p) \in 0 .. clock
    BY <1>1, <1>2 DEF ResolveNow, MarketIInv, Past, TypeOK
  <2>3. Resolved(p) \in Row
    BY <1>1, <1>2, ReleaseType DEF Resolved
  <2>4. /\ t.target = "picked_up" => Resolved(p) = row
        /\ t.target \in RELEASING =>
             Resolved(p) = Release(row, c.quantity, ResolveNow(p))
    BY DEF Resolved, RELEASING
  <2>5. Planned(txn'[p], row, c, clock)
    BY <1>1, <2>1, <2>2, <2>4 DEF Lock, TypeOK, Txn, Planned
  <2> QED BY <1>0, <2>1, <2>3, <2>5, MarketLock
<1>5. CASE RefuseClaim(p)
  BY <1>0, <1>5, MarketEnd DEF RefuseClaim
<1>6. CASE RefuseResolve(p)
  <2>1. due[p] \in SUBSET ClaimId
    BY <1>1 DEF TypeOK
  <2> QED BY <1>0, <1>6, <2>1, MarketEnd DEF RefuseResolve
<1>7. CASE RejectResolve(p)
  BY <1>0, <1>7, MarketEnd DEF RejectResolve
<1> QED BY <1>3, <1>4, <1>5, <1>6, <1>7 DEF Settle

\* The UPDATE of an edit gets the row's lock; nothing is checked again.
LEMMA MarketGrantEdit ==
  ASSUME MarketIInv, NEW p \in Proc, GrantEdit(p), UNCHANGED sweepVars
  PROVE  MarketIInv'
<1> DEFINE t == txn[p]
           u == [t EXCEPT !.pc = "locked"]
<1>1. Waiting(p) /\ t.target = Absent /\ LockFree(t.listing)
  BY DEF GrantEdit, WaitingToWrite
<1>2. t \in Txn /\ t.listing \in Listings /\ Rewrites(t.seen, t.new) /\ TypeOK
  BY <1>1, MarketSlot DEF Waiting
<1>3. /\ u \in Txn /\ u.pc = "locked" /\ u.listing = t.listing
      /\ u.target = Absent /\ u.now = t.now
      /\ u.seen = t.seen /\ u.new = t.new
  <2> HIDE DEF t
  <2> QED BY <1>1, <1>2 DEF Txn, t
<1>4. /\ txn' = [txn EXCEPT ![p] = u]
      /\ lock' = [lock EXCEPT ![t.listing] = p]
      /\ UNCHANGED <<clock, db, due, sweepNow, sweepVars>>
  BY DEF GrantEdit
<1>5. Errand(u)
  <2> HIDE DEF u
  <2> QED BY <1>2, <1>3 DEF Errand
<1> HIDE DEF u
<1> QED BY <1>1, <1>2, <1>3, <1>4, <1>5, GrantStep

\* The row a commit leaves: within bounds, and not a draft if it was none.
LEMMA CommittedRow ==
  ASSUME MarketIInv, NEW p \in Proc, txn[p].pc = "locked"
  PROVE  LET t == txn[p]
             row == listings[t.listing]
             new == Updated(row, t.seen, t.new) IN
         /\ new \in Row
         /\ new.remaining <= new.total
         /\ new.status = row.status \/ new.status \in LIVE
<1> DEFINE t == txn[p]
           row == listings[t.listing]
           c == claims[t.listing][t.recipient]
           new == Updated(row, t.seen, t.new)
<1> SUFFICES /\ new \in Row
             /\ new.remaining <= new.total
             /\ new.status = row.status \/ new.status \in LIVE
  OBVIOUS
<1>1. /\ t \in Txn /\ row \in Row /\ row.remaining <= row.total
      /\ t.target # Absent => Underway(t) /\ c \in Claim
      /\ t.target = Absent => Rewrites(t.seen, t.new)
  BY MarketSlot
<1>2. t.seen \in Row /\ t.new \in Row
  BY <1>1 DEF Txn
<1>3. CASE t.target = Absent
  <2>1. Rewrites(t.seen, t.new)
    BY <1>1, <1>3
  <2> HIDE DEF t, row
  <2>2. t.new.status = t.seen.status \/ t.new.status \in LIVE
    BY <2>1 DEF Rewrites
  <2> QED BY <1>1, <1>2, <2>1, <2>2, UpdatedType, UpdatedStock
<1>4. CASE t.target # Absent
  <2>1. /\ Planned(t, row, c, clock) /\ t.new.remaining <= t.new.total
        /\ Underway(t)
    BY <1>1, <1>4 DEF MarketIInv, Holding
  <2> HIDE DEF t, row, c
  <2>2. /\ t.seen = row /\ t.new.window = row.window
        /\ t.new.status = row.status \/ t.new.status \in {"active", "claimed"}
    BY <1>1, <2>1 DEF Planned, Underway, ClaimStatus, RELEASING, Reserve,
                      Release, Row
  <2>3. new = t.new
    BY <1>1, <1>2, <2>2, UpdatedFresh
  <2>4. {"active", "claimed"} \subseteq LIVE
    BY DEF LIVE, ListingStatus, PRELIVE
  <2> HIDE DEF new
  <2> QED BY <1>2, <2>1, <2>2, <2>3, <2>4
<1> QED BY <1>3, <1>4

\* The claim a commit leaves, and what is known of the one it replaces.
LEMMA CommittedClaim ==
  ASSUME MarketIInv, NEW p \in Proc, Commit(p), txn[p].target # Absent
  PROVE  LET t == txn[p]
             l == t.listing
             r == t.recipient
             w == ClaimWritten(t, claims[l][r]) IN
         /\ l \in Listings /\ r \in Recipients
         /\ w \in Claim
         /\ claims' \in [Listings -> [Recipients -> Claim]]
         /\ claims'[l][r] = w
         /\ \A x \in Recipients \ {r} : claims'[l][x] = claims[l][x]
         /\ \A k \in Listings \ {l} : claims'[k] = claims[k]
         /\ Planned(t, listings[l], claims[l][r], clock)
         /\ w.status = t.target
<1> DEFINE t == txn[p]
           l == t.listing
           r == t.recipient
           w == ClaimWritten(t, claims[l][r])
           cl == [claims[l] EXCEPT ![r] = w]
<1>1. /\ TypeOK /\ t \in Txn /\ l \in Listings /\ r \in Recipients
      /\ t.target \in ClaimStatus /\ claims[l][r] \in Claim
  BY MarketSlot DEF Commit, Underway
<1>2. Planned(t, listings[l], claims[l][r], clock)
  BY DEF MarketIInv, Holding, Commit
<1>3. w \in Claim /\ w.status = t.target
  <2>1. t.now + Hold \in Nat /\ t.quantity \in Nat
    BY <1>1, NumbersAssumption DEF Txn
  <2> HIDE DEF t, l, r
  <2>2. CASE t.target = "pending"
    BY <1>1, <2>1, <2>2 DEF ClaimWritten, Claim, ClaimStatus
  <2>3. CASE t.target # "pending"
    BY <1>1, <2>3 DEF ClaimWritten, Claim
  <2> QED BY <2>2, <2>3
<1>4. claims' = [claims EXCEPT ![l] = cl]
  BY DEF Commit
<1>5. claims \in [Listings -> [Recipients -> Claim]]
  BY <1>1 DEF TypeOK
<1> HIDE DEF t, l, r
<1>6. /\ cl \in [Recipients -> Claim] /\ cl[r] = w
      /\ \A x \in Recipients \ {r} : cl[x] = claims[l][x]
  <2> HIDE DEF w
  <2> QED BY <1>1, <1>3, <1>5
<1> HIDE DEF cl, w
<1>7. /\ claims' \in [Listings -> [Recipients -> Claim]]
      /\ claims'[l] = cl
      /\ \A k \in Listings \ {l} : claims'[k] = claims[k]
  BY <1>1, <1>4, <1>5, <1>6
<1>8. /\ claims'[l][r] = w
      /\ \A x \in Recipients \ {r} : claims'[l][x] = claims[l][x]
  BY <1>6, <1>7
<1> QED BY <1>1, <1>2, <1>3, <1>7, <1>8 DEF t, l, r, w

\* A commit of a claim or of an edit.
LEMMA MarketCommit ==
  ASSUME MarketIInv, NEW p \in Proc, Commit(p), UNCHANGED sweepVars
  PROVE  MarketIInv'
<1> DEFINE t == txn[p]
           l == t.listing
           r == t.recipient
           new == Updated(listings[l], t.seen, t.new)
<1>1. /\ t.pc = "locked"
      /\ listings' = [listings EXCEPT ![l] = new]
      /\ t.target = Absent => claims' = claims
      /\ lock' = [lock EXCEPT ![l] = None]
      /\ txn' = [txn EXCEPT ![p] = NoTxn]
      /\ due' = [due EXCEPT ![p] = @ \ {<<l, r>>}]
      /\ UNCHANGED <<clock, sweepNow, sweepVars>>
  BY DEF Commit
<1>2. TypeOK /\ l \in Listings /\ StockWithinBounds /\ ClaimedIsLive
  BY <1>1, MarketSlot DEF MarketIInv
<1>3. /\ new \in Row
      /\ new.remaining <= new.total
      /\ new.status = listings[l].status \/ new.status \in LIVE
  BY <1>1, CommittedRow
<1> HIDE DEF new
<1>4. /\ listings' \in [Listings -> Row]
      /\ listings'[l] = new
      /\ \A k \in Listings \ {l} : listings'[k] = listings[k]
  BY <1>1, <1>2, <1>3 DEF TypeOK
<1>5. /\ claims' \in [Listings -> [Recipients -> Claim]]
      /\ \A k \in Listings \ {l} : claims'[k] = claims[k]
  BY <1>1, <1>2, CommittedClaim DEF TypeOK
<1>6. StockWithinBounds'
  <2>1. new.remaining \in 0 .. new.total
    BY <1>3 DEF Row
  <2> HIDE DEF t, l
  <2> QED BY <1>2, <1>4, <2>1 DEF StockWithinBounds
<1>7. ASSUME NEW x \in Recipients, claims'[l][x].status # Absent
      PROVE  new.status \in LIVE
  <2>1. listings[l].status \in LIVE
    <3>1. CASE claims[l][x].status # Absent
      BY <1>2, <3>1 DEF ClaimedIsLive
    <3>2. CASE claims[l][x].status = Absent
      <4>1. t.target # Absent /\ x = r
        BY <1>1, <1>7, <3>2, CommittedClaim
      <4>2. Planned(t, listings[l], claims[l][r], clock)
        BY <4>1, CommittedClaim
      <4>3. t.target = "pending"
        BY <3>2, <4>1, <4>2 DEF Planned, Absent
      <4> QED BY <4>2, <4>3
              DEF Planned, Claimable, LIVE, ListingStatus, PRELIVE
    <3> QED BY <3>1, <3>2
  <2> QED BY <1>3, <2>1
<1>8. ClaimedIsLive'
  <2> SUFFICES ASSUME NEW k \in Listings, NEW x \in Recipients,
                      claims'[k][x].status # Absent
               PROVE  listings'[k].status \in LIVE
    BY DEF ClaimedIsLive
  <2>1. CASE k = l
    BY <1>4, <1>7, <2>1
  <2>2. CASE k # l
    BY <1>2, <1>4, <1>5, <2>2 DEF ClaimedIsLive
  <2> QED BY <2>1, <2>2
<1>9. due' \in [Proc -> SUBSET ClaimId]
  BY <1>1, <1>2 DEF TypeOK
<1> QED BY <1>1, <1>4, <1>5, <1>6, <1>8, <1>9, LeaveMarket

\* PostgreSQL forgets the transaction.
LEMMA MarketRollback ==
  ASSUME MarketIInv, NEW p \in Proc, Rollback(p), UNCHANGED sweepVars
  PROVE  MarketIInv'
<1>1. /\ txn[p].pc = "locked"
      /\ lock' = [lock EXCEPT ![txn[p].listing] = None]
      /\ txn' = [txn EXCEPT ![p] = NoTxn]
      /\ due' = [due EXCEPT ![p] = {}]
      /\ clock' = clock /\ listings' = listings /\ claims' = claims
      /\ sweepNow' = sweepNow
  BY DEF Rollback, End, db
<1>2. TypeOK
  BY DEF MarketIInv, MarketTypeOK
<1>3. /\ due' \in [Proc -> SUBSET ClaimId]
      /\ listings' \in [Listings -> Row]
      /\ claims' \in [Listings -> [Recipients -> Claim]]
  BY <1>1, <1>2 DEF TypeOK
<1>4. StockWithinBounds' /\ ClaimedIsLive'
  BY <1>1 DEF MarketIInv, StockWithinBounds, ClaimedIsLive
<1> QED BY <1>1, <1>3, <1>4, LeaveMarket

\* POST /listings: a key without a row, on which nobody can have a claim.
LEMMA MarketCreate ==
  ASSUME MarketIInv, NEW l \in Listings, NEW n \in Totals, NEW w \in Windows,
         Create(l, n, w), UNCHANGED sweepVars
  PROVE  MarketIInv'
<1> USE DEF sweepVars
<1>1. /\ MarketTypeOK /\ TypeOK /\ clock \in Nat
      /\ n \in Nat /\ w \in Nat /\ n > 0
  BY NumbersAssumption DEF MarketIInv, MarketTypeOK, TypeOK
<1>2. PICK row \in Row : /\ listings' = [listings EXCEPT ![l] = row]
                         /\ row.remaining = row.total
  <2> DEFINE Post(status, expires, at) ==
               [status |-> status, total |-> n, remaining |-> n, window |-> w,
                expires |-> expires, scheduled |-> at]
  <2>1. \A status \in ListingStatus, expires \in Nat, at \in Time :
          Post(status, expires, at) \in Row
    BY <1>1 DEF Row
  <2>2. /\ clock + w \in Nat /\ NoTime \in Time
        /\ {"active", "draft", "scheduled"} \subseteq ListingStatus
        /\ \A at \in clock + 1 .. clock + Lead : at \in Time /\ at + w \in Nat
    BY <1>1, MarketAssumption DEF ListingStatus, Time
  <2>3. PICK row : /\ listings' = [listings EXCEPT ![l] = row]
                   /\ \/ row = Post("active", clock + w, NoTime)
                      \/ row = Post("draft", clock + w, NoTime)
                      \/ \E at \in clock + 1 .. clock + Lead :
                           row = Post("scheduled", at + w, at)
    BY DEF Create
  <2>4. row.remaining = row.total
    BY <2>3
  <2> HIDE DEF Post
  <2>5. row \in Row
    BY <2>1, <2>2, <2>3
  <2> QED BY <2>3, <2>4, <2>5
<1>3. /\ listings[l].status = Absent
      /\ UNCHANGED <<clock, claims, lock, txn, due, sweepNow>>
  BY DEF Create
<1>4. /\ listings' \in [Listings -> Row]
      /\ listings'[l] = row
      /\ \A k \in Listings \ {l} : listings'[k] = listings[k]
  BY <1>1, <1>2 DEF TypeOK
<1>5. Absent \notin LIVE
  BY DEF Absent, LIVE, ListingStatus
<1>6. StockWithinBounds'
  BY <1>2, <1>4 DEF StockWithinBounds, MarketIInv, Row
<1>7. ClaimedIsLive'
  BY <1>3, <1>4, <1>5 DEF ClaimedIsLive, MarketIInv
<1>8. ASSUME NEW p \in Proc, txn[p].pc = "locked", txn[p].target # Absent
      PROVE  txn[p].listing # l
  <2> DEFINE t == txn[p]
  <2>1. /\ Underway(t)
        /\ Planned(t, listings[t.listing], claims[t.listing][t.recipient], clock)
    BY <1>8 DEF MarketIInv, Errands, Errand, Holding
  <2>2. listings[t.listing].status \in LIVE
    BY <2>1 DEF Planned, Claimable, Underway, ClaimedIsLive, MarketIInv, LIVE,
                ListingStatus, PRELIVE, Absent
  <2> HIDE DEF t
  <2> QED BY <1>3, <1>5, <2>2 DEF t
<1>9. ASSUME NEW p \in Proc, txn[p].pc = "locked"
      PROVE  /\ lock'[txn[p].listing] = p
             /\ txn[p].target # Absent =>
                  listings'[txn[p].listing] = listings[txn[p].listing]
  <2>1. lock[txn[p].listing] = p /\ txn[p].listing \in Listings
    BY <1>9 DEF MarketIInv, Errands, Errand, Holding
  <2> QED BY <1>3, <1>4, <1>8, <1>9, <2>1
<1>10. MarketTypeOK' /\ InTurn' /\ \A s \in Sweepers : sweepNow'[s] <= clock
  BY <1>1, <1>3, <1>4 DEF MarketTypeOK, TypeOK, MarketIInv, InTurn, Past
<1> QED BY <1>3, <1>6, <1>7, <1>9, <1>10, AsideStep

\* A step of a sweeper that takes no lock and writes no listing: a scan.
LEMMA MarketScan ==
  ASSUME MarketIInv, UNCHANGED <<clock, db, lock, txn>>, MarketTypeOK', InTurn',
         \A s \in Sweepers : sweepNow'[s] <= clock
  PROVE  MarketIInv'
<1> USE DEF db
<1>1. StockWithinBounds' /\ ClaimedIsLive'
  BY DEF MarketIInv, StockWithinBounds, ClaimedIsLive
<1>2. \A p \in Proc : txn[p].pc = "locked" =>
        LET l == txn[p].listing IN
        /\ lock'[l] = p
        /\ txn[p].target # Absent => listings'[l] = listings[l]
  BY DEF MarketIInv, Holding
<1> QED BY <1>1, <1>2, AsideStep

LEMMA MarketSweeperStep ==
  ASSUME MarketIInv, NEW s \in Sweepers, SweeperStep(s)
  PROVE  MarketIInv'
<1>0. /\ MarketTypeOK /\ TypeOK /\ s \in Proc /\ s \in Actor
      /\ InTurn /\ \A x \in Sweepers : sweepNow[x] <= clock
  BY DEF MarketIInv, MarketTypeOK, Proc, Actor, Past
<1>1. CASE Wake(s)
  <2>1. /\ phase' = [phase EXCEPT ![s] = "reservations"]
        /\ phase[s] = "asleep" /\ UNCHANGED <<batch, snap>>
        /\ UNCHANGED <<clock, db, lock, txn>>
        /\ due' \in [Proc -> SUBSET ClaimId]
        /\ sweepNow' \in [Sweepers -> Nat]
        /\ \A x \in Sweepers : sweepNow'[x] <= clock
    BY <1>0, <1>1 DEF Wake, ScanReservations, DueClaims, vars, db, TypeOK
  <2>2. MarketTypeOK'
    BY <1>0, <2>1 DEF MarketTypeOK, TypeOK, Phase, db
  <2>3. InTurn'
    BY <1>0, <2>1 DEF InTurn, MarketTypeOK
  <2> QED BY <2>1, <2>2, <2>3, MarketScan
<1>2. CASE phase[s] = "reservations" /\ SweepNext(s) /\ UNCHANGED sweepVars
  <2>1. PICK l \in Listings, r \in Recipients :
          Load(s, l, r, s, "no_show", sweepNow[s])
    BY <1>2 DEF SweepNext
  <2>2. "no_show" \in ClaimStatus \ {"pending"} /\ sweepNow[s] \in Nat
    BY <1>0 DEF ClaimStatus, TypeOK
  <2> QED BY <1>0, <1>2, <2>1, <2>2, MarketLoad
<1>3. ASSUME NEW from, NEW to \in {"finished", "golives"},
             NEW rows \in SUBSET Listings, Open(s, from, to, rows)
      PROVE  MarketIInv'
  <2> USE <1>3 DEF Open
  <2>1. /\ phase' = [phase EXCEPT ![s] = to] /\ txn[s].pc = "idle"
        /\ UNCHANGED <<clock, db, lock, txn, due>>
    BY DEF Quiet
  <2>2. /\ sweepNow' \in [Sweepers -> Nat]
        /\ \A x \in Sweepers : sweepNow'[x] <= clock
    BY <1>0 DEF TypeOK
  <2>3. batch' \in [Sweepers -> SUBSET Listings]
    BY <1>0 DEF MarketTypeOK
  <2>4. snap' \in [Sweepers -> [Listings -> Row]]
    <3>1. NoRow \in Row
      BY DEF NoRow, Row, Time
    <3> QED BY <1>0, <3>1 DEF MarketTypeOK, TypeOK
  <2>5. MarketTypeOK'
    BY <1>0, <2>1, <2>2, <2>3, <2>4 DEF MarketTypeOK, TypeOK, Phase, db
  <2>6. InTurn'
    BY <1>0, <2>1 DEF InTurn, MarketTypeOK
  <2> QED BY <2>1, <2>2, <2>5, <2>6, MarketScan
<1>4. CASE ScanFinished(s)
  BY <1>3, <1>4 DEF ScanFinished
<1>5. CASE ScanGoLives(s)
  BY <1>3, <1>5 DEF ScanGoLives
<1>6. CASE EndPass(s)
  <2>1. /\ phase' = [phase EXCEPT ![s] = "asleep"] /\ batch[s] = {}
        /\ UNCHANGED <<vars, batch, snap>>
    BY <1>6 DEF EndPass, Quiet
  <2>2. MarketTypeOK'
    <3>1. TypeOK'
      BY <1>0, <2>1 DEF TypeOK, vars, db
    <3> QED BY <1>0, <2>1, <3>1 DEF MarketTypeOK, Phase
  <2>3. InTurn'
    BY <1>0, <2>1 DEF InTurn, MarketTypeOK, vars
  <2> QED BY <1>0, <2>1, <2>2, <2>3, MarketScan DEF vars, db
<1> QED BY <1>1, <1>2, <1>4, <1>5, <1>6 DEF SweeperStep

\* The sweeper queues for, writes or gives up the rows of its batch.
LEMMA MarketSweptRows ==
  ASSUME MarketIInv, NEW s \in Sweepers,
         LockSwept(s) \/ CommitSwept(s) \/ RollbackSwept(s)
  PROVE  MarketIInv'
<1>0. /\ MarketTypeOK /\ TypeOK /\ s \in Proc /\ s # None
      /\ InTurn /\ \A x \in Sweepers : sweepNow[x] <= clock
  BY KeysAssumption DEF MarketIInv, MarketTypeOK, Proc, Past
<1>1. ASSUME NEW p \in Proc, txn[p].pc = "locked"
      PROVE  lock[txn[p].listing] = p /\ txn[p].listing \in Listings /\ p # None
  BY <1>1, KeysAssumption DEF MarketIInv, Errands, Errand, Holding, Proc
<1>2. CASE LockSwept(s)
  <2>1. PICK l \in Listings : lock[l] = None /\ lock' = [lock EXCEPT ![l] = s]
    BY <1>0, <1>2 DEF LockSwept, LockFree, MarketTypeOK
  <2>2. /\ clock' = clock /\ listings' = listings /\ claims' = claims
        /\ UNCHANGED <<txn, due, sweepNow, phase, batch, snap>>
    BY <1>2 DEF LockSwept, db, sweepVars
  <2>3. MarketTypeOK'
    BY <1>0, <2>1, <2>2 DEF MarketTypeOK, TypeOK
  <2>4. InTurn' /\ StockWithinBounds' /\ ClaimedIsLive'
    BY <2>2 DEF MarketIInv, InTurn, StockWithinBounds, ClaimedIsLive
  <2>5. ASSUME NEW p \in Proc, txn[p].pc = "locked"
        PROVE  lock'[txn[p].listing] = p
    BY <1>0, <1>1, <2>1, <2>5 DEF TypeOK
  <2> QED BY <1>0, <2>2, <2>3, <2>4, <2>5, AsideStep
<1>3. ASSUME lock' = Unlocked(s), batch[s] # {},
             batch' = [batch EXCEPT ![s] = {}],
             snap' = [snap EXCEPT ![s] = NoSnap],
             UNCHANGED <<clock, claims, txn, due, sweepNow, phase>>,
             listings' \in [Listings -> Row],
             \A l \in Listings : lock[l] # s => listings'[l] = listings[l],
             StockWithinBounds', ClaimedIsLive'
      PROVE  MarketIInv'
  <2> USE <1>3
  <2>1. /\ lock' \in [Listings -> Proc \cup {None}]
        /\ \A l \in Listings : lock[l] # s => lock'[l] = lock[l]
    BY <1>0 DEF Unlocked, TypeOK
  <2>2. snap' \in [Sweepers -> [Listings -> Row]]
    <3>1. NoRow \in Row
      BY DEF NoRow, Row, Time
    <3> QED BY <1>0, <3>1 DEF MarketTypeOK, NoSnap
  <2>3. MarketTypeOK'
    BY <1>0, <2>1, <2>2 DEF MarketTypeOK, TypeOK
  <2>4. InTurn'
    BY <1>0 DEF InTurn, MarketTypeOK
  <2>5. txn[s].pc = "idle"
    BY <1>0 DEF InTurn, MarketTypeOK, Phase
  <2>6. ASSUME NEW p \in Proc, txn[p].pc = "locked"
        PROVE  /\ lock'[txn[p].listing] = p
               /\ listings'[txn[p].listing] = listings[txn[p].listing]
    BY <1>1, <2>1, <2>5, <2>6
  <2> QED BY <1>0, <2>3, <2>4, <2>6, AsideStep
<1>4. CASE CommitSwept(s)
  <2> DEFINE new(l) == Updated(listings[l], snap[s][l], Swept(s, snap[s][l]))
  <2>1. /\ lock' = Unlocked(s) /\ batch[s] # {}
        /\ batch' = [batch EXCEPT ![s] = {}]
        /\ snap' = [snap EXCEPT ![s] = NoSnap]
        /\ UNCHANGED <<clock, claims, txn, due, sweepNow, phase>>
        /\ \A l \in batch[s] : lock[l] = s
        /\ listings' = [l \in Listings |-> IF l \in batch[s] THEN new(l)
                                           ELSE listings[l]]
    BY <1>4 DEF CommitSwept
  <2>2. ASSUME NEW l \in Listings
        PROVE  /\ new(l) \in Row
               /\ new(l).remaining <= new(l).total
               /\ new(l).status = listings[l].status \/ new(l).status \in LIVE
    <3> DEFINE row == listings[l]
               seen == snap[s][l]
               swept == Swept(s, seen)
    <3>1. row \in Row /\ seen \in Row /\ row.remaining <= row.total
      BY <1>0 DEF MarketIInv, MarketTypeOK, TypeOK, StockWithinBounds
    <3>2. swept \in Row /\ Rewrites(seen, swept)
      BY <1>0, <3>1, SweptRewrites
    <3> HIDE DEF row, seen, swept
    <3>3. /\ Updated(row, seen, swept) \in Row
          /\ Updated(row, seen, swept).remaining
               <= Updated(row, seen, swept).total
          /\ \/ Updated(row, seen, swept).status = row.status
             \/ Updated(row, seen, swept).status \in LIVE
      <4>1. swept.status = seen.status \/ swept.status \in LIVE
        BY <3>2 DEF Rewrites
      <4> QED BY <3>1, <3>2, <4>1, UpdatedType, UpdatedStock
    <3> QED BY <3>3 DEF row, seen, swept
  <2> HIDE DEF new
  <2>3. /\ listings' \in [Listings -> Row]
        /\ \A l \in Listings : lock[l] # s => listings'[l] = listings[l]
    BY <1>0, <2>1, <2>2 DEF TypeOK
  <2>4. StockWithinBounds'
    <3>1. \A l \in Listings : new(l).remaining \in 0 .. new(l).total
      BY <2>2 DEF Row
    <3> QED BY <2>1, <3>1 DEF MarketIInv, StockWithinBounds
  <2>5. ClaimedIsLive'
    BY <2>1, <2>2 DEF MarketIInv, ClaimedIsLive
  <2> QED BY <1>3, <2>1, <2>3, <2>4, <2>5
<1>5. CASE RollbackSwept(s)
  <2>1. /\ lock' = Unlocked(s) /\ batch[s] # {}
        /\ batch' = [batch EXCEPT ![s] = {}]
        /\ snap' = [snap EXCEPT ![s] = NoSnap]
        /\ UNCHANGED <<clock, claims, txn, due, sweepNow, phase>>
        /\ listings' = listings
    BY <1>5 DEF RollbackSwept, db
  <2>2. listings' \in [Listings -> Row] /\ StockWithinBounds' /\ ClaimedIsLive'
    BY <1>0, <2>1 DEF TypeOK, MarketIInv, StockWithinBounds, ClaimedIsLive
  <2> QED BY <1>3, <2>1, <2>2
<1> QED BY <1>2, <1>4, <1>5

\* Every step preserves the invariant.
LEMMA MarketNextIInv == MarketIInv /\ [MarketNext]_allVars => MarketIInv'
<1> SUFFICES ASSUME MarketIInv, [MarketNext]_allVars PROVE MarketIInv'
  OBVIOUS
<1>1. CASE Tick /\ UNCHANGED sweepVars
  BY <1>1, MarketTick
<1>2. CASE \E l \in Listings, n \in Totals, w \in Windows :
             Create(l, n, w) /\ UNCHANGED sweepVars
  BY <1>2, MarketCreate
<1>3. CASE \E p \in Requests : Request(p) /\ UNCHANGED sweepVars
  BY <1>3, MarketRequest
<1>4. CASE \E p \in Requests : HostRequest(p) /\ UNCHANGED sweepVars
  BY <1>4, MarketHostRequest
<1>5. CASE \E p \in Proc : Settled(p) /\ UNCHANGED sweepVars
  BY <1>5, MarketSettle, MarketGrantEdit DEF Settled
<1>6. CASE \E p \in Proc : Commit(p) /\ UNCHANGED sweepVars
  BY <1>6, MarketCommit
<1>7. CASE \E p \in Proc : Rollback(p) /\ UNCHANGED sweepVars
  BY <1>7, MarketRollback
<1>8. CASE \E s \in Sweepers : SweeperStep(s)
  BY <1>8, MarketSweeperStep
<1>9. CASE \E s \in Sweepers : LockSwept(s) \/ CommitSwept(s) \/ RollbackSwept(s)
  BY <1>9, MarketSweptRows
<1>10. CASE UNCHANGED allVars
  <2>1. UNCHANGED <<clock, listings, claims, lock, txn, due, sweepNow, phase,
                    batch, snap>>
    BY <1>10 DEF allVars, vars, db, sweepVars
  <2>2. MarketTypeOK' /\ InTurn' /\ \A s \in Sweepers : sweepNow'[s] <= clock
    BY <2>1 DEF MarketIInv, MarketTypeOK, TypeOK, InTurn, Past
  <2> QED BY <2>1, <2>2, MarketScan DEF db
<1> QED BY <1>1, <1>2, <1>3, <1>4, <1>5, <1>6, <1>7, <1>8, <1>9, <1>10
        DEF MarketNext

-----------------------------------------------------------------------------
(***************************************************************************)
(* The theorems.                                                           *)
(***************************************************************************)

\* The inductive invariant holds in every reachable state: a claim's transaction
\* keeps what it locked, an edit's two counts belong together, and a sweeper does
\* one thing at a time.
THEOREM MarketInvariant == MarketSpec => []MarketIInv
<1> QED BY MarketInitIInv, MarketNextIInv, PTL DEF MarketSpec

\* Every variable has its type in every reachable state, with edits and lifecycle
\* sweeps at work: in particular no stored count is negative.
THEOREM MarketTypeCorrect == MarketSpec => []MarketTypeOK
<1>1. MarketIInv => MarketTypeOK
  BY DEF MarketIInv
<1> QED BY <1>1, MarketInvariant, PTL

\* Whatever stale UPDATE lands on whatever row, a post never offers more portions
\* than it has (update_listing, resolve_claim, apply_new_total).
THEOREM StockBounded == MarketSpec => []StockWithinBounds
<1>1. MarketIInv => StockWithinBounds
  BY DEF MarketIInv
<1> QED BY <1>1, MarketInvariant, PTL

\* Nobody has a claim on a draft or a scheduled post: what has been claimed is
\* never taken back to one (TRANSITIONS, create_claim's check of the status).
THEOREM PreliveUnclaimed == MarketSpec => []PreliveIsUnclaimed
<1>1. MarketIInv => PreliveIsUnclaimed
  BY DEF MarketIInv, ClaimedIsLive, LIVE, PreliveIsUnclaimed
<1> QED BY <1>1, MarketInvariant, PTL

\* Only a commit changes a claim.
LEMMA OnlyCommitsClaim ==
  [MarketNext]_allVars => claims' = claims \/ \E p \in Proc : Commit(p)
<1> SUFFICES ASSUME [MarketNext]_allVars, claims' # claims
             PROVE  \E p \in Proc : Commit(p)
  OBVIOUS
<1>1. UNCHANGED vars => claims' = claims
  BY DEF vars, db
<1>2. ASSUME NEW s, SweeperStep(s) PROVE claims' = claims
  BY <1>1, <1>2 DEF SweeperStep, Wake, ScanReservations, SweepNext, Load,
                    ScanFinished, ScanGoLives, Open, EndPass, db
<1>3. ASSUME NEW s, LockSwept(s) \/ CommitSwept(s) \/ RollbackSwept(s)
      PROVE  claims' = claims
  BY <1>3 DEF LockSwept, CommitSwept, RollbackSwept, db
<1>4. ASSUME NEW p, Settled(p) PROVE claims' = claims
  BY <1>4 DEF Settled, Settle, GrantClaim, RefuseClaim, GrantResolve,
              RefuseResolve, RejectResolve, GrantEdit, Lock, End, db
<1>5. ASSUME NEW p, Request(p) \/ HostRequest(p) \/ Rollback(p) \/ Tick
      PROVE  claims' = claims
  BY <1>5 DEF Request, RequestClaim, RequestResolve, Load, HostRequest, Cancel,
              Update, Edit, Rollback, End, Tick, db
<1>6. ASSUME NEW l, NEW n, NEW w, Create(l, n, w) PROVE claims' = claims
  BY <1>6 DEF Create
<1> QED BY <1>1, <1>2, <1>3, <1>4, <1>5, <1>6 DEF MarketNext, allVars

\* What a step does to a claim is what its one commit does.
LEMMA ClaimChanged ==
  ASSUME MarketIInv, [MarketNext]_allVars, NEW l \in Listings,
         NEW r \in Recipients, claims'[l][r] # claims[l][r]
  PROVE  \E p \in Proc :
           LET t == txn[p] IN
           /\ Planned(t, listings[l], claims[l][r], clock)
           /\ claims'[l][r] = ClaimWritten(t, claims[l][r])
           /\ claims'[l][r].status = t.target
<1>1. PICK p \in Proc : Commit(p)
  BY OnlyCommitsClaim
<1>2. txn[p].target # Absent
  BY <1>1 DEF Commit
<1>3. l = txn[p].listing /\ r = txn[p].recipient
  BY <1>1, <1>2, CommittedClaim
<1> QED BY <1>1, <1>2, <1>3, CommittedClaim

\* No reservation is granted from a post that is not active or has too little
\* left at that moment, however stale the edits in flight are: create_claim reads
\* the row under the lock that every writer needs.
THEOREM FromTheShelf == MarketSpec => ReservedFromTheShelf
<1> DEFINE A == \A l \in Listings, r \in Recipients :
                  claims[l][r].status = Absent /\ claims'[l][r].status = "pending"
                    => /\ listings[l].status = "active"
                       /\ claims'[l][r].quantity <= listings[l].remaining
<1>1. MarketIInv /\ [MarketNext]_allVars => A
  <2> SUFFICES ASSUME MarketIInv, [MarketNext]_allVars,
                      NEW l \in Listings, NEW r \in Recipients,
                      claims[l][r].status = Absent,
                      claims'[l][r].status = "pending"
               PROVE  /\ listings[l].status = "active"
                      /\ claims'[l][r].quantity <= listings[l].remaining
    OBVIOUS
  <2>1. PICK p \in Proc :
          /\ Planned(txn[p], listings[l], claims[l][r], clock)
          /\ claims'[l][r] = ClaimWritten(txn[p], claims[l][r])
          /\ txn[p].target = "pending"
    BY ClaimChanged DEF Absent
  <2>2. Claimable(listings[l], txn[p].quantity, txn[p].now)
    BY <2>1 DEF Planned
  <2>3. claims'[l][r].quantity = txn[p].quantity
    BY <2>1 DEF ClaimWritten
  <2>4. listings[l].remaining \in Nat /\ txn[p].quantity \in Nat
    BY DEF MarketIInv, MarketTypeOK, TypeOK, Row, Txn
  <2> QED BY <2>2, <2>3, <2>4 DEF Claimable
<1> QED BY <1>1, MarketInvariant, PTL DEF MarketSpec, ReservedFromTheShelf

\* Also among edits and lifecycle sweeps, a claim that has left `pending' never
\* changes again (the guard in resolve_claim, evaluated under the lock).
THEOREM ResolvedOnceInMarket == MarketSpec => ResolvedIsFinal
<1> DEFINE A == \A l \in Listings, r \in Recipients :
                  claims[l][r].status \notin {Absent, "pending"}
                    => claims'[l][r] = claims[l][r]
<1>1. MarketIInv /\ [MarketNext]_allVars => [A]_vars
  <2> SUFFICES ASSUME MarketIInv, [MarketNext]_allVars,
                      NEW l \in Listings, NEW r \in Recipients,
                      claims'[l][r] # claims[l][r]
               PROVE  claims[l][r].status \in {Absent, "pending"}
    OBVIOUS
  <2> QED BY ClaimChanged DEF Planned
<1> QED BY <1>1, MarketInvariant, PTL DEF MarketSpec, ResolvedIsFinal
=============================================================================
