-------------------------- MODULE ClaimFlow_proofs --------------------------
(***************************************************************************)
(* Theorems about ClaimFlow, for every number of listings, recipients,     *)
(* requests and sweepers, every quantity and every clock bound.            *)
(***************************************************************************)
EXTENDS ClaimFlow, FiniteSetTheorems, TLAPS

-----------------------------------------------------------------------------
(***************************************************************************)
(* Counting portions.                                                      *)
(***************************************************************************)

\* n portions are n tokens.
LEMMA TokensCounted ==
  ASSUME NEW n \in Nat
  PROVE  IsFiniteSet(1 .. n) /\ Cardinality(1 .. n) = n
<1>1. /\ IsFiniteSet(1 .. n)
      /\ Cardinality(1 .. n) = IF 1 > n THEN 0 ELSE n - 1 + 1
  BY FS_Interval
<1> QED BY <1>1

\* The portions spoken for on a listing are finitely many.
LEMMA PortionsFinite ==
  ASSUME NEW cl \in [Recipients -> Claim], NEW S
  PROVE  IsFiniteSet(PortionsOf(cl, S))
<1> DEFINE R == {x \in Recipients : cl[x].status \in S}
           Of(r) == {r} \X (1 .. cl[r].quantity)
           f == [r \in R |-> Of(r)]
           T == {Of(r) : r \in R}
<1>1. IsFiniteSet(R)
  BY KeysAssumption, FS_Subset
<1>2. f \in Surjection(R, T)
  BY DEF Surjection
<1>3. IsFiniteSet(T)
  <2> HIDE DEF f, R, T
  <2> QED BY <1>1, <1>2, FS_Surjection
<1>4. ASSUME NEW t \in T PROVE IsFiniteSet(t)
  <2>1. PICK r \in R : t = Of(r)
    OBVIOUS
  <2>2. cl[r].quantity \in Nat
    BY DEF Claim
  <2>3. IsFiniteSet({r})
    BY FS_Singleton
  <2>4. IsFiniteSet(1 .. cl[r].quantity)
    BY <2>2, TokensCounted
  <2> QED BY <2>1, <2>3, <2>4, FS_Product
<1>5. IsFiniteSet(UNION T)
  <2> HIDE DEF T
  <2> QED BY <1>3, <1>4, FS_UNION
<1> QED BY <1>5 DEF PortionsOf

\* One claim that starts to count adds its quantity.
LEMMA PortionsAdded ==
  ASSUME NEW cl \in [Recipients -> Claim], NEW new \in [Recipients -> Claim],
         NEW S, NEW r \in Recipients,
         \A x \in Recipients \ {r} : new[x] = cl[x],
         cl[r].status \notin S, new[r].status \in S
  PROVE  Cardinality(PortionsOf(new, S))
           = Cardinality(PortionsOf(cl, S)) + new[r].quantity
<1> DEFINE Old == PortionsOf(cl, S)
           Mine == {r} \X (1 .. new[r].quantity)
<1>1. PortionsOf(new, S) = Old \cup Mine
  BY DEF PortionsOf
<1>2. Old \cap Mine = {}
  BY DEF PortionsOf
<1>3. IsFiniteSet(Old)
  BY PortionsFinite
<1>4. new[r].quantity \in Nat
  BY DEF Claim
<1>5. IsFiniteSet(Mine) /\ Cardinality(Mine) = new[r].quantity
  <2>1. IsFiniteSet({r}) /\ Cardinality({r}) = 1
    BY FS_Singleton
  <2>2. /\ IsFiniteSet(1 .. new[r].quantity)
        /\ Cardinality(1 .. new[r].quantity) = new[r].quantity
    BY <1>4, TokensCounted
  <2> QED BY <1>4, <2>1, <2>2, FS_Product
<1>6. Cardinality(Old \cup Mine)
        = Cardinality(Old) + Cardinality(Mine) - Cardinality({})
  <2> HIDE DEF Old, Mine
  <2> QED BY <1>2, <1>3, <1>5, FS_Union
<1>7. Cardinality(Old) \in Nat /\ Cardinality({}) = 0
  BY <1>3, FS_CardinalityType, FS_EmptySet
<1> HIDE DEF Old, Mine
<1> QED BY <1>1, <1>4, <1>5, <1>6, <1>7 DEF Old

\* A claim that keeps counting, with the same quantity, changes nothing.
LEMMA PortionsKept ==
  ASSUME NEW cl \in [Recipients -> Claim], NEW new \in [Recipients -> Claim],
         NEW S, NEW r \in Recipients,
         \A x \in Recipients \ {r} : new[x] = cl[x],
         cl[r].status \in S, new[r].status \in S,
         new[r].quantity = cl[r].quantity
  PROVE  PortionsOf(new, S) = PortionsOf(cl, S)
BY DEF PortionsOf

-----------------------------------------------------------------------------
(***************************************************************************)
(* Types of the values the actions write.                                  *)
(***************************************************************************)

\* An empty transaction slot has its type.
LEMMA NoTxnType == NoTxn \in Txn /\ NoTxn.pc = "idle" /\ NoTxn.now = 0
BY DEF NoTxn, Txn, NoRow, Row, Time, NoTime, Absent

\* Reserving what is there gives a row.
LEMMA ReserveType ==
  ASSUME NEW row \in Row, NEW q \in Nat, q <= row.remaining
  PROVE  Reserve(row, q) \in Row
<1>1. /\ IF row.remaining = q THEN "claimed" \in ListingStatus
                                ELSE row.status \in ListingStatus \cup {Absent}
      /\ row.remaining - q \in Nat
  BY DEF Row, ListingStatus
<1> QED BY <1>1 DEF Reserve, Row

\* Releasing portions gives a row.
LEMMA ReleaseType ==
  ASSUME NEW row \in Row, NEW q \in Nat, NEW now
  PROVE  Release(row, q, now) \in Row
<1>1. "active" \in ListingStatus /\ row.remaining + q \in Nat
  BY DEF Row, ListingStatus
<1> QED BY <1>1 DEF Release, Row

\* An UPDATE that lands on the row it was computed from writes the row it wants,
\* unless it wants another window, a column nobody writes.
LEMMA UpdatedFresh ==
  ASSUME NEW row \in Row, NEW new \in Row, new.window = row.window
  PROVE  Updated(row, row, new) = new
BY DEF Updated, Row

\* The row of a table cell.
LEMMA CellTypes ==
  ASSUME TypeOK, NEW l \in Listings, NEW r \in Recipients
  PROVE  /\ listings[l] \in Row
         /\ claims[l] \in [Recipients -> Claim]
         /\ claims[l][r] \in Claim
         /\ claims[l][r].quantity \in Nat
         /\ claims[l][r].deadline \in Nat
BY DEF TypeOK, Claim

-----------------------------------------------------------------------------
(***************************************************************************)
(* The inductive invariant.  Its first part (Session) is about the         *)
(* transactions, its second (Books) about what is stored.                  *)
(***************************************************************************)

Session ==
  /\ WellFormed
  /\ LockOwned
  /\ Fresh
  /\ \A p \in Proc : txn[p].now <= clock
  /\ \A s \in Sweepers : sweepNow[s] <= clock

Books ==
  /\ PortionsConserved
  /\ StatusMatchesShelf
  /\ BookedInDate
  /\ ClaimsPositive

\* What is stored is untouched: so is what is true of it.
LEMMA BooksKept ==
  ASSUME Books, UNCHANGED <<clock, db>>
  PROVE  Books'
BY DEF Books, db, PortionsConserved, SpokenFor, PortionsOf, StatusMatchesShelf,
       BookedInDate, ClaimsPositive, HasExpired

\* Nobody has claimed anything: every portion is on the shelf.
LEMMA InitIInv == Init => IInv
<1> SUFFICES ASSUME Init PROVE IInv
  OBVIOUS
<1> USE DEF Init, AtRest
<1>1. TypeOK
  <2>1. \A n \in Totals, w \in Windows : Posted(n, w) \in Row
    BY NumbersAssumption DEF Posted, Row, Time, NoTime, ListingStatus
  <2>2. NoClaim \in Claim
    BY DEF Claim, NoClaim
  <2> QED BY <2>1, <2>2, NoTxnType DEF TypeOK
<1>2. Session
  BY KeysAssumption, NumbersAssumption, NoTxnType
     DEF Session, WellFormed, LockOwned, Fresh, Proc
<1>3. \A l \in Listings : /\ listings[l].total \in Nat \ {0}
                          /\ listings[l].remaining = listings[l].total
                          /\ listings[l].status = "active"
  <2> TAKE l \in Listings
  <2>1. PICK n \in Totals, w \in Windows : listings[l] = Posted(n, w)
    OBVIOUS
  <2> QED BY <2>1, NumbersAssumption DEF Posted
<1>4. \A l \in Listings : SpokenFor(l) = 0
  <2> TAKE l \in Listings
  <2>1. PortionsOf(claims[l], {"pending", "picked_up"}) = {}
    BY DEF PortionsOf, NoClaim, Absent
  <2> QED BY <2>1, FS_EmptySet DEF SpokenFor
<1>5. \A l \in Listings, r \in Recipients : claims[l][r].status = Absent
  BY DEF NoClaim
<1>6. PortionsConserved
  BY <1>3, <1>4 DEF PortionsConserved
<1>7. StatusMatchesShelf
  BY <1>3 DEF StatusMatchesShelf
<1>8. BookedInDate /\ ClaimsPositive
  BY <1>5 DEF BookedInDate, ClaimsPositive
<1> QED BY <1>1, <1>2, <1>6, <1>7, <1>8 DEF IInv, Session

-----------------------------------------------------------------------------
(***************************************************************************)
(* The steps that store nothing.                                           *)
(***************************************************************************)

\* A plan stays a plan as time passes.
LEMMA PlannedLater ==
  ASSUME NEW t, NEW row, NEW c, NEW i \in Nat, NEW j \in Nat, i <= j,
         Planned(t, row, c, i)
  PROVE  Planned(t, row, c, j)
BY DEF Planned

\* The clock advances: everything known about a past `now' stays known.
LEMMA TickKeeps == ASSUME IInv, Tick PROVE IInv'
<1> USE DEF Tick, db
<1>1. clock \in Nat /\ clock' = clock + 1 /\ clock' \in Nat
  BY DEF IInv, TypeOK
<1>2. TypeOK'
  BY <1>1 DEF IInv, TypeOK
<1>3. Session'
  <2>1. WellFormed' /\ LockOwned'
    BY DEF IInv, WellFormed, LockOwned
  <2>2. Fresh'
    BY <1>1, PlannedLater DEF IInv, Fresh
  <2>3. \A p \in Proc : txn'[p].now <= clock'
    BY <1>1 DEF IInv, TypeOK, Txn
  <2>4. \A s \in Sweepers : sweepNow'[s] <= clock'
    BY <1>1 DEF IInv, TypeOK
  <2> QED BY <2>1, <2>2, <2>3, <2>4 DEF Session
<1>4. Books'
  <2>1. StatusMatchesShelf'
    BY <1>1 DEF IInv, TypeOK, Row, StatusMatchesShelf, HasExpired
  <2> QED BY <2>1 DEF IInv, Books, PortionsConserved, SpokenFor, PortionsOf,
                      BookedInDate, ClaimsPositive
<1> QED BY <1>2, <1>3, <1>4 DEF IInv, Session, Books

\* A transaction that holds no lock starts, or ends, without writing.
LEMMA UnlockedStep ==
  ASSUME IInv, NEW p \in Proc, NEW t \in Txn,
         txn[p].pc # "locked", txn' = [txn EXCEPT ![p] = t],
         t.pc # "locked", t.now <= clock,
         t.pc # "idle" => Underway(t),
         UNCHANGED <<clock, db, lock>>,
         due' \in [Proc -> SUBSET ClaimId],
         sweepNow' \in [Sweepers -> Nat],
         \A s \in Sweepers : sweepNow'[s] <= clock
  PROVE  IInv'
<1> USE DEF db
<1>1. TypeOK /\ WellFormed /\ LockOwned /\ Fresh
  BY DEF IInv
<1>2. /\ txn' \in [Proc -> Txn]
      /\ txn'[p] = t
      /\ \A x \in Proc \ {p} : txn'[x] = txn[x]
  BY <1>1 DEF TypeOK
<1>3. TypeOK'
  BY <1>1, <1>2 DEF TypeOK
<1>4. WellFormed'
  BY <1>1, <1>2 DEF WellFormed
<1>5. LockOwned'
  <2> SUFFICES ASSUME NEW l \in Listings, lock'[l] # None
               PROVE  txn'[lock'[l]].pc = "locked" /\ txn'[lock'[l]].listing = l
    BY DEF LockOwned
  <2>1. lock[l] \in Proc /\ txn[lock[l]].pc = "locked"
    BY <1>1 DEF LockOwned, TypeOK
  <2> QED BY <1>1, <1>2, <2>1 DEF LockOwned
<1>6. Fresh'
  BY <1>1, <1>2 DEF Fresh
<1>7. /\ \A x \in Proc : txn'[x].now <= clock'
      /\ \A s \in Sweepers : sweepNow'[s] <= clock'
  BY <1>2 DEF IInv
<1>8. Books'
  BY BooksKept DEF IInv, Books
<1> QED BY <1>3, <1>4, <1>5, <1>6, <1>7, <1>8 DEF IInv, Books

\* create_claim up to the lock.
LEMMA RequestClaimKeeps ==
  ASSUME IInv, NEW p \in Requests, NEW l \in Listings, NEW r \in Recipients,
         NEW q \in Quantities, RequestClaim(p, l, r, q)
  PROVE  IInv'
<1> DEFINE t == [NoTxn EXCEPT !.pc = "waiting", !.listing = l, !.recipient = r,
                              !.actor = r, !.target = "pending",
                              !.quantity = q, !.now = clock]
<1>1. clock \in Nat /\ q \in Nat /\ q > 0
  BY NumbersAssumption DEF IInv, TypeOK
<1>2. /\ t \in Txn
      /\ t.pc = "waiting" /\ t.listing = l /\ t.recipient = r
      /\ t.target = "pending" /\ t.quantity = q /\ t.now = clock
  BY <1>1, NoTxnType DEF NoTxn, Txn, Actor, ClaimStatus
<1>3. /\ txn[p].pc # "locked" /\ txn' = [txn EXCEPT ![p] = t]
      /\ UNCHANGED <<clock, db, lock, due, sweepNow>>
  BY DEF RequestClaim
<1>4. p \in Proc /\ "pending" \in ClaimStatus
  BY DEF Proc, ClaimStatus
<1>5. /\ t.pc # "locked" /\ t.now <= clock /\ Underway(t)
      /\ due' \in [Proc -> SUBSET ClaimId]
      /\ sweepNow' \in [Sweepers -> Nat]
      /\ \A s \in Sweepers : sweepNow'[s] <= clock
  <2> HIDE DEF t
  <2> QED BY <1>1, <1>2, <1>3, <1>4 DEF IInv, TypeOK, Underway
<1> HIDE DEF t
<1> QED BY <1>1, <1>2, <1>3, <1>4, <1>5, UnlockedStep

\* load_claim_for_update up to the lock.
LEMMA LoadKeeps ==
  ASSUME IInv, NEW p \in Proc, NEW l \in Listings, NEW r \in Recipients,
         NEW actor \in Actor, NEW target \in ClaimStatus \ {"pending"},
         NEW now \in Nat, now <= clock, Load(p, l, r, actor, target, now)
  PROVE  IInv'
<1> DEFINE t == [NoTxn EXCEPT !.pc = "waiting", !.listing = l, !.recipient = r,
                              !.actor = actor, !.target = target, !.now = now,
                              !.loaded = claims[l][r].status]
<1>1. claims[l][r].status \in ClaimStatus \cup {Absent}
  BY CellTypes DEF IInv, Claim
<1>2. /\ t \in Txn
      /\ t.pc = "waiting" /\ t.listing = l /\ t.recipient = r
      /\ t.target = target /\ t.now = now
  BY <1>1, NoTxnType DEF NoTxn, Txn
<1>3. /\ txn[p].pc # "locked" /\ txn' = [txn EXCEPT ![p] = t]
      /\ UNCHANGED <<clock, db, lock, due, sweepNow>>
  BY DEF Load
<1> HIDE DEF t
<1> QED BY <1>2, <1>3, UnlockedStep DEF IInv, TypeOK, Underway

\* A request or the next claim of a sweep asks for a lock.
LEMMA RequestKeeps == ASSUME IInv, NEW p \in Requests, Request(p) PROVE IInv'
<1>1. PICK l \in Listings, r \in Recipients :
        \/ \E q \in Quantities : RequestClaim(p, l, r, q)
        \/ \E a \in {r, Host}, target \in ClaimStatus \ {"pending"} :
             RequestResolve(p, l, r, a, target)
  BY DEF Request
<1>2. CASE \E q \in Quantities : RequestClaim(p, l, r, q)
  BY <1>2, RequestClaimKeeps
<1>3. CASE \E a \in {r, Host}, target \in ClaimStatus \ {"pending"} :
             RequestResolve(p, l, r, a, target)
  <2>1. PICK a \in {r, Host}, target \in ClaimStatus \ {"pending"} :
          Load(p, l, r, a, target, 0)
    BY <1>3 DEF RequestResolve
  <2>2. p \in Proc /\ a \in Actor /\ 0 \in Nat /\ 0 <= clock
    BY DEF Proc, Actor, IInv, TypeOK
  <2> QED BY <2>1, <2>2, LoadKeeps
<1> QED BY <1>1, <1>2, <1>3

\* The sweep scans, or takes the next claim of its batch.
LEMMA SweepKeeps == ASSUME IInv, NEW s \in Sweepers, Sweep(s) PROVE IInv'
<1>1. CASE ScanReservations(s)
  <2> USE DEF ScanReservations, db
  <2>1. /\ due' \in [Proc -> SUBSET ClaimId]
        /\ sweepNow' \in [Sweepers -> Nat]
        /\ \A x \in Sweepers : sweepNow'[x] <= clock
    BY <1>1 DEF IInv, TypeOK, DueClaims, Proc
  <2>2. TypeOK'
    BY <1>1, <2>1 DEF IInv, TypeOK
  <2>3. WellFormed' /\ LockOwned'
    BY <1>1 DEF IInv, WellFormed, LockOwned
  <2>4. Fresh'
    BY <1>1 DEF IInv, Fresh
  <2>5. Books'
    BY <1>1, BooksKept DEF IInv, Books
  <2> QED BY <1>1, <2>1, <2>2, <2>3, <2>4, <2>5 DEF IInv, Books
<1>2. CASE SweepNext(s)
  <2>1. PICK l \in Listings, r \in Recipients :
          Load(s, l, r, s, "no_show", sweepNow[s])
    BY <1>2 DEF SweepNext
  <2>2. /\ s \in Proc /\ s \in Actor
        /\ "no_show" \in ClaimStatus \ {"pending"}
        /\ sweepNow[s] \in Nat /\ sweepNow[s] <= clock
    BY DEF Proc, Actor, ClaimStatus, IInv, TypeOK
  <2> QED BY <2>1, <2>2, LoadKeeps
<1> QED BY <1>1, <1>2 DEF Sweep

\* A transaction that waited ends with an error or with nothing to do.
LEMMA EndKeeps ==
  ASSUME IInv, NEW p \in Proc, NEW rest \in SUBSET ClaimId, Waiting(p),
         End(p, rest), UNCHANGED lock
  PROVE  IInv'
<1>1. /\ txn[p].pc # "locked" /\ txn' = [txn EXCEPT ![p] = NoTxn]
      /\ due' = [due EXCEPT ![p] = rest]
      /\ UNCHANGED <<clock, db, lock, sweepNow>>
  BY DEF Waiting, End
<1>2. due' \in [Proc -> SUBSET ClaimId]
  BY <1>1 DEF IInv, TypeOK
<1>3. 0 <= clock
  BY DEF IInv, TypeOK
<1> QED BY <1>1, <1>2, <1>3, NoTxnType, UnlockedStep DEF IInv, TypeOK

\* A transaction gets its lock and knows what to write.
LEMMA LockStep ==
  ASSUME IInv, NEW p \in Proc, Waiting(p), LockFree(txn[p].listing),
         NEW new \in Row, Lock(p, new),
         LET t == txn[p] IN
         Planned(txn'[p], listings[t.listing], claims[t.listing][t.recipient],
                 clock)
  PROVE  IInv'
<1> DEFINE t == txn[p]
           l == t.listing
<1>0. /\ lock' = [lock EXCEPT ![l] = p]
      /\ txn' = [txn EXCEPT ![p].pc = "locked", ![p].seen = listings[l],
                            ![p].new = new]
      /\ clock' = clock /\ listings' = listings /\ claims' = claims
      /\ due' = due /\ sweepNow' = sweepNow
  BY DEF Lock, db
<1>1. TypeOK /\ WellFormed /\ LockOwned /\ Fresh
  BY DEF IInv
<1>2. /\ t \in Txn /\ l \in Listings /\ t.recipient \in Recipients
      /\ Underway(t)
  BY <1>1 DEF WellFormed, Waiting, TypeOK, Underway
<1>3. listings[l] \in Row
  BY <1>1, <1>2, CellTypes
<1>4. /\ txn' \in [Proc -> Txn]
      /\ \A x \in Proc \ {p} : txn'[x] = txn[x]
      /\ txn'[p].pc = "locked" /\ txn'[p].seen = listings[l]
      /\ txn'[p].new = new
      /\ txn'[p].listing = l /\ txn'[p].recipient = t.recipient
      /\ txn'[p].target = t.target /\ txn'[p].quantity = t.quantity
      /\ txn'[p].now = t.now
  BY <1>0, <1>1, <1>2, <1>3 DEF TypeOK, Txn
<1>5. /\ lock' \in [Listings -> Proc \cup {None}]
      /\ lock'[l] = p
      /\ \A x \in Listings \ {l} : lock'[x] = lock[x]
  BY <1>0, <1>1, <1>2 DEF TypeOK
<1>6. TypeOK'
  BY <1>0, <1>1, <1>4, <1>5 DEF TypeOK
<1>7. WellFormed'
  <2>1. Underway(txn'[p])
    BY <1>2, <1>4 DEF Underway
  <2> QED BY <1>1, <1>4, <2>1 DEF WellFormed
<1>8. LockOwned'
  <2> SUFFICES ASSUME NEW k \in Listings, lock'[k] # None
               PROVE  txn'[lock'[k]].pc = "locked" /\ txn'[lock'[k]].listing = k
    BY DEF LockOwned
  <2>1. CASE k = l
    BY <1>4, <1>5, <2>1
  <2>2. CASE k # l
    <3>1. lock[k] \in Proc /\ txn[lock[k]].pc = "locked"
                          /\ txn[lock[k]].listing = k
      BY <1>1, <1>5, <2>2 DEF LockOwned, TypeOK
    <3>2. lock[k] # p
      BY <3>1 DEF Waiting
    <3> QED BY <1>4, <1>5, <2>2, <3>1, <3>2
  <2> QED BY <2>1, <2>2
<1>9. Fresh'
  <2> DEFINE F(x) == LET u == txn'[x] IN
               /\ lock'[u.listing] = x
               /\ Planned(u, listings[u.listing],
                          claims[u.listing][u.recipient], clock)
  <2> SUFFICES ASSUME NEW x \in Proc, txn'[x].pc = "locked" PROVE F(x)
    BY <1>0 DEF Fresh
  <2>1. CASE x = p
    BY <1>4, <1>5, <2>1
  <2>2. CASE x # p
    <3>1. txn'[x] = txn[x]
      BY <1>4, <2>2
    <3>2. lock[txn[x].listing] = x /\ txn[x].listing \in Listings
      BY <1>1, <3>1 DEF Fresh, WellFormed, Underway
    <3>3. txn[x].listing # l
      BY KeysAssumption, <3>2 DEF LockFree, Proc
    <3>4. lock'[txn[x].listing] = x
      BY <1>5, <3>2, <3>3
    <3> QED BY <1>1, <3>1, <3>4 DEF Fresh
  <2> QED BY <2>1, <2>2
<1>10. /\ \A x \in Proc : txn'[x].now <= clock'
       /\ \A s \in Sweepers : sweepNow'[s] <= clock'
  BY <1>0, <1>4 DEF IInv
<1>11. Books'
  BY <1>0, BooksKept DEF IInv, Books, db
<1> QED BY <1>6, <1>7, <1>8, <1>9, <1>10, <1>11 DEF IInv, Books

\* create_claim or resolve_claim settles: it is granted or refused.
LEMMA SettleKeeps == ASSUME IInv, NEW p \in Proc, Settle(p) PROVE IInv'
<1> DEFINE t == txn[p]
           row == listings[t.listing]
           c == claims[t.listing][t.recipient]
<1>1. TypeOK /\ Waiting(p)
  BY DEF IInv, Settle, GrantClaim, RefuseClaim, GrantResolve, RefuseResolve,
         WaitingToResolve
<1>2. /\ t.listing \in Listings /\ t.recipient \in Recipients
      /\ t.quantity \in Nat /\ t.now \in Nat
  BY <1>1 DEF IInv, WellFormed, Waiting, TypeOK, Txn, Underway
<1>3. row \in Row /\ c.quantity \in Nat
  BY <1>1, <1>2, CellTypes
<1>4. CASE GrantClaim(p)
  <2>1. /\ t.target = "pending" /\ LockFree(t.listing)
        /\ Claimable(row, t.quantity, t.now) /\ c.status = Absent
        /\ Lock(p, Reserve(row, t.quantity))
    BY <1>4 DEF GrantClaim, MayClaim
  <2>2. Reserve(row, t.quantity) \in Row
    BY <1>2, <1>3, <2>1, ReserveType DEF Claimable, Row
  <2>3. Planned(txn'[p], row, c, clock)
    BY <1>1, <2>1 DEF Lock, TypeOK, Txn, Planned
  <2> QED BY <1>1, <2>1, <2>2, <2>3, LockStep
<1>5. CASE GrantResolve(p)
  <2>1. /\ t.target \in ClaimStatus \ {"pending"} /\ LockFree(t.listing)
        /\ c.status = "pending" /\ Lock(p, Resolved(p))
    BY <1>5 DEF GrantResolve, WaitingToResolve, MayResolve, StatusUnderLock
  <2>2. ResolveNow(p) \in 0 .. clock
    BY <1>1, <1>2 DEF ResolveNow, IInv, TypeOK
  <2>3. Resolved(p) \in Row
    BY <1>3, ReleaseType DEF Resolved
  <2>4. /\ t.target = "picked_up" => Resolved(p) = row
        /\ t.target \in RELEASING =>
             Resolved(p) = Release(row, c.quantity, ResolveNow(p))
    BY DEF Resolved, RELEASING
  <2>5. Planned(txn'[p], row, c, clock)
    BY <1>1, <2>1, <2>2, <2>4 DEF Lock, TypeOK, Txn, Planned
  <2> QED BY <1>1, <2>1, <2>3, <2>5, LockStep
<1>6. CASE RefuseClaim(p)
  BY <1>1, <1>6, EndKeeps DEF RefuseClaim
<1>7. CASE RefuseResolve(p)
  <2>1. due[p] \in SUBSET ClaimId
    BY <1>1 DEF TypeOK
  <2> QED BY <1>1, <1>7, <2>1, EndKeeps DEF RefuseResolve
<1> QED BY <1>4, <1>5, <1>6, <1>7 DEF Settle

-----------------------------------------------------------------------------
(***************************************************************************)
(* The steps that end a transaction that holds its lock.                   *)
(***************************************************************************)

\* What a lock holder is about to do: its row is the stored one, its target a
\* claim status, and no other lock holder works on the same listing.
LEMMA Holder ==
  ASSUME IInv, NEW p \in Proc, txn[p].pc = "locked"
  PROVE  LET t == txn[p]
             row == listings[t.listing]
             c == claims[t.listing][t.recipient] IN
         /\ t \in Txn /\ t.listing \in Listings /\ t.recipient \in Recipients
         /\ Underway(t) /\ t.target # Absent
         /\ lock[t.listing] = p /\ row \in Row /\ c \in Claim
         /\ Planned(t, row, c, clock)
         /\ \A x \in Proc \ {p} :
              txn[x].pc = "locked" => txn[x].listing # t.listing
         /\ \A k \in Listings \ {t.listing} : lock[k] # p
<1>1. TypeOK /\ WellFormed /\ LockOwned /\ Fresh
  BY DEF IInv
<1>2. Underway(txn[p]) /\ txn[p].target # Absent
  BY <1>1 DEF WellFormed, Underway, ClaimStatus, Absent
<1>3. p # None
  BY KeysAssumption DEF Proc
<1>4. listings[txn[p].listing] \in Row
      /\ claims[txn[p].listing][txn[p].recipient] \in Claim
  BY <1>1, <1>2, CellTypes DEF Underway
<1> QED BY <1>1, <1>2, <1>3, <1>4 DEF TypeOK, Fresh, LockOwned, Underway

\* A lock holder leaves its lock and its slot; every other session goes on as it
\* was, if nothing but the holder's own listing and claim was written.
LEMMA LeaveStep ==
  ASSUME IInv, NEW p \in Proc, txn[p].pc = "locked",
         txn' = [txn EXCEPT ![p] = NoTxn],
         lock' = [lock EXCEPT ![txn[p].listing] = None],
         UNCHANGED <<clock, sweepNow>>,
         TypeOK',
         \A l \in Listings \ {txn[p].listing} :
           listings'[l] = listings[l] /\ claims'[l] = claims[l]
  PROVE  Session'
<1> DEFINE l == txn[p].listing
<1>1. TypeOK /\ WellFormed /\ LockOwned /\ Fresh
  BY DEF IInv
<1>2. /\ txn'[p] = NoTxn
      /\ \A x \in Proc \ {p} : txn'[x] = txn[x]
  BY <1>1 DEF TypeOK
<1>3. /\ lock'[l] = None
      /\ \A k \in Listings \ {l} : lock'[k] = lock[k]
  BY <1>1, Holder DEF TypeOK
<1>4. WellFormed'
  BY <1>1, <1>2, NoTxnType DEF WellFormed
<1>5. LockOwned'
  <2> SUFFICES ASSUME NEW k \in Listings, lock'[k] # None
               PROVE  txn'[lock'[k]].pc = "locked" /\ txn'[lock'[k]].listing = k
    BY DEF LockOwned
  <2>1. k # l /\ lock'[k] = lock[k]
    BY <1>3
  <2>2. lock[k] \in Proc \ {p}
    BY <1>1, <2>1, Holder DEF TypeOK
  <2> QED BY <1>1, <1>2, <2>1, <2>2 DEF LockOwned
<1>6. Fresh'
  <2> DEFINE F(x) == LET u == txn'[x] IN
               /\ lock'[u.listing] = x
               /\ Planned(u, listings'[u.listing],
                          claims'[u.listing][u.recipient], clock)
  <2> SUFFICES ASSUME NEW x \in Proc, txn'[x].pc = "locked" PROVE F(x)
    BY DEF Fresh
  <2>1. x # p /\ txn'[x] = txn[x]
    BY <1>2, NoTxnType
  <2>2. txn[x].listing \in Listings \ {l}
    BY <1>1, <2>1, Holder DEF WellFormed, Underway
  <2> QED BY <1>1, <1>3, <2>1, <2>2 DEF Fresh
<1>7. /\ \A x \in Proc : txn'[x].now <= clock'
      /\ \A s \in Sweepers : sweepNow'[s] <= clock'
  <2>1. 0 <= clock
    BY <1>1 DEF TypeOK
  <2> QED BY <1>2, <2>1, NoTxnType DEF IInv
<1> QED BY <1>4, <1>5, <1>6, <1>7 DEF Session

\* PostgreSQL forgets the transaction.
LEMMA RollbackKeeps == ASSUME IInv, NEW p \in Proc, Rollback(p) PROVE IInv'
<1>1. /\ txn[p].pc = "locked"
      /\ lock' = [lock EXCEPT ![txn[p].listing] = None]
      /\ txn' = [txn EXCEPT ![p] = NoTxn]
      /\ due' = [due EXCEPT ![p] = {}]
      /\ clock' = clock /\ listings' = listings /\ claims' = claims
      /\ sweepNow' = sweepNow
  BY DEF Rollback, End, db
<1>2. TypeOK'
  BY <1>1, NoTxnType DEF IInv, TypeOK
<1>3. Session'
  BY <1>1, <1>2, LeaveStep
<1>4. Books'
  BY <1>1, BooksKept DEF IInv, Books, db
<1> QED BY <1>2, <1>3, <1>4 DEF IInv, Session, Books

\* The row and the claim that a commit leaves, by the three things a transaction
\* can be about.
LEMMA CommitWrites ==
  ASSUME IInv, NEW p \in Proc, Commit(p)
  PROVE  LET t == txn[p]
             l == t.listing
             r == t.recipient IN
         /\ listings'[l] = t.new
         /\ listings'[l] \in Row
         /\ claims'[l][r] = ClaimWritten(t, claims[l][r])
         /\ claims'[l][r] \in Claim
         /\ \A x \in Recipients \ {r} : claims'[l][x] = claims[l][x]
         /\ \A k \in Listings \ {l} : /\ listings'[k] = listings[k]
                                      /\ claims'[k] = claims[k]
         /\ TypeOK'
<1> DEFINE t == txn[p]
           l == t.listing
           r == t.recipient
<1>1. /\ t.pc = "locked"
      /\ listings' = [listings EXCEPT
           ![l] = Updated(listings[l], t.seen, t.new)]
      /\ t.target # Absent => claims' = [claims EXCEPT
           ![l][r] = ClaimWritten(t, claims[l][r])]
      /\ lock' = [lock EXCEPT ![l] = None]
      /\ txn' = [txn EXCEPT ![p] = NoTxn]
      /\ due' = [due EXCEPT ![p] = @ \ {<<l, r>>}]
      /\ clock' = clock /\ sweepNow' = sweepNow
  BY DEF Commit
<1>2. /\ t \in Txn /\ l \in Listings /\ r \in Recipients /\ t.target # Absent
      /\ listings[l] \in Row /\ claims[l][r] \in Claim
      /\ Planned(t, listings[l], claims[l][r], clock)
      /\ t.target \in ClaimStatus /\ TypeOK
  BY <1>1, Holder DEF Underway, IInv
<1>3. t.new \in Row /\ t.now \in Nat /\ t.quantity \in Nat
  BY <1>2 DEF Txn
<1>4. t.seen = listings[l] /\ t.new.window = listings[l].window
  BY <1>2 DEF Planned, ClaimStatus, RELEASING, Reserve, Release, Row
<1>5. Updated(listings[l], t.seen, t.new) = t.new
  BY <1>2, <1>3, <1>4, UpdatedFresh
<1>6. ClaimWritten(t, claims[l][r]) \in Claim
  <2>1. t.now + Hold \in Nat
    BY <1>3, NumbersAssumption
  <2>2. CASE t.target = "pending"
    BY <1>3, <2>1, <2>2 DEF ClaimWritten, Claim, ClaimStatus
  <2>3. CASE t.target # "pending"
    <3>1. t.target \in ClaimStatus /\ claims[l][r] \in Claim
      BY <1>2
    <3> HIDE DEF t, l, r
    <3> QED BY <2>3, <3>1 DEF ClaimWritten, Claim
  <2> QED BY <2>2, <2>3
<1>7. /\ listings' \in [Listings -> Row]
      /\ listings'[l] = t.new
      /\ \A k \in Listings \ {l} : listings'[k] = listings[k]
  BY <1>1, <1>2, <1>3, <1>5 DEF TypeOK
<1>8. /\ claims' \in [Listings -> [Recipients -> Claim]]
      /\ claims'[l][r] = ClaimWritten(t, claims[l][r])
      /\ \A x \in Recipients \ {r} : claims'[l][x] = claims[l][x]
      /\ \A k \in Listings \ {l} : claims'[k] = claims[k]
  <2> DEFINE w == ClaimWritten(t, claims[l][r])
             row == [claims[l] EXCEPT ![r] = w]
  <2>1. claims \in [Listings -> [Recipients -> Claim]]
    BY <1>2 DEF TypeOK
  <2>2. claims' = [claims EXCEPT ![l] = row]
    BY <1>1, <1>2
  <2> HIDE DEF t, l, r
  <2>3. /\ row \in [Recipients -> Claim] /\ row[r] = w
        /\ \A x \in Recipients \ {r} : row[x] = claims[l][x]
    <3> HIDE DEF w
    <3> QED BY <1>2, <1>6, <2>1 DEF w
  <2> HIDE DEF w, row
  <2>4. /\ claims' \in [Listings -> [Recipients -> Claim]]
        /\ claims'[l] = row
        /\ \A k \in Listings \ {l} : claims'[k] = claims[k]
    BY <1>2, <2>1, <2>2, <2>3
  <2> QED BY <2>3, <2>4 DEF w
<1>9. TypeOK'
  BY <1>1, <1>2, <1>7, <1>8, NoTxnType DEF TypeOK
<1> HIDE DEF t, l, r
<1> QED BY <1>3, <1>6, <1>7, <1>8, <1>9 DEF t, l, r

\* A commit moves portions between the shelf and one claim, and no other place.
LEMMA CommitConserves ==
  ASSUME IInv, NEW p \in Proc, Commit(p)
  PROVE  PortionsConserved'
<1> DEFINE t == txn[p]
           l == t.listing
           r == t.recipient
           c == claims[l][r]
           Held == {"pending", "picked_up"}
<1>1. /\ t \in Txn /\ l \in Listings /\ r \in Recipients /\ Underway(t)
      /\ listings[l] \in Row /\ c \in Claim
      /\ Planned(t, listings[l], c, clock)
      /\ TypeOK /\ PortionsConserved
  BY Holder DEF Commit, IInv
<1>2. /\ listings'[l] = t.new /\ claims'[l][r] = ClaimWritten(t, c)
      /\ claims'[l][r] \in Claim
      /\ \A x \in Recipients \ {r} : claims'[l][x] = claims[l][x]
      /\ \A k \in Listings \ {l} : /\ listings'[k] = listings[k]
                                   /\ claims'[k] = claims[k]
  BY CommitWrites
<1>3. /\ claims[l] \in [Recipients -> Claim]
      /\ claims'[l] \in [Recipients -> Claim]
  BY <1>1, CommitWrites DEF TypeOK
<1>4. /\ Cardinality(PortionsOf(claims[l], Held)) \in Nat
      /\ Cardinality(PortionsOf(claims'[l], Held)) \in Nat
  BY <1>3, PortionsFinite, FS_CardinalityType
<1>5. listings[l].remaining + Cardinality(PortionsOf(claims[l], Held))
        = listings[l].total
  BY <1>1 DEF PortionsConserved, SpokenFor
<1>6. /\ listings[l].remaining \in Nat /\ listings[l].total \in Nat
      /\ c.quantity \in Nat /\ t.quantity \in Nat
  BY <1>1 DEF Row, Claim, Txn
<1>7. t.new.remaining + Cardinality(PortionsOf(claims'[l], Held)) = t.new.total
  <2>1. CASE t.target = "pending"
    <3>1. /\ c.status \notin Held /\ claims'[l][r].status \in Held
          /\ claims'[l][r].quantity = t.quantity
      BY <1>1, <1>2, <2>1 DEF Planned, ClaimWritten, Absent
    <3>2. Cardinality(PortionsOf(claims'[l], Held))
            = Cardinality(PortionsOf(claims[l], Held)) + t.quantity
      <4> HIDE DEF l, r, c, Held
      <4> QED BY <1>1, <1>2, <1>3, <3>1, PortionsAdded DEF c
    <3>3. /\ t.new.remaining = listings[l].remaining - t.quantity
          /\ t.new.total = listings[l].total
      BY <1>1, <2>1 DEF Planned, Reserve, Row
    <3> HIDE DEF t, l, c, Held
    <3> QED BY <1>4, <1>5, <1>6, <3>2, <3>3
  <2>2. CASE t.target = "picked_up"
    <3>1. /\ c.status \in Held /\ claims'[l][r].status \in Held
          /\ claims'[l][r].quantity = c.quantity
      BY <1>1, <1>2, <2>2 DEF Planned, ClaimWritten, Claim
    <3>2. PortionsOf(claims'[l], Held) = PortionsOf(claims[l], Held)
      <4> HIDE DEF l, r, c, Held
      <4> QED BY <1>1, <1>2, <1>3, <3>1, PortionsKept DEF c
    <3>3. t.new = listings[l]
      BY <1>1, <2>2 DEF Planned
    <3> QED BY <1>5, <3>2, <3>3
  <2>3. CASE t.target \in RELEASING
    <3>1. /\ c.status \in Held /\ claims'[l][r].status \notin Held
          /\ claims'[l][r].quantity = c.quantity
      BY <1>1, <1>2, <2>3 DEF Planned, ClaimWritten, Claim, RELEASING
    <3>2. Cardinality(PortionsOf(claims[l], Held))
            = Cardinality(PortionsOf(claims'[l], Held)) + c.quantity
      <4> HIDE DEF l, r, c, Held
      <4> QED BY <1>1, <1>2, <1>3, <3>1, PortionsAdded DEF c
    <3>3. /\ t.new.remaining = listings[l].remaining + c.quantity
          /\ t.new.total = listings[l].total
      BY <1>1, <2>3 DEF Planned, Release, Row, RELEASING
    <3> HIDE DEF t, l, c, Held
    <3> QED BY <1>4, <1>5, <1>6, <3>2, <3>3
  <2> QED BY <1>1, <2>1, <2>2, <2>3 DEF Underway, ClaimStatus, RELEASING
<1>8. ASSUME NEW k \in Listings
      PROVE  listings'[k].remaining + Cardinality(PortionsOf(claims'[k], Held))
               = listings'[k].total
  <2> HIDE DEF t, Held
  <2>1. CASE k = l
    BY <1>2, <1>7, <2>1
  <2>2. CASE k # l
    BY <1>1, <1>2, <2>2 DEF PortionsConserved, SpokenFor, Held
  <2> QED BY <2>1, <2>2
<1> QED BY <1>8 DEF PortionsConserved, SpokenFor

\* A commit keeps what is stored consistent.
LEMMA CommitKeeps == ASSUME IInv, NEW p \in Proc, Commit(p) PROVE IInv'
<1> DEFINE t == txn[p]
           l == t.listing
           r == t.recipient
           c == claims[l][r]
           old == listings[l]
           new == t.new
<1>1. /\ t \in Txn /\ l \in Listings /\ r \in Recipients /\ Underway(t)
      /\ old \in Row /\ c \in Claim /\ new \in Row
      /\ Planned(t, old, c, clock) /\ t.now \in Nat /\ t.quantity \in Nat
  BY Holder, CommitWrites DEF Commit, Txn
<1>2. /\ listings'[l] = new /\ claims'[l][r] = ClaimWritten(t, c)
      /\ \A x \in Recipients \ {r} : claims'[l][x] = claims[l][x]
      /\ \A k \in Listings \ {l} : /\ listings'[k] = listings[k]
                                   /\ claims'[k] = claims[k]
      /\ TypeOK' /\ clock' = clock
  BY CommitWrites DEF Commit
<1>3. /\ clock \in Nat /\ StatusMatchesShelf /\ BookedInDate /\ ClaimsPositive
      /\ TypeOK
  BY DEF IInv, TypeOK
<1>4. new.expires = old.expires
  BY <1>1 DEF Planned, Underway, ClaimStatus, RELEASING, Reserve, Release, Row
<1>5. Session'
  BY <1>2, LeaveStep DEF Commit
<1>6. PortionsConserved'
  BY CommitConserves
<1>7. StatusMatchesShelf'
  <2>1. /\ new.status = "active" => new.remaining > 0
        /\ new.status = "claimed" /\ ~HasExpired(new, clock)
             => new.remaining = 0
    <3>1. /\ old.status = "active" => old.remaining > 0
          /\ old.status = "claimed" /\ ~HasExpired(old, clock)
               => old.remaining = 0
          /\ c.status # Absent => c.quantity > 0
      BY <1>1, <1>3 DEF StatusMatchesShelf, ClaimsPositive
    <3>2. CASE t.target = "pending"
      <4>1. /\ old.remaining \in Nat /\ t.quantity <= old.remaining
            /\ old.status = "active"
            /\ new.remaining = old.remaining - t.quantity
            /\ new.status = IF old.remaining = t.quantity THEN "claimed"
                            ELSE old.status
        BY <1>1, <3>2 DEF Planned, Reserve, Claimable, Row
      <4> HIDE DEF t, old, new
      <4> QED BY <1>1, <4>1
    <3>3. CASE t.target = "picked_up"
      BY <1>1, <3>1, <3>3 DEF Planned
    <3>4. CASE t.target \in RELEASING
      <4>1. PICK now \in 0 .. clock : new = Release(old, c.quantity, now)
        BY <1>1, <3>4 DEF Planned, RELEASING
      <4>2. c.quantity > 0 /\ c.quantity \in Nat /\ old.remaining \in Nat
            /\ old.expires \in Nat
        BY <1>1, <3>1, <3>4 DEF Planned, RELEASING, Absent, Claim, Row
      <4>3. /\ new.remaining = old.remaining + c.quantity
            /\ new.remaining > 0
            /\ new.status = IF old.status = "claimed" /\ ~HasExpired(old, now)
                            THEN "active" ELSE old.status
        <5>1. old \in Row
          BY <1>1
        <5> HIDE DEF t, old, new, c
        <5> QED BY <4>1, <4>2, <5>1 DEF Release, Row
      <4>4. HasExpired(old, now) => HasExpired(new, clock)
        BY <1>3, <1>4, <4>2 DEF HasExpired
      <4> QED BY <4>3, <4>4
    <3> QED BY <1>1, <3>2, <3>3, <3>4 DEF Underway, ClaimStatus, RELEASING
  <2> HIDE DEF t
  <2> QED BY <1>1, <1>2, <1>3, <2>1 DEF StatusMatchesShelf, HasExpired
<1>8. /\ claims'[l][r].quantity > 0
      /\ claims'[l][r].deadline < new.expires + Hold
  <2>1. CASE t.target = "pending"
    BY <1>1, <1>2, <1>4, <2>1, NumbersAssumption
       DEF ClaimWritten, Underway, Planned, Claimable, HasExpired, Row
  <2>2. CASE t.target # "pending"
    <3>1. /\ claims'[l][r].quantity = c.quantity
          /\ claims'[l][r].deadline = c.deadline
          /\ c.status # Absent
      BY <1>1, <1>2, <2>2 DEF ClaimWritten, Planned, Claim, Absent
    <3> QED BY <1>1, <1>3, <1>4, <3>1 DEF BookedInDate, ClaimsPositive
  <2> QED BY <2>1, <2>2
<1>9. BookedInDate' /\ ClaimsPositive'
  <2> SUFFICES ASSUME NEW k \in Listings, NEW x \in Recipients,
                      claims'[k][x].status # Absent
               PROVE  /\ claims'[k][x].deadline < listings'[k].expires + Hold
                      /\ claims'[k][x].quantity > 0
    BY DEF BookedInDate, ClaimsPositive
  <2> HIDE DEF t
  <2>1. CASE k = l /\ x = r
    BY <1>2, <1>8, <2>1
  <2>2. CASE k = l /\ x # r
    BY <1>1, <1>2, <1>3, <1>4, <2>2 DEF BookedInDate, ClaimsPositive
  <2>3. CASE k # l
    BY <1>2, <1>3, <2>3 DEF BookedInDate, ClaimsPositive
  <2> QED BY <2>1, <2>2, <2>3
<1> QED BY <1>2, <1>5, <1>6, <1>7, <1>9 DEF IInv, Session, Books

-----------------------------------------------------------------------------
(***************************************************************************)
(* The theorems.                                                           *)
(***************************************************************************)

\* Every step preserves the invariant.
LEMMA NextKeeps == IInv /\ [Next]_vars => IInv'
<1> SUFFICES ASSUME IInv, [Next]_vars PROVE IInv'
  OBVIOUS
<1>1. CASE Tick
  BY <1>1, TickKeeps
<1>2. CASE \E p \in Requests : Request(p)
  BY <1>2, RequestKeeps
<1>3. CASE \E s \in Sweepers : Sweep(s)
  BY <1>3, SweepKeeps
<1>4. CASE \E p \in Proc : Settle(p) \/ Commit(p) \/ Rollback(p)
  BY <1>4, SettleKeeps, CommitKeeps, RollbackKeeps
<1>5. CASE UNCHANGED vars
  BY <1>5 DEF vars, db, IInv, TypeOK, WellFormed, LockOwned, Fresh,
              PortionsConserved, SpokenFor, PortionsOf, StatusMatchesShelf,
              BookedInDate, ClaimsPositive, HasExpired
<1> QED BY <1>1, <1>2, <1>3, <1>4, <1>5 DEF Next

\* The inductive invariant holds in every reachable state: transactions know what
\* they lock, and what they read under a lock stays true until they commit.
THEOREM Invariant == Spec => []IInv
<1>1. Init => IInv
  BY InitIInv
<1>2. IInv /\ [Next]_vars => IInv'
  BY NextKeeps
<1> QED BY <1>1, <1>2, PTL DEF Spec

\* Every variable has its type in every reachable state: in particular no stock
\* and no deadline is ever negative.
THEOREM TypeCorrect == Spec => []TypeOK
<1>1. IInv => TypeOK
  BY DEF IInv
<1> QED BY <1>1, Invariant, PTL

\* No portion is lost or made up (create_claim and resolve_claim).
THEOREM Conservation == Spec => []PortionsConserved
<1>1. IInv => PortionsConserved
  BY DEF IInv
<1> QED BY <1>1, Invariant, PTL

\* The status of a post in date tells whether it has portions left.
THEOREM HonestStatus == Spec => []StatusMatchesShelf
<1>1. IInv => StatusMatchesShelf
  BY DEF IInv
<1> QED BY <1>1, Invariant, PTL

\* Reservations end within Hold of the post they are on.
THEOREM DatedReservations == Spec => []BookedInDate
<1>1. IInv => BookedInDate
  BY DEF IInv
<1> QED BY <1>1, Invariant, PTL

\* Only a commit changes what is stored.
LEMMA OnlyCommitsStore ==
  [Next]_vars => UNCHANGED db \/ \E p \in Proc : Commit(p)
BY DEF Next, vars, db, Tick, Request, RequestClaim, RequestResolve, Load, Sweep,
       ScanReservations, SweepNext, Settle, GrantClaim, RefuseClaim,
       GrantResolve, RefuseResolve, Lock, End, Rollback

\* A claim that has left `pending' never changes again, whoever races whom.
THEOREM ResolvedOnce == Spec => ResolvedIsFinal
<1> DEFINE A == \A l \in Listings, r \in Recipients :
                  claims[l][r].status \notin {Absent, "pending"}
                    => claims'[l][r] = claims[l][r]
<1>1. IInv /\ [Next]_vars => A
  <2> SUFFICES ASSUME IInv, [Next]_vars PROVE A
    OBVIOUS
  <2>1. CASE UNCHANGED db
    BY <2>1 DEF db
  <2>2. CASE \E p \in Proc : Commit(p)
    <3>1. PICK p \in Proc : Commit(p)
      BY <2>2
    <3> DEFINE l == txn[p].listing
               r == txn[p].recipient
    <3>2. /\ l \in Listings /\ r \in Recipients
          /\ claims[l][r].status \in {Absent, "pending"}
      BY <3>1, Holder DEF Commit, Planned
    <3>3. /\ \A x \in Recipients \ {r} : claims'[l][x] = claims[l][x]
          /\ \A k \in Listings \ {l} : claims'[k] = claims[k]
      BY <3>1, CommitWrites
    <3> HIDE DEF l, r
    <3> QED BY <3>2, <3>3
  <2> QED BY <2>1, <2>2, OnlyCommitsStore
<1>2. IInv /\ [Next]_vars => [A]_vars
  BY <1>1
<1> QED BY <1>2, Invariant, PTL DEF Spec, ResolvedIsFinal

-----------------------------------------------------------------------------
(***************************************************************************)
(* ClaimFlow implements Pantry: a commit is one step of the pantry, every  *)
(* other step a stutter.                                                   *)
(***************************************************************************)

Shelf == [l \in Listings |-> listings[l].remaining]
Hand  == [l \in Listings |-> [r \in Recipients |->
            [status   |-> claims[l][r].status,
             quantity |-> claims[l][r].quantity]]]

\* The shelf and the hands after a commit.
LEMMA CommitAbstracted ==
  ASSUME IInv, NEW p \in Proc, Commit(p)
  PROVE  LET t == txn[p]
             w == ClaimWritten(t, claims[t.listing][t.recipient]) IN
         /\ Shelf' = [Shelf EXCEPT ![t.listing] = t.new.remaining]
         /\ Hand' = [Hand EXCEPT ![t.listing][t.recipient] =
                       [status |-> w.status, quantity |-> w.quantity]]
<1> DEFINE t == txn[p]
           l == t.listing
           r == t.recipient
           w == ClaimWritten(t, claims[l][r])
<1>1. l \in Listings /\ r \in Recipients
  BY Holder DEF Commit
<1>2. /\ listings'[l] = t.new /\ claims'[l][r] = w
      /\ \A x \in Recipients \ {r} : claims'[l][x] = claims[l][x]
      /\ \A k \in Listings \ {l} : /\ listings'[k] = listings[k]
                                   /\ claims'[k] = claims[k]
  BY CommitWrites
<1> HIDE DEF t, l, r, w
<1>3. Shelf' = [Shelf EXCEPT ![l] = t.new.remaining]
  BY <1>1, <1>2 DEF Shelf
<1>4. Hand' = [Hand EXCEPT ![l][r] =
                 [status |-> w.status, quantity |-> w.quantity]]
  <2>1. Hand[l] = [x \in Recipients |-> [status |-> claims[l][x].status,
                                        quantity |-> claims[l][x].quantity]]
    BY <1>1 DEF Hand
  <2>2. [x \in Recipients |-> [status |-> claims'[l][x].status,
                               quantity |-> claims'[l][x].quantity]]
          = [Hand[l] EXCEPT ![r] = [status |-> w.status, quantity |-> w.quantity]]
    BY <1>1, <1>2, <2>1
  <2> DEFINE H(k, cl) == [x \in Recipients |-> [status |-> cl[k][x].status,
                                               quantity |-> cl[k][x].quantity]]
  <2>3. /\ Hand = [k \in Listings |-> H(k, claims)]
        /\ Hand' = [k \in Listings |-> H(k, claims')]
    BY DEF Hand
  <2>4. \A k \in Listings \ {l} : H(k, claims') = H(k, claims)
    BY <1>2
  <2>5. H(l, claims') =
          [Hand[l] EXCEPT ![r] = [status |-> w.status, quantity |-> w.quantity]]
    BY <2>2
  <2> HIDE DEF H
  <2> QED BY <1>1, <2>3, <2>4, <2>5
<1> QED BY <1>3, <1>4 DEF t, l, r, w

\* The concurrent service keeps the promise of the sequential one: reservations,
\* pick-ups and releases appear to happen one at a time, each in one step.
THEOREM ImplementsPantry == Spec => PantrySpec
<1>1. Init => Pantry!Init
  <2> SUFFICES ASSUME Init PROVE Pantry!Init
    OBVIOUS
  <2>1. Shelf \in [Listings -> Totals]
    <3>1. \A l \in Listings : listings[l].remaining \in Totals
      <4> TAKE l \in Listings
      <4>1. PICK n \in Totals, w \in Windows : listings[l] = Posted(n, w)
        BY DEF Init
      <4> QED BY <4>1 DEF Posted
    <3> QED BY <3>1 DEF Shelf
  <2>2. Hand = [l \in Listings |-> [r \in Recipients |-> Pantry!Empty]]
    BY DEF Hand, Init, AtRest, NoClaim, Pantry!Empty, Pantry!Absent, Absent
  <2> QED BY <2>1, <2>2 DEF Pantry!Init, Shelf, Hand
<1>2. IInv /\ [Next]_vars => [Pantry!Next]_<<Shelf, Hand>>
  <2> SUFFICES ASSUME IInv, [Next]_vars
               PROVE  Pantry!Next \/ UNCHANGED <<Shelf, Hand>>
    OBVIOUS
  <2>1. CASE UNCHANGED db
    BY <2>1 DEF db, Shelf, Hand
  <2>2. CASE \E p \in Proc : Commit(p)
    <3>1. PICK p \in Proc : Commit(p)
      BY <2>2
    <3>0. PICK l \in Listings, r \in Recipients :
            l = txn[p].listing /\ r = txn[p].recipient
      BY <3>1, Holder DEF Commit
    <3> DEFINE t == txn[p]
               c == claims[l][r]
               w == ClaimWritten(t, c)
    <3>2. /\ Underway(t) /\ c \in Claim
          /\ listings[l] \in Row /\ Planned(t, listings[l], c, clock)
      BY <3>0, <3>1, Holder DEF Commit
    <3>3. /\ Shelf' = [Shelf EXCEPT ![l] = t.new.remaining]
          /\ Hand' = [Hand EXCEPT ![l][r] =
                        [status |-> w.status, quantity |-> w.quantity]]
      BY <3>0, <3>1, CommitAbstracted
    <3>4. /\ Shelf[l] = listings[l].remaining
          /\ Hand[l][r] = [status |-> c.status, quantity |-> c.quantity]
      BY <3>2 DEF Shelf, Hand
    <3>5. CASE t.target = "pending"
      <4>1. /\ t.quantity \in Quantities /\ c.status = Absent
            /\ t.quantity <= listings[l].remaining
            /\ t.new.remaining = listings[l].remaining - t.quantity
            /\ w.status = "pending" /\ w.quantity = t.quantity
        BY <3>2, <3>5, NumbersAssumption
           DEF Underway, Planned, Claimable, Reserve, Row, ClaimWritten
      <4> PICK q \in Quantities : q = t.quantity
        BY <4>1
      <4>2. /\ Hand[l][r].status = Absent
            /\ q <= Shelf[l]
            /\ Shelf' = [Shelf EXCEPT ![l] = Shelf[l] - q]
            /\ Hand' = [Hand EXCEPT ![l][r] =
                          [status |-> "pending", quantity |-> q]]
        <5> HIDE DEF t, c, w
        <5> QED BY <3>3, <3>4, <4>1
      <4>3. Pantry!TakeInHand(l, r, q)
        <5> HIDE DEF t, c, w
        <5> QED BY <4>2 DEF Pantry!TakeInHand, Shelf, Hand, Pantry!Absent, Absent
      <4> QED BY <3>2, <4>1, <4>3 DEF Pantry!Next
    <3>6. CASE t.target = "picked_up"
      <4>1. /\ c.status = "pending" /\ t.new.remaining = listings[l].remaining
            /\ w.status = "picked_up" /\ w.quantity = c.quantity
        BY <3>2, <3>6 DEF Planned, ClaimWritten, Claim
      <4>2. /\ Hand[l][r].status = "pending"
            /\ Shelf' = Shelf
            /\ Hand' = [Hand EXCEPT ![l][r].status = "picked_up"]
        <5> HIDE DEF t, c, w
        <5>1. [Hand[l][r] EXCEPT !.status = "picked_up"]
                = [status |-> w.status, quantity |-> w.quantity]
          BY <3>4, <4>1
        <5>2. [Shelf EXCEPT ![l] = Shelf[l]] = Shelf
          BY DEF Shelf
        <5>3. Hand' = [Hand EXCEPT ![l][r] =
                        [Hand[l][r] EXCEPT !.status = "picked_up"]]
          BY <3>3, <5>1
        <5>4. Hand' = [Hand EXCEPT ![l][r].status = "picked_up"]
          BY <5>3
        <5>5. Hand[l][r].status = "pending"
          BY <3>4, <4>1
        <5> QED BY <3>3, <3>4, <4>1, <5>2, <5>4, <5>5
      <4>3. Pantry!Collect(l, r)
        <5> HIDE DEF t, c, w
        <5> QED BY <4>2 DEF Pantry!Collect, Shelf, Hand
      <4> QED BY <3>2, <4>3 DEF Pantry!Next
    <3>7. CASE t.target \in RELEASING
      <4>1. /\ c.status = "pending"
            /\ t.new.remaining = listings[l].remaining + c.quantity
            /\ w.status = t.target /\ w.quantity = c.quantity
        BY <3>2, <3>7 DEF Planned, ClaimWritten, Claim, RELEASING, Release, Row
      <4>2. /\ Hand[l][r].status = "pending"
            /\ Shelf' = [Shelf EXCEPT ![l] = Shelf[l] + Hand[l][r].quantity]
            /\ Hand' = [Hand EXCEPT ![l][r].status = t.target]
        <5> HIDE DEF t, c, w
        <5>1. [Hand[l][r] EXCEPT !.status = t.target]
                = [status |-> w.status, quantity |-> w.quantity]
          BY <3>4, <4>1
        <5>2. Hand' = [Hand EXCEPT ![l][r] =
                        [Hand[l][r] EXCEPT !.status = t.target]]
          BY <3>3, <5>1
        <5>3. Hand' = [Hand EXCEPT ![l][r].status = t.target]
          BY <5>2
        <5>4. /\ Hand[l][r].status = "pending"
              /\ Hand[l][r].quantity = c.quantity
          BY <3>4, <4>1
        <5>5. Shelf' = [Shelf EXCEPT ![l] = Shelf[l] + Hand[l][r].quantity]
          BY <3>3, <3>4, <4>1, <5>4
        <5> QED BY <5>3, <5>4, <5>5
      <4>3. Pantry!PutBack(l, r)
        <5> HIDE DEF t, c, w
        <5> QED BY <3>7, <4>2
            DEF Pantry!PutBack, Shelf, Hand, Pantry!RELEASING, RELEASING
      <4> QED BY <3>2, <4>3 DEF Pantry!Next
    <3> QED BY <3>2, <3>5, <3>6, <3>7 DEF Underway, ClaimStatus, RELEASING
  <2> QED BY <2>1, <2>2, OnlyCommitsStore
<1> QED BY <1>1, <1>2, Invariant, PTL DEF Spec, PantrySpec, Pantry!Spec, Shelf, Hand
=============================================================================
