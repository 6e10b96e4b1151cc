--------------------------- MODULE Pickup_proofs ----------------------------
(***************************************************************************)
(* Theorems about Pickup, for any posts, portions and bounds: types, that  *)
(* the claims screen is not left with old rows without a reason, and that  *)
(* a lapsed hold is asked about once.                                      *)
(***************************************************************************)
EXTENDS Pickup, SequenceTheorems, TLAPS

-----------------------------------------------------------------------------
(***************************************************************************)
(* Sequences.                                                              *)
(***************************************************************************)

\* RemoveAt keeps the other elements, in their order.
LEMMA RemovedAt ==
  ASSUME NEW S, NEW s \in Seq(S), NEW i \in 1 .. Len(s)
  PROVE  /\ RemoveAt(s, i) \in Seq(S)
         /\ DOMAIN RemoveAt(s, i) = 1 .. (Len(s) - 1)
         /\ \A j \in 1 .. (Len(s) - 1) :
              RemoveAt(s, i)[j] = IF j < i THEN s[j] ELSE s[j + 1]
<1> DEFINE a == SubSeq(s, 1, i - 1)
           b == SubSeq(s, i + 1, Len(s))
<1>1. Len(s) \in Nat /\ i \in Nat /\ i >= 1 /\ i <= Len(s)
  BY LenProperties
<1>2. /\ a \in Seq(S) /\ Len(a) = i - 1
      /\ \A j \in 1 .. i - 1 : a[j] = s[j]
  <2>1. \A j \in 1 .. (i - 1) : s[j] \in S
    BY <1>1, ElementOfSeq
  <2> QED BY <1>1, <2>1, SubSeqProperties
<1>3. /\ b \in Seq(S) /\ Len(b) = Len(s) - i
      /\ \A j \in 1 .. Len(s) - i : b[j] = s[i + j]
  <2>1. \A j \in (i + 1) .. Len(s) : s[j] \in S
    BY <1>1, ElementOfSeq
  <2>2. i + 1 \in Int /\ Len(s) \in Int
    BY <1>1
  <2>3. /\ b \in Seq(S)
        /\ Len(b) = IF i + 1 <= Len(s) THEN Len(s) - (i + 1) + 1 ELSE 0
        /\ \A j \in 1 .. Len(s) - (i + 1) + 1 : b[j] = s[(i + 1) + j - 1]
    BY <2>1, <2>2, SubSeqProperties
  <2>4. /\ Len(s) - (i + 1) + 1 = Len(s) - i
        /\ i + 1 <= Len(s) \/ Len(s) - i = 0
        /\ \A j \in 1 .. Len(s) - i : (i + 1) + j - 1 = i + j
    BY <1>1
  <2> HIDE DEF b
  <2> QED BY <2>3, <2>4
<1>4. RemoveAt(s, i) = a \o b
  BY DEF RemoveAt
<1> HIDE DEF a, b
<1>5. /\ a \o b \in Seq(S)
      /\ Len(a \o b) = Len(a) + Len(b)
      /\ \A j \in 1 .. Len(a) + Len(b) :
           (a \o b)[j] = IF j <= Len(a) THEN a[j] ELSE b[j - Len(a)]
  BY <1>2, <1>3, ConcatProperties
<1>6. Len(a \o b) = Len(s) - 1 /\ DOMAIN (a \o b) = 1 .. (Len(s) - 1)
  BY <1>1, <1>2, <1>3, <1>5, LenProperties
<1>7. ASSUME NEW j \in 1 .. (Len(s) - 1)
      PROVE  (a \o b)[j] = IF j < i THEN s[j] ELSE s[j + 1]
  <2>1. CASE j < i
    BY <1>1, <1>2, <1>3, <1>5, <2>1
  <2>2. CASE ~(j < i)
    <3>1. j - Len(a) \in 1 .. Len(s) - i /\ i + (j - Len(a)) = j + 1
      BY <1>1, <1>2, <2>2
    <3>2. (a \o b)[j] = b[j - Len(a)]
      BY <1>1, <1>2, <1>3, <1>5, <2>2
    <3> QED BY <1>3, <2>2, <3>1, <3>2
  <2> QED BY <2>1, <2>2
<1> QED BY <1>4, <1>5, <1>6, <1>7

\* The same, of what is in it.
LEMMA Remaining ==
  ASSUME NEW S, NEW s \in Seq(S), NEW i \in DOMAIN s
  PROVE  /\ RemoveAt(s, i) \in Seq(S)
         /\ \A j \in DOMAIN RemoveAt(s, i) :
              \E k \in DOMAIN s : k # i /\ RemoveAt(s, i)[j] = s[k]
         /\ \A k \in DOMAIN s \ {i} :
              \E j \in DOMAIN RemoveAt(s, i) : RemoveAt(s, i)[j] = s[k]
<1>1. Len(s) \in Nat /\ DOMAIN s = 1 .. Len(s)
  BY LenProperties
<1>2. /\ RemoveAt(s, i) \in Seq(S)
      /\ DOMAIN RemoveAt(s, i) = 1 .. (Len(s) - 1)
      /\ \A j \in 1 .. (Len(s) - 1) :
           RemoveAt(s, i)[j] = IF j < i THEN s[j] ELSE s[j + 1]
  BY <1>1, RemovedAt
<1>3. ASSUME NEW j \in DOMAIN RemoveAt(s, i)
      PROVE  \E k \in DOMAIN s : k # i /\ RemoveAt(s, i)[j] = s[k]
  <2>1. CASE j < i
    BY <1>1, <1>2, <2>1
  <2>2. CASE ~(j < i)
    <3>1. j + 1 \in DOMAIN s /\ j + 1 # i
      BY <1>1, <1>2, <2>2
    <3> QED BY <1>2, <2>2, <3>1
  <2> QED BY <2>1, <2>2
<1>4. ASSUME NEW k \in DOMAIN s \ {i}
      PROVE  \E j \in DOMAIN RemoveAt(s, i) : RemoveAt(s, i)[j] = s[k]
  <2>1. CASE k < i
    <3>1. k \in 1 .. (Len(s) - 1)
      BY <1>1, <2>1
    <3> QED BY <1>2, <2>1, <3>1
  <2>2. CASE ~(k < i)
    <3>1. k - 1 \in 1 .. (Len(s) - 1) /\ ~(k - 1 < i) /\ (k - 1) + 1 = k
      BY <1>1, <2>2
    <3> QED BY <1>2, <3>1
  <2> QED BY <2>1, <2>2
<1> QED BY <1>2, <1>3, <1>4

\* A function on the places of a sequence is a sequence as long.
LEMMA Mapped ==
  ASSUME NEW S, NEW T, NEW s \in Seq(S), NEW t \in [DOMAIN s -> T]
  PROVE  t \in Seq(T) /\ DOMAIN t = DOMAIN s
<1>1. Len(s) \in Nat /\ DOMAIN s = 1 .. Len(s)
  BY LenProperties
<1> QED BY <1>1, SeqDef

\* Append adds one element.
LEMMA Appended ==
  ASSUME NEW S, NEW s \in Seq(S), NEW e \in S
  PROVE  /\ Append(s, e) \in Seq(S)
         /\ \A j \in DOMAIN Append(s, e) :
              Append(s, e)[j] = e \/ \E k \in DOMAIN s : Append(s, e)[j] = s[k]
         /\ \A k \in DOMAIN s : k \in DOMAIN Append(s, e) /\ Append(s, e)[k] = s[k]
         /\ \E j \in DOMAIN Append(s, e) : Append(s, e)[j] = e
OBVIOUS

-----------------------------------------------------------------------------
(***************************************************************************)
(* The invariant.                                                          *)
(***************************************************************************)

Table == [Posts -> [status: ClaimStatus, rated: BOOLEAN]]

Answers == [code: {"pending", "200", "409", "lost"}, body: {None} \cup Shown \cup Table]

Requests == [kind: {"get", "create", "cancel", "rate", "mine"}, post: Posts \cup {None},
             qty: Nat, then: {"show", "gone", "none", "pull", "free", "reload"},
             ans: Answers, old: BOOLEAN, early: BOOLEAN]

\* A request, for an API whose claims are `table' and a person on `front':
\* rows that nothing has overtaken are the API's, and only a listing screen
\* in front waits for an answer.
Fits(c, table, front) ==
    /\ c.kind # "mine" => c.post \in Posts
    /\ c.kind = "create" => c.qty > 0
    /\ c.kind \in {"get", "create"} => c.then \in {"show", "gone"}
    /\ c.kind \in {"get", "create"} /\ c.then = "show" => front = "detail"
    /\ c.kind = "get" /\ c.ans.code = "200" => c.ans.body \in Shown
    /\ c.kind = "mine" /\ c.ans.code = "200" =>
         c.ans.body \in Table /\ (~c.old /\ ~c.early => c.ans.body = table)

Outstanding(cs, table, front) ==
    cs \in Seq(Requests) /\ \A i \in DOMAIN cs : Fits(cs[i], table, front)

\* An answer that will reload the rows, or is one.
News(c) == c.kind = "mine" \/ (c.kind \in {"create", "cancel", "rate"}
                               /\ c.ans.code \in {"200", "lost"})
Told(cs) == \E i \in DOMAIN cs : News(cs[i])

\* Rows that differ from the API's are about to be reloaded.
Informed == mounted /\ ~astray /\ ~early => rows = Claims \/ pushed \/ Told(calls)

\* What a pending claim holds is not counted as left.
InStock == \A p \in Posts : claim[p].status = "pending" => left[p] + claim[p].qty <= Portions

\* The same of what is committed, to which a rollback returns.
Backed == \A p \in Posts : stored[p].claim.status = "pending" =>
            stored[p].left + stored[p].claim.qty <= Portions

\* The set of the claims asked about is what has been asked.
Once == asked = [p \in Posts |-> IF p \in handled THEN 1 ELSE 0]

IInv == TypeOK /\ Outstanding(calls, Claims, screen) /\ Informed /\ InStock /\ Backed /\ Once

-----------------------------------------------------------------------------
(***************************************************************************)
(* What the handlers do to the requests outstanding.                       *)
(***************************************************************************)

\* Sending one.
LEMMA SendFits ==
  ASSUME NEW cs, NEW table, NEW front, Outstanding(cs, table, front),
         NEW c \in Requests, Fits(c, table, front)
  PROVE  /\ Outstanding(Append(cs, c), table, front)
         /\ Told(cs) \/ News(c) => Told(Append(cs, c))
<1>1. /\ Append(cs, c) \in Seq(Requests)
      /\ \A j \in DOMAIN Append(cs, c) :
           Append(cs, c)[j] = c \/ \E k \in DOMAIN cs : Append(cs, c)[j] = cs[k]
      /\ \A k \in DOMAIN cs : k \in DOMAIN Append(cs, c) /\ Append(cs, c)[k] = cs[k]
      /\ \E j \in DOMAIN Append(cs, c) : Append(cs, c)[j] = c
  BY Appended DEF Outstanding
<1>2. Outstanding(Append(cs, c), table, front)
  BY <1>1 DEF Outstanding
<1> QED BY <1>1, <1>2 DEF Told

\* Sending for the rows.
LEMMA LoadFits ==
  ASSUME NEW cs, NEW table, NEW front, Outstanding(cs, table, front),
         NEW then \in {"none", "pull", "free"}
  PROVE  Outstanding(Load(cs, then), table, front) /\ Told(Load(cs, then))
<1> DEFINE c == Call("mine", None, 0, then)
<1>1. c \in Requests
  BY DEF Call, Pending, Requests, Answers
<1>2. Fits(c, table, front) /\ News(c)
  BY DEF Call, Pending, Fits, News
<1> QED BY <1>1, <1>2, SendFits DEF Load

\* Taking an answer.
LEMMA RestFits ==
  ASSUME NEW cs, NEW table, NEW front, Outstanding(cs, table, front), NEW i \in DOMAIN cs
  PROVE  /\ Outstanding(RemoveAt(cs, i), table, front)
         /\ Told(cs) /\ ~News(cs[i]) => Told(RemoveAt(cs, i))
<1>1. /\ RemoveAt(cs, i) \in Seq(Requests)
      /\ \A j \in DOMAIN RemoveAt(cs, i) :
           \E k \in DOMAIN cs : k # i /\ RemoveAt(cs, i)[j] = cs[k]
      /\ \A k \in DOMAIN cs \ {i} :
           \E j \in DOMAIN RemoveAt(cs, i) : RemoveAt(cs, i)[j] = cs[k]
  BY Remaining DEF Outstanding
<1>2. Outstanding(RemoveAt(cs, i), table, front)
  BY <1>1 DEF Outstanding
<1>3. ASSUME Told(cs), ~News(cs[i])
      PROVE  Told(RemoveAt(cs, i))
  <2>1. PICK k \in DOMAIN cs : News(cs[k])
    BY <1>3 DEF Told
  <2>2. k \in DOMAIN cs \ {i}
    BY <1>3, <2>1
  <2> QED BY <1>1, <2>1, <2>2 DEF Told
<1> QED BY <1>2, <1>3

\* Any change of requests in their places that keeps them fitting.
LEMMA MapFits ==
  ASSUME NEW cs, NEW table, NEW front, NEW table2, NEW front2,
         Outstanding(cs, table, front), NEW ds \in [DOMAIN cs -> Requests],
         \A i \in DOMAIN cs : Fits(ds[i], table2, front2)
  PROVE  Outstanding(ds, table2, front2) /\ DOMAIN ds = DOMAIN cs
BY Mapped DEF Outstanding

\* Leaving the listing screen.
LEMMA OrphanFits ==
  ASSUME NEW cs, NEW table, NEW front, NEW front2, Outstanding(cs, table, front)
  PROVE  /\ Outstanding(Orphaned(cs), table, front2)
         /\ Told(cs) => Told(Orphaned(cs))
<1>1. ASSUME NEW i \in DOMAIN cs
      PROVE  /\ Orphaned(cs)[i] \in Requests
             /\ Fits(Orphaned(cs)[i], table, front2)
             /\ News(cs[i]) => News(Orphaned(cs)[i])
  <2>1. cs[i] \in Requests /\ Fits(cs[i], table, front)
    BY ElementOfSeq, LenProperties DEF Outstanding
  <2>2. CASE cs[i].kind \in {"get", "create"}
    <3>1. Orphaned(cs)[i] = [cs[i] EXCEPT !.then = "gone"]
      BY <2>2 DEF Orphaned
    <3> QED BY <2>1, <2>2, <3>1 DEF Requests, Fits, News
  <2>3. CASE cs[i].kind \notin {"get", "create"}
    <3>1. Orphaned(cs)[i] = cs[i]
      BY <2>3 DEF Orphaned
    <3> QED BY <2>1, <2>3, <3>1 DEF Requests, Fits
  <2> QED BY <2>2, <2>3
<1>2. Orphaned(cs) \in [DOMAIN cs -> Requests]
  BY <1>1 DEF Orphaned
<1>3. Outstanding(Orphaned(cs), table, front2) /\ DOMAIN Orphaned(cs) = DOMAIN cs
  BY <1>1, <1>2, MapFits
<1> QED BY <1>1, <1>3 DEF Told

\* The API's claims changing: rows on their way are out of date.
LEMMA AgedFits ==
  ASSUME NEW cs, NEW table, NEW table2, NEW front, Outstanding(cs, table, front)
  PROVE  /\ Outstanding(Aged(cs), table2, front)
         /\ DOMAIN Aged(cs) = DOMAIN cs
         /\ \A i \in DOMAIN cs : Aged(cs)[i].kind = cs[i].kind
                                 /\ Aged(cs)[i].ans = cs[i].ans
<1>1. ASSUME NEW i \in DOMAIN cs
      PROVE  /\ Aged(cs)[i] \in Requests
             /\ Fits(Aged(cs)[i], table2, front)
             /\ Aged(cs)[i].kind = cs[i].kind
             /\ Aged(cs)[i].ans = cs[i].ans
  <2>1. cs[i] \in Requests /\ Fits(cs[i], table, front)
    BY ElementOfSeq, LenProperties DEF Outstanding
  <2>2. Aged(cs)[i] = [cs[i] EXCEPT
            !.old = cs[i].old \/ (cs[i].kind = "mine" /\ cs[i].ans.code # "pending")]
    BY DEF Aged
  <2> QED BY <2>1, <2>2 DEF Requests, Fits
<1>2. Aged(cs) \in [DOMAIN cs -> Requests]
  BY <1>1 DEF Aged
<1>3. Outstanding(Aged(cs), table2, front) /\ DOMAIN Aged(cs) = DOMAIN cs
  BY <1>1, <1>2, MapFits
<1> QED BY <1>1, <1>3

\* Answering one.
LEMMA AnswerFits ==
  ASSUME NEW cs, NEW table, NEW front, Outstanding(cs, table, front),
         NEW i \in DOMAIN cs, NEW code, NEW body,
         [code |-> code, body |-> body] \in Answers,
         cs[i].kind = "get" /\ code = "200" => body \in Shown,
         cs[i].kind = "mine" /\ code = "200" => body \in Table /\ body = table
  PROVE  /\ Outstanding(Answer(cs, i, code, body), table, front)
         /\ DOMAIN Answer(cs, i, code, body) = DOMAIN cs
         /\ Answer(cs, i, code, body)[i].kind = cs[i].kind
         /\ Answer(cs, i, code, body)[i].ans.code = code
         /\ \A j \in DOMAIN cs \ {i} : Answer(cs, i, code, body)[j] = cs[j]
<1> DEFINE a == [code |-> code, body |-> body]
           ds == Answer(cs, i, code, body)
<1>1. \A j \in DOMAIN cs : cs[j] \in Requests /\ Fits(cs[j], table, front)
  BY ElementOfSeq, LenProperties DEF Outstanding
<1>2. /\ ds = [cs EXCEPT ![i] = [cs[i] EXCEPT !.ans = a]]
      /\ ds[i] = [cs[i] EXCEPT !.ans = a]
      /\ \A j \in DOMAIN cs \ {i} : ds[j] = cs[j]
  BY DEF Answer, Outstanding
<1>3. ds[i] \in Requests /\ Fits(ds[i], table, front)
  BY <1>1, <1>2 DEF Requests, Fits
<1>4. ds \in [DOMAIN cs -> Requests]
  BY <1>1, <1>2, <1>3 DEF Outstanding
<1>5. Outstanding(ds, table, front) /\ DOMAIN ds = DOMAIN cs
  <2>1. \A j \in DOMAIN cs : Fits(ds[j], table, front)
    BY <1>1, <1>2, <1>3
  <2> HIDE DEF ds
  <2> QED BY <1>4, <2>1, MapFits
<1>6. ds[i].kind = cs[i].kind /\ ds[i].ans.code = code
  BY <1>1, <1>2 DEF Requests
<1> HIDE DEF a
<1> QED BY <1>2, <1>5, <1>6

-----------------------------------------------------------------------------
(***************************************************************************)
(* Every action keeps the invariant.                                       *)
(***************************************************************************)

\* What the two GETs show.
LEMMA ShownTyped ==
  ASSUME TypeOK
  PROVE  Claims \in Table /\ Found \in Table /\ \A p \in Posts : Listing(p) \in Shown
<1>1. Claims \in Table
  BY DEF TypeOK, Claims, Table
<1>2. Found \in Table
  BY DEF TypeOK, Found, Table
<1>3. \A p \in Posts : Listing(p) \in Shown
  BY PickupAssumption DEF TypeOK, Listing, Shown
<1> QED BY <1>1, <1>2, <1>3

\* A listing screen that has just been opened.
LEMMA OpenedTyped == \A p \in Posts : Opened(p) \in Detail
BY PickupAssumption DEF Opened, Detail, Shown

\* The claims screen coming to the front sends for the rows.
LEMMA FocusFits ==
  ASSUME NEW cs, Outstanding(cs, Claims, screen), Focus(cs)
  PROVE  Outstanding(calls', Claims, screen') /\ Told(calls')
<1>1. Outstanding(Orphaned(cs), Claims, screen')
  BY OrphanFits
<1> QED BY <1>1, LoadFits DEF Focus

LEMMA GoBackStep == IInv /\ GoBack => IInv'
<1> SUFFICES ASSUME IInv, GoBack
             PROVE  IInv'
  OBVIOUS
<1> USE DEF GoBack, mine, server, written, history, bounds
<1>1. TypeOK'
  BY NullAssumption DEF IInv, TypeOK
<1>2. Claims' = Claims
  BY DEF Claims
<1>3. Outstanding(calls, Claims, screen)
  BY DEF IInv
<1>4. Outstanding(Orphaned(calls), Claims, "home") /\ (Told(calls) => Told(Orphaned(calls)))
  BY <1>3, OrphanFits
<1> QED BY <1>1, <1>2, <1>4 DEF IInv, Informed, InStock, Backed, Once

LEMMA OpenListingStep == \A p \in Posts : IInv /\ OpenListing(p) => IInv'
<1> SUFFICES ASSUME NEW p \in Posts, IInv, OpenListing(p)
             PROVE  IInv'
  OBVIOUS
<1> USE DEF OpenListing, mine, server, written, history, bounds
<1>1. TypeOK'
  BY NullAssumption, OpenedTyped DEF IInv, TypeOK
<1>2. Claims' = Claims
  BY DEF Claims
<1> DEFINE c == Call("get", p, 0, "show")
<1>3. Outstanding(calls, Claims, "detail")
  BY DEF IInv, Outstanding, Fits
<1>4. c \in Requests /\ Fits(c, Claims, "detail")
  BY DEF Call, Pending, Requests, Answers, Fits
<1>5. Outstanding(calls', Claims, screen') /\ (Told(calls) => Told(calls'))
  <2> HIDE DEF c
  <2>1. calls' = Append(calls, c) /\ screen' = "detail"
    BY DEF c
  <2> QED BY <1>3, <1>4, <2>1, SendFits
<1> QED BY <1>1, <1>2, <1>5 DEF IInv, Informed, InStock, Backed, Once

LEMMA OpenClaimsStep == IInv /\ OpenClaims => IInv'
<1> SUFFICES ASSUME IInv, OpenClaims
             PROVE  IInv'
  OBVIOUS
<1> USE DEF OpenClaims, server, written, history
<1>1. TypeOK'
  BY NullAssumption DEF IInv, TypeOK, Focus
<1>2. Claims' = Claims
  BY DEF Claims
<1>3. Outstanding(calls', Claims, screen') /\ Told(calls')
  BY FocusFits DEF IInv
<1> QED BY <1>1, <1>2, <1>3 DEF IInv, Informed, InStock, Backed, Once

LEMMA StepQtyStep == \A delta \in {-1, 1} : IInv /\ StepQty(delta) => IInv'
<1> SUFFICES ASSUME NEW delta \in {-1, 1}, IInv, StepQty(delta)
             PROVE  IInv'
  OBVIOUS
<1> USE DEF StepQty, mine, server, written, history, bounds
<1>1. detail \in Detail /\ detail.seen \in Shown /\ detail.seen.left > 1
  BY DEF IInv, TypeOK, CanClaim, Detail
<1>2. Clamp(detail.qty + delta) \in 1..MaxQty
  <2>1. detail.qty \in 1..MaxQty /\ detail.seen.left \in 0..Portions
    BY <1>1 DEF Detail, Shown
  <2> QED BY <1>1, <2>1, PickupAssumption DEF Clamp
<1>3. detail' \in Detail
  BY <1>1, <1>2 DEF Detail
<1>4. TypeOK'
  BY <1>1, <1>3, NullAssumption DEF IInv, TypeOK
<1>5. Claims' = Claims
  BY DEF Claims
<1> QED BY <1>4, <1>5 DEF IInv, Informed, InStock, Backed, Once

LEMMA OnClaimStep == IInv /\ OnClaim => IInv'
<1> SUFFICES ASSUME IInv, OnClaim
             PROVE  IInv'
  OBVIOUS
<1> USE DEF OnClaim, Press, mine, server, written, history
<1>1. detail \in Detail /\ screen = "detail"
  BY DEF IInv, TypeOK, CanClaim
<1>2. detail' \in Detail
  BY <1>1 DEF Detail
<1>3. TypeOK'
  BY <1>1, <1>2, NullAssumption DEF IInv, TypeOK
<1>4. Claims' = Claims
  BY DEF Claims
<1> DEFINE c == Call("create", detail.post, detail.qty, "show")
<1>5. c \in Requests /\ Fits(c, Claims, screen)
  <2>1. detail.post \in Posts /\ detail.qty \in Nat /\ detail.qty > 0
    BY <1>1, PickupAssumption DEF Detail
  <2> QED BY <1>1, <2>1 DEF Call, Pending, Requests, Answers, Fits
<1>6. Outstanding(calls', Claims, screen') /\ (Told(calls) => Told(calls'))
  <2> HIDE DEF c
  <2>1. calls' = Append(calls, c) /\ screen' = screen /\ Outstanding(calls, Claims, screen)
    BY DEF c, IInv
  <2> QED BY <1>5, <2>1, SendFits
<1> QED BY <1>3, <1>4, <1>6 DEF IInv, Informed, InStock, Backed, Once

LEMMA ActStep == \A kind \in {"cancel", "rate"}, p \in Posts : IInv /\ Act(kind, p) => IInv'
<1> SUFFICES ASSUME NEW kind \in {"cancel", "rate"}, NEW p \in Posts, IInv, Act(kind, p)
             PROVE  IInv'
  OBVIOUS
<1> USE DEF Act, Press, server, written, history
<1>1. TypeOK'
  BY DEF IInv, TypeOK
<1>2. Claims' = Claims
  BY DEF Claims
<1> DEFINE c == Call(kind, p, 0, "reload")
<1>3. c \in Requests /\ Fits(c, Claims, screen)
  BY DEF Call, Pending, Requests, Answers, Fits
<1>4. Outstanding(calls', Claims, screen') /\ (Told(calls) => Told(calls'))
  <2> HIDE DEF c
  <2>1. calls' = Append(calls, c) /\ screen' = screen /\ Outstanding(calls, Claims, screen)
    BY DEF c, IInv
  <2> QED BY <1>3, <2>1, SendFits
<1> QED BY <1>1, <1>2, <1>4 DEF IInv, Informed, InStock, Backed, Once

LEMMA PullStep == IInv /\ Pull => IInv'
<1> SUFFICES ASSUME IInv, Pull
             PROVE  IInv'
  OBVIOUS
<1> USE DEF Pull, Press, server, written, history
<1>1. TypeOK'
  BY DEF IInv, TypeOK
<1>2. Claims' = Claims
  BY DEF Claims
<1>3. Outstanding(calls', Claims, screen') /\ Told(calls')
  BY LoadFits DEF IInv
<1> QED BY <1>1, <1>2, <1>3 DEF IInv, Informed, InStock, Backed, Once

LEMMA OnExpiryStep == IInv /\ OnExpiry => IInv'
<1> SUFFICES ASSUME IInv, OnExpiry
             PROVE  IInv'
  OBVIOUS
<1> USE DEF OnExpiry, server, written, history, bounds
<1>1. Lapsed \subseteq Posts /\ Lapsed \cap handled = {}
  BY DEF Lapsed
<1>2. TypeOK'
  BY <1>1 DEF IInv, TypeOK
<1>3. Claims' = Claims
  BY DEF Claims
<1>4. Outstanding(calls', Claims, screen') /\ Told(calls')
  BY LoadFits DEF IInv
<1>5. Once'
  BY <1>1 DEF IInv, Once
<1> QED BY <1>2, <1>3, <1>4, <1>5 DEF IInv, Informed, InStock, Backed

LEMMA OnPushStep == IInv /\ OnPush => IInv'
<1> SUFFICES ASSUME IInv, OnPush
             PROVE  IInv'
  OBVIOUS
<1> USE DEF OnPush, mine, server, written, history, bounds
<1>1. TypeOK'
  BY DEF IInv, TypeOK
<1>2. Claims' = Claims
  BY DEF Claims
<1>3. CASE mounted
  <2>1. Outstanding(calls', Claims, screen') /\ Told(calls')
    BY <1>3, LoadFits DEF IInv
  <2> QED BY <1>1, <1>2, <2>1 DEF IInv, Informed, InStock, Backed, Once
<1>4. CASE ~mounted
  BY <1>1, <1>2, <1>4 DEF IInv, Informed, InStock, Backed, Once
<1> QED BY <1>3, <1>4

\* A pending claim being resolved gives its portions back at most once.
LEMMA ResolveStock ==
  ASSUME TypeOK, InStock, NEW p \in Posts,
         NEW status \in {"picked_up", "no_show", "cancelled"}, Resolve(p, status)
  PROVE  /\ claim' \in [Posts -> [status: ClaimStatus, qty: 0..Portions]]
         /\ left' \in [Posts -> 0..Portions]
         /\ InStock'
<1>1. /\ claim \in [Posts -> [status: ClaimStatus, qty: 0..Portions]]
      /\ left \in [Posts -> 0..Portions]
      /\ claim[p].status = "pending"
      /\ left[p] + claim[p].qty <= Portions
  BY DEF TypeOK, InStock, Resolve
<1>2. /\ claim' \in [Posts -> [status: ClaimStatus, qty: 0..Portions]]
      /\ claim'[p].status = status
      /\ \A q \in Posts \ {p} : claim'[q] = claim[q]
  BY <1>1 DEF Resolve, ClaimStatus
<1>3. left[p] + claim[p].qty \in 0..Portions
  <2>1. left[p] \in 0..Portions /\ claim[p].qty \in 0..Portions
    BY <1>1
  <2> QED BY <1>1, <2>1, PickupAssumption
<1>4. left' \in [Posts -> 0..Portions] /\ \A q \in Posts \ {p} : left'[q] = left[q]
  <2>1. CASE status = "picked_up"
    BY <1>1, <2>1 DEF Resolve
  <2>2. CASE status # "picked_up"
    BY <1>1, <1>3, <2>2 DEF Resolve
  <2> QED BY <2>1, <2>2
<1>5. InStock'
  <2>1. ASSUME NEW q \in Posts, claim'[q].status = "pending"
        PROVE  left'[q] + claim'[q].qty <= Portions
    <3>1. q # p
      BY <1>2, <2>1
    <3> QED BY <1>2, <1>4, <2>1, <3>1 DEF InStock
  <2> QED BY <2>1 DEF InStock
<1> QED BY <1>2, <1>4, <1>5

\* A change committed as it is written.
LEMMA SavedAtOnce ==
  ASSUME TypeOK, Backed, NEW p \in Posts, AtOnce(p), UNCHANGED rated,
         claim' \in [Posts -> [status: ClaimStatus, qty: 0..Portions]],
         left' \in [Posts -> 0..Portions], InStock'
  PROVE  /\ stored' \in [Posts -> [left: 0..Portions, rated: BOOLEAN,
                                 claim: [status: ClaimStatus, qty: 0..Portions]]]
         /\ Backed'
<1> DEFINE w == [left |-> left'[p], claim |-> claim'[p], rated |-> p \in rated']
<1>1. stored' = [stored EXCEPT ![p] = w]
  BY DEF AtOnce, Written
<1>2. w \in [left: 0..Portions, rated: BOOLEAN,
             claim: [status: ClaimStatus, qty: 0..Portions]]
  OBVIOUS
<1>3. w.claim = claim'[p] /\ w.left = left'[p]
  OBVIOUS
<1> HIDE DEF w
<1> QED BY <1>1, <1>2, <1>3 DEF TypeOK, Backed, InStock

\* A claim resolved without anybody being told.
LEMMA SilentChange ==
  ASSUME IInv, NEW p \in Posts, Resolve(p, "no_show"), UNCHANGED rated, AtOnce(p),
         calls' = Aged(calls), astray' = TRUE, Once',
         UNCHANGED <<screen, detail, mine, pushed, hold, early, asked>>
  PROVE  IInv'
<1> USE DEF mine
<1>1. /\ claim' \in [Posts -> [status: ClaimStatus, qty: 0..Portions]]
      /\ left' \in [Posts -> 0..Portions]
      /\ InStock'
  BY ResolveStock DEF IInv
<1>2. /\ stored' \in [Posts -> [left: 0..Portions, rated: BOOLEAN,
                              claim: [status: ClaimStatus, qty: 0..Portions]]]
      /\ Backed'
  BY <1>1, SavedAtOnce DEF IInv
<1>3. TypeOK'
  BY <1>1, <1>2 DEF IInv, TypeOK
<1>4. Outstanding(Aged(calls), Claims', screen)
  BY AgedFits DEF IInv
<1> QED BY <1>1, <1>2, <1>3, <1>4 DEF IInv, Informed

LEMMA OthersActStep == \A p \in Posts : IInv /\ OthersAct(p) => IInv'
<1> SUFFICES ASSUME NEW p \in Posts, IInv, OthersAct(p)
             PROVE  IInv'
  OBVIOUS
<1> USE DEF mine
<1>1. Outstanding(Aged(calls), Claims', screen)
  BY AgedFits DEF IInv
<1>2. UNCHANGED <<screen, detail, mine, hold, early, asked, presses>>
  BY DEF OthersAct
<1>3. Once'
  BY <1>2 DEF IInv, Once
<1>4. CASE /\ left[p] > 0 /\ left' = [left EXCEPT ![p] = @ - 1]
           /\ UNCHANGED <<claim, rated, calls, pushed, astray>> /\ AtOnce(p)
  <2>1. /\ left \in [Posts -> 0..Portions]
        /\ claim \in [Posts -> [status: ClaimStatus, qty: 0..Portions]]
    BY DEF IInv, TypeOK
  <2>2. /\ left' \in [Posts -> 0..Portions]
        /\ \A q \in Posts : left'[q] <= left[q]
    BY <1>4, <2>1, PickupAssumption
  <2>3. InStock'
    <3>1. ASSUME NEW q \in Posts, claim[q].status = "pending"
          PROVE  left'[q] + claim[q].qty <= Portions
      <4>1. left[q] + claim[q].qty <= Portions /\ left'[q] <= left[q]
        BY <2>2, <3>1 DEF IInv, InStock
      <4>2. left[q] \in Int /\ left'[q] \in Int /\ claim[q].qty \in Int /\ Portions \in Int
        BY <2>1, <2>2, PickupAssumption
      <4> QED BY <4>1, <4>2
    <3> QED BY <1>4, <3>1 DEF InStock
  <2>4. /\ stored' \in [Posts -> [left: 0..Portions, rated: BOOLEAN,
                                claim: [status: ClaimStatus, qty: 0..Portions]]]
        /\ Backed'
    BY <1>4, <2>1, <2>2, <2>3, SavedAtOnce DEF IInv
  <2>5. TypeOK'
    BY <1>2, <1>4, <2>2, <2>4 DEF IInv, TypeOK
  <2>6. Claims' = Claims
    BY <1>4 DEF Claims
  <2> QED BY <1>2, <1>3, <1>4, <2>3, <2>4, <2>5, <2>6 DEF IInv, Informed
<1>5. CASE /\ Resolve(p, "picked_up") /\ pushed' = TRUE /\ calls' = Aged(calls)
           /\ UNCHANGED <<rated, stored, astray>>
  <2>1. /\ claim' \in [Posts -> [status: ClaimStatus, qty: 0..Portions]]
        /\ left' \in [Posts -> 0..Portions]
        /\ InStock'
    BY <1>5, ResolveStock DEF IInv
  <2>2. TypeOK' /\ Backed'
    BY <1>2, <1>5, <2>1 DEF IInv, TypeOK, Backed
  <2> QED BY <1>1, <1>2, <1>3, <1>5, <2>1, <2>2 DEF IInv, Informed
<1>6. CASE /\ Resolve(p, "no_show") /\ calls' = Aged(calls) /\ astray' = TRUE
           /\ UNCHANGED <<rated, pushed>> /\ AtOnce(p)
  BY <1>1, <1>2, <1>3, <1>6, SilentChange DEF IInv
<1> QED BY <1>4, <1>5, <1>6 DEF OthersAct

LEMMA TickStep == \A p \in Posts : IInv /\ Tick(p) => IInv'
<1> SUFFICES ASSUME NEW p \in Posts, IInv, Tick(p)
             PROVE  IInv'
  OBVIOUS
<1> USE DEF Tick, mine, written, history
<1>1. hold' \in [Posts -> 0..2]
  BY DEF IInv, TypeOK
<1>2. TypeOK'
  BY <1>1 DEF IInv, TypeOK
<1>3. Claims' = Claims
  BY DEF Claims
<1> QED BY <1>2, <1>3 DEF IInv, Informed, InStock, Backed, Once

LEMMA SweepStep == IInv /\ Sweep => IInv'
<1> SUFFICES ASSUME IInv, NEW p \in Posts, Resolve(p, "no_show"), UNCHANGED rated, AtOnce(p),
                    calls' = Aged(calls), astray' = TRUE,
                    UNCHANGED <<screen, detail, mine, pushed, hold, early, asked, bounds>>
             PROVE  IInv'
  BY DEF Sweep
<1>1. Once'
  BY DEF IInv, Once, mine
<1> QED BY <1>1, SilentChange

LEMMA CommitStep == IInv /\ Commit => IInv'
<1> SUFFICES ASSUME IInv, NEW p \in Unsaved, stored' = [stored EXCEPT ![p] = Written(p)],
                    UNCHANGED <<screen, detail, mine, calls, pushed, written, hold, history,
                                asked, bounds>>
             PROVE  IInv'
  BY DEF Commit
<1> USE DEF mine, written, history, bounds
<1>1. p \in Posts
  BY DEF Unsaved
<1>2. AtOnce(p) /\ Claims' = Claims
  BY DEF AtOnce, Written, Claims
<1>3. InStock' /\ Once' /\ Informed'
  BY <1>2 DEF IInv, InStock, Once, Informed
<1>4. /\ stored' \in [Posts -> [left: 0..Portions, rated: BOOLEAN,
                              claim: [status: ClaimStatus, qty: 0..Portions]]]
      /\ Backed'
  <2>1. /\ claim' \in [Posts -> [status: ClaimStatus, qty: 0..Portions]]
        /\ left' \in [Posts -> 0..Portions]
    BY DEF IInv, TypeOK
  <2> QED BY <1>1, <1>2, <1>3, <2>1, SavedAtOnce DEF IInv
<1>5. TypeOK'
  BY <1>4 DEF IInv, TypeOK
<1> QED BY <1>2, <1>3, <1>4, <1>5 DEF IInv

LEMMA RollbackStep == \A p \in Posts : IInv /\ Rollback(p) => IInv'
<1> SUFFICES ASSUME NEW p \in Posts, IInv, Rollback(p)
             PROVE  IInv'
  OBVIOUS
<1> USE DEF Rollback, mine
<1>1. /\ stored[p] \in [left: 0..Portions, rated: BOOLEAN,
                        claim: [status: ClaimStatus, qty: 0..Portions]]
      /\ claim \in [Posts -> [status: ClaimStatus, qty: 0..Portions]]
      /\ left \in [Posts -> 0..Portions] /\ rated \subseteq Posts
  BY DEF IInv, TypeOK
<1>2. /\ claim' \in [Posts -> [status: ClaimStatus, qty: 0..Portions]]
      /\ left' \in [Posts -> 0..Portions] /\ rated' \subseteq Posts
      /\ claim'[p] = stored[p].claim /\ left'[p] = stored[p].left
      /\ \A q \in Posts \ {p} : claim'[q] = claim[q] /\ left'[q] = left[q]
  BY <1>1
<1>3. InStock' /\ Backed' /\ Once'
  BY <1>2 DEF IInv, InStock, Backed, Once
<1>4. TypeOK'
  BY <1>2 DEF IInv, TypeOK
<1>5. Outstanding(Aged(calls), Claims', screen)
  BY AgedFits DEF IInv
<1> QED BY <1>3, <1>4, <1>5 DEF IInv, Informed

\* An answer that changes nothing at the API.
LEMMA ReplyFits ==
  ASSUME IInv, NEW i \in DOMAIN calls, NEW code, NEW body,
         [code |-> code, body |-> body] \in Answers, Reply(i, code, body),
         calls[i].kind = "get" /\ code = "200" => body \in Shown,
         calls[i].kind = "mine" /\ code = "200" => body \in Table /\ body = Claims,
         News(calls[i]) => calls[i].kind = "mine" \/ code = "lost"
  PROVE  Outstanding(calls', Claims, screen) /\ (Told(calls) => Told(calls'))
<1>1. /\ Outstanding(calls', Claims, screen)
      /\ DOMAIN calls' = DOMAIN calls
      /\ calls'[i].kind = calls[i].kind
      /\ calls'[i].ans.code = code
      /\ \A j \in DOMAIN calls \ {i} : calls'[j] = calls[j]
  BY AnswerFits DEF IInv, Reply
<1>2. ASSUME NEW j \in DOMAIN calls, News(calls[j])
      PROVE  News(calls'[j])
  BY <1>1, <1>2 DEF News
<1> QED BY <1>1, <1>2 DEF Told

\* An answer that changes my claims, all rows read before it being out of date.
LEMMA DoneFits ==
  ASSUME IInv, NEW table, NEW i \in DOMAIN calls,
         calls[i].kind \in {"create", "cancel", "rate"},
         calls' = Answer(Aged(calls), i, "200", None)
  PROVE  Outstanding(calls', table, screen) /\ Told(calls')
<1>1. /\ Outstanding(Aged(calls), table, screen)
      /\ DOMAIN Aged(calls) = DOMAIN calls
      /\ Aged(calls)[i].kind = calls[i].kind
  BY AgedFits DEF IInv
<1>2. [code |-> "200", body |-> None] \in Answers
  BY DEF Answers
<1>3. /\ Outstanding(calls', table, screen)
      /\ DOMAIN calls' = DOMAIN calls
      /\ calls'[i].kind = calls[i].kind
      /\ calls'[i].ans.code = "200"
  BY <1>1, <1>2, AnswerFits
<1> QED BY <1>3 DEF Told, News

\* GET /claims/mine: what is not committed yet makes the rows early.
LEMMA ReadFits ==
  ASSUME IInv, NEW i \in DOMAIN calls, calls[i].kind = "mine", Read(i)
  PROVE  Outstanding(calls', Claims, screen) /\ (Told(calls) => Told(calls'))
<1> DEFINE a == [code |-> "200", body |-> Found]
           c == [[calls[i] EXCEPT !.ans = a] EXCEPT !.early = (Found # Claims)]
<1>1. \A j \in DOMAIN calls : calls[j] \in Requests /\ Fits(calls[j], Claims, screen)
  BY ElementOfSeq, LenProperties DEF IInv, Outstanding
<1>2. calls' = [calls EXCEPT ![i] = c]
  BY DEF Read, Answer, IInv, Outstanding
<1>3. Found \in Table /\ a \in Answers
  BY ShownTyped DEF IInv, Answers
<1>4. c \in Requests /\ Fits(c, Claims, screen) /\ News(c)
  BY <1>1, <1>3 DEF Requests, Fits, News
<1> HIDE DEF c
<1>5. /\ calls' \in [DOMAIN calls -> Requests]
      /\ calls'[i] = c
      /\ \A j \in DOMAIN calls \ {i} : calls'[j] = calls[j]
  BY <1>1, <1>2, <1>4
<1>6. \A j \in DOMAIN calls : Fits(calls'[j], Claims, screen)
  BY <1>1, <1>4, <1>5
<1>7. Outstanding(calls', Claims, screen) /\ DOMAIN calls' = DOMAIN calls
  BY <1>5, <1>6, MapFits DEF IInv
<1>8. Told(calls')
  BY <1>4, <1>5, <1>7 DEF Told
<1> QED BY <1>7, <1>8

LEMMA ServeStep == IInv /\ Serve => IInv'
<1> SUFFICES ASSUME IInv, Serve
             PROVE  IInv'
  OBVIOUS
<1> USE DEF mine, written, history, bounds
<1>1. PICK i \in DOMAIN calls :
        LET c == calls[i]
            p == c.post
            Refuse == Reply(i, "409", None) /\ UNCHANGED written
            Done == calls' = Answer(Aged(calls), i, "200", None)
        IN  /\ c.ans = Pending
            /\ \/ c.kind = "get" /\ Reply(i, "200", Listing(p)) /\ UNCHANGED written
               \/ c.kind = "mine" /\ Read(i) /\ UNCHANGED written
               \/ c.kind = "create"
                  /\ IF claim[p] # NoClaim \/ left[p] < c.qty THEN Refuse
                     ELSE /\ claim' = [claim EXCEPT ![p] = [status |-> "pending", qty |-> c.qty]]
                          /\ left' = [left EXCEPT ![p] = @ - c.qty]
                          /\ Done /\ UNCHANGED rated
               \/ c.kind = "cancel"
                  /\ IF claim[p].status # "pending" THEN Refuse
                     ELSE Resolve(p, "cancelled") /\ Done /\ UNCHANGED rated
               \/ c.kind = "rate"
                  /\ IF claim[p].status # "picked_up" \/ p \in rated THEN Refuse
                     ELSE rated' = rated \cup {p} /\ Done /\ UNCHANGED <<left, claim>>
            /\ UNCHANGED <<screen, detail, mine, pushed, stored, hold, history, asked, bounds>>
  BY DEF Serve
<1> DEFINE c == calls[i]
           p == c.post
<1>2. c \in Requests /\ Fits(c, Claims, screen) /\ c.ans = Pending
  BY <1>1, ElementOfSeq, LenProperties DEF IInv, Outstanding
<1>3. Claims \in Table /\ \A q \in Posts : Listing(q) \in Shown
  BY ShownTyped DEF IInv
<1>4. UNCHANGED <<screen, detail, mine, pushed, stored, hold, history, asked, bounds>>
  BY <1>1
<1>5. c.kind # "mine" => p \in Posts
  BY <1>2 DEF Fits
<1>6. News(c) => c.kind = "mine"
  BY <1>2 DEF News, Pending
<1>7. Once'
  BY <1>4 DEF IInv, Once
<1>8. ASSUME UNCHANGED written,
             Outstanding(calls', Claims, screen), Told(calls) => Told(calls')
      PROVE  IInv'
  <2>1. TypeOK'
    BY <1>4, <1>8 DEF IInv, TypeOK
  <2>2. Claims' = Claims
    BY <1>8 DEF Claims
  <2> QED BY <1>4, <1>7, <1>8, <2>1, <2>2 DEF IInv, Informed, InStock, Backed
<1>9. ASSUME /\ claim' \in [Posts -> [status: ClaimStatus, qty: 0..Portions]]
             /\ left' \in [Posts -> 0..Portions]
             /\ rated' \subseteq Posts
             /\ InStock',
             calls' = Answer(Aged(calls), i, "200", None),
             c.kind \in {"create", "cancel", "rate"}
      PROVE  IInv'
  <2>1. TypeOK'
    BY <1>4, <1>9 DEF IInv, TypeOK
  <2>2. Outstanding(calls', Claims', screen) /\ Told(calls')
    BY <1>9, DoneFits
  <2> QED BY <1>4, <1>7, <1>9, <2>1, <2>2 DEF IInv, Informed, Backed
<1>10. ASSUME Reply(i, "409", None), UNCHANGED written, c.kind # "mine"
       PROVE  IInv'
  <2>1. [code |-> "409", body |-> None] \in Answers
    BY DEF Answers
  <2>2. Outstanding(calls', Claims, screen) /\ (Told(calls) => Told(calls'))
    BY <1>6, <1>10, <2>1, ReplyFits
  <2> QED BY <1>8, <1>10, <2>2
<1>11. CASE c.kind = "get" /\ Reply(i, "200", Listing(p)) /\ UNCHANGED written
  <2>1. Listing(p) \in Shown /\ [code |-> "200", body |-> Listing(p)] \in Answers
    BY <1>3, <1>5, <1>11 DEF Answers
  <2>2. Outstanding(calls', Claims, screen) /\ (Told(calls) => Told(calls'))
    BY <1>6, <1>11, <2>1, ReplyFits
  <2> QED BY <1>8, <1>11, <2>2
<1>12. CASE c.kind = "mine" /\ Read(i) /\ UNCHANGED written
  <2>1. Outstanding(calls', Claims, screen) /\ (Told(calls) => Told(calls'))
    BY <1>12, ReadFits
  <2> QED BY <1>8, <1>12, <2>1
<1>13. CASE c.kind = "create"
  <2>1. CASE claim[p] # NoClaim \/ left[p] < c.qty
    BY <1>1, <1>10, <1>13, <2>1
  <2>2. CASE ~(claim[p] # NoClaim \/ left[p] < c.qty)
    <3>1. /\ claim' = [claim EXCEPT ![p] = [status |-> "pending", qty |-> c.qty]]
          /\ left' = [left EXCEPT ![p] = @ - c.qty]
          /\ calls' = Answer(Aged(calls), i, "200", None)
          /\ UNCHANGED rated
      BY <1>1, <1>13, <2>2
    <3>2. /\ claim \in [Posts -> [status: ClaimStatus, qty: 0..Portions]]
          /\ left \in [Posts -> 0..Portions] /\ rated \subseteq Posts
          /\ p \in Posts /\ c.qty \in Nat
      BY <1>2, <1>5, <1>13 DEF IInv, TypeOK, Requests
    <3>3. c.qty \in 0..Portions /\ left[p] - c.qty \in 0..Portions
      <4>1. left[p] \in 0..Portions /\ ~(left[p] < c.qty)
        BY <2>2, <3>2
      <4> QED BY <3>2, <4>1, PickupAssumption
    <3>4. /\ claim' \in [Posts -> [status: ClaimStatus, qty: 0..Portions]]
          /\ left' \in [Posts -> 0..Portions]
      BY <3>1, <3>2, <3>3 DEF ClaimStatus
    <3>5. InStock'
      <4>1. ASSUME NEW q \in Posts, claim'[q].status = "pending"
            PROVE  left'[q] + claim'[q].qty <= Portions
        <5>1. CASE q = p
          <6>1. left'[p] = left[p] - c.qty /\ claim'[p].qty = c.qty /\ left[p] \in 0..Portions
            BY <3>1, <3>2
          <6> QED BY <3>2, <5>1, <6>1, PickupAssumption
        <5>2. CASE q # p
          <6>1. left'[q] = left[q] /\ claim'[q] = claim[q]
            BY <3>1, <3>2, <5>2
          <6> QED BY <4>1, <6>1 DEF IInv, InStock
        <5> QED BY <5>1, <5>2
      <4> QED BY <4>1 DEF InStock
    <3> QED BY <1>9, <1>13, <3>1, <3>2, <3>4, <3>5
  <2> QED BY <2>1, <2>2
<1>14. CASE c.kind = "cancel"
  <2>1. CASE claim[p].status # "pending"
    BY <1>1, <1>10, <1>14, <2>1
  <2>2. CASE claim[p].status = "pending"
    <3>1. /\ Resolve(p, "cancelled") /\ UNCHANGED rated
          /\ calls' = Answer(Aged(calls), i, "200", None)
      BY <1>1, <1>14, <2>2
    <3>2. /\ claim' \in [Posts -> [status: ClaimStatus, qty: 0..Portions]]
          /\ left' \in [Posts -> 0..Portions]
          /\ InStock'
      BY <1>5, <1>14, <3>1, ResolveStock DEF IInv
    <3>3. rated' \subseteq Posts
      BY <3>1 DEF IInv, TypeOK
    <3> QED BY <1>9, <1>14, <3>1, <3>2, <3>3
  <2> QED BY <2>1, <2>2
<1>15. CASE c.kind = "rate"
  <2>1. CASE claim[p].status # "picked_up" \/ p \in rated
    BY <1>1, <1>10, <1>15, <2>1
  <2>2. CASE ~(claim[p].status # "picked_up" \/ p \in rated)
    <3>1. /\ rated' = rated \cup {p} /\ UNCHANGED <<left, claim>>
          /\ calls' = Answer(Aged(calls), i, "200", None)
      BY <1>1, <1>15, <2>2
    <3>2. /\ claim' \in [Posts -> [status: ClaimStatus, qty: 0..Portions]]
          /\ left' \in [Posts -> 0..Portions]
          /\ rated' \subseteq Posts /\ InStock'
      BY <1>5, <1>15, <3>1 DEF IInv, TypeOK, InStock
    <3> QED BY <1>9, <1>15, <3>1, <3>2
  <2> QED BY <2>1, <2>2
<1> QED BY <1>1, <1>11, <1>12, <1>13, <1>14, <1>15

LEMMA LoseStep == IInv /\ Lose => IInv'
<1> SUFFICES ASSUME IInv, Lose
             PROVE  IInv'
  OBVIOUS
<1> USE DEF mine, server, written, history
<1>1. UNCHANGED <<screen, detail, mine, server, early, asked, presses>>
  BY DEF Lose
<1>2. Claims' = Claims
  BY <1>1 DEF Claims
<1>3. CASE \E i \in DOMAIN calls : Reply(i, "lost", None) /\ UNCHANGED <<pushed, astray>>
  <2>1. PICK i \in DOMAIN calls : Reply(i, "lost", None)
    BY <1>3
  <2>2. [code |-> "lost", body |-> None] \in Answers
    BY DEF Answers
  <2>3. Outstanding(calls', Claims, screen) /\ (Told(calls) => Told(calls'))
    BY <2>1, <2>2, ReplyFits
  <2>4. TypeOK'
    BY <1>1, <1>3 DEF IInv, TypeOK
  <2> QED BY <1>1, <1>2, <1>3, <2>3, <2>4 DEF IInv, Informed, InStock, Backed, Once
<1>4. CASE pushed /\ pushed' = FALSE /\ astray' = TRUE /\ UNCHANGED calls
  <2>1. TypeOK'
    BY <1>1, <1>4 DEF IInv, TypeOK
  <2> QED BY <1>1, <1>2, <1>4, <2>1 DEF IInv, Informed, InStock, Backed, Once
<1> QED BY <1>3, <1>4 DEF Lose

\* An answer being taken, whatever else the handler does: it is not lost on the rows.
LEMMA GetAnsweredStep ==
  ASSUME IInv, NEW i \in DOMAIN calls, GetAnswered(i), UNCHANGED <<pushed, server, asked, bounds>>
  PROVE  IInv'
<1> USE DEF GetAnswered, mine, server, written, history, bounds
<1> DEFINE c == calls[i]
<1>1. c \in Requests /\ Fits(c, Claims, screen)
  BY ElementOfSeq, LenProperties DEF IInv, Outstanding
<1>2. Claims' = Claims
  BY DEF Claims
<1>3. Outstanding(calls', Claims, screen') /\ (Told(calls) => Told(calls'))
  <2>1. ~News(c)
    BY DEF News
  <2> QED BY <2>1, RestFits DEF IInv, Rest
<1>4. detail' = detail \/ (detail' \in Detail /\ detail \in Detail)
  <2>1. CASE c.then = "gone"
    BY <2>1
  <2>2. CASE c.then # "gone"
    <3>1. detail \in Detail
      BY <1>1, <2>2 DEF IInv, TypeOK, Fits
    <3>2. CASE c.ans.code = "200"
      <4>1. c.ans.body \in Shown
        BY <1>1, <3>2 DEF Fits
      <4> QED BY <2>2, <3>1, <3>2, <4>1 DEF Detail
    <3>3. CASE c.ans.code # "200"
      BY <2>2, <3>1, <3>3 DEF Detail
    <3> QED BY <3>2, <3>3
  <2> QED BY <2>1, <2>2
<1>5. TypeOK'
  <2>1. UNCHANGED <<screen, mine, history, pushed, server>>
    OBVIOUS
  <2>2. CASE detail' = detail
    BY <2>1, <2>2 DEF IInv, TypeOK
  <2>3. CASE detail' \in Detail /\ detail \in Detail
    BY <2>1, <2>3, NullAssumption DEF IInv, TypeOK
  <2> QED BY <1>4, <2>2, <2>3
<1> QED BY <1>2, <1>3, <1>5 DEF IInv, Informed, InStock, Backed, Once

LEMMA CreateAnsweredStep ==
  ASSUME IInv, NEW i \in DOMAIN calls, CreateAnswered(i), UNCHANGED <<pushed, server, asked, bounds>>
  PROVE  IInv'
<1> USE DEF server, written, history, bounds
<1> DEFINE c == calls[i]
<1>1. c \in Requests /\ Fits(c, Claims, screen) /\ c.kind = "create"
  BY ElementOfSeq, LenProperties DEF IInv, Outstanding, CreateAnswered
<1>2. Claims' = Claims
  BY DEF Claims
<1>3. /\ UNCHANGED <<rows, loading, refreshing, busy, handled, early>>
      /\ UNCHANGED <<pushed, left, claim, rated, stored, hold, asked>>
  BY DEF CreateAnswered
<1>4. /\ Outstanding(Rest(i), Claims, screen)
      /\ Told(calls) /\ ~News(c) => Told(Rest(i))
  BY RestFits DEF IInv, Rest
<1>5. InStock' /\ Backed' /\ Once'
  BY <1>3 DEF IInv, InStock, Backed, Once
<1>6. CASE c.ans.code = "200" /\ screen = "claims"
  <2>1. calls' = Rest(i) /\ astray' = TRUE /\ UNCHANGED <<screen, detail, mounted>>
    BY <1>6 DEF CreateAnswered
  <2>2. TypeOK'
    BY <1>3, <2>1 DEF IInv, TypeOK
  <2> QED BY <1>2, <1>4, <1>5, <2>1, <2>2 DEF IInv, Informed
<1>7. CASE c.ans.code = "200" /\ screen # "claims"
  <2>1. Focus(Rest(i)) /\ UNCHANGED astray
    BY <1>7 DEF CreateAnswered
  <2>2. TypeOK'
    BY <1>3, <2>1, NullAssumption DEF IInv, TypeOK, Focus
  <2>3. Outstanding(calls', Claims, screen') /\ Told(calls')
    BY <1>4, <2>1, FocusFits
  <2> QED BY <1>2, <1>5, <2>1, <2>2, <2>3 DEF IInv, Informed
<1>8. CASE c.ans.code # "200"
  <2>1. /\ detail' = IF c.then = "gone" THEN detail
                     ELSE [detail EXCEPT !.claiming = FALSE, !.claimError = TRUE]
        /\ calls' = Rest(i) /\ astray' = (astray \/ c.ans.code = "lost")
        /\ UNCHANGED <<screen, mounted>>
    BY <1>8 DEF CreateAnswered
  <2>2. detail' = detail \/ (detail' \in Detail /\ detail \in Detail)
    <3>1. CASE c.then = "gone"
      BY <2>1, <3>1
    <3>2. CASE c.then # "gone"
      <4>1. detail \in Detail
        BY <1>1, <3>2 DEF IInv, TypeOK, Fits
      <4> QED BY <2>1, <3>2, <4>1 DEF Detail
    <3> QED BY <3>1, <3>2
  <2>3. astray' \in BOOLEAN
    BY <2>1 DEF IInv, TypeOK
  <2>4. TypeOK'
    <3>1. CASE detail' = detail
      BY <1>3, <2>1, <2>3, <3>1 DEF IInv, TypeOK
    <3>2. CASE detail' \in Detail /\ detail \in Detail
      BY <1>3, <2>1, <2>3, <3>2, NullAssumption DEF IInv, TypeOK
    <3> QED BY <2>2, <3>1, <3>2
  <2>5. Informed'
    <3>1. CASE c.ans.code = "lost"
      BY <2>1, <3>1 DEF Informed
    <3>2. CASE c.ans.code # "lost"
      <4>1. ~News(c) /\ astray' = astray
        BY <1>1, <1>8, <2>1, <3>2 DEF IInv, TypeOK, News
      <4> QED BY <1>2, <1>3, <1>4, <2>1, <4>1 DEF IInv, Informed
    <3> QED BY <3>1, <3>2
  <2> QED BY <1>2, <1>4, <1>5, <2>1, <2>4, <2>5 DEF IInv
<1> QED BY <1>6, <1>7, <1>8

LEMMA ActAnsweredStep ==
  ASSUME IInv, NEW i \in DOMAIN calls, ActAnswered(i), UNCHANGED <<pushed, server, asked, bounds>>
  PROVE  IInv'
<1> USE DEF server, written, history, bounds
<1> DEFINE c == calls[i]
<1>1. c.kind \in {"cancel", "rate"}
  BY DEF ActAnswered
<1>2. Claims' = Claims
  BY DEF Claims
<1>3. /\ UNCHANGED <<screen, detail, mounted, rows, loading, refreshing, handled, early>>
      /\ UNCHANGED <<pushed, left, claim, rated, stored, hold, asked>>
  BY DEF ActAnswered
<1>4. /\ Outstanding(Rest(i), Claims, screen)
      /\ Told(calls) /\ ~News(c) => Told(Rest(i))
  BY RestFits DEF IInv, Rest
<1>5. InStock' /\ Backed' /\ Once'
  BY <1>3 DEF IInv, InStock, Backed, Once
<1>6. CASE c.ans.code = "200"
  <2>1. calls' = Load(Rest(i), "free") /\ UNCHANGED <<busy, astray>>
    BY <1>6 DEF ActAnswered
  <2>2. TypeOK'
    BY <1>3, <2>1 DEF IInv, TypeOK
  <2>3. Outstanding(calls', Claims, screen) /\ Told(calls')
    BY <1>4, <2>1, LoadFits
  <2> QED BY <1>2, <1>3, <1>5, <2>2, <2>3 DEF IInv, Informed
<1>7. CASE c.ans.code # "200"
  <2>1. busy' = None /\ calls' = Rest(i) /\ astray' = (astray \/ c.ans.code = "lost")
    BY <1>7 DEF ActAnswered
  <2>2. TypeOK'
    BY <1>3, <2>1 DEF IInv, TypeOK
  <2>3. Informed'
    <3>1. CASE c.ans.code = "lost"
      BY <2>1, <3>1 DEF Informed
    <3>2. CASE c.ans.code # "lost"
      <4>1. ~News(c) /\ astray' = astray
        BY <1>1, <1>7, <2>1, <3>2 DEF IInv, TypeOK, News
      <4> QED BY <1>2, <1>3, <1>4, <2>1, <4>1 DEF IInv, Informed
    <3> QED BY <3>1, <3>2
  <2> QED BY <1>2, <1>3, <1>4, <1>5, <2>1, <2>2, <2>3 DEF IInv
<1> QED BY <1>6, <1>7

LEMMA MineAnsweredStep ==
  ASSUME IInv, NEW i \in DOMAIN calls, MineAnswered(i), UNCHANGED <<pushed, server, asked, bounds>>
  PROVE  IInv'
<1> USE DEF server, written, history, bounds
<1> DEFINE c == calls[i]
           overtaken == [j \in DOMAIN calls |->
                          [calls[j] EXCEPT !.old = @ \/ (calls[j].kind = "mine" /\ j < i)]]
<1>1. c \in Requests /\ Fits(c, Claims, screen) /\ c.kind = "mine"
  BY ElementOfSeq, LenProperties DEF IInv, Outstanding, MineAnswered
<1>2. Claims' = Claims
  BY DEF Claims
<1>3. /\ UNCHANGED <<screen, detail, mounted, handled>>
      /\ UNCHANGED <<pushed, left, claim, rated, stored, hold, asked>>
  BY DEF MineAnswered
<1>4. Outstanding(calls', Claims, screen)
  <2>1. ASSUME NEW j \in DOMAIN calls
        PROVE  overtaken[j] \in Requests /\ Fits(overtaken[j], Claims, screen)
    <3>1. calls[j] \in Requests /\ Fits(calls[j], Claims, screen)
      BY ElementOfSeq, LenProperties DEF IInv, Outstanding
    <3>2. overtaken[j] = [calls[j] EXCEPT
            !.old = calls[j].old \/ (calls[j].kind = "mine" /\ j < i)]
      OBVIOUS
    <3> HIDE DEF overtaken
    <3> QED BY <3>1, <3>2 DEF Requests, Fits
  <2>2. overtaken \in [DOMAIN calls -> Requests]
    BY <2>1
  <2>3. calls' = RemoveAt(overtaken, i)
    BY DEF MineAnswered
  <2> HIDE DEF overtaken
  <2>4. Outstanding(overtaken, Claims, screen) /\ DOMAIN overtaken = DOMAIN calls
    BY <2>1, <2>2, MapFits DEF IInv
  <2> QED BY <2>3, <2>4, RestFits
<1>5. InStock' /\ Backed' /\ Once'
  BY <1>3 DEF IInv, InStock, Backed, Once
<1>6. loading' \in BOOLEAN /\ refreshing' \in BOOLEAN /\ busy' \in Posts \cup {None}
  BY DEF IInv, TypeOK, MineAnswered
<1>7. CASE c.ans.code = "200"
  <2>1. rows' = c.ans.body /\ astray' = c.old /\ early' = c.early
    BY <1>7 DEF MineAnswered
  <2>2. /\ rows' \in Table /\ {astray', early'} \subseteq BOOLEAN
        /\ ~astray' /\ ~early' => rows' = Claims
    BY <1>1, <1>7, <2>1 DEF Fits, Requests
  <2>3. TypeOK'
    BY <1>3, <1>6, <2>2 DEF IInv, TypeOK, Table
  <2> QED BY <1>2, <1>3, <1>4, <1>5, <2>2, <2>3 DEF IInv, Informed
<1>8. CASE c.ans.code # "200"
  <2>1. astray' = TRUE /\ UNCHANGED <<rows, early>>
    BY <1>8 DEF MineAnswered
  <2>2. TypeOK'
    BY <1>3, <1>6, <2>1 DEF IInv, TypeOK
  <2> QED BY <1>2, <1>3, <1>4, <1>5, <2>1, <2>2 DEF IInv, Informed
<1> QED BY <1>7, <1>8

LEMMA ReceiveStep == IInv /\ Receive => IInv'
<1> SUFFICES ASSUME IInv, NEW i \in DOMAIN calls,
                    GetAnswered(i) \/ CreateAnswered(i) \/ ActAnswered(i) \/ MineAnswered(i),
                    UNCHANGED <<pushed, server, asked, bounds>>
             PROVE  IInv'
  BY DEF Receive
<1> QED BY GetAnsweredStep, CreateAnsweredStep, ActAnsweredStep, MineAnsweredStep

LEMMA InitIInv == Init => IInv
<1> SUFFICES ASSUME Init
             PROVE  IInv
  OBVIOUS
<1> USE DEF Init
<1>1. \A p \in Posts : /\ claim[p] \in [status: ClaimStatus, qty: 0..Portions]
                       /\ claim[p].qty \in {0, 1}
  BY PickupAssumption DEF ClaimStatus, NoClaim
<1>2. \A p \in Posts : left[p] = Portions - claim[p].qty /\ left[p] \in 0..Portions
  BY <1>1, PickupAssumption
<1>3. TypeOK
  <2>1. claim \in [Posts -> [status: ClaimStatus, qty: 0..Portions]]
    BY <1>1
  <2>2. left \in [Posts -> 0..Portions]
    BY <1>2
  <2>3. rows \in [Posts -> [status: ClaimStatus, rated: BOOLEAN]] /\ hold \in [Posts -> 0..2]
    BY DEF NoRow, ClaimStatus
  <2>4. stored \in [Posts -> [left: 0..Portions, rated: BOOLEAN,
                            claim: [status: ClaimStatus, qty: 0..Portions]]]
    BY <1>1, <1>2 DEF Written
  <2> QED BY <2>1, <2>2, <2>3, <2>4 DEF TypeOK
<1>4. Outstanding(calls, Claims, screen)
  BY DEF Outstanding
<1>5. InStock
  <2>1. ASSUME NEW p \in Posts
        PROVE  left[p] + claim[p].qty <= Portions
    BY <1>1, <1>2, PickupAssumption
  <2> QED BY <2>1 DEF InStock
<1>6. Backed
  BY <1>5 DEF Backed, InStock, Written
<1>7. Informed /\ Once
  BY DEF Informed, Once
<1> QED BY <1>3, <1>4, <1>5, <1>6, <1>7 DEF IInv

LEMMA StepIInv == IInv /\ [Next]_vars => IInv'
<1> SUFFICES ASSUME IInv, [Next]_vars
             PROVE  IInv'
  OBVIOUS
<1>1. CASE Person
  BY <1>1, GoBackStep, OpenClaimsStep, OnClaimStep, PullStep, StepQtyStep, OpenListingStep,
     ActStep DEF Person
<1>2. CASE System
  BY <1>2, ServeStep, CommitStep, ReceiveStep, OnExpiryStep, OnPushStep, SweepStep DEF System
<1>3. CASE Lose
  BY <1>3, LoseStep
<1>4. CASE \E p \in Posts : OthersAct(p) \/ Rollback(p) \/ Tick(p)
  BY <1>4, OthersActStep, RollbackStep, TickStep
<1>5. CASE UNCHANGED vars
  <2>1. UNCHANGED <<screen, detail, mounted, rows, loading, refreshing, busy, handled, calls,
                    pushed, left, claim, rated, stored, hold, astray, early, asked>>
    BY <1>5 DEF vars, mine, server, written, history
  <2>2. TypeOK' /\ Claims' = Claims
    BY <2>1 DEF IInv, TypeOK, Claims
  <2> QED BY <2>1, <2>2 DEF IInv, Informed, InStock, Backed, Once
<1> QED BY <1>1, <1>2, <1>3, <1>4, <1>5 DEF Next

-----------------------------------------------------------------------------
(***************************************************************************)
(* Theorems.                                                               *)
(***************************************************************************)

\* In every state, with transactions written, committed and rolled back at any
\* moment after their answers and pushes, rows that differ from what the API
\* has written are being sent for, or something has been lost, overtaken, done
\* without a push or read before its commit; a listing screen's request
\* outlives it only as an orphan; stock is never exceeded, written or stored.
THEOREM PickupInvariant == Spec => []IInv
<1>1. Init => IInv
  BY InitIInv
<1>2. IInv /\ [Next]_vars => IInv'
  BY StepIInv
<1> QED BY <1>1, <1>2, PTL DEF Spec

\* Every handler keeps every variable in its type: no answer reaches a listing
\* screen that is gone, the stepper never leaves what was left, and portions
\* given back never exceed what was posted.
THEOREM PickupTypeCorrect == Spec => []TypeOK
<1>1. IInv => TypeOK
  BY DEF IInv
<1> QED BY <1>1, PickupInvariant, PTL

\* At rest the claims screen shows what the API has stored, unless an answer
\* was overtaken or lost, the API changed a claim without a push, or the rows
\* were read between an answer or a push and its commit.
THEOREM RowsTrue == Spec => []RowsAreTrue
<1>1. IInv => RowsAreTrue
  <2> SUFFICES ASSUME IInv, AtRest, mounted, ~astray, ~early
               PROVE  rows = Found
    BY DEF RowsAreTrue
  <2>1. ~Told(calls) /\ ~pushed
    BY DEF AtRest, Told
  <2>2. rows = Claims
    BY <2>1 DEF IInv, Informed
  <2>3. ASSUME NEW p \in Posts
        PROVE  stored[p].claim = claim[p] /\ stored[p].rated = (p \in rated)
    <3>1. stored[p] = Written(p)
      BY DEF AtRest, Unsaved
    <3> QED BY <3>1 DEF Written
  <2>4. Found = Claims
    BY <2>3 DEF Found, Claims
  <2> QED BY <2>2, <2>4
<1> QED BY <1>1, PickupInvariant, PTL

\* A lapsed hold makes the claims screen ask the API about it once, however
\* often the API goes on saying that it is pending.
THEOREM AskedOnceOnly == Spec => []AskedOnce
<1>1. IInv => AskedOnce
  BY DEF IInv, Once, AskedOnce
<1> QED BY <1>1, PickupInvariant, PTL
=============================================================================
