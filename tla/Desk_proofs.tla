--------------------------- MODULE Desk_proofs -----------------------------
(***************************************************************************)
(* Theorems about Desk, for any posts, portions and bounds: types, and that *)
(* at rest the dashboard and the management screen show what the API has.  *)
(***************************************************************************)
EXTENDS Desk, SequenceTheorems, TLAPS

-----------------------------------------------------------------------------
(***************************************************************************)
(* Sequences.                                                              *)
(***************************************************************************)

\* RemoveAt keeps the other elements, in their order.
LEMMA RemovedAt ==
  ASSUME NEW S, NEW s \in Seq(S), NEW i \in 1 .. Len(s)
  PROVE  /\ RemoveAt(s, i) \in Seq(S)
         /\ DOMAIN RemoveAt(s, i) = 1 .. (Len(s) - 1)
         /\ \A j \in 1 .. (Len(s) - 1) :
              RemoveAt(s, i)[j] = IF j < i THEN s[j] ELSE s[j + 1]
<1> DEFINE a == SubSeq(s, 1, i - 1)
           b == SubSeq(s, i + 1, Len(s))
<1>1. Len(s) \in Nat /\ i \in Nat /\ i >= 1 /\ i <= Len(s)
  BY LenProperties
<1>2. /\ a \in Seq(S) /\ Len(a) = i - 1
      /\ \A j \in 1 .. i - 1 : a[j] = s[j]
  <2>1. \A j \in 1 .. (i - 1) : s[j] \in S
    BY <1>1, ElementOfSeq
  <2> QED BY <1>1, <2>1, SubSeqProperties
<1>3. /\ b \in Seq(S) /\ Len(b) = Len(s) - i
      /\ \A j \in 1 .. Len(s) - i : b[j] = s[i + j]
  <2>1. \A j \in (i + 1) .. Len(s) : s[j] \in S
    BY <1>1, ElementOfSeq
  <2>2. i + 1 \in Int /\ Len(s) \in Int
    BY <1>1
  <2>3. /\ b \in Seq(S)
        /\ Len(b) = IF i + 1 <= Len(s) THEN Len(s) - (i + 1) + 1 ELSE 0
        /\ \A j \in 1 .. Len(s) - (i + 1) + 1 : b[j] = s[(i + 1) + j - 1]
    BY <2>1, <2>2, SubSeqProperties
  <2>4. /\ Len(s) - (i + 1) + 1 = Len(s) - i
        /\ i + 1 <= Len(s) \/ Len(s) - i = 0
        /\ \A j \in 1 .. Len(s) - i : (i + 1) + j - 1 = i + j
    BY <1>1
  <2> HIDE DEF b
  <2> QED BY <2>3, <2>4
<1>4. RemoveAt(s, i) = a \o b
  BY DEF RemoveAt
<1> HIDE DEF a, b
<1>5. /\ a \o b \in Seq(S)
      /\ Len(a \o b) = Len(a) + Len(b)
      /\ \A j \in 1 .. Len(a) + Len(b) :
           (a \o b)[j] = IF j <= Len(a) THEN a[j] ELSE b[j - Len(a)]
  BY <1>2, <1>3, ConcatProperties
<1>6. Len(a \o b) = Len(s) - 1 /\ DOMAIN (a \o b) = 1 .. (Len(s) - 1)
  BY <1>1, <1>2, <1>3, <1>5, LenProperties
<1>7. ASSUME NEW j \in 1 .. (Len(s) - 1)
      PROVE  (a \o b)[j] = IF j < i THEN s[j] ELSE s[j + 1]
  <2>1. CASE j < i
    BY <1>1, <1>2, <1>3, <1>5, <2>1
  <2>2. CASE ~(j < i)
    <3>1. j - Len(a) \in 1 .. Len(s) - i /\ i + (j - Len(a)) = j + 1
      BY <1>1, <1>2, <2>2
    <3>2. (a \o b)[j] = b[j - Len(a)]
      BY <1>1, <1>2, <1>3, <1>5, <2>2
    <3> QED BY <1>3, <2>2, <3>1, <3>2
  <2> QED BY <2>1, <2>2
<1> QED BY <1>4, <1>5, <1>6, <1>7

\* The same, as a correspondence between the places before and after.
LEMMA Places ==
  ASSUME NEW S, NEW s \in Seq(S), NEW i \in DOMAIN s
  PROVE  /\ RemoveAt(s, i) \in Seq(S)
         /\ \E f \in [DOMAIN RemoveAt(s, i) -> DOMAIN s \ {i}] :
              /\ \A j \in DOMAIN RemoveAt(s, i) : RemoveAt(s, i)[j] = s[f[j]]
              /\ \A j, k \in DOMAIN RemoveAt(s, i) : f[j] = f[k] => j = k
              /\ \A k \in DOMAIN s \ {i} : \E j \in DOMAIN RemoveAt(s, i) : f[j] = k
<1>1. Len(s) \in Nat /\ DOMAIN s = 1 .. Len(s)
  BY LenProperties
<1>2. /\ RemoveAt(s, i) \in Seq(S)
      /\ DOMAIN RemoveAt(s, i) = 1 .. (Len(s) - 1)
      /\ \A j \in 1 .. (Len(s) - 1) :
           RemoveAt(s, i)[j] = IF j < i THEN s[j] ELSE s[j + 1]
  BY <1>1, RemovedAt
<1> DEFINE f == [j \in DOMAIN RemoveAt(s, i) |-> IF j < i THEN j ELSE j + 1]
<1>3. f \in [DOMAIN RemoveAt(s, i) -> DOMAIN s \ {i}]
  BY <1>1, <1>2
<1>4. \A j \in DOMAIN RemoveAt(s, i) : RemoveAt(s, i)[j] = s[f[j]]
  BY <1>1, <1>2
<1>5. \A j, k \in DOMAIN RemoveAt(s, i) : f[j] = f[k] => j = k
  BY <1>1, <1>2
<1>6. ASSUME NEW k \in DOMAIN s \ {i}
      PROVE  \E j \in DOMAIN RemoveAt(s, i) : f[j] = k
  <2>1. CASE k < i
    <3>1. k \in DOMAIN RemoveAt(s, i) /\ f[k] = k
      BY <1>1, <1>2, <2>1
    <3> QED BY <3>1
  <2>2. CASE ~(k < i)
    <3>1. k - 1 \in DOMAIN RemoveAt(s, i) /\ f[k - 1] = k
      BY <1>1, <1>2, <2>2
    <3> QED BY <3>1
  <2> QED BY <2>1, <2>2
<1> HIDE DEF f
<1> QED BY <1>2, <1>3, <1>4, <1>5, <1>6

\* A function on the places of a sequence is a sequence as long.
LEMMA Mapped ==
  ASSUME NEW S, NEW T, NEW s \in Seq(S), NEW t \in [DOMAIN s -> T]
  PROVE  t \in Seq(T) /\ DOMAIN t = DOMAIN s
<1>1. Len(s) \in Nat /\ DOMAIN s = 1 .. Len(s)
  BY LenProperties
<1> QED BY <1>1, SeqDef

\* Append adds one element.
LEMMA Appended ==
  ASSUME NEW S, NEW s \in Seq(S), NEW e \in S
  PROVE  /\ Append(s, e) \in Seq(S)
         /\ Len(s) + 1 \in DOMAIN Append(s, e) \ DOMAIN s
         /\ DOMAIN Append(s, e) = DOMAIN s \cup {Len(s) + 1}
         /\ Append(s, e)[Len(s) + 1] = e
         /\ \A k \in DOMAIN s : Append(s, e)[k] = s[k]
OBVIOUS

-----------------------------------------------------------------------------
(***************************************************************************)
(* The invariant.                                                          *)
(***************************************************************************)

Acts == {"stock", "cancel"} \cup Handoffs
Requests == [kind: {"dash", "manage", "publish"} \cup Acts, post: Posts \cup {None},
             arg: Status \cup Claims, then: {"show", "free", "publish", "gone"},
             code: {"pending", "200", "409", "lost"},
             one: [Posts -> Rows] \cup Rows \cup {None}, two: Claims \cup {None},
             old: BOOLEAN]
Tidings == [post: Posts, row: Rows, old: BOOLEAN]

\* A list of posts that is what the API has, or will be when the events on
\* their way have been applied to it.
Coming(evs, p) == \E k \in DOMAIN evs : evs[k].post = p
Right(rs, evs, ps) == \A p \in Posts : rs[p] # None /\ (rs[p] = ps[p] \/ Coming(evs, p))

\* The last event about a post brings the post as it is, unless it is out of
\* date.
LastIsTrue(evs, ps) ==
    \A k \in DOMAIN evs :
        ~evs[k].old /\ (\A l \in DOMAIN evs : l > k => evs[l].post # evs[k].post)
        => evs[k].row = ps[evs[k].post]

\* A request, for an API whose rows are `ps' and `cl': what it was answered is
\* so, or will be when the events have come, unless it is out of date.
Sound(c, evs, ps, cl) ==
    /\ c.kind = "dash" =>
         /\ c.one \in [Posts -> Rows] \cup {None}
         /\ c.code = "200" => c.one # None
         /\ c.one # None /\ ~c.old => Right(c.one, evs, ps)
    /\ c.kind = "manage" =>
         /\ c.one \in Rows \cup {None}
         /\ c.code = "200" => c.one # None /\ c.two # None
         /\ ~c.old => c.one \in {ps[c.post], None} /\ c.two \in {cl[c.post], None}
    /\ c.kind # "dash" => c.post \in Posts
    /\ c.kind \in {"publish", "stock", "cancel"} => c.arg \in Status
    /\ c.kind \in Handoffs => c.arg \in {"picked_up", "no_show"}

AllSound(cs, evs, ps, cl) ==
    cs \in Seq(Requests) /\ \A i \in DOMAIN cs : Sound(cs[i], evs, ps, cl)

\* Who waits for an answer is the management screen of that post.
Waits(c) == c.kind \notin {"dash", "publish"} /\ c.then # "gone"
Awaited(cs, mg) == \A i \in DOMAIN cs : Waits(cs[i]) => mg # None /\ mg.post = cs[i].post

\* An answer that will be followed by a fetch, or is one, or is lost.
Refreshes(c) ==
    Waits(c) /\ (c.kind = "manage" \/ (c.kind \in Acts /\ c.code \in {"200", "lost"}))
Refreshing(cs) == \E i \in DOMAIN cs : Refreshes(cs[i])
Shows(mg, ps, cl) == mg.seen = ps[mg.post] /\ mg.claim = cl[mg.post]

\* Each post has one claim's worth of portions out, or none.
Out(cl, p) == IF cl[p] \in {"pending", "picked_up"} THEN 1 ELSE 0
Stock(ps, cl) == \A p \in Posts : ps[p].left = Portions - Out(cl, p)

\* So it is of what is committed, each row with its own claim.
Saved(st) ==
    \A p \in Posts :
        st[p].row.left = Portions - (IF st[p].claim \in {"pending", "picked_up"} THEN 1 ELSE 0)

IInv ==
    /\ TypeOK
    /\ Stock(post, claim) /\ Saved(stored)
    /\ events \in Seq(Tidings) /\ (stream = "opening" => events = <<>>)
    /\ LastIsTrue(events, post)
    /\ AllSound(calls, events, post, claim)
    /\ Awaited(calls, manage)
    /\ ~astray => Right(rows, events, post)
    /\ manage # None /\ ~missed => Shows(manage, post, claim) \/ Refreshing(calls)

-----------------------------------------------------------------------------
(***************************************************************************)
(* What the handlers do to the requests outstanding.                       *)
(***************************************************************************)

\* Any request outstanding is one.
LEMMA OneOf ==
  ASSUME NEW cs, NEW evs, NEW ps, NEW cl, AllSound(cs, evs, ps, cl), NEW i \in DOMAIN cs
  PROVE  cs[i] \in Requests /\ Sound(cs[i], evs, ps, cl)
BY ElementOfSeq, LenProperties DEF AllSound

\* A request about to be sent.
LEMMA Fresh ==
  ASSUME NEW kind \in {"dash", "manage", "publish"} \cup Acts, NEW p \in Posts \cup {None},
         NEW arg \in Status \cup Claims, kind # "dash" => p \in Posts,
         kind \in {"publish", "stock", "cancel"} => arg \in Status,
         kind \in Handoffs => arg \in {"picked_up", "no_show"},
         NEW evs, NEW ps, NEW cl
  PROVE  LET c == Call(kind, p, arg) IN
         /\ c \in Requests /\ Sound(c, evs, ps, cl)
         /\ c.kind = kind /\ c.post = p /\ c.then = "show" /\ c.code = "pending"
<1> DEFINE c == Call(kind, p, arg)
<1>1. c \in Requests
  BY DEF Requests, Call
<1>2. /\ c.kind = kind /\ c.post = p /\ c.arg = arg /\ c.then = "show" /\ c.code = "pending"
      /\ c.one = None /\ c.two = None
  BY DEF Call
<1> HIDE DEF c
<1>3. Sound(c, evs, ps, cl)
  BY <1>2 DEF Sound
<1> QED BY <1>1, <1>2, <1>3 DEF c

\* The fetches of the two screens.
LEMMA FreshLoad ==
  ASSUME NEW evs, NEW ps, NEW cl
  PROVE  LET c == Call("dash", None, "none") IN
         c \in Requests /\ Sound(c, evs, ps, cl) /\ c.kind = "dash"
BY Fresh DEF Claims, Handoffs

LEMMA FreshLoadOne ==
  ASSUME NEW evs, NEW ps, NEW cl, NEW p \in Posts, NEW c, c = Call("manage", p, "none")
  PROVE  c \in Requests /\ Sound(c, evs, ps, cl) /\ c.kind = "manage" /\ c.post = p /\ c.then = "show"
BY Fresh DEF Claims, Handoffs

\* The same request, to be followed by something else.
LEMMA Followed ==
  ASSUME NEW evs, NEW ps, NEW cl, NEW c \in Requests, Sound(c, evs, ps, cl),
         NEW to \in {"show", "free", "publish", "gone"}, NEW d, d = [c EXCEPT !.then = to]
  PROVE  /\ d \in Requests /\ Sound(d, evs, ps, cl)
         /\ d.kind = c.kind /\ d.post = c.post /\ d.then = to /\ d.code = c.code
<1>1. d \in Requests
  BY DEF Requests
<1>2. /\ d.kind = c.kind /\ d.post = c.post /\ d.arg = c.arg /\ d.then = to /\ d.code = c.code
      /\ d.one = c.one /\ d.two = c.two /\ d.old = c.old
  BY DEF Requests
<1>3. Sound(d, evs, ps, cl)
  BY <1>2 DEF Sound
<1> QED BY <1>1, <1>2, <1>3

\* Changing the last of several.
Then(c, to) == [c EXCEPT !.then = to]
PlaceThen(s, n, to) == [s EXCEPT ![n].then = to]

LEMMA LastChanged ==
  ASSUME NEW s \in Seq(Requests), NEW c \in Requests,
         NEW to \in {"show", "free", "publish", "gone"}
  PROVE  PlaceThen(Append(s, c), Len(s) + 1, to) = Append(s, Then(c, to))
<1> DEFINE n == Len(s) + 1
           d == Then(c, to)
           a == Append(s, c)
           b == Append(s, d)
<1>1. d \in Requests
  BY DEF Requests, Then
<1>2. /\ a \in Seq(Requests) /\ DOMAIN a = DOMAIN s \cup {n} /\ a[n] = c /\ n \notin DOMAIN s
      /\ \A k \in DOMAIN s : a[k] = s[k]
  BY Appended
<1>3. /\ b \in Seq(Requests) /\ DOMAIN b = DOMAIN s \cup {n} /\ b[n] = d
      /\ \A k \in DOMAIN s : b[k] = s[k]
  BY <1>1, Appended
<1>4. a[n].then = c.then /\ d = [a[n] EXCEPT !.then = to]
  BY <1>2 DEF Then
<1> HIDE DEF a, b, d, n
<1>8. PlaceThen(a, n, to) = [a EXCEPT ![n] = d]
  BY <1>4 DEF PlaceThen
<1>5. /\ DOMAIN [a EXCEPT ![n] = d] = DOMAIN a
      /\ \A k \in DOMAIN a : [a EXCEPT ![n] = d][k] = IF k = n THEN d ELSE a[k]
  OBVIOUS
<1>6. a = [k \in DOMAIN a |-> a[k]] /\ b = [k \in DOMAIN b |-> b[k]]
  BY <1>2, <1>3, LenProperties
<1>7. [a EXCEPT ![n] = d] = b
  BY <1>2, <1>3, <1>5, <1>6
<1> QED BY <1>7, <1>8 DEF a, b, d, n

\* Sending one.
LEMMA SendCall ==
  ASSUME NEW cs, NEW evs, NEW ps, NEW cl, AllSound(cs, evs, ps, cl),
         NEW c \in Requests, Sound(c, evs, ps, cl), NEW mg
  PROVE  /\ AllSound(Append(cs, c), evs, ps, cl)
         /\ Awaited(cs, mg) /\ (Waits(c) => mg # None /\ mg.post = c.post)
              => Awaited(Append(cs, c), mg)
         /\ Refreshing(cs) \/ Refreshes(c) => Refreshing(Append(cs, c))
<1> DEFINE ds == Append(cs, c)
           n == Len(cs) + 1
<1>1. /\ ds \in Seq(Requests)
      /\ n \in DOMAIN ds \ DOMAIN cs /\ DOMAIN ds = DOMAIN cs \cup {n}
      /\ ds[n] = c /\ \A k \in DOMAIN cs : ds[k] = cs[k]
  BY Appended DEF AllSound
<1> HIDE DEF ds, n
<1>2. AllSound(ds, evs, ps, cl)
  BY <1>1 DEF AllSound
<1>3. Awaited(cs, mg) /\ (Waits(c) => mg # None /\ mg.post = c.post) => Awaited(ds, mg)
  BY <1>1 DEF Awaited
<1>4. Refreshing(cs) \/ Refreshes(c) => Refreshing(ds)
  BY <1>1 DEF Refreshing
<1> QED BY <1>2, <1>3, <1>4 DEF ds

\* Taking an answer.
LEMMA DropCall ==
  ASSUME NEW cs, NEW evs, NEW ps, NEW cl, AllSound(cs, evs, ps, cl),
         NEW i \in DOMAIN cs, NEW mg
  PROVE  /\ AllSound(RemoveAt(cs, i), evs, ps, cl)
         /\ Awaited(cs, mg) => Awaited(RemoveAt(cs, i), mg)
         /\ Refreshing(cs) /\ ~Refreshes(cs[i]) => Refreshing(RemoveAt(cs, i))
<1> DEFINE ds == RemoveAt(cs, i)
<1>1. ds \in Seq(Requests)
  BY Places DEF AllSound
<1>2. PICK f \in [DOMAIN ds -> DOMAIN cs \ {i}] :
        /\ \A j \in DOMAIN ds : ds[j] = cs[f[j]]
        /\ \A j, k \in DOMAIN ds : f[j] = f[k] => j = k
        /\ \A k \in DOMAIN cs \ {i} : \E j \in DOMAIN ds : f[j] = k
  BY Places DEF AllSound
<1>3. \A j \in DOMAIN ds : f[j] \in DOMAIN cs \ {i}
  BY <1>2
<1> HIDE DEF ds
<1>4. AllSound(ds, evs, ps, cl)
  BY <1>1, <1>2, <1>3 DEF AllSound
<1>5. Awaited(cs, mg) => Awaited(ds, mg)
  BY <1>2, <1>3 DEF Awaited
<1>6. Refreshing(cs) /\ ~Refreshes(cs[i]) => Refreshing(ds)
  BY <1>2 DEF Refreshing
<1> QED BY <1>4, <1>5, <1>6 DEF ds

\* The same request, out of date perhaps, or with nobody waiting for it.
Aging(c, d) ==
    /\ d.kind = c.kind /\ d.post = c.post /\ d.arg = c.arg /\ d.code = c.code
    /\ d.one = c.one /\ d.two = c.two /\ (c.old => d.old)
    /\ d.then \in {c.then, "gone"}
Olden(cs, ds) ==
    /\ ds \in Seq(Requests) /\ DOMAIN ds = DOMAIN cs
    /\ \A i \in DOMAIN cs : Aging(cs[i], ds[i])
Same(cs, ds) == \A i \in DOMAIN cs : ds[i].then = cs[i].then

LEMMA OldenCalls ==
  ASSUME NEW cs, NEW ds, NEW evs, NEW ps, NEW cl, AllSound(cs, evs, ps, cl), Olden(cs, ds), NEW mg
  PROVE  /\ AllSound(ds, evs, ps, cl)
         /\ Awaited(cs, mg) => Awaited(ds, mg)
         /\ Same(cs, ds) /\ Refreshing(cs) => Refreshing(ds)
<1>1. ASSUME NEW i \in DOMAIN ds
      PROVE  Sound(ds[i], evs, ps, cl)
  <2>1. Sound(cs[i], evs, ps, cl) /\ Aging(cs[i], ds[i]) /\ cs[i] \in Requests
    BY <1>1, OneOf DEF Olden
  <2> DEFINE c == cs[i]
             d == ds[i]
  <2>2. c.old => d.old
    BY <2>1 DEF Aging
  <2>3. /\ d.kind = c.kind /\ d.post = c.post /\ d.arg = c.arg /\ d.code = c.code
        /\ d.one = c.one /\ d.two = c.two
    BY <2>1 DEF Aging
  <2>4. Sound(c, evs, ps, cl)
    BY <2>1
  <2> HIDE DEF c, d
  <2>5. Sound(d, evs, ps, cl)
    BY <2>2, <2>3, <2>4 DEF Sound
  <2> QED BY <2>5 DEF d
<1>2. AllSound(ds, evs, ps, cl)
  BY <1>1 DEF AllSound, Olden
<1>3. Awaited(cs, mg) => Awaited(ds, mg)
  BY DEF Awaited, Waits, Olden, Aging
<1>4. Same(cs, ds) /\ Refreshing(cs) => Refreshing(ds)
  BY DEF Same, Refreshing, Refreshes, Waits, Olden, Aging
<1> QED BY <1>2, <1>3, <1>4

\* The API's rows change: what was read before is out of date, but for a list
\* of posts that an event will put right.
Passed(ds, kinds) ==
    \A i \in DOMAIN ds : ds[i].kind \in kinds /\ (ds[i].one # None \/ ds[i].two # None) => ds[i].old

LEMMA WorldChanges ==
  ASSUME NEW cs, NEW ds, NEW evs, NEW ps, NEW cl, NEW evs2, NEW ps2, NEW cl2,
         AllSound(cs, evs, ps, cl), Olden(cs, ds),
         Passed(ds, {"manage"}) \/ (ps2 = ps /\ cl2 = cl),
         Passed(ds, {"dash"}) \/ \A rs : Right(rs, evs, ps) => Right(rs, evs2, ps2)
  PROVE  AllSound(ds, evs2, ps2, cl2)
<1>1. AllSound(ds, evs, ps, cl)
  BY OldenCalls
<1>2. ASSUME NEW i \in DOMAIN ds
      PROVE  Sound(ds[i], evs2, ps2, cl2)
  <2> DEFINE d == ds[i]
  <2>1. Sound(d, evs, ps, cl) /\ d \in Requests
    BY <1>1, OneOf
  <2>2. Passed(ds, {"manage"}) => (d.kind = "manage" /\ (d.one # None \/ d.two # None) => d.old)
    BY DEF Passed
  <2>3. Passed(ds, {"dash"}) => (d.kind = "dash" /\ d.one # None => d.old)
    BY DEF Passed
  <2> HIDE DEF d
  <2>4. d.kind = "dash" /\ d.one # None /\ ~d.old => Right(d.one, evs2, ps2)
    BY <2>1, <2>3 DEF Sound
  <2>5. d.kind = "manage" /\ ~d.old =>
          d.one \in {ps2[d.post], None} /\ d.two \in {cl2[d.post], None}
    BY <2>1, <2>2 DEF Sound
  <2>6. Sound(d, evs2, ps2, cl2)
    BY <2>1, <2>4, <2>5 DEF Sound
  <2> QED BY <2>6 DEF d
<1> QED BY <1>1, <1>2 DEF AllSound

\* Aged() is such a change.
LEMMA AgedCalls ==
  ASSUME NEW cs \in Seq(Requests), NEW kinds
  PROVE  /\ Olden(cs, Aged(cs, kinds)) /\ Same(cs, Aged(cs, kinds))
         /\ \A ks : ks \subseteq kinds => Passed(Aged(cs, kinds), ks)
<1> DEFINE was(j) == cs[j].old \/ (cs[j].kind \in kinds /\ (cs[j].one # None \/ cs[j].two # None))
           t == [j \in DOMAIN cs |-> [cs[j] EXCEPT !.old = was(j)]]
<1>1. Aged(cs, kinds) = t
  BY DEF Aged
<1>2. ASSUME NEW j \in DOMAIN cs
      PROVE  /\ t[j] \in Requests /\ Aging(cs[j], t[j]) /\ t[j].then = cs[j].then
             /\ t[j].old = was(j)
  <2> DEFINE c == cs[j]
             b == was(j)
             d == [c EXCEPT !.old = b]
  <2>1. c \in Requests
    BY <1>2, ElementOfSeq, LenProperties
  <2>2. b \in BOOLEAN
    BY <2>1 DEF Requests
  <2>3. c.old => b
    OBVIOUS
  <2>4. t[j] = d
    OBVIOUS
  <2> HIDE DEF c, b
  <2>5. d \in Requests
    BY <2>1, <2>2 DEF Requests
  <2>6. Aging(c, d) /\ d.then = c.then /\ d.old = b
    BY <2>1, <2>2, <2>3 DEF Requests, Aging
  <2> QED BY <2>4, <2>5, <2>6 DEF c, b
<1>3. t \in [DOMAIN cs -> Requests]
  BY <1>2
<1>4. t \in Seq(Requests) /\ DOMAIN t = DOMAIN cs
  BY <1>3, Mapped
<1> HIDE DEF t
<1>5. Olden(cs, t) /\ Same(cs, t)
  BY <1>2, <1>4 DEF Olden, Same
<1>6. ASSUME NEW ks, ks \subseteq kinds
      PROVE  Passed(t, ks)
  BY <1>2, <1>4, <1>6 DEF Passed, Aging
<1> QED BY <1>1, <1>5, <1>6

\* Overtaking() and Orphaned() only do that to requests.
LEMMA OvertakingCalls ==
  ASSUME calls \in Seq(Requests), NEW i \in DOMAIN calls
  PROVE  \E ds : Olden(calls, ds) /\ Same(calls, ds) /\ Overtaking(i) = RemoveAt(ds, i)
<1> DEFINE was(j) == calls[j].old \/ (j < i /\ calls[j].kind = calls[i].kind)
           t == [j \in DOMAIN calls |-> [calls[j] EXCEPT !.old = was(j)]]
<1>1. Overtaking(i) = RemoveAt(t, i)
  BY DEF Overtaking
<1>2. ASSUME NEW j \in DOMAIN calls
      PROVE  t[j] \in Requests /\ Aging(calls[j], t[j]) /\ t[j].then = calls[j].then
  <2> DEFINE c == calls[j]
             b == was(j)
             d == [c EXCEPT !.old = b]
  <2>1. c \in Requests
    BY <1>2, ElementOfSeq, LenProperties
  <2>2. b \in BOOLEAN
    BY <2>1 DEF Requests
  <2>3. c.old => b
    OBVIOUS
  <2>4. t[j] = d
    OBVIOUS
  <2> HIDE DEF c, b
  <2>5. d \in Requests
    BY <2>1, <2>2 DEF Requests
  <2>6. Aging(c, d) /\ d.then = c.then
    BY <2>1, <2>2, <2>3 DEF Requests, Aging
  <2> QED BY <2>4, <2>5, <2>6 DEF c, b
<1>3. t \in [DOMAIN calls -> Requests]
  BY <1>2
<1>4. t \in Seq(Requests) /\ DOMAIN t = DOMAIN calls
  BY <1>3, Mapped
<1> HIDE DEF t
<1> QED BY <1>1, <1>2, <1>4 DEF Olden, Same

LEMMA OrphanedCalls ==
  ASSUME NEW cs \in Seq(Requests)
  PROVE  Olden(cs, Orphaned(cs)) /\ \A j \in DOMAIN cs : ~Waits(Orphaned(cs)[j])
<1> DEFINE t == [j \in DOMAIN cs |-> IF cs[j].kind \in {"dash", "publish"} THEN cs[j]
                                     ELSE [cs[j] EXCEPT !.then = "gone"]]
<1>1. Orphaned(cs) = t
  BY DEF Orphaned
<1>2. ASSUME NEW j \in DOMAIN cs
      PROVE  t[j] \in Requests /\ Aging(cs[j], t[j]) /\ ~Waits(t[j])
  <2> DEFINE c == cs[j]
             d == [c EXCEPT !.then = "gone"]
  <2>1. c \in Requests
    BY <1>2, ElementOfSeq, LenProperties
  <2>2. t[j] = IF c.kind \in {"dash", "publish"} THEN c ELSE d
    OBVIOUS
  <2> HIDE DEF c
  <2>3. d \in Requests
    BY <2>1 DEF Requests
  <2>4. Aging(c, d) /\ d.then = "gone"
    BY <2>1 DEF Requests, Aging
  <2> HIDE DEF d
  <2>5. Aging(c, c)
    BY DEF Aging
  <2>6. c.kind \in {"dash", "publish"} => ~Waits(c)
    BY DEF Waits
  <2>7. ~Waits(d)
    BY <2>4 DEF Waits
  <2> QED BY <2>1, <2>2, <2>3, <2>4, <2>5, <2>6, <2>7 DEF c
<1>3. t \in [DOMAIN cs -> Requests]
  BY <1>2
<1>4. t \in Seq(Requests) /\ DOMAIN t = DOMAIN cs
  BY <1>3, Mapped
<1> HIDE DEF t
<1> QED BY <1>1, <1>2, <1>4 DEF Olden

\* An act is answered; any request is lost.
LEMMA AnsweredCalls ==
  ASSUME NEW evs, NEW ps, NEW cl, AllSound(calls, evs, ps, cl), NEW i \in DOMAIN calls,
         NEW code \in {"200", "409", "lost"}, code = "lost" \/ calls[i].kind \notin {"dash", "manage"},
         NEW mg
  PROVE  /\ AllSound(Answer(i, code), evs, ps, cl)
         /\ Awaited(calls, mg) => Awaited(Answer(i, code), mg)
         /\ Refreshing(calls) /\ (calls[i].code = "pending" \/ code = "lost")
              => Refreshing(Answer(i, code))
         /\ Waits(calls[i]) /\ calls[i].kind \in Acts /\ code = "200" => Refreshing(Answer(i, code))
<1> DEFINE c == calls[i]
           d == [c EXCEPT !.code = code]
           t == [calls EXCEPT ![i] = d]
<1>1. Answer(i, code) = t
  BY DEF Answer
<1>2. c \in Requests /\ Sound(c, evs, ps, cl)
  BY OneOf
<1>3. d \in Requests
  BY <1>2 DEF Requests
<1>4. /\ d.kind = c.kind /\ d.post = c.post /\ d.arg = c.arg /\ d.then = c.then
      /\ d.one = c.one /\ d.two = c.two /\ d.old = c.old /\ d.code = code
  BY <1>2 DEF Requests
<1> HIDE DEF d
<1>5. /\ t \in Seq(Requests) /\ DOMAIN t = DOMAIN calls
      /\ t[i] = d /\ \A j \in DOMAIN calls : j # i => t[j] = calls[j]
  <2>1. calls \in Seq(Requests)
    BY DEF AllSound
  <2>2. t \in [DOMAIN calls -> Requests]
    BY <1>3, <2>1, ElementOfSeq, LenProperties
  <2> QED BY <2>1, <2>2, Mapped
<1>6. Sound(d, evs, ps, cl)
  BY <1>2, <1>4 DEF Sound
<1> HIDE DEF t
<1>7. AllSound(t, evs, ps, cl)
  BY <1>5, <1>6 DEF AllSound
<1>8. Awaited(calls, mg) => Awaited(t, mg)
  BY <1>4, <1>5 DEF Awaited, Waits
<1>9. Refreshing(calls) /\ (c.code = "pending" \/ code = "lost") => Refreshing(t)
  <2>1. Refreshes(c) /\ (c.code = "pending" \/ code = "lost") => Refreshes(d)
    BY <1>4 DEF Refreshes, Waits
  <2> QED BY <1>5, <2>1 DEF Refreshing
<1>10. Waits(c) /\ c.kind \in Acts /\ code = "200" => Refreshing(t)
  <2>1. Waits(c) /\ c.kind \in Acts /\ code = "200" => Refreshes(d)
    BY <1>4 DEF Refreshes, Waits
  <2> QED BY <1>5, <2>1 DEF Refreshing
<1> QED BY <1>1, <1>7, <1>8, <1>9, <1>10

-----------------------------------------------------------------------------
(***************************************************************************)
(* What the API does to its rows and to the events.                        *)
(***************************************************************************)

\* The API's rows as the invariant has them.
Stored(ps, cl) == ps \in [Posts -> Rows] /\ cl \in [Posts -> Claims] /\ Stock(ps, cl)

LEMMA NewRow ==
  ASSUME NEW r \in Rows, NEW x \in 0 .. Portions, NEW y \in Status
  PROVE  /\ [r EXCEPT !.left = x, !.status = y] \in Rows
         /\ [r EXCEPT !.left = x, !.status = y].left = x
BY DEF Rows

LEMMA ReservedRow ==
  ASSUME NEW r \in Rows, r.left = Portions
  PROVE  LET s == [r EXCEPT !.left = @ - 1, !.status = IF r.left = 1 THEN "claimed" ELSE @] IN
         s \in Rows /\ s.left = Portions - 1
<1> DEFINE x == r.left - 1
           y == IF r.left = 1 THEN "claimed" ELSE r.status
           s == [r EXCEPT !.left = x, !.status = y]
<1>1. x \in 0 .. Portions /\ y \in Status /\ x = Portions - 1
  BY DeskAssumption DEF Rows, Status
<1>2. s = [r EXCEPT !.left = @ - 1, !.status = IF r.left = 1 THEN "claimed" ELSE @]
  OBVIOUS
<1> HIDE DEF x, y
<1>3. x \in 0 .. Portions
  BY <1>1
<1>4. y \in Status
  BY <1>1
<1>5. s \in Rows /\ s.left = x
  BY <1>3, <1>4, NewRow
<1> QED BY <1>1, <1>2, <1>5

LEMMA ResolvedRows ==
  ASSUME Stored(post, claim), NEW p \in Posts, NEW to \in {"picked_up", "no_show", "cancelled"},
         Resolved(p, to)
  PROVE  Stored(post', claim') /\ \A q \in Posts : q # p => post'[q] = post[q]
<1>1. /\ claim[p] = "pending"
      /\ claim' = [claim EXCEPT ![p] = to]
      /\ post' = IF to = "picked_up" THEN post
                 ELSE [post EXCEPT ![p].left = @ + 1,
                                   ![p].status = IF @ = "claimed" THEN "active" ELSE @]
  BY DEF Resolved
<1>2. claim' \in [Posts -> Claims] /\ claim'[p] = to /\ \A q \in Posts : q # p => claim'[q] = claim[q]
  BY <1>1 DEF Stored, Claims
<1>3. CASE to = "picked_up"
  BY <1>1, <1>2, <1>3 DEF Stored, Stock, Out
<1>4. CASE to # "picked_up"
  <2> DEFINE r == post[p]
             s == [r EXCEPT !.left = @ + 1, !.status = IF @ = "claimed" THEN "active" ELSE @]
  <2>1. r \in Rows /\ r.left = Portions - 1 /\ Portions \in Nat
    BY <1>1, DeskAssumption DEF Stored, Stock, Out
  <2>2. s \in Rows /\ s.left = Portions
    <3> DEFINE x == r.left + 1
               y == IF r.status = "claimed" THEN "active" ELSE r.status
    <3>1. x \in 0 .. Portions /\ y \in Status /\ x = Portions
      BY <2>1 DEF Rows, Status
    <3>2. s = [r EXCEPT !.left = x, !.status = y]
      OBVIOUS
    <3> HIDE DEF r, x, y
    <3>3. [r EXCEPT !.left = x, !.status = y] \in Rows /\ [r EXCEPT !.left = x, !.status = y].left = x
      BY <2>1, <3>1, NewRow
    <3> HIDE DEF s
    <3> QED BY <3>1, <3>2, <3>3
  <2>3. post' = [post EXCEPT ![p] = s]
    BY <1>1, <1>4
  <2> HIDE DEF s
  <2>4. post' \in [Posts -> Rows] /\ post'[p] = s /\ \A q \in Posts : q # p => post'[q] = post[q]
    BY <2>2, <2>3 DEF Stored
  <2> QED BY <1>2, <1>4, <2>2, <2>4, DeskAssumption DEF Stored, Stock, Out
<1> QED BY <1>3, <1>4

LEMMA ReservedRows ==
  ASSUME Stored(post, claim), NEW p \in Posts, post[p].left > 0, claim[p] = "none",
         post[p].status = "active",
         claim' = [claim EXCEPT ![p] = "pending"],
         post' = [post EXCEPT ![p].left = @ - 1,
                              ![p].status = IF post[p].left = 1 THEN "claimed" ELSE @]
  PROVE  Stored(post', claim') /\ \A q \in Posts : q # p => post'[q] = post[q]
<1> DEFINE r == post[p]
           s == [r EXCEPT !.left = @ - 1, !.status = IF r.left = 1 THEN "claimed" ELSE @]
<1>1. r \in Rows /\ r.left = Portions /\ Portions \in Nat \ {0}
  BY DeskAssumption DEF Stored, Stock, Out
<1>2. s \in Rows /\ s.left = Portions - 1
  BY <1>1, ReservedRow
<1>3. post' = [post EXCEPT ![p] = s]
  OBVIOUS
<1> HIDE DEF s
<1>4. post' \in [Posts -> Rows] /\ post'[p] = s /\ \A q \in Posts : q # p => post'[q] = post[q]
  BY <1>2, <1>3 DEF Stored
<1>5. claim' \in [Posts -> Claims] /\ claim'[p] = "pending" /\ \A q \in Posts : q # p => claim'[q] = claim[q]
  BY DEF Stored, Claims
<1> QED BY <1>2, <1>4, <1>5, DeskAssumption DEF Stored, Stock, Out

LEMMA StatusRows ==
  ASSUME Stored(post, claim), NEW p \in Posts, NEW s \in Status,
         post' = [post EXCEPT ![p].status = s], claim' = claim
  PROVE  Stored(post', claim') /\ \A q \in Posts : q # p => post'[q] = post[q]
<1> DEFINE r == [post[p] EXCEPT !.status = s]
<1>1. r \in Rows /\ r.left = post[p].left
  BY DEF Stored, Rows
<1>2. post' = [post EXCEPT ![p] = r]
  OBVIOUS
<1> HIDE DEF r
<1>3. post' \in [Posts -> Rows] /\ post'[p] = r /\ \A q \in Posts : q # p => post'[q] = post[q]
  BY <1>1, <1>2 DEF Stored
<1> QED BY <1>1, <1>3 DEF Stored, Stock

\* An event about the one post that changed keeps every list as right as it is.
LEMMA EventTells ==
  ASSUME NEW evs \in Seq(Tidings), NEW ps, NEW qs \in [Posts -> Rows], NEW p \in Posts,
         \A q \in Posts : q # p => qs[q] = ps[q], LastIsTrue(evs, ps),
         NEW e, e = [post |-> p, row |-> qs[p], old |-> FALSE]
  PROVE  /\ Append(evs, e) \in Seq(Tidings)
         /\ LastIsTrue(Append(evs, e), qs)
         /\ \A rs : Right(rs, evs, ps) => Right(rs, Append(evs, e), qs)
<1>1. e \in Tidings /\ e.post = p /\ e.row = qs[p]
  BY DEF Tidings
<1> DEFINE ds == Append(evs, e)
           n == Len(evs) + 1
<1>2. /\ ds \in Seq(Tidings) /\ DOMAIN ds = DOMAIN evs \cup {n} /\ ds[n] = e
      /\ \A k \in DOMAIN evs : ds[k] = evs[k] /\ n > k /\ evs[k].post \in Posts
  <2>1. \A k \in DOMAIN evs : n > k
    BY LenProperties
  <2>2. \A k \in DOMAIN evs : evs[k] \in Tidings
    BY ElementOfSeq, LenProperties
  <2>3. \A k \in DOMAIN evs : evs[k].post \in Posts
    BY <2>2 DEF Tidings
  <2> QED BY <1>1, <2>1, <2>3, Appended
<1> HIDE DEF ds, n
<1>3. LastIsTrue(ds, qs)
  <2> SUFFICES ASSUME NEW k \in DOMAIN ds, ~ds[k].old,
                      \A l \in DOMAIN ds : l > k => ds[l].post # ds[k].post
               PROVE  ds[k].row = qs[ds[k].post]
    BY DEF LastIsTrue
  <2>1. CASE k = n
    BY <1>1, <1>2, <2>1
  <2>2. CASE k # n
    <3>1. k \in DOMAIN evs /\ ds[k] = evs[k] /\ evs[k].post # p
      BY <1>1, <1>2, <2>2
    <3>2. evs[k].row = ps[evs[k].post]
      BY <1>2, <3>1 DEF LastIsTrue
    <3> QED BY <1>2, <3>1, <3>2
  <2> QED BY <2>1, <2>2
<1>4. ASSUME NEW rs, Right(rs, evs, ps)
      PROVE  Right(rs, ds, qs)
  <2>1. \A q \in Posts : Coming(evs, q) => Coming(ds, q)
    BY <1>2 DEF Coming
  <2>2. Coming(ds, p)
    BY <1>1, <1>2 DEF Coming
  <2> QED BY <1>4, <2>1, <2>2 DEF Right
<1> QED BY <1>2, <1>3, <1>4 DEF ds

-----------------------------------------------------------------------------
(***************************************************************************)
(* The host.                                                               *)
(***************************************************************************)

\* A management screen is not null, and its fields are what they were set to.
LEMMA OpenedScreen ==
  ASSUME NEW p \in Posts
  PROVE  Opened(p) \in Managed /\ Opened(p) # None /\ Opened(p).post = p
<1>1. Opened(p) \in Managed
  BY DEF Opened, Managed, Claims
<1> QED BY <1>1, NullAssumption DEF Opened

LEMMA ScreenIsOne ==
  ASSUME TypeOK, manage # None
  PROVE  manage \in Managed /\ manage.post \in Posts
BY DEF TypeOK, Managed

\* Focus() on the requests `rest': whoever waited is gone, and the list loads.
LEMMA Focused ==
  ASSUME IInv, NEW rest, AllSound(rest, events, post, claim), Focus(rest),
         UNCHANGED <<rows, events, post, claim, stored>>
  PROVE  /\ AllSound(calls', events', post', claim') /\ Awaited(calls', manage')
         /\ manage' = None /\ screen' = "posts" /\ error' = FALSE /\ missed' = FALSE
<1> DEFINE os == Orphaned(rest)
           c == Call("dash", None, "none")
<1>1. /\ calls' = Append(os, c) /\ manage' = None /\ screen' = "posts" /\ error' = FALSE
      /\ missed' = FALSE
  BY DEF Focus, Load
<1>2. c \in Requests /\ Sound(c, events, post, claim) /\ c.kind = "dash"
  BY FreshLoad
<1>3. Olden(rest, os) /\ \A j \in DOMAIN rest : ~Waits(os[j])
  BY OrphanedCalls DEF AllSound
<1>4. AllSound(os, events, post, claim)
  BY <1>3, OldenCalls
<1>5. Awaited(os, None)
  BY <1>3 DEF Awaited, Olden
<1> HIDE DEF os, c
<1>6. ~Waits(c)
  BY <1>2 DEF Waits
<1>7. AllSound(Append(os, c), events, post, claim) /\ Awaited(Append(os, c), None)
  BY <1>2, <1>4, <1>5, <1>6, SendCall
<1> QED BY <1>1, <1>7

LEMMA ReturnStep == ASSUME IInv, Return PROVE IInv'
<1>1. /\ Focus(calls)
      /\ UNCHANGED <<rows, loading, publishing, asking, stream, events, post, claim, stored, astray>>
  BY DEF Return, Press, server, written
<1>2. /\ AllSound(calls', events', post', claim') /\ Awaited(calls', manage')
      /\ manage' = None /\ screen' = "posts" /\ error' = FALSE /\ missed' = FALSE
  BY <1>1, Focused DEF IInv
<1>3. TypeOK'
  BY <1>1, <1>2 DEF IInv, TypeOK
<1> QED BY <1>1, <1>2, <1>3 DEF IInv

LEMMA LeaveStep == ASSUME IInv, Leave PROVE IInv'
<1>1. /\ screen = "posts" /\ screen' = "away"
      /\ UNCHANGED <<rows, loading, error, publishing, manage, asking, calls, stream, events,
                     post, claim, stored, astray, missed>>
  BY DEF Leave, dashboard, server, written, history
<1>2. TypeOK'
  BY <1>1 DEF IInv, TypeOK
<1> QED BY <1>1, <1>2 DEF IInv

LEMMA OpenManageStep == ASSUME IInv, NEW p \in Posts, OpenManage(p) PROVE IInv'
<1> DEFINE c == Call("manage", p, "none")
<1>1. /\ screen' = "manage" /\ manage' = Opened(p) /\ missed' = FALSE
      /\ calls' = Append(calls, c) /\ screen = "posts"
      /\ UNCHANGED <<rows, loading, error, publishing, asking, stream, events, post, claim, stored, astray>>
  BY DEF OpenManage, LoadOne, Press, ListOnScreen, dashboard, server, written
<1>2. c \in Requests /\ Sound(c, events, post, claim) /\ c.kind = "manage" /\ c.post = p
      /\ c.then = "show"
  BY FreshLoadOne
<1> HIDE DEF c
<1>3. manage = None
  BY <1>1 DEF IInv, TypeOK
<1>4. manage' \in Managed /\ manage' # None /\ manage'.post = p
  BY <1>1, OpenedScreen
<1>5. Awaited(calls, manage')
  BY <1>3 DEF IInv, Awaited
<1>6. AllSound(calls', events', post', claim') /\ Awaited(calls', manage') /\ Refreshing(calls')
  <2>1. Refreshes(c)
    BY <1>2 DEF Refreshes, Waits
  <2> QED BY <1>1, <1>2, <1>4, <1>5, <2>1, SendCall DEF IInv
<1>7. TypeOK'
  BY <1>1, <1>4 DEF IInv, TypeOK
<1> QED BY <1>1, <1>6, <1>7 DEF IInv

\* A request nobody waits for is sent, and nothing else changes.
LEMMA Unawaited ==
  ASSUME IInv, NEW c \in Requests, Sound(c, events, post, claim), ~Waits(c),
         calls' = Append(calls, c),
         UNCHANGED <<screen, rows, manage, stream, events, post, claim, stored, astray, missed>>,
         loading' \in BOOLEAN, error' \in BOOLEAN, publishing' \in Posts \cup {None},
         asking' \in Asked \cup {None}
  PROVE  IInv'
<1>1. AllSound(calls', events, post, claim) /\ Awaited(calls', manage)
      /\ (Refreshing(calls) => Refreshing(calls'))
  BY SendCall DEF IInv
<1>2. TypeOK'
  BY DEF IInv, TypeOK
<1> QED BY <1>1, <1>2 DEF IInv

LEMMA RetryStep == ASSUME IInv, Retry PROVE IInv'
<1> DEFINE c == Call("dash", None, "none")
<1>1. /\ calls' = Append(calls, c) /\ error' = FALSE
      /\ UNCHANGED <<screen, rows, loading, publishing, manage, asking, stream, events, post,
                     claim, stored, astray, missed>>
  BY DEF Retry, Press, Load, server, written
<1>2. c \in Requests /\ Sound(c, events, post, claim) /\ c.kind = "dash"
  BY FreshLoad
<1> HIDE DEF c
<1>3. ~Waits(c) /\ loading \in BOOLEAN /\ publishing \in Posts \cup {None}
      /\ asking \in Asked \cup {None}
  BY <1>2 DEF Waits, IInv, TypeOK
<1> QED BY <1>1, <1>2, <1>3, Unawaited

LEMMA PublishStep == ASSUME IInv, NEW p \in Posts, Publish(p) PROVE IInv'
<1> DEFINE c == Call("publish", p, "active")
<1>1. /\ calls' = Append(calls, c) /\ publishing' = p
      /\ UNCHANGED <<screen, rows, loading, error, manage, asking, stream, events, post,
                     claim, stored, astray, missed>>
  BY DEF Publish, Press, server, written
<1>2. c \in Requests /\ Sound(c, events, post, claim) /\ c.kind = "publish"
  BY Fresh DEF Status, Handoffs
<1> HIDE DEF c
<1>3. ~Waits(c) /\ loading \in BOOLEAN /\ error \in BOOLEAN /\ asking \in Asked \cup {None}
  BY <1>2 DEF Waits, IInv, TypeOK
<1> QED BY <1>1, <1>2, <1>3, Unawaited

\* Begin(): the request goes out, and the screen that waits for it is busy.
LEMMA BeginStep ==
  ASSUME IInv, NEW kind \in Acts, NEW p \in Posts, NEW arg \in Status \cup Claims,
         kind \in {"stock", "cancel"} => arg \in Status,
         kind \in Handoffs => arg \in {"picked_up", "no_show"},
         Begin(kind, p, arg),
         UNCHANGED <<screen, rows, loading, error, publishing, stream, events, post, claim, stored,
                     astray, missed>>,
         asking' \in Asked \cup {None}
  PROVE  IInv'
<1> DEFINE c == Call(kind, p, arg)
           d == [c EXCEPT !.then = "gone"]
<1>1. /\ c \in Requests /\ Sound(c, events, post, claim)
      /\ c.kind = kind /\ c.post = p /\ c.then = "show"
  <2>1. /\ kind # "dash" /\ kind \in {"dash", "manage", "publish"} \cup Acts
        /\ kind \in {"publish", "stock", "cancel"} => arg \in Status
    BY DEF Acts, Handoffs
  <2>2. p \in Posts \cup {None}
    OBVIOUS
  <2> QED BY <2>1, <2>2, Fresh
<1>2. loading \in BOOLEAN /\ error \in BOOLEAN /\ publishing \in Posts \cup {None}
  BY DEF IInv, TypeOK
<1>3. CASE manage # None /\ manage.post = p
  <2> DEFINE m == [manage EXCEPT !.busy = kind, !.error = FALSE]
  <2>1. manage' = m /\ calls' = Append(calls, c)
    BY <1>3 DEF Begin
  <2>2. manage \in Managed
    BY <1>3, ScreenIsOne DEF IInv
  <2>3. m \in Managed /\ m.post = manage.post /\ m.seen = manage.seen /\ m.claim = manage.claim
    <3>1. kind \in {"stock", "cancel", None} \cup Handoffs
      BY DEF Acts
    <3> QED BY <2>2, <3>1 DEF Managed
  <2> HIDE DEF m, c
  <2>4. manage' # None
    BY <2>1, <2>3, NullAssumption
  <2>5. Awaited(calls, manage')
    BY <1>3, <2>1, <2>3, <2>4 DEF IInv, Awaited
  <2>6. /\ AllSound(calls', events, post, claim) /\ Awaited(calls', manage')
        /\ Refreshing(calls) => Refreshing(calls')
    BY <1>1, <1>3, <2>1, <2>3, <2>4, <2>5, SendCall DEF IInv
  <2>7. Shows(manage, post, claim) => Shows(manage', post, claim)
    BY <2>1, <2>3 DEF Shows
  <2>8. TypeOK'
    BY <1>3, <2>1, <2>3, <2>4 DEF IInv, TypeOK
  <2> QED BY <1>3, <2>6, <2>7, <2>8 DEF IInv
<1>4. CASE ~(manage # None /\ manage.post = p)
  <2>1. calls' = Append(calls, d) /\ manage' = manage
    BY <1>4 DEF Begin
  <2> HIDE DEF c
  <2>2. d \in Requests /\ Sound(d, events, post, claim) /\ d.then = "gone"
    BY <1>1, Followed
  <2> HIDE DEF d
  <2>3. ~Waits(d)
    BY <2>2 DEF Waits
  <2> QED BY <1>2, <2>1, <2>2, <2>3, Unawaited
<1> QED BY <1>3, <1>4

LEMMA ToggleStockStep == ASSUME IInv, ToggleStock PROVE IInv'
<1> DEFINE arg == IF manage.seen.status = "active" THEN "claimed" ELSE "active"
<1>1. /\ manage # None /\ Begin("stock", manage.post, arg)
      /\ UNCHANGED <<screen, rows, loading, error, publishing, asking, stream, events, post, claim, stored,
                     astray, missed>>
  BY DEF ToggleStock, Press, Shown, dashboard, server, written, IInv, TypeOK
<1>2. arg \in Status /\ manage.post \in Posts /\ asking \in Asked \cup {None} /\ "stock" \in Acts
      /\ "stock" \notin Handoffs
  BY <1>1, ScreenIsOne DEF Status, Acts, Handoffs, IInv, TypeOK
<1> HIDE DEF arg
<1> QED BY <1>1, <1>2, BeginStep

LEMMA ConfirmPickupStep == ASSUME IInv, ConfirmPickup PROVE IInv'
<1>1. /\ manage # None /\ Begin("pickup", manage.post, "picked_up")
      /\ UNCHANGED <<screen, rows, loading, error, publishing, asking, stream, events, post, claim, stored,
                     astray, missed>>
  BY DEF ConfirmPickup, Press, Shown, dashboard, server, written, IInv, TypeOK
<1>2. "picked_up" \in Claims /\ manage.post \in Posts /\ asking \in Asked \cup {None}
      /\ "pickup" \in Acts
  BY <1>1, ScreenIsOne DEF Claims, Acts, Handoffs, IInv, TypeOK
<1> QED BY <1>1, <1>2, BeginStep

LEMMA AskStep == ASSUME IInv, NEW kind \in {"cancel", "noshow"}, Ask(kind) PROVE IInv'
<1>1. /\ manage # None /\ asking' = [kind |-> kind, post |-> manage.post]
      /\ UNCHANGED <<screen, rows, loading, error, publishing, manage, calls, stream, events, post,
                     claim, stored, astray, missed>>
  BY DEF Ask, Press, Shown, dashboard, server, written, IInv, TypeOK
<1>2. asking' \in Asked
  BY <1>1, ScreenIsOne DEF Asked, IInv
<1>3. TypeOK'
  BY <1>1, <1>2 DEF IInv, TypeOK
<1> QED BY <1>1, <1>3 DEF IInv

LEMMA SettleStep == ASSUME IInv, NEW accepted \in BOOLEAN, Settle(accepted) PROVE IInv'
<1>1. /\ asking # None /\ asking' = None
      /\ UNCHANGED <<screen, rows, loading, error, publishing, stream, events, post, claim, stored,
                     astray, missed>>
  BY DEF Settle, dashboard, server, written, history
<1>2. asking.kind \in {"cancel", "noshow"} /\ asking.post \in Posts
  BY <1>1 DEF IInv, TypeOK, Asked
<1>3. CASE accepted
  <2> DEFINE arg == IF asking.kind = "cancel" THEN "cancelled" ELSE "no_show"
  <2>1. Begin(asking.kind, asking.post, arg)
    BY <1>3 DEF Settle
  <2>2. /\ arg \in Status \cup Claims /\ asking.kind \in Acts
        /\ asking.kind \in {"stock", "cancel"} => arg \in Status
        /\ asking.kind \in Handoffs => arg \in {"picked_up", "no_show"}
    BY <1>2 DEF Status, Claims, Acts, Handoffs
  <2> HIDE DEF arg
  <2> QED BY <1>1, <1>2, <2>1, <2>2, BeginStep
<1>4. CASE ~accepted
  <2>1. UNCHANGED <<manage, calls>>
    BY <1>4 DEF Settle
  <2>2. TypeOK'
    BY <1>1, <2>1 DEF IInv, TypeOK
  <2> QED BY <1>1, <2>1, <2>2 DEF IInv
<1> QED BY <1>3, <1>4

-----------------------------------------------------------------------------
(***************************************************************************)
(* The API.                                                                *)
(***************************************************************************)

LEMMA StoredNow == ASSUME IInv PROVE Stored(post, claim)
BY DEF IInv, TypeOK, Stored

\* A change that is announced, or made by the request just answered: `cs' are
\* the requests before they age.
LEMMA Announced ==
  ASSUME IInv, NEW cs, AllSound(cs, events, post, claim), Awaited(cs, manage), NEW p \in Posts,
         Stored(post', claim'), \A q \in Posts : q # p => post'[q] = post[q],
         UNCHANGED <<screen, rows, loading, error, publishing, manage, asking, stream, stored>>,
         IF stream = "open"
         THEN /\ events' = Append(events, [post |-> p, row |-> post'[p], old |-> FALSE])
              /\ calls' = Aged(cs, {"manage"})
              /\ astray' = astray
         ELSE /\ calls' = Aged(cs, {"manage", "dash"})
              /\ astray' \in {astray, TRUE}
              /\ post' = post \/ astray' = TRUE
              /\ events' = events,
         missed' \in BOOLEAN, manage # None /\ ~missed' => Refreshing(cs)
  PROVE  IInv'
<1>1. cs \in Seq(Requests) /\ calls' \in {Aged(cs, {"manage"}), Aged(cs, {"manage", "dash"})}
  BY DEF AllSound
<1>2. Olden(cs, calls') /\ Same(cs, calls') /\ Passed(calls', {"manage"})
  BY <1>1, AgedCalls
<1>3. Awaited(calls', manage) /\ (Refreshing(cs) => Refreshing(calls'))
  BY <1>2, OldenCalls
<1>4. astray' \in BOOLEAN
  BY DEF IInv, TypeOK
<1>5. TypeOK'
  BY <1>4 DEF IInv, TypeOK, Stored
<1>6. CASE stream = "open"
  <2> DEFINE e == [post |-> p, row |-> post'[p], old |-> FALSE]
  <2>1. events' = Append(events, e) /\ astray' = astray
    BY <1>6
  <2>2. post' \in [Posts -> Rows] /\ events \in Seq(Tidings) /\ LastIsTrue(events, post)
    BY DEF Stored, IInv
  <2>3. /\ Append(events, e) \in Seq(Tidings) /\ LastIsTrue(Append(events, e), post')
        /\ \A rs : Right(rs, events, post) => Right(rs, Append(events, e), post')
    BY <2>2, EventTells
  <2> HIDE DEF e
  <2>4. AllSound(calls', events', post', claim')
    BY <1>2, <2>1, <2>3, WorldChanges
  <2>5. ~astray' => Right(rows', events', post')
    BY <2>1, <2>3 DEF IInv
  <2> QED BY <1>3, <1>5, <1>6, <2>1, <2>3, <2>4, <2>5 DEF IInv, Stored
<1>7. CASE stream # "open"
  <2>1. /\ calls' = Aged(cs, {"manage", "dash"}) /\ events' = events /\ events = <<>>
        /\ post' = post \/ astray' = TRUE
    BY <1>7 DEF IInv, TypeOK
  <2>2. Passed(calls', {"dash"})
    BY <1>1, <2>1, AgedCalls
  <2>3. AllSound(calls', events', post', claim')
    BY <1>2, <2>2, WorldChanges
  <2>4. LastIsTrue(events', post')
    BY <2>1 DEF LastIsTrue
  <2>5. ~astray' => Right(rows', events', post')
    BY <1>4, <1>7, <2>1 DEF IInv, TypeOK
  <2> QED BY <1>3, <1>5, <1>7, <2>1, <2>3, <2>4, <2>5 DEF IInv, Stored
<1> QED BY <1>6, <1>7

LEMMA RecipientActsStep == ASSUME IInv, NEW p \in Posts, RecipientActs(p) PROVE IInv'
<1>1. /\ Announce(p, calls)
      /\ UNCHANGED <<screen, rows, loading, error, publishing, manage, asking, stream>>
  BY DEF RecipientActs, dashboard
<1>0. stored' = stored
  BY DEF RecipientActs
<1>2. Stored(post, claim)
  BY StoredNow
<1>3. Stored(post', claim') /\ \A q \in Posts : q # p => post'[q] = post[q]
  <2>1. CASE Resolved(p, "cancelled")
    BY <1>2, <2>1, ResolvedRows
  <2>2. CASE ~Resolved(p, "cancelled")
    BY <1>2, <2>2, ReservedRows DEF RecipientActs
  <2> QED BY <2>1, <2>2
<1>4. AllSound(calls, events, post, claim) /\ Awaited(calls, manage) /\ missed \in BOOLEAN
  BY DEF IInv, TypeOK
<1>5. missed' \in BOOLEAN /\ ~(manage # None /\ ~missed')
  BY <1>1, <1>4 DEF Announce
<1>6. CASE stream = "open"
  BY <1>0, <1>1, <1>3, <1>4, <1>5, <1>6, Announced DEF Announce
<1>7. CASE stream # "open"
  BY <1>0, <1>1, <1>3, <1>4, <1>5, <1>7, Announced DEF Announce
<1> QED BY <1>6, <1>7

\* A change that nobody is told of.
LEMMA SilentChange ==
  ASSUME IInv, Silently(calls), Stored(post', claim'),
         stored' \in [Posts -> [row: Rows, claim: Claims]], Saved(stored'),
         UNCHANGED <<screen, rows, loading, error, publishing, manage, asking, stream>>
  PROVE  IInv'
<1> DEFINE t == [i \in DOMAIN events |-> [events[i] EXCEPT !.old = TRUE]]
<1>1. /\ calls' = Aged(calls, {"manage", "dash"}) /\ events' = t
      /\ missed' = (missed \/ manage # None) /\ astray' = TRUE
  BY DEF Silently
<1>2. /\ calls \in Seq(Requests) /\ events \in Seq(Tidings) /\ missed \in BOOLEAN
      /\ AllSound(calls, events, post, claim) /\ Awaited(calls, manage)
  BY DEF IInv, TypeOK, AllSound
<1>3. t \in Seq(Tidings) /\ DOMAIN t = DOMAIN events /\ \A i \in DOMAIN t : t[i].old = TRUE
  <2>1. ASSUME NEW i \in DOMAIN events
        PROVE  t[i] \in Tidings /\ t[i].old = TRUE
    <3>1. events[i] \in Tidings
      BY <1>2, ElementOfSeq, LenProperties
    <3> QED BY <3>1 DEF Tidings
  <2>2. t \in [DOMAIN events -> Tidings]
    BY <2>1
  <2> QED BY <1>2, <2>1, <2>2, Mapped
<1>4. stream = "opening" => events' = <<>>
  <2> SUFFICES ASSUME stream = "opening"
               PROVE  events' = <<>>
    OBVIOUS
  <2>1. events = <<>>
    BY DEF IInv
  <2> QED BY <1>1, <2>1 DEF t
<1> HIDE DEF t
<1>5. Olden(calls, calls') /\ Passed(calls', {"manage"}) /\ Passed(calls', {"dash"})
  BY <1>1, <1>2, AgedCalls
<1>6. AllSound(calls', events', post', claim') /\ Awaited(calls', manage)
  BY <1>2, <1>5, WorldChanges, OldenCalls
<1>7. LastIsTrue(events', post')
  BY <1>1, <1>3 DEF LastIsTrue
<1>8. TypeOK'
  BY <1>1, <1>2 DEF IInv, TypeOK, Stored
<1> QED BY <1>1, <1>2, <1>3, <1>4, <1>6, <1>7, <1>8 DEF IInv, Stored

\* What is written of a post, once committed, is a row with its claim.
LEMMA WrittenRow ==
  ASSUME NEW ps \in [Posts -> Rows], NEW cl \in [Posts -> Claims], Stock(ps, cl), NEW p \in Posts,
         stored \in [Posts -> [row: Rows, claim: Claims]], Saved(stored),
         NEW st, st = [stored EXCEPT ![p] = [row |-> ps[p], claim |-> cl[p]]]
  PROVE  st \in [Posts -> [row: Rows, claim: Claims]] /\ Saved(st)
<1> DEFINE w == [row |-> ps[p], claim |-> cl[p]]
<1>1. /\ w \in [row: Rows, claim: Claims]
      /\ w.row.left = Portions - (IF w.claim \in {"pending", "picked_up"} THEN 1 ELSE 0)
  BY DEF Stock, Out
<1>2. st = [stored EXCEPT ![p] = w]
  OBVIOUS
<1> HIDE DEF w
<1>3. st[p] = w /\ \A q \in Posts : q # p => st[q] = stored[q]
  BY <1>2
<1> QED BY <1>1, <1>2, <1>3 DEF Saved

LEMMA SweepStep == ASSUME IInv, NEW p \in Posts, Sweep(p) PROVE IInv'
<1>1. /\ Silently(calls)
      /\ stored' = [stored EXCEPT ![p] = [row |-> post'[p], claim |-> claim'[p]]]
      /\ UNCHANGED <<screen, rows, loading, error, publishing, manage, asking, stream>>
  BY DEF Sweep, Written, dashboard
<1>2. Stored(post, claim)
  BY StoredNow
<1>3. Stored(post', claim')
  <2>1. CASE Resolved(p, "no_show")
    BY <1>2, <2>1, ResolvedRows
  <2>2. CASE ~Resolved(p, "no_show")
    <3>1. PICK step \in {<<"scheduled", "active">>, <<"active", "expired">>, <<"claimed", "expired">>} :
            post' = [post EXCEPT ![p].status = step[2]] /\ claim' = claim
      BY <2>2 DEF Sweep
    <3>2. step[2] \in Status
      BY DEF Status
    <3> QED BY <1>2, <3>1, <3>2, StatusRows
  <2> QED BY <2>1, <2>2
<1>4. stored \in [Posts -> [row: Rows, claim: Claims]] /\ Saved(stored)
  BY DEF IInv, TypeOK
<1>5. stored' \in [Posts -> [row: Rows, claim: Claims]] /\ Saved(stored')
  BY <1>1, <1>3, <1>4, WrittenRow DEF Stored
<1> QED BY <1>1, <1>3, <1>5, SilentChange

\* A transaction that ends without its commit.
LEMMA RollbackStep == ASSUME IInv, NEW p \in Posts, Rollback(p) PROVE IInv'
<1>1. /\ Silently(calls)
      /\ post' = [post EXCEPT ![p] = stored[p].row] /\ claim' = [claim EXCEPT ![p] = stored[p].claim]
      /\ UNCHANGED <<screen, rows, loading, error, publishing, manage, asking, stream, stored>>
  BY DEF Rollback, dashboard
<1>2. /\ Stored(post, claim) /\ Saved(stored) /\ stored \in [Posts -> [row: Rows, claim: Claims]]
  BY StoredNow DEF IInv, TypeOK
<1>3. stored[p].row \in Rows /\ stored[p].claim \in Claims
  BY <1>2
<1>4. /\ post' \in [Posts -> Rows] /\ claim' \in [Posts -> Claims]
      /\ post'[p] = stored[p].row /\ claim'[p] = stored[p].claim
      /\ \A q \in Posts : q # p => post'[q] = post[q] /\ claim'[q] = claim[q]
  BY <1>1, <1>2, <1>3 DEF Stored
<1>5. Stock(post', claim')
  BY <1>2, <1>4 DEF Stored, Stock, Out, Saved
<1>6. Saved(stored') /\ stored' \in [Posts -> [row: Rows, claim: Claims]]
  BY <1>1, <1>2
<1> QED BY <1>1, <1>4, <1>5, <1>6, SilentChange DEF Stored

\* The commit changes nothing that anybody was told.
LEMMA CommitStep == ASSUME IInv, Commit PROVE IInv'
<1>1. PICK p \in Posts : stored' = [stored EXCEPT ![p] = [row |-> post[p], claim |-> claim[p]]]
  BY DEF Commit, Unsaved, Written
<1>2. UNCHANGED <<screen, rows, loading, error, publishing, manage, asking, calls, stream, events,
                  post, claim, astray, missed>>
  BY DEF Commit, dashboard, written, history
<1>3. /\ post \in [Posts -> Rows] /\ claim \in [Posts -> Claims] /\ Stock(post, claim)
      /\ stored \in [Posts -> [row: Rows, claim: Claims]] /\ Saved(stored)
  BY DEF IInv, TypeOK
<1>4. stored' \in [Posts -> [row: Rows, claim: Claims]] /\ Saved(stored')
  BY <1>1, <1>3, WrittenRow
<1>5. TypeOK'
  BY <1>2, <1>4 DEF IInv, TypeOK
<1> QED BY <1>2, <1>4, <1>5 DEF IInv

LEMMA ServeActStep ==
  ASSUME IInv, NEW i \in DOMAIN calls, calls[i].code = "pending", ServeAct(i),
         UNCHANGED <<screen, rows, loading, error, publishing, manage, asking, stream, stored>>
  PROVE  IInv'
<1> DEFINE c == calls[i]
           p == c.post
<1>1. c.kind \in {"publish", "stock", "cancel"} \cup Handoffs
  BY DEF ServeAct
<1>2. c \in Requests /\ Sound(c, events, post, claim) /\ AllSound(calls, events, post, claim)
      /\ Awaited(calls, manage) /\ missed \in BOOLEAN /\ c.kind \notin {"dash", "manage"}
  BY <1>1, OneOf DEF IInv, TypeOK, Handoffs
<1>3. p \in Posts
  BY <1>1, <1>2 DEF Sound, Handoffs
<1>4. CASE (c.kind \in Handoffs /\ claim[p] # "pending")
           \/ (c.kind \notin Handoffs /\ ~Allowed(post[p].status, c.arg))
  <2>1. calls' = Answer(i, "409") /\ UNCHANGED <<events, post, claim, astray, missed>>
    BY <1>4 DEF ServeAct, written
  <2>2. /\ AllSound(calls', events, post, claim) /\ Awaited(calls', manage)
        /\ Refreshing(calls) => Refreshing(calls')
    BY <1>2, <2>1, AnsweredCalls
  <2>3. TypeOK'
    BY <2>1 DEF IInv, TypeOK
  <2> QED BY <2>1, <2>2, <2>3 DEF IInv
<1>5. CASE ~((c.kind \in Handoffs /\ claim[p] # "pending")
             \/ (c.kind \notin Handoffs /\ ~Allowed(post[p].status, c.arg)))
  <2> DEFINE cs == Answer(i, "200")
             done == post' # post \/ claim' # claim
  <2>1. /\ IF c.kind \in Handoffs THEN Resolved(p, c.arg)
           ELSE post' = [post EXCEPT ![p].status = c.arg] /\ UNCHANGED claim
        /\ IF stream = "open"
           THEN /\ events' = Append(events, [post |-> p, row |-> post'[p], old |-> FALSE])
                /\ calls' = Aged(cs, {"manage"})
                /\ UNCHANGED astray
           ELSE /\ calls' = Aged(cs, {"manage", "dash"})
                /\ astray' = (astray \/ done) /\ UNCHANGED events
        /\ missed' = (missed \/ (manage # None /\ (c.then = "gone" \/ c.kind = "publish")))
    BY <1>5 DEF ServeAct
  <2>2. AllSound(cs, events, post, claim) /\ Awaited(cs, manage)
        /\ (Refreshing(calls) => Refreshing(cs))
        /\ (Waits(c) /\ c.kind \in Acts => Refreshing(cs))
    BY <1>2, AnsweredCalls
  <2>3. Stored(post', claim') /\ \A q \in Posts : q # p => post'[q] = post[q]
    <3>1. Stored(post, claim)
      BY StoredNow
    <3>2. CASE c.kind \in Handoffs
      <4>1. c.arg \in {"picked_up", "no_show", "cancelled"}
        BY <1>2, <3>2 DEF Sound
      <4> QED BY <1>3, <2>1, <3>1, <3>2, <4>1, ResolvedRows
    <3>3. CASE c.kind \notin Handoffs
      <4>1. c.arg \in Status
        BY <1>1, <1>2, <3>3 DEF Sound
      <4> QED BY <1>3, <2>1, <3>1, <3>3, <4>1, StatusRows
    <3> QED BY <3>2, <3>3
  <2>4. missed' \in BOOLEAN
    BY <1>2, <2>1
  <2>5. manage # None /\ ~missed' => Refreshing(cs)
    <3>1. manage # None /\ ~missed' => c.then # "gone" /\ c.kind # "publish"
      BY <2>1
    <3>2. c.then # "gone" /\ c.kind # "publish" => Waits(c) /\ c.kind \in Acts
      BY <1>1, <1>2 DEF Waits, Acts
    <3> QED BY <2>2, <3>1, <3>2
  <2> HIDE DEF cs
  <2>6. stream # "open" => astray' \in {astray, TRUE} /\ (post' = post \/ astray' = TRUE)
    <3>1. astray \in BOOLEAN
      BY DEF IInv, TypeOK
    <3> QED BY <2>1, <3>1
  <2> HIDE DEF done
  <2>7. CASE stream = "open"
    BY <1>3, <2>1, <2>2, <2>3, <2>4, <2>5, <2>7, Announced
  <2>8. CASE stream # "open"
    BY <1>3, <2>1, <2>2, <2>3, <2>4, <2>5, <2>6, <2>8, Announced
  <2> QED BY <2>7, <2>8
<1> QED BY <1>4, <1>5

LEMMA ServeLoadStep ==
  ASSUME IInv, NEW i \in DOMAIN calls, calls[i].code = "pending", ServeLoad(i),
         UNCHANGED <<screen, rows, loading, error, publishing, manage, asking, stream, stored>>
  PROVE  IInv'
<1> DEFINE c == calls[i]
           p == c.post
<1>1. UNCHANGED <<events, post, claim, astray, missed>>
  BY DEF ServeLoad, server, written
<1>2. c \in Requests /\ Sound(c, events, post, claim) /\ AllSound(calls, events, post, claim)
      /\ Awaited(calls, manage) /\ post \in [Posts -> Rows] /\ claim \in [Posts -> Claims]
      /\ stored \in [Posts -> [row: Rows, claim: Claims]]
  BY OneOf DEF IInv, TypeOK
<1>3. PICK d \in Requests :
        /\ Sound(d, events, post, claim) /\ calls' = [calls EXCEPT ![i] = d]
        /\ d.kind = c.kind /\ d.post = c.post /\ d.then = c.then /\ c.kind \in {"dash", "manage"}
  <2>1. CASE /\ c.kind = "dash"
             /\ calls' = [calls EXCEPT ![i].one = [q \in Posts |-> stored[q].row],
                                       ![i].code = "200", ![i].old = @ \/ Early]
    <3> DEFINE rs == [q \in Posts |-> stored[q].row]
               o == c.old \/ Early
               d == [c EXCEPT !.one = rs, !.code = "200", !.old = o]
    <3>1. rs \in [Posts -> Rows] /\ \A q \in Posts : rs[q] = stored[q].row
      BY <1>2
    <3>2. o \in BOOLEAN /\ (~o => Right(rs, events, post))
      <4>1. ~Early => \A q \in Posts : rs[q] = post[q] \/ Coming(events, q)
        BY <3>1 DEF Early, Coming
      <4>2. \A q \in Posts : rs[q] # None
        BY <3>1, NullAssumption
      <4>3. c.old \in BOOLEAN
        BY <1>2 DEF Requests
      <4> QED BY <4>1, <4>2, <4>3 DEF Right, Early
    <3>3. calls' = [calls EXCEPT ![i] = d]
      BY <2>1
    <3> HIDE DEF rs, o
    <3>4. d \in Requests
      BY <1>2, <3>1, <3>2 DEF Requests
    <3>5. /\ d.kind = c.kind /\ d.post = c.post /\ d.then = c.then /\ d.arg = c.arg
          /\ d.one = rs /\ d.code = "200" /\ d.old = o
      BY <1>2 DEF Requests
    <3> HIDE DEF d
    <3>6. rs # None
      BY <3>1, NullAssumption
    <3>7. Sound(d, events, post, claim)
      BY <1>2, <2>1, <3>1, <3>2, <3>5, <3>6 DEF Sound, Handoffs
    <3> QED BY <2>1, <3>3, <3>4, <3>5, <3>7
  <2>2. CASE /\ c.kind = "manage" /\ c.one = None
             /\ calls' = [calls EXCEPT ![i].one = stored[p].row,
                                       ![i].code = IF c.two = None THEN @ ELSE "200",
                                       ![i].old = @ \/ stored[p].row # post[p]]
    <3> DEFINE k == IF c.two = None THEN c.code ELSE "200"
               r == stored[p].row
               o == c.old \/ r # post[p]
               d == [c EXCEPT !.one = r, !.code = k, !.old = o]
    <3>0. stored[p] \in [row: Rows, claim: Claims]
      BY <1>2, <2>2 DEF Sound
    <3>1. k \in {"pending", "200"} /\ (k = "200" => c.two # None) /\ r \in Rows /\ r # None
      BY <1>2, <2>2, <3>0, NullAssumption DEF Sound
    <3>2. calls' = [calls EXCEPT ![i] = d]
      BY <2>2
    <3>3. o \in BOOLEAN /\ (c.old => o) /\ (~o => r = post[p])
      BY <1>2 DEF Requests
    <3> HIDE DEF k, r, o
    <3>4. d \in Requests
      BY <1>2, <3>1, <3>3 DEF Requests
    <3>5. /\ d.kind = c.kind /\ d.post = c.post /\ d.then = c.then /\ d.arg = c.arg
          /\ d.one = r /\ d.two = c.two /\ d.code = k /\ d.old = o
      BY <1>2 DEF Requests
    <3> HIDE DEF d
    <3>6. Sound(d, events, post, claim)
      BY <1>2, <2>2, <3>1, <3>3, <3>5 DEF Sound, Handoffs
    <3> QED BY <2>2, <3>2, <3>4, <3>5, <3>6
  <2>3. CASE /\ c.kind = "manage" /\ c.two = None
             /\ calls' = [calls EXCEPT ![i].two = stored[p].claim,
                                       ![i].code = IF c.one = None THEN @ ELSE "200",
                                       ![i].old = @ \/ stored[p].claim # claim[p]]
    <3> DEFINE k == IF c.one = None THEN c.code ELSE "200"
               r == stored[p].claim
               o == c.old \/ r # claim[p]
               d == [c EXCEPT !.two = r, !.code = k, !.old = o]
    <3>0. stored[p] \in [row: Rows, claim: Claims]
      BY <1>2, <2>3 DEF Sound
    <3>1. k \in {"pending", "200"} /\ (k = "200" => c.one # None) /\ r \in Claims /\ r # None
      BY <1>2, <2>3, <3>0, NullAssumption DEF Sound
    <3>2. calls' = [calls EXCEPT ![i] = d]
      BY <2>3
    <3>3. o \in BOOLEAN /\ (c.old => o) /\ (~o => r = claim[p])
      BY <1>2 DEF Requests
    <3> HIDE DEF k, r, o
    <3>4. d \in Requests
      BY <1>2, <3>1, <3>3 DEF Requests
    <3>5. /\ d.kind = c.kind /\ d.post = c.post /\ d.then = c.then /\ d.arg = c.arg
          /\ d.one = c.one /\ d.two = r /\ d.code = k /\ d.old = o
      BY <1>2 DEF Requests
    <3> HIDE DEF d
    <3>6. Sound(d, events, post, claim)
      BY <1>2, <2>3, <3>1, <3>3, <3>5 DEF Sound, Handoffs
    <3> QED BY <2>3, <3>2, <3>4, <3>5, <3>6
  <2> QED BY <2>1, <2>2, <2>3 DEF ServeLoad
<1>4. /\ calls' \in Seq(Requests) /\ DOMAIN calls' = DOMAIN calls
      /\ calls'[i] = d /\ \A j \in DOMAIN calls : j # i => calls'[j] = calls[j]
  <2>1. calls \in Seq(Requests)
    BY <1>2 DEF AllSound
  <2>2. calls' \in [DOMAIN calls -> Requests]
    BY <1>3, <2>1, ElementOfSeq, LenProperties
  <2> QED BY <1>3, <2>1, <2>2, Mapped
<1>5. AllSound(calls', events, post, claim)
  BY <1>2, <1>3, <1>4 DEF AllSound
<1>6. Awaited(calls', manage)
  BY <1>2, <1>3, <1>4 DEF Awaited, Waits
<1>7. Refreshing(calls) => Refreshing(calls')
  <2>1. Refreshes(c) => Refreshes(d)
    BY <1>3 DEF Refreshes, Waits, Acts, Handoffs
  <2> QED BY <1>4, <2>1 DEF Refreshing
<1>8. TypeOK'
  BY <1>1 DEF IInv, TypeOK
<1> QED BY <1>1, <1>5, <1>6, <1>7, <1>8 DEF IInv

LEMMA ServeStep == ASSUME IInv, Serve PROVE IInv'
<1>1. PICK i \in DOMAIN calls :
        /\ calls[i].code = "pending" /\ (ServeAct(i) \/ ServeLoad(i))
        /\ UNCHANGED <<screen, rows, loading, error, publishing, manage, asking, stream, stored>>
  BY DEF Serve, dashboard
<1> QED BY <1>1, ServeActStep, ServeLoadStep

LEMMA LoseStep == ASSUME IInv, Lose PROVE IInv'
<1>1. PICK i \in DOMAIN calls : calls' = Answer(i, "lost")
  BY DEF Lose
<1>2. UNCHANGED <<screen, rows, loading, error, publishing, manage, asking, stream, events,
                  post, claim, stored, astray, missed>>
  BY DEF Lose, dashboard, server, written
<1>3. /\ AllSound(calls', events, post, claim) /\ Awaited(calls', manage)
      /\ Refreshing(calls) => Refreshing(calls')
  BY <1>1, AnsweredCalls DEF IInv
<1>4. TypeOK'
  BY <1>2 DEF IInv, TypeOK
<1> QED BY <1>2, <1>3, <1>4 DEF IInv

-----------------------------------------------------------------------------
(***************************************************************************)
(* Answers and events.                                                     *)
(***************************************************************************)

\* The requests left when answer `i' overtakes the earlier ones.
LEMMA Overtaken ==
  ASSUME IInv, NEW i \in DOMAIN calls, calls' = Overtaking(i)
  PROVE  AllSound(calls', events, post, claim) /\ Awaited(calls', manage)
         /\ (Refreshing(calls) /\ ~Refreshes(calls[i]) => Refreshing(calls'))
<1>1. AllSound(calls, events, post, claim) /\ Awaited(calls, manage) /\ calls \in Seq(Requests)
  BY DEF IInv, AllSound
<1>2. PICK ds : Olden(calls, ds) /\ Same(calls, ds) /\ Overtaking(i) = RemoveAt(ds, i)
  BY <1>1, OvertakingCalls
<1>3. AllSound(ds, events, post, claim) /\ Awaited(ds, manage) /\ i \in DOMAIN ds
      /\ (Refreshing(calls) => Refreshing(ds))
  BY <1>1, <1>2, OldenCalls DEF Olden
<1>4. ~Refreshes(calls[i]) => ~Refreshes(ds[i])
  BY <1>2 DEF Olden, Same, Aging, Refreshes, Waits
<1> QED BY <1>2, <1>3, <1>4, DropCall

LEMMA DashAnsweredStep ==
  ASSUME IInv, NEW i \in DOMAIN calls, DashAnswered(i),
         UNCHANGED <<asking, stream, events, post, claim, stored>>
  PROVE  IInv'
<1> DEFINE c == calls[i]
<1>1. /\ c.kind = "dash" /\ calls' = Overtaking(i) /\ loading' = FALSE
      /\ publishing' = IF c.then = "publish" THEN None ELSE publishing
      /\ IF c.code = "200" THEN rows' = c.one /\ astray' = c.old /\ error' = error
         ELSE error' = TRUE /\ astray' = TRUE /\ rows' = rows
      /\ UNCHANGED <<screen, manage, missed>>
  BY DEF DashAnswered, Got
<1>2. c \in Requests /\ Sound(c, events, post, claim)
  BY OneOf DEF IInv
<1>3. ~Refreshes(c)
  BY <1>1 DEF Refreshes, Waits
<1>4. AllSound(calls', events, post, claim) /\ Awaited(calls', manage)
      /\ (Refreshing(calls) => Refreshing(calls'))
  BY <1>1, <1>3, Overtaken
<1>5. rows' \in [Posts -> Rows \cup {None}]
  BY <1>1, <1>2 DEF Sound, IInv, TypeOK
<1>6. ~astray' => Right(rows', events, post)
  BY <1>1, <1>2 DEF Sound
<1>7. astray' \in BOOLEAN /\ error' \in BOOLEAN /\ publishing' \in Posts \cup {None}
  BY <1>1, <1>2 DEF Requests, IInv, TypeOK
<1>8. TypeOK'
  BY <1>1, <1>5, <1>7 DEF IInv, TypeOK
<1> QED BY <1>1, <1>4, <1>6, <1>8 DEF IInv

LEMMA PublishAnsweredStep ==
  ASSUME IInv, NEW i \in DOMAIN calls, PublishAnswered(i),
         UNCHANGED <<asking, stream, events, post, claim, stored>>
  PROVE  IInv'
<1> DEFINE c == calls[i]
           rest == RemoveAt(calls, i)
           d == Call("dash", None, "none")
           e == [d EXCEPT !.then = "publish"]
<1>1. /\ c.kind = "publish"
      /\ UNCHANGED <<screen, rows, loading, manage, missed>>
      /\ astray' = (astray \/ c.code = "lost")
  BY DEF PublishAnswered, Got
<1>2. ~Refreshes(c) /\ AllSound(calls, events, post, claim) /\ Awaited(calls, manage)
      /\ calls \in Seq(Requests)
  BY <1>1 DEF Refreshes, Waits, IInv, AllSound
<1>3. AllSound(rest, events, post, claim) /\ Awaited(rest, manage)
      /\ (Refreshing(calls) => Refreshing(rest))
  BY <1>2, DropCall
<1>4. d \in Requests /\ Sound(d, events, post, claim) /\ d.kind = "dash"
  BY FreshLoad
<1>5. AllSound(calls', events, post, claim) /\ Awaited(calls', manage)
      /\ (Refreshing(calls) => Refreshing(calls'))
  <2>1. CASE c.code = "200"
    <3>1. calls' = [Append(rest, d) EXCEPT ![Len(calls)].then = "publish"]
      BY <2>1 DEF PublishAnswered, Got, Rest, Load
    <3>2. rest \in Seq(Requests) /\ Len(calls) = Len(rest) + 1
      <4>1. DOMAIN rest = 1 .. (Len(calls) - 1) /\ rest \in Seq(Requests)
        BY <1>2, RemovedAt, LenProperties
      <4> QED BY <1>2, <4>1, LenProperties
    <3> HIDE DEF d, rest
    <3>3. calls' = Append(rest, e)
      <4>1. d \in Requests /\ rest \in Seq(Requests) /\ Len(calls) = Len(rest) + 1
            /\ "publish" \in {"show", "free", "publish", "gone"}
        BY <1>4, <3>2
      <4>2. PlaceThen(Append(rest, d), Len(rest) + 1, "publish") = Append(rest, Then(d, "publish"))
        BY <4>1, LastChanged
      <4> QED BY <3>1, <4>1, <4>2 DEF PlaceThen, Then
    <3>4. e \in Requests /\ Sound(e, events, post, claim) /\ e.kind = "dash"
      BY <1>4, Followed
    <3> HIDE DEF e
    <3>5. ~Waits(e)
      BY <3>4 DEF Waits
    <3> QED BY <1>3, <3>3, <3>4, <3>5, SendCall
  <2>2. CASE c.code # "200"
    BY <1>3, <2>2 DEF PublishAnswered, Got, Rest
  <2> QED BY <2>1, <2>2
<1>6. TypeOK'
  <2>1. astray' \in BOOLEAN /\ error' \in BOOLEAN /\ publishing' \in Posts \cup {None}
    BY <1>1 DEF PublishAnswered, IInv, TypeOK
  <2> QED BY <1>1, <2>1 DEF IInv, TypeOK
<1>7. ~astray' => ~astray
  BY <1>1
<1> QED BY <1>1, <1>5, <1>6, <1>7 DEF IInv

LEMMA ManageAnsweredStep ==
  ASSUME IInv, NEW i \in DOMAIN calls, ManageAnswered(i),
         UNCHANGED <<asking, stream, events, post, claim, stored>>
  PROVE  IInv'
<1> DEFINE c == calls[i]
<1>1. /\ c.kind = "manage" /\ calls' = Overtaking(i)
      /\ UNCHANGED <<screen, rows, loading, error, publishing, astray>>
  BY DEF ManageAnswered, dashboard
<1>2. c \in Requests /\ Sound(c, events, post, claim)
  BY OneOf DEF IInv
<1>3. AllSound(calls', events, post, claim) /\ Awaited(calls', manage)
      /\ (Refreshing(calls) /\ ~Refreshes(c) => Refreshing(calls'))
  BY <1>1, Overtaken
<1>4. CASE c.then = "gone"
  <2>1. UNCHANGED <<manage, missed>> /\ ~Refreshes(c)
    BY <1>4 DEF ManageAnswered, Refreshes, Waits
  <2>2. TypeOK'
    BY <1>1, <2>1 DEF IInv, TypeOK
  <2> QED BY <1>1, <1>3, <2>1, <2>2 DEF IInv
<1>5. CASE c.then # "gone"
  <2> DEFINE b == IF c.then = "free" THEN None ELSE manage.busy
             f == manage.error \/ ~(c.code = "200")
             s == IF c.code = "200" THEN c.one ELSE manage.seen
             l == IF c.code = "200" THEN c.two ELSE manage.claim
             m == [manage EXCEPT !.loading = FALSE, !.busy = b, !.error = f, !.seen = s, !.claim = l]
  <2>1. manage' = m /\ missed' = (c.old \/ c.code # "200")
    BY <1>5 DEF ManageAnswered, Got
  <2>2. manage # None /\ manage.post = c.post /\ manage \in Managed
    BY <1>1, <1>5, ScreenIsOne DEF IInv, Awaited, Waits
  <2>3. /\ b \in {"stock", "cancel", None} \cup Handoffs /\ f \in BOOLEAN
        /\ s \in Rows \cup {None} /\ l \in Claims
    BY <1>1, <1>2, <2>2 DEF Managed, Sound, Requests
  <2>4. c.code = "200" => s = c.one /\ l = c.two
    OBVIOUS
  <2> HIDE DEF b, f, s, l
  <2>5. m \in Managed
    BY <2>2, <2>3 DEF Managed
  <2>6. m.post = manage.post /\ m.seen = s /\ m.claim = l
    BY <2>2 DEF Managed
  <2> HIDE DEF m
  <2>7. manage' \in Managed /\ manage' # None /\ manage'.post = manage.post
    BY <2>1, <2>5, <2>6, NullAssumption
  <2>8. Awaited(calls', manage')
    BY <1>3, <2>2, <2>7 DEF Awaited
  <2>9. ~missed' => Shows(manage', post, claim)
    BY <1>1, <1>2, <2>1, <2>2, <2>4, <2>6 DEF Sound, Shows
  <2>10. missed' \in BOOLEAN
    BY <1>2, <2>1 DEF Requests
  <2>11. TypeOK'
    BY <1>1, <2>2, <2>7, <2>10 DEF IInv, TypeOK
  <2> QED BY <1>1, <1>3, <2>8, <2>9, <2>11 DEF IInv
<1> QED BY <1>4, <1>5

LEMMA ActAnsweredStep ==
  ASSUME IInv, NEW i \in DOMAIN calls, calls[i].code # "pending", ActAnswered(i),
         UNCHANGED <<asking, stream, events, post, claim, stored>>
  PROVE  IInv'
<1> DEFINE c == calls[i]
           rest == RemoveAt(calls, i)
           d == Call("manage", c.post, "none")
           e == [d EXCEPT !.then = "free"]
<1>1. /\ c.kind \in {"stock"} \cup Handoffs
      /\ UNCHANGED <<screen, rows, loading, error, publishing, astray>>
  BY DEF ActAnswered, dashboard
<1>2. /\ c \in Requests /\ Sound(c, events, post, claim) /\ c.post \in Posts /\ calls \in Seq(Requests)
      /\ AllSound(calls, events, post, claim) /\ Awaited(calls, manage)
  <2>1. c \in Requests /\ Sound(c, events, post, claim)
    BY OneOf DEF IInv
  <2> QED BY <1>1, <2>1 DEF IInv, AllSound, Sound, Handoffs
<1>3. AllSound(rest, events, post, claim) /\ Awaited(rest, manage)
      /\ (Refreshing(calls) /\ ~Refreshes(c) => Refreshing(rest))
  BY <1>2, DropCall
<1>4. CASE c.then = "gone"
  <2>1. calls' = rest /\ UNCHANGED <<manage, missed>> /\ ~Refreshes(c)
    BY <1>4 DEF ActAnswered, Refreshes, Waits, Rest
  <2>2. TypeOK'
    BY <1>1, <2>1 DEF IInv, TypeOK
  <2> QED BY <1>1, <1>3, <2>1, <2>2 DEF IInv
<1>5. CASE c.then # "gone" /\ c.code = "200"
  <2>1. calls' = [Append(rest, d) EXCEPT ![Len(calls)].then = "free"] /\ UNCHANGED <<manage, missed>>
    BY <1>5 DEF ActAnswered, Got, Rest, LoadOne
  <2>2. rest \in Seq(Requests) /\ Len(calls) = Len(rest) + 1
    <3>1. DOMAIN rest = 1 .. (Len(calls) - 1) /\ rest \in Seq(Requests)
      BY <1>2, RemovedAt, LenProperties
    <3> QED BY <1>2, <3>1, LenProperties
  <2> d = Call("manage", c.post, "none")
    OBVIOUS
  <2> HIDE DEF d, rest
  <2>3. d \in Requests /\ Sound(d, events, post, claim) /\ d.kind = "manage" /\ d.post = c.post
    BY <1>2, FreshLoadOne
  <2>4. calls' = Append(rest, e)
    <3>1. d \in Requests /\ rest \in Seq(Requests) /\ Len(calls) = Len(rest) + 1
          /\ "free" \in {"show", "free", "publish", "gone"}
      BY <2>2, <2>3
    <3>2. PlaceThen(Append(rest, d), Len(rest) + 1, "free") = Append(rest, Then(d, "free"))
      BY <3>1, LastChanged
    <3> QED BY <2>1, <3>1, <3>2 DEF PlaceThen, Then
  <2>5. e \in Requests /\ Sound(e, events, post, claim) /\ e.kind = "manage" /\ e.post = c.post
        /\ e.then = "free"
    BY <2>3, Followed
  <2> HIDE DEF e
  <2>6. Refreshes(e)
    BY <2>5 DEF Refreshes, Waits
  <2>7. manage # None /\ manage.post = c.post
    BY <1>1, <1>2, <1>5 DEF Awaited, Waits, Handoffs
  <2>8. AllSound(calls', events, post, claim) /\ Awaited(calls', manage) /\ Refreshing(calls')
    BY <1>3, <2>4, <2>5, <2>6, <2>7, SendCall
  <2>9. TypeOK'
    BY <1>1, <2>1 DEF IInv, TypeOK
  <2> QED BY <1>1, <2>1, <2>8, <2>9 DEF IInv
<1>6. CASE c.then # "gone" /\ c.code # "200"
  <2> DEFINE m == [manage EXCEPT !.busy = None, !.error = TRUE]
  <2>1. calls' = rest /\ manage' = m /\ missed' = (missed \/ c.code = "lost")
    BY <1>6 DEF ActAnswered, Got, Rest
  <2>2. manage # None /\ manage \in Managed
    BY <1>1, <1>2, <1>6, ScreenIsOne DEF IInv, Awaited, Waits, Handoffs
  <2>3. m \in Managed /\ m.post = manage.post /\ m.seen = manage.seen /\ m.claim = manage.claim
    BY <2>2 DEF Managed
  <2> HIDE DEF m, rest
  <2>4. manage' # None
    BY <2>1, <2>3, NullAssumption
  <2>5. Awaited(calls', manage')
    BY <1>3, <2>1, <2>2, <2>3, <2>4 DEF Awaited
  <2>6. ~missed' => Shows(manage', post, claim) \/ Refreshing(calls')
    <3>1. ~missed' => ~missed /\ ~Refreshes(c)
      BY <1>1, <1>6, <2>1 DEF Refreshes, Handoffs
    <3>2. Shows(manage, post, claim) => Shows(manage', post, claim)
      BY <2>1, <2>3 DEF Shows
    <3> QED BY <1>3, <2>1, <2>2, <3>1, <3>2 DEF IInv
  <2>7. TypeOK'
    <3>1. missed' \in BOOLEAN
      BY <2>1 DEF IInv, TypeOK
    <3> QED BY <1>1, <2>1, <2>2, <2>3, <2>4, <3>1 DEF IInv, TypeOK
  <2> QED BY <1>1, <1>3, <2>1, <2>5, <2>6, <2>7 DEF IInv
<1> QED BY <1>4, <1>5, <1>6

LEMMA EndAnsweredStep ==
  ASSUME IInv, NEW i \in DOMAIN calls, calls[i].code # "pending", EndAnswered(i),
         UNCHANGED <<asking, stream, events, post, claim, stored>>
  PROVE  IInv'
<1> DEFINE c == calls[i]
           rest == RemoveAt(calls, i)
<1>1. /\ c.kind = "cancel"
      /\ UNCHANGED <<rows, loading, publishing, astray>>
  BY DEF EndAnswered
<1>2. /\ c \in Requests /\ AllSound(calls, events, post, claim) /\ Awaited(calls, manage)
  BY OneOf DEF IInv
<1>3. AllSound(rest, events, post, claim) /\ Awaited(rest, manage)
      /\ (Refreshing(calls) /\ ~Refreshes(c) => Refreshing(rest))
  BY <1>2, DropCall
<1>4. CASE c.code = "200" /\ screen = "posts"
  <2>1. calls' = rest /\ UNCHANGED <<screen, manage, missed, error>>
    BY <1>4 DEF EndAnswered, Got, Rest
  <2>2. manage = None
    BY <1>4 DEF IInv, TypeOK
  <2>3. TypeOK'
    BY <1>1, <2>1 DEF IInv, TypeOK
  <2> QED BY <1>1, <1>3, <2>1, <2>2, <2>3 DEF IInv
<1>5. CASE c.code = "200" /\ screen # "posts"
  <2>1. Focus(rest)
    BY <1>5 DEF EndAnswered, Got, Rest
  <2>2. /\ AllSound(calls', events', post', claim') /\ Awaited(calls', manage')
        /\ manage' = None /\ screen' = "posts" /\ error' = FALSE /\ missed' = FALSE
    BY <1>1, <1>3, <2>1, Focused
  <2>3. TypeOK'
    BY <1>1, <2>2 DEF IInv, TypeOK
  <2> QED BY <1>1, <2>2, <2>3 DEF IInv
<1>6. CASE c.code # "200"
  <2> DEFINE m == [manage EXCEPT !.busy = None, !.error = TRUE]
  <2>1. /\ calls' = rest /\ missed' = (missed \/ c.code = "lost") /\ UNCHANGED <<screen, error>>
        /\ manage' = IF c.then = "gone" THEN manage ELSE m
    BY <1>6 DEF EndAnswered, Got, Rest
  <2>2. c.then # "gone" => manage # None /\ manage \in Managed
    BY <1>1, <1>2, ScreenIsOne DEF IInv, Awaited, Waits
  <2>3. c.then # "gone" => m \in Managed /\ m.post = manage.post /\ m.seen = manage.seen
                           /\ m.claim = manage.claim
    BY <2>2 DEF Managed
  <2> HIDE DEF m, rest
  <2>4. /\ manage' = manage \/ (manage' \in Managed /\ manage' # None /\ manage # None)
        /\ (manage' = None) = (manage = None)
        /\ manage # None => manage'.post = manage.post /\ manage'.seen = manage.seen
                            /\ manage'.claim = manage.claim
    <3>1. CASE c.then = "gone"
      BY <2>1, <3>1
    <3>2. CASE c.then # "gone"
      BY <2>1, <2>2, <2>3, <3>2, NullAssumption
    <3> QED BY <3>1, <3>2
  <2>5. Awaited(calls', manage')
    BY <1>3, <2>1, <2>4 DEF Awaited
  <2>6. manage' # None /\ ~missed' => Shows(manage', post, claim) \/ Refreshing(calls')
    <3>1. ~missed' => ~missed /\ ~Refreshes(c)
      BY <1>1, <1>6, <2>1 DEF Refreshes
    <3>2. manage # None /\ Shows(manage, post, claim) => Shows(manage', post, claim)
      BY <2>4 DEF Shows
    <3> QED BY <1>3, <2>1, <2>4, <3>1, <3>2 DEF IInv
  <2>7. TypeOK'
    <3>1. missed' \in BOOLEAN
      BY <2>1 DEF IInv, TypeOK
    <3> QED BY <1>1, <2>1, <2>4, <3>1 DEF IInv, TypeOK
  <2> QED BY <1>1, <1>3, <2>1, <2>5, <2>6, <2>7 DEF IInv
<1> QED BY <1>4, <1>5, <1>6

LEMMA ReceiveStep == ASSUME IInv, Receive PROVE IInv'
<1>1. PICK i \in DOMAIN calls :
        /\ calls[i].code # "pending"
        /\ DashAnswered(i) \/ PublishAnswered(i) \/ ManageAnswered(i) \/ ActAnswered(i) \/ EndAnswered(i)
        /\ UNCHANGED <<asking, stream, events, post, claim, stored>>
  BY DEF Receive, server, written
<1> QED BY <1>1, DashAnsweredStep, PublishAnsweredStep, ManageAnsweredStep, ActAnsweredStep,
           EndAnsweredStep

LEMMA SubscribedStep == ASSUME IInv, Subscribed PROVE IInv'
<1>1. /\ stream' = "open"
      /\ UNCHANGED <<screen, rows, loading, error, publishing, manage, asking, calls, events, post,
                     claim, stored, astray, missed>>
  BY DEF Subscribed, dashboard, server, written, history
<1>2. TypeOK'
  BY <1>1 DEF IInv, TypeOK
<1> QED BY <1>1, <1>2 DEF IInv

LEMMA DeliverStep == ASSUME IInv, Deliver PROVE IInv'
<1> DEFINE e == Head(events)
           evs == Tail(events)
<1>1. /\ stream = "open" /\ events # <<>> /\ events' = evs
      /\ rows' = IF rows[e.post] = None THEN rows ELSE [rows EXCEPT ![e.post] = e.row]
      /\ calls' = Aged(calls, {"dash"}) /\ astray' = (astray \/ e.old)
      /\ UNCHANGED <<screen, loading, error, publishing, manage, asking, stream, post, claim, stored, missed>>
  BY DEF Deliver, Patched, server, written
<1>2. /\ events \in Seq(Tidings) /\ LastIsTrue(events, post) /\ calls \in Seq(Requests)
      /\ AllSound(calls, events, post, claim) /\ Awaited(calls, manage)
      /\ rows \in [Posts -> Rows \cup {None}] /\ post \in [Posts -> Rows]
      /\ astray \in BOOLEAN
  BY DEF IInv, TypeOK, AllSound
<1>3. /\ evs \in Seq(Tidings) /\ e \in Tidings /\ e = events[1] /\ 1 \in DOMAIN events
      /\ \A k \in DOMAIN evs : k + 1 \in DOMAIN events /\ evs[k] = events[k + 1]
      /\ \A k \in DOMAIN events : k # 1 => k - 1 \in DOMAIN evs /\ events[k] = evs[k - 1]
  <2>1. /\ Len(events) \in Nat /\ Len(events) # 0 /\ DOMAIN events = 1 .. Len(events)
        /\ evs \in Seq(Tidings) /\ Len(evs) = Len(events) - 1 /\ e \in Tidings
        /\ \A k \in 1 .. Len(evs) : evs[k] = events[k + 1]
    BY <1>1, <1>2, HeadTailProperties, EmptySeq, LenProperties
  <2>2. DOMAIN evs = 1 .. Len(evs) /\ e = events[1]
    BY <1>1, <1>2, <2>1, LenProperties
  <2> HIDE DEF evs
  <2> QED BY <2>1, <2>2
<1> HIDE DEF e, evs
<1>4. e.post \in Posts /\ e.row \in Rows /\ e.old \in BOOLEAN
  BY <1>3 DEF Tidings
<1>5. LastIsTrue(evs, post)
  <2> SUFFICES ASSUME NEW k \in DOMAIN evs, ~evs[k].old,
                      \A l \in DOMAIN evs : l > k => evs[l].post # evs[k].post
               PROVE  evs[k].row = post[evs[k].post]
    BY DEF LastIsTrue
  <2>1. k \in Nat /\ DOMAIN events \subseteq Nat
    BY <1>2, <1>3, LenProperties
  <2>2. \A l \in DOMAIN events : l > k + 1 => events[l].post # events[k + 1].post
    <3> SUFFICES ASSUME NEW l \in DOMAIN events, l > k + 1
                 PROVE  events[l].post # events[k + 1].post
      OBVIOUS
    <3>1. l # 1 /\ l - 1 > k
      BY <2>1
    <3> QED BY <1>3, <3>1
  <2>3. k + 1 \in DOMAIN events /\ evs[k] = events[k + 1]
    BY <1>3
  <2>4. ~events[k + 1].old => events[k + 1].row = post[events[k + 1].post]
    BY <1>2, <2>2, <2>3 DEF LastIsTrue
  <2> QED BY <2>3, <2>4
<1>6. \A p \in Posts : p # e.post /\ Coming(events, p) => Coming(evs, p)
  BY <1>3 DEF Coming
<1>7. ~Coming(evs, e.post) /\ ~e.old => e.row = post[e.post]
  <2> SUFFICES ASSUME ~Coming(evs, e.post), ~e.old
               PROVE  e.row = post[e.post]
    OBVIOUS
  <2>1. \A l \in DOMAIN events : l > 1 => events[l].post # events[1].post
    BY <1>3 DEF Coming
  <2> QED BY <1>2, <1>3, <2>1 DEF LastIsTrue
<1>8. ASSUME ~astray'
      PROVE  Right(rows', evs, post)
  <2>1. ~astray /\ ~e.old /\ Right(rows, events, post)
    BY <1>1, <1>2, <1>4, <1>8 DEF IInv
  <2>2. rows' = [rows EXCEPT ![e.post] = e.row]
    BY <1>1, <1>4, <2>1 DEF Right
  <2>3. rows'[e.post] = e.row /\ \A p \in Posts : p # e.post => rows'[p] = rows[p]
    BY <1>2, <1>4, <2>2
  <2> QED BY <1>4, <1>6, <1>7, <2>1, <2>3, NullAssumption DEF Right
<1>9. Olden(calls, calls') /\ Same(calls, calls') /\ Passed(calls', {"dash"})
  BY <1>1, <1>2, AgedCalls
<1>10. AllSound(calls', evs, post, claim)
  BY <1>2, <1>9, WorldChanges
<1>11. Awaited(calls', manage) /\ (Refreshing(calls) => Refreshing(calls'))
  BY <1>2, <1>9, OldenCalls
<1>12. TypeOK'
  <2>1. rows' \in [Posts -> Rows \cup {None}]
    BY <1>1, <1>2, <1>4
  <2>2. astray' \in BOOLEAN
    BY <1>1, <1>2, <1>4
  <2> QED BY <1>1, <2>1, <2>2 DEF IInv, TypeOK
<1> QED BY <1>1, <1>3, <1>5, <1>8, <1>10, <1>11, <1>12 DEF IInv

-----------------------------------------------------------------------------
(***************************************************************************)
(* Theorems.                                                               *)
(***************************************************************************)

LEMMA InitIInv == Init => IInv
<1> SUFFICES ASSUME Init
             PROVE  IInv
  OBVIOUS
<1> DEFINE c == Call("dash", None, "none")
<1>1. /\ screen = "posts" /\ loading = TRUE /\ error = FALSE /\ publishing = None
      /\ post \in [Posts -> {[status |-> s, left |-> Portions] : s \in Prelive \cup {"active"}}]
      /\ claim = [p \in Posts |-> "none"] /\ stored = [p \in Posts |-> Written(p)]
      /\ rows = [p \in Posts |-> None]
      /\ manage = None /\ asking = None /\ calls = Append(<<>>, c) /\ stream = "opening"
      /\ events = <<>> /\ astray = TRUE /\ missed = FALSE
  BY DEF Init, Load
<1>2. c \in Requests /\ Sound(c, events, post, claim) /\ c.kind = "dash"
  BY FreshLoad
<1>3. ~Waits(c)
  BY <1>2 DEF Waits
<1>4. AllSound(<<>>, events, post, claim) /\ Awaited(<<>>, manage)
  BY DEF AllSound, Awaited
<1> HIDE DEF c
<1>5. AllSound(calls, events, post, claim) /\ Awaited(calls, manage)
  BY <1>1, <1>2, <1>3, <1>4, SendCall
<1>6. \A s \in Prelive \cup {"active"} :
        [status |-> s, left |-> Portions] \in Rows /\ [status |-> s, left |-> Portions].left = Portions
  BY DeskAssumption DEF Rows, Status
<1>7. post \in [Posts -> Rows] /\ \A p \in Posts : post[p].left = Portions
  BY <1>1, <1>6
<1>8. claim \in [Posts -> Claims] /\ \A p \in Posts : claim[p] = "none"
  BY <1>1 DEF Claims
<1>9. Stock(post, claim)
  BY <1>7, <1>8, DeskAssumption DEF Stock, Out
<1>12. /\ stored \in [Posts -> [row: Rows, claim: Claims]]
       /\ \A p \in Posts : stored[p].row.left = Portions /\ stored[p].claim = "none"
  BY <1>1, <1>7, <1>8 DEF Written
<1>13. Saved(stored)
  BY <1>12, DeskAssumption DEF Saved
<1>10. TypeOK
  BY <1>1, <1>7, <1>8, <1>12 DEF TypeOK
<1>11. LastIsTrue(events, post) /\ events \in Seq(Tidings)
  BY <1>1 DEF LastIsTrue
<1> QED BY <1>1, <1>5, <1>9, <1>10, <1>11, <1>13 DEF IInv

LEMMA StepIInv == ASSUME IInv, [Next]_vars PROVE IInv'
<1>1. CASE UNCHANGED vars
  <2>1. UNCHANGED <<screen, rows, loading, error, publishing, manage, asking, calls, stream, events,
                    post, claim, stored, astray, missed>>
    BY <1>1 DEF vars, dashboard, server, written, history
  <2> QED BY <2>1 DEF IInv, TypeOK
<1>2. CASE Host
  <2>1. ASSUME NEW p \in Posts, OpenManage(p) \/ Publish(p)
        PROVE  IInv'
    BY <2>1, OpenManageStep, PublishStep
  <2> QED BY <1>2, <2>1, ReturnStep, LeaveStep, RetryStep, ToggleStockStep, ConfirmPickupStep,
             AskStep, SettleStep DEF Host
<1>3. CASE Serve
  BY <1>3, ServeStep
<1>4. CASE Receive
  BY <1>4, ReceiveStep
<1>5. CASE Subscribed \/ Deliver
  BY <1>5, SubscribedStep, DeliverStep
<1>6. CASE Lose
  BY <1>6, LoseStep
<1>7. CASE \E p \in Posts : RecipientActs(p) \/ Sweep(p) \/ Rollback(p)
  BY <1>7, RecipientActsStep, SweepStep, RollbackStep
<1>8. CASE Commit
  BY <1>8, CommitStep
<1> QED BY <1>1, <1>2, <1>3, <1>4, <1>5, <1>6, <1>7, <1>8 DEF Next, System

\* The dashboard and every answer on its way to it are right or will be put
\* right by the events on theirs, and the management screen is right or about
\* to be read again, unless something ran over the one or the other.
THEOREM DeskInvariant == Spec => []IInv
<1>1. Init => IInv
  BY InitIInv
<1>2. IInv /\ [Next]_vars => IInv'
  BY StepIInv
<1> QED BY <1>1, <1>2, PTL DEF Spec

\* Every handler keeps every variable in its type: no answer reaches a
\* management screen that is gone, and portions given back never exceed what
\* was posted.
THEOREM DeskTypeCorrect == Spec => []TypeOK
<1>1. IInv => TypeOK
  BY DEF IInv
<1> QED BY <1>1, DeskInvariant, PTL

\* At rest, with every change committed, the dashboard shows each post as the
\* API has it, for any number of posts, events and requests at once, whether
\* the rows were read before or after the commit of what an event told
\* (session_dependency(), Patched, Announce, Overtaking).
THEOREM TrueDesk == Spec => []DeskIsTrue
<1>1. IInv => DeskIsTrue
  <2> SUFFICES ASSUME IInv, AtRest, events = <<>>, ~astray, NEW p \in Posts
               PROVE  rows[p] = stored[p].row
    BY DEF DeskIsTrue
  <2>1. ~Coming(events, p)
    BY DEF Coming
  <2>2. rows[p] = post[p]
    BY <2>1 DEF IInv, Right
  <2>3. stored[p] = [row |-> post[p], claim |-> claim[p]]
    BY DEF AtRest, Unsaved, Written
  <2> QED BY <2>2, <2>3
<1> QED BY <1>1, DeskInvariant, PTL

\* At rest the management screen shows the post and the claim as the API has
\* them, whatever acts were under way together, unless a reload was served
\* before the act it follows was committed (act(), endPostEarly()).
THEOREM TrueManage == Spec => []ManageIsTrue
<1>1. IInv => ManageIsTrue
  <2> SUFFICES ASSUME IInv, AtRest, manage # None, ~missed
               PROVE  Written(manage.post) = [row |-> manage.seen, claim |-> manage.claim]
    BY DEF ManageIsTrue
  <2>1. ~Refreshing(calls)
    BY DEF AtRest, Refreshing
  <2> QED BY <2>1 DEF IInv, Shows, Written
<1> QED BY <1>1, DeskInvariant, PTL
=============================================================================
