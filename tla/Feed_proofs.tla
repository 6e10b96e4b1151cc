---------------------------- MODULE Feed_proofs -----------------------------
(***************************************************************************)
(* Theorems about Feed, for any posts, filters, page sizes and bounds: no  *)
(* post is on the list twice, and at rest the list is what the filters ask *)
(* for, as far as it has been scrolled.                                    *)
(***************************************************************************)
EXTENDS Feed, FunctionTheorems, FiniteSetTheorems, SequenceTheorems, TLAPS

-----------------------------------------------------------------------------
(***************************************************************************)
(* Sequences and sets of numbers.                                          *)
(***************************************************************************)

\* RemoveAt keeps the other elements, in their order.
LEMMA RemovedAt ==
  ASSUME NEW S, NEW s \in Seq(S), NEW i \in 1 .. Len(s)
  PROVE  /\ RemoveAt(s, i) \in Seq(S)
         /\ DOMAIN RemoveAt(s, i) = 1 .. (Len(s) - 1)
         /\ \A j \in 1 .. (Len(s) - 1) :
              RemoveAt(s, i)[j] = IF j < i THEN s[j] ELSE s[j + 1]
<1> DEFINE a == SubSeq(s, 1, i - 1)
           b == SubSeq(s, i + 1, Len(s))
<1>1. Len(s) \in Nat /\ i \in Nat /\ i >= 1 /\ i <= Len(s)
  BY LenProperties
<1>2. /\ a \in Seq(S) /\ Len(a) = i - 1
      /\ \A j \in 1 .. i - 1 : a[j] = s[j]
  <2>1. \A j \in 1 .. (i - 1) : s[j] \in S
    BY <1>1, ElementOfSeq
  <2> QED BY <1>1, <2>1, SubSeqProperties
<1>3. /\ b \in Seq(S) /\ Len(b) = Len(s) - i
      /\ \A j \in 1 .. Len(s) - i : b[j] = s[i + j]
  <2>1. \A j \in (i + 1) .. Len(s) : s[j] \in S
    BY <1>1, ElementOfSeq
  <2>2. i + 1 \in Int /\ Len(s) \in Int
    BY <1>1
  <2>3. /\ b \in Seq(S)
        /\ Len(b) = IF i + 1 <= Len(s) THEN Len(s) - (i + 1) + 1 ELSE 0
        /\ \A j \in 1 .. Len(s) - (i + 1) + 1 : b[j] = s[(i + 1) + j - 1]
    BY <2>1, <2>2, SubSeqProperties
  <2>4. /\ Len(s) - (i + 1) + 1 = Len(s) - i
        /\ i + 1 <= Len(s) \/ Len(s) - i = 0
        /\ \A j \in 1 .. Len(s) - i : (i + 1) + j - 1 = i + j
    BY <1>1
  <2> HIDE DEF b
  <2> QED BY <2>3, <2>4
<1>4. RemoveAt(s, i) = a \o b
  BY DEF RemoveAt
<1> HIDE DEF a, b
<1>5. /\ a \o b \in Seq(S)
      /\ Len(a \o b) = Len(a) + Len(b)
      /\ \A j \in 1 .. Len(a) + Len(b) :
           (a \o b)[j] = IF j <= Len(a) THEN a[j] ELSE b[j - Len(a)]
  BY <1>2, <1>3, ConcatProperties
<1>6. Len(a \o b) = Len(s) - 1 /\ DOMAIN (a \o b) = 1 .. (Len(s) - 1)
  BY <1>1, <1>2, <1>3, <1>5, LenProperties
<1>7. ASSUME NEW j \in 1 .. (Len(s) - 1)
      PROVE  (a \o b)[j] = IF j < i THEN s[j] ELSE s[j + 1]
  <2>1. CASE j < i
    BY <1>1, <1>2, <1>3, <1>5, <2>1
  <2>2. CASE ~(j < i)
    <3>1. j - Len(a) \in 1 .. Len(s) - i /\ i + (j - Len(a)) = j + 1
      BY <1>1, <1>2, <2>2
    <3>2. (a \o b)[j] = b[j - Len(a)]
      BY <1>1, <1>2, <1>3, <1>5, <2>2
    <3> QED BY <1>3, <2>2, <3>1, <3>2
  <2> QED BY <2>1, <2>2
<1> QED BY <1>4, <1>5, <1>6, <1>7

\* A function on the places of a sequence is a sequence as long.
LEMMA Mapped ==
  ASSUME NEW S, NEW T, NEW s \in Seq(S), NEW t \in [DOMAIN s -> T]
  PROVE  t \in Seq(T) /\ DOMAIN t = DOMAIN s
<1>1. Len(s) \in Nat /\ DOMAIN s = 1 .. Len(s)
  BY LenProperties
<1> QED BY <1>1, SeqDef

\* Append adds one element.
LEMMA Appended ==
  ASSUME NEW S, NEW s \in Seq(S), NEW e \in S
  PROVE  /\ Append(s, e) \in Seq(S)
         /\ Len(s) + 1 \in DOMAIN Append(s, e) \ DOMAIN s
         /\ DOMAIN Append(s, e) = DOMAIN s \cup {Len(s) + 1}
         /\ Append(s, e)[Len(s) + 1] = e
         /\ \A k \in DOMAIN s : Append(s, e)[k] = s[k]
OBVIOUS

\* The place of a number among others.
Rank(A, n) == Cardinality({m \in A : m <= n})

\* Different numbers have different places, in their order, none is left out.
LEMMA Ranked ==
  ASSUME NEW A \in SUBSET Nat, IsFiniteSet(A)
  PROVE  /\ Cardinality(A) \in Nat
         /\ \A n \in A : Rank(A, n) \in 1 .. Cardinality(A)
         /\ \A m, n \in A : m < n => Rank(A, m) < Rank(A, n)
         /\ \A k \in 1 .. Cardinality(A) : \E n \in A : Rank(A, n) = k
<1> DEFINE below(n) == {m \in A : m <= n}
           rank == [n \in A |-> Rank(A, n)]
           size == Cardinality(A)
<1>1. size \in Nat
  BY FS_CardinalityType
<1>2. ASSUME NEW n \in A
      PROVE  /\ IsFiniteSet(below(n)) /\ Cardinality(below(n)) \in Nat
             /\ Cardinality(below(n)) <= size
  BY FS_Subset, FS_CardinalityType
<1>3. ASSUME NEW n \in A
      PROVE  Rank(A, n) \in 1 .. size
  <2>1. n \in below(n)
    OBVIOUS
  <2>2. Cardinality(below(n)) # 0
    BY <1>2, <2>1, FS_EmptySet
  <2> QED BY <1>1, <1>2, <2>2 DEF Rank
<1>4. ASSUME NEW m \in A, NEW n \in A, m < n
      PROVE  Rank(A, m) < Rank(A, n)
  <2>1. below(m) \in SUBSET below(n) /\ n \in below(n) /\ n \notin below(m)
    <3>1. \A x \in A : x <= m => x <= n
      <4>1. m \in Nat /\ n \in Nat /\ \A x \in A : x \in Nat
        OBVIOUS
      <4> QED BY <1>4, <4>1
    <3>2. n <= n /\ ~(n <= m)
      <4>1. m \in Nat /\ n \in Nat
        OBVIOUS
      <4> QED BY <1>4, <4>1
    <3> QED BY <3>1, <3>2
  <2>2. /\ Cardinality(below(m)) <= Cardinality(below(n))
        /\ Cardinality(below(m)) # Cardinality(below(n))
    BY <1>2, <2>1, FS_Subset
  <2> HIDE DEF below
  <2>3. Cardinality(below(m)) < Cardinality(below(n))
    BY <1>2, <2>2
  <2> QED BY <2>3 DEF Rank, below
<1>5. rank \in Injection(A, 1 .. size)
  <2>1. rank \in [A -> 1 .. size]
    BY <1>3
  <2>2. ASSUME NEW m \in A, NEW n \in A, rank[m] = rank[n]
        PROVE  m = n
    <3>1. Rank(A, m) = Rank(A, n) /\ Rank(A, n) \in Nat
      BY <1>3, <2>2
    <3>2. ~(m < n) /\ ~(n < m)
      BY <1>3, <1>4, <3>1
    <3> QED BY <3>2
  <2> HIDE DEF rank
  <2> QED BY <2>1, <2>2 DEF Injection, IsInjective
<1>6. IsFiniteSet(1 .. size) /\ Cardinality(1 .. size) = size
  BY <1>1, FS_Interval
<1>7. rank \in Surjection(A, 1 .. size)
  BY <1>5, <1>6, FS_Injection
<1>8. \A k \in 1 .. size : \E n \in A : rank[n] = k
  BY <1>7 DEF Surjection
<1> QED BY <1>1, <1>3, <1>4, <1>8

\* Nth lists the numbers in their order, each once.
LEMMA Listed ==
  ASSUME NEW A \in SUBSET Nat, IsFiniteSet(A)
  PROVE  /\ Cardinality(A) \in Nat
         /\ \A k \in 1 .. Cardinality(A) : Nth(A, k) \in A
         /\ \A j, k \in 1 .. Cardinality(A) : Nth(A, j) = Nth(A, k) => j = k
         /\ \A j, k \in 1 .. Cardinality(A) : j < k => Nth(A, j) < Nth(A, k)
         /\ \A n \in A : \E k \in 1 .. Cardinality(A) : Nth(A, k) = n
<1>1. ASSUME NEW k \in 1 .. Cardinality(A)
      PROVE  Nth(A, k) \in A /\ Rank(A, Nth(A, k)) = k
  <2>1. \E n \in A : Cardinality({m \in A : m <= n}) = k
    BY Ranked DEF Rank
  <2> QED BY <2>1 DEF Nth, Rank
<1>2. Cardinality(A) \in Nat
  BY Ranked
<1>3. ASSUME NEW j \in 1 .. Cardinality(A), NEW k \in 1 .. Cardinality(A), j < k
      PROVE  Nth(A, j) < Nth(A, k)
  <2>1. Nth(A, j) \in Nat /\ Nth(A, k) \in Nat /\ Nth(A, j) \in A /\ Nth(A, k) \in A
    BY <1>1
  <2>2. CASE Nth(A, k) < Nth(A, j)
    <3>1. Rank(A, Nth(A, k)) < Rank(A, Nth(A, j))
      BY <2>1, <2>2, Ranked
    <3> QED BY <1>1, <1>2, <1>3, <3>1
  <2>3. CASE Nth(A, k) = Nth(A, j)
    BY <1>1, <1>2, <1>3, <2>3
  <2> QED BY <2>1, <2>2, <2>3
<1>4. ASSUME NEW n \in A
      PROVE  \E k \in 1 .. Cardinality(A) : Nth(A, k) = n
  <2> DEFINE k == Rank(A, n)
  <2>1. k \in 1 .. Cardinality(A)
    BY Ranked
  <2>2. Nth(A, k) \in A /\ Rank(A, Nth(A, k)) = Rank(A, n)
    BY <1>1, <2>1
  <2>3. Rank(A, n) \in Nat
    BY <1>2, <2>1
  <2> HIDE DEF k
  <2>4. ~(Nth(A, k) < n) /\ ~(n < Nth(A, k))
    <3>1. \A x, y \in A : x < y => Rank(A, x) < Rank(A, y)
      BY Ranked
    <3>2. Nth(A, k) < n => Rank(A, Nth(A, k)) < Rank(A, n)
      BY <2>2, <3>1
    <3>3. n < Nth(A, k) => Rank(A, n) < Rank(A, Nth(A, k))
      BY <2>2, <3>1
    <3> QED BY <2>2, <2>3, <3>2, <3>3
  <2>5. Nth(A, k) \in Nat /\ n \in Nat
    BY <2>2
  <2>6. Nth(A, k) = n
    BY <2>4, <2>5
  <2> QED BY <2>1, <2>6
<1> QED BY <1>1, <1>2, <1>3, <1>4

-----------------------------------------------------------------------------
(***************************************************************************)
(* The invariant.                                                          *)
(***************************************************************************)

Cards == [post: Posts, left: 1..Portions]
Answers == [code: {"pending", "200", "lost", "garbled"}, items: Seq(Cards), next: 0..PostCount]
Requests == [kind: {"load", "more"}, filters: SUBSET Kinds, cursor: 0..PostCount,
             ans: Answers, old: BOOLEAN]
Tidings == [post: Posts, left: 0..Portions, old: BOOLEAN]

PostsOf(cs) == {cs[i].post : i \in DOMAIN cs}
Distinct(cs) == \A i, j \in DOMAIN cs : cs[i].post = cs[j].post => i = j

\* A request: no post is twice in what it was answered, and a load, as nothing
\* else, starts at the top.
Sound(c) == Distinct(c.ans.items) /\ (c.kind = "load" <=> c.cursor = 0)

\* One page more is asked for at a time, by a list that says so.
OneMore(rs, busy) ==
    /\ \A i, j \in DOMAIN rs : rs[i].kind = "more" /\ rs[j].kind = "more" => i = j
    /\ \A i \in DOMAIN rs : rs[i].kind = "more" => busy

Outstanding(rs, busy) ==
    rs \in Seq(Requests) /\ (\A i \in DOMAIN rs : Sound(rs[i])) /\ OneMore(rs, busy)

\* What TypeOK says of everything but the cards and the requests.
Scalars ==
    /\ next \in 0..PostCount
    /\ {loading, refreshing, loadingMore, error, offline, typed, searched,
        located, astray} \subseteq BOOLEAN
    /\ chosen \subseteq {"tags", "near"}
    /\ stream \in {"opening", "open"}
    /\ {left, stored} \subseteq [Posts -> 0..Portions] /\ clock \in 0..PostCount

Base ==
    /\ Scalars
    /\ cards \in Seq(Cards) /\ Distinct(cards)
    /\ Outstanding(calls, loadingMore)

\* The events of a stream are about posts in its scope, and the last one about
\* a post brings what is left of it, unless it is out of date.
Coming(evs, p) == \E k \in DOMAIN evs : evs[k].post = p

LastIsTrue(evs, lf) ==
    \A k \in DOMAIN evs :
        ~evs[k].old /\ (\A l \in DOMAIN evs : l > k => evs[l].post # evs[k].post)
        => evs[k].left = lf[evs[k].post]

News(evs, lf, scoped) ==
    /\ evs \in Seq(Tidings) /\ LastIsTrue(evs, lf)
    /\ scoped => \A k \in DOMAIN evs : evs[k].post \in Fitting["near"]

\* Cards and a cursor for the filters f, from a place in the list on: what is
\* shown fits and is so, and what is so is shown or further down, save for what
\* the events on their way will put right.
Right(cs, nx, from, f, evs, lf, ck) ==
    /\ \A i \in DOMAIN cs : cs[i].post > ck =>
         /\ cs[i].post \in Matches(f)
         /\ cs[i].left = lf[cs[i].post] \/ Coming(evs, cs[i].post)
    /\ \A p \in Matches(f) : lf[p] > 0 /\ p > ck /\ p > from =>
         p \in PostsOf(cs) \/ (nx # 0 /\ p > nx) \/ Coming(evs, p)

\* A request that nothing has overtaken, and its answer, for the filters f.
True(c, f, evs, lf, ck) ==
    /\ c.filters = f
    /\ c.ans.code = "200" => Right(c.ans.items, c.ans.next, c.cursor, f, evs, lf, ck)

\* A load is for the filters on screen, or another for them was sent after it.
LoadsTrue(rs, f, evs, lf, ck) ==
    \A i \in DOMAIN rs : rs[i].kind = "load" /\ ~rs[i].old =>
        \/ True(rs[i], f, evs, lf, ck)
        \/ \E k \in DOMAIN rs : k > i /\ rs[k].kind = "load" /\ rs[k].filters = f

\* A page goes on where the list ends.
MoresTrue(rs, nx, f, evs, lf, ck) ==
    \A i \in DOMAIN rs : rs[i].kind = "more" /\ ~rs[i].old =>
        True(rs[i], f, evs, lf, ck) /\ rs[i].cursor = nx

\* The list will be replaced, or says that it could not be.
Due(rs, f, er, off) ==
    er \/ off \/ \E k \in DOMAIN rs : rs[k].kind = "load" /\ rs[k].filters = f

IInv ==
    /\ Base
    /\ News(events, left, Scoped(chosen, located)) /\ (stream = "opening" => events = <<>>)
    /\ LoadsTrue(calls, Sent, events, left, clock)
    /\ ~astray /\ ~Due(calls, Sent, error, offline) =>
         /\ Right(cards, next, 0, Sent, events, left, clock)
         /\ MoresTrue(calls, next, Sent, events, left, clock)

-----------------------------------------------------------------------------
(***************************************************************************)
(* Lists of cards.                                                         *)
(***************************************************************************)

\* Only keeps the cards of the posts, and neither changes nor repeats one.
LEMMA Kept ==
  ASSUME NEW cs \in Seq(Cards), NEW posts
  PROVE  /\ Only(cs, posts) \in Seq(Cards)
         /\ \A k \in DOMAIN Only(cs, posts) :
              \E i \in DOMAIN cs : Only(cs, posts)[k] = cs[i] /\ cs[i].post \in posts
         /\ \A i \in DOMAIN cs : cs[i].post \in posts =>
              \E k \in DOMAIN Only(cs, posts) : Only(cs, posts)[k] = cs[i]
         /\ Distinct(cs) => Distinct(Only(cs, posts))
<1> DEFINE kept == {i \in DOMAIN cs : cs[i].post \in posts}
           n == Cardinality(kept)
           only == [k \in 1 .. n |-> cs[Nth(kept, k)]]
<1>1. Len(cs) \in Nat /\ DOMAIN cs = 1 .. Len(cs) /\ \A i \in DOMAIN cs : cs[i] \in Cards
  BY LenProperties
<1>2. kept \in SUBSET Nat /\ IsFiniteSet(kept)
  <2>1. kept \in SUBSET (1 .. Len(cs)) /\ IsFiniteSet(1 .. Len(cs))
    BY <1>1, FS_Interval
  <2> QED BY <2>1, FS_Subset
<1>3. Only(cs, posts) = only
  BY DEF Only
<1>4. /\ n \in Nat /\ \A k \in 1 .. n : Nth(kept, k) \in kept
      /\ \A j, k \in 1 .. n : Nth(kept, j) = Nth(kept, k) => j = k
      /\ \A i \in kept : \E k \in 1 .. n : Nth(kept, k) = i
  BY <1>2, Listed
<1>5. \A k \in 1 .. n : Nth(kept, k) \in DOMAIN cs /\ cs[Nth(kept, k)].post \in posts
  BY <1>4
<1>6. \A i \in DOMAIN cs : cs[i].post \in posts => \E k \in 1 .. n : Nth(kept, k) = i
  BY <1>4
<1>7. only \in Seq(Cards) /\ DOMAIN only = 1 .. n
      /\ \A k \in 1 .. n : only[k] = cs[Nth(kept, k)]
  <2> HIDE DEF kept, n
  <2>1. only \in [1 .. n -> Cards]
    BY <1>1, <1>5
  <2> QED BY <1>4, <2>1, SeqDef
<1> HIDE DEF kept, n, only
<1>8. ASSUME Distinct(cs)
      PROVE  Distinct(only)
  <2> SUFFICES ASSUME NEW j \in 1 .. n, NEW k \in 1 .. n, only[j].post = only[k].post
               PROVE  j = k
    BY <1>7 DEF Distinct
  <2>1. Nth(kept, j) = Nth(kept, k)
    BY <1>5, <1>7, <1>8 DEF Distinct
  <2> QED BY <1>4, <2>1
<1>9. \A k \in DOMAIN only : \E i \in DOMAIN cs : only[k] = cs[i] /\ cs[i].post \in posts
  BY <1>5, <1>7
<1>10. \A i \in DOMAIN cs : cs[i].post \in posts => \E k \in DOMAIN only : only[k] = cs[i]
  BY <1>6, <1>7
<1> QED BY <1>3, <1>7, <1>8, <1>9, <1>10

\* A page is right of what is committed, and goes on where the last one ended.
LEMMA PageRight ==
  ASSUME NEW f, NEW cursor \in 0..PostCount, NEW evs,
         stored \in [Posts -> 0..Portions], clock \in 0..PostCount
  PROVE  /\ Page(f, cursor) \in Answers /\ Page(f, cursor).code = "200"
         /\ Distinct(Page(f, cursor).items)
         /\ \A i \in DOMAIN Page(f, cursor).items : Page(f, cursor).items[i].left > 0
         /\ Right(Page(f, cursor).items, Page(f, cursor).next, cursor, f, evs, stored, clock)
<1> DEFINE found == {p \in Available \cap Matches(f) : p > cursor}
           m == Cardinality(found)
           n == Min({PageSize, m})
           items == [i \in 1 .. n |-> Card(Nth(found, i))]
           next_ == IF n < m THEN Nth(found, n) ELSE 0
<1>1. /\ PostCount \in Nat /\ Portions \in Nat /\ PageSize \in Nat /\ PageSize > 0
  BY FeedAssumption
<1>2. found \in SUBSET Nat /\ IsFiniteSet(found)
  <2>1. found \in SUBSET (1 .. PostCount) /\ IsFiniteSet(1 .. PostCount)
    BY <1>1, FS_Interval DEF Matches, Posts
  <2> HIDE DEF found
  <2>2. IsFiniteSet(found)
    BY <2>1, FS_Subset
  <2> QED BY <2>1, <2>2
<1>3. Page(f, cursor) = [code |-> "200", items |-> items, next |-> next_]
  BY DEF Page
<1>4. \A p \in found : /\ p \in Posts /\ p \in Matches(f) /\ stored[p] > 0 /\ p > clock
                       /\ Card(p) \in Cards /\ Card(p).post = p /\ Card(p).left = stored[p]
  BY <1>1 DEF Matches, Posts, Available, Card, Cards
<1>5. \A p \in Matches(f) : stored[p] > 0 /\ p > clock /\ p > cursor => p \in found
  BY DEF Matches, Available
<1> HIDE DEF found
<1>6. /\ m \in Nat /\ \A k \in 1 .. m : Nth(found, k) \in found
      /\ \A j, k \in 1 .. m : Nth(found, j) = Nth(found, k) => j = k
      /\ \A j, k \in 1 .. m : j < k => Nth(found, j) < Nth(found, k)
      /\ \A p \in found : \E k \in 1 .. m : Nth(found, k) = p
  BY <1>2, Listed
<1> HIDE DEF m
<1>7. n \in Nat /\ n <= m /\ (m # 0 => n # 0)
  <2>1. \E x \in {PageSize, m} : \A y \in {PageSize, m} : x <= y
    BY <1>1, <1>6
  <2>2. n \in {PageSize, m} /\ \A y \in {PageSize, m} : n <= y
    BY <2>1 DEF Min
  <2> HIDE DEF n
  <2> QED BY <1>1, <1>6, <2>2
<1> HIDE DEF n
<1>8. \A k \in 1 .. n : k \in 1 .. m /\ Nth(found, k) \in found
  BY <1>6, <1>7
<1>9. items \in Seq(Cards) /\ DOMAIN items = 1 .. n
      /\ \A k \in 1 .. n : items[k] = Card(Nth(found, k))
  <2>1. items \in [1 .. n -> Cards]
    BY <1>4, <1>8
  <2> QED BY <1>7, <2>1, SeqDef
<1> HIDE DEF items
<1>10. next_ \in 0..PostCount /\ (next_ # 0 => n < m /\ next_ = Nth(found, n) /\ n \in 1 .. n)
  <2>1. CASE n < m
    <3>1. n \in 1 .. n
      BY <1>6, <1>7, <2>1
    <3>2. Nth(found, n) \in 1..PostCount
      BY <1>4, <1>8, <3>1 DEF Posts
    <3> QED BY <1>1, <2>1, <3>1, <3>2
  <2>2. CASE ~(n < m)
    BY <1>1, <2>2
  <2> QED BY <2>1, <2>2
<1>11. ASSUME NEW p \in found, p \notin PostsOf(items)
       PROVE  next_ # 0 /\ p > next_
  <2>1. PICK k \in 1 .. m : Nth(found, k) = p
    BY <1>6
  <2>2. k \notin 1 .. n
    BY <1>4, <1>9, <1>11, <2>1 DEF PostsOf
  <2>3. n < k /\ n < m /\ n \in 1 .. m
    BY <1>6, <1>7, <2>1, <2>2
  <2>4. Nth(found, n) < p /\ Nth(found, n) \in found
    BY <1>6, <2>1, <2>3
  <2>5. Nth(found, n) \in 1..PostCount
    BY <1>4, <2>4 DEF Posts
  <2>6. next_ = Nth(found, n)
    BY <2>3
  <2> QED BY <1>1, <2>4, <2>5, <2>6
<1> HIDE DEF next_
<1>12. Distinct(items)
  BY <1>4, <1>6, <1>8, <1>9 DEF Distinct
<1>13. \A i \in DOMAIN items : /\ items[i].left > 0 /\ items[i].post \in Matches(f)
                               /\ items[i].left = stored[items[i].post]
  BY <1>4, <1>8, <1>9
<1>14. Right(items, next_, cursor, f, evs, stored, clock)
  BY <1>5, <1>11, <1>13 DEF Right
<1>15. Page(f, cursor) \in Answers
  BY <1>3, <1>9, <1>10 DEF Answers
<1> QED BY <1>3, <1>12, <1>13, <1>14, <1>15

-----------------------------------------------------------------------------
(***************************************************************************)
(* What happens to the requests outstanding.                               *)
(***************************************************************************)

\* One that has been overtaken differs in nothing else.
Same(c, d) ==
    /\ d.kind = c.kind /\ d.filters = c.filters /\ d.cursor = c.cursor /\ d.ans = c.ans
    /\ c.old => d.old

Aged(rs, t) ==
    t \in Seq(Requests) /\ DOMAIN t = DOMAIN rs /\ \A j \in DOMAIN rs : Same(rs[j], t[j])

\* Past(rs, g): those of which g is true are overtaken.
Past(rs, g) == [j \in DOMAIN rs |-> [rs[j] EXCEPT !.old = @ \/ g[j]]]

LEMMA PastAged ==
  ASSUME NEW rs \in Seq(Requests), NEW g \in [DOMAIN rs -> BOOLEAN]
  PROVE  /\ Aged(rs, Past(rs, g))
         /\ \A j \in DOMAIN rs : g[j] => Past(rs, g)[j].old
<1>1. ASSUME NEW j \in DOMAIN rs
      PROVE  /\ Past(rs, g)[j] \in Requests /\ Same(rs[j], Past(rs, g)[j])
             /\ g[j] => Past(rs, g)[j].old
  <2>1. rs[j] \in Requests
    OBVIOUS
  <2> DEFINE c == rs[j]
             b == c.old \/ g[j]
             d == [c EXCEPT !.old = b]
  <2>2. Past(rs, g)[j] = d
    BY DEF Past
  <2>3. b \in BOOLEAN
    BY <2>1 DEF Requests
  <2> HIDE DEF b
  <2>4. d \in Requests
    BY <2>1, <2>3 DEF Requests
  <2>5. /\ d.kind = c.kind /\ d.filters = c.filters /\ d.cursor = c.cursor /\ d.ans = c.ans
        /\ d.old = b
    BY <2>1 DEF Requests
  <2> HIDE DEF d
  <2>6. (c.old => d.old) /\ (g[j] => d.old)
    BY <2>5 DEF b
  <2> QED BY <2>2, <2>4, <2>5, <2>6 DEF Same
<1>2. Past(rs, g) \in [DOMAIN rs -> Requests]
  BY <1>1 DEF Past
<1>3. Past(rs, g) \in Seq(Requests) /\ DOMAIN Past(rs, g) = DOMAIN rs
  BY <1>2, Mapped
<1> QED BY <1>1, <1>3 DEF Aged

\* The answers under way when the screen learns something newer.
LEMMA ServedAged ==
  ASSUME calls \in Seq(Requests)
  PROVE  /\ Aged(calls, Overtaken(calls, Served))
         /\ \A j \in DOMAIN calls :
              calls[j].ans # Pending => Overtaken(calls, Served)[j].old
<1> DEFINE g == [j \in DOMAIN calls |-> calls[j].ans # Pending]
<1>1. Overtaken(calls, Served) = Past(calls, g)
  BY DEF Overtaken, Served, Past
<1>2. g \in [DOMAIN calls -> BOOLEAN] /\ \A j \in DOMAIN calls : calls[j].ans # Pending => g[j]
  OBVIOUS
<1> HIDE DEF g
<1> QED BY <1>1, <1>2, PastAged

LEMMA AgedKeeps ==
  ASSUME NEW rs, NEW t, Aged(rs, t), NEW busy, NEW f, NEW evs, NEW lf, NEW ck, NEW nx,
         NEW er, NEW off
  PROVE  /\ Outstanding(rs, busy) => Outstanding(t, busy)
         /\ LoadsTrue(rs, f, evs, lf, ck) => LoadsTrue(t, f, evs, lf, ck)
         /\ MoresTrue(rs, nx, f, evs, lf, ck) => MoresTrue(t, nx, f, evs, lf, ck)
         /\ Due(rs, f, er, off) => Due(t, f, er, off)
<1>1. /\ t \in Seq(Requests) /\ DOMAIN t = DOMAIN rs
      /\ \A j \in DOMAIN rs :
           /\ t[j].kind = rs[j].kind /\ t[j].filters = rs[j].filters
           /\ t[j].cursor = rs[j].cursor /\ t[j].ans = rs[j].ans /\ (rs[j].old => t[j].old)
  BY DEF Aged, Same
<1>2. Outstanding(rs, busy) => Outstanding(t, busy)
  BY <1>1 DEF Outstanding, Sound, OneMore
<1>3. \A j \in DOMAIN rs : True(rs[j], f, evs, lf, ck) => True(t[j], f, evs, lf, ck)
  BY <1>1 DEF True
<1>4. LoadsTrue(rs, f, evs, lf, ck) => LoadsTrue(t, f, evs, lf, ck)
  BY <1>1, <1>3 DEF LoadsTrue
<1>5. MoresTrue(rs, nx, f, evs, lf, ck) => MoresTrue(t, nx, f, evs, lf, ck)
  BY <1>1, <1>3 DEF MoresTrue
<1>6. Due(rs, f, er, off) => Due(t, f, er, off)
  BY <1>1 DEF Due
<1> QED BY <1>2, <1>4, <1>5, <1>6

\* Once every answer under way is overtaken, what is asked and not answered
\* stays true whatever happens to the posts.
LEMMA AgedForgets ==
  ASSUME NEW rs, NEW t, Aged(rs, t),
         \A j \in DOMAIN rs : rs[j].ans # Pending => t[j].old,
         NEW f, NEW evs, NEW lf, NEW ck, NEW evs2, NEW lf2, NEW ck2, NEW nx
  PROVE  /\ LoadsTrue(rs, f, evs, lf, ck) => LoadsTrue(t, f, evs2, lf2, ck2)
         /\ MoresTrue(rs, nx, f, evs, lf, ck) => MoresTrue(t, nx, f, evs2, lf2, ck2)
<1>1. /\ t \in Seq(Requests) /\ DOMAIN t = DOMAIN rs
      /\ \A j \in DOMAIN rs :
           /\ t[j].kind = rs[j].kind /\ t[j].filters = rs[j].filters
           /\ t[j].cursor = rs[j].cursor /\ t[j].ans = rs[j].ans /\ (rs[j].old => t[j].old)
  BY DEF Aged, Same
<1>2. \A j \in DOMAIN rs : ~t[j].old /\ True(rs[j], f, evs, lf, ck) => True(t[j], f, evs2, lf2, ck2)
  <2> SUFFICES ASSUME NEW j \in DOMAIN rs, ~t[j].old, True(rs[j], f, evs, lf, ck)
               PROVE  True(t[j], f, evs2, lf2, ck2)
    OBVIOUS
  <2>1. t[j].ans = Pending
    BY <1>1
  <2>2. t[j].ans.code # "200"
    BY <2>1 DEF Pending
  <2> QED BY <1>1, <2>2 DEF True
<1>3. LoadsTrue(rs, f, evs, lf, ck) => LoadsTrue(t, f, evs2, lf2, ck2)
  BY <1>1, <1>2 DEF LoadsTrue
<1>4. MoresTrue(rs, nx, f, evs, lf, ck) => MoresTrue(t, nx, f, evs2, lf2, ck2)
  BY <1>1, <1>2 DEF MoresTrue
<1> QED BY <1>3, <1>4

LEMMA Fetched ==
  ASSUME NEW kind \in {"load", "more"}, NEW f \in SUBSET Kinds, NEW cursor \in 0..PostCount,
         kind = "load" <=> cursor = 0
  PROVE  LET c == Fetch(kind, f, cursor) IN
         /\ c \in Requests /\ Sound(c) /\ c.kind = kind /\ c.filters = f /\ c.cursor = cursor
         /\ c.ans.code = "pending" /\ ~c.old
<1> DEFINE c == Fetch(kind, f, cursor)
<1>1. Pending \in Answers
  <2>1. <<>> \in Seq(Cards) /\ 0 \in 0..PostCount
    BY FeedAssumption
  <2> QED BY <2>1 DEF Pending, Answers
<1>2. c \in Requests /\ c.kind = kind /\ c.filters = f /\ c.cursor = cursor /\ c.ans = Pending /\ ~c.old
  BY <1>1 DEF Fetch, Requests
<1>3. Pending.code = "pending" /\ Pending.items = <<>>
  BY DEF Pending
<1>4. Distinct(Pending.items)
  BY <1>3 DEF Distinct
<1> HIDE DEF c
<1>5. Sound(c)
  BY <1>2, <1>4 DEF Sound
<1> QED BY <1>2, <1>3, <1>5 DEF c

\* Sending a load for the filters on screen settles everything: the list is due.
LEMMA LoadSent ==
  ASSUME NEW rs, NEW busy, Outstanding(rs, busy), NEW f \in SUBSET Kinds
  PROVE  LET t == Append(rs, Fetch("load", f, 0)) IN
         /\ Outstanding(t, busy)
         /\ \A evs, lf, ck : LoadsTrue(t, f, evs, lf, ck)
         /\ \A er, off : Due(t, f, er, off)
<1> DEFINE c == Fetch("load", f, 0)
           t == Append(rs, c)
           n == Len(rs) + 1
<1>1. c \in Requests /\ Sound(c) /\ c.kind = "load" /\ c.filters = f /\ c.ans.code = "pending"
  <2>1. 0 \in 0..PostCount
    BY FeedAssumption
  <2> QED BY <2>1, Fetched
<1> HIDE DEF c
<1>2. rs \in Seq(Requests) /\ Len(rs) \in Nat /\ DOMAIN rs = 1 .. Len(rs)
  BY LenProperties DEF Outstanding
<1>3. /\ t \in Seq(Requests) /\ DOMAIN t = DOMAIN rs \cup {n} /\ n \notin DOMAIN rs
      /\ t[n] = c /\ \A k \in DOMAIN rs : t[k] = rs[k] /\ n > k
  BY <1>1, <1>2, Appended
<1> HIDE DEF t, n
<1>4. Outstanding(t, busy)
  <2>1. \A i \in DOMAIN t : Sound(t[i])
    BY <1>1, <1>3 DEF Outstanding
  <2>2. OneMore(t, busy)
    BY <1>1, <1>3 DEF Outstanding, OneMore
  <2> QED BY <1>3, <2>1, <2>2 DEF Outstanding
<1>5. ASSUME NEW evs, NEW lf, NEW ck
      PROVE  LoadsTrue(t, f, evs, lf, ck)
  <2>1. True(t[n], f, evs, lf, ck)
    BY <1>1, <1>3 DEF True
  <2> QED BY <1>1, <1>3, <2>1 DEF LoadsTrue
<1>6. \A er, off : Due(t, f, er, off)
  BY <1>1, <1>3 DEF Due
<1> QED BY <1>4, <1>5, <1>6 DEF t, c

\* Asking for one more page.
LEMMA MoreSent ==
  ASSUME NEW rs, Outstanding(rs, FALSE), NEW f \in SUBSET Kinds, NEW nx \in 0..PostCount, nx # 0,
         NEW evs, NEW lf, NEW ck, NEW er, NEW off
  PROVE  LET t == Append(rs, Fetch("more", f, nx)) IN
         /\ Outstanding(t, TRUE)
         /\ LoadsTrue(rs, f, evs, lf, ck) => LoadsTrue(t, f, evs, lf, ck)
         /\ MoresTrue(t, nx, f, evs, lf, ck)
         /\ Due(rs, f, er, off) => Due(t, f, er, off)
<1> DEFINE c == Fetch("more", f, nx)
           t == Append(rs, c)
           n == Len(rs) + 1
<1>1. c \in Requests /\ Sound(c) /\ c.kind = "more" /\ c.filters = f /\ c.cursor = nx
      /\ c.ans.code = "pending"
  BY Fetched
<1> HIDE DEF c
<1>2. rs \in Seq(Requests) /\ \A i \in DOMAIN rs : rs[i].kind # "more" /\ Sound(rs[i])
  BY DEF Outstanding, OneMore
<1>3. /\ t \in Seq(Requests) /\ DOMAIN t = DOMAIN rs \cup {n} /\ n \notin DOMAIN rs
      /\ t[n] = c /\ \A k \in DOMAIN rs : t[k] = rs[k]
  BY <1>1, <1>2, Appended
<1> HIDE DEF t, n
<1>4. Outstanding(t, TRUE)
  <2>1. \A i \in DOMAIN t : Sound(t[i])
    BY <1>1, <1>2, <1>3
  <2>2. OneMore(t, TRUE)
    BY <1>1, <1>2, <1>3 DEF OneMore
  <2> QED BY <1>3, <2>1, <2>2 DEF Outstanding
<1>5. LoadsTrue(rs, f, evs, lf, ck) => LoadsTrue(t, f, evs, lf, ck)
  BY <1>1, <1>3 DEF LoadsTrue
<1>6. MoresTrue(t, nx, f, evs, lf, ck)
  <2>1. True(t[n], f, evs, lf, ck)
    BY <1>1, <1>3 DEF True
  <2> QED BY <1>1, <1>2, <1>3, <2>1 DEF MoresTrue
<1>7. Due(rs, f, er, off) => Due(t, f, er, off)
  BY <1>3 DEF Due
<1> QED BY <1>4, <1>5, <1>6, <1>7 DEF t, c

\* A request received: those left are in the order they were in.
LEMMA Received ==
  ASSUME NEW rs, NEW busy, Outstanding(rs, busy), NEW i \in DOMAIN rs, NEW f, NEW evs, NEW lf, NEW ck
  PROVE  LET t == RemoveAt(rs, i) IN
         /\ Outstanding(t, busy)
         /\ rs[i].kind = "more" => /\ Outstanding(t, FALSE)
                                   /\ \A j \in DOMAIN t : t[j].kind # "more"
         /\ \A j \in DOMAIN t : \E k \in DOMAIN rs : t[j] = rs[k]
         /\ \A k \in DOMAIN rs \ {i} : \E j \in DOMAIN t : t[j] = rs[k]
         /\ (rs[i].kind = "more" \/ (\A j \in DOMAIN rs : j < i => rs[j].old))
            /\ LoadsTrue(rs, f, evs, lf, ck) => LoadsTrue(t, f, evs, lf, ck)
<1> DEFINE t == RemoveAt(rs, i)
           g(j) == IF j < i THEN j ELSE j + 1
<1>1. rs \in Seq(Requests) /\ Len(rs) \in Nat /\ DOMAIN rs = 1 .. Len(rs) /\ i \in 1 .. Len(rs)
  BY LenProperties DEF Outstanding
<1>2. /\ t \in Seq(Requests) /\ DOMAIN t = 1 .. (Len(rs) - 1)
      /\ \A j \in DOMAIN t : t[j] = rs[g(j)]
  BY <1>1, RemovedAt
<1> HIDE DEF t
<1>3. \A j \in DOMAIN t : g(j) \in DOMAIN rs /\ g(j) # i
  BY <1>1, <1>2
<1>4. \A j, k \in DOMAIN t : (j < k <=> g(j) < g(k)) /\ (g(j) = g(k) => j = k)
  BY <1>1, <1>2
<1>5. ASSUME NEW k \in DOMAIN rs \ {i}
      PROVE  \E j \in DOMAIN t : g(j) = k
  <2>1. CASE k < i
    <3>1. k \in DOMAIN t /\ g(k) = k
      BY <1>1, <1>2, <2>1
    <3> QED BY <3>1
  <2>2. CASE ~(k < i)
    <3>1. k - 1 \in DOMAIN t /\ g(k - 1) = k
      BY <1>1, <1>2, <2>2
    <3> QED BY <3>1
  <2> QED BY <2>1, <2>2
<1>6. \A j \in DOMAIN t : g(j) < i \/ g(j) > i
  BY <1>1, <1>2
<1>12. \A k \in DOMAIN rs : ~(k < i /\ k > i)
  BY <1>1
<1> HIDE DEF g
<1>7. Outstanding(t, busy)
  <2>1. \A j \in DOMAIN t : Sound(t[j])
    BY <1>2, <1>3 DEF Outstanding
  <2>2. OneMore(t, busy)
    BY <1>2, <1>3, <1>4 DEF Outstanding, OneMore
  <2> QED BY <1>2, <2>1, <2>2 DEF Outstanding
<1>8. ASSUME rs[i].kind = "more"
      PROVE  /\ \A j \in DOMAIN t : t[j].kind # "more"
             /\ Outstanding(t, FALSE)
  <2>1. \A j \in DOMAIN t : t[j].kind # "more"
    BY <1>2, <1>3, <1>8 DEF Outstanding, OneMore
  <2>2. OneMore(t, FALSE)
    BY <2>1 DEF OneMore
  <2> QED BY <1>7, <2>1, <2>2 DEF Outstanding
<1>9. \A j \in DOMAIN t : \E k \in DOMAIN rs : t[j] = rs[k]
  BY <1>2, <1>3
<1>10. \A k \in DOMAIN rs \ {i} : \E j \in DOMAIN t : t[j] = rs[k]
  BY <1>2, <1>5
<1>11. ASSUME rs[i].kind = "more" \/ (\A j \in DOMAIN rs : j < i => rs[j].old),
              LoadsTrue(rs, f, evs, lf, ck)
       PROVE  LoadsTrue(t, f, evs, lf, ck)
  <2> SUFFICES ASSUME NEW j \in DOMAIN t, t[j].kind = "load", ~t[j].old, ~True(t[j], f, evs, lf, ck)
               PROVE  \E k \in DOMAIN t : k > j /\ t[k].kind = "load" /\ t[k].filters = f
    BY DEF LoadsTrue
  <2>1. /\ g(j) \in DOMAIN rs /\ rs[g(j)].kind = "load" /\ ~rs[g(j)].old
        /\ ~True(rs[g(j)], f, evs, lf, ck)
    BY <1>2, <1>3
  <2>2. PICK l \in DOMAIN rs : l > g(j) /\ rs[l].kind = "load" /\ rs[l].filters = f
    BY <1>11, <2>1 DEF LoadsTrue
  <2>3. l # i
    <3>1. CASE rs[i].kind = "more"
      BY <2>2, <3>1
    <3>2. CASE \A k \in DOMAIN rs : k < i => rs[k].old
      BY <1>3, <1>6, <1>12, <2>1, <2>2, <3>2
    <3> QED BY <1>11, <3>1, <3>2
  <2>4. PICK k \in DOMAIN t : g(k) = l
    BY <1>5, <2>3
  <2>5. k > j
    BY <1>1, <1>2, <1>4, <2>2, <2>4
  <2> QED BY <1>2, <2>2, <2>4, <2>5
<1> QED BY <1>7, <1>8, <1>9, <1>10, <1>11 DEF t

\* A request answered, or lost.
LEMMA Answered ==
  ASSUME NEW rs, NEW busy, Outstanding(rs, busy), NEW i \in DOMAIN rs,
         NEW a \in Answers, Distinct(a.items), NEW evs, NEW lf, NEW ck,
         NEW o \in BOOLEAN, rs[i].old => o,
         a.code = "200" /\ ~o =>
           Right(a.items, a.next, rs[i].cursor, rs[i].filters, evs, lf, ck),
         NEW f, NEW nx, NEW er, NEW off
  PROVE  LET t == [rs EXCEPT ![i].ans = a, ![i].old = o] IN
         /\ Outstanding(t, busy)
         /\ LoadsTrue(rs, f, evs, lf, ck) => LoadsTrue(t, f, evs, lf, ck)
         /\ MoresTrue(rs, nx, f, evs, lf, ck) => MoresTrue(t, nx, f, evs, lf, ck)
         /\ Due(rs, f, er, off) => Due(t, f, er, off)
<1> DEFINE t == [rs EXCEPT ![i].ans = a, ![i].old = o]
           d == [rs[i] EXCEPT !.ans = a, !.old = o]
<1>1. rs \in Seq(Requests) /\ rs[i] \in Requests
  BY DEF Outstanding
<1>2. /\ d \in Requests /\ d.kind = rs[i].kind /\ d.filters = rs[i].filters
      /\ d.cursor = rs[i].cursor /\ d.old = o /\ d.ans = a
  BY <1>1 DEF Requests
<1>3. t[i] = d /\ DOMAIN t = DOMAIN rs /\ \A j \in DOMAIN rs : j # i => t[j] = rs[j]
  OBVIOUS
<1> HIDE DEF d
<1>4. t \in Seq(Requests)
  <2>1. \A j \in DOMAIN rs : t[j] \in Requests
    BY <1>1, <1>2, <1>3
  <2>2. t = [j \in DOMAIN rs |-> t[j]]
    BY <1>3
  <2> HIDE DEF t
  <2>3. t \in [DOMAIN rs -> Requests]
    BY <2>1, <2>2
  <2> QED BY <1>1, <2>3, Mapped
<1> HIDE DEF t
<1>5. Sound(d)
  BY <1>2 DEF Outstanding, Sound
<1>6. Outstanding(t, busy)
  <2>1. \A j \in DOMAIN t : Sound(t[j])
    BY <1>3, <1>5 DEF Outstanding
  <2>2. OneMore(t, busy)
    BY <1>2, <1>3 DEF Outstanding, OneMore
  <2> QED BY <1>4, <2>1, <2>2 DEF Outstanding
<1>7. ~o /\ True(rs[i], f, evs, lf, ck) => True(d, f, evs, lf, ck)
  BY <1>2 DEF True
<1>8. LoadsTrue(rs, f, evs, lf, ck) => LoadsTrue(t, f, evs, lf, ck)
  BY <1>2, <1>3, <1>7 DEF LoadsTrue
<1>9. MoresTrue(rs, nx, f, evs, lf, ck) => MoresTrue(t, nx, f, evs, lf, ck)
  BY <1>2, <1>3, <1>7 DEF MoresTrue
<1>10. Due(rs, f, er, off) => Due(t, f, er, off)
  BY <1>2, <1>3 DEF Due
<1> QED BY <1>6, <1>8, <1>9, <1>10 DEF t

\* What was right stays right when posts change, as long as an event about
\* every one that the filters let through is to come.
LEMMA StillRight ==
  ASSUME NEW f, NEW evs, NEW lf, NEW ck \in Nat, NEW evs2, NEW lf2, NEW ck2 \in Nat,
         ck <= ck2, \A p \in Posts : Coming(evs, p) => Coming(evs2, p),
         \A p \in Matches(f) : lf2[p] = lf[p] \/ Coming(evs2, p),
         NEW cs \in Seq(Cards), NEW nx, NEW from, Right(cs, nx, from, f, evs, lf, ck)
  PROVE  Right(cs, nx, from, f, evs2, lf2, ck2)
<1>1. \A i \in DOMAIN cs : cs[i].post \in Posts /\ cs[i].post \in Nat
  <2>1. \A i \in DOMAIN cs : cs[i] \in Cards
    OBVIOUS
  <2>2. \A i \in DOMAIN cs : cs[i].post \in Posts
    BY <2>1 DEF Cards
  <2> QED BY <2>2 DEF Posts
<1>2. \A p \in Matches(f) : p \in Posts /\ p \in Nat
  BY FeedAssumption DEF Matches, Posts
<1>3. \A p \in Nat : p > ck2 => p > ck
  OBVIOUS
<1>4. ASSUME NEW i \in DOMAIN cs, cs[i].post > ck2
      PROVE  /\ cs[i].post \in Matches(f)
             /\ cs[i].left = lf2[cs[i].post] \/ Coming(evs2, cs[i].post)
  BY <1>1, <1>3, <1>4 DEF Right
<1>5. ASSUME NEW p \in Matches(f), lf2[p] > 0, p > ck2, p > from
      PROVE  p \in PostsOf(cs) \/ (nx # 0 /\ p > nx) \/ Coming(evs2, p)
  BY <1>2, <1>3, <1>5 DEF Right
<1> QED BY <1>4, <1>5 DEF Right

LEMMA StillTrue ==
  ASSUME NEW f, NEW evs, NEW lf, NEW ck \in Nat, NEW evs2, NEW lf2, NEW ck2 \in Nat,
         ck <= ck2, \A p \in Posts : Coming(evs, p) => Coming(evs2, p),
         \A p \in Matches(f) : lf2[p] = lf[p] \/ Coming(evs2, p),
         NEW rs \in Seq(Requests), NEW nx
  PROVE  /\ LoadsTrue(rs, f, evs, lf, ck) => LoadsTrue(rs, f, evs2, lf2, ck2)
         /\ MoresTrue(rs, nx, f, evs, lf, ck) => MoresTrue(rs, nx, f, evs2, lf2, ck2)
<1>1. ASSUME NEW i \in DOMAIN rs, True(rs[i], f, evs, lf, ck)
      PROVE  True(rs[i], f, evs2, lf2, ck2)
  <2>1. rs[i].ans.items \in Seq(Cards)
    <3>1. rs[i] \in Requests
      OBVIOUS
    <3>2. rs[i].ans \in Answers
      BY <3>1 DEF Requests
    <3> QED BY <3>2 DEF Answers
  <2>2. rs[i].ans.code = "200" =>
          Right(rs[i].ans.items, rs[i].ans.next, rs[i].cursor, f, evs, lf, ck)
    BY <1>1 DEF True
  <2>3. rs[i].ans.code = "200" =>
          Right(rs[i].ans.items, rs[i].ans.next, rs[i].cursor, f, evs2, lf2, ck2)
    BY <2>1, <2>2, StillRight
  <2> QED BY <1>1, <2>3 DEF True
<1> QED BY <1>1 DEF LoadsTrue, MoresTrue

-----------------------------------------------------------------------------
(***************************************************************************)
(* What is sent.                                                           *)
(***************************************************************************)

Scene == /\ News(events, left, Scoped(chosen, located))
         /\ stream = "opening" => events = <<>>

LEMMA SentType == Scalars => Sent \in SUBSET Kinds
BY DEF Scalars, Sent, Wanted, Kinds

\* After a load for the filters on screen was sent there is nothing to show
\* about the list.
LEMMA LoadKeeps ==
  ASSUME IInv, Scalars', cards' \in Seq(Cards), Distinct(cards'), Scene',
         loadingMore' = loadingMore,
         NEW rs, Outstanding(rs, loadingMore), calls' = Append(rs, Fetch("load", Sent', 0))
  PROVE  IInv'
<1>1. Sent' \in SUBSET Kinds
  BY DEF Scalars, Sent, Wanted, Kinds
<1>2. /\ Outstanding(calls', loadingMore)
      /\ LoadsTrue(calls', Sent', events', left', clock')
      /\ Due(calls', Sent', error', offline')
  BY <1>1, LoadSent
<1> QED BY <1>2 DEF IInv, Base, Scene

LEMMA RefilterStep ==
  ASSUME IInv, NEW ch \in SUBSET {"tags", "near"}, NEW loc \in BOOLEAN, NEW q \in BOOLEAN,
         Refilter(ch, loc, q), UNCHANGED <<list, flags, offline, typed, server, astray>>
  PROVE  IInv'
<1>1. /\ chosen' = ch /\ located' = loc /\ searched' = q /\ error' = FALSE
      /\ calls' = Append(calls, Fetch("load", Wanted(ch, loc, q), 0))
      /\ UNCHANGED <<cards, next, loading, refreshing, loadingMore, offline, typed, left, stored, clock, astray>>
  BY DEF Refilter, Load, list, flags, server
<1>2. Scalars'
  <2>1. stream' \in {"opening", "open"}
    BY DEF Refilter, IInv, Base, Scalars
  <2> QED BY <1>1, <2>1 DEF IInv, Base, Scalars
<1>3. Scene'
  <2>1. CASE Scoped(ch, loc) = Scoped(chosen, located)
    <3>1. UNCHANGED <<stream, events>> /\ Scoped(chosen', located') = Scoped(chosen, located)
      BY <1>1, <2>1 DEF Refilter
    <3> QED BY <1>1, <3>1 DEF IInv, Scene
  <2>2. CASE Scoped(ch, loc) # Scoped(chosen, located)
    <3>1. stream' = "opening" /\ events' = <<>>
      BY <2>2 DEF Refilter
    <3>2. <<>> \in Seq(Tidings) /\ DOMAIN <<>> = {}
      OBVIOUS
    <3> QED BY <3>1, <3>2 DEF Scene, News, LastIsTrue
  <2> QED BY <2>1, <2>2
<1>4. Sent' = Wanted(ch, loc, q)
  BY <1>1 DEF Sent
<1>5. cards' \in Seq(Cards) /\ Distinct(cards') /\ Outstanding(calls, loadingMore)
  BY <1>1 DEF IInv, Base
<1> QED BY <1>1, <1>2, <1>3, <1>4, <1>5, LoadKeeps

LEMMA ReloadStep ==
  ASSUME IInv, Load(Sent), loading' \in BOOLEAN, refreshing' \in BOOLEAN,
         UNCHANGED <<list, loadingMore, offline, filters, stream, events, server, astray>>
  PROVE  IInv'
<1>1. /\ error' = FALSE /\ calls' = Append(calls, Fetch("load", Sent, 0))
      /\ UNCHANGED <<cards, next, chosen, located, searched, typed, left, stored, clock>>
  BY DEF Load, list, server, filters
<1>2. Scalars'
  BY <1>1 DEF IInv, Base, Scalars
<1>3. Scene' /\ Sent' = Sent
  BY <1>1 DEF IInv, Scene, Sent
<1>4. cards' \in Seq(Cards) /\ Distinct(cards') /\ Outstanding(calls, loadingMore)
  BY <1>1 DEF IInv, Base
<1> QED BY <1>1, <1>2, <1>3, <1>4, LoadKeeps

LEMMA LocateStep == ASSUME IInv, Locate PROVE IInv'
<1>1. chosen \in SUBSET {"tags", "near"} /\ searched \in BOOLEAN
  BY DEF IInv, Base, Scalars
<1> QED BY <1>1, RefilterStep DEF Locate

LEMMA ChooseStep == ASSUME IInv, NEW ch, Choose(ch) PROVE IInv'
<1>1. ch \in SUBSET {"tags", "near"} /\ located \in BOOLEAN /\ searched \in BOOLEAN
  BY DEF IInv, Base, Scalars, Choose
<1> QED BY <1>1, RefilterStep DEF Choose

LEMMA DebouncedStep == ASSUME IInv, Debounced PROVE IInv'
<1>1. chosen \in SUBSET {"tags", "near"} /\ located \in BOOLEAN /\ typed \in BOOLEAN
  BY DEF IInv, Base, Scalars
<1> QED BY <1>1, RefilterStep DEF Debounced

LEMMA PullStep == ASSUME IInv, Pull PROVE IInv'
<1>1. loading' \in BOOLEAN /\ refreshing' \in BOOLEAN
  BY DEF IInv, Base, Scalars, Pull
<1> QED BY <1>1, ReloadStep DEF Pull

LEMMA TryAgainStep == ASSUME IInv, TryAgain \/ Retry PROVE IInv'
<1>1. loading' \in BOOLEAN /\ refreshing' \in BOOLEAN
  BY DEF IInv, Base, Scalars, TryAgain, Retry, flags
<1> QED BY <1>1, ReloadStep DEF TryAgain, Retry, flags

LEMMA LoadMoreStep == ASSUME IInv, LoadMore PROVE IInv'
<1>1. /\ loadingMore' = TRUE /\ ~loadingMore /\ next # 0
      /\ calls' = Append(calls, Fetch("more", Sent, next))
      /\ UNCHANGED <<cards, next, loading, refreshing, error, offline, chosen, typed, searched,
                     located, stream, events, left, stored, clock, astray>>
  BY DEF LoadMore, list, trouble, filters, server
<1>2. Scalars'
  BY <1>1 DEF IInv, Base, Scalars
<1>3. Scene' /\ Sent' = Sent
  BY <1>1 DEF IInv, Scene, Sent
<1>4. Outstanding(calls, FALSE) /\ Sent \in SUBSET Kinds /\ next \in 0..PostCount
  <2>1. loadingMore = FALSE
    BY <1>1 DEF IInv, Base, Scalars
  <2> QED BY <2>1, SentType DEF IInv, Base, Scalars
<1>5. /\ Outstanding(calls', TRUE)
      /\ LoadsTrue(calls', Sent, events, left, clock)
      /\ MoresTrue(calls', next, Sent, events, left, clock)
      /\ Due(calls, Sent, error, offline) => Due(calls', Sent, error, offline)
  BY <1>1, <1>4, MoreSent DEF IInv
<1> QED BY <1>1, <1>2, <1>3, <1>5 DEF IInv, Base, Scene

LEMMA TypeStep == ASSUME IInv, Type PROVE IInv'
<1>1. /\ typed' = ~typed
      /\ UNCHANGED <<cards, next, loading, refreshing, loadingMore, error, offline, chosen, searched,
                     located, calls, stream, events, left, stored, clock, astray>>
  BY DEF Type, list, flags, trouble, server
<1>2. Scalars'
  BY <1>1 DEF IInv, Base, Scalars
<1>3. Scene' /\ Sent' = Sent
  BY <1>1 DEF IInv, Scene, Sent
<1> QED BY <1>1, <1>2, <1>3 DEF IInv, Base, Scene

LEMMA OpenedStep == ASSUME IInv, Opened PROVE IInv'
<1>1. /\ stream' = "open"
      /\ UNCHANGED <<cards, next, loading, refreshing, loadingMore, error, offline, chosen, typed,
                     searched, located, calls, events, left, stored, clock, astray>>
  BY DEF Opened, feed, list, flags, trouble, filters, server
<1>2. Scalars'
  BY <1>1 DEF IInv, Base, Scalars
<1>3. Scene' /\ Sent' = Sent
  BY <1>1 DEF IInv, Scene, Sent
<1> QED BY <1>1, <1>2, <1>3 DEF IInv, Base, Scene

-----------------------------------------------------------------------------
(***************************************************************************)
(* The list's own timer, and the stream.                                   *)
(***************************************************************************)

LEMMA PruneStep == ASSUME IInv, Prune PROVE IInv'
<1> DEFINE live == {p \in Posts : p > clock}
           kept == Only(cards, live)
<1>1. /\ cards' = kept
      /\ UNCHANGED <<next, loading, refreshing, loadingMore, error, offline, chosen, typed, searched,
                     located, calls, stream, events, left, stored, clock, astray>>
  BY DEF Prune, flags, trouble, filters, server
<1>2. /\ kept \in Seq(Cards) /\ Distinct(kept)
      /\ \A k \in DOMAIN kept : \E i \in DOMAIN cards : kept[k] = cards[i] /\ cards[i].post \in live
      /\ \A i \in DOMAIN cards : cards[i].post \in live => \E k \in DOMAIN kept : kept[k] = cards[i]
  <2>1. cards \in Seq(Cards) /\ Distinct(cards)
    BY DEF IInv, Base
  <2> HIDE DEF live
  <2> QED BY <2>1, Kept
<1> HIDE DEF kept
<1>3. Scalars'
  BY <1>1 DEF IInv, Base, Scalars
<1>4. Scene' /\ Sent' = Sent
  BY <1>1 DEF IInv, Scene, Sent
<1>5. ASSUME Right(cards, next, 0, Sent, events, left, clock)
      PROVE  Right(kept, next, 0, Sent, events, left, clock)
  <2>1. ASSUME NEW p \in Matches(Sent), p > clock, p \in PostsOf(cards)
        PROVE  p \in PostsOf(kept)
    <3>1. PICK i \in DOMAIN cards : cards[i].post = p
      BY <2>1 DEF PostsOf
    <3>2. p \in live
      BY <2>1 DEF Matches
    <3>3. PICK k \in DOMAIN kept : kept[k] = cards[i]
      BY <1>2, <3>1, <3>2
    <3> QED BY <3>1, <3>3 DEF PostsOf
  <2> QED BY <1>2, <1>5, <2>1 DEF Right
<1> QED BY <1>1, <1>2, <1>3, <1>4, <1>5 DEF IInv, Base, Scene

\* The first event taken off.
LEMMA TailNews ==
  ASSUME NEW evs \in Seq(Tidings), evs # <<>>, NEW lf, LastIsTrue(evs, lf)
  PROVE  /\ Head(evs) \in Tidings /\ Tail(evs) \in Seq(Tidings)
         /\ \A k \in DOMAIN Tail(evs) : \E l \in DOMAIN evs : Tail(evs)[k] = evs[l]
         /\ LastIsTrue(Tail(evs), lf)
         /\ Coming(evs, Head(evs).post)
         /\ \A p : Coming(evs, p) => Coming(Tail(evs), p) \/ p = Head(evs).post
         /\ \A p : Coming(Tail(evs), p) => Coming(evs, p)
         /\ ~Coming(Tail(evs), Head(evs).post) /\ ~Head(evs).old
              => Head(evs).left = lf[Head(evs).post]
<1> DEFINE rest == Tail(evs)
           e == Head(evs)
<1>1. /\ Len(evs) \in Nat /\ DOMAIN evs = 1 .. Len(evs) /\ 1 \in DOMAIN evs
      /\ e = evs[1] /\ e \in Tidings
  BY LenProperties, EmptySeq
<1>2. /\ rest \in Seq(Tidings) /\ DOMAIN rest = 1 .. (Len(evs) - 1)
      /\ \A k \in DOMAIN rest : rest[k] = evs[k + 1]
  BY HeadTailProperties, LenProperties
<1> HIDE DEF rest, e
<1>3. \A k \in DOMAIN rest : k + 1 \in DOMAIN evs /\ k + 1 > 1
  BY <1>1, <1>2
<1>4. \A l \in DOMAIN evs : l = 1 \/ (l - 1 \in DOMAIN rest /\ l = (l - 1) + 1)
  BY <1>1, <1>2
<1>5. \A l \in DOMAIN evs : l = 1 \/ (l - 1 \in DOMAIN rest /\ evs[l] = rest[l - 1])
  BY <1>2, <1>4
<1>6. \A p : Coming(evs, p) => Coming(rest, p) \/ p = e.post
  BY <1>1, <1>5 DEF Coming
<1>7. \A p : Coming(rest, p) => Coming(evs, p)
  BY <1>2, <1>3 DEF Coming
<1>8. ASSUME ~Coming(rest, e.post), ~e.old
      PROVE  e.left = lf[e.post]
  <2>1. \A l \in DOMAIN evs : l > 1 => evs[l].post # evs[1].post
    BY <1>1, <1>5, <1>8 DEF Coming
  <2> QED BY <1>1, <1>8, <2>1 DEF LastIsTrue
<1>9. LastIsTrue(rest, lf)
  <2> SUFFICES ASSUME NEW k \in DOMAIN rest, ~rest[k].old,
                      \A l \in DOMAIN rest : l > k => rest[l].post # rest[k].post
               PROVE  rest[k].left = lf[rest[k].post]
    BY DEF LastIsTrue
  <2>1. k + 1 \in DOMAIN evs /\ evs[k + 1] = rest[k]
    BY <1>2, <1>3
  <2>2. ASSUME NEW l \in DOMAIN evs, l > k + 1
        PROVE  evs[l].post # evs[k + 1].post
    <3>1. l - 1 \in DOMAIN rest /\ evs[l] = rest[l - 1] /\ l - 1 > k
      BY <1>1, <1>2, <1>5, <2>2
    <3> QED BY <2>1, <3>1
  <2> QED BY <1>1, <2>1, <2>2 DEF LastIsTrue
<1>10. \A k \in DOMAIN rest : \E l \in DOMAIN evs : rest[k] = evs[l]
  BY <1>2, <1>3
<1>11. Coming(evs, e.post)
  BY <1>1 DEF Coming
<1> QED BY <1>1, <1>2, <1>6, <1>7, <1>8, <1>9, <1>10, <1>11 DEF rest, e

\* A card patched or taken off is right again, and no other is touched.
LEMMA PatchedRight ==
  ASSUME cards \in Seq(Cards), Distinct(cards), NEW e \in Tidings, e.post \in Shown,
         NEW evs, NEW rest, NEW lf, NEW ck, NEW f, NEW nx,
         \A p : Coming(evs, p) => Coming(rest, p) \/ p = e.post
  PROVE  /\ Patched(e) \in Seq(Cards) /\ Distinct(Patched(e))
         /\ (~Coming(rest, e.post) => e.left = lf[e.post]) /\ Right(cards, nx, 0, f, evs, lf, ck) => Right(Patched(e), nx, 0, f, rest, lf, ck)
<1> DEFINE new == Patched(e)
<1>1. CASE e.left > 0
  <2> DEFINE patched(i) == [cards[i] EXCEPT !.left = e.left]
  <2>1. ASSUME NEW i \in DOMAIN cards
        PROVE  /\ cards[i] \in Cards /\ patched(i) \in Cards
               /\ patched(i).post = cards[i].post /\ patched(i).left = e.left
    <3>1. e.left \in 1..Portions
      BY <1>1, FeedAssumption DEF Tidings
    <3>2. cards[i] \in Cards
      OBVIOUS
    <3> QED BY <3>1, <3>2 DEF Cards
  <2>2. new = [i \in DOMAIN cards |-> IF cards[i].post = e.post THEN patched(i) ELSE cards[i]]
    BY <1>1 DEF Patched
  <2> HIDE DEF patched
  <2>4. new \in [DOMAIN cards -> Cards]
    BY <2>1, <2>2
  <2>5. new \in Seq(Cards) /\ DOMAIN new = DOMAIN cards
    BY <2>4, Mapped
  <2>6. \A i \in DOMAIN cards : /\ new[i] = IF cards[i].post = e.post THEN patched(i) ELSE cards[i]
                                /\ new[i].post = cards[i].post
    BY <2>1, <2>2
  <2> HIDE DEF new
  <2>7. Distinct(new)
    BY <2>5, <2>6 DEF Distinct
  <2>8. ASSUME ~Coming(rest, e.post) => e.left = lf[e.post], Right(cards, nx, 0, f, evs, lf, ck)
        PROVE  Right(new, nx, 0, f, rest, lf, ck)
    <3>1. ASSUME NEW i \in DOMAIN new, new[i].post > ck
          PROVE  /\ new[i].post \in Matches(f)
                 /\ new[i].left = lf[new[i].post] \/ Coming(rest, new[i].post)
      <4>1. /\ cards[i].post \in Matches(f)
            /\ cards[i].left = lf[cards[i].post] \/ Coming(evs, cards[i].post)
        BY <2>5, <2>6, <2>8, <3>1 DEF Right
      <4> QED BY <2>1, <2>5, <2>6, <2>8, <3>1, <4>1
    <3>2. PostsOf(new) = PostsOf(cards)
      BY <2>5, <2>6 DEF PostsOf
    <3>3. e.post \in PostsOf(cards)
      BY DEF Shown, PostsOf
    <3> QED BY <2>8, <3>1, <3>2, <3>3 DEF Right
  <2> QED BY <2>5, <2>7, <2>8 DEF new
<1>2. CASE ~(e.left > 0)
  <2> DEFINE others == Posts \ {e.post}
  <2>1. new = Only(cards, others) /\ e.left = 0
    BY <1>2, FeedAssumption DEF Patched, Tidings
  <2>2. \A i \in DOMAIN cards : cards[i].post \in Posts
    <3>1. \A i \in DOMAIN cards : cards[i] \in Cards
      OBVIOUS
    <3> QED BY <3>1 DEF Cards
  <2>3. \A p \in Posts : p \in others <=> p # e.post
    OBVIOUS
  <2> HIDE DEF new, others
  <2>4. /\ new \in Seq(Cards) /\ Distinct(new)
        /\ \A k \in DOMAIN new : \E i \in DOMAIN cards : new[k] = cards[i] /\ cards[i].post \in others
        /\ \A i \in DOMAIN cards : cards[i].post \in others => \E k \in DOMAIN new : new[k] = cards[i]
    BY <2>1, Kept
  <2>5. \A p \in PostsOf(cards) : p # e.post => p \in PostsOf(new)
    BY <2>2, <2>3, <2>4 DEF PostsOf
  <2>6. ASSUME ~Coming(rest, e.post) => e.left = lf[e.post], Right(cards, nx, 0, f, evs, lf, ck)
        PROVE  Right(new, nx, 0, f, rest, lf, ck)
    <3>1. ASSUME NEW k \in DOMAIN new, new[k].post > ck
          PROVE  /\ new[k].post \in Matches(f)
                 /\ new[k].left = lf[new[k].post] \/ Coming(rest, new[k].post)
      <4>1. PICK i \in DOMAIN cards : new[k] = cards[i] /\ cards[i].post \in others
        BY <2>4
      <4>2. cards[i].post # e.post
        BY <2>2, <2>3, <4>1
      <4> QED BY <2>6, <3>1, <4>1, <4>2 DEF Right
    <3>2. ASSUME NEW p \in Matches(f), lf[p] > 0, p > ck, p > 0
          PROVE  p \in PostsOf(new) \/ (nx # 0 /\ p > nx) \/ Coming(rest, p)
      <4>1. p \in PostsOf(cards) \/ (nx # 0 /\ p > nx) \/ Coming(evs, p)
        BY <2>6, <3>2 DEF Right
      <4>2. p = e.post => Coming(rest, p)
        BY <2>1, <2>6, <3>2
      <4> QED BY <2>5, <4>1, <4>2
    <3> QED BY <3>1, <3>2 DEF Right
  <2> QED BY <2>4, <2>6 DEF new
<1> QED BY <1>1, <1>2

LEMMA DeliverStep == ASSUME IInv, Deliver PROVE IInv'
<1> DEFINE e == Head(events)
           rest == Tail(events)
           past == Overtaken(calls, Served)
<1>1. /\ events' = rest /\ events # <<>>
      /\ UNCHANGED <<next, loading, refreshing, loadingMore, offline, chosen, typed, searched, located,
                     stream, left, stored, clock>>
  BY DEF Deliver, flags, filters, server
<1>2. /\ events \in Seq(Tidings) /\ LastIsTrue(events, left)
      /\ Scoped(chosen, located) => \A k \in DOMAIN events : events[k].post \in Fitting["near"]
      /\ calls \in Seq(Requests) /\ cards \in Seq(Cards) /\ Distinct(cards)
  BY DEF IInv, News, Base, Outstanding
<1>3. /\ e \in Tidings /\ rest \in Seq(Tidings)
      /\ \A k \in DOMAIN rest : \E l \in DOMAIN events : rest[k] = events[l]
      /\ LastIsTrue(rest, left)
      /\ \A p : Coming(events, p) => Coming(rest, p) \/ p = e.post
      /\ ~Coming(rest, e.post) /\ ~e.old => e.left = left[e.post]
  BY <1>1, <1>2, TailNews
<1>4. Aged(calls, past) /\ \A j \in DOMAIN calls : calls[j].ans # Pending => past[j].old
  BY <1>2, ServedAged
<1>5. \/ /\ e.post \in Shown /\ cards' = Patched(e) /\ calls' = past
         /\ astray' = (astray \/ e.old) /\ UNCHANGED error
      \/ /\ calls' = Append(past, Fetch("load", Sent, 0)) /\ error' = FALSE
         /\ UNCHANGED <<cards, astray>>
  BY DEF Deliver
<1> HIDE DEF e, rest, past
<1>6. Scalars'
  <2>1. error' \in BOOLEAN /\ astray' \in BOOLEAN
    <3>1. e.old \in BOOLEAN /\ astray \in BOOLEAN /\ error \in BOOLEAN
      BY <1>3 DEF Tidings, IInv, Base, Scalars
    <3> QED BY <1>5, <3>1
  <2> QED BY <1>1, <2>1 DEF IInv, Base, Scalars
<1>7. Scene' /\ Sent' = Sent
  <2>1. Scoped(chosen, located) => \A k \in DOMAIN rest : rest[k].post \in Fitting["near"]
    BY <1>2, <1>3
  <2>2. News(rest, left, Scoped(chosen, located))
    BY <1>3, <2>1 DEF News
  <2>3. stream = "open"
    BY DEF Deliver
  <2> QED BY <1>1, <2>2, <2>3 DEF Scene, Sent
<1>8. Outstanding(past, loadingMore)
  BY <1>4, AgedKeeps DEF IInv, Base
<1>9. CASE /\ e.post \in Shown /\ cards' = Patched(e) /\ calls' = past
           /\ astray' = (astray \/ e.old) /\ UNCHANGED error
  <2>1. /\ Patched(e) \in Seq(Cards) /\ Distinct(Patched(e))
        /\ ~e.old /\ Right(cards, next, 0, Sent, events, left, clock)
             => Right(Patched(e), next, 0, Sent, rest, left, clock)
    BY <1>2, <1>3, <1>9, PatchedRight
  <2>2. /\ LoadsTrue(calls, Sent, events, left, clock) => LoadsTrue(past, Sent, rest, left, clock)
        /\ MoresTrue(calls, next, Sent, events, left, clock)
             => MoresTrue(past, next, Sent, rest, left, clock)
    BY <1>4, AgedForgets
  <2>3. Due(calls, Sent, error, offline) => Due(past, Sent, error, offline)
    BY <1>4, AgedKeeps
  <2>4. Base'
    BY <1>1, <1>6, <1>8, <1>9, <2>1 DEF Base
  <2>5. ~astray' => ~astray /\ ~e.old
    BY <1>9
  <2> QED BY <1>1, <1>7, <1>9, <2>1, <2>2, <2>3, <2>4, <2>5 DEF IInv, Scene
<1>10. CASE /\ calls' = Append(past, Fetch("load", Sent, 0)) /\ error' = FALSE
            /\ UNCHANGED <<cards, astray>>
  BY <1>1, <1>2, <1>6, <1>7, <1>8, <1>10, LoadKeeps
<1> QED BY <1>5, <1>9, <1>10

-----------------------------------------------------------------------------
(***************************************************************************)
(* The server and the network.                                             *)
(***************************************************************************)

\* An event sent after the others.
LEMMA Announced ==
  ASSUME NEW evs \in Seq(Tidings), NEW lf, LastIsTrue(evs, lf), NEW e \in Tidings,
         NEW lf2, lf2[e.post] = e.left, \A p \in Posts : p # e.post => lf2[p] = lf[p]
  PROVE  /\ Append(evs, e) \in Seq(Tidings) /\ LastIsTrue(Append(evs, e), lf2)
         /\ \A k \in DOMAIN Append(evs, e) :
              Append(evs, e)[k] = e \/ \E l \in DOMAIN evs : Append(evs, e)[k] = evs[l]
         /\ \A p : Coming(evs, p) => Coming(Append(evs, e), p)
         /\ Coming(Append(evs, e), e.post)
<1> DEFINE t == Append(evs, e)
           n == Len(evs) + 1
<1>1. Len(evs) \in Nat /\ DOMAIN evs = 1 .. Len(evs) /\ \A k \in DOMAIN evs : evs[k] \in Tidings
  BY LenProperties
<1>2. /\ t \in Seq(Tidings) /\ DOMAIN t = DOMAIN evs \cup {n} /\ n \notin DOMAIN evs
      /\ t[n] = e /\ \A k \in DOMAIN evs : t[k] = evs[k] /\ n > k
  BY <1>1, Appended
<1> HIDE DEF t, n
<1>3. LastIsTrue(t, lf2)
  <2> SUFFICES ASSUME NEW k \in DOMAIN t, ~t[k].old,
                      \A l \in DOMAIN t : l > k => t[l].post # t[k].post
               PROVE  t[k].left = lf2[t[k].post]
    BY DEF LastIsTrue
  <2>1. CASE k = n
    BY <1>2, <2>1
  <2>2. CASE k \in DOMAIN evs
    <3>1. \A l \in DOMAIN evs : l > k => evs[l].post # evs[k].post
      BY <1>2, <2>2
    <3>2. e.post # evs[k].post
      BY <1>2, <2>2
    <3>3. evs[k].post \in Posts
      BY <1>1, <2>2 DEF Tidings
    <3> QED BY <1>2, <2>2, <3>1, <3>2, <3>3 DEF LastIsTrue
  <2> QED BY <1>2, <2>1, <2>2
<1>4. (\A p : Coming(evs, p) => Coming(t, p)) /\ Coming(t, e.post)
  BY <1>2 DEF Coming
<1>5. \A k \in DOMAIN t : t[k] = e \/ \E l \in DOMAIN evs : t[k] = evs[l]
  BY <1>2
<1> QED BY <1>2, <1>3, <1>4, <1>5 DEF t

LEMMA ChangeStep == ASSUME IInv, NEW p \in Posts, Change(p) PROVE IInv'
<1> DEFINE scoped == Scoped(chosen, located)
           past == Overtaken(calls, Served)
<1>1. PICK n \in 0..Portions \ {left[p]} :
        /\ left' = [left EXCEPT ![p] = n]
        /\ IF stream = "open"
           THEN /\ events' = IF scoped => p \in Fitting["near"]
                             THEN Append(events, [post |-> p, left |-> n, old |-> FALSE]) ELSE events
                /\ UNCHANGED <<calls, astray>>
           ELSE /\ calls' = past /\ astray' = TRUE
                /\ UNCHANGED events
  BY DEF Change
<1>2. UNCHANGED <<cards, next, loading, refreshing, loadingMore, error, offline, chosen, typed,
                  searched, located, stream, stored, clock>>
  BY DEF Change, feed, list, flags, trouble, filters
<1> DEFINE e == [post |-> p, left |-> n, old |-> FALSE]
<1>3. e \in Tidings /\ e.post = p /\ e.left = n
  BY DEF Tidings
<1>4. /\ left \in [Posts -> 0..Portions] /\ left' \in [Posts -> 0..Portions]
      /\ left'[p] = n /\ \A q \in Posts : q # p => left'[q] = left[q]
  BY <1>1 DEF IInv, Base, Scalars
<1>5. Scalars'
  <2>1. astray' \in BOOLEAN
    BY <1>1 DEF IInv, Base, Scalars
  <2> QED BY <1>2, <1>4, <2>1 DEF IInv, Base, Scalars
<1>6. /\ events \in Seq(Tidings) /\ LastIsTrue(events, left) /\ calls \in Seq(Requests)
      /\ scoped => \A k \in DOMAIN events : events[k].post \in Fitting["near"]
      /\ Outstanding(calls, loadingMore) /\ cards \in Seq(Cards) /\ clock \in Nat
      /\ clock <= clock
  <2>1. clock \in Nat
    BY FeedAssumption DEF IInv, Base, Scalars
  <2> QED BY <2>1 DEF IInv, News, Base, Outstanding
<1>7. Sent' = Sent /\ Scoped(chosen', located') = scoped
  BY <1>2 DEF Sent
<1>8. CASE stream # "open"
  <2>1. /\ calls' = past /\ astray' = TRUE /\ events' = events /\ events = <<>>
    BY <1>1, <1>8 DEF IInv, Base, Scalars
  <2>2. Aged(calls, past) /\ \A j \in DOMAIN calls : calls[j].ans # Pending => past[j].old
    BY <1>6, ServedAged
  <2> HIDE DEF past
  <2>3. Outstanding(past, loadingMore)
    BY <1>6, <2>2, AgedKeeps
  <2>4. LoadsTrue(past, Sent, events, left', clock)
    BY <2>2, AgedForgets DEF IInv
  <2>5. News(events, left', scoped)
    BY <1>6, <2>1 DEF News, LastIsTrue
  <2> QED BY <1>2, <1>5, <1>7, <2>1, <2>3, <2>4, <2>5 DEF IInv, Base
<1>9. CASE stream = "open" /\ (scoped => p \in Fitting["near"])
  <2>1. events' = Append(events, e) /\ UNCHANGED <<calls, astray>>
    BY <1>1, <1>9
  <2> HIDE DEF e
  <2>2. /\ events' \in Seq(Tidings) /\ LastIsTrue(events', left')
        /\ \A k \in DOMAIN events' : events'[k] = e \/ \E l \in DOMAIN events : events'[k] = events[l]
        /\ \A q : Coming(events, q) => Coming(events', q)
        /\ Coming(events', p)
    <3>1. left'[e.post] = e.left /\ \A q \in Posts : q # e.post => left'[q] = left[q]
      BY <1>3, <1>4
    <3>2. /\ Append(events, e) \in Seq(Tidings) /\ LastIsTrue(Append(events, e), left')
          /\ \A k \in DOMAIN Append(events, e) :
               Append(events, e)[k] = e \/ \E l \in DOMAIN events : Append(events, e)[k] = events[l]
          /\ \A q : Coming(events, q) => Coming(Append(events, e), q)
          /\ Coming(Append(events, e), e.post)
      BY <1>3, <1>6, <3>1, Announced
    <3> QED BY <1>3, <2>1, <3>2
  <2>3. News(events', left', scoped)
    BY <1>3, <1>6, <1>9, <2>2 DEF News
  <2>4. \A q \in Matches(Sent) : left'[q] = left[q] \/ Coming(events', q)
    BY <1>4, <2>2 DEF Matches
  <2>5. /\ LoadsTrue(calls, Sent, events, left, clock) => LoadsTrue(calls, Sent, events', left', clock)
        /\ MoresTrue(calls, next, Sent, events, left, clock)
             => MoresTrue(calls, next, Sent, events', left', clock)
        /\ Right(cards, next, 0, Sent, events, left, clock)
             => Right(cards, next, 0, Sent, events', left', clock)
    BY <1>6, <2>2, <2>4, StillTrue, StillRight
  <2> QED BY <1>2, <1>5, <1>7, <1>9, <2>1, <2>3, <2>5 DEF IInv, Base
<1>10. CASE stream = "open" /\ scoped /\ p \notin Fitting["near"]
  <2>1. events' = events /\ UNCHANGED <<calls, astray>>
    BY <1>1, <1>10
  <2>2. \A q \in Matches(Sent) : q \in Posts /\ q # p
    BY <1>10 DEF Matches, Sent, Wanted, Scoped
  <2>3. \A k \in DOMAIN events : events[k].post \in Posts /\ events[k].post # p
    <3>1. \A k \in DOMAIN events : events[k] \in Tidings
      BY <1>6
    <3> QED BY <1>6, <1>10, <3>1 DEF Tidings
  <2>4. News(events, left', scoped)
    BY <1>4, <1>6, <2>3 DEF News, LastIsTrue
  <2>5. /\ LoadsTrue(calls, Sent, events, left, clock) => LoadsTrue(calls, Sent, events, left', clock)
        /\ MoresTrue(calls, next, Sent, events, left, clock)
             => MoresTrue(calls, next, Sent, events, left', clock)
        /\ Right(cards, next, 0, Sent, events, left, clock)
             => Right(cards, next, 0, Sent, events, left', clock)
    BY <1>4, <1>6, <2>2, StillTrue, StillRight
  <2> QED BY <1>2, <1>5, <1>7, <1>10, <2>1, <2>4, <2>5 DEF IInv, Base
<1> QED BY <1>8, <1>9, <1>10

\* A change that nobody is told of: what was answered or sent before is out of
\* date, and the list with it.
LEMMA SilentStep ==
  ASSUME IInv, NEW p \in Posts, Silently(p), {left', stored'} \subseteq [Posts -> 0..Portions],
         \A q \in Posts : q # p => left'[q] = left[q]
  PROVE  IInv'
<1> DEFINE past == Overtaken(calls, Served)
           t == [i \in DOMAIN events |-> [events[i] EXCEPT !.old = @ \/ events[i].post = p]]
<1>1. /\ calls' = past /\ events' = t /\ astray' = TRUE
      /\ UNCHANGED <<cards, next, loading, refreshing, loadingMore, error, offline, chosen, typed,
                     searched, located, stream, clock>>
  BY DEF Silently, feed, list, flags, trouble, filters
<1>2. /\ events \in Seq(Tidings) /\ LastIsTrue(events, left) /\ calls \in Seq(Requests)
      /\ Scoped(chosen, located) => \A k \in DOMAIN events : events[k].post \in Fitting["near"]
      /\ Outstanding(calls, loadingMore)
  BY DEF IInv, News, Base, Outstanding
<1>3. Scalars' /\ Sent' = Sent
  BY <1>1 DEF IInv, Base, Scalars, Sent
<1>4. Aged(calls, past) /\ \A j \in DOMAIN calls : calls[j].ans # Pending => past[j].old
  BY <1>2, ServedAged
<1>5. /\ t \in Seq(Tidings) /\ DOMAIN t = DOMAIN events
      /\ \A k \in DOMAIN events :
           /\ t[k].post = events[k].post /\ t[k].left = events[k].left /\ events[k].post \in Posts
           /\ t[k].old = (events[k].old \/ events[k].post = p)
  <2>1. ASSUME NEW k \in DOMAIN events
        PROVE  /\ t[k] \in Tidings /\ t[k].post = events[k].post /\ t[k].left = events[k].left
               /\ events[k].post \in Posts /\ t[k].old = (events[k].old \/ events[k].post = p)
    <3>1. events[k] \in Tidings
      BY <1>2
    <3> DEFINE e == events[k]
               o == e.old \/ e.post = p
    <3>2. t[k] = [e EXCEPT !.old = o] /\ o \in BOOLEAN
      BY <3>1 DEF Tidings
    <3> HIDE DEF o, t
    <3>3. [e EXCEPT !.old = o] \in Tidings /\ [e EXCEPT !.old = o].post = e.post
          /\ [e EXCEPT !.old = o].left = e.left /\ [e EXCEPT !.old = o].old = o /\ e.post \in Posts
      BY <3>1, <3>2 DEF Tidings
    <3> QED BY <3>2, <3>3 DEF o
  <2>2. t \in [DOMAIN events -> Tidings]
    BY <2>1
  <2> HIDE DEF t
  <2> QED BY <1>2, <2>1, <2>2, Mapped
<1>6. stream = "opening" => events' = <<>>
  <2> SUFFICES ASSUME stream = "opening"
               PROVE  events' = <<>>
    OBVIOUS
  <2>1. events = <<>>
    BY DEF IInv
  <2> QED BY <1>1, <2>1
<1> HIDE DEF past, t
<1>7. News(t, left', Scoped(chosen, located))
  <2>1. LastIsTrue(t, left')
    <3> SUFFICES ASSUME NEW k \in DOMAIN t, ~t[k].old,
                        \A l \in DOMAIN t : l > k => t[l].post # t[k].post
                 PROVE  t[k].left = left'[t[k].post]
      BY DEF LastIsTrue
    <3>1. ~events[k].old /\ events[k].post # p /\ k \in DOMAIN events
      BY <1>5
    <3>2. \A l \in DOMAIN events : l > k => events[l].post # events[k].post
      BY <1>5
    <3>3. events[k].left = left[events[k].post]
      BY <1>2, <3>1, <3>2 DEF LastIsTrue
    <3> QED BY <1>5, <3>1, <3>3
  <2> QED BY <1>2, <1>5, <2>1 DEF News
<1>8. Outstanding(past, loadingMore)
  BY <1>2, <1>4, AgedKeeps
<1>9. LoadsTrue(past, Sent, t, left', clock)
  BY <1>4, AgedForgets DEF IInv
<1> QED BY <1>1, <1>3, <1>6, <1>7, <1>8, <1>9 DEF IInv, Base

LEMMA SweepStep == ASSUME IInv, NEW p \in Posts, Sweep(p) PROVE IInv'
<1>1. PICK n \in left[p] + 1..Portions : left' = [left EXCEPT ![p] = n]
  BY DEF Sweep
<1>2. left \in [Posts -> 0..Portions] /\ stored' = left' /\ Silently(p)
  BY DEF Sweep, IInv, Base, Scalars
<1>3. n \in 0..Portions
  BY <1>1, <1>2, FeedAssumption
<1>4. left' \in [Posts -> 0..Portions] /\ \A q \in Posts : q # p => left'[q] = left[q]
  BY <1>1, <1>2, <1>3
<1> QED BY <1>2, <1>4, SilentStep

LEMMA RollbackStep == ASSUME IInv, NEW p \in Posts, Rollback(p) PROVE IInv'
<1>1. left' = [left EXCEPT ![p] = stored[p]] /\ stored' = stored /\ Silently(p)
  BY DEF Rollback
<1>2. {left, stored} \subseteq [Posts -> 0..Portions]
  BY DEF IInv, Base, Scalars
<1>3. left' \in [Posts -> 0..Portions] /\ \A q \in Posts : q # p => left'[q] = left[q]
  BY <1>1, <1>2
<1> QED BY <1>1, <1>2, <1>3, SilentStep

LEMMA CommitStep == ASSUME IInv, Commit PROVE IInv'
<1>1. /\ \E p \in Posts : stored' = [stored EXCEPT ![p] = left[p]]
      /\ UNCHANGED <<cards, next, loading, refreshing, loadingMore, error, offline, chosen, typed,
                     searched, located, calls, stream, events, left, clock, astray>>
  BY DEF Commit, Unsaved, feed, list, flags, trouble, filters
<1>2. Scalars' /\ Sent' = Sent
  <2>1. stored' \in [Posts -> 0..Portions]
    BY <1>1 DEF IInv, Base, Scalars
  <2> QED BY <1>1, <2>1 DEF IInv, Base, Scalars, Sent
<1> QED BY <1>1, <1>2 DEF IInv, Base

LEMMA ExpireStep == ASSUME IInv, Expire PROVE IInv'
<1>1. /\ clock' = clock + 1 /\ clock < PostCount
      /\ UNCHANGED <<cards, next, loading, refreshing, loadingMore, error, offline, chosen, typed,
                     searched, located, calls, stream, events, left, stored, astray>>
  BY DEF Expire, feed, list, flags, trouble, filters
<1>2. /\ clock \in Nat /\ clock' \in Nat /\ clock <= clock' /\ clock' \in 0..PostCount
      /\ calls \in Seq(Requests) /\ cards \in Seq(Cards)
  BY <1>1, FeedAssumption DEF IInv, Base, Scalars, Outstanding
<1>3. Scalars'
  BY <1>1, <1>2 DEF IInv, Base, Scalars
<1>4. Sent' = Sent
  BY <1>1 DEF Sent
<1>5. /\ LoadsTrue(calls, Sent, events, left, clock) => LoadsTrue(calls, Sent, events, left, clock')
      /\ MoresTrue(calls, next, Sent, events, left, clock)
           => MoresTrue(calls, next, Sent, events, left, clock')
      /\ Right(cards, next, 0, Sent, events, left, clock)
           => Right(cards, next, 0, Sent, events, left, clock')
  BY <1>2, StillTrue, StillRight
<1> QED BY <1>1, <1>3, <1>4, <1>5 DEF IInv, Base

\* Serving and losing a request.
LEMMA AnswerStep ==
  ASSUME IInv, NEW i \in DOMAIN calls, NEW a \in Answers, Distinct(a.items),
         NEW o \in BOOLEAN, calls[i].old => o,
         a.code = "200" /\ ~o =>
           Right(a.items, a.next, calls[i].cursor, calls[i].filters, events, left, clock),
         calls' = [calls EXCEPT ![i].ans = a, ![i].old = o], UNCHANGED <<feed, stream, events, server, astray>>
  PROVE  IInv'
<1>1. UNCHANGED <<cards, next, loading, refreshing, loadingMore, error, offline, chosen, typed,
                  searched, located, stream, events, left, stored, clock, astray>>
  BY DEF feed, list, flags, trouble, filters, server
<1>2. Scalars' /\ Sent' = Sent
  BY <1>1 DEF IInv, Base, Scalars, Sent
<1>3. Outstanding(calls, loadingMore)
  BY DEF IInv, Base
<1>4. /\ Outstanding(calls', loadingMore)
      /\ LoadsTrue(calls, Sent, events, left, clock) => LoadsTrue(calls', Sent, events, left, clock)
      /\ MoresTrue(calls, next, Sent, events, left, clock)
           => MoresTrue(calls', next, Sent, events, left, clock)
      /\ Due(calls, Sent, error, offline) => Due(calls', Sent, error, offline)
  BY <1>3, Answered
<1> QED BY <1>1, <1>2, <1>4 DEF IInv, Base

\* What is right of the rows as committed is right of them as written, save for
\* what the events will put right.
LEMMA CommittedRight ==
  ASSUME NEW f, NEW cs, PostsOf(cs) \subseteq Posts, NEW nx, NEW from,
         Right(cs, nx, from, f, events, stored, clock), ~Early(f)
  PROVE  Right(cs, nx, from, f, events, left, clock)
<1>1. \A p \in Matches(f) : stored[p] = left[p] \/ Coming(events, p)
  BY DEF Early, Unsaved, Matches, Coming
<1>2. \A i \in DOMAIN cs : cs[i].post > clock =>
         /\ cs[i].post \in Matches(f)
         /\ cs[i].left = left[cs[i].post] \/ Coming(events, cs[i].post)
  BY <1>1 DEF Right
<1>3. \A p \in Matches(f) : left[p] > 0 /\ p > clock /\ p > from =>
         p \in PostsOf(cs) \/ (nx # 0 /\ p > nx) \/ Coming(events, p)
  BY <1>1 DEF Right
<1> QED BY <1>2, <1>3 DEF Right

LEMMA ServeStep == ASSUME IInv, Serve PROVE IInv'
<1>1. PICK i \in DOMAIN calls :
        /\ calls' = [calls EXCEPT ![i].ans = Page(calls[i].filters, calls[i].cursor),
                                  ![i].old = @ \/ Early(calls[i].filters)]
        /\ UNCHANGED <<feed, stream, events, server, astray>>
  BY DEF Serve
<1> DEFINE f == calls[i].filters
           a == Page(f, calls[i].cursor)
           o == calls[i].old \/ Early(f)
<1>2. /\ calls[i].cursor \in 0..PostCount /\ stored \in [Posts -> 0..Portions] /\ clock \in 0..PostCount
      /\ calls[i].old \in BOOLEAN
  <2>1. calls[i] \in Requests
    BY DEF IInv, Base, Outstanding
  <2> QED BY <2>1 DEF IInv, Base, Scalars, Requests
<1>3. /\ a \in Answers /\ a.code = "200" /\ Distinct(a.items)
      /\ Right(a.items, a.next, calls[i].cursor, f, events, stored, clock)
  BY <1>2, PageRight
<1>4. calls' = [calls EXCEPT ![i].ans = a, ![i].old = o]
  BY <1>1
<1>5. o \in BOOLEAN /\ (calls[i].old => o) /\ (~o => ~Early(f))
  BY <1>2 DEF Early
<1> HIDE DEF a, o, f
<1>6. PostsOf(a.items) \subseteq Posts
  <2>1. a.items \in Seq(Cards)
    BY <1>3 DEF Answers
  <2>2. \A k \in DOMAIN a.items : a.items[k] \in Cards
    BY <2>1
  <2> QED BY <2>2 DEF PostsOf, Cards
<1>7. ~o => Right(a.items, a.next, calls[i].cursor, f, events, left, clock)
  BY <1>3, <1>5, <1>6, CommittedRight
<1> QED BY <1>1, <1>3, <1>4, <1>5, <1>7, AnswerStep DEF f

LEMMA LoseStep == ASSUME IInv, Lose PROVE IInv'
<1>1. PICK i \in DOMAIN calls, code \in {"lost", "garbled"} :
        /\ calls' = [calls EXCEPT ![i].ans = Failed(code)]
        /\ UNCHANGED <<feed, stream, events, server, astray>>
  BY DEF Lose
<1>4. calls[i].old \in BOOLEAN /\ calls' = [calls EXCEPT ![i].ans = Failed(code), ![i].old = calls[i].old]
  <2>1. calls[i] \in Requests
    BY DEF IInv, Base, Outstanding
  <2>2. [calls[i] EXCEPT !.ans = Failed(code)]
        = [calls[i] EXCEPT !.ans = Failed(code), !.old = calls[i].old]
    BY <2>1 DEF Requests
  <2> QED BY <1>1, <2>1, <2>2 DEF Requests
<1>2. Failed(code) \in Answers /\ Failed(code).code # "200" /\ Failed(code).items = <<>>
  <2>1. <<>> \in Seq(Cards) /\ 0 \in 0..PostCount
    BY FeedAssumption
  <2> QED BY <2>1 DEF Failed, Pending, Answers
<1>3. Distinct(<<>>)
  BY DEF Distinct
<1> QED BY <1>1, <1>2, <1>3, <1>4, AnswerStep

-----------------------------------------------------------------------------
(***************************************************************************)
(* Answers.                                                                *)
(***************************************************************************)

LEMMA LoadAnsweredStep ==
  ASSUME IInv, NEW i \in DOMAIN calls, LoadAnswered(i), UNCHANGED <<filters, stream, events, server>>
  PROVE  IInv'
<1> DEFINE c == calls[i]
           g == [j \in DOMAIN calls |-> j < i \/ calls[j].kind = "more"]
           past == Past(calls, g)
           rest == RemoveAt(past, i)
<1>1. /\ calls' = rest /\ c.kind = "load" /\ loading' = FALSE /\ refreshing' = FALSE
      /\ \/ /\ c.ans.code = "200" /\ cards' = c.ans.items /\ next' = c.ans.next
            /\ offline' = FALSE /\ astray' = c.old /\ UNCHANGED error
         \/ error' = TRUE /\ offline' = FALSE /\ UNCHANGED <<cards, next, astray>>
         \/ error' = FALSE /\ offline' = TRUE /\ UNCHANGED <<cards, next, astray>>
      /\ UNCHANGED <<loadingMore, chosen, typed, searched, located, stream, events, left, stored, clock>>
  BY DEF LoadAnswered, Overtaken, Past, list, filters, server
<1>2. /\ Outstanding(calls, loadingMore) /\ calls \in Seq(Requests) /\ c \in Requests /\ Sound(c)
      /\ c.ans \in Answers
  <2>1. Outstanding(calls, loadingMore)
    BY DEF IInv, Base
  <2>2. calls \in Seq(Requests) /\ c \in Requests /\ Sound(c)
    BY <2>1 DEF Outstanding
  <2> QED BY <2>1, <2>2 DEF Requests
<1>3. /\ Aged(calls, past)
      /\ \A j \in DOMAIN calls : (j < i => past[j].old) /\ (calls[j].kind = "more" => past[j].old)
  <2>1. g \in [DOMAIN calls -> BOOLEAN]
    OBVIOUS
  <2>2. \A j \in DOMAIN calls : (j < i => g[j]) /\ (calls[j].kind = "more" => g[j])
    OBVIOUS
  <2> HIDE DEF g
  <2>3. Aged(calls, past) /\ \A j \in DOMAIN calls : g[j] => past[j].old
    BY <1>2, <2>1, PastAged
  <2> QED BY <2>2, <2>3
<1> HIDE DEF g, past
<1>4. /\ DOMAIN past = DOMAIN calls
      /\ \A j \in DOMAIN calls : past[j].kind = calls[j].kind /\ past[j].filters = calls[j].filters
  BY <1>3 DEF Aged, Same
<1>5. Outstanding(past, loadingMore) /\ LoadsTrue(past, Sent, events, left, clock)
  BY <1>2, <1>3, AgedKeeps DEF IInv
<1>6. /\ Outstanding(rest, loadingMore)
      /\ \A j \in DOMAIN rest : \E k \in DOMAIN past : rest[j] = past[k]
      /\ \A k \in DOMAIN past \ {i} : \E j \in DOMAIN rest : rest[j] = past[k]
      /\ LoadsTrue(rest, Sent, events, left, clock)
  <2>1. i \in DOMAIN past /\ \A j \in DOMAIN past : j < i => past[j].old
    BY <1>3, <1>4
  <2> QED BY <1>5, <2>1, Received
<1> HIDE DEF rest
<1>7. \A nx : MoresTrue(rest, nx, Sent, events, left, clock)
  BY <1>3, <1>4, <1>6 DEF MoresTrue
<1>8. Scalars'
  <2>1. next' \in 0..PostCount /\ {error', offline', astray'} \subseteq BOOLEAN
    BY <1>1, <1>2 DEF IInv, Base, Scalars, Requests, Answers
  <2> QED BY <1>1, <2>1 DEF IInv, Base, Scalars
<1>9. cards' \in Seq(Cards) /\ Distinct(cards')
  BY <1>1, <1>2 DEF IInv, Base, Sound, Answers
<1>10. Sent' = Sent
  BY <1>1 DEF Sent
<1>11. ASSUME ~astray', ~Due(calls', Sent, error', offline')
       PROVE  Right(cards', next', 0, Sent, events, left, clock)
  <2>1. /\ cards' = c.ans.items /\ next' = c.ans.next /\ c.ans.code = "200" /\ ~c.old
    BY <1>1, <1>11 DEF Due
  <2>2. ASSUME NEW k \in DOMAIN calls, k > i, calls[k].kind = "load", calls[k].filters = Sent
        PROVE  FALSE
    <3>1. k # i
      <4>1. i \in Nat
        BY <1>2, LenProperties
      <4> QED BY <2>2, <4>1
    <3>2. \E j \in DOMAIN rest : rest[j].kind = "load" /\ rest[j].filters = Sent
      BY <1>4, <1>6, <2>2, <3>1
    <3> QED BY <1>1, <1>11, <3>2 DEF Due
  <2>3. True(c, Sent, events, left, clock)
    BY <1>1, <2>1, <2>2 DEF IInv, LoadsTrue
  <2>4. c.cursor = 0
    BY <1>1, <1>2 DEF Sound
  <2> QED BY <2>1, <2>3, <2>4 DEF True
<1> QED BY <1>1, <1>6, <1>7, <1>8, <1>9, <1>10, <1>11 DEF IInv, Base

\* A page put at the end of the list, what the list has already left out.
LEMMA MoreRight ==
  ASSUME cards \in Seq(Cards), Distinct(cards), NEW items \in Seq(Cards), Distinct(items),
         NEW f, NEW evs, NEW lf, NEW ck, NEW nx \in Nat, NEW nx2
  PROVE  LET new == cards \o Unseen(items) IN
         /\ new \in Seq(Cards) /\ Distinct(new)
         /\ nx # 0 /\ Right(cards, nx, 0, f, evs, lf, ck) /\ Right(items, nx2, nx, f, evs, lf, ck)
              => Right(new, nx2, 0, f, evs, lf, ck)
<1> DEFINE unseen == Posts \ Shown
           extra == Only(items, unseen)
           new == cards \o extra
<1>1. Unseen(items) = extra
  BY DEF Unseen
<1>2. \A p \in Posts : p \in unseen <=> p \notin PostsOf(cards)
  BY DEF Shown, PostsOf
<1> HIDE DEF unseen
<1>3. /\ extra \in Seq(Cards) /\ Distinct(extra)
      /\ \A k \in DOMAIN extra : \E j \in DOMAIN items : extra[k] = items[j] /\ items[j].post \in unseen
      /\ \A j \in DOMAIN items : items[j].post \in unseen => \E k \in DOMAIN extra : extra[k] = items[j]
  BY Kept
<1> HIDE DEF extra
<1>4. /\ Len(cards) \in Nat /\ DOMAIN cards = 1 .. Len(cards)
      /\ Len(extra) \in Nat /\ DOMAIN extra = 1 .. Len(extra)
      /\ \A i \in DOMAIN cards : cards[i].post \in Posts
      /\ \A i \in DOMAIN items : items[i].post \in Posts
  <2>1. \A i \in DOMAIN cards : cards[i] \in Cards
    OBVIOUS
  <2>2. \A i \in DOMAIN items : items[i] \in Cards
    OBVIOUS
  <2> QED BY <1>3, <2>1, <2>2, LenProperties DEF Cards
<1>5. /\ new \in Seq(Cards) /\ DOMAIN new = 1 .. (Len(cards) + Len(extra))
      /\ \A i \in 1 .. (Len(cards) + Len(extra)) :
           new[i] = IF i <= Len(cards) THEN cards[i] ELSE extra[i - Len(cards)]
  BY <1>3, <1>4, ConcatProperties, LenProperties
<1> HIDE DEF new
<1>6. \A i \in DOMAIN cards : i \in DOMAIN new /\ new[i] = cards[i]
  BY <1>4, <1>5
<1>7. \A k \in DOMAIN extra : Len(cards) + k \in DOMAIN new /\ new[Len(cards) + k] = extra[k]
  <2> SUFFICES ASSUME NEW k \in DOMAIN extra
               PROVE  Len(cards) + k \in DOMAIN new /\ new[Len(cards) + k] = extra[k]
    OBVIOUS
  <2>1. /\ Len(cards) + k \in 1 .. (Len(cards) + Len(extra)) /\ ~(Len(cards) + k <= Len(cards))
        /\ (Len(cards) + k) - Len(cards) = k
    BY <1>4
  <2> QED BY <1>5, <2>1
<1>8. \A i \in DOMAIN new : \/ i \in DOMAIN cards
                            \/ i - Len(cards) \in DOMAIN extra /\ ~(i <= Len(cards))
  BY <1>4, <1>5
<1>9. \A i \in DOMAIN new : \/ i \in DOMAIN cards /\ new[i] = cards[i]
                            \/ i - Len(cards) \in DOMAIN extra /\ new[i] = extra[i - Len(cards)]
  BY <1>5, <1>6, <1>8
<1>10. \A k \in DOMAIN extra : extra[k].post \notin PostsOf(cards)
  BY <1>2, <1>3, <1>4
<1>11. Distinct(new)
  <2> SUFFICES ASSUME NEW i \in DOMAIN new, NEW j \in DOMAIN new, new[i].post = new[j].post
               PROVE  i = j
    BY DEF Distinct
  <2>1. CASE i \in DOMAIN cards /\ j \in DOMAIN cards
    BY <1>6, <2>1 DEF Distinct
  <2>2. CASE i \notin DOMAIN cards /\ j \notin DOMAIN cards
    <3>1. /\ i - Len(cards) \in DOMAIN extra /\ new[i] = extra[i - Len(cards)]
          /\ j - Len(cards) \in DOMAIN extra /\ new[j] = extra[j - Len(cards)]
      BY <1>9, <2>2
    <3>2. i - Len(cards) = j - Len(cards)
      BY <1>3, <3>1 DEF Distinct
    <3> QED BY <1>4, <1>5, <3>2
  <2>3. CASE i \in DOMAIN cards /\ j \notin DOMAIN cards
    BY <1>6, <1>9, <1>10, <2>3 DEF PostsOf
  <2>4. CASE i \notin DOMAIN cards /\ j \in DOMAIN cards
    BY <1>6, <1>9, <1>10, <2>4 DEF PostsOf
  <2> QED BY <2>1, <2>2, <2>3, <2>4
<1>12. \A p \in Posts : p \in PostsOf(cards) \/ p \in PostsOf(items) => p \in PostsOf(new)
  <2>1. \A p \in PostsOf(cards) : p \in PostsOf(new)
    BY <1>6 DEF PostsOf
  <2>2. ASSUME NEW j \in DOMAIN items, items[j].post \notin PostsOf(cards)
        PROVE  items[j].post \in PostsOf(new)
    <3>1. PICK k \in DOMAIN extra : extra[k] = items[j]
      BY <1>2, <1>3, <1>4, <2>2
    <3> QED BY <1>7, <3>1 DEF PostsOf
  <2> QED BY <2>1, <2>2 DEF PostsOf
<1>13. ASSUME nx # 0, Right(cards, nx, 0, f, evs, lf, ck), Right(items, nx2, nx, f, evs, lf, ck)
       PROVE  Right(new, nx2, 0, f, evs, lf, ck)
  <2>1. ASSUME NEW i \in DOMAIN new, new[i].post > ck
        PROVE  /\ new[i].post \in Matches(f)
               /\ new[i].left = lf[new[i].post] \/ Coming(evs, new[i].post)
    <3>1. CASE i \in DOMAIN cards /\ new[i] = cards[i]
      BY <1>13, <2>1, <3>1 DEF Right
    <3>2. CASE i - Len(cards) \in DOMAIN extra /\ new[i] = extra[i - Len(cards)]
      <4>1. PICK j \in DOMAIN items : new[i] = items[j]
        BY <1>3, <3>2
      <4> QED BY <1>13, <2>1, <4>1 DEF Right
    <3> QED BY <1>9, <3>1, <3>2
  <2>2. ASSUME NEW p \in Matches(f), lf[p] > 0, p > ck, p > 0
        PROVE  p \in PostsOf(new) \/ (nx2 # 0 /\ p > nx2) \/ Coming(evs, p)
    <3>1. p \in PostsOf(cards) \/ p > nx \/ Coming(evs, p)
      BY <1>13, <2>2 DEF Right
    <3>2. p > nx => p \in PostsOf(items) \/ (nx2 # 0 /\ p > nx2) \/ Coming(evs, p)
      BY <1>13, <2>2 DEF Right
    <3>3. p \in Posts
      BY DEF Matches
    <3> QED BY <1>12, <3>1, <3>2, <3>3
  <2> QED BY <2>1, <2>2 DEF Right
<1> QED BY <1>1, <1>5, <1>11, <1>13 DEF new

LEMMA MoreAnsweredStep ==
  ASSUME IInv, NEW i \in DOMAIN calls, MoreAnswered(i), UNCHANGED <<filters, stream, events, server>>
  PROVE  IInv'
<1> DEFINE c == calls[i]
           rest == RemoveAt(calls, i)
           new == cards \o Unseen(c.ans.items)
<1>1. /\ calls' = rest /\ c.kind = "more" /\ loadingMore' = FALSE
      /\ \/ /\ c.ans.code = "200" /\ cards' = new /\ next' = c.ans.next
            /\ astray' = (astray \/ c.old)
         \/ UNCHANGED <<cards, next, astray>>
      /\ UNCHANGED <<loading, refreshing, error, offline, chosen, typed, searched, located, stream,
                     events, left, stored, clock>>
  BY DEF MoreAnswered, list, trouble, filters, server
<1>2. /\ Outstanding(calls, loadingMore) /\ calls \in Seq(Requests) /\ c \in Requests /\ Sound(c)
      /\ c.ans \in Answers /\ c.ans.items \in Seq(Cards) /\ Distinct(c.ans.items)
      /\ cards \in Seq(Cards) /\ Distinct(cards)
  <2>1. Outstanding(calls, loadingMore) /\ cards \in Seq(Cards) /\ Distinct(cards)
    BY DEF IInv, Base
  <2>2. calls \in Seq(Requests) /\ c \in Requests /\ Sound(c)
    BY <2>1 DEF Outstanding
  <2>3. c.ans \in Answers
    BY <2>2 DEF Requests
  <2> QED BY <2>1, <2>2, <2>3 DEF Sound, Answers
<1>3. /\ Outstanding(rest, FALSE) /\ \A j \in DOMAIN rest : rest[j].kind # "more"
      /\ \A k \in DOMAIN calls \ {i} : \E j \in DOMAIN rest : rest[j] = calls[k]
      /\ LoadsTrue(rest, Sent, events, left, clock)
  BY <1>1, <1>2, Received DEF IInv
<1> HIDE DEF rest, new
<1>4. Scalars'
  <2>1. next' \in 0..PostCount /\ astray' \in BOOLEAN
    BY <1>1, <1>2 DEF IInv, Base, Scalars, Requests, Answers
  <2> QED BY <1>1, <2>1 DEF IInv, Base, Scalars
<1>5. Sent' = Sent
  BY <1>1 DEF Sent
<1>6. Due(calls, Sent, error, offline) => Due(rest, Sent, error, offline)
  <2>1. \A k \in DOMAIN calls : calls[k].kind = "load" => k # i
    BY <1>1
  <2> QED BY <1>3, <2>1 DEF Due
<1>7. next \in Nat
  BY FeedAssumption DEF IInv, Base, Scalars
<1>8. new \in Seq(Cards) /\ Distinct(new)
  BY <1>2, <1>7, MoreRight DEF new
<1>9. ASSUME ~astray', ~Due(rest, Sent, error, offline)
      PROVE  Right(cards', next', 0, Sent, events, left, clock)
  <2>1. /\ Right(cards, next, 0, Sent, events, left, clock)
        /\ MoresTrue(calls, next, Sent, events, left, clock)
    BY <1>1, <1>6, <1>9 DEF IInv, Base, Scalars
  <2>2. CASE UNCHANGED <<cards, next, astray>>
    BY <2>1, <2>2
  <2>3. CASE c.ans.code = "200" /\ cards' = new /\ next' = c.ans.next /\ ~c.old
    <3>1. Right(c.ans.items, c.ans.next, next, Sent, events, left, clock)
      BY <1>1, <2>1, <2>3 DEF MoresTrue, True
    <3>2. next # 0
      BY <1>1, <1>2, <2>1, <2>3 DEF MoresTrue, Sound
    <3> QED BY <1>2, <1>7, <2>1, <2>3, <3>1, <3>2, MoreRight DEF new
  <2>4. c.old => astray' \/ UNCHANGED <<cards, next, astray>>
    BY <1>1 DEF IInv, Base, Scalars
  <2> QED BY <1>1, <1>9, <2>2, <2>3, <2>4
<1>10. cards' \in Seq(Cards) /\ Distinct(cards')
  BY <1>1, <1>2, <1>8
<1>11. MoresTrue(rest, next', Sent, events, left, clock)
  BY <1>3 DEF MoresTrue
<1> QED BY <1>1, <1>3, <1>4, <1>5, <1>9, <1>10, <1>11 DEF IInv, Base

LEMMA ReceiveStep == ASSUME IInv, Receive PROVE IInv'
BY LoadAnsweredStep, MoreAnsweredStep DEF Receive

-----------------------------------------------------------------------------
(***************************************************************************)
(* The theorems.                                                           *)
(***************************************************************************)

LEMMA InitIInv == Init => IInv
<1> SUFFICES ASSUME Init
             PROVE  IInv
  OBVIOUS
<1> DEFINE none == <<>>
           c == Fetch("load", {}, 0)
<1>1. /\ cards = none /\ next = 0 /\ loading = TRUE /\ refreshing = FALSE /\ loadingMore = FALSE
      /\ error = FALSE /\ offline = FALSE
      /\ chosen = {} /\ typed = FALSE /\ searched = FALSE /\ located = FALSE
      /\ calls = Append(none, c) /\ stream = "opening" /\ events = none
      /\ left = [p \in Posts |-> IF p \in Posted THEN Portions ELSE 0]
      /\ stored = left /\ clock = 0 /\ astray = TRUE
  BY DEF Init
<1>2. /\ none \in Seq(Cards) /\ none \in Seq(Requests) /\ none \in Seq(Tidings) /\ DOMAIN none = {}
  OBVIOUS
<1> HIDE DEF none
<1>3. Scalars
  <2>1. 0 \in 0..PostCount /\ \A p \in Posts : left[p] \in 0..Portions
    BY <1>1, FeedAssumption
  <2>2. left \in [Posts -> 0..Portions]
    BY <1>1, <2>1
  <2> QED BY <1>1, <2>1, <2>2 DEF Scalars
<1>4. Distinct(none) /\ Outstanding(none, FALSE)
  BY <1>2 DEF Distinct, Outstanding, OneMore
<1>5. Sent = {} /\ {} \in SUBSET Kinds
  BY <1>1 DEF Sent, Wanted
<1>6. Outstanding(calls, loadingMore) /\ LoadsTrue(calls, Sent, events, left, clock)
  BY <1>1, <1>4, <1>5, LoadSent
<1>7. News(events, left, Scoped(chosen, located))
  BY <1>1, <1>2 DEF News, LastIsTrue
<1> QED BY <1>1, <1>2, <1>3, <1>4, <1>6, <1>7 DEF IInv, Base

LEMMA StepIInv == ASSUME IInv, [Next]_vars PROVE IInv'
<1>1. CASE UNCHANGED vars
  <2>1. UNCHANGED <<cards, next, loading, refreshing, loadingMore, error, offline, chosen, typed,
                    searched, located, calls, stream, events, left, stored, clock, astray>>
    BY <1>1 DEF vars, feed, list, flags, trouble, filters, server
  <2> QED BY <2>1 DEF IInv, Base, Scalars, Sent
<1>2. CASE Person
  BY <1>2, PullStep, TryAgainStep, LoadMoreStep, TypeStep, ChooseStep DEF Person
<1>3. CASE System
  BY <1>3, DebouncedStep, TryAgainStep, PruneStep, OpenedStep, DeliverStep, ReceiveStep, ServeStep,
     CommitStep DEF System
<1>4. CASE Locate \/ Lose \/ Expire
  BY <1>4, LocateStep, LoseStep, ExpireStep
<1>5. ASSUME NEW p \in Posts, Change(p) \/ Sweep(p) \/ Rollback(p)
      PROVE  IInv'
  BY <1>5, ChangeStep, SweepStep, RollbackStep
<1> QED BY <1>1, <1>2, <1>3, <1>4, <1>5 DEF Next

\* The inductive invariant: the list, and every answer on its way to it that
\* nothing has overtaken, is right once the events have come, or a load that
\* will replace it is under way, or the screen says that one failed.
THEOREM FeedInvariant == Spec => []IInv
<1>1. Init => IInv
  BY InitIInv
<1>2. IInv /\ [Next]_vars => IInv'
  BY StepIInv
<1> QED BY <1>1, <1>2, PTL DEF Spec

\* Every handler keeps every variable in its type, and no card is of a post
\* with nothing left to claim.
THEOREM FeedTypeCorrect == Spec => []TypeOK
<1>1. IInv => TypeOK
  <2> SUFFICES ASSUME IInv
               PROVE  TypeOK
    OBVIOUS
  <2>1. \A i \in DOMAIN cards : cards[i] \in [post: Posts, left: 1..Portions]
    <3>1. cards \in Seq(Cards)
      BY DEF IInv, Base
    <3>2. \A i \in DOMAIN cards : cards[i] \in Cards
      BY <3>1
    <3> QED BY <3>2 DEF Cards
  <2>2. ASSUME NEW i \in DOMAIN calls
        PROVE  /\ calls[i].kind \in {"load", "more"} /\ calls[i].filters \subseteq Kinds
               /\ calls[i].cursor \in 0..PostCount /\ Page200(calls[i].ans)
    <3>1. calls[i] \in Requests
      BY DEF IInv, Base, Outstanding
    <3>2. calls[i].ans \in Answers
      BY <3>1 DEF Requests
    <3>3. calls[i].ans.items \in Seq(Cards)
      BY <3>2 DEF Answers
    <3>4. \A k \in DOMAIN calls[i].ans.items : calls[i].ans.items[k] \in Cards
      BY <3>3
    <3>5. \A k \in DOMAIN calls[i].ans.items : calls[i].ans.items[k].left > 0
      BY <3>4 DEF Cards
    <3> QED BY <3>1, <3>5 DEF Requests, Page200
  <2> QED BY <2>1, <2>2 DEF IInv, Base, Scalars, TypeOK
<1> QED BY <1>1, FeedInvariant, PTL

\* However pages, reloads and events meet, no post is on the list twice.
THEOREM NoPostTwice == Spec => []NoDuplicates
<1>1. IInv => NoDuplicates
  BY DEF IInv, Base, Distinct, NoDuplicates
<1> QED BY <1>1, FeedInvariant, PTL

LEMMA AtRest ==
  ASSUME IInv, Settled
  PROVE  /\ Right(cards, next, 0, Sent, events, left, clock) /\ events = <<>>
         /\ \A p : ~Coming(events, p)
         /\ \A p \in Posts : stored[p] = left[p]
<1>1. calls = <<>> /\ events = <<>> /\ ~astray /\ ~error /\ ~offline /\ Unsaved = {}
  BY DEF Settled
<1>2. ~Due(calls, Sent, error, offline)
  BY <1>1 DEF Due
<1> QED BY <1>1, <1>2 DEF IInv, Coming, Unsaved

\* At rest every card in date fits the filters on screen and shows what is
\* left, whether a page was read before or after the commit of a change that an
\* event told of, unless a sweep changed a post without telling (Patched,
\* Silently, session_dependency()).
THEOREM TrueCards == Spec => []CardsAreTrue
<1>1. IInv => CardsAreTrue
  <2> SUFFICES ASSUME IInv, Settled, NEW i \in DOMAIN cards, cards[i].post > clock
               PROVE  cards[i].post \in Matches(Sent) /\ cards[i].left = stored[cards[i].post]
    BY DEF CardsAreTrue
  <2>1. cards[i].post \in Matches(Sent) /\ cards[i].left = left[cards[i].post]
    BY AtRest DEF Right
  <2> QED BY <2>1, AtRest DEF Matches
<1> QED BY <1>1, FeedInvariant, PTL

\* At rest nothing that fits is missing, as far as the list has been scrolled,
\* of what was announced or was up when the list was last read.
THEOREM NothingLeftOut == Spec => []NothingMissing
<1>1. IInv => NothingMissing
  <2> SUFFICES ASSUME IInv, Settled, NEW p \in Available \cap Matches(Sent)
               PROVE  p \in Shown \/ (next # 0 /\ p > next)
    BY DEF NothingMissing
  <2>1. p \in Posts /\ p \in Matches(Sent) /\ stored[p] > 0 /\ p > clock /\ p > 0
    BY DEF Available, Posts
  <2>2. left[p] > 0
    BY <2>1, AtRest
  <2>3. p \in PostsOf(cards) \/ (next # 0 /\ p > next)
    BY <2>1, <2>2, AtRest DEF Right
  <2> QED BY <2>3 DEF PostsOf, Shown
<1> QED BY <1>1, FeedInvariant, PTL
=============================================================================
