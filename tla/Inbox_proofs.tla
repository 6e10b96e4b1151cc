--------------------------- MODULE Inbox_proofs ----------------------------
(***************************************************************************)
(* Theorems about Inbox, for any notifications and bounds: types, that the *)
(* list has what it loaded less what the API let go of, and that the dot   *)
(* does not outlive what it points at.                                     *)
(***************************************************************************)
EXTENDS Inbox, SequenceTheorems, FiniteSetTheorems, TLAPS

-----------------------------------------------------------------------------
(***************************************************************************)
(* Sequences and sets.                                                     *)
(***************************************************************************)

\* RemoveAt keeps the other elements, in their order.
LEMMA RemovedAt ==
  ASSUME NEW S, NEW s \in Seq(S), NEW i \in 1 .. Len(s)
  PROVE  /\ RemoveAt(s, i) \in Seq(S)
         /\ DOMAIN RemoveAt(s, i) = 1 .. (Len(s) - 1)
         /\ \A j \in 1 .. (Len(s) - 1) :
              RemoveAt(s, i)[j] = IF j < i THEN s[j] ELSE s[j + 1]
<1> DEFINE a == SubSeq(s, 1, i - 1)
           b == SubSeq(s, i + 1, Len(s))
<1>1. Len(s) \in Nat /\ i \in Nat /\ i >= 1 /\ i <= Len(s)
  BY LenProperties
<1>2. /\ a \in Seq(S) /\ Len(a) = i - 1
      /\ \A j \in 1 .. i - 1 : a[j] = s[j]
  <2>1. \A j \in 1 .. (i - 1) : s[j] \in S
    BY <1>1, ElementOfSeq
  <2> QED BY <1>1, <2>1, SubSeqProperties
<1>3. /\ b \in Seq(S) /\ Len(b) = Len(s) - i
      /\ \A j \in 1 .. Len(s) - i : b[j] = s[i + j]
  <2>1. \A j \in (i + 1) .. Len(s) : s[j] \in S
    BY <1>1, ElementOfSeq
  <2>2. i + 1 \in Int /\ Len(s) \in Int
    BY <1>1
  <2>3. /\ b \in Seq(S)
        /\ Len(b) = IF i + 1 <= Len(s) THEN Len(s) - (i + 1) + 1 ELSE 0
        /\ \A j \in 1 .. Len(s) - (i + 1) + 1 : b[j] = s[(i + 1) + j - 1]
    BY <2>1, <2>2, SubSeqProperties
  <2>4. /\ Len(s) - (i + 1) + 1 = Len(s) - i
        /\ i + 1 <= Len(s) \/ Len(s) - i = 0
        /\ \A j \in 1 .. Len(s) - i : (i + 1) + j - 1 = i + j
    BY <1>1
  <2> HIDE DEF b
  <2> QED BY <2>3, <2>4
<1>4. RemoveAt(s, i) = a \o b
  BY DEF RemoveAt
<1> HIDE DEF a, b
<1>5. /\ a \o b \in Seq(S)
      /\ Len(a \o b) = Len(a) + Len(b)
      /\ \A j \in 1 .. Len(a) + Len(b) :
           (a \o b)[j] = IF j <= Len(a) THEN a[j] ELSE b[j - Len(a)]
  BY <1>2, <1>3, ConcatProperties
<1>6. Len(a \o b) = Len(s) - 1 /\ DOMAIN (a \o b) = 1 .. (Len(s) - 1)
  BY <1>1, <1>2, <1>3, <1>5, LenProperties
<1>7. ASSUME NEW j \in 1 .. (Len(s) - 1)
      PROVE  (a \o b)[j] = IF j < i THEN s[j] ELSE s[j + 1]
  <2>1. CASE j < i
    BY <1>1, <1>2, <1>3, <1>5, <2>1
  <2>2. CASE ~(j < i)
    <3>1. j - Len(a) \in 1 .. Len(s) - i /\ i + (j - Len(a)) = j + 1
      BY <1>1, <1>2, <2>2
    <3>2. (a \o b)[j] = b[j - Len(a)]
      BY <1>1, <1>2, <1>3, <1>5, <2>2
    <3> QED BY <1>3, <2>2, <3>1, <3>2
  <2> QED BY <2>1, <2>2
<1> QED BY <1>4, <1>5, <1>6, <1>7

\* The same, as a correspondence between the places before and after.
LEMMA Places ==
  ASSUME NEW S, NEW s \in Seq(S), NEW i \in DOMAIN s
  PROVE  /\ RemoveAt(s, i) \in Seq(S)
         /\ \E f \in [DOMAIN RemoveAt(s, i) -> DOMAIN s \ {i}] :
              /\ \A j \in DOMAIN RemoveAt(s, i) : RemoveAt(s, i)[j] = s[f[j]]
              /\ \A j, k \in DOMAIN RemoveAt(s, i) : f[j] = f[k] => j = k
              /\ \A k \in DOMAIN s \ {i} : \E j \in DOMAIN RemoveAt(s, i) : f[j] = k
<1>1. Len(s) \in Nat /\ DOMAIN s = 1 .. Len(s)
  BY LenProperties
<1>2. /\ RemoveAt(s, i) \in Seq(S)
      /\ DOMAIN RemoveAt(s, i) = 1 .. (Len(s) - 1)
      /\ \A j \in 1 .. (Len(s) - 1) :
           RemoveAt(s, i)[j] = IF j < i THEN s[j] ELSE s[j + 1]
  BY <1>1, RemovedAt
<1> DEFINE f == [j \in DOMAIN RemoveAt(s, i) |-> IF j < i THEN j ELSE j + 1]
<1>3. f \in [DOMAIN RemoveAt(s, i) -> DOMAIN s \ {i}]
  BY <1>1, <1>2
<1>4. \A j \in DOMAIN RemoveAt(s, i) : RemoveAt(s, i)[j] = s[f[j]]
  BY <1>1, <1>2
<1>5. \A j, k \in DOMAIN RemoveAt(s, i) : f[j] = f[k] => j = k
  BY <1>1, <1>2
<1>6. ASSUME NEW k \in DOMAIN s \ {i}
      PROVE  \E j \in DOMAIN RemoveAt(s, i) : f[j] = k
  <2>1. CASE k < i
    <3>1. k \in DOMAIN RemoveAt(s, i) /\ f[k] = k
      BY <1>1, <1>2, <2>1
    <3> QED BY <3>1
  <2>2. CASE ~(k < i)
    <3>1. k - 1 \in DOMAIN RemoveAt(s, i) /\ f[k - 1] = k
      BY <1>1, <1>2, <2>2
    <3> QED BY <3>1
  <2> QED BY <2>1, <2>2
<1> HIDE DEF f
<1> QED BY <1>2, <1>3, <1>4, <1>5, <1>6

\* A function on the places of a sequence is a sequence as long.
LEMMA Mapped ==
  ASSUME NEW S, NEW T, NEW s \in Seq(S), NEW t \in [DOMAIN s -> T]
  PROVE  t \in Seq(T) /\ DOMAIN t = DOMAIN s
<1>1. Len(s) \in Nat /\ DOMAIN s = 1 .. Len(s)
  BY LenProperties
<1> QED BY <1>1, SeqDef

\* Append adds one element.
LEMMA Appended ==
  ASSUME NEW S, NEW s \in Seq(S), NEW e \in S
  PROVE  /\ Append(s, e) \in Seq(S)
         /\ Len(s) + 1 \in DOMAIN Append(s, e) \ DOMAIN s
         /\ DOMAIN Append(s, e) = DOMAIN s \cup {Len(s) + 1}
         /\ Append(s, e)[Len(s) + 1] = e
         /\ \A k \in DOMAIN s : Append(s, e)[k] = s[k]
OBVIOUS

-----------------------------------------------------------------------------
(***************************************************************************)
(* The invariant.                                                          *)
(***************************************************************************)

Kinds == {"none", "unread", "read", "gone"}
Loads == {"list", "mark"}

Requests == [kind: {"count"} \cup Loads \cup Removals, rows: SUBSET Rows,
             code: {"pending", "200", "404", "lost"}, served: BOOLEAN,
             body: SUBSET Rows, count: 0 .. Cardinality(Notes), gone: BOOLEAN, old: BOOLEAN]

OneEach(its) == \A r, s \in its : r.id = s.id => r = s

\* A row tells of a notification there has been, and not of one as read
\* before it is.
Seen(r, ns) == ns[r.id] # "none" /\ (r.read => ns[r.id] # "unread")

\* A request, for an API whose notifications are `ns' and which has committed
\* `st': what it holds and what it was answered has been so, and is so if
\* nothing ran over it.
Sound(c, ns, st) ==
    /\ c.code = "pending" => ~c.served
    /\ c.code \in {"200", "404"} => c.served
    /\ c.code = "404" => c.kind = "delete"
    /\ c.kind = "delete" => \E r \in Rows : c.rows = {r}
    /\ c.kind \notin Removals => c.rows = {}
    /\ OneEach(c.body)
    /\ \A r \in c.body \cup c.rows : Seen(r, st)
    /\ c.kind \in {"list", "count"} /\ c.served /\ ~c.old =>
         Ids(c.body) \subseteq KeptIn(ns) /\ c.count <= Cardinality(UnreadIn(ns))

AllSound(cs, ns, st) == cs \in Seq(Requests) /\ \A i \in DOMAIN cs : Sound(cs[i], ns, st)

\* What the list on screen waits for, and what it has sent to be removed.
Waits(c) == ~c.gone /\ c.kind \in Loads

\* The list loads once each time it is mounted, and nothing is removed from it
\* before that is over.
OneLoad(cs, up, spin) ==
    /\ \A i \in DOMAIN cs : Waits(cs[i]) => up /\ spin
    /\ \A i \in DOMAIN cs : Owed(cs[i]) => up /\ ~spin
    /\ \A i, j \in DOMAIN cs : Waits(cs[i]) /\ Waits(cs[j]) => i = j

\* The rows a mounted list has, is asking about, or might put back.
InPlay(r, its, ask, cs) ==
    r \in its \/ (ask # None /\ r \in ask) \/ \E i \in DOMAIN cs : ~cs[i].gone /\ r \in cs[i].rows

\* They are all rows of the one answer the list was loaded with.
OnePage(its, ask, cs, kn, ns) ==
    /\ \A r, s \in Rows : InPlay(r, its, ask, cs) /\ InPlay(s, its, ask, cs) /\ r.id = s.id => r = s
    /\ \A r \in Rows : InPlay(r, its, ask, cs) => r.id \in kn
    /\ kn \subseteq Notes /\ \A n \in kn : ns[n] # "none"
    /\ \A r \in its : Seen(r, ns)
    /\ ask # None => \A r \in ask : Seen(r, ns)

\* What a removal under way leaves true of a list nothing ran over, when `ew'
\* is what another list removed.
TrueTo(c, its, kn, kept, ew) ==
    /\ Owed(c) /\ c.kind = "delete" =>
         /\ Ids(c.rows) \cap Ids(its) = {}
         /\ ~c.served => Ids(c.rows) \subseteq kept \cup ew
         /\ c.code = "404" => Ids(c.rows) \subseteq ew
         /\ c.code = "200" => Ids(c.rows) \cap kept = {}
    /\ Owed(c) /\ c.kind = "clear" =>
         /\ its = {}
         /\ ~c.served => Ids(c.rows) \ ew = kn \cap kept
         /\ c.code = "200" => kn \cap kept = {}

\* Such a list has what was loaded and is kept, less what is being removed.
Told(cs, its, kn, kept, ew) ==
    /\ Ids(its) \subseteq kept \cup ew
    /\ \A n \in kn \cap kept : n \in Ids(its)
         \/ \E i \in DOMAIN cs : Owed(cs[i]) /\ ~cs[i].served /\ n \in Ids(cs[i].rows)
    /\ \A i \in DOMAIN cs : TrueTo(cs[i], its, kn, kept, ew)
    /\ \A i, j \in DOMAIN cs : i # j /\ Owed(cs[i]) /\ Owed(cs[j]) =>
         cs[i].kind = "delete" /\ cs[j].kind = "delete" /\ cs[i].rows # cs[j].rows

\* What the API will let go of.
Leaving(c, n) == c.kind \in Removals /\ ~c.served /\ (c.kind = "clear" \/ n \in Ids(c.rows))
Staying(cs, ns) == {n \in UnreadIn(ns) : \A i \in DOMAIN cs : ~Leaving(cs[i], n)}

\* The dot counts no more than is unread and stays, unless everything has been
\* marked as read and the answer to that is on its way.
Marked(cs) == \E i \in DOMAIN cs : cs[i].kind = "mark" /\ cs[i].served
Counted(cs, dot, ns) == dot <= Cardinality(Staying(cs, ns)) \/ Marked(cs)

\* Transactions hold different rows, and have marked as read, or let go of,
\* what the others still see as they found it.
Ledger(ns, st, op) ==
    /\ \A n \in Notes \ UNION op : st[n] = ns[n]
    /\ \A n \in UNION op : /\ st[n] \in {"unread", "read"} /\ ns[n] \in {"read", "gone"}
                           /\ st[n] = "read" => ns[n] = "gone"
    /\ \A T, U \in op : T # U => T \cap U = {}

Removed(ew, ns) == \A n \in ew : ns[n] = "gone"

IInv ==
    /\ TypeOK
    /\ Ledger(notes, stored, open) /\ Removed(elsewhere, notes)
    /\ ~mounted => known = {}
    /\ AllSound(calls, notes, stored)
    /\ OneLoad(calls, mounted, loading) /\ (asking # None => mounted /\ ~loading)
    /\ OnePage(items, asking, calls, known, stored)
    /\ ~astray => Told(calls, items, known, KeptIn(notes), elsewhere)
    /\ ~stale => Counted(calls, unread, notes)

-----------------------------------------------------------------------------
(***************************************************************************)
(* What the handlers do to the requests outstanding.                       *)
(***************************************************************************)

\* Any request outstanding is one.
LEMMA OneOf ==
  ASSUME NEW cs, NEW ns, NEW st, AllSound(cs, ns, st), NEW i \in DOMAIN cs
  PROVE  cs[i] \in Requests /\ Sound(cs[i], ns, st)
BY ElementOfSeq, LenProperties DEF AllSound

\* Finitely many stay.
LEMMA StayingFinite ==
  ASSUME NEW cs, NEW ns
  PROVE  IsFiniteSet(Staying(cs, ns)) /\ Cardinality(Staying(cs, ns)) \in Nat
<1>1. Staying(cs, ns) \in SUBSET Notes
  BY DEF Staying, UnreadIn
<1> QED BY <1>1, InboxAssumption, FS_Subset, FS_CardinalityType

\* With more that stay, and what is marked, the dot still counts.
LEMMA CountedGrows ==
  ASSUME NEW cs, NEW ds, NEW dot \in Nat, NEW ns, NEW ms, Counted(cs, dot, ns),
         Staying(cs, ns) \subseteq Staying(ds, ms), Marked(cs) => Marked(ds)
  PROVE  Counted(ds, dot, ms)
<1>1. Staying(cs, ns) \in SUBSET Staying(ds, ms)
  OBVIOUS
<1>2. Cardinality(Staying(cs, ns)) <= Cardinality(Staying(ds, ms))
  BY <1>1, StayingFinite, FS_Subset
<1> QED BY <1>2, StayingFinite DEF Counted

\* Sending one.
LEMMA SendCall ==
  ASSUME NEW cs, NEW ns, NEW st, AllSound(cs, ns, st), NEW c \in Requests, Sound(c, ns, st)
  PROVE  /\ AllSound(Append(cs, c), ns, st)
         /\ \A up, spin : OneLoad(cs, up, spin) /\ ~Waits(c) /\ (Owed(c) => up /\ ~spin)
                           => OneLoad(Append(cs, c), up, spin)
         /\ \A up, spin : (\A i \in DOMAIN cs : ~Waits(cs[i]) /\ ~Owed(cs[i]))
                          /\ (Waits(c) => up /\ spin) /\ ~Owed(c)
                           => OneLoad(Append(cs, c), up, spin)
         /\ \A r, its, ask : InPlay(r, its, ask, Append(cs, c)) =>
              InPlay(r, its, ask, cs) \/ (~c.gone /\ r \in c.rows)
         /\ \A its, kn, kept, ew : Told(cs, its, kn, kept, ew) /\ ~Owed(c)
                                => Told(Append(cs, c), its, kn, kept, ew)
         /\ \A dot \in Nat : Counted(cs, dot, ns) /\ c.kind \notin Removals
                                => Counted(Append(cs, c), dot, ns)
<1> DEFINE ds == Append(cs, c)
           n == Len(cs) + 1
<1>1. /\ ds \in Seq(Requests)
      /\ n \in DOMAIN ds \ DOMAIN cs /\ DOMAIN ds = DOMAIN cs \cup {n}
      /\ ds[n] = c /\ \A k \in DOMAIN cs : ds[k] = cs[k]
  BY Appended DEF AllSound
<1> HIDE DEF ds, n
<1>2. AllSound(ds, ns, st)
  BY <1>1 DEF AllSound
<1>3. ASSUME NEW up, NEW spin, OneLoad(cs, up, spin), ~Waits(c), Owed(c) => up /\ ~spin
      PROVE  OneLoad(ds, up, spin)
  BY <1>1, <1>3 DEF OneLoad
<1>7. ASSUME NEW up, NEW spin, \A i \in DOMAIN cs : ~Waits(cs[i]) /\ ~Owed(cs[i]),
             Waits(c) => up /\ spin, ~Owed(c)
      PROVE  OneLoad(ds, up, spin)
  BY <1>1, <1>7 DEF OneLoad
<1>4. ASSUME NEW r, NEW its, NEW ask, InPlay(r, its, ask, ds)
      PROVE  InPlay(r, its, ask, cs) \/ (~c.gone /\ r \in c.rows)
  BY <1>1, <1>4 DEF InPlay
<1>5. ASSUME NEW its, NEW kn, NEW kept, NEW ew, Told(cs, its, kn, kept, ew), ~Owed(c)
      PROVE  Told(ds, its, kn, kept, ew)
  <2>1. TrueTo(c, its, kn, kept, ew)
    BY <1>5 DEF TrueTo
  <2> QED BY <1>1, <1>5, <2>1 DEF Told
<1>6. ASSUME NEW dot \in Nat, Counted(cs, dot, ns), c.kind \notin Removals
      PROVE  Counted(ds, dot, ns)
  <2>1. \A m : ~Leaving(c, m)
    BY <1>6 DEF Leaving
  <2>2. Staying(cs, ns) \subseteq Staying(ds, ns) /\ (Marked(cs) => Marked(ds))
    BY <1>1, <2>1 DEF Staying, Marked
  <2> QED BY <1>6, <2>2, CountedGrows
<1> QED BY <1>2, <1>3, <1>4, <1>5, <1>6, <1>7 DEF ds

\* Taking an answer.
LEMMA DropCall ==
  ASSUME NEW cs, NEW ns, NEW st, AllSound(cs, ns, st), NEW i \in DOMAIN cs
  PROVE  /\ AllSound(RemoveAt(cs, i), ns, st)
         /\ \A up, spin : OneLoad(cs, up, spin) => OneLoad(RemoveAt(cs, i), up, spin)
         /\ \A up, spin, later : OneLoad(cs, up, spin) /\ Waits(cs[i])
                                  => OneLoad(RemoveAt(cs, i), up, later)
         /\ \A up, spin : OneLoad(cs, up, spin) /\ Waits(cs[i])
                           => \A j \in DOMAIN RemoveAt(cs, i) :
                                ~Waits(RemoveAt(cs, i)[j]) /\ ~Owed(RemoveAt(cs, i)[j])
         /\ \A r, its, ask : InPlay(r, its, ask, RemoveAt(cs, i)) => InPlay(r, its, ask, cs)
         /\ \A its, kn, kept, ew : Told(cs, its, kn, kept, ew) /\ ~(Owed(cs[i]) /\ ~cs[i].served)
                                => Told(RemoveAt(cs, i), its, kn, kept, ew)
         /\ \A dot \in Nat : Counted(cs, dot, ns) /\ cs[i].kind # "mark"
                                => Counted(RemoveAt(cs, i), dot, ns)
<1> DEFINE ds == RemoveAt(cs, i)
<1>1. ds \in Seq(Requests)
  BY Places DEF AllSound
<1>2. PICK f \in [DOMAIN ds -> DOMAIN cs \ {i}] :
        /\ \A j \in DOMAIN ds : ds[j] = cs[f[j]]
        /\ \A j, k \in DOMAIN ds : f[j] = f[k] => j = k
        /\ \A k \in DOMAIN cs \ {i} : \E j \in DOMAIN ds : f[j] = k
  BY Places DEF AllSound
<1>3. \A j \in DOMAIN ds : f[j] \in DOMAIN cs \ {i}
  BY <1>2
<1> HIDE DEF ds
<1>4. AllSound(ds, ns, st)
  BY <1>1, <1>2, <1>3 DEF AllSound
<1>5. ASSUME NEW up, NEW spin, OneLoad(cs, up, spin)
      PROVE  /\ OneLoad(ds, up, spin)
             /\ Waits(cs[i]) => \A j \in DOMAIN ds : ~Waits(ds[j]) /\ ~Owed(ds[j])
  BY <1>2, <1>3, <1>5 DEF OneLoad
<1>6. ASSUME NEW up, NEW spin, NEW later, OneLoad(cs, up, spin), Waits(cs[i])
      PROVE  OneLoad(ds, up, later)
  BY <1>5, <1>6 DEF OneLoad
<1>7. ASSUME NEW r, NEW its, NEW ask, InPlay(r, its, ask, ds)
      PROVE  InPlay(r, its, ask, cs)
  BY <1>2, <1>3, <1>7 DEF InPlay
<1>8. ASSUME NEW its, NEW kn, NEW kept, NEW ew, Told(cs, its, kn, kept, ew),
             ~(Owed(cs[i]) /\ ~cs[i].served)
      PROVE  Told(ds, its, kn, kept, ew)
  <2>1. ASSUME NEW n \in kn \cap kept, n \notin Ids(its)
        PROVE  \E j \in DOMAIN ds : Owed(ds[j]) /\ ~ds[j].served /\ n \in Ids(ds[j].rows)
    <3>1. PICK k \in DOMAIN cs : Owed(cs[k]) /\ ~cs[k].served /\ n \in Ids(cs[k].rows)
      BY <1>8, <2>1 DEF Told
    <3>2. PICK j \in DOMAIN ds : f[j] = k
      BY <1>2, <1>8, <3>1
    <3> QED BY <1>2, <3>1, <3>2
  <2>2. \A j \in DOMAIN ds : TrueTo(ds[j], its, kn, kept, ew)
    BY <1>2, <1>3, <1>8 DEF Told
  <2>3. \A j, k \in DOMAIN ds : j # k /\ Owed(ds[j]) /\ Owed(ds[k]) =>
          ds[j].kind = "delete" /\ ds[k].kind = "delete" /\ ds[j].rows # ds[k].rows
    BY <1>2, <1>3, <1>8 DEF Told
  <2>4. Ids(its) \subseteq kept \cup ew
    BY <1>8 DEF Told
  <2> QED BY <2>1, <2>2, <2>3, <2>4 DEF Told
<1>9. ASSUME NEW dot \in Nat, Counted(cs, dot, ns), cs[i].kind # "mark"
      PROVE  Counted(ds, dot, ns)
  <2>1. Staying(cs, ns) \subseteq Staying(ds, ns)
    BY <1>2, <1>3 DEF Staying
  <2>2. Marked(cs) => Marked(ds)
    <3> SUFFICES ASSUME NEW k \in DOMAIN cs, cs[k].kind = "mark", cs[k].served
                 PROVE  Marked(ds)
      BY DEF Marked
    <3>1. PICK j \in DOMAIN ds : f[j] = k
      BY <1>2, <1>9
    <3> QED BY <1>2, <3>1 DEF Marked
  <2> QED BY <1>9, <2>1, <2>2, CountedGrows
<1> QED BY <1>4, <1>5, <1>6, <1>7, <1>8, <1>9 DEF ds

\* Requests that differ in what was read, or in whether that still holds, only.
Alike(c, d) ==
    /\ d.kind = c.kind /\ d.rows = c.rows /\ d.gone = c.gone
    /\ d.code = c.code /\ d.served = c.served

LEMMA AlikeCalls ==
  ASSUME NEW cs, NEW ds, DOMAIN ds = DOMAIN cs, \A i \in DOMAIN cs : Alike(cs[i], ds[i])
  PROVE  /\ \A up, spin : OneLoad(cs, up, spin) => OneLoad(ds, up, spin)
         /\ \A r, its, ask : InPlay(r, its, ask, ds) => InPlay(r, its, ask, cs)
         /\ \A its, kn, kept, ew : Told(cs, its, kn, kept, ew) => Told(ds, its, kn, kept, ew)
         /\ \A dot \in Nat : \A ns : Counted(cs, dot, ns) => Counted(ds, dot, ns)
<1>1. \A i \in DOMAIN cs : Waits(ds[i]) = Waits(cs[i]) /\ Owed(ds[i]) = Owed(cs[i])
  BY DEF Alike, Waits, Owed
<1>2. ASSUME NEW up, NEW spin, OneLoad(cs, up, spin) PROVE OneLoad(ds, up, spin)
  BY <1>1, <1>2 DEF OneLoad
<1>3. ASSUME NEW r, NEW its, NEW ask, InPlay(r, its, ask, ds) PROVE InPlay(r, its, ask, cs)
  BY <1>3 DEF InPlay, Alike
<1>4. ASSUME NEW its, NEW kn, NEW kept, NEW ew, Told(cs, its, kn, kept, ew) PROVE Told(ds, its, kn, kept, ew)
  <2>1. \A i \in DOMAIN cs : TrueTo(ds[i], its, kn, kept, ew)
    BY <1>1, <1>4 DEF Told, TrueTo, Alike
  <2>2. \A i \in DOMAIN cs : ds[i].kind = cs[i].kind /\ ds[i].rows = cs[i].rows
                             /\ ds[i].served = cs[i].served
    BY DEF Alike
  <2> QED BY <1>1, <1>4, <2>1, <2>2 DEF Told
<1>5. ASSUME NEW dot \in Nat, NEW ns, Counted(cs, dot, ns) PROVE Counted(ds, dot, ns)
  <2>1. \A i \in DOMAIN cs : \A n : Leaving(ds[i], n) <=> Leaving(cs[i], n)
    BY DEF Leaving, Alike
  <2>2. Staying(cs, ns) \subseteq Staying(ds, ns) /\ (Marked(cs) => Marked(ds))
    BY <2>1 DEF Staying, Marked, Alike
  <2> QED BY <1>5, <2>2, CountedGrows
<1> QED BY <1>2, <1>3, <1>4, <1>5

-----------------------------------------------------------------------------
(***************************************************************************)
(* What the handlers do to the list and to the dot.                        *)
(***************************************************************************)

\* Rows of different notifications are as many as the notifications.
LEMMA CountRows ==
  ASSUME NEW its \in SUBSET Rows, OneEach(its)
  PROVE  Cardinality(Ids(its)) = Cardinality(its)
<1> DEFINE f == [r \in its |-> r.id]
<1>1. f \in Injection(its, Notes)
  BY DEF Injection, IsInjective, OneEach, Rows
<1>2. IsFiniteSet(its)
  BY <1>1, InboxAssumption, FS_Injection
<1>3. f \in Bijection(its, Ids(its))
  BY DEF Injection, IsInjective, Bijection, Surjection, OneEach, Ids
<1> QED BY <1>2, <1>3, FS_Bijection DEF ExistsBijection

\* A list all of whose rows were in play, or might have been put back.
LEMMA PageKept ==
  ASSUME NEW its, NEW ask, NEW cs, NEW kn, NEW ns, OnePage(its, ask, cs, kn, ns),
         NEW its2, NEW ask2, NEW cs2,
         \A r \in Rows : InPlay(r, its2, ask2, cs2) => InPlay(r, its, ask, cs),
         \A r \in its2 : Seen(r, ns), ask2 # None => \A r \in ask2 : Seen(r, ns)
  PROVE  OnePage(its2, ask2, cs2, kn, ns)
BY DEF OnePage

\* A list with nothing in play.
LEMMA BlankPage ==
  ASSUME NEW cs, NEW ns, NEW st, AllSound(cs, ns, st), \A i \in DOMAIN cs : ~Owed(cs[i])
  PROVE  OnePage({}, None, cs, {}, st) /\ \A kept, ew : Told(cs, {}, {}, kept, ew)
<1>1. \A r : ~InPlay(r, {}, None, cs)
  BY OneOf DEF InPlay, Sound, Owed
<1>2. \A i \in DOMAIN cs : \A kept, ew : TrueTo(cs[i], {}, {}, kept, ew)
  BY DEF TrueTo
<1> QED BY <1>1, <1>2 DEF OnePage, Told, Ids

\* The rows a list has are different notifications'.
LEMMA OneOfEach ==
  ASSUME TypeOK, NEW ask, NEW cs, NEW kn, NEW ns, OnePage(items, ask, cs, kn, ns)
  PROVE  OneEach(items) /\ Ids(items) \subseteq kn /\ Ids(items) \subseteq Notes
<1>1. \A r \in items : r \in Rows /\ InPlay(r, items, ask, cs)
  BY DEF TypeOK, InPlay
<1> QED BY <1>1 DEF OnePage, OneEach, Ids, Rows

\* A call that has just been sent.
LEMMA Fresh ==
  ASSUME NEW kind \in {"count"} \cup Loads \cup Removals, NEW rows \in SUBSET Rows, NEW ns, NEW st,
         kind = "delete" => \E r \in Rows : rows = {r},
         kind \notin Removals => rows = {}, \A r \in rows : Seen(r, st)
  PROVE  /\ Call(kind, rows) \in Requests /\ Sound(Call(kind, rows), ns, st)
         /\ Waits(Call(kind, rows)) <=> kind \in Loads
         /\ Owed(Call(kind, rows)) <=> kind \in Removals
<1>1. Cardinality(Notes) \in Nat
  BY InboxAssumption, FS_CardinalityType
<1>2. 0 \in 0 .. Cardinality(Notes)
  BY <1>1
<1> HIDE DEF Removals
<1> QED BY <1>2 DEF Call, Requests, Sound, OneEach, Waits, Owed

-----------------------------------------------------------------------------
(***************************************************************************)
(* Every action keeps the invariant: the person.                           *)
(***************************************************************************)

LEMMA OpenStep == ASSUME IInv, Open PROVE IInv'
<1> DEFINE c == Call("list", {})
<1> USE DEF IInv
<1>1. c \in Requests /\ Sound(c, notes, stored) /\ Waits(c) /\ ~Owed(c) /\ c.kind \notin Removals
  BY Fresh DEF Loads, Removals, Call
<1>2. \A i \in DOMAIN calls : ~Waits(calls[i]) /\ ~Owed(calls[i])
  BY DEF Open, OneLoad
<1>3. /\ calls' = Append(calls, c) /\ mounted' = TRUE /\ loading' = TRUE /\ items' = {}
      /\ known' = {} /\ elsewhere' = {} /\ asking = None /\ astray' = FALSE
      /\ UNCHANGED <<asking, unread, pushed, notes, stored, open, stale>>
  BY DEF Open, Press, server
<1> HIDE DEF c
<1>4. AllSound(calls', notes', stored') /\ OneLoad(calls', mounted', loading')
  BY <1>1, <1>2, <1>3, SendCall
<1>5. \A i \in DOMAIN calls' : ~Owed(calls'[i])
  BY <1>1, <1>2, <1>3, Appended DEF AllSound
<1>6. OnePage(items', asking', calls', known', stored')
      /\ Told(calls', items', known', KeptIn(notes'), elsewhere')
  BY <1>3, <1>4, <1>5, BlankPage
<1>7. ~stale' => Counted(calls', unread', notes')
  <2>1. unread \in Nat
    BY DEF TypeOK
  <2> QED BY <1>1, <1>3, <2>1, SendCall
<1>8. TypeOK'
  <2>1. Cardinality(Ids({})) = Cardinality({})
    BY CountRows DEF OneEach
  <2> QED BY <1>3, <2>1 DEF TypeOK
<1> QED BY <1>3, <1>4, <1>6, <1>7, <1>8 DEF Removed

LEMMA CloseStep == ASSUME IInv, Close PROVE IInv'
<1> USE DEF IInv
<1>1. /\ items' = {} /\ known' = {} /\ elsewhere' = {} /\ asking = None /\ mounted' = FALSE /\ loading' = FALSE
      /\ UNCHANGED <<asking, unread, pushed, notes, stored, open, astray, stale>>
  BY DEF Close, server
<1>2. /\ DOMAIN calls' = DOMAIN calls
      /\ \A i \in DOMAIN calls : calls'[i] = [calls[i] EXCEPT !.gone = TRUE]
  BY DEF Close
<1>3. ASSUME NEW i \in DOMAIN calls
      PROVE  /\ calls'[i] \in Requests /\ Sound(calls'[i], notes, stored) /\ calls'[i].gone
             /\ calls'[i].kind = calls[i].kind /\ calls'[i].rows = calls[i].rows
             /\ calls'[i].served = calls[i].served
  <2>1. calls[i] \in Requests /\ Sound(calls[i], notes, stored)
    BY OneOf
  <2>2. calls'[i] = [calls[i] EXCEPT !.gone = TRUE]
    BY <1>2
  <2>3. /\ calls'[i] \in Requests /\ calls'[i].gone
        /\ calls'[i].kind = calls[i].kind /\ calls'[i].rows = calls[i].rows
        /\ calls'[i].served = calls[i].served /\ calls'[i].code = calls[i].code
        /\ calls'[i].body = calls[i].body /\ calls'[i].count = calls[i].count
        /\ calls'[i].old = calls[i].old
    BY <2>1, <2>2 DEF Requests
  <2> QED BY <2>1, <2>3 DEF Sound
<1>4. AllSound(calls', notes', stored')
  <2>1. calls' \in [DOMAIN calls -> Requests]
    BY <1>3 DEF Close
  <2> QED BY <1>1, <1>2, <1>3, <2>1, Mapped DEF AllSound
<1>5. \A i \in DOMAIN calls' : ~Waits(calls'[i]) /\ ~Owed(calls'[i])
  BY <1>2, <1>3 DEF Waits, Owed
<1>6. OneLoad(calls', mounted', loading')
  BY <1>5 DEF OneLoad
<1>7. OnePage(items', asking', calls', known', stored')
      /\ Told(calls', items', known', KeptIn(notes'), elsewhere')
  BY <1>1, <1>4, <1>5, BlankPage
<1>8. ~stale' => Counted(calls', unread', notes')
  <2>1. Staying(calls, notes) \subseteq Staying(calls', notes)
    BY <1>2, <1>3 DEF Staying, Leaving
  <2>2. Marked(calls) => Marked(calls')
    BY <1>2, <1>3 DEF Marked
  <2>3. unread \in Nat
    BY DEF TypeOK
  <2> QED BY <1>1, <2>1, <2>2, <2>3, CountedGrows
<1>9. TypeOK'
  <2>1. Cardinality(Ids({})) = Cardinality({})
    BY CountRows DEF OneEach
  <2> QED BY <1>1, <2>1 DEF TypeOK
<1> QED BY <1>1, <1>4, <1>6, <1>7, <1>8, <1>9 DEF Removed

\* The dot is counted again: on coming back, and on a push.
LEMMA CountAgain ==
  ASSUME IInv, calls' = Append(calls, Call("count", {})), pushed' \in BOOLEAN,
         UNCHANGED <<list, asking, unread, notes, stored, open, known, elsewhere, astray, stale>>
  PROVE  IInv'
<1> DEFINE c == Call("count", {})
<1> USE DEF IInv
<1>1. c \in Requests /\ Sound(c, notes, stored) /\ ~Waits(c) /\ ~Owed(c) /\ c.kind \notin Removals
      /\ c.rows = {}
  BY Fresh DEF Loads, Removals, Call
<1>2. calls' = Append(calls, c)
  OBVIOUS
<1> HIDE DEF c
<1>3. AllSound(calls', notes', stored') /\ OneLoad(calls', mounted', loading')
  BY <1>1, <1>2, SendCall DEF list
<1>4. OnePage(items', asking', calls', known', stored')
  <2>1. \A r \in Rows : InPlay(r, items, asking, calls') => InPlay(r, items, asking, calls)
    BY <1>1, <1>2, SendCall
  <2> QED BY <2>1, PageKept DEF OnePage, list
<1>5. ~astray' => Told(calls', items', known', KeptIn(notes'), elsewhere')
  BY <1>1, <1>2, SendCall DEF list
<1>6. ~stale' => Counted(calls', unread', notes')
  <2>1. unread \in Nat
    BY DEF TypeOK
  <2> QED BY <1>1, <1>2, <2>1, SendCall
<1>7. TypeOK'
  BY DEF TypeOK, list
<1> QED BY <1>3, <1>4, <1>5, <1>6, <1>7 DEF list

LEMMA ForegroundStep == ASSUME IInv, Foreground PROVE IInv'
BY CountAgain DEF Foreground, Press, IInv, TypeOK, server

LEMMA OnPushStep == ASSUME IInv, OnPush PROVE IInv'
BY CountAgain DEF OnPush, history, server

\* Deleting a row takes off the dot what it no longer counts.
LEMMA DroppedOne ==
  ASSUME IInv, NEW row \in Rows, Seen(row, stored), NEW c \in Requests,
         c.kind = "delete", c.rows = {row}, calls' = Append(calls, c), unread' = Drop(row)
  PROVE  unread' \in 0 .. Cardinality(Notes) /\ (~stale => Counted(calls', unread', notes))
<1> DEFINE n == Len(calls) + 1
<1> USE DEF IInv
<1>4. /\ DOMAIN calls' = DOMAIN calls \cup {n}
      /\ calls'[n] = c /\ \A k \in DOMAIN calls : calls'[k] = calls[k]
  BY Appended DEF AllSound
<1> HIDE DEF n
<1>9. unread \in Nat /\ unread' \in 0 .. Cardinality(Notes)
  BY InboxAssumption, FS_CardinalityType DEF TypeOK, Drop
<1>10. ASSUME ~stale
       PROVE  Counted(calls', unread', notes)
  <2> DEFINE S == Staying(calls, notes)
             T == Staying(calls', notes)
  <2>1. Counted(calls, unread, notes) /\ (Marked(calls) => Marked(calls'))
    BY <1>4, <1>10 DEF Marked
  <2>2. S \ {row.id} \subseteq T /\ (row.read => row.id \notin S)
    <3>1. \A m : Leaving(c, m) => m = row.id
      BY DEF Leaving, Ids
    <3>2. \A m \in S : m # row.id => m \in T
      BY <1>4, <3>1 DEF Staying
    <3>3. stored[row.id] # "unread" => notes[row.id] # "unread"
      BY DEF Rows, Ledger
    <3>4. row.read => row.id \notin S
      BY <3>3 DEF Seen, Staying, UnreadIn
    <3> QED BY <3>2, <3>4
  <2>3. IsFiniteSet(S) /\ Cardinality(S) \in Nat /\ IsFiniteSet(T) /\ Cardinality(T) \in Nat
    BY StayingFinite
  <2> HIDE DEF S, T
  <2>4. S \ {row.id} \in SUBSET T
    BY <2>2
  <2>5. /\ Cardinality(S \ {row.id}) <= Cardinality(T)
        /\ Cardinality(S \ {row.id}) = IF row.id \in S THEN Cardinality(S) - 1 ELSE Cardinality(S)
    BY <2>3, <2>4, FS_Subset, FS_RemoveElement
  <2>6. CASE unread <= Cardinality(S)
    <3>1. unread' <= Cardinality(T)
      BY <1>9, <2>2, <2>3, <2>5, <2>6 DEF Drop
    <3> QED BY <3>1 DEF Counted, T
  <2>7. CASE Marked(calls)
    BY <2>1, <2>7 DEF Counted
  <2> QED BY <2>1, <2>6, <2>7 DEF Counted, S
<1> QED BY <1>9, <1>10

\* The row leaves the list, and is what the request would put back.
LEMMA DeleteStep == ASSUME IInv, NEW row \in items, Delete(row) PROVE IInv'
<1> DEFINE c == Call("delete", {row})
           n == Len(calls) + 1
<1> USE DEF IInv
<1>1. /\ mounted /\ ~loading /\ asking = None
      /\ items' = items \ {row} /\ unread' = Drop(row)
      /\ calls' = Append(calls, c)
      /\ UNCHANGED <<mounted, loading, asking, pushed, notes, stored, open, known, elsewhere, astray, stale>>
  BY DEF Delete, Press, server
<1>2. row \in Rows /\ Seen(row, stored) /\ row.id \in Notes
  BY DEF TypeOK, OnePage, Rows
<1>3. /\ c \in Requests /\ Sound(c, notes, stored) /\ ~Waits(c) /\ Owed(c)
      /\ c.kind = "delete" /\ c.rows = {row} /\ ~c.served /\ ~c.gone /\ c.code = "pending"
  BY <1>2, Fresh DEF Loads, Removals, Call
<1> HIDE DEF c
<1>4. /\ n \notin DOMAIN calls /\ DOMAIN calls' = DOMAIN calls \cup {n}
      /\ calls'[n] = c /\ \A k \in DOMAIN calls : calls'[k] = calls[k]
  BY <1>1, <1>3, Appended DEF AllSound
<1> HIDE DEF n
<1>5. AllSound(calls', notes', stored') /\ OneLoad(calls', mounted', loading')
  BY <1>1, <1>3, SendCall
<1>6. OneEach(items) /\ Ids(items) \subseteq known /\ Ids(items) \subseteq Notes
  BY OneOfEach
<1>7. OnePage(items', asking', calls', known', stored')
  <2>1. ASSUME NEW r \in Rows, InPlay(r, items', asking, calls')
        PROVE  InPlay(r, items, asking, calls)
    BY <1>1, <1>3, <1>4, <2>1 DEF InPlay
  <2> QED BY <1>1, <2>1, PageKept DEF OnePage
<1>8. ASSUME ~astray
      PROVE  Told(calls', items', known', KeptIn(notes'), elsewhere')
  <2> DEFINE kept == KeptIn(notes)
  <2>1. Told(calls, items, known, kept, elsewhere)
    BY <1>8
  <2> HIDE DEF kept
  <2>2. Ids(items') \subseteq kept \cup elsewhere /\ Ids(items') \subseteq Ids(items)
    BY <1>1, <2>1 DEF Told, Ids
  <2>3. ASSUME NEW m \in known \cap kept, m \notin Ids(items')
        PROVE  \E i \in DOMAIN calls' :
                 Owed(calls'[i]) /\ ~calls'[i].served /\ m \in Ids(calls'[i].rows)
    <3>1. CASE m \in Ids(items)
      <4>1. m = row.id
        BY <1>1, <2>3, <3>1 DEF Ids
      <4> QED BY <1>3, <1>4, <4>1 DEF Ids
    <3>2. CASE m \notin Ids(items)
      BY <1>4, <2>1, <2>3, <3>2 DEF Told
    <3> QED BY <3>1, <3>2
  <2>4. \A i \in DOMAIN calls : Owed(calls[i]) =>
          calls[i].kind = "delete" /\ Ids(calls[i].rows) \cap Ids(items) = {}
    <3>1. items # {}
      OBVIOUS
    <3> QED BY <2>1, <3>1 DEF Told, TrueTo, Owed, Removals
  <2>5. \A i \in DOMAIN calls : TrueTo(calls[i], items', known, kept, elsewhere)
    <3> SUFFICES ASSUME NEW i \in DOMAIN calls
                 PROVE  TrueTo(calls[i], items', known, kept, elsewhere)
      OBVIOUS
    <3>1. TrueTo(calls[i], items, known, kept, elsewhere)
      BY <2>1 DEF Told
    <3> QED BY <2>2, <2>4, <3>1 DEF TrueTo
  <2>6. TrueTo(c, items', known, kept, elsewhere)
    <3>1. row.id \in kept \cup elsewhere /\ row.id \notin Ids(items')
      BY <1>1, <1>6, <2>1 DEF Told, Ids, OneEach
    <3>2. Ids(c.rows) = {row.id}
      BY <1>3 DEF Ids
    <3> QED BY <1>3, <3>1, <3>2 DEF TrueTo, Owed
  <2>7. \A i \in DOMAIN calls : Owed(calls[i]) => calls[i].rows # {row}
    <3>1. row.id \in Ids(items) /\ row.id \in Ids({row})
      BY DEF Ids
    <3> QED BY <2>4, <3>1
  <2>8. \A i, j \in DOMAIN calls' : i # j /\ Owed(calls'[i]) /\ Owed(calls'[j]) =>
          calls'[i].kind = "delete" /\ calls'[j].kind = "delete" /\ calls'[i].rows # calls'[j].rows
    BY <1>3, <1>4, <2>1, <2>4, <2>7 DEF Told
  <2>9. \A i \in DOMAIN calls' : TrueTo(calls'[i], items', known, kept, elsewhere)
    BY <1>4, <2>5, <2>6
  <2> QED BY <1>1, <2>2, <2>3, <2>8, <2>9 DEF Told, kept
<1>9. unread' \in 0 .. Cardinality(Notes) /\ (~stale => Counted(calls', unread', notes))
  BY <1>1, <1>2, <1>3, DroppedOne
<1>10. ~stale' => Counted(calls', unread', notes')
  BY <1>1, <1>9
<1>11. TypeOK'
  <2>1. OneEach(items') /\ items' \in SUBSET Rows
    BY <1>1, <1>6 DEF OneEach, TypeOK
  <2> QED BY <1>1, <1>9, <2>1, CountRows DEF TypeOK
<1> QED BY <1>1, <1>5, <1>7, <1>8, <1>10, <1>11

LEMMA AskClearStep == ASSUME IInv, AskClear PROVE IInv'
<1> USE DEF IInv
<1>1. /\ mounted /\ ~loading /\ asking' = items
      /\ UNCHANGED <<mounted, items, loading, unread, calls, pushed, notes, stored, open,
                     known, elsewhere, astray, stale>>
  BY DEF AskClear, Press, list, server
<1>2. OnePage(items, asking', calls, known, stored)
  <2>1. \A r \in Rows : InPlay(r, items, asking', calls) => InPlay(r, items, asking, calls)
    BY <1>1 DEF InPlay
  <2> QED BY <1>1, <2>1, PageKept DEF OnePage
<1>3. TypeOK'
  BY <1>1 DEF TypeOK
<1> QED BY <1>1, <1>2, <1>3

\* The dialog is answered with no.
LEMMA KeepStep == ASSUME IInv, Settle(FALSE) PROVE IInv'
<1> USE DEF IInv
<1>1. /\ asking' = None
      /\ UNCHANGED <<mounted, items, loading, unread, calls, pushed, notes, stored, open,
                     known, elsewhere, astray, stale>>
  BY DEF Settle, server
<1>2. OnePage(items, asking', calls, known, stored)
  <2>1. \A r \in Rows : InPlay(r, items, asking', calls) => InPlay(r, items, asking, calls)
    BY <1>1 DEF InPlay
  <2> QED BY <1>1, <2>1, PageKept DEF OnePage
<1>3. TypeOK'
  BY <1>1 DEF TypeOK
<1> QED BY <1>1, <1>2, <1>3

\* With yes: the request would put back what was asked about.
LEMMA ClearStep == ASSUME IInv, Settle(TRUE) PROVE IInv'
<1> DEFINE c == Call("clear", asking)
           n == Len(calls) + 1
<1> USE DEF IInv
<1>1. /\ asking # None /\ asking' = None /\ mounted /\ ~loading
      /\ items' = {} /\ unread' = 0
      /\ astray' = (astray \/ asking # items \/ \E i \in DOMAIN calls : Owed(calls[i]))
      /\ calls' = Append(calls, c)
      /\ UNCHANGED <<mounted, loading, pushed, notes, stored, open, known, elsewhere, stale>>
  BY DEF Settle, server
<1>2. asking \in SUBSET Rows /\ \A r \in asking : Seen(r, stored)
  BY <1>1 DEF TypeOK, OnePage
<1>3. /\ c \in Requests /\ Sound(c, notes, stored) /\ ~Waits(c) /\ Owed(c)
      /\ c.kind = "clear" /\ c.rows = asking /\ ~c.served /\ ~c.gone /\ c.code = "pending"
  BY <1>2, Fresh DEF Loads, Removals, Call
<1> HIDE DEF c
<1>4. /\ n \notin DOMAIN calls /\ DOMAIN calls' = DOMAIN calls \cup {n}
      /\ calls'[n] = c /\ \A k \in DOMAIN calls : calls'[k] = calls[k]
  BY <1>1, <1>3, Appended DEF AllSound
<1> HIDE DEF n
<1>5. AllSound(calls', notes', stored') /\ OneLoad(calls', mounted', loading')
  BY <1>1, <1>3, SendCall
<1>6. OnePage(items', asking', calls', known', stored')
  <2>1. ASSUME NEW r \in Rows, InPlay(r, items', asking', calls')
        PROVE  InPlay(r, items, asking, calls)
    BY <1>1, <1>3, <1>4, <2>1 DEF InPlay
  <2> QED BY <1>1, <2>1, PageKept DEF OnePage
<1>7. ASSUME ~astray'
      PROVE  Told(calls', items', known', KeptIn(notes'), elsewhere')
  <2> DEFINE kept == KeptIn(notes)
  <2>1. Told(calls, items, known, kept, elsewhere) /\ asking = items
    BY <1>1, <1>7
  <2>2. \A i \in DOMAIN calls : ~Owed(calls[i])
    BY <1>1, <1>7
  <2>3. Ids(items) \subseteq known
    BY OneOfEach
  <2>8. elsewhere \cap kept = {}
    BY DEF Removed, KeptIn
  <2> HIDE DEF kept
  <2>4. Ids(asking) \ elsewhere = known \cap kept
    BY <2>1, <2>2, <2>3, <2>8 DEF Told
  <2>5. \A i \in DOMAIN calls' : TrueTo(calls'[i], items', known, kept, elsewhere)
    <3>1. TrueTo(c, items', known, kept, elsewhere)
      BY <1>1, <1>3, <2>4 DEF TrueTo, Ids
    <3>2. \A i \in DOMAIN calls : TrueTo(calls[i], items', known, kept, elsewhere)
      BY <2>2 DEF TrueTo
    <3> QED BY <1>4, <3>1, <3>2
  <2>6. \A m \in known \cap kept :
          Owed(calls'[n]) /\ ~calls'[n].served /\ m \in Ids(calls'[n].rows)
    BY <1>3, <1>4, <2>4
  <2>7. \A i, j \in DOMAIN calls' : Owed(calls'[i]) /\ Owed(calls'[j]) => i = j
    BY <1>4, <2>2
  <2> QED BY <1>1, <1>4, <2>5, <2>6, <2>7 DEF Told, Ids, kept
<1>8. Counted(calls', unread', notes')
  BY <1>1, StayingFinite DEF Counted
<1>9. TypeOK'
  <2>1. Cardinality(Ids({})) = Cardinality({})
    BY CountRows DEF OneEach
  <2>2. 0 \in 0 .. Cardinality(Notes) /\ astray' \in BOOLEAN
    BY <1>1, InboxAssumption, FS_CardinalityType
  <2> QED BY <1>1, <2>1, <2>2 DEF TypeOK
<1> QED BY <1>1, <1>5, <1>6, <1>7, <1>8, <1>9

\* What the other list sends does not move this one.
LEMMA SentElsewhere ==
  ASSUME IInv, NEW c \in Requests, Sound(c, notes, stored), c.gone,
         calls' = Append(calls, c), unread' \in 0 .. Cardinality(Notes),
         ~stale => Counted(calls', unread', notes),
         UNCHANGED <<list, asking, pushed, server, known, elsewhere, astray, stale>>
  PROVE  IInv'
<1> USE DEF IInv
<1>1. ~Waits(c) /\ ~Owed(c)
  BY DEF Waits, Owed
<1>2. UNCHANGED <<mounted, items, loading, notes, stored, open>>
  BY DEF list, server
<1>3. AllSound(calls', notes', stored') /\ OneLoad(calls', mounted', loading')
  BY <1>1, <1>2, SendCall
<1>4. OnePage(items', asking', calls', known', stored')
  <2>1. \A r \in Rows : InPlay(r, items, asking, calls') => InPlay(r, items, asking, calls)
    BY SendCall
  <2> QED BY <1>2, <2>1, PageKept DEF OnePage
<1>5. ~astray' => Told(calls', items', known', KeptIn(notes'), elsewhere')
  BY <1>1, <1>2, SendCall
<1>6. TypeOK'
  BY <1>2 DEF TypeOK
<1> QED BY <1>2, <1>3, <1>4, <1>5, <1>6

LEMMA GoneCall ==
  ASSUME NEW kind \in {"list"} \cup Removals, NEW rows \in SUBSET Rows, NEW ns, NEW st,
         kind = "delete" => \E r \in Rows : rows = {r},
         kind \notin Removals => rows = {}, \A r \in rows : Seen(r, st)
  PROVE  LET c == [Call(kind, rows) EXCEPT !.gone = TRUE]
         IN  c \in Requests /\ Sound(c, ns, st) /\ c.gone /\ c.kind = kind /\ c.rows = rows
<1> DEFINE d == Call(kind, rows)
           c == [d EXCEPT !.gone = TRUE]
<1>1. d \in Requests /\ Sound(d, ns, st)
  BY Fresh DEF Loads
<1>2. d.kind = kind /\ d.rows = rows
  BY DEF Call
<1> HIDE DEF d
<1>3. /\ c \in Requests /\ c.gone /\ c.kind = d.kind /\ c.rows = d.rows /\ c.code = d.code
      /\ c.served = d.served /\ c.body = d.body /\ c.count = d.count /\ c.old = d.old
  BY <1>1 DEF Requests
<1>4. Sound(c, ns, st)
  <2> HIDE DEF c
  <2> QED BY <1>1, <1>3 DEF Sound
<1> QED BY <1>2, <1>3, <1>4 DEF d

LEMMA ElsewhereStep == ASSUME IInv, Elsewhere PROVE IInv'
<1> USE DEF IInv
<1>1. UNCHANGED <<list, asking, pushed, server, known, elsewhere, astray, stale>>
  BY DEF Elsewhere, Press
<1>3. CASE /\ calls' = Append(calls, [Call("list", {}) EXCEPT !.gone = TRUE])
           /\ UNCHANGED unread
  <2> DEFINE c == [Call("list", {}) EXCEPT !.gone = TRUE]
  <2>1. c \in Requests /\ Sound(c, notes, stored) /\ c.gone /\ c.kind = "list"
    BY GoneCall DEF Removals
  <2>2. calls' = Append(calls, c) /\ c.kind \notin Removals
    BY <1>3, <2>1 DEF Removals
  <2> HIDE DEF c
  <2>3. ~stale => Counted(calls', unread', notes)
    BY <1>3, <2>1, <2>2, SendCall DEF TypeOK
  <2> QED BY <1>1, <1>3, <2>1, <2>2, <2>3, SentElsewhere DEF TypeOK
<1>4. ASSUME NEW row \in Rows,
             stored[row.id] # "none" /\ (row.read => stored[row.id] # "unread"),
             unread' = Drop(row),
             calls' = Append(calls, [Call("delete", {row}) EXCEPT !.gone = TRUE])
      PROVE  IInv'
  <2> DEFINE c == [Call("delete", {row}) EXCEPT !.gone = TRUE]
  <2>1. Seen(row, stored) /\ calls' = Append(calls, c)
    BY <1>4 DEF Seen
  <2>2. c \in Requests /\ Sound(c, notes, stored) /\ c.gone /\ c.kind = "delete" /\ c.rows = {row}
    <3>1. {row} \in SUBSET Rows /\ (\E r \in Rows : {row} = {r})
          /\ "delete" \in {"list"} \cup Removals /\ "delete" \in Removals
          /\ \A r \in {row} : Seen(r, stored)
      BY <2>1 DEF Removals
    <3> QED BY <3>1, GoneCall
  <2> HIDE DEF c
  <2>3. unread' \in 0 .. Cardinality(Notes) /\ (~stale => Counted(calls', unread', notes))
    BY <1>4, <2>1, <2>2, DroppedOne
  <2> QED BY <1>1, <2>1, <2>2, <2>3, SentElsewhere
<1>5. CASE /\ unread' = 0
           /\ calls' = Append(calls, [Call("clear", {}) EXCEPT !.gone = TRUE])
  <2> DEFINE c == [Call("clear", {}) EXCEPT !.gone = TRUE]
  <2>1. c \in Requests /\ Sound(c, notes, stored) /\ c.gone /\ c.kind = "clear"
    BY GoneCall DEF Removals
  <2>2. calls' = Append(calls, c)
    BY <1>5
  <2> HIDE DEF c
  <2>3. unread' \in 0 .. Cardinality(Notes) /\ Counted(calls', unread', notes)
    BY <1>5, StayingFinite, InboxAssumption, FS_CardinalityType DEF Counted
  <2> QED BY <1>1, <2>1, <2>2, <2>3, SentElsewhere
<1> QED BY <1>3, <1>4, <1>5 DEF Elsewhere

-----------------------------------------------------------------------------
(***************************************************************************)
(* The API.                                                                *)
(***************************************************************************)

\* What there has been stays so, and what was read is not unread again.
Onward(ns, ms) ==
    \A n \in Notes : /\ ns[n] # "none" => ms[n] # "none"
                     /\ ns[n] \notin {"none", "unread"} => ms[n] # "unread"

LEMMA SeenOnward ==
  ASSUME NEW ns, NEW ms, Onward(ns, ms), NEW r \in Rows, Seen(r, ns)
  PROVE  Seen(r, ms)
BY DEF Onward, Seen, Rows

LEMMA PageOnward ==
  ASSUME NEW its \in SUBSET Rows, NEW ask, ask = None \/ ask \subseteq Rows,
         NEW cs, NEW kn, NEW ns, NEW ms,
         OnePage(its, ask, cs, kn, ns), Onward(ns, ms)
  PROVE  OnePage(its, ask, cs, kn, ms)
<1>1. \A r \in its : Seen(r, ms)
  BY SeenOnward DEF OnePage
<1>2. ask # None => \A r \in ask : Seen(r, ms)
  BY SeenOnward DEF OnePage
<1>3. kn \subseteq Notes /\ \A n \in kn : ms[n] # "none"
  BY DEF OnePage, Onward
<1> QED BY <1>1, <1>2, <1>3 DEF OnePage

LEMMA FewerUnread ==
  ASSUME NEW ns, NEW ms, UnreadIn(ns) \subseteq UnreadIn(ms)
  PROVE  /\ Cardinality(UnreadIn(ns)) <= Cardinality(UnreadIn(ms))
         /\ Cardinality(UnreadIn(ns)) \in Nat /\ Cardinality(UnreadIn(ms)) \in Nat
<1>1. UnreadIn(ns) \in SUBSET Notes /\ UnreadIn(ms) \in SUBSET Notes
  BY DEF UnreadIn
<1>2. UnreadIn(ns) \in SUBSET UnreadIn(ms)
  OBVIOUS
<1> QED BY <1>1, <1>2, InboxAssumption, FS_Subset, FS_CardinalityType

LEMMA ArriveStep == ASSUME IInv, NEW n \in Notes, Arrive(n) PROVE IInv'
<1> USE DEF IInv
<1>1. /\ notes[n] = "none" /\ notes' = [notes EXCEPT ![n] = "unread"]
      /\ stored' = [stored EXCEPT ![n] = "unread"] /\ pushed' \in {TRUE, pushed}
      /\ UNCHANGED <<mounted, items, loading, asking, unread, calls, open,
                     known, elsewhere, astray, stale>>
  BY DEF Arrive, list
<1>2. notes \in [Notes -> Kinds] /\ stored \in [Notes -> Kinds]
  BY DEF TypeOK, Kinds
<1>10. n \notin Unsaved /\ stored[n] = "none"
  BY <1>1 DEF Ledger, Unsaved
<1>11. Ledger(notes', stored', open') /\ Removed(elsewhere', notes')
  <2>1. \A m \in UNION open : m \in Notes /\ m # n
    BY <1>10 DEF TypeOK, Unsaved
  <2>2. \A m \in elsewhere : m \in Notes /\ m # n
    BY <1>1 DEF TypeOK, Removed
  <2> QED BY <1>1, <1>2, <2>1, <2>2 DEF Ledger, Removed
<1>3. /\ Onward(stored, stored')
      /\ KeptIn(notes') = KeptIn(notes) \cup {n} /\ UnreadIn(notes') = UnreadIn(notes) \cup {n}
  BY <1>1, <1>2, <1>10 DEF Onward, KeptIn, UnreadIn
<1>4. ASSUME NEW i \in DOMAIN calls
      PROVE  Sound(calls[i], notes', stored')
  <2>1. calls[i] \in Requests /\ Sound(calls[i], notes, stored)
    BY OneOf
  <2>2. \A r \in calls[i].body \cup calls[i].rows : Seen(r, stored')
    BY <1>3, <2>1, SeenOnward DEF Requests, Sound
  <2>3. /\ Cardinality(UnreadIn(notes)) <= Cardinality(UnreadIn(notes'))
        /\ Cardinality(UnreadIn(notes)) \in Nat /\ Cardinality(UnreadIn(notes')) \in Nat
    BY <1>3, FewerUnread
  <2>4. calls[i].count <= Cardinality(UnreadIn(notes)) =>
          calls[i].count <= Cardinality(UnreadIn(notes'))
    BY <2>1, <2>3, InboxAssumption, FS_CardinalityType DEF Requests
  <2> QED BY <1>3, <2>1, <2>2, <2>4 DEF Sound
<1>5. AllSound(calls', notes', stored')
  BY <1>1, <1>4 DEF AllSound
<1>6. OnePage(items', asking', calls', known', stored')
  BY <1>1, <1>3, PageOnward DEF TypeOK
<1>7. ASSUME ~astray
      PROVE  Told(calls', items', known', KeptIn(notes'), elsewhere')
  <2> DEFINE kept == KeptIn(notes)
             kept2 == KeptIn(notes')
  <2>1. Told(calls, items, known, kept, elsewhere)
    BY <1>7
  <2>2. n \notin known
    BY <1>10 DEF OnePage
  <2>3. kept2 = kept \cup {n} /\ known \cap kept2 = known \cap kept
    BY <1>3, <2>2
  <2>4. \A i \in DOMAIN calls : n \notin Ids(calls[i].rows)
    BY <1>10, OneOf DEF Sound, Seen, Ids
  <2> HIDE DEF kept, kept2
  <2>5. \A i \in DOMAIN calls : TrueTo(calls[i], items, known, kept2, elsewhere)
    <3> SUFFICES ASSUME NEW i \in DOMAIN calls
                 PROVE  TrueTo(calls[i], items, known, kept2, elsewhere)
      OBVIOUS
    <3>1. TrueTo(calls[i], items, known, kept, elsewhere)
      BY <2>1 DEF Told
    <3> QED BY <2>3, <2>4, <3>1 DEF TrueTo
  <2>6. Told(calls, items, known, kept2, elsewhere)
    BY <2>1, <2>3, <2>5 DEF Told
  <2> QED BY <1>1, <2>6 DEF kept2
<1>8. ASSUME ~stale
      PROVE  Counted(calls', unread', notes')
  <2>1. Staying(calls, notes) \subseteq Staying(calls, notes')
    BY <1>3 DEF Staying
  <2>2. unread \in Nat
    BY DEF TypeOK
  <2> QED BY <1>1, <1>8, <2>1, <2>2, CountedGrows
<1>9. TypeOK'
  BY <1>1, <1>2 DEF TypeOK, Kinds
<1> QED BY <1>1, <1>5, <1>6, <1>7, <1>8, <1>9, <1>11

\* A request that is served.
LEMMA ServedCall ==
  ASSUME IInv, NEW i \in DOMAIN calls, calls[i].code = "pending",
         NEW code \in {"200", "404"}, NEW ds, ds = Served(i, code)
  PROVE  /\ ds \in [DOMAIN calls -> Requests]
         /\ ds[i].kind = calls[i].kind /\ ds[i].rows = calls[i].rows
         /\ ds[i].gone = calls[i].gone /\ ds[i].served /\ ds[i].code = code
         /\ \A j \in DOMAIN calls \ {i} : ds[j] = calls[j]
         /\ calls[i].kind \notin {"list", "count"} /\ (code = "404" => calls[i].kind = "delete") =>
              \A j \in DOMAIN calls : Sound(ds[j], notes, stored)
<1> USE DEF IInv
<1>1. \A j \in DOMAIN calls : calls[j] \in Requests /\ Sound(calls[j], notes, stored)
  BY OneOf
<1>2. /\ ds[i] = [calls[i] EXCEPT !.served = TRUE, !.code = code]
      /\ \A j \in DOMAIN calls \ {i} : ds[j] = calls[j]
      /\ DOMAIN ds = DOMAIN calls
  BY DEF Served
<1>3. /\ ds[i] \in Requests /\ ds[i].kind = calls[i].kind /\ ds[i].rows = calls[i].rows
      /\ ds[i].gone = calls[i].gone /\ ds[i].served /\ ds[i].code = code
  BY <1>1, <1>2 DEF Requests
<1>4. calls[i].kind \notin {"list", "count"} /\ (code = "404" => calls[i].kind = "delete")
        => Sound(ds[i], notes, stored)
  BY <1>1, <1>2 DEF Requests, Sound
<1>5. ds \in [DOMAIN calls -> Requests]
  BY <1>1, <1>2, <1>3 DEF Served
<1> QED BY <1>1, <1>2, <1>3, <1>4, <1>5

\* Lists and counts on their way do not speak for rows changed since.
LEMMA AgedCalls ==
  ASSUME NEW cs, NEW ds, ds \in [DOMAIN cs -> Requests], cs \in Seq(Requests),
         NEW ns, NEW ms, NEW st, \A i \in DOMAIN cs : Sound(ds[i], ns, st)
  PROVE  /\ AllSound(Aged(ds), ms, st) /\ DOMAIN Aged(ds) = DOMAIN cs
         /\ \A i \in DOMAIN cs : Alike(ds[i], Aged(ds)[i])
<1>1. ASSUME NEW i \in DOMAIN cs
      PROVE  /\ Aged(ds)[i] \in Requests /\ Sound(Aged(ds)[i], ms, st)
             /\ Alike(ds[i], Aged(ds)[i])
  <2> DEFINE t == ds[i].old \/ (ds[i].kind \in {"list", "count"} /\ ds[i].served)
  <2>1. ds[i] \in Requests /\ Sound(ds[i], ns, st)
    OBVIOUS
  <2>2. Aged(ds)[i] = [ds[i] EXCEPT !.old = t]
    BY DEF Aged
  <2>3. t \in BOOLEAN
    BY <2>1 DEF Requests
  <2>4. ds[i].kind \in {"list", "count"} /\ ds[i].served => t
    OBVIOUS
  <2> HIDE DEF t
  <2>5. Aged(ds)[i] \in Requests /\ Alike(ds[i], Aged(ds)[i]) /\ Aged(ds)[i].old = t
        /\ Aged(ds)[i].body = ds[i].body /\ Aged(ds)[i].count = ds[i].count
    BY <2>1, <2>2, <2>3 DEF Requests, Alike
  <2>7. Sound(Aged(ds)[i], ms, st)
    BY <2>1, <2>4, <2>5 DEF Sound, Alike
  <2> QED BY <2>5, <2>7
<1>2. Aged(ds) \in [DOMAIN cs -> Requests]
  BY <1>1 DEF Aged
<1>3. Aged(ds) \in Seq(Requests) /\ DOMAIN Aged(ds) = DOMAIN cs
  BY <1>2, Mapped
<1> QED BY <1>1, <1>3 DEF AllSound

\* The API changes notifications and answers 200.  What is in play is let go of
\* only if the request that was served is about it.
LEMMA PutStep ==
  ASSUME IInv, NEW i \in DOMAIN calls, calls[i].code = "pending",
         calls[i].kind \notin {"list", "count"},
         NEW ms \in [Notes -> Kinds], notes' = ms, open' \in SUBSET (SUBSET Notes),
         Ledger(ms, stored, open'), Removed(elsewhere', ms), elsewhere' \in SUBSET Notes,
         calls' = Aged(Served(i, "200")),
         UNCHANGED <<list, asking, unread, pushed, stored, known, astray, stale>>,
         elsewhere \subseteq elsewhere', elsewhere' \cap KeptIn(ms) = {},
         KeptIn(ms) \subseteq KeptIn(notes),
         Owed(calls[i]) => Ids(calls[i].rows) \cap KeptIn(ms) = {},
         ~astray => \A n \in known \cap KeptIn(notes) :
                      n \in KeptIn(ms) \cup elsewhere'
                        \/ (Owed(calls[i]) /\ n \in Ids(calls[i].rows)),
         \/ calls[i].kind = "mark"
         \/ \A n \in UnreadIn(notes) : n \in UnreadIn(ms) \/ Leaving(calls[i], n)
  PROVE  IInv'
<1> DEFINE ds == Served(i, "200")
<1>1. UNCHANGED <<mounted, items, loading, asking, unread, pushed, stored, known, astray, stale>>
  BY DEF list
<1>2. /\ ds \in [DOMAIN calls -> Requests]
      /\ ds[i].kind = calls[i].kind /\ ds[i].rows = calls[i].rows
      /\ ds[i].gone = calls[i].gone /\ ds[i].served /\ ds[i].code = "200"
      /\ \A j \in DOMAIN calls \ {i} : ds[j] = calls[j]
      /\ \A j \in DOMAIN calls : Sound(ds[j], notes, stored)
  <2>1. ds = Served(i, "200")
    OBVIOUS
  <2> HIDE DEF ds
  <2> QED BY <2>1, ServedCall
<1> USE DEF IInv
<1>3. calls' = Aged(ds) /\ calls \in Seq(Requests)
  BY DEF AllSound
<1> HIDE DEF ds
<1>4. /\ AllSound(calls', notes', stored') /\ DOMAIN calls' = DOMAIN calls
      /\ \A j \in DOMAIN calls : Alike(ds[j], calls'[j])
  <2>1. AllSound(Aged(ds), ms, stored) /\ DOMAIN Aged(ds) = DOMAIN calls
        /\ \A j \in DOMAIN calls : Alike(ds[j], Aged(ds)[j])
    BY <1>2, <1>3, AgedCalls
  <2> QED BY <1>1, <1>3, <2>1
<1>5. /\ calls[i] \in Requests /\ Sound(calls[i], notes, stored)
      /\ calls'[i].kind = calls[i].kind /\ calls'[i].rows = calls[i].rows
      /\ calls'[i].gone = calls[i].gone
      /\ calls'[i].served /\ calls'[i].code = "200" /\ ~calls[i].served
      /\ \A j \in DOMAIN calls \ {i} : Alike(calls[j], calls'[j])
  <2>1. calls[i] \in Requests /\ Sound(calls[i], notes, stored)
    BY OneOf
  <2>3. Alike(ds[i], calls'[i]) /\ ~calls[i].served
    BY <1>4, <2>1 DEF Sound
  <2>4. \A j \in DOMAIN calls \ {i} : Alike(calls[j], calls'[j])
    BY <1>2, <1>4
  <2> QED BY <1>2, <2>1, <2>3, <2>4 DEF Alike
<1>6. \A j \in DOMAIN calls : /\ calls'[j].kind = calls[j].kind /\ calls'[j].rows = calls[j].rows
                              /\ calls'[j].gone = calls[j].gone
                              /\ Waits(calls'[j]) = Waits(calls[j])
                              /\ Owed(calls'[j]) = Owed(calls[j])
  BY <1>5 DEF Alike, Waits, Owed
<1>7. OneLoad(calls', mounted', loading')
  BY <1>1, <1>4, <1>6 DEF OneLoad
<1>8. OnePage(items', asking', calls', known', stored')
  <2>2. \A r \in Rows : InPlay(r, items, asking, calls') => InPlay(r, items, asking, calls)
    BY <1>4, <1>6 DEF InPlay
  <2>3. OnePage(items, asking, calls', known, stored')
    BY <2>2, PageKept DEF OnePage
  <2> QED BY <1>1, <2>3
<1>9. ASSUME ~astray
      PROVE  Told(calls', items', known', KeptIn(notes'), elsewhere')
  <2> DEFINE kept == KeptIn(notes)
             kept2 == KeptIn(ms)
  <2>1. Told(calls, items, known, kept, elsewhere)
    BY <1>9
  <2>2. /\ kept2 \subseteq kept
        /\ Owed(calls[i]) => Ids(calls[i].rows) \cap kept2 = {}
        /\ \A n \in known \cap kept : n \in kept2 \cup elsewhere'
                                       \/ (Owed(calls[i]) /\ n \in Ids(calls[i].rows))
        /\ elsewhere \subseteq elsewhere' /\ elsewhere' \cap kept2 = {}
    BY <1>9
  <2> HIDE DEF kept, kept2
  <2>3. Ids(items) \subseteq known
    BY OneOfEach
  <2>4. TrueTo(calls[i], items, known, kept, elsewhere)
    BY <2>1 DEF Told
  <2>10. Owed(calls[i]) => Ids(items) \cap Ids(calls[i].rows) = {}
    BY <1>5, <2>4 DEF TrueTo, Owed, Removals, Ids
  <2>11. Ids(items) \subseteq kept2 \cup elsewhere'
    BY <2>1, <2>2, <2>3, <2>10 DEF Told
  <2>12. ASSUME NEW j \in DOMAIN calls, j # i, Owed(calls[j]), Owed(calls[i])
         PROVE  /\ calls[j].kind = "delete" /\ calls[i].kind = "delete"
                /\ Ids(calls[j].rows) \cap Ids(calls[i].rows) = {}
    <3>1. calls[j].kind = "delete" /\ calls[i].kind = "delete" /\ calls[j].rows # calls[i].rows
      BY <2>1, <2>12 DEF Told
    <3>2. PICK r \in Rows : calls[i].rows = {r}
      BY <1>5, <3>1 DEF Sound
    <3>3. PICK s \in Rows : calls[j].rows = {s}
      BY <3>1, OneOf DEF Sound
    <3>4. r # s /\ InPlay(r, items, asking, calls) /\ InPlay(s, items, asking, calls)
      BY <2>12, <3>1, <3>2, <3>3 DEF InPlay, Owed
    <3>5. r.id # s.id
      BY <3>4 DEF OnePage
    <3>6. Ids(calls[i].rows) = {r.id} /\ Ids(calls[j].rows) = {s.id}
      BY <3>2, <3>3 DEF Ids
    <3> QED BY <3>1, <3>5, <3>6
  <2>13. ASSUME NEW j \in DOMAIN calls, j # i, Owed(calls[j])
         PROVE  /\ Ids(calls[j].rows) \cap kept \subseteq kept2 \cup elsewhere'
                /\ calls[j].kind = "clear" => known \cap kept \subseteq kept2 \cup elsewhere'
    <3>1. Ids(calls[j].rows) \subseteq known
      <4>1. \A r \in calls[j].rows : r \in Rows /\ InPlay(r, items, asking, calls)
        BY <2>13, OneOf DEF InPlay, Owed, Requests
      <4> QED BY <4>1 DEF OnePage, Ids
    <3>2. CASE Owed(calls[i])
      BY <2>2, <2>12, <2>13, <3>1, <3>2
    <3>3. CASE ~Owed(calls[i])
      BY <2>2, <3>1, <3>3
    <3> QED BY <3>2, <3>3
  <2>14. Owed(calls[i]) /\ calls[i].kind = "clear" => known \cap kept2 = {}
    BY <1>5, <2>2, <2>4 DEF TrueTo
  <2>15. ASSUME NEW n \in known \cap kept2, n \notin Ids(items)
        PROVE  \E j \in DOMAIN calls' :
                 Owed(calls'[j]) /\ ~calls'[j].served /\ n \in Ids(calls'[j].rows)
    <3>1. PICK j \in DOMAIN calls : Owed(calls[j]) /\ ~calls[j].served /\ n \in Ids(calls[j].rows)
      BY <2>1, <2>2, <2>15 DEF Told
    <3>2. j # i
      BY <2>2, <2>15, <3>1
    <3> QED BY <1>4, <1>5, <1>6, <3>1, <3>2 DEF Alike
  <2>16. ASSUME NEW j \in DOMAIN calls
        PROVE  TrueTo(calls'[j], items, known, kept2, elsewhere')
    <3>1. TrueTo(calls[j], items, known, kept, elsewhere)
      BY <2>1 DEF Told
    <3>2. CASE j # i
      <4>1. Alike(calls[j], calls'[j]) /\ (Owed(calls'[j]) <=> Owed(calls[j]))
        BY <1>5, <1>6, <3>2
      <4>2. Owed(calls[j]) =>
              /\ Ids(calls[j].rows) \cap kept \subseteq kept2 \cup elsewhere'
              /\ calls[j].kind = "clear" => known \cap kept \subseteq kept2 \cup elsewhere'
        BY <2>13, <3>2
      <4>3. TrueTo(calls[j], items, known, kept2, elsewhere')
        BY <2>2, <3>1, <4>2 DEF TrueTo
      <4> QED BY <4>1, <4>3 DEF TrueTo, Alike
    <3>3. CASE j = i
      BY <1>5, <1>6, <2>2, <2>14, <3>1, <3>3 DEF TrueTo
    <3> QED BY <3>2, <3>3
  <2>5. \A j, k \in DOMAIN calls' : j # k /\ Owed(calls'[j]) /\ Owed(calls'[k]) =>
          calls'[j].kind = "delete" /\ calls'[k].kind = "delete" /\ calls'[j].rows # calls'[k].rows
    BY <1>4, <1>6, <2>1 DEF Told
  <2>6. \A j \in DOMAIN calls' : TrueTo(calls'[j], items, known, kept2, elsewhere')
    BY <1>4, <2>16
  <2>7. Told(calls', items, known, kept2, elsewhere')
    BY <2>5, <2>6, <2>11, <2>15 DEF Told
  <2> QED BY <1>1, <2>7 DEF kept2
<1>10. ASSUME ~stale
       PROVE  Counted(calls', unread', notes')
  <2>1. CASE calls[i].kind = "mark"
    BY <1>4, <1>5, <2>1 DEF Counted, Marked
  <2>2. CASE \A n \in UnreadIn(notes) : n \in UnreadIn(ms) \/ Leaving(calls[i], n)
    <3>1. \A j \in DOMAIN calls : \A n : Leaving(calls'[j], n) => Leaving(calls[j], n)
      BY <1>5 DEF Leaving, Alike
    <3>2. Staying(calls, notes) \subseteq Staying(calls', ms)
      BY <1>4, <2>2, <3>1 DEF Staying
    <3>3. Marked(calls) => Marked(calls')
      BY <1>4, <1>5 DEF Marked, Alike
    <3>4. unread \in Nat
      BY DEF TypeOK
    <3> QED BY <1>1, <1>10, <3>2, <3>3, <3>4, CountedGrows
  <2> QED BY <2>1, <2>2
<1>11. TypeOK'
  BY <1>1 DEF TypeOK, Kinds
<1> QED BY <1>1, <1>4, <1>7, <1>8, <1>9, <1>10, <1>11

\* A request is answered, or its answer lost, and the API's rows stay.
LEMMA ReplyStep ==
  ASSUME IInv, NEW i \in DOMAIN calls, calls' \in [DOMAIN calls -> Requests],
         \A j \in DOMAIN calls \ {i} : calls'[j] = calls[j],
         Sound(calls'[i], notes, stored),
         calls'[i].kind = calls[i].kind, calls'[i].rows = calls[i].rows,
         calls'[i].gone = calls[i].gone,
         calls[i].served => calls'[i].served,
         ~astray => TrueTo(calls'[i], items, known, KeptIn(notes), elsewhere),
         Owed(calls[i]) => \/ calls'[i].served = calls[i].served \/ astray
                           \/ Ids(calls[i].rows) \cap KeptIn(notes) = {},
         UNCHANGED <<list, asking, unread, pushed, server, known, elsewhere, astray, stale>>
  PROVE  IInv'
<1> USE DEF IInv
<1>1. UNCHANGED <<mounted, items, loading, notes, stored, open>>
  BY DEF list, server
<1>2. DOMAIN calls' = DOMAIN calls
  OBVIOUS
<1>3. AllSound(calls', notes', stored')
  <2>1. calls' \in Seq(Requests)
    BY Mapped DEF AllSound
  <2> QED BY <1>1, <1>2, <2>1, OneOf DEF AllSound
<1>4. \A j \in DOMAIN calls : /\ calls'[j].kind = calls[j].kind /\ calls'[j].rows = calls[j].rows
                              /\ calls'[j].gone = calls[j].gone
                              /\ Waits(calls'[j]) = Waits(calls[j])
                              /\ Owed(calls'[j]) = Owed(calls[j])
                              /\ calls[j].served => calls'[j].served
  BY DEF Waits, Owed
<1>5. OneLoad(calls', mounted', loading')
  BY <1>1, <1>2, <1>4 DEF OneLoad
<1>6. OnePage(items', asking', calls', known', stored')
  <2>1. \A r \in Rows : InPlay(r, items, asking, calls') => InPlay(r, items, asking, calls)
    BY <1>2, <1>4 DEF InPlay
  <2>2. OnePage(items, asking, calls', known, stored)
    BY <2>1, PageKept DEF OnePage
  <2> QED BY <1>1, <2>2
<1>7. ASSUME ~astray
      PROVE  Told(calls', items', known', KeptIn(notes'), elsewhere')
  <2> DEFINE kept == KeptIn(notes)
  <2>1. Told(calls, items, known, kept, elsewhere) /\ TrueTo(calls'[i], items, known, kept, elsewhere)
    BY <1>7
  <2>3. \A j \in DOMAIN calls : Owed(calls[j]) =>
          calls'[j].served = calls[j].served \/ Ids(calls[j].rows) \cap kept = {}
    BY <1>7
  <2> HIDE DEF kept
  <2>2. \A j \in DOMAIN calls : TrueTo(calls'[j], items, known, kept, elsewhere)
    BY <2>1 DEF Told
  <2>5. \A n \in known \cap kept : n \in Ids(items)
          \/ \E j \in DOMAIN calls' : Owed(calls'[j]) /\ ~calls'[j].served /\ n \in Ids(calls'[j].rows)
    BY <1>2, <1>4, <2>1, <2>3 DEF Told
  <2>4. Told(calls', items, known, kept, elsewhere)
    BY <1>2, <1>4, <2>1, <2>2, <2>5 DEF Told
  <2> QED BY <1>1, <2>4 DEF kept
<1>8. ASSUME ~stale
      PROVE  Counted(calls', unread', notes')
  <2>1. Staying(calls, notes) \subseteq Staying(calls', notes)
    BY <1>2, <1>4 DEF Staying, Leaving
  <2>2. Marked(calls) => Marked(calls')
    BY <1>2, <1>4 DEF Marked
  <2>3. unread \in Nat
    BY DEF TypeOK
  <2> QED BY <1>1, <1>8, <2>1, <2>2, <2>3, CountedGrows
<1>9. TypeOK'
  BY <1>1 DEF TypeOK
<1> QED BY <1>1, <1>3, <1>5, <1>6, <1>7, <1>8, <1>9

\* A list or a count is read: it is what is committed.
LEMMA ReadRows ==
  ASSUME IInv, NEW body, body = {[id |-> n, read |-> stored[n] = "read"] : n \in KeptIn(stored)},
         NEW count, count = Cardinality(UnreadIn(stored))
  PROVE  /\ body \in SUBSET Rows /\ OneEach(body) /\ Ids(body) = KeptIn(stored)
         /\ \A r \in body : Seen(r, stored)
         /\ count \in 0 .. Cardinality(Notes) /\ count = Cardinality(UnreadIn(stored))
<1>1. \A r \in body : /\ r.id \in KeptIn(stored) /\ r.read = (stored[r.id] = "read")
                      /\ r = [id |-> r.id, read |-> r.read]
  OBVIOUS
<1>2. \A n \in KeptIn(stored) : [id |-> n, read |-> stored[n] = "read"] \in body
  OBVIOUS
<1>3. body \in SUBSET Rows
  <2> SUFFICES ASSUME NEW r \in body
               PROVE  r \in Rows
    OBVIOUS
  <2>1. PICK n \in KeptIn(stored) : r = [id |-> n, read |-> stored[n] = "read"]
    OBVIOUS
  <2> DEFINE t == stored[n] = "read"
  <2>2. n \in Notes /\ t \in BOOLEAN /\ r = [id |-> n, read |-> t]
    BY <2>1 DEF KeptIn
  <2> HIDE DEF t
  <2> QED BY <2>2 DEF Rows
<1>4. OneEach(body)
  BY <1>1 DEF OneEach
<1>5. Ids(body) = KeptIn(stored)
  <2>1. \A n \in KeptIn(stored) : n \in Ids(body)
    <3> TAKE n \in KeptIn(stored)
    <3> DEFINE r == [id |-> n, read |-> stored[n] = "read"]
    <3>1. r \in body /\ r.id = n
      BY <1>2
    <3> QED BY <3>1 DEF Ids
  <2>2. Ids(body) \subseteq KeptIn(stored)
    BY <1>1 DEF Ids
  <2> QED BY <2>1, <2>2
<1>6. \A r \in body : Seen(r, stored)
  BY <1>1 DEF Seen, KeptIn
<1>7. UnreadIn(stored) \in SUBSET Notes
  BY DEF UnreadIn
<1>8. count \in 0 .. Cardinality(Notes) /\ count = Cardinality(UnreadIn(stored))
  BY <1>7, InboxAssumption, FS_Subset, FS_CardinalityType
<1> QED BY <1>3, <1>4, <1>5, <1>6, <1>8

LEMMA ReadStep ==
  ASSUME IInv, NEW i \in DOMAIN calls, calls[i].code = "pending",
         calls[i].kind \in {"list", "count"},
         NEW ds, ds = Served(i, "200"),
         NEW body \in SUBSET Rows, OneEach(body), Ids(body) = KeptIn(stored),
         \A r \in body : Seen(r, stored),
         NEW count \in 0 .. Cardinality(Notes), count = Cardinality(UnreadIn(stored)),
         NEW old \in BOOLEAN, old = (open # {}),
         calls' = [ds EXCEPT ![i].body = body, ![i].count = count, ![i].old = old],
         UNCHANGED <<list, asking, unread, pushed, server, history>>
  PROVE  IInv'
<1>1. /\ ds \in [DOMAIN calls -> Requests]
      /\ ds[i].kind = calls[i].kind /\ ds[i].rows = calls[i].rows
      /\ ds[i].gone = calls[i].gone /\ ds[i].served /\ ds[i].code = "200"
      /\ \A j \in DOMAIN calls \ {i} : ds[j] = calls[j]
  BY ServedCall
<1>3. /\ calls'[i] = [ds[i] EXCEPT !.body = body, !.count = count, !.old = old]
      /\ \A j \in DOMAIN calls \ {i} : calls'[j] = calls[j]
      /\ DOMAIN calls' = DOMAIN calls
  BY <1>1
<1>4. /\ calls'[i] \in Requests
      /\ calls'[i].kind = calls[i].kind /\ calls'[i].rows = calls[i].rows
      /\ calls'[i].gone = calls[i].gone
      /\ calls'[i].served /\ calls'[i].code = "200"
      /\ calls'[i].body = body /\ calls'[i].count = count /\ calls'[i].old = old
  <2> DEFINE e == ds[i]
             d == calls'[i]
  <2>1. e \in Requests /\ d = [e EXCEPT !.body = body, !.count = count, !.old = old]
    BY <1>1, <1>3
  <2>2. /\ e.kind = calls[i].kind /\ e.rows = calls[i].rows /\ e.gone = calls[i].gone
        /\ e.served /\ e.code = "200"
    BY <1>1
  <2> HIDE DEF d, e
  <2>3. d \in Requests
    BY <2>1 DEF Requests
  <2>4. /\ d.kind = e.kind /\ d.rows = e.rows /\ d.gone = e.gone /\ d.served = e.served
        /\ d.code = e.code /\ d.body = body /\ d.count = count
        /\ d.old = old
    BY <2>1 DEF Requests
  <2> QED BY <2>2, <2>3, <2>4 DEF d
<1>5. calls' \in [DOMAIN calls -> Requests]
  <2>1. calls' = [j \in DOMAIN calls |-> calls'[j]]
    BY <1>1
  <2>2. \A j \in DOMAIN calls : calls'[j] \in Requests
    BY <1>1, <1>3, <1>4
  <2> QED BY <2>1, <2>2
<1>6. Sound(calls'[i], notes, stored) /\ ~Owed(calls[i])
      /\ TrueTo(calls'[i], items, known, KeptIn(notes), elsewhere)
  <2>1. calls[i].kind \notin Removals /\ calls[i].rows = {}
    BY OneOf DEF IInv, Removals, Sound
  <2>3. ~old => KeptIn(stored) = KeptIn(notes) /\ UnreadIn(stored) = UnreadIn(notes)
    BY DEF IInv, Ledger, KeptIn, UnreadIn
  <2>4. Cardinality(UnreadIn(stored)) \in Nat
    BY FewerUnread
  <2>2. Sound(calls'[i], notes, stored)
    BY <1>4, <2>1, <2>3, <2>4 DEF Sound
  <2> QED BY <1>4, <2>1, <2>2 DEF Owed, TrueTo
<1>7. UNCHANGED <<known, elsewhere, astray, stale>>
  BY DEF history
<1> QED BY <1>3, <1>4, <1>5, <1>6, <1>7, ReplyStep

\* A statement that found its rows free: what it leaves.
LEMMA WriteServed ==
  ASSUME IInv, NEW i \in DOMAIN calls, calls[i].code = "pending",
         calls[i].kind \in {"mark", "delete", "clear"},
         NEW T, T = Target(calls[i]), calls[i].kind = "delete" => T # {},
         T \cap Unsaved = {},
         notes' = [n \in Notes |-> IF n \notin T THEN notes[n]
                                   ELSE IF calls[i].kind = "mark" THEN "read" ELSE "gone"],
         open' = IF T = {} THEN open ELSE open \cup {T},
         elsewhere' = IF calls[i].kind = "mark" \/ ~calls[i].gone \/ ~mounted THEN elsewhere
                      ELSE elsewhere \cup T,
         calls' = Aged(Served(i, "200")),
         UNCHANGED <<list, asking, unread, pushed, stored, known, astray, stale>>
  PROVE  IInv'
<1> DEFINE c == calls[i]
           ms == [n \in Notes |-> IF n \notin T THEN notes[n]
                                  ELSE IF c.kind = "mark" THEN "read" ELSE "gone"]
<1> USE DEF IInv
<1>1. c \in Requests /\ Sound(c, notes, stored) /\ ~c.served
  BY OneOf DEF Sound
<1>2. notes \in [Notes -> Kinds] /\ stored \in [Notes -> Kinds] /\ open \subseteq SUBSET Notes
      /\ elsewhere \subseteq Notes
  BY DEF TypeOK, Kinds
<1>3. /\ T \subseteq KeptIn(stored)
      /\ c.kind = "mark" => T = UnreadIn(stored)
      /\ c.kind = "delete" => T = Ids(c.rows) \cap KeptIn(stored)
      /\ c.kind = "clear" => T = KeptIn(stored)
  BY DEF Target, KeptIn, UnreadIn
<1>4. T \subseteq KeptIn(notes) /\ T \subseteq Notes /\ \A n \in T : stored[n] = notes[n]
  BY <1>3 DEF Ledger, Unsaved, KeptIn
<1>5. ms \in [Notes -> Kinds] /\ notes' = ms
  BY <1>2 DEF Kinds
<1>6. /\ c.kind = "mark" => KeptIn(ms) = KeptIn(notes)
      /\ c.kind # "mark" => KeptIn(ms) = KeptIn(notes) \ T /\ UnreadIn(ms) = UnreadIn(notes) \ T
  BY <1>4 DEF KeptIn, UnreadIn
<1>7. c.kind = "delete" => T = Ids(c.rows)
  <2> SUFFICES ASSUME c.kind = "delete"
               PROVE  T = Ids(c.rows)
    OBVIOUS
  <2>1. PICK r \in Rows : c.rows = {r}
    BY <1>1 DEF Sound
  <2> QED BY <1>3, <2>1 DEF Ids
<1>8. c.kind = "clear" => T = KeptIn(notes)
  <2>1. \A n \in Unsaved : n \in KeptIn(stored)
    BY <1>2 DEF Ledger, Unsaved, KeptIn
  <2>2. c.kind = "clear" => KeptIn(notes) \subseteq KeptIn(stored)
    BY <1>3, <2>1 DEF Ledger, Unsaved, KeptIn
  <2> QED BY <1>3, <1>4, <2>2
<1>9. Ledger(ms, stored, open')
  <2>1. UNION open' = Unsaved \cup T /\ Unsaved \subseteq Notes
    BY <1>2 DEF Unsaved
  <2>2. \A n \in Notes \ UNION open' : stored[n] = ms[n]
    BY <2>1 DEF Ledger, Unsaved
  <2>3. \A n \in Unsaved : ms[n] = notes[n]
    BY <2>1
  <2>4. \A n \in T : /\ stored[n] \in {"unread", "read"} /\ ms[n] \in {"read", "gone"}
                     /\ stored[n] = "read" => ms[n] = "gone"
    BY <1>3, <1>4 DEF KeptIn, UnreadIn
  <2>5. \A n \in UNION open' : /\ stored[n] \in {"unread", "read"} /\ ms[n] \in {"read", "gone"}
                               /\ stored[n] = "read" => ms[n] = "gone"
    <3> HIDE DEF ms
    <3> QED BY <2>1, <2>3, <2>4 DEF Ledger, Unsaved
  <2>6. \A U \in open : U \cap T = {}
    BY DEF Unsaved
  <2>7. \A U, V \in open' : U # V => U \cap V = {}
    BY <2>6 DEF Ledger
  <2> HIDE DEF ms
  <2> QED BY <2>2, <2>5, <2>7 DEF Ledger
<1>10. /\ elsewhere \subseteq elsewhere' /\ elsewhere' \subseteq Notes /\ Removed(elsewhere', ms)
       /\ elsewhere' \cap KeptIn(ms) = {}
  <2>1. elsewhere' \subseteq elsewhere \cup (IF c.kind = "mark" THEN {} ELSE T)
    OBVIOUS
  <2>2. \A n \in elsewhere : n \in Notes /\ notes[n] = "gone"
    BY <1>2 DEF Removed
  <2>4. \A n \in Notes : n \notin T => ms[n] = notes[n]
    OBVIOUS
  <2>5. c.kind # "mark" => \A n \in T : ms[n] = "gone"
    BY <1>4
  <2> HIDE DEF ms, c
  <2>6. \A n \in elsewhere : n \notin T
    BY <1>4, <2>2 DEF KeptIn
  <2>3. Removed(elsewhere', ms)
    BY <2>1, <2>2, <2>4, <2>5, <2>6 DEF Removed
  <2> QED BY <1>2, <1>4, <2>1, <2>3 DEF Removed, KeptIn
<1>11. open' \in SUBSET (SUBSET Notes)
  BY <1>2, <1>4
<1> HIDE DEF ms
<1>12. Owed(c) => Ids(c.rows) \cap KeptIn(ms) = {} \/ c.kind = "clear"
  BY <1>6, <1>7 DEF Owed, Removals
<1>13. c.kind = "clear" => KeptIn(ms) = {}
  BY <1>6, <1>8
<1>14. c.kind = "mark" \/ \A n \in UnreadIn(notes) : n \in UnreadIn(ms) \/ Leaving(c, n)
  BY <1>1, <1>6, <1>7, <1>8 DEF Leaving, Removals
<1>15. ASSUME ~astray, NEW n \in known \cap KeptIn(notes)
       PROVE  n \in KeptIn(ms) \cup elsewhere' \/ (Owed(c) /\ n \in Ids(c.rows))
  <2>1. TrueTo(c, items, known, KeptIn(notes), elsewhere)
    BY <1>15 DEF Told
  <2>2. CASE n \notin T \/ c.kind = "mark"
    BY <1>6, <2>2
  <2>3. CASE n \in T /\ c.kind # "mark" /\ c.gone
    BY <2>3
  <2>4. CASE c.kind = "delete" /\ n \in T /\ ~c.gone
    BY <1>7, <2>4 DEF Owed, Removals
  <2>5. CASE c.kind = "clear" /\ ~c.gone
    <3>1. Ids(c.rows) \ elsewhere = known \cap KeptIn(notes)
      BY <1>1, <2>1, <2>5 DEF Owed, Removals, TrueTo
    <3> QED BY <1>15, <2>5, <3>1 DEF Owed, Removals
  <2> QED BY <2>2, <2>3, <2>4, <2>5
<1>16. c.kind \notin {"list", "count"}
  OBVIOUS
<1> QED BY <1>5, <1>6, <1>9, <1>10, <1>11, <1>12, <1>13, <1>14, <1>15, <1>16, PutStep

\* A deletion of what is gone fails; that of a row in play, only if another
\* list removed it.
LEMMA DeleteRefused ==
  ASSUME IInv, NEW i \in DOMAIN calls, calls[i].code = "pending", calls[i].kind = "delete",
         Target(calls[i]) = {}, calls' = Served(i, "404"),
         UNCHANGED <<list, asking, unread, pushed, server, known, elsewhere, astray, stale>>
  PROVE  IInv'
<1>1. /\ calls' \in [DOMAIN calls -> Requests]
      /\ calls'[i].kind = calls[i].kind /\ calls'[i].rows = calls[i].rows
      /\ calls'[i].gone = calls[i].gone /\ calls'[i].served /\ calls'[i].code = "404"
      /\ \A j \in DOMAIN calls \ {i} : calls'[j] = calls[j]
      /\ Sound(calls'[i], notes, stored)
  BY ServedCall
<1>2. ~calls[i].served
  BY OneOf DEF IInv, Sound
<1>5. Ids(calls[i].rows) \cap KeptIn(notes) = {}
  <2>1. KeptIn(notes) \subseteq KeptIn(stored)
    BY DEF IInv, Ledger, KeptIn, TypeOK
  <2> QED BY <2>1 DEF Target
<1>3. ASSUME ~astray
      PROVE  TrueTo(calls'[i], items, known, KeptIn(notes), elsewhere)
  <2>1. TrueTo(calls[i], items, known, KeptIn(notes), elsewhere)
    BY <1>3 DEF IInv, Told
  <2> QED BY <1>1, <1>2, <1>5, <2>1 DEF TrueTo, Owed
<1> QED BY <1>1, <1>3, <1>5, ReplyStep

LEMMA ServeStep == ASSUME IInv, Serve PROVE IInv'
<1>1. PICK i \in DOMAIN calls :
        /\ calls[i].code = "pending"
        /\ \/ /\ calls[i].kind \in {"list", "count"}
              /\ calls' = [Served(i, "200") EXCEPT
                             ![i].body = {[id |-> n, read |-> stored[n] = "read"] : n \in KeptIn(stored)},
                             ![i].count = Cardinality(UnreadIn(stored)),
                             ![i].old = (open # {})]
              /\ UNCHANGED <<server, elsewhere>>
           \/ /\ calls[i].kind = "delete" /\ Target(calls[i]) = {}
              /\ calls' = Served(i, "404")
              /\ UNCHANGED <<server, elsewhere>>
           \/ /\ calls[i].kind \in {"mark", "clear"} \/ (calls[i].kind = "delete" /\ Target(calls[i]) # {})
              /\ Target(calls[i]) \cap Unsaved = {}
              /\ notes' = [n \in Notes |-> IF n \notin Target(calls[i]) THEN notes[n]
                                           ELSE IF calls[i].kind = "mark" THEN "read" ELSE "gone"]
              /\ open' = IF Target(calls[i]) = {} THEN open ELSE open \cup {Target(calls[i])}
              /\ elsewhere' = IF calls[i].kind = "mark" \/ ~calls[i].gone \/ ~mounted THEN elsewhere
                              ELSE elsewhere \cup Target(calls[i])
              /\ calls' = Aged(Served(i, "200"))
              /\ UNCHANGED stored
        /\ UNCHANGED <<list, asking, unread, pushed, known, astray, stale, presses, changes>>
  BY DEF Serve
<1>5. UNCHANGED <<list, asking, unread, pushed, known, astray, stale, presses, changes>>
  BY <1>1
<1>2. CASE /\ calls[i].kind \in {"list", "count"}
           /\ calls' = [Served(i, "200") EXCEPT
                          ![i].body = {[id |-> n, read |-> stored[n] = "read"] : n \in KeptIn(stored)},
                          ![i].count = Cardinality(UnreadIn(stored)),
                          ![i].old = (open # {})]
           /\ UNCHANGED <<server, elsewhere>>
  <2> DEFINE ds == Served(i, "200")
             body == {[id |-> n, read |-> stored[n] = "read"] : n \in KeptIn(stored)}
             count == Cardinality(UnreadIn(stored))
             old == open # {}
  <2>1. /\ body \in SUBSET Rows /\ OneEach(body) /\ Ids(body) = KeptIn(stored)
        /\ \A r \in body : Seen(r, stored)
        /\ count \in 0 .. Cardinality(Notes) /\ count = Cardinality(UnreadIn(stored))
    BY ReadRows
  <2>2. /\ calls' = [ds EXCEPT ![i].body = body, ![i].count = count, ![i].old = old]
        /\ calls[i].code = "pending" /\ calls[i].kind \in {"list", "count"}
        /\ ds = Served(i, "200") /\ old \in BOOLEAN /\ old = (open # {})
        /\ UNCHANGED <<list, asking, unread, pushed, server, history>>
    BY <1>1, <1>2, <1>5 DEF history
  <2> HIDE DEF ds, body, count, old
  <2> QED BY <2>1, <2>2, ReadStep
<1>3. CASE /\ calls[i].kind = "delete" /\ Target(calls[i]) = {}
           /\ calls' = Served(i, "404")
           /\ UNCHANGED <<server, elsewhere>>
  BY <1>1, <1>3, <1>5, DeleteRefused
<1>4. CASE /\ calls[i].kind \in {"mark", "clear"} \/ (calls[i].kind = "delete" /\ Target(calls[i]) # {})
           /\ Target(calls[i]) \cap Unsaved = {}
           /\ notes' = [n \in Notes |-> IF n \notin Target(calls[i]) THEN notes[n]
                                        ELSE IF calls[i].kind = "mark" THEN "read" ELSE "gone"]
           /\ open' = IF Target(calls[i]) = {} THEN open ELSE open \cup {Target(calls[i])}
           /\ elsewhere' = IF calls[i].kind = "mark" \/ ~calls[i].gone \/ ~mounted THEN elsewhere
                           ELSE elsewhere \cup Target(calls[i])
           /\ calls' = Aged(Served(i, "200"))
           /\ UNCHANGED stored
  <2> DEFINE T == Target(calls[i])
  <2>1. /\ calls[i].kind \in {"mark", "delete", "clear"} /\ (calls[i].kind = "delete" => T # {})
        /\ T \cap Unsaved = {} /\ T = Target(calls[i])
        /\ notes' = [n \in Notes |-> IF n \notin T THEN notes[n]
                                     ELSE IF calls[i].kind = "mark" THEN "read" ELSE "gone"]
        /\ open' = IF T = {} THEN open ELSE open \cup {T}
        /\ elsewhere' = IF calls[i].kind = "mark" \/ ~calls[i].gone \/ ~mounted THEN elsewhere
                        ELSE elsewhere \cup T
        /\ calls' = Aged(Served(i, "200"))
        /\ UNCHANGED stored
    BY <1>4
  <2> HIDE DEF T
  <2> QED BY <1>1, <1>5, <2>1, WriteServed
<1> QED BY <1>1, <1>2, <1>3, <1>4

\* A commit shows the others what was written; nothing on the phone moves.
LEMMA CommitStep == ASSUME IInv, Commit PROVE IInv'
<1>1. PICK T \in open :
        /\ stored' = [n \in Notes |-> IF n \in T THEN notes[n] ELSE stored[n]]
        /\ open' = open \ {T}
        /\ UNCHANGED <<list, asking, unread, calls, pushed, notes, history>>
  BY DEF Commit
<1> USE DEF IInv
<1>2. notes \in [Notes -> Kinds] /\ stored \in [Notes -> Kinds] /\ open \subseteq SUBSET Notes
  BY DEF TypeOK, Kinds
<1>3. /\ \A n \in UNION open' : n \in UNION open /\ n \notin T /\ n \in Notes
      /\ \A n \in Notes \ UNION open' : n \in T \/ n \notin UNION open
  BY <1>1, <1>2 DEF Ledger
<1>4. Ledger(notes', stored', open')
  <2>1. \A U, V \in open' : U # V => U \cap V = {}
    BY <1>1 DEF Ledger
  <2> QED BY <1>1, <1>2, <1>3, <2>1 DEF Ledger
<1>5. Onward(stored, stored')
  BY <1>1, <1>2 DEF Ledger, Onward
<1>6. UNCHANGED <<mounted, items, loading, asking, unread, calls, pushed, notes,
                  known, elsewhere, astray, stale>>
  BY <1>1 DEF list, history
<1>7. AllSound(calls', notes', stored')
  <2>1. ASSUME NEW i \in DOMAIN calls
        PROVE  Sound(calls[i], notes, stored')
    <3>1. calls[i] \in Requests /\ Sound(calls[i], notes, stored)
      BY OneOf
    <3>2. \A r \in calls[i].body \cup calls[i].rows : Seen(r, stored')
      BY <1>5, <3>1, SeenOnward DEF Requests, Sound
    <3> QED BY <3>1, <3>2 DEF Sound
  <2> QED BY <1>6, <2>1 DEF AllSound
<1>8. OnePage(items', asking', calls', known', stored')
  BY <1>5, <1>6, PageOnward DEF TypeOK
<1>9. TypeOK'
  BY <1>1, <1>2, <1>6 DEF TypeOK, Kinds
<1> QED BY <1>4, <1>6, <1>7, <1>8, <1>9

\* One that fails gives the API its rows back: the list is astray.
LEMMA RollbackStep == ASSUME IInv, Rollback PROVE IInv'
<1>1. PICK T \in open :
        /\ notes' = [n \in Notes |-> IF n \in T THEN stored[n] ELSE notes[n]]
        /\ open' = open \ {T} /\ astray' = TRUE /\ elsewhere' = elsewhere \ T
        /\ UNCHANGED <<list, asking, unread, calls, pushed, stored, known, stale, presses>>
  BY DEF Rollback
<1> USE DEF IInv
<1>2. notes \in [Notes -> Kinds] /\ stored \in [Notes -> Kinds] /\ open \subseteq SUBSET Notes
  BY DEF TypeOK, Kinds
<1>3. /\ \A n \in UNION open' : n \in UNION open /\ n \notin T /\ n \in Notes
      /\ \A n \in Notes \ UNION open' : n \in T \/ n \notin UNION open
  BY <1>1, <1>2 DEF Ledger
<1>4. Ledger(notes', stored', open') /\ Removed(elsewhere', notes')
  <2>1. \A U, V \in open' : U # V => U \cap V = {}
    BY <1>1 DEF Ledger
  <2>2. Removed(elsewhere', notes')
    BY <1>1 DEF Removed, TypeOK
  <2>3. stored' = stored
    BY <1>1
  <2> QED BY <1>1, <1>2, <1>3, <2>1, <2>2, <2>3 DEF Ledger
<1>5. UnreadIn(notes) \subseteq UnreadIn(notes') /\ KeptIn(notes) \subseteq KeptIn(notes')
  BY <1>1, <1>2 DEF Ledger, UnreadIn, KeptIn
<1>6. UNCHANGED <<mounted, items, loading, asking, unread, calls, pushed, stored, known, stale>>
  BY <1>1 DEF list
<1>7. AllSound(calls', notes', stored')
  <2>1. ASSUME NEW i \in DOMAIN calls
        PROVE  Sound(calls[i], notes', stored)
    <3>1. calls[i] \in Requests /\ Sound(calls[i], notes, stored)
      BY OneOf
    <3>2. /\ Cardinality(UnreadIn(notes)) <= Cardinality(UnreadIn(notes'))
          /\ Cardinality(UnreadIn(notes)) \in Nat /\ Cardinality(UnreadIn(notes')) \in Nat
      BY <1>5, FewerUnread
    <3>3. calls[i].count <= Cardinality(UnreadIn(notes)) =>
            calls[i].count <= Cardinality(UnreadIn(notes'))
      BY <3>1, <3>2, InboxAssumption, FS_CardinalityType DEF Requests
    <3> QED BY <1>5, <3>1, <3>3 DEF Sound
  <2> QED BY <1>6, <2>1 DEF AllSound
<1>8. ASSUME ~stale
      PROVE  Counted(calls', unread', notes')
  <2>1. Staying(calls, notes) \subseteq Staying(calls, notes')
    BY <1>5 DEF Staying
  <2>2. unread \in Nat
    BY DEF TypeOK
  <2> QED BY <1>6, <1>8, <2>1, <2>2, CountedGrows
<1>9. TypeOK'
  <2>1. notes' \in [Notes -> Kinds] /\ elsewhere' \subseteq Notes /\ open' \subseteq SUBSET Notes
    BY <1>1, <1>2 DEF TypeOK
  <2> QED BY <1>1, <1>6, <2>1 DEF TypeOK, Kinds
<1> QED BY <1>1, <1>4, <1>6, <1>7, <1>8, <1>9

LEMMA PushAheadStep == ASSUME IInv, PushAhead PROVE IInv'
<1>1. /\ pushed' = TRUE
      /\ UNCHANGED <<mounted, items, loading, asking, unread, calls, notes, stored, open,
                     known, elsewhere, astray, stale>>
  BY DEF PushAhead, list, server
<1> QED BY <1>1 DEF IInv, TypeOK

LEMMA LoseStep == ASSUME IInv, Lose PROVE IInv'
<1>1. PICK i \in DOMAIN calls : calls' = [calls EXCEPT ![i].code = "lost"]
  BY DEF Lose
<1>2. UNCHANGED <<list, asking, unread, pushed, server, known, elsewhere, astray, stale>>
  BY DEF Lose
<1>3. \A j \in DOMAIN calls : calls[j] \in Requests /\ Sound(calls[j], notes, stored)
  BY OneOf DEF IInv
<1>4. calls'[i] = [calls[i] EXCEPT !.code = "lost"]
      /\ \A j \in DOMAIN calls \ {i} : calls'[j] = calls[j]
  BY <1>1
<1>5. /\ calls'[i] \in Requests /\ Sound(calls'[i], notes, stored)
      /\ calls'[i].kind = calls[i].kind /\ calls'[i].rows = calls[i].rows
      /\ calls'[i].gone = calls[i].gone /\ calls'[i].served = calls[i].served
      /\ calls'[i].code = "lost"
  BY <1>3, <1>4 DEF Requests, Sound
<1>6. calls' \in [DOMAIN calls -> Requests]
  BY <1>1, <1>3, <1>4, <1>5
<1>7. ~astray => TrueTo(calls'[i], items, known, KeptIn(notes), elsewhere)
  <2> SUFFICES ASSUME ~astray
               PROVE  TrueTo(calls'[i], items, known, KeptIn(notes), elsewhere)
    OBVIOUS
  <2>1. TrueTo(calls[i], items, known, KeptIn(notes), elsewhere)
    BY DEF IInv, Told
  <2> QED BY <1>5, <2>1 DEF TrueTo, Owed
<1> QED BY <1>2, <1>4, <1>5, <1>6, <1>7, ReplyStep

-----------------------------------------------------------------------------
(***************************************************************************)
(* Answers.                                                                *)
(***************************************************************************)

\* What is left after an answer is taken, when nothing else is being removed.
LEMMA NothingElse ==
  ASSUME NEW cs, NEW ns, NEW st, AllSound(cs, ns, st), NEW i \in DOMAIN cs, ~Removing(RemoveAt(cs, i))
  PROVE  \A j \in DOMAIN cs \ {i} : cs[j].kind \notin Removals
<1>1. PICK f \in [DOMAIN RemoveAt(cs, i) -> DOMAIN cs \ {i}] :
        /\ \A j \in DOMAIN RemoveAt(cs, i) : RemoveAt(cs, i)[j] = cs[f[j]]
        /\ \A k \in DOMAIN cs \ {i} : \E j \in DOMAIN RemoveAt(cs, i) : f[j] = k
  BY Places DEF AllSound
<1> QED BY <1>1 DEF Removing, Removals

LEMMA CountAnsweredStep ==
  ASSUME IInv, NEW i \in DOMAIN calls, CountAnswered(i),
         UNCHANGED <<asking, pushed, notes, stored, open, elsewhere, presses, changes>>
  PROVE  IInv'
<1> DEFINE c == calls[i]
           ds == [j \in DOMAIN calls |->
                    [calls[j] EXCEPT !.old = @ \/ (j < i /\ calls[j].kind = "count")]]
<1>1. /\ c.kind = "count"
      /\ IF c.code = "200" THEN unread' = c.count /\ stale' = (c.old \/ Removing(RemoveAt(calls, i)))
         ELSE UNCHANGED <<unread, stale>>
      /\ calls' = RemoveAt(ds, i)
      /\ UNCHANGED <<mounted, items, loading, known, elsewhere, astray>>
  BY DEF CountAnswered, Got, Rest, list
<1> USE DEF IInv
<1>2. \A j \in DOMAIN calls : calls[j] \in Requests /\ Sound(calls[j], notes, stored)
  BY OneOf
<1>3. ASSUME NEW j \in DOMAIN calls
      PROVE  ds[j] \in Requests /\ Sound(ds[j], notes, stored) /\ Alike(calls[j], ds[j])
  <2> DEFINE t == calls[j].old \/ (j < i /\ calls[j].kind = "count")
  <2>1. ds[j] = [calls[j] EXCEPT !.old = t] /\ t \in BOOLEAN /\ (calls[j].old => t)
    BY <1>2 DEF Requests
  <2> HIDE DEF t, ds
  <2>2. calls[j] \in Requests /\ Sound(calls[j], notes, stored)
    BY <1>2
  <2> QED BY <2>1, <2>2 DEF Requests, Sound, Alike
<1>4. ds \in [DOMAIN calls -> Requests] /\ DOMAIN ds = DOMAIN calls
  <2>1. \A j \in DOMAIN calls : ds[j] \in Requests
    BY <1>3
  <2> QED BY <2>1
<1> HIDE DEF ds
<1>5. ds \in Seq(Requests) /\ AllSound(ds, notes, stored)
  <2>1. ds \in Seq(Requests)
    BY <1>4, Mapped DEF AllSound
  <2> QED BY <1>3, <1>4, <2>1 DEF AllSound
<1>6. /\ OneLoad(ds, mounted, loading)
      /\ \A r : InPlay(r, items, asking, ds) => InPlay(r, items, asking, calls)
      /\ ~astray => Told(ds, items, known, KeptIn(notes), elsewhere)
      /\ \A dot \in Nat : Counted(calls, dot, notes) => Counted(ds, dot, notes)
  BY <1>3, <1>4, AlikeCalls
<1>7. i \in DOMAIN ds /\ ds[i].kind = "count" /\ ds[i].kind # "mark" /\ ~Owed(ds[i])
  BY <1>1, <1>3, <1>4 DEF Alike, Owed, Removals
<1>8. AllSound(calls', notes', stored') /\ OneLoad(calls', mounted', loading')
  BY <1>1, <1>5, <1>6, <1>7, DropCall
<1>9. OnePage(items', asking', calls', known', stored')
  <2>1. \A r \in Rows : InPlay(r, items, asking, calls') => InPlay(r, items, asking, calls)
    BY <1>1, <1>5, <1>6, <1>7, DropCall
  <2>2. OnePage(items, asking, calls', known, stored)
    BY <2>1, PageKept DEF OnePage
  <2> QED BY <1>1, <2>2
<1>10. ~astray' => Told(calls', items', known', KeptIn(notes'), elsewhere')
  BY <1>1, <1>5, <1>6, <1>7, DropCall
<1>11. ASSUME ~stale'
       PROVE  Counted(calls', unread', notes')
  <2>1. CASE c.code = "200"
    <3>1. ~c.old /\ ~Removing(RemoveAt(calls, i)) /\ unread' = c.count
      BY <1>1, <1>11, <2>1
    <3>2. c.count <= Cardinality(UnreadIn(notes))
      BY <1>1, <1>2, <2>1, <3>1 DEF Sound
    <3>3. \A j \in DOMAIN calls \ {i} : calls[j].kind \notin Removals
      BY <3>1, NothingElse
    <3>4. \A j \in DOMAIN ds : ds[j].kind \notin Removals
      BY <1>1, <1>3, <1>4, <3>3 DEF Alike, Removals
    <3>5. \A j \in DOMAIN calls' : calls'[j].kind \notin Removals
      BY <1>1, <1>5, <1>7, <3>4, Places
    <3>6. Staying(calls', notes) = UnreadIn(notes)
      BY <3>5 DEF Staying, Leaving
    <3> QED BY <3>1, <3>2, <3>6 DEF Counted
  <2>2. CASE c.code # "200"
    <3>1. unread' = unread /\ ~stale /\ unread \in Nat
      BY <1>1, <1>11, <2>2 DEF TypeOK
    <3> QED BY <1>1, <1>5, <1>6, <1>7, <3>1, DropCall
  <2> QED BY <2>1, <2>2
<1>12. unread' \in 0 .. Cardinality(Notes) /\ stale' \in BOOLEAN
  BY <1>1, <1>2 DEF TypeOK, Requests
<1>13. TypeOK'
  BY <1>1, <1>12 DEF TypeOK
<1> QED BY <1>1, <1>8, <1>9, <1>10, <1>11, <1>13

\* The list hears its answer, and goes on to have it marked as read.
LEMMA ListAnsweredStep ==
  ASSUME IInv, NEW i \in DOMAIN calls, calls[i].code # "pending", ListAnswered(i),
         UNCHANGED <<asking, pushed, notes, stored, open, elsewhere, presses, changes>>
  PROVE  IInv'
<1> DEFINE c == calls[i]
           more == c.code = "200" /\ c.count > 0
           rest == RemoveAt(calls, i)
           mark == [Call("mark", {}) EXCEPT !.gone = c.gone]
<1>1. /\ c.kind = "list"
      /\ calls' = IF more THEN Append(rest, mark) ELSE rest
      /\ IF c.gone THEN UNCHANGED <<items, loading, known, elsewhere, astray>>
         ELSE /\ IF c.code = "200"
                 THEN items' = c.body /\ known' = Ids(c.body)
                      /\ astray' = c.old
                 ELSE UNCHANGED <<items, known, elsewhere, astray>>
              /\ loading' = more
      /\ UNCHANGED <<mounted, unread, stale>>
  BY DEF ListAnswered, Got, Rest
<1> USE DEF IInv
<1>2. c \in Requests /\ Sound(c, notes, stored) /\ c.rows = {} /\ c.gone \in BOOLEAN
  BY <1>1, OneOf DEF Sound, Removals, Requests
<1>3. /\ mark \in Requests /\ Sound(mark, notes, stored) /\ ~Owed(mark) /\ mark.kind = "mark"
      /\ mark.kind \notin Removals /\ mark.rows = {} /\ mark.gone = c.gone
      /\ Waits(mark) <=> ~c.gone
  <2>1. Call("mark", {}) \in Requests /\ Sound(Call("mark", {}), notes, stored)
    BY Fresh DEF Loads, Removals
  <2> HIDE DEF c
  <2> QED BY <1>2, <2>1 DEF Requests, Sound, Owed, Removals, Waits, Loads, Call
<1> HIDE DEF mark, rest, more
<1>4. /\ AllSound(rest, notes, stored) /\ OneLoad(rest, mounted, loading)
      /\ \A r : InPlay(r, items, asking, rest) => InPlay(r, items, asking, calls)
      /\ Told(calls, items, known, KeptIn(notes), elsewhere) => Told(rest, items, known, KeptIn(notes), elsewhere)
      /\ \A dot \in Nat : Counted(calls, dot, notes) => Counted(rest, dot, notes)
  <2>1. calls[i].kind # "mark" /\ ~Owed(calls[i])
    BY <1>1 DEF Owed, Removals
  <2> QED BY <2>1, DropCall DEF rest
<1>5. /\ AllSound(calls', notes', stored')
      /\ \A r : InPlay(r, items, asking, calls') => InPlay(r, items, asking, calls)
      /\ Told(calls, items, known, KeptIn(notes), elsewhere) => Told(calls', items, known, KeptIn(notes), elsewhere)
      /\ \A dot \in Nat : Counted(calls, dot, notes) => Counted(calls', dot, notes)
  <2>1. CASE more
    <3>1. calls' = Append(rest, mark)
      BY <1>1, <2>1
    <3>2. AllSound(Append(rest, mark), notes, stored)
      BY <1>3, <1>4, SendCall
    <3>3. \A r : InPlay(r, items, asking, Append(rest, mark)) => InPlay(r, items, asking, rest)
      BY <1>3, <1>4, SendCall
    <3>4. Told(rest, items, known, KeptIn(notes), elsewhere) =>
            Told(Append(rest, mark), items, known, KeptIn(notes), elsewhere)
      BY <1>3, <1>4, SendCall
    <3>5. \A dot \in Nat : Counted(rest, dot, notes) => Counted(Append(rest, mark), dot, notes)
      BY <1>3, <1>4, SendCall
    <3> QED BY <1>4, <3>1, <3>2, <3>3, <3>4, <3>5
  <2>2. CASE ~more
    BY <1>1, <1>4, <2>2
  <2> QED BY <2>1, <2>2
<1>6. ASSUME ~c.gone
      PROVE  /\ mounted /\ loading /\ asking = None
             /\ \A j \in DOMAIN rest : ~Waits(rest[j]) /\ ~Owed(rest[j])
  <2>1. Waits(c)
    BY <1>1, <1>6 DEF Waits, Loads
  <2>2. \A j \in DOMAIN rest : ~Waits(rest[j]) /\ ~Owed(rest[j])
    BY <2>1, DropCall DEF rest
  <2>3. mounted /\ loading
    BY <2>1 DEF OneLoad
  <2> QED BY <2>2, <2>3
<1>7. OneLoad(calls', mounted', loading')
  <2>1. CASE c.gone
    <3>1. UNCHANGED <<mounted, loading>> /\ ~Waits(mark)
      BY <1>1, <1>3, <2>1
    <3>2. OneLoad(Append(rest, mark), mounted, loading)
      BY <1>3, <1>4, <3>1, SendCall
    <3> QED BY <1>1, <1>4, <3>1, <3>2
  <2>2. CASE ~c.gone /\ more
    <3>1. loading' /\ mounted' /\ calls' = Append(rest, mark)
      BY <1>1, <1>6, <2>2
    <3> QED BY <1>3, <1>4, <1>6, <2>2, <3>1, SendCall
  <2>3. CASE ~c.gone /\ ~more
    <3>1. calls' = rest
      BY <1>1, <2>3
    <3> QED BY <1>6, <2>3, <3>1 DEF OneLoad
  <2> QED BY <2>1, <2>2, <2>3
<1>8. asking' # None => mounted' /\ ~loading'
  BY <1>1, <1>6
<1>9. CASE ~c.gone /\ c.code = "200"
  <2>1. /\ items' = c.body /\ known' = Ids(c.body)
        /\ astray' = c.old
    BY <1>1, <1>9
  <2>2. /\ c.body \in SUBSET Rows /\ OneEach(c.body)
        /\ \A r \in c.body : Seen(r, stored)
    BY <1>2 DEF Sound, Requests
  <2>3. \A j \in DOMAIN calls' : ~Owed(calls'[j])
    <3>1. rest \in Seq(Requests) /\ \A j \in DOMAIN rest : ~Owed(rest[j])
      BY <1>4, <1>6, <1>9 DEF AllSound
    <3>2. CASE more
      BY <1>1, <1>3, <3>1, <3>2, Appended
    <3>3. CASE ~more
      BY <1>1, <3>1, <3>3
    <3> QED BY <3>2, <3>3
  <2>4. \A r : InPlay(r, items', asking', calls') => r \in c.body
    <3>1. \A j \in DOMAIN calls' : ~calls'[j].gone => calls'[j].rows = {}
      BY <1>5, <2>3, OneOf DEF Sound, Owed
    <3> QED BY <1>6, <1>9, <2>1, <3>1 DEF InPlay
  <2>5. OnePage(items', asking', calls', known', stored')
    <3>1. known' \subseteq Notes /\ \A n \in known' : stored[n] # "none"
      BY <2>1, <2>2 DEF Ids, Seen, Rows
    <3>2. \A r \in c.body : r.id \in known'
      BY <2>1 DEF Ids
    <3> QED BY <1>6, <1>9, <2>1, <2>2, <2>4, <3>1, <3>2 DEF OnePage, OneEach
  <2>6. ASSUME ~astray'
        PROVE  Told(calls', items', known', KeptIn(notes'), elsewhere')
    <3>1. ~c.old
      BY <2>1, <2>6
    <3>2. Ids(c.body) \subseteq KeptIn(notes)
      BY <1>1, <1>2, <1>9, <3>1 DEF Sound
    <3>5. \A j \in DOMAIN calls' : \A kn, kept, ew : TrueTo(calls'[j], items', kn, kept, ew)
      BY <2>3 DEF TrueTo
    <3> QED BY <2>1, <2>3, <3>2, <3>5 DEF Told
  <2>7. TypeOK'
    <3>1. Cardinality(Ids(c.body)) = Cardinality(c.body)
      BY <2>2, CountRows
    <3>2. loading' \in BOOLEAN /\ (loading' => mounted') /\ astray' \in BOOLEAN
      BY <1>1, <1>2, <1>6, <1>9, <2>1 DEF more, Requests
    <3> QED BY <1>1, <2>1, <2>2, <3>1, <3>2 DEF TypeOK
  <2>8. ~stale' => Counted(calls', unread', notes')
    BY <1>1, <1>5 DEF TypeOK
  <2>9. mounted'
    BY <1>1, <1>6, <1>9
  <2> QED BY <1>5, <1>7, <1>8, <2>5, <2>6, <2>7, <2>8, <2>9
<1>10. CASE c.gone \/ c.code # "200"
  <2>1. UNCHANGED <<items, known, elsewhere, astray>>
    BY <1>1, <1>10
  <2>2. OnePage(items', asking', calls', known', stored')
    <3>1. OnePage(items, asking, calls', known, stored)
      BY <1>5, PageKept DEF OnePage
    <3> QED BY <2>1, <3>1
  <2>3. ~astray' => Told(calls', items', known', KeptIn(notes'), elsewhere')
    BY <1>5, <2>1
  <2>4. TypeOK'
    <3>1. loading' \in BOOLEAN /\ (loading' => mounted')
      BY <1>1, <1>6 DEF more, TypeOK
    <3> QED BY <1>1, <2>1, <3>1 DEF TypeOK
  <2>5. ~stale' => Counted(calls', unread', notes')
    BY <1>1, <1>5 DEF TypeOK
  <2>6. ~mounted' => known' = {}
    BY <1>1, <2>1
  <2> QED BY <1>5, <1>7, <1>8, <2>2, <2>3, <2>4, <2>5, <2>6
<1> QED BY <1>9, <1>10

LEMMA MarkAnsweredStep ==
  ASSUME IInv, NEW i \in DOMAIN calls, calls[i].code # "pending", MarkAnswered(i),
         UNCHANGED <<asking, pushed, notes, stored, open, elsewhere, presses, changes>>
  PROVE  IInv'
<1> DEFINE c == calls[i]
<1>1. /\ c.kind = "mark"
      /\ unread' = IF c.code = "200" THEN 0 ELSE unread
      /\ loading' = (loading /\ c.gone)
      /\ calls' = RemoveAt(calls, i)
      /\ stale' = (stale \/ (c.code = "lost" /\ c.served))
      /\ UNCHANGED <<mounted, items, known, elsewhere, astray>>
  BY DEF MarkAnswered, Got, Rest
<1> USE DEF IInv
<1>2. c \in Requests /\ Sound(c, notes, stored) /\ ~Owed(c)
  BY <1>1, OneOf DEF Owed, Removals
<1>3. /\ AllSound(calls', notes', stored')
      /\ \A r : InPlay(r, items, asking, calls') => InPlay(r, items, asking, calls)
      /\ Told(calls, items, known, KeptIn(notes), elsewhere) => Told(calls', items, known, KeptIn(notes), elsewhere)
  BY <1>1, <1>2, DropCall
<1>4. OneLoad(calls', mounted', loading') /\ (asking' # None => mounted' /\ ~loading')
  <2>1. CASE c.gone
    <3>1. loading' = loading /\ OneLoad(calls', mounted, loading)
      BY <1>1, <2>1, DropCall DEF TypeOK
    <3> QED BY <1>1, <3>1
  <2>2. CASE ~c.gone
    <3>1. Waits(c)
      BY <1>1, <2>2 DEF Waits, Loads
    <3>2. \A j \in DOMAIN calls' : ~Waits(calls'[j]) /\ ~Owed(calls'[j])
      BY <1>1, <3>1, DropCall
    <3> QED BY <1>1, <2>2, <3>2 DEF OneLoad
  <2> QED BY <2>1, <2>2
<1>5. OnePage(items', asking', calls', known', stored')
  <2>1. OnePage(items, asking, calls', known, stored)
    BY <1>3, PageKept DEF OnePage
  <2> QED BY <1>1, <2>1
<1>6. ~astray' => Told(calls', items', known', KeptIn(notes'), elsewhere')
  BY <1>1, <1>3
<1>7. ASSUME ~stale'
      PROVE  Counted(calls', unread', notes')
  <2>1. CASE c.code = "200"
    BY <1>1, <2>1, StayingFinite DEF Counted
  <2>2. CASE c.code # "200"
    <3>1. ~stale /\ unread' = unread /\ ~c.served /\ unread \in Nat
      BY <1>1, <1>2, <1>7, <2>2 DEF Requests, Sound, TypeOK
    <3>2. PICK f \in [DOMAIN calls' -> DOMAIN calls \ {i}] :
            /\ \A j \in DOMAIN calls' : calls'[j] = calls[f[j]]
            /\ \A j, k \in DOMAIN calls' : f[j] = f[k] => j = k
            /\ \A k \in DOMAIN calls \ {i} : \E j \in DOMAIN calls' : f[j] = k
      <4> DEFINE rest == RemoveAt(calls, i)
      <4>1. calls \in Seq(Requests) /\ calls' = rest
        BY <1>1 DEF AllSound
      <4>2. \E g \in [DOMAIN rest -> DOMAIN calls \ {i}] :
              /\ \A j \in DOMAIN rest : rest[j] = calls[g[j]]
              /\ \A j, k \in DOMAIN rest : g[j] = g[k] => j = k
              /\ \A k \in DOMAIN calls \ {i} : \E j \in DOMAIN rest : g[j] = k
        BY <4>1, Places
      <4> HIDE DEF rest
      <4> QED BY <4>1, <4>2
    <3>3. Staying(calls, notes) \subseteq Staying(calls', notes)
      BY <3>2 DEF Staying
    <3>4. Marked(calls) => Marked(calls')
      <4> SUFFICES ASSUME NEW k \in DOMAIN calls, calls[k].kind = "mark", calls[k].served
                   PROVE  Marked(calls')
        BY DEF Marked
      <4>1. PICK j \in DOMAIN calls' : f[j] = k
        BY <3>1, <3>2
      <4> QED BY <3>2, <4>1 DEF Marked
    <3> QED BY <3>1, <3>3, <3>4, CountedGrows
  <2> QED BY <2>1, <2>2
<1>8. TypeOK'
  <2>1. unread' \in 0 .. Cardinality(Notes) /\ loading' \in BOOLEAN /\ stale' \in BOOLEAN
        /\ (loading' => mounted')
    BY <1>1, InboxAssumption, FS_CardinalityType DEF TypeOK
  <2> QED BY <1>1, <2>1 DEF TypeOK
<1>9. ~mounted' => known' = {}
  BY <1>1
<1> QED BY <1>3, <1>4, <1>5, <1>6, <1>7, <1>8, <1>9

\* A removal that succeeded changes nothing more; one that failed puts back
\* what it holds.
LEMMA RemovalAnsweredStep ==
  ASSUME IInv, NEW i \in DOMAIN calls, calls[i].code # "pending", RemovalAnswered(i),
         UNCHANGED <<asking, pushed, notes, stored, open, elsewhere, presses, changes>>
  PROVE  IInv'
<1> DEFINE c == calls[i]
<1>1. /\ c.kind \in Removals
      /\ items' = IF c.gone \/ c.code = "200" THEN items ELSE PutBack(c)
      /\ astray' = (astray \/ (c.code = "lost" /\ c.served))
      /\ calls' = RemoveAt(calls, i)
      /\ UNCHANGED <<mounted, loading, unread, known, stale>>
  BY DEF RemovalAnswered, Got, Rest, Removals
<1> USE DEF IInv
<1>2. c \in Requests /\ Sound(c, notes, stored)
  BY OneOf
<1>3. /\ AllSound(calls', notes', stored') /\ OneLoad(calls', mounted', loading')
      /\ \A r : InPlay(r, items, asking, calls') => InPlay(r, items, asking, calls)
  BY <1>1, DropCall
<1>4. PICK f \in [DOMAIN calls' -> DOMAIN calls \ {i}] :
        /\ \A j \in DOMAIN calls' : calls'[j] = calls[f[j]]
        /\ \A j, k \in DOMAIN calls' : f[j] = f[k] => j = k
        /\ \A k \in DOMAIN calls \ {i} : \E j \in DOMAIN calls' : f[j] = k
  BY <1>1, Places DEF AllSound
<1>5. \A j \in DOMAIN calls' : f[j] \in DOMAIN calls /\ f[j] # i
  BY <1>4
<1>6. /\ items' \in SUBSET Rows
      /\ items' \subseteq items \cup (IF c.gone THEN {} ELSE c.rows)
  BY <1>1, <1>2 DEF PutBack, TypeOK, Requests
<1>7. OnePage(items', asking', calls', known', stored')
  <2>1. \A r \in Rows : InPlay(r, items', asking, calls') => InPlay(r, items, asking, calls)
    <3>1. \A r \in items' : InPlay(r, items, asking, calls)
      BY <1>6 DEF InPlay
    <3> QED BY <1>3, <3>1 DEF InPlay
  <2>2. \A r \in items' : Seen(r, stored)
    BY <1>2, <1>6 DEF Sound, OnePage
  <2>3. OnePage(items', asking, calls', known, stored)
    BY <2>1, <2>2, PageKept DEF OnePage
  <2> QED BY <1>1, <2>3
<1>8. ASSUME ~astray'
      PROVE  Told(calls', items', known', KeptIn(notes'), elsewhere')
  <2> DEFINE kept == KeptIn(notes)
  <2>1. Told(calls, items, known, kept, elsewhere) /\ ~(c.code = "lost" /\ c.served)
    BY <1>1, <1>8
  <2> HIDE DEF kept
  <2>2. TrueTo(c, items, known, kept, elsewhere)
    BY <2>1 DEF Told
  <2>3. CASE c.gone \/ c.code = "200"
    <3>1. items' = items
      BY <1>1, <2>3
    <3>2. ~(Owed(c) /\ ~c.served)
      BY <1>2, <2>3 DEF Owed, Sound
    <3>3. Told(calls', items, known, kept, elsewhere)
      BY <1>1, <2>1, <3>2, DropCall
    <3> QED BY <1>1, <3>1, <3>3 DEF kept
  <2>4. CASE ~c.gone /\ c.code # "200"
    <3>1. /\ Owed(c) /\ (c.served => c.kind = "delete" /\ c.code = "404") /\ items' = PutBack(c)
      BY <1>1, <1>2, <2>1, <2>2, <2>4 DEF Owed, TrueTo, Requests, Sound
    <3>2. \A j \in DOMAIN calls' : Owed(calls'[j]) =>
            /\ c.kind = "delete" /\ calls'[j].kind = "delete"
            /\ Ids(calls'[j].rows) \cap Ids(c.rows) = {}
      <4> SUFFICES ASSUME NEW j \in DOMAIN calls', Owed(calls'[j])
                   PROVE  /\ c.kind = "delete" /\ calls'[j].kind = "delete"
                          /\ Ids(calls'[j].rows) \cap Ids(c.rows) = {}
        OBVIOUS
      <4> DEFINE d == calls'[j]
      <4>1. c.kind = "delete" /\ d.kind = "delete" /\ d.rows # c.rows
        BY <1>4, <1>5, <2>1, <3>1 DEF Told
      <4>2. PICK r \in Rows : c.rows = {r}
        BY <1>2, <4>1 DEF Sound
      <4>3. PICK s \in Rows : d.rows = {s}
        BY <1>3, <4>1, OneOf DEF Sound
      <4>4. r # s /\ InPlay(r, items, asking, calls) /\ InPlay(s, items, asking, calls)
        BY <1>4, <1>5, <2>4, <4>1, <4>2, <4>3 DEF InPlay, Owed
      <4>5. r.id # s.id
        BY <4>4 DEF OnePage
      <4>6. Ids(c.rows) = {r.id} /\ Ids(d.rows) = {s.id}
        BY <4>2, <4>3 DEF Ids
      <4> QED BY <4>1, <4>5, <4>6
    <3>3. /\ Ids(items') = Ids(items) \cup Ids(c.rows)
          /\ Ids(c.rows) \subseteq kept \cup elsewhere
      <4>1. CASE c.kind = "delete"
        BY <2>2, <3>1, <4>1 DEF PutBack, TrueTo, Ids
      <4>2. CASE c.kind = "clear"
        <5>1. items = {} /\ items' = c.rows /\ Ids(c.rows) \ elsewhere = known \cap kept
          BY <2>2, <3>1, <4>2 DEF PutBack, TrueTo
        <5> QED BY <5>1 DEF Ids
      <4> QED BY <1>1, <4>1, <4>2 DEF Removals
    <3>4. ASSUME NEW n \in known \cap kept, n \notin Ids(items')
          PROVE  \E j \in DOMAIN calls' :
                   Owed(calls'[j]) /\ ~calls'[j].served /\ n \in Ids(calls'[j].rows)
      <4>1. PICK k \in DOMAIN calls : Owed(calls[k]) /\ ~calls[k].served /\ n \in Ids(calls[k].rows)
        BY <2>1, <3>3, <3>4 DEF Told
      <4>2. k # i
        BY <3>3, <3>4, <4>1
      <4>3. PICK j \in DOMAIN calls' : f[j] = k
        BY <1>4, <4>2
      <4> QED BY <1>4, <4>1, <4>3
    <3>5. ASSUME NEW j \in DOMAIN calls'
          PROVE  TrueTo(calls'[j], items', known, kept, elsewhere)
      <4>1. TrueTo(calls'[j], items, known, kept, elsewhere)
        BY <1>4, <1>5, <2>1 DEF Told
      <4> QED BY <3>2, <3>3, <4>1 DEF TrueTo
    <3>6. \A j, k \in DOMAIN calls' : j # k /\ Owed(calls'[j]) /\ Owed(calls'[k]) =>
            calls'[j].kind = "delete" /\ calls'[k].kind = "delete" /\ calls'[j].rows # calls'[k].rows
      BY <1>4, <1>5, <2>1 DEF Told
    <3>7. Ids(items') \subseteq kept \cup elsewhere
      BY <2>1, <3>3 DEF Told
    <3>8. Told(calls', items', known, kept, elsewhere)
      BY <3>4, <3>5, <3>6, <3>7 DEF Told
    <3> QED BY <1>1, <3>8 DEF kept
  <2> QED BY <2>3, <2>4
<1>9. ~stale' => Counted(calls', unread', notes')
  <2>1. c.kind # "mark" /\ unread \in Nat
    BY <1>1 DEF Removals, TypeOK
  <2> QED BY <1>1, <2>1, DropCall
<1>10. TypeOK'
  <2>1. OneEach(items')
    <3>1. \A r \in items' : r \in Rows /\ InPlay(r, items', asking', calls')
      BY <1>6 DEF InPlay
    <3> QED BY <1>7, <3>1 DEF OnePage, OneEach
  <2>2. astray' \in BOOLEAN
    BY <1>1, <1>2 DEF TypeOK, Requests
  <2> QED BY <1>1, <1>6, <2>1, <2>2, CountRows DEF TypeOK
<1> QED BY <1>1, <1>3, <1>7, <1>8, <1>9, <1>10

LEMMA ReceiveStep == ASSUME IInv, Receive PROVE IInv'
<1>1. PICK i \in DOMAIN calls :
        /\ calls[i].code # "pending"
        /\ CountAnswered(i) \/ ListAnswered(i) \/ MarkAnswered(i) \/ RemovalAnswered(i)
        /\ UNCHANGED <<asking, pushed, notes, stored, open, elsewhere, presses, changes>>
  BY DEF Receive, server
<1> QED BY <1>1, CountAnsweredStep, ListAnsweredStep, MarkAnsweredStep, RemovalAnsweredStep

-----------------------------------------------------------------------------
(***************************************************************************)
(* Theorems.                                                               *)
(***************************************************************************)

LEMMA InitIInv == Init => IInv
<1> SUFFICES ASSUME Init
             PROVE  IInv
  OBVIOUS
<1> USE DEF Init
<1> DEFINE c == Call("count", {})
<1>1. c \in Requests /\ Sound(c, notes, stored) /\ ~Waits(c) /\ ~Owed(c)
  BY Fresh DEF Loads, Removals
<1>2. calls = <<c>> /\ asking = None /\ items = {} /\ known = {} /\ stale = TRUE
  OBVIOUS
<1> HIDE DEF c
<1>3. AllSound(calls, notes, stored) /\ \A i \in DOMAIN calls : ~Waits(calls[i]) /\ ~Owed(calls[i])
  BY <1>1, <1>2 DEF AllSound
<1>4. OneLoad(calls, mounted, loading)
  BY <1>3 DEF OneLoad
<1>5. OnePage(items, asking, calls, known, stored) /\ Told(calls, items, known, KeptIn(notes), elsewhere)
  BY <1>2, <1>3, BlankPage
<1>6. TypeOK
  <2>1. Cardinality(Ids({})) = Cardinality({})
    BY CountRows DEF OneEach
  <2>2. 0 \in 0 .. Cardinality(Notes)
    BY InboxAssumption, FS_CardinalityType
  <2>3. notes \in [Notes -> {"none", "unread", "read", "gone"}] /\ stored = notes
    OBVIOUS
  <2> QED BY <2>1, <2>2, <2>3 DEF TypeOK
<1>7. Ledger(notes, stored, open) /\ Removed(elsewhere, notes)
  BY DEF Ledger, Removed
<1> QED BY <1>2, <1>3, <1>4, <1>5, <1>6, <1>7 DEF IInv

LEMMA StepIInv == ASSUME IInv, [Next]_vars PROVE IInv'
<1>1. CASE UNCHANGED vars
  <2>1. /\ UNCHANGED <<mounted, items, loading, asking, unread, calls, pushed, notes, stored, open,
                       known, elsewhere, astray, stale>>
    BY <1>1 DEF vars, list, server, history
  <2> QED BY <2>1 DEF IInv, TypeOK
<1>2. CASE Person
  BY <1>2, OpenStep, CloseStep, ForegroundStep, AskClearStep, ClearStep, KeepStep,
     ElsewhereStep, DeleteStep DEF Person
<1>3. CASE System
  BY <1>3, ServeStep, CommitStep, RollbackStep, PushAheadStep, ArriveStep DEF System
<1>4. CASE Receive
  BY <1>4, ReceiveStep
<1>5. CASE OnPush
  BY <1>5, OnPushStep
<1>6. CASE Lose
  BY <1>6, LoseStep
<1> QED BY <1>1, <1>2, <1>3, <1>4, <1>5, <1>6 DEF Next

\* The list has what it loaded and the API keeps, less what is being removed;
\* the dot counts no more than will stay unread; unless something ran over
\* the one or the other.
THEOREM InboxInvariant == Spec => []IInv
<1>1. Init => IInv
  BY InitIInv
<1>2. IInv /\ [Next]_vars => IInv'
  BY StepIInv
<1> QED BY <1>1, <1>2, PTL DEF Spec

\* Every handler keeps every variable in its type: the list has one row of a
\* notification and the dot is never below zero.
THEOREM InboxTypeCorrect == Spec => []TypeOK
<1>1. IInv => TypeOK
  BY DEF IInv
<1> QED BY <1>1, InboxInvariant, PTL

\* However many rows are being deleted at once and whichever of them fail, at
\* rest the list has what it loaded less what the API has let go of, and what a
\* second list removed besides.
THEOREM TrueList == Spec => []ListIsTrue
<1>1. IInv => ListIsTrue
  <2> SUFFICES ASSUME IInv, calls = <<>>, ~astray
               PROVE  Ids(items) \ elsewhere = known \cap Kept
    BY DEF ListIsTrue, AtRest
  <2>1. Ids(items) \subseteq known
    BY OneOfEach DEF IInv
  <2>2. Kept = KeptIn(notes) /\ DOMAIN calls = {} /\ elsewhere \cap Kept = {}
    BY DEF Kept, KeptIn, IInv, Removed
  <2> QED BY <2>1, <2>2 DEF IInv, Told
<1> QED BY <1>1, InboxInvariant, PTL

\* At rest, when nothing is unread, there is no dot.
THEOREM DotGoesOut == Spec => []DotNeverOutlives
<1>1. IInv => DotNeverOutlives
  <2> SUFFICES ASSUME IInv, calls = <<>>, ~stale, UnreadIn(notes) = {}
               PROVE  unread = 0
    BY DEF DotNeverOutlives, AtRest
  <2>1. Staying(calls, notes) = {} /\ ~Marked(calls)
    BY DEF Staying, UnreadIn, Marked
  <2>2. Cardinality({}) = 0
    BY FS_EmptySet
  <2>3. unread <= 0
    BY <2>1, <2>2 DEF IInv, Counted
  <2> QED BY <2>3, InboxAssumption, FS_CardinalityType DEF IInv, TypeOK
<1> QED BY <1>1, InboxInvariant, PTL
=============================================================================
