--------------------------- MODULE Session_proofs ---------------------------
(***************************************************************************)
(* Theorems about Session, for any number of people, retries and bounds:   *)
(* types; that nobody enters without the server having their acceptance;   *)
(* and, for a person who waits for answers, whose account is shown, that a *)
(* phone signed out of is silent, and which half of the app is open.       *)
(***************************************************************************)
EXTENDS Session, Integers, SequenceTheorems, TLAPS

-----------------------------------------------------------------------------
(***************************************************************************)
(* Sequences.                                                              *)
(***************************************************************************)

\* RemoveAt keeps the other elements, in their order.
LEMMA RemovedAt ==
  ASSUME NEW S, NEW s \in Seq(S), NEW i \in 1 .. Len(s)
  PROVE  /\ RemoveAt(s, i) \in Seq(S)
         /\ DOMAIN RemoveAt(s, i) = 1 .. (Len(s) - 1)
         /\ \A j \in 1 .. (Len(s) - 1) :
              RemoveAt(s, i)[j] = IF j < i THEN s[j] ELSE s[j + 1]
<1> DEFINE a == SubSeq(s, 1, i - 1)
           b == SubSeq(s, i + 1, Len(s))
<1>1. Len(s) \in Nat /\ i \in Nat /\ i >= 1 /\ i <= Len(s)
  BY LenProperties
<1>2. /\ a \in Seq(S) /\ Len(a) = i - 1
      /\ \A j \in 1 .. i - 1 : a[j] = s[j]
  <2>1. \A j \in 1 .. (i - 1) : s[j] \in S
    BY <1>1, ElementOfSeq
  <2> QED BY <1>1, <2>1, SubSeqProperties
<1>3. /\ b \in Seq(S) /\ Len(b) = Len(s) - i
      /\ \A j \in 1 .. Len(s) - i : b[j] = s[i + j]
  <2>1. \A j \in (i + 1) .. Len(s) : s[j] \in S
    BY <1>1, ElementOfSeq
  <2>2. i + 1 \in Int /\ Len(s) \in Int
    BY <1>1
  <2>3. /\ b \in Seq(S)
        /\ Len(b) = IF i + 1 <= Len(s) THEN Len(s) - (i + 1) + 1 ELSE 0
        /\ \A j \in 1 .. Len(s) - (i + 1) + 1 : b[j] = s[(i + 1) + j - 1]
    BY <2>1, <2>2, SubSeqProperties
  <2>4. /\ Len(s) - (i + 1) + 1 = Len(s) - i
        /\ i + 1 <= Len(s) \/ Len(s) - i = 0
        /\ \A j \in 1 .. Len(s) - i : (i + 1) + j - 1 = i + j
    BY <1>1
  <2> HIDE DEF b
  <2> QED BY <2>3, <2>4
<1>4. RemoveAt(s, i) = a \o b
  BY DEF RemoveAt
<1> HIDE DEF a, b
<1>5. /\ a \o b \in Seq(S)
      /\ Len(a \o b) = Len(a) + Len(b)
      /\ \A j \in 1 .. Len(a) + Len(b) :
           (a \o b)[j] = IF j <= Len(a) THEN a[j] ELSE b[j - Len(a)]
  BY <1>2, <1>3, ConcatProperties
<1>6. Len(a \o b) = Len(s) - 1 /\ DOMAIN (a \o b) = 1 .. (Len(s) - 1)
  BY <1>1, <1>2, <1>3, <1>5, LenProperties
<1>7. ASSUME NEW j \in 1 .. (Len(s) - 1)
      PROVE  (a \o b)[j] = IF j < i THEN s[j] ELSE s[j + 1]
  <2>1. CASE j < i
    BY <1>1, <1>2, <1>3, <1>5, <2>1
  <2>2. CASE ~(j < i)
    <3>1. j - Len(a) \in 1 .. Len(s) - i /\ i + (j - Len(a)) = j + 1
      BY <1>1, <1>2, <2>2
    <3>2. (a \o b)[j] = b[j - Len(a)]
      BY <1>1, <1>2, <1>3, <1>5, <2>2
    <3> QED BY <1>3, <2>2, <3>1, <3>2
  <2> QED BY <2>1, <2>2
<1> QED BY <1>4, <1>5, <1>6, <1>7

\* The same, of what is in it.
LEMMA Remaining ==
  ASSUME NEW S, NEW s \in Seq(S), NEW i \in DOMAIN s
  PROVE  /\ RemoveAt(s, i) \in Seq(S)
         /\ \A j \in DOMAIN RemoveAt(s, i) :
              \E k \in DOMAIN s : k # i /\ RemoveAt(s, i)[j] = s[k]
         /\ \A k \in DOMAIN s \ {i} :
              \E j \in DOMAIN RemoveAt(s, i) : RemoveAt(s, i)[j] = s[k]
<1>1. Len(s) \in Nat /\ DOMAIN s = 1 .. Len(s)
  BY LenProperties
<1>2. /\ RemoveAt(s, i) \in Seq(S)
      /\ DOMAIN RemoveAt(s, i) = 1 .. (Len(s) - 1)
      /\ \A j \in 1 .. (Len(s) - 1) :
           RemoveAt(s, i)[j] = IF j < i THEN s[j] ELSE s[j + 1]
  BY <1>1, RemovedAt
<1>3. ASSUME NEW j \in DOMAIN RemoveAt(s, i)
      PROVE  \E k \in DOMAIN s : k # i /\ RemoveAt(s, i)[j] = s[k]
  <2>1. CASE j < i
    BY <1>1, <1>2, <2>1
  <2>2. CASE ~(j < i)
    <3>1. j + 1 \in DOMAIN s /\ j + 1 # i
      BY <1>1, <1>2, <2>2
    <3> QED BY <1>2, <2>2, <3>1
  <2> QED BY <2>1, <2>2
<1>4. ASSUME NEW k \in DOMAIN s \ {i}
      PROVE  \E j \in DOMAIN RemoveAt(s, i) : RemoveAt(s, i)[j] = s[k]
  <2>1. CASE k < i
    <3>1. k \in 1 .. (Len(s) - 1)
      BY <1>1, <2>1
    <3> QED BY <1>2, <2>1, <3>1
  <2>2. CASE ~(k < i)
    <3>1. k - 1 \in 1 .. (Len(s) - 1) /\ ~(k - 1 < i) /\ (k - 1) + 1 = k
      BY <1>1, <2>2
    <3> QED BY <1>2, <3>1
  <2> QED BY <2>1, <2>2
<1> QED BY <1>2, <1>3, <1>4

\* A function on the places of a sequence is a sequence as long.
LEMMA Mapped ==
  ASSUME NEW S, NEW T, NEW s \in Seq(S), NEW t \in [DOMAIN s -> T]
  PROVE  t \in Seq(T) /\ DOMAIN t = DOMAIN s
<1>1. Len(s) \in Nat /\ DOMAIN s = 1 .. Len(s)
  BY LenProperties
<1> QED BY <1>1, SeqDef

\* Append adds one element.
LEMMA Appended ==
  ASSUME NEW S, NEW s \in Seq(S), NEW e \in S
  PROVE  /\ Append(s, e) \in Seq(S)
         /\ \A j \in DOMAIN Append(s, e) :
              Append(s, e)[j] = e \/ \E k \in DOMAIN s : Append(s, e)[j] = s[k]
         /\ \A k \in DOMAIN s : k \in DOMAIN Append(s, e) /\ Append(s, e)[k] = s[k]
         /\ \E j \in DOMAIN Append(s, e) : Append(s, e)[j] = e
OBVIOUS

-----------------------------------------------------------------------------
(***************************************************************************)
(* What holds whatever is pressed, lost or overtaken.                      *)
(***************************************************************************)

Kinds == {"boot", "load", "nap", "apple", "reload", "pushOff", "pushOn", "register",
          "terms", "save", "switch", "delete"}
Args == Roles \cup {"none", "first", "again", "effect", "stale", "toggle", "signOut", "mute"}
Codes == {"pending", "lost", "200", "401", "403", "404", "409"}
Answers == [code: Codes, body: Profiles \cup {None}]
Requests == [kind: Kinds, who: Accounts \cup {None}, arg: Args, n: Nat,
             vouched: BOOLEAN, ans: Answers]

\* An account the API knows, or has deleted for good.
Known(a, ids, as) == ids[a] = "gone" \/ as[a] # None

\* A profile that claims no acceptance the API does not have.
Honest(p, ids, as) ==
    ids[p.owner] = "gone" \/ (as[p.owner] # None
                              /\ (p.terms => p.role \in as[p.owner].accepted))

\* The requests answered with a profile.
Carriers == {"load", "register", "terms", "save", "switch"}
Bears(c) == c.kind \in Carriers /\ c.ans.code = "200"

Sound(c, ids, as) ==
    /\ c.kind \in {"register", "switch"} => c.arg \in Roles
    /\ Bears(c) => /\ c.ans.body \in Profiles
                   /\ c.who # None /\ c.ans.body.owner = c.who
                   /\ Honest(c.ans.body, ids, as)
    /\ Bears(c) /\ c.kind = "terms" => c.ans.body.terms

AllSound(cs, ids, as) ==
    cs \in Seq(Requests) /\ \A i \in DOMAIN cs : Sound(cs[i], ids, as)

\* Deleted accounts are gone from the tables, and a push token belongs to an
\* account that is there.
Tables ==
    /\ \A a \in Accounts : identity[a] = "gone" => acct[a] = None
    /\ device # None => acct[device] # None
    /\ profile # None => Known(profile.owner, identity, acct)

Base == TypeOK /\ AllSound(calls, identity, acct) /\ Tables

\* What the API does to accounts never takes an acceptance back, and a deleted
\* identity stays deleted.
Forward ==
    \A a \in Accounts :
        /\ identity[a] = "gone" => identity'[a] = "gone"
        /\ acct[a] # None => identity'[a] = "gone"
                             \/ (acct'[a] # None /\ acct[a].accepted \subseteq acct'[a].accepted)

LEMMA ForwardSound ==
  ASSUME NEW cs, AllSound(cs, identity, acct), Forward
  PROVE  AllSound(cs, identity', acct')
<1>1. ASSUME NEW p \in Profiles, Honest(p, identity, acct)
      PROVE  Honest(p, identity', acct')
  <2>1. p.owner \in Accounts
    BY DEF Profiles
  <2> QED BY <1>1, <2>1 DEF Forward, Honest
<1> QED BY <1>1 DEF AllSound, Sound

LEMMA ForwardKnown ==
  ASSUME NEW a \in Accounts, Known(a, identity, acct), Forward
  PROVE  Known(a, identity', acct')
BY DEF Known, Forward

-----------------------------------------------------------------------------
(***************************************************************************)
(* What the handlers do to the requests outstanding.                       *)
(***************************************************************************)

LEMMA SendSound ==
  ASSUME NEW cs, NEW ids, NEW as, AllSound(cs, ids, as), NEW c \in Requests, Sound(c, ids, as)
  PROVE  AllSound(Append(cs, c), ids, as)
<1>1. /\ Append(cs, c) \in Seq(Requests)
      /\ \A j \in DOMAIN Append(cs, c) :
           Append(cs, c)[j] = c \/ \E k \in DOMAIN cs : Append(cs, c)[j] = cs[k]
  BY Appended DEF AllSound
<1> QED BY <1>1 DEF AllSound

LEMMA RestSound ==
  ASSUME NEW cs, NEW ids, NEW as, AllSound(cs, ids, as), NEW i \in DOMAIN cs
  PROVE  AllSound(RemoveAt(cs, i), ids, as)
<1>1. /\ RemoveAt(cs, i) \in Seq(Requests)
      /\ \A j \in DOMAIN RemoveAt(cs, i) :
           \E k \in DOMAIN cs : k # i /\ RemoveAt(cs, i)[j] = cs[k]
  BY Remaining DEF AllSound
<1> QED BY <1>1 DEF AllSound

\* One element of cs and what the invariant says of it.
LEMMA OneSound ==
  ASSUME NEW cs, NEW ids, NEW as, AllSound(cs, ids, as), NEW i \in DOMAIN cs
  PROVE  cs[i] \in Requests /\ Sound(cs[i], ids, as)
BY ElementOfSeq, LenProperties DEF AllSound

LEMMA PutSound ==
  ASSUME NEW cs, NEW ids, NEW as, AllSound(cs, ids, as), NEW i \in DOMAIN cs,
         NEW c \in Requests, Sound(c, ids, as)
  PROVE  AllSound([cs EXCEPT ![i] = c], ids, as)
<1> DEFINE ds == [cs EXCEPT ![i] = c]
<1>1. \A j \in DOMAIN cs : cs[j] \in Requests
  BY OneSound
<1>2. ds \in [DOMAIN cs -> Requests] /\ \A j \in DOMAIN cs : ds[j] = c \/ ds[j] = cs[j]
  BY <1>1 DEF AllSound
<1> HIDE DEF ds
<1>3. ds \in Seq(Requests) /\ DOMAIN ds = DOMAIN cs
  BY <1>2, Mapped DEF AllSound
<1>4. AllSound(ds, ids, as)
  BY <1>2, <1>3 DEF AllSound
<1> QED BY <1>4 DEF ds

\* The requests the phone sends.
LEMMA CallSound ==
  ASSUME NEW kind \in Kinds, NEW who \in Accounts \cup {None}, NEW arg \in Args,
         kind \in {"register", "switch"} => arg \in Roles, NEW ids, NEW as
  PROVE  Call(kind, who, arg) \in Requests /\ Sound(Call(kind, who, arg), ids, as)
BY DEF Call, Pending, Requests, Answers, Codes, Sound, Bears

LEMMA LoadSound ==
  ASSUME NEW who \in Accounts \cup {None}, NEW vouched \in BOOLEAN, NEW n \in Nat,
         NEW arg \in {"first", "again"}, NEW ids, NEW as
  PROVE  Load(who, vouched, n, arg) \in Requests /\ Sound(Load(who, vouched, n, arg), ids, as)
BY DEF Load, Call, Pending, Requests, Kinds, Args, Answers, Codes, Sound, Bears

LEMMA EffectSound ==
  ASSUME NEW cs, NEW ids, NEW as, AllSound(cs, ids, as), NEW new, NEW who \in Accounts \cup {None}
  PROVE  AllSound(PushEffect(cs, new, who), ids, as)
<1>1. CASE new = "ready" /\ status # "ready" /\ ~muted
  <2>1. PushEffect(cs, new, who) = Append(cs, Call("pushOn", who, "effect"))
    BY <1>1 DEF PushEffect
  <2>2. /\ Call("pushOn", who, "effect") \in Requests
        /\ Sound(Call("pushOn", who, "effect"), ids, as)
    BY CallSound DEF Kinds, Args
  <2> QED BY <2>1, <2>2, SendSound
<1>2. CASE new # "ready" /\ status = "ready"
  <2> DEFINE ds == [i \in DOMAIN cs |->
                       IF cs[i].kind = "pushOn" /\ cs[i].arg = "effect"
                       THEN [cs[i] EXCEPT !.arg = "stale"] ELSE cs[i]]
  <2>1. ASSUME NEW i \in DOMAIN cs
        PROVE  ds[i] \in Requests /\ Sound(ds[i], ids, as)
    <3>1. cs[i] \in Requests /\ Sound(cs[i], ids, as)
      BY OneSound
    <3>2. CASE cs[i].kind = "pushOn" /\ cs[i].arg = "effect"
      <4>1. ds[i] = [cs[i] EXCEPT !.arg = "stale"]
        BY <3>2
      <4> QED BY <3>1, <3>2, <4>1 DEF Requests, Args, Sound, Bears, Carriers
    <3>3. CASE ~(cs[i].kind = "pushOn" /\ cs[i].arg = "effect")
      BY <3>1, <3>3
    <3> QED BY <3>2, <3>3
  <2>2. ds \in [DOMAIN cs -> Requests]
    BY <2>1
  <2>3. PushEffect(cs, new, who) = ds
    BY <1>2 DEF PushEffect
  <2> HIDE DEF ds
  <2>4. ds \in Seq(Requests) /\ DOMAIN ds = DOMAIN cs
    BY <2>2, Mapped DEF AllSound
  <2> QED BY <2>1, <2>3, <2>4 DEF AllSound
<1>3. CASE ~(new = "ready" /\ status # "ready" /\ ~muted) /\ ~(new # "ready" /\ status = "ready")
  <2>1. PushEffect(cs, new, who) = cs
    BY <1>3 DEF PushEffect
  <2> QED BY <2>1
<1> QED BY <1>1, <1>2, <1>3

\* setProfile and setStatus.
LEMMA BecomeSound ==
  ASSUME NEW cs, NEW ids, NEW as, AllSound(cs, ids, as), NEW new, NEW p,
         user' \in Accounts \cup {None}, Become(new, p, cs)
  PROVE  AllSound(calls', ids, as)
BY EffectSound DEF Become

\* resolve().
LEMMA ResolveSound ==
  ASSUME NEW cs, NEW ids, NEW as, AllSound(cs, ids, as), NEW u \in Accounts \cup {None},
         NEW confirmed, NEW vouched \in BOOLEAN, user' \in Accounts \cup {None},
         Resolve(u, confirmed, vouched, cs)
  PROVE  /\ AllSound(calls', ids, as)
         /\ status' \in {"signed-out", "unverified", "loading"}
         /\ profile' \in {None, profile}
         /\ u = None => profile' = None
<1>1. CASE u = None /\ Become("signed-out", None, cs)
  <2>1. AllSound(calls', ids, as)
    BY <1>1, BecomeSound
  <2> QED BY <1>1, <2>1 DEF Become
<1>2. CASE u # None /\ ~confirmed /\ Become("unverified", None, cs)
  <2>1. AllSound(calls', ids, as)
    BY <1>2, BecomeSound
  <2> QED BY <1>2, <2>1 DEF Become
<1>3. CASE u # None /\ confirmed
           /\ Become("loading", profile, Append(cs, Load(u, vouched, 0, "first")))
  <2>1. Load(u, vouched, 0, "first") \in Requests /\ Sound(Load(u, vouched, 0, "first"), ids, as)
    BY LoadSound
  <2>2. AllSound(Append(cs, Load(u, vouched, 0, "first")), ids, as)
    BY <2>1, SendSound
  <2>3. AllSound(calls', ids, as)
    BY <1>3, <2>2, BecomeSound
  <2> QED BY <1>3, <2>3 DEF Become
<1> QED BY <1>1, <1>2, <1>3 DEF Resolve

-----------------------------------------------------------------------------
(***************************************************************************)
(* Every action keeps Base.  First what the person does.                   *)
(***************************************************************************)

\* What an action that leaves the API alone has to show.
LEMMA ApiKept ==
  ASSUME Base, UNCHANGED <<identity, acct, device>>, TypeOK',
         AllSound(calls', identity, acct),
         profile' # None => Known(profile'.owner, identity, acct)
  PROVE  Base'
BY DEF Base, Tables

LEMMA EntryBase ==
  ASSUME Base, NEW a \in Accounts,
         Register(a) \/ SignIn(a) \/ GoogleSignIn(a) \/ AppleSignIn(a)
  PROVE  Base'
<1>1. /\ user' = a /\ emailOk' \in BOOLEAN /\ tokenOk' \in BOOLEAN /\ orderly' \in BOOLEAN /\ left' \in BOOLEAN
      /\ identity' \in [Accounts -> {"none", "unverified", "verified", "gone"}]
      /\ \A b \in Accounts : (identity'[b] = "gone") = (identity[b] = "gone")
      /\ UNCHANGED <<route, pushToken, muted, acct, device, attached>>
  BY DEF Base, TypeOK, Register, SignIn, GoogleSignIn, AppleSignIn, Press, server
<1>2. Forward
  BY <1>1 DEF Forward
<1>3. AllSound(calls, identity', acct')
  BY <1>2, ForwardSound DEF Base
<1>4. /\ AllSound(calls', identity', acct')
      /\ status' \in {"signed-out", "unverified", "loading"}
      /\ profile' \in {None, profile}
  <2>1. CASE Register(a)
    BY <1>1, <1>3, <2>1, ResolveSound DEF Register
  <2>2. CASE SignIn(a)
    BY <1>1, <1>3, <2>2, ResolveSound DEF SignIn
  <2>3. CASE GoogleSignIn(a)
    BY <1>1, <1>3, <2>3, ResolveSound DEF GoogleSignIn
  <2>4. CASE AppleSignIn(a)
    <3>1. AllSound(Append(calls, Call("apple", a, "none")), identity', acct')
      BY <1>3, CallSound, SendSound DEF Kinds, Args
    <3> QED BY <1>1, <2>4, <3>1, ResolveSound DEF AppleSignIn
  <2> QED BY <2>1, <2>2, <2>3, <2>4
<1>5. TypeOK'
  BY <1>1, <1>4 DEF Base, TypeOK, Statuses
<1>6. Tables'
  BY <1>1, <1>4 DEF Base, Tables, Known, TypeOK, Profiles
<1> QED BY <1>4, <1>5, <1>6 DEF Base

LEMMA ConfirmEmailBase == ASSUME Base, NEW a \in Accounts, ConfirmEmail(a) PROVE Base'
<1>1. /\ identity' \in [Accounts -> {"none", "unverified", "verified", "gone"}]
      /\ \A b \in Accounts : (identity'[b] = "gone") = (identity[b] = "gone")
      /\ UNCHANGED <<status, profile, route, user, emailOk, tokenOk, pushToken, muted,
                     calls, acct, device, attached, orderly, left>>
  BY DEF Base, TypeOK, ConfirmEmail, phone
<1>2. Forward
  BY <1>1 DEF Forward
<1>3. AllSound(calls', identity', acct')
  BY <1>1, <1>2, ForwardSound DEF Base
<1>4. TypeOK'
  BY <1>1 DEF Base, TypeOK
<1>5. Tables'
  BY <1>1 DEF Base, Tables, Known, TypeOK, Profiles
<1> QED BY <1>3, <1>4, <1>5 DEF Base

LEMMA RefreshBase == ASSUME Base, Refresh PROVE Base'
<1>1. /\ UNCHANGED <<route, user, emailOk, tokenOk, pushToken, muted, identity, acct, device, attached>>
      /\ orderly' \in BOOLEAN /\ left' \in BOOLEAN
  BY DEF Base, TypeOK, Refresh, Press, server
<1>2. user' \in Accounts \cup {None} /\ AllSound(calls, identity, acct)
  BY <1>1 DEF Base, TypeOK
<1>3. CASE user = None
  <2>1. /\ AllSound(calls', identity, acct)
        /\ status' \in {"signed-out", "unverified", "loading"} /\ profile' = None
    BY <1>2, <1>3, ResolveSound DEF Refresh
  <2>2. TypeOK'
    BY <1>1, <2>1 DEF Base, TypeOK, Statuses
  <2> QED BY <1>1, <2>1, <2>2, ApiKept
<1>4. CASE user # None
  <2>1. calls' = Append(calls, Call("reload", user, "none")) /\ UNCHANGED <<status, profile>>
    BY <1>4 DEF Refresh
  <2>2. AllSound(calls', identity, acct)
    BY <1>1, <1>2, <2>1, CallSound, SendSound DEF Kinds, Args
  <2>3. TypeOK'
    BY <1>1, <2>1 DEF Base, TypeOK
  <2>4. profile' # None => Known(profile'.owner, identity, acct)
    BY <2>1 DEF Base, Tables
  <2> QED BY <1>1, <2>2, <2>3, <2>4, ApiKept
<1> QED BY <1>3, <1>4

\* The end of signOut(), or its beginning, when the rest of the phone and the
\* API stay as they are.
LEMMA DropSessionBase ==
  ASSUME Base, NEW cs, AllSound(cs, identity, acct), DropSession(cs),
         UNCHANGED <<route, muted, identity, acct, device, attached>>, orderly' \in BOOLEAN, left' \in BOOLEAN
  PROVE  Base'
<1>1. /\ user' = None /\ emailOk' = FALSE /\ tokenOk' = FALSE /\ pushToken' = FALSE
      /\ Become("signed-out", None, cs)
  BY DEF DropSession
<1>2. status' = "signed-out" /\ profile' = None
  BY <1>1 DEF Become
<1>3. AllSound(calls', identity, acct)
  BY <1>1, BecomeSound
<1>4. TypeOK'
  BY <1>1, <1>2 DEF Base, TypeOK, Statuses
<1> QED BY <1>2, <1>3, <1>4, ApiKept

LEMMA BeginSignOutBase ==
  ASSUME Base, NEW cs, AllSound(cs, identity, acct), BeginSignOut(cs),
         UNCHANGED <<route, muted, identity, acct, device, attached>>, orderly' \in BOOLEAN, left' \in BOOLEAN
  PROVE  Base'
<1>1. CASE pushToken
  <2>1. /\ calls' = Append(cs, Call("pushOff", user, "signOut"))
        /\ UNCHANGED <<status, profile, user, emailOk, tokenOk, pushToken>>
    BY <1>1 DEF BeginSignOut
  <2>2. user \in Accounts \cup {None}
    BY DEF Base, TypeOK
  <2>3. AllSound(calls', identity, acct)
    BY <2>1, <2>2, CallSound, SendSound DEF Kinds, Args
  <2>4. TypeOK'
    BY <2>1 DEF Base, TypeOK
  <2>5. profile' # None => Known(profile'.owner, identity, acct)
    BY <2>1 DEF Base, Tables
  <2> QED BY <2>3, <2>4, <2>5, ApiKept
<1>2. CASE ~pushToken
  BY <1>2, DropSessionBase DEF BeginSignOut
<1> QED BY <1>1, <1>2

LEMMA SignOutBase == ASSUME Base, SignOut PROVE Base'
<1>1. orderly' \in BOOLEAN /\ left' \in BOOLEAN
  BY DEF Base, TypeOK, SignOut, Press
<1> QED BY <1>1, BeginSignOutBase DEF Base, SignOut, server

LEMMA SubmitBase ==
  ASSUME Base, NEW kind \in {"register", "terms", "save", "switch", "delete"}, NEW arg \in Args,
         kind \in {"register", "switch"} => arg \in Roles, Submit(kind, arg)
  PROVE  Base'
<1>1. /\ UNCHANGED <<status, profile, route, user, emailOk, tokenOk, pushToken, muted,
                     identity, acct, device, attached>>
      /\ calls' = Append(calls, Call(kind, user, arg)) /\ orderly' \in BOOLEAN /\ left' \in BOOLEAN
  BY DEF Base, TypeOK, Submit, Press, phone, server
<1>2. AllSound(calls', identity, acct)
  <2>1. user \in Accounts \cup {None} /\ kind \in Kinds
    BY DEF Base, TypeOK, Kinds
  <2> QED BY <1>1, <2>1, CallSound, SendSound DEF Base
<1>3. TypeOK'
  BY <1>1 DEF Base, TypeOK
<1>4. profile' # None => Known(profile'.owner, identity, acct)
  BY <1>1 DEF Base, Tables
<1> QED BY <1>1, <1>2, <1>3, <1>4, ApiKept

LEMMA ToggleMuteBase == ASSUME Base, ToggleMute PROVE Base'
<1>1. /\ UNCHANGED <<status, profile, route, user, emailOk, tokenOk, identity, acct, device, attached>>
      /\ orderly' \in BOOLEAN /\ left' \in BOOLEAN /\ muted' \in BOOLEAN
  BY DEF Base, TypeOK, ToggleMute, Press, server
<1>2. AllSound(calls', identity, acct) /\ pushToken' \in BOOLEAN
  <2>1. user \in Accounts \cup {None} /\ AllSound(calls, identity, acct) /\ pushToken \in BOOLEAN
    BY DEF Base, TypeOK
  <2>2. AllSound(Append(calls, Call("pushOn", user, "toggle")), identity, acct)
    BY <2>1, CallSound, SendSound DEF Kinds, Args
  <2>3. AllSound(Append(calls, Call("pushOff", user, "mute")), identity, acct)
    BY <2>1, CallSound, SendSound DEF Kinds, Args
  <2> QED BY <2>1, <2>2, <2>3 DEF ToggleMute
<1>3. TypeOK'
  BY <1>1, <1>2 DEF Base, TypeOK
<1>4. profile' # None => Known(profile'.owner, identity, acct)
  BY <1>1 DEF Base, Tables
<1> QED BY <1>1, <1>2, <1>3, <1>4, ApiKept

LEMMA PersonBase == ASSUME Base, Person PROVE Base'
<1>1. CASE \E a \in Accounts : Register(a) \/ SignIn(a) \/ GoogleSignIn(a) \/ AppleSignIn(a)
  BY <1>1, EntryBase
<1>2. CASE Refresh \/ SignOut \/ ToggleMute
  BY <1>2, RefreshBase, SignOutBase, ToggleMuteBase
<1>3. CASE \E role \in Roles : Submit("register", role) \/ Submit("switch", role)
  BY <1>3, SubmitBase DEF Args
<1>4. CASE \E kind \in {"terms", "save", "delete"} : Submit(kind, "none")
  BY <1>4, SubmitBase DEF Args
<1> QED BY <1>1, <1>2, <1>3, <1>4 DEF Person

-----------------------------------------------------------------------------
(***************************************************************************)
(* The API.                                                                *)
(***************************************************************************)

\* The profile an account's row gives.
LEMMA SnapshotSound ==
  ASSUME NEW ids, NEW as, NEW a \in Accounts, as[a] \in AccountRows
  PROVE  /\ Snapshot(a, as) \in Answers
         /\ Snapshot(a, as).code = "200"
         /\ Snapshot(a, as).body \in Profiles
         /\ Snapshot(a, as).body.owner = a
         /\ Snapshot(a, as).body.role = as[a].role
         /\ Snapshot(a, as).body.terms = (as[a].role \in as[a].accepted)
         /\ Honest(Snapshot(a, as).body, ids, as)
<1> DEFINE t == as[a].role \in as[a].accepted
           p == [owner |-> a, role |-> as[a].role, terms |-> t]
<1>1. Snapshot(a, as) = [code |-> "200", body |-> p]
  BY DEF Snapshot
<1>2. t \in BOOLEAN /\ as[a].role \in Roles /\ as[a] # None
  <2>1. t \in BOOLEAN
    OBVIOUS
  <2>2. as[a].role \in Roles
    BY DEF AccountRows
  <2>3. as[a] # None
    BY NullAssumption
  <2> QED BY <2>1, <2>2, <2>3
<1>3. t => as[a].role \in as[a].accepted
  OBVIOUS
<1>4. t = (as[a].role \in as[a].accepted)
  OBVIOUS
<1> HIDE DEF t
<1>5. p \in Profiles
  BY <1>2 DEF Profiles
<1>6. p.owner = a /\ p.role = as[a].role /\ p.terms = t
  OBVIOUS
<1> HIDE DEF p
<1>7. Honest(p, ids, as)
  BY <1>2, <1>3, <1>6 DEF Honest
<1>8. Snapshot(a, as) \in Answers /\ Snapshot(a, as).code = "200" /\ Snapshot(a, as).body = p
  BY <1>1, <1>5 DEF Answers, Codes
<1> QED BY <1>4, <1>5, <1>6, <1>7, <1>8

\* Putting an answer to a request.
LEMMA ReplySound ==
  ASSUME NEW ids, NEW as, AllSound(calls, ids, as), NEW i \in DOMAIN calls,
         NEW ans \in Answers, Reply(i, ans),
         calls[i].kind \in Carriers /\ ans.code = "200" =>
            /\ ans.body \in Profiles /\ calls[i].who # None
            /\ ans.body.owner = calls[i].who /\ Honest(ans.body, ids, as)
            /\ calls[i].kind = "terms" => ans.body.terms
  PROVE  AllSound(calls', ids, as)
<1> DEFINE c == [calls[i] EXCEPT !.ans = ans]
<1>1. calls[i] \in Requests /\ Sound(calls[i], ids, as)
  BY OneSound
<1>2. c \in Requests /\ c.kind = calls[i].kind /\ c.arg = calls[i].arg /\ c.who = calls[i].who
      /\ c.ans = ans
  BY <1>1 DEF Requests
<1>3. calls' = [calls EXCEPT ![i] = c]
  BY DEF Reply
<1> HIDE DEF c
<1>4. Sound(c, ids, as)
  BY <1>1, <1>2 DEF Sound, Bears
<1> QED BY <1>2, <1>3, <1>4, PutSound

LEMMA RefusedTyped ==
  /\ \A code \in Codes : Refused(code) \in Answers /\ Refused(code).code = code
  /\ \A c \in Requests : Turned(c) \in Answers /\ Turned(c).code \in {"401", "404"}
<1>1. ASSUME NEW code \in Codes
      PROVE  Refused(code) \in Answers /\ Refused(code).code = code
  BY DEF Refused, Answers
<1>2. ASSUME NEW c \in Requests
      PROVE  Turned(c) \in Answers /\ Turned(c).code \in {"401", "404"}
  <2>1. CASE Stranger(c)
    <3>1. Turned(c) = Refused("401")
      BY <2>1 DEF Turned
    <3> QED BY <1>1, <3>1 DEF Codes
  <2>2. CASE ~Stranger(c)
    <3>1. Turned(c) = Refused("404")
      BY <2>2 DEF Turned
    <3> QED BY <1>1, <3>1 DEF Codes
  <2> QED BY <2>1, <2>2
<1> QED BY <1>1, <1>2

\* A caller the API does not turn away.
LEMMA CallerKnown ==
  ASSUME Base, NEW c \in Requests, ~Unknown(c)
  PROVE  c.who \in Accounts /\ acct[c.who] \in AccountRows /\ identity[c.who] # "gone"
BY DEF Base, TypeOK, Requests, Unknown, Stranger

\* What an answer has to show that changes no account.
LEMMA AccountsKept ==
  ASSUME Base, NEW i \in DOMAIN calls, NEW ans \in Answers, Reply(i, ans),
         left' \in BOOLEAN, UNCHANGED <<phone, orderly, identity, acct, attached>>,
         device' \in Accounts \cup {None}, device' # None => acct[device'] # None,
         calls[i].kind \in Carriers => ans.code # "200"
  PROVE  Base'
<1>1. AllSound(calls', identity, acct)
  BY ReplySound DEF Base
<1>2. TypeOK'
  BY DEF Base, TypeOK, phone
<1> QED BY <1>1, <1>2 DEF Base, Tables, phone

LEMMA ServeLoadBase ==
  ASSUME Base, NEW i \in DOMAIN calls, ServeLoad(i), UNCHANGED <<phone, orderly>>,
         left' \in BOOLEAN
  PROVE  Base'
<1> DEFINE c == calls[i]
<1>1. c \in Requests
  BY OneSound DEF Base
<1>2. /\ c.kind = "load" /\ UNCHANGED <<identity, acct, device, attached>>
      /\ Reply(i, CASE ~Stranger(c) /\ ~c.vouched -> Refused("403")
                    [] Unknown(c) /\ (Stranger(c) \/ c.vouched) -> Turned(c)
                    [] OTHER -> Snapshot(c.who, acct))
  BY DEF ServeLoad, Waiting, server
<1>3. device' \in Accounts \cup {None} /\ (device' # None => acct[device'] # None)
  BY <1>2 DEF Base, TypeOK, Tables
<1>4. CASE ~Stranger(c) /\ ~c.vouched
  <2>1. Reply(i, Refused("403"))
    BY <1>2, <1>4
  <2> QED BY <1>2, <1>3, <2>1, RefusedTyped, AccountsKept DEF Codes
<1>5. CASE ~(~Stranger(c) /\ ~c.vouched) /\ Unknown(c) /\ (Stranger(c) \/ c.vouched)
  <2>1. Reply(i, Turned(c))
    BY <1>2, <1>5
  <2> QED BY <1>1, <1>2, <1>3, <2>1, RefusedTyped, AccountsKept
<1>6. CASE ~(~Stranger(c) /\ ~c.vouched) /\ ~(Unknown(c) /\ (Stranger(c) \/ c.vouched))
  <2>1. Reply(i, Snapshot(c.who, acct))
    BY <1>2, <1>6
  <2>2. ~Unknown(c)
    BY <1>6 DEF Unknown
  <2>3. c.who \in Accounts /\ acct[c.who] \in AccountRows
    BY <1>1, <2>2, CallerKnown
  <2>4. /\ Snapshot(c.who, acct) \in Answers
        /\ Snapshot(c.who, acct).body \in Profiles
        /\ Snapshot(c.who, acct).body.owner = c.who
        /\ Honest(Snapshot(c.who, acct).body, identity, acct)
    BY <2>3, SnapshotSound
  <2>5. c.who # None
    BY <2>3, SessionAssumption
  <2>6. AllSound(calls', identity, acct)
    BY <1>2, <2>1, <2>4, <2>5, ReplySound DEF Base
  <2>7. TypeOK'
    BY <1>2 DEF Base, TypeOK, phone
  <2> QED BY <1>2, <2>6, <2>7 DEF Base, Tables, phone
<1> QED BY <1>4, <1>5, <1>6

LEMMA ServeReloadBase ==
  ASSUME Base, NEW i \in DOMAIN calls, ServeReload(i), UNCHANGED <<phone, orderly>>,
         left' \in BOOLEAN
  PROVE  Base'
<1>1. /\ calls[i].kind = "reload" /\ Reply(i, Refused("200"))
      /\ UNCHANGED <<identity, acct, device, attached>>
  BY DEF ServeReload, Waiting, server
<1>2. device' \in Accounts \cup {None} /\ (device' # None => acct[device'] # None)
  BY <1>1 DEF Base, TypeOK, Tables
<1> QED BY <1>1, <1>2, RefusedTyped, AccountsKept DEF Codes, Carriers

\* What an answer has to show that writes the caller's row.
LEMMA RowWritten ==
  ASSUME Base, NEW i \in DOMAIN calls, NEW row \in AccountRows,
         calls[i].who \in Accounts, identity[calls[i].who] # "gone",
         acct[calls[i].who] # None => acct[calls[i].who].accepted \subseteq row.accepted,
         acct' = [acct EXCEPT ![calls[i].who] = row],
         Reply(i, Snapshot(calls[i].who, [acct EXCEPT ![calls[i].who] = row])),
         calls[i].kind = "terms" => row.role \in row.accepted,
         left' \in BOOLEAN, UNCHANGED <<phone, orderly, identity, device, attached>>
  PROVE  Base'
<1> DEFINE a == calls[i].who
           ans == Snapshot(a, acct')
<1>1. acct' \in [Accounts -> AccountRows \cup {None}] /\ acct'[a] = row
  BY DEF Base, TypeOK
<1>2. Forward
  BY <1>1, NullAssumption DEF Forward, Base, TypeOK
<1>3. AllSound(calls, identity', acct')
  BY <1>2, ForwardSound DEF Base
<1>4. /\ ans \in Answers /\ ans.body \in Profiles /\ ans.body.owner = a
      /\ ans.body.terms = (row.role \in row.accepted)
      /\ Honest(ans.body, identity', acct')
  BY <1>1, SnapshotSound
<1>5. a # None
  BY SessionAssumption
<1>6. AllSound(calls', identity', acct')
  BY <1>3, <1>4, <1>5, ReplySound
<1>7. TypeOK'
  BY <1>1 DEF Base, TypeOK, phone
<1>8. Tables'
  <2>1. \A b \in Accounts : identity'[b] = "gone" => acct'[b] = None
    BY <1>1 DEF Base, Tables, TypeOK
  <2>2. device' # None => acct'[device'] # None
    BY <1>1, NullAssumption DEF Base, Tables, TypeOK
  <2>3. ASSUME profile' # None PROVE Known(profile'.owner, identity', acct')
    <3>1. profile' = profile /\ profile.owner \in Accounts /\ Known(profile.owner, identity, acct)
      BY <2>3 DEF Base, Tables, TypeOK, Profiles, phone
    <3> QED BY <1>2, <3>1, ForwardKnown
  <2> QED BY <2>1, <2>2, <2>3 DEF Tables
<1> QED BY <1>6, <1>7, <1>8 DEF Base

LEMMA ServeRegisterBase ==
  ASSUME Base, NEW i \in DOMAIN calls, ServeRegister(i), UNCHANGED <<phone, orderly>>,
         left' \in BOOLEAN
  PROVE  Base'
<1> DEFINE c == calls[i]
           row == [role |-> c.arg, accepted |-> {}]
<1>1. c \in Requests /\ Sound(c, identity, acct)
  BY OneSound DEF Base
<1>2. /\ c.kind = "register" /\ UNCHANGED <<identity, device, attached>>
      /\ CASE Stranger(c) -> Reply(i, Refused("401")) /\ UNCHANGED acct
           [] ~Unknown(c) -> Reply(i, Refused("409")) /\ UNCHANGED acct
           [] OTHER -> /\ acct' = [acct EXCEPT ![c.who] = row]
                       /\ Reply(i, Snapshot(c.who, [acct EXCEPT ![c.who] = row]))
  BY DEF ServeRegister, Waiting
<1>3. device' \in Accounts \cup {None} /\ (device' # None => acct[device'] # None)
  BY <1>2 DEF Base, TypeOK, Tables
<1>4. CASE Stranger(c)
  <2>1. Reply(i, Refused("401")) /\ UNCHANGED acct
    BY <1>2, <1>4 DEF Unknown
  <2> QED BY <1>2, <1>3, <2>1, RefusedTyped, AccountsKept DEF Codes
<1>5. CASE ~Stranger(c) /\ ~Unknown(c)
  <2>1. Reply(i, Refused("409")) /\ UNCHANGED acct
    BY <1>2, <1>5
  <2> QED BY <1>2, <1>3, <2>1, RefusedTyped, AccountsKept DEF Codes
<1>6. CASE ~Stranger(c) /\ Unknown(c)
  <2>1. /\ acct' = [acct EXCEPT ![c.who] = row]
        /\ Reply(i, Snapshot(c.who, [acct EXCEPT ![c.who] = row]))
    BY <1>2, <1>6
  <2>2. c.who \in Accounts /\ identity[c.who] # "gone" /\ acct[c.who] = None
    BY <1>1, <1>6 DEF Requests, Stranger, Unknown
  <2>3. row \in AccountRows
    BY <1>1, <1>2 DEF Sound, AccountRows
  <2> HIDE DEF row
  <2> QED BY <1>2, <2>1, <2>2, <2>3, RowWritten
<1> QED BY <1>4, <1>5, <1>6

LEMMA ServeEditBase ==
  ASSUME Base, NEW i \in DOMAIN calls, ServeEdit(i), UNCHANGED <<phone, orderly>>,
         left' \in BOOLEAN
  PROVE  Base'
<1> DEFINE c == calls[i]
           mine == acct[c.who]
           Put(row) == /\ acct' = [acct EXCEPT ![c.who] = row]
                       /\ Reply(i, Snapshot(c.who, [acct EXCEPT ![c.who] = row]))
<1>1. c \in Requests /\ Sound(c, identity, acct)
  BY OneSound DEF Base
<1>2. /\ c.kind \in {"terms", "save", "switch"} /\ UNCHANGED <<identity, device, attached>>
      /\ IF Unknown(c) THEN Reply(i, Turned(c)) /\ UNCHANGED acct
         ELSE \/ c.kind = "terms" /\ Put([mine EXCEPT !.accepted = @ \cup {mine.role}])
              \/ c.kind = "save" /\ Put(mine)
              \/ c.kind = "switch" /\ Put([mine EXCEPT !.role = c.arg])
              \/ c.kind = "switch" /\ Reply(i, Refused("409")) /\ UNCHANGED acct
  BY DEF ServeEdit, Waiting
<1>3. device' \in Accounts \cup {None} /\ (device' # None => acct[device'] # None)
  BY <1>2 DEF Base, TypeOK, Tables
<1>4. CASE Unknown(c)
  BY <1>1, <1>2, <1>3, <1>4, RefusedTyped, AccountsKept
<1>5. CASE ~Unknown(c)
  <2>1. c.who \in Accounts /\ mine \in AccountRows /\ identity[c.who] # "gone"
    BY <1>1, <1>5, CallerKnown
  <2>2. ASSUME NEW row \in AccountRows, Put(row), mine.accepted \subseteq row.accepted,
               c.kind = "terms" => row.role \in row.accepted
        PROVE  Base'
    BY <1>2, <2>1, <2>2, RowWritten
  <2>3. CASE c.kind = "terms" /\ Put([mine EXCEPT !.accepted = @ \cup {mine.role}])
    <3> DEFINE row == [mine EXCEPT !.accepted = @ \cup {mine.role}]
    <3>1. row \in AccountRows /\ mine.accepted \subseteq row.accepted /\ row.role \in row.accepted
      BY <2>1 DEF AccountRows
    <3> HIDE DEF Put, row
    <3> QED BY <2>2, <2>3, <3>1 DEF row
  <2>4. CASE c.kind = "save" /\ Put(mine)
    BY <2>1, <2>2, <2>4
  <2>5. CASE c.kind = "switch" /\ Put([mine EXCEPT !.role = c.arg])
    <3> DEFINE row == [mine EXCEPT !.role = c.arg]
    <3>1. row \in AccountRows /\ mine.accepted \subseteq row.accepted
      BY <1>1, <2>1, <2>5 DEF AccountRows, Sound
    <3> HIDE DEF Put, row
    <3> QED BY <2>2, <2>5, <3>1 DEF row
  <2>6. CASE c.kind = "switch" /\ Reply(i, Refused("409")) /\ UNCHANGED acct
    BY <1>2, <1>3, <2>6, RefusedTyped, AccountsKept DEF Codes
  <2> QED BY <1>2, <1>5, <2>3, <2>4, <2>5, <2>6
<1> QED BY <1>4, <1>5

LEMMA ServeDeviceBase ==
  ASSUME Base, NEW i \in DOMAIN calls, ServeDevice(i), UNCHANGED <<phone, orderly>>,
         left' \in BOOLEAN
  PROVE  Base'
<1> DEFINE c == calls[i]
<1>1. c \in Requests
  BY OneSound DEF Base
<1>2. /\ c.kind \in {"pushOn", "pushOff"} /\ UNCHANGED <<identity, acct, attached>>
      /\ IF Unknown(c) THEN Reply(i, Turned(c)) /\ UNCHANGED device
         ELSE /\ Reply(i, Refused("200"))
              /\ device' = IF c.kind = "pushOn" THEN c.who
                           ELSE IF device = c.who THEN None ELSE device
  BY DEF ServeDevice, Waiting
<1>3. device \in Accounts \cup {None} /\ (device # None => acct[device] # None)
  BY DEF Base, TypeOK, Tables
<1>4. CASE Unknown(c)
  BY <1>1, <1>2, <1>3, <1>4, RefusedTyped, AccountsKept DEF Carriers
<1>5. CASE ~Unknown(c)
  <2>1. c.who \in Accounts /\ acct[c.who] # None
    BY <1>1, <1>5 DEF Unknown, Stranger, Requests
  <2>2. device' \in Accounts \cup {None} /\ (device' # None => acct[device'] # None)
    BY <1>2, <1>3, <1>5, <2>1
  <2> QED BY <1>2, <1>5, <2>2, RefusedTyped, AccountsKept DEF Carriers, Codes
<1> QED BY <1>4, <1>5

LEMMA ServeAppleBase ==
  ASSUME Base, NEW i \in DOMAIN calls, ServeApple(i), UNCHANGED <<phone, orderly>>,
         left' \in BOOLEAN
  PROVE  Base'
<1> DEFINE c == calls[i]
<1>1. c \in Requests
  BY OneSound DEF Base
<1>2. /\ c.kind = "apple" /\ UNCHANGED <<identity, acct, device>>
      /\ IF Unknown(c) THEN Reply(i, Turned(c)) /\ UNCHANGED attached
         ELSE Reply(i, Refused("200")) /\ attached' = attached \cup {c.who}
  BY DEF ServeApple, Waiting
<1>3. device' \in Accounts \cup {None} /\ (device' # None => acct[device'] # None)
  BY <1>2 DEF Base, TypeOK, Tables
<1>4. CASE Unknown(c)
  BY <1>1, <1>2, <1>3, <1>4, RefusedTyped, AccountsKept DEF Carriers
<1>5. CASE ~Unknown(c)
  <2>1. Reply(i, Refused("200")) /\ attached' = attached \cup {c.who} /\ c.who \in Accounts
    BY <1>1, <1>2, <1>5, CallerKnown
  <2>2. AllSound(calls', identity, acct)
    BY <1>2, <2>1, RefusedTyped, ReplySound DEF Base, Carriers, Codes
  <2>3. TypeOK'
    BY <1>2, <2>1 DEF Base, TypeOK, phone
  <2> QED BY <1>2, <2>2, <2>3 DEF Base, Tables, phone
<1> QED BY <1>4, <1>5

LEMMA ServeDeleteBase ==
  ASSUME Base, NEW i \in DOMAIN calls, ServeDelete(i), UNCHANGED <<phone, orderly>>,
         left' \in BOOLEAN
  PROVE  Base'
<1> DEFINE c == calls[i]
<1>1. c \in Requests
  BY OneSound DEF Base
<1>2. /\ c.kind = "delete"
      /\ IF Unknown(c) THEN Reply(i, Turned(c)) /\ UNCHANGED <<identity, acct, device, attached>>
         ELSE /\ Reply(i, Refused("200"))
              /\ acct' = [acct EXCEPT ![c.who] = None]
              /\ identity' = [identity EXCEPT ![c.who] = "gone"]
              /\ device' = IF device = c.who THEN None ELSE device
              /\ attached' = attached \ {c.who}
  BY DEF ServeDelete, Waiting, server
<1>3. CASE Unknown(c)
  <2>1. device' \in Accounts \cup {None} /\ (device' # None => acct[device'] # None)
    BY <1>2, <1>3 DEF Base, TypeOK, Tables
  <2> QED BY <1>1, <1>2, <1>3, <2>1, RefusedTyped, AccountsKept DEF Carriers
<1>4. CASE ~Unknown(c)
  <2>1. /\ c.who \in Accounts
        /\ acct' = [acct EXCEPT ![c.who] = None]
        /\ identity' = [identity EXCEPT ![c.who] = "gone"]
        /\ device' = IF device = c.who THEN None ELSE device
        /\ attached' = attached \ {c.who}
        /\ Reply(i, Refused("200"))
    BY <1>1, <1>2, <1>4, CallerKnown
  <2>2. Forward
    BY <2>1 DEF Forward, Base, TypeOK
  <2>3. AllSound(calls, identity', acct')
    BY <2>2, ForwardSound DEF Base
  <2>4. AllSound(calls', identity', acct')
    BY <1>2, <2>1, <2>3, RefusedTyped, ReplySound DEF Carriers, Codes
  <2>5. TypeOK'
    BY <2>1 DEF Base, TypeOK, phone
  <2>6. Tables'
    <3>1. \A b \in Accounts : identity'[b] = "gone" => acct'[b] = None
      BY <2>1 DEF Base, Tables, TypeOK
    <3>2. device' # None => acct'[device'] # None
      BY <2>1 DEF Base, Tables, TypeOK
    <3>3. ASSUME profile' # None PROVE Known(profile'.owner, identity', acct')
      <4>1. /\ profile' = profile /\ profile.owner \in Accounts
            /\ Known(profile.owner, identity, acct)
        BY <3>3 DEF Base, Tables, TypeOK, Profiles, phone
      <4> QED BY <2>2, <4>1, ForwardKnown
    <3> QED BY <3>1, <3>2, <3>3 DEF Tables
  <2> QED BY <2>4, <2>5, <2>6 DEF Base
<1> QED BY <1>3, <1>4

LEMMA ServeBase == ASSUME Base, Serve PROVE Base'
<1>1. PICK i \in DOMAIN calls :
        /\ \/ ServeLoad(i) \/ ServeReload(i) \/ ServeRegister(i) \/ ServeEdit(i)
           \/ ServeDevice(i) \/ ServeApple(i) \/ ServeDelete(i)
        /\ left' = (left /\ ~Renewed(i)) /\ UNCHANGED <<phone, orderly, presses>>
  BY DEF Serve
<1>2. left' \in BOOLEAN
  BY <1>1 DEF Base, TypeOK
<1> QED BY <1>1, <1>2, ServeLoadBase, ServeReloadBase, ServeRegisterBase, ServeEditBase,
           ServeDeviceBase, ServeAppleBase, ServeDeleteBase

LEMMA LoseBase == ASSUME Base, Lose PROVE Base'
<1>1. PICK i \in DOMAIN calls :
        /\ Reply(i, Lost) /\ orderly' = (orderly /\ calls[i].kind \in {"load", "reload"})
        /\ UNCHANGED <<phone, server, left, presses>>
  BY DEF Lose
<1>2. Lost \in Answers /\ Lost.code = "lost"
  BY DEF Lost, Answers, Codes
<1>3. AllSound(calls', identity, acct)
  BY <1>1, <1>2, ReplySound DEF Base
<1>4. TypeOK'
  BY <1>1 DEF Base, TypeOK, phone, server
<1> QED BY <1>1, <1>3, <1>4 DEF Base, Tables, phone, server

-----------------------------------------------------------------------------
(***************************************************************************)
(* Answers.                                                                *)
(***************************************************************************)

\* Entering the app, or being shown in it as somebody or something else.
Entering ==
    status' = "ready" /\ <<status, profile>>' # <<status, profile>>
        => acct[profile'.owner] = None \/ profile'.role \in acct[profile'.owner].accepted

\* A profile an answer brings: only with its terms accepted does it let one in.
LEMMA BodyEnters ==
  ASSUME Base, NEW i \in DOMAIN calls, Bears(calls[i])
  PROVE  /\ calls[i].ans.body \in Profiles /\ calls[i].ans.body # None
         /\ Known(calls[i].ans.body.owner, identity, acct)
         /\ calls[i].ans.body.terms =>
              \/ acct[calls[i].ans.body.owner] = None
              \/ calls[i].ans.body.role \in acct[calls[i].ans.body.owner].accepted
<1> DEFINE p == calls[i].ans.body
<1>1. p \in Profiles /\ Honest(p, identity, acct)
  BY OneSound DEF Base, Sound
<1> HIDE DEF p
<1>2. p.owner \in Accounts /\ p # None
  BY <1>1, NullAssumption DEF Profiles
<1>3. identity[p.owner] = "gone" => acct[p.owner] = None
  BY <1>2 DEF Base, Tables
<1>4. /\ Known(p.owner, identity, acct)
      /\ p.terms => acct[p.owner] = None \/ p.role \in acct[p.owner].accepted
  BY <1>1, <1>3 DEF Honest, Known
<1> QED BY <1>1, <1>2, <1>4 DEF p

\* What a handler that leaves the API alone and calls setProfile and setStatus
\* has to show.
LEMMA BecomeBase ==
  ASSUME Base, NEW cs, AllSound(cs, identity, acct),
         NEW new \in Statuses, NEW p \in Profiles \cup {None}, Become(new, p, cs),
         new \in {"ready", "needs-terms"} => p # None,
         p # None => Known(p.owner, identity, acct),
         UNCHANGED <<identity, acct, device, attached>>,
         orderly' \in BOOLEAN, left' \in BOOLEAN, route' \in Routes, user' \in Accounts \cup {None},
         emailOk' \in BOOLEAN, tokenOk' \in BOOLEAN, pushToken' \in BOOLEAN, muted' \in BOOLEAN
  PROVE  Base'
<1>1. status' = new /\ profile' = p
  BY DEF Become
<1>2. AllSound(calls', identity, acct)
  BY BecomeSound
<1>3. TypeOK'
  BY <1>1 DEF Base, TypeOK
<1> QED BY <1>1, <1>2, <1>3, ApiKept

\* The same of one that only changes the requests outstanding.
LEMMA CallsBase ==
  ASSUME Base, AllSound(calls', identity, acct),
         UNCHANGED <<status, profile, identity, acct, device, attached>>,
         orderly' \in BOOLEAN, left' \in BOOLEAN, route' \in Routes, user' \in Accounts \cup {None},
         emailOk' \in BOOLEAN, tokenOk' \in BOOLEAN, pushToken' \in BOOLEAN, muted' \in BOOLEAN
  PROVE  Base'
<1>1. TypeOK'
  BY DEF Base, TypeOK
<1>2. profile' # None => Known(profile'.owner, identity, acct)
  BY DEF Base, Tables
<1> QED BY <1>1, <1>2, ApiKept

\* The same of resolve().
LEMMA ResolveBase ==
  ASSUME Base, NEW cs, AllSound(cs, identity, acct), NEW u \in Accounts \cup {None},
         NEW confirmed, NEW vouched \in BOOLEAN, Resolve(u, confirmed, vouched, cs),
         UNCHANGED <<identity, acct, device, attached>>,
         orderly' \in BOOLEAN, left' \in BOOLEAN, route' \in Routes, user' \in Accounts \cup {None},
         emailOk' \in BOOLEAN, tokenOk' \in BOOLEAN, pushToken' \in BOOLEAN, muted' \in BOOLEAN
  PROVE  Base' /\ status' # "ready"
<1>1. /\ AllSound(calls', identity, acct)
      /\ status' \in {"signed-out", "unverified", "loading"}
      /\ profile' \in {None, profile}
  BY ResolveSound
<1>2. TypeOK'
  BY <1>1 DEF Base, TypeOK, Statuses
<1>3. profile' # None => Known(profile'.owner, identity, acct)
  BY <1>1 DEF Base, Tables
<1>4. Base'
  BY <1>1, <1>2, <1>3, ApiKept
<1> QED BY <1>1, <1>4

\* What every handler of an answer starts from.
LEMMA ReceiveFacts ==
  ASSUME Base, NEW i \in DOMAIN calls
  PROVE  /\ calls[i] \in Requests /\ Sound(calls[i], identity, acct)
         /\ AllSound(calls, identity, acct) /\ AllSound(Rest(i), identity, acct)
         /\ orderly \in BOOLEAN /\ left \in BOOLEAN /\ route \in Routes /\ user \in Accounts \cup {None}
         /\ emailOk \in BOOLEAN /\ tokenOk \in BOOLEAN /\ pushToken \in BOOLEAN /\ muted \in BOOLEAN
         /\ status \in Statuses /\ profile \in Profiles \cup {None}
         /\ \A a \in Accounts : (identity[a] = "verified") \in BOOLEAN
<1>1. calls[i] \in Requests /\ Sound(calls[i], identity, acct)
  BY OneSound DEF Base
<1>2. AllSound(calls, identity, acct) /\ AllSound(Rest(i), identity, acct)
  BY RestSound DEF Base, Rest
<1>3. /\ orderly \in BOOLEAN /\ left \in BOOLEAN /\ route \in Routes /\ user \in Accounts \cup {None}
      /\ emailOk \in BOOLEAN /\ tokenOk \in BOOLEAN /\ pushToken \in BOOLEAN /\ muted \in BOOLEAN
      /\ status \in Statuses /\ profile \in Profiles \cup {None}
  BY DEF Base, TypeOK
<1> QED BY <1>1, <1>2, <1>3

LEMMA AuthRestoredBase ==
  ASSUME Base, NEW i \in DOMAIN calls, AuthRestored(i), UNCHANGED <<server, orderly, left, presses>>
  PROVE  Base' /\ Entering
BY ReceiveFacts, ResolveBase DEF AuthRestored, server, Entering

LEMMA LoadAnsweredBase ==
  ASSUME Base, NEW i \in DOMAIN calls, LoadAnswered(i), UNCHANGED <<server, orderly, left, presses>>
  PROVE  Base' /\ Entering
<1> USE DEF server
<1> DEFINE c == calls[i]
           nap == [Call("nap", None, "none") EXCEPT !.n = c.n + 1]
<1>1. /\ c.kind = "load" /\ UNCHANGED <<route, user, emailOk, pushToken, muted>>
      /\ UNCHANGED <<identity, acct, device, attached, orderly, left>>
  BY DEF LoadAnswered, Answered
<1>2. CASE Got(i, "200") /\ UNCHANGED tokenOk
           /\ Become(IF c.ans.body.terms THEN "ready" ELSE "needs-terms", c.ans.body, Rest(i))
  <2>1. Bears(c)
    BY <1>1, <1>2 DEF Bears, Carriers, Got
  <2>2. /\ c.ans.body \in Profiles /\ c.ans.body # None
        /\ Known(c.ans.body.owner, identity, acct)
        /\ c.ans.body.terms => \/ acct[c.ans.body.owner] = None
                               \/ c.ans.body.role \in acct[c.ans.body.owner].accepted
    BY <2>1, BodyEnters
  <2>3. Base'
    BY <1>1, <1>2, <2>2, ReceiveFacts, BecomeBase DEF Statuses
  <2>4. profile' = c.ans.body /\ (status' = "ready" => c.ans.body.terms)
    BY <1>2 DEF Become
  <2> QED BY <2>2, <2>3, <2>4 DEF Entering
<1>3. CASE Got(i, "404") /\ UNCHANGED tokenOk /\ Become("needs-profile", None, Rest(i))
  <2>1. Base'
    BY <1>1, <1>3, ReceiveFacts, BecomeBase DEF Statuses
  <2> QED BY <1>3, <2>1 DEF Become, Entering
<1>4. CASE /\ Got(i, "403") /\ c.arg = "first" /\ user # None
           /\ tokenOk' = (identity[user] = "verified")
           /\ calls' = [calls EXCEPT ![i] = Load(user, tokenOk', c.n, "again")]
           /\ UNCHANGED <<status, profile>>
  <2>1. tokenOk' \in BOOLEAN /\ c.n \in Nat
    BY <1>4, ReceiveFacts DEF Requests
  <2>2. /\ Load(user, tokenOk', c.n, "again") \in Requests
        /\ Sound(Load(user, tokenOk', c.n, "again"), identity, acct)
    BY <2>1, LoadSound, ReceiveFacts
  <2>3. AllSound(calls', identity, acct)
    BY <1>4, <2>2, PutSound, ReceiveFacts
  <2>4. Base'
    BY <1>1, <1>4, <2>1, <2>3, CallsBase, ReceiveFacts
  <2> QED BY <1>4, <2>4 DEF Entering
<1>5. CASE UNCHANGED tokenOk /\ c.n < Retries /\ calls' = [calls EXCEPT ![i] = nap]
           /\ UNCHANGED <<status, profile>>
  <2>1. nap \in Requests /\ Sound(nap, identity, acct)
    <3> DEFINE next == c.n + 1
               blank == Call("nap", None, "none")
    <3>1. next \in Nat
      BY ReceiveFacts DEF Requests
    <3>2. blank \in Requests /\ blank.kind = "nap"
      BY CallSound DEF Kinds, Args, Call
    <3>3. nap = [blank EXCEPT !.n = next]
      OBVIOUS
    <3> HIDE DEF nap, next, blank
    <3> QED BY <3>1, <3>2, <3>3 DEF Requests, Sound, Bears, Carriers
  <2>2. AllSound(calls', identity, acct)
    <3> HIDE DEF nap
    <3> QED BY <1>5, <2>1, PutSound, ReceiveFacts
  <2>3. Base'
    BY <1>1, <1>5, <2>2, CallsBase, ReceiveFacts
  <2> QED BY <1>5, <2>3 DEF Entering
<1>6. CASE UNCHANGED tokenOk /\ GiveUp(i)
  <2>1. Base'
    BY <1>1, <1>6, ReceiveFacts, BecomeBase DEF Statuses, GiveUp
  <2> QED BY <1>6, <2>1 DEF Become, Entering, GiveUp
<1> QED BY <1>2, <1>3, <1>4, <1>5, <1>6 DEF LoadAnswered

LEMMA NextAttemptBase ==
  ASSUME Base, NEW i \in DOMAIN calls, NextAttempt(i), UNCHANGED <<server, orderly, left, presses>>
  PROVE  Base' /\ Entering
<1> DEFINE c == Load(user, tokenOk, calls[i].n, "first")
<1>1. c \in Requests /\ Sound(c, identity, acct)
  <2>1. calls[i].n \in Nat
    BY ReceiveFacts DEF Requests
  <2> QED BY <2>1, LoadSound, ReceiveFacts
<1>2. AllSound(calls', identity, acct)
  <2>1. calls' = [calls EXCEPT ![i] = c]
    BY DEF NextAttempt
  <2> HIDE DEF c
  <2> QED BY <1>1, <2>1, PutSound, ReceiveFacts
<1> QED BY <1>2, CallsBase, ReceiveFacts DEF NextAttempt, phone, server, Entering

LEMMA ReloadAnsweredBase ==
  ASSUME Base, NEW i \in DOMAIN calls, ReloadAnswered(i), UNCHANGED <<server, orderly, left, presses>>
  PROVE  Base' /\ Entering
<1> USE DEF server
<1>1. UNCHANGED <<route, user, pushToken, muted, identity, acct, device, attached, orderly, left>>
  BY DEF ReloadAnswered
<1>2. CASE user = None
  <2>1. UNCHANGED <<emailOk, tokenOk>> /\ Resolve(None, FALSE, FALSE, Rest(i))
    BY <1>2 DEF ReloadAnswered
  <2> QED BY <1>1, <2>1, ReceiveFacts, ResolveBase DEF Entering
<1>3. CASE user # None /\ emailOk' = (identity[user] = "verified") /\ tokenOk' = emailOk'
           /\ Resolve(user, emailOk', tokenOk', Rest(i))
  <2>1. emailOk' \in BOOLEAN /\ tokenOk' \in BOOLEAN
    BY <1>3, ReceiveFacts
  <2> QED BY <1>1, <1>3, <2>1, ReceiveFacts, ResolveBase DEF Entering
<1>4. CASE user # None /\ emailOk' \in {emailOk, identity[user] = "verified"}
           /\ calls' = Rest(i) /\ UNCHANGED <<status, profile, tokenOk>>
  <2>1. emailOk' \in BOOLEAN
    BY <1>4, ReceiveFacts
  <2> QED BY <1>1, <1>4, <2>1, ReceiveFacts, CallsBase DEF Entering
<1> QED BY <1>2, <1>3, <1>4 DEF ReloadAnswered

LEMMA EntryAnsweredBase ==
  ASSUME Base, NEW i \in DOMAIN calls, EntryAnswered(i), UNCHANGED <<server, orderly, left, presses>>
  PROVE  Base' /\ Entering
<1> USE DEF server
<1> DEFINE c == calls[i]
           p == c.ans.body
<1>1. /\ c.kind \in {"register", "terms"}
      /\ UNCHANGED <<route, user, emailOk, tokenOk, pushToken, muted>>
      /\ UNCHANGED <<identity, acct, device, attached, orderly, left>>
  BY DEF EntryAnswered, Answered
<1>2. CASE Got(i, "200")
  <2>1. Become(IF c.kind = "terms" \/ p.terms THEN "ready" ELSE "needs-terms", p, Rest(i))
    BY <1>2 DEF EntryAnswered
  <2>2. Bears(c)
    BY <1>1, <1>2 DEF Bears, Carriers, Got
  <2>3. /\ p \in Profiles /\ p # None /\ Known(p.owner, identity, acct)
        /\ p.terms => acct[p.owner] = None \/ p.role \in acct[p.owner].accepted
    BY <2>2, BodyEnters
  <2>4. c.kind = "terms" => p.terms
    BY <2>2, ReceiveFacts DEF Sound
  <2>5. Base'
    BY <1>1, <2>1, <2>3, ReceiveFacts, BecomeBase DEF Statuses
  <2>6. profile' = p /\ (status' = "ready" => p.terms)
    BY <2>1, <2>4 DEF Become
  <2> QED BY <2>3, <2>5, <2>6 DEF Entering
<1>3. CASE ~Got(i, "200")
  <2>1. calls' = Rest(i) /\ UNCHANGED <<status, profile>>
    BY <1>3 DEF EntryAnswered
  <2> QED BY <1>1, <2>1, ReceiveFacts, CallsBase DEF Entering
<1> QED BY <1>2, <1>3

LEMMA EditAnsweredBase ==
  ASSUME Base, NEW i \in DOMAIN calls, EditAnswered(i), UNCHANGED <<server, orderly, left, presses>>
  PROVE  Base' /\ Entering
<1> USE DEF server
<1> DEFINE c == calls[i]
           p == c.ans.body
<1>1. /\ c.kind \in {"save", "switch"} /\ UNCHANGED <<user, emailOk, tokenOk, pushToken, muted>>
      /\ UNCHANGED <<identity, acct, device, attached, orderly, left>>
  BY DEF EditAnswered, Answered
<1>2. CASE Got(i, "200")
  <2>1. Become(Standing(p), p, Rest(i)) /\ route' = Landing(c.kind, p)
    BY <1>2 DEF EditAnswered
  <2>2. Bears(c)
    BY <1>1, <1>2 DEF Bears, Carriers, Got
  <2>3. /\ p \in Profiles /\ p # None /\ Known(p.owner, identity, acct)
        /\ p.terms => acct[p.owner] = None \/ p.role \in acct[p.owner].accepted
    BY <2>2, BodyEnters
  <2>4. /\ Standing(p) \in Statuses
        /\ Standing(p) = "ready" => p.terms
    BY ReceiveFacts DEF Standing, Statuses
  <2>5. route' \in Routes
    BY <2>1, ReceiveFacts DEF Landing, Area, Routes
  <2>6. Base'
    BY <1>1, <2>1, <2>3, <2>4, <2>5, ReceiveFacts, BecomeBase
  <2>7. profile' = p /\ status' = Standing(p)
    BY <2>1 DEF Become
  <2> QED BY <2>3, <2>4, <2>6, <2>7 DEF Entering
<1>3. CASE ~Got(i, "200")
  <2>1. calls' = Rest(i) /\ UNCHANGED <<status, profile, route>>
    BY <1>3 DEF EditAnswered
  <2> QED BY <1>1, <2>1, ReceiveFacts, CallsBase DEF Entering
<1> QED BY <1>2, <1>3

LEMMA PushOnAnsweredBase ==
  ASSUME Base, NEW i \in DOMAIN calls, PushOnAnswered(i), UNCHANGED <<server, orderly, left, presses>>
  PROVE  Base' /\ Entering
<1>1. pushToken' \in BOOLEAN
  BY ReceiveFacts DEF PushOnAnswered, Got
<1> QED BY <1>1, ReceiveFacts, CallsBase DEF PushOnAnswered, server, Entering

LEMMA PushOffAnsweredBase ==
  ASSUME Base, NEW i \in DOMAIN calls, PushOffAnswered(i), UNCHANGED <<server, orderly, left, presses>>
  PROVE  Base' /\ Entering
<1> USE DEF server
<1>1. CASE calls[i].arg = "signOut"
  <2>1. DropSession(Rest(i)) /\ UNCHANGED <<route, muted>>
    BY <1>1 DEF PushOffAnswered
  <2>2. Base'
    BY <2>1, ReceiveFacts, DropSessionBase
  <2> QED BY <2>1, <2>2 DEF DropSession, Become, Entering
<1>2. CASE calls[i].arg # "signOut"
  <2>1. /\ calls' = Rest(i) /\ pushToken' = FALSE
        /\ UNCHANGED <<route, muted, status, profile, user, emailOk, tokenOk>>
    BY <1>2 DEF PushOffAnswered
  <2> QED BY <2>1, ReceiveFacts, CallsBase DEF Entering
<1> QED BY <1>1, <1>2

LEMMA AppleAnsweredBase ==
  ASSUME Base, NEW i \in DOMAIN calls, AppleAnswered(i), UNCHANGED <<server, orderly, left, presses>>
  PROVE  Base' /\ Entering
BY ReceiveFacts, CallsBase DEF AppleAnswered, phone, server, Entering

LEMMA DeleteAnsweredBase ==
  ASSUME Base, NEW i \in DOMAIN calls, DeleteAnswered(i), UNCHANGED <<server, orderly, left, presses>>
  PROVE  Base' /\ Entering
<1> USE DEF server
<1>1. CASE Got(i, "200")
  <2>1. BeginSignOut(Rest(i)) /\ UNCHANGED <<route, muted>>
    BY <1>1 DEF DeleteAnswered
  <2>2. Base'
    BY <2>1, ReceiveFacts, BeginSignOutBase
  <2> QED BY <2>1, <2>2 DEF BeginSignOut, DropSession, Become, Entering
<1>2. CASE ~Got(i, "200")
  <2>1. /\ calls' = Rest(i)
        /\ UNCHANGED <<route, muted, status, profile, user, emailOk, tokenOk, pushToken>>
    BY <1>2 DEF DeleteAnswered
  <2> QED BY <2>1, ReceiveFacts, CallsBase DEF Entering
<1> QED BY <1>1, <1>2

LEMMA ReceiveBase == ASSUME Base, Receive PROVE Base' /\ Entering
<1>1. PICK i \in DOMAIN calls :
        /\ \/ AuthRestored(i) \/ LoadAnswered(i) \/ NextAttempt(i) \/ ReloadAnswered(i)
           \/ EntryAnswered(i) \/ EditAnswered(i) \/ PushOnAnswered(i)
           \/ PushOffAnswered(i) \/ AppleAnswered(i) \/ DeleteAnswered(i)
        /\ UNCHANGED <<server, orderly, left, presses>>
  BY DEF Receive
<1> QED BY <1>1, AuthRestoredBase, LoadAnsweredBase, NextAttemptBase, ReloadAnsweredBase,
           EntryAnsweredBase, EditAnsweredBase, PushOnAnsweredBase, PushOffAnsweredBase,
           AppleAnsweredBase, DeleteAnsweredBase

LEMMA GateBase == ASSUME Base, Gate PROVE Base'
<1>1. UNCHANGED <<status, profile, user, emailOk, tokenOk, pushToken, muted, calls,
                  identity, acct, device, attached, orderly, left>>
  BY DEF Gate, server
<1>2. route' \in Routes
  <2>1. CASE status = "ready"
    BY <2>1 DEF Gate, Home, Routes
  <2>2. CASE status # "ready"
    <3>1. route' = CHOOSE r \in Fits(status) : TRUE
      BY <2>2 DEF Gate, Home
    <3>2. Fits(status) \subseteq Routes /\ \E r \in Fits(status) : TRUE
      BY <2>2 DEF Base, TypeOK, Statuses, Fits, Routes
    <3> QED BY <3>1, <3>2
  <2> QED BY <2>1, <2>2
<1> QED BY <1>1, <1>2, CallsBase DEF Base, TypeOK

\* Nothing but an answer lets anybody in.
LEMMA OthersEnterNobody ==
  ASSUME Base, Person \/ Serve \/ Lose \/ Gate \/ \E a \in Accounts : ConfirmEmail(a)
  PROVE  Entering
<1>1. status' = "ready" => UNCHANGED <<status, profile>>
  <2>1. ASSUME NEW u, NEW confirmed, NEW vouched, NEW cs, Resolve(u, confirmed, vouched, cs)
        PROVE  status' # "ready"
    BY <2>1 DEF Resolve, Become
  <2>2. CASE \E a \in Accounts : Register(a) \/ SignIn(a) \/ GoogleSignIn(a) \/ AppleSignIn(a)
    BY <2>1, <2>2 DEF Register, SignIn, GoogleSignIn, AppleSignIn
  <2>3. CASE Refresh
    BY <2>1, <2>3 DEF Refresh
  <2>4. CASE SignOut
    BY <2>4 DEF SignOut, BeginSignOut, DropSession, Become
  <2>5. CASE ToggleMute \/ Serve \/ Lose \/ Gate \/ \E a \in Accounts : ConfirmEmail(a)
    BY <2>5 DEF ToggleMute, Serve, Lose, Gate, ConfirmEmail, phone
  <2>6. CASE \/ \E role \in Roles : Submit("register", role) \/ Submit("switch", role)
             \/ \E kind \in {"terms", "save", "delete"} : Submit(kind, "none")
    BY <2>6 DEF Submit, phone
  <2> QED BY <2>2, <2>3, <2>4, <2>5, <2>6 DEF Person
<1> QED BY <1>1 DEF Entering

LEMMA InitBase == Init => Base
<1> SUFFICES ASSUME Init
             PROVE  Base
  OBVIOUS
<1> USE DEF Init
<1>1. TypeOK
  <2>1. identity \in [Accounts -> {"none", "unverified", "verified", "gone"}]
    OBVIOUS
  <2>2. acct \in [Accounts -> AccountRows \cup {None}]
    BY DEF AccountRows, Roles
  <2>3. user \in Accounts \cup {None} /\ device \in Accounts \cup {None} /\ attached \subseteq Accounts
    BY SessionAssumption
  <2>4. status \in Statuses /\ route \in Routes /\ status \notin {"ready", "needs-terms"}
    BY DEF Statuses, Routes
  <2>5. {emailOk, tokenOk, pushToken, muted, orderly, left} \subseteq BOOLEAN
    OBVIOUS
  <2> QED BY <2>1, <2>2, <2>3, <2>4, <2>5 DEF TypeOK
<1>2. AllSound(calls, identity, acct)
  <2> DEFINE c == Call("boot", None, "none")
  <2>1. c \in Requests /\ Sound(c, identity, acct)
    BY CallSound DEF Kinds, Args
  <2>2. calls = <<c>>
    OBVIOUS
  <2> HIDE DEF c
  <2> QED BY <2>1, <2>2 DEF AllSound
<1>3. Tables
  BY DEF Tables
<1> QED BY <1>1, <1>2, <1>3 DEF Base

LEMMA StepBase == ASSUME Base, [Next]_vars PROVE Base' /\ [Entering]_vars
<1>1. CASE Receive
  BY <1>1, ReceiveBase
<1>2. CASE Person \/ Serve \/ Lose \/ Gate \/ \E a \in Accounts : ConfirmEmail(a)
  BY <1>2, PersonBase, ServeBase, LoseBase, GateBase, ConfirmEmailBase, OthersEnterNobody
<1>3. CASE UNCHANGED vars
  BY <1>3 DEF vars, phone, server, Base, TypeOK, Tables
<1> QED BY <1>1, <1>2, <1>3 DEF Next

-----------------------------------------------------------------------------
(***************************************************************************)
(* What holds for a person who waits for each answer and loses none that   *)
(* matters: at most one request but the flush of Apple's code is under way, *)
(* and it is the signed-in account's.                                      *)
(***************************************************************************)

OneAtATime(cs) ==
    \A i, j \in DOMAIN cs : cs[i].kind # "apple" /\ cs[j].kind # "apple" => i = j

\* A request that nothing has overtaken: an answer about this phone's token
\* leaves no row behind, and one that bears a profile bears the server's role.
InOrder(c, who, dev, hush, as) ==
    /\ c.kind \notin {"boot", "nap", "apple"} => c.who = who
    /\ c.arg # "stale"
    /\ c.ans.code = "lost" => c.kind \in {"load", "reload"}
    /\ c.kind = "pushOff" /\ c.ans # Pending => dev = None
    /\ c.kind = "pushOn" => ~hush /\ (c.ans # Pending /\ c.ans.code # "200" => dev = None)
    /\ Bears(c) => as[c.who] # None /\ c.ans.body.role = as[c.who].role

\* The row this launch answers for.
Ours == IF left THEN None ELSE device

\* An answer not taken yet.
Done(kind) == \E i \in DOMAIN calls : calls[i].kind = kind /\ calls[i].ans.code = "200"

Own == profile # None => user # None /\ profile.owner = user
Registered == Ours # None => Ours = user /\ (pushToken \/ Done("pushOn"))
Hushed == muted /\ pushToken => Outstanding("pushOff")
InRole == profile # None /\ acct[user] # None
            => Done("switch") \/ profile.role = acct[user].role
InHalf == route \in {"host", "guest"} /\ user # None
            => /\ Known(user, identity, acct)
               /\ acct[user] # None => Done("switch") \/ route = Area(acct[user].role)

Awaited ==
    /\ OneAtATime(calls) /\ \A i \in DOMAIN calls : InOrder(calls[i], user, Ours, muted, acct)
    /\ Own /\ Registered /\ Hushed /\ InRole /\ InHalf

IInv == Base /\ (orderly => Awaited)

\* The same with no answer that the phone has still to take.
Rested ==
    /\ Own
    /\ Ours # None => Ours = user /\ pushToken
    /\ profile # None /\ acct[user] # None => profile.role = acct[user].role
    /\ route \in {"host", "guest"} /\ user # None
         => /\ Known(user, identity, acct)
            /\ acct[user] # None => route = Area(acct[user].role)

\* Requests of which one at most has just been sent, and the others are Apple's.
Apple(c) == c.kind = "apple" /\ c.ans.code # "lost" /\ c.arg # "stale"
Fresh(c, who, hush) ==
    /\ c.ans = Pending /\ c.arg # "stale"
    /\ c.kind \in {"boot", "nap"} \/ c.who = who
    /\ hush => c.kind # "pushOn"
Idle(cs) == cs \in Seq(Requests) /\ \A i \in DOMAIN cs : Apple(cs[i])
Lone(cs, who, hush) ==
    /\ cs \in Seq(Requests) /\ OneAtATime(cs)
    /\ \A i \in DOMAIN cs : Apple(cs[i]) \/ Fresh(cs[i], who, hush)

\* What a step has to show that leaves nothing but a fresh request.
LEMMA Settled ==
  ASSUME Lone(calls', user', muted'), Rested', Hushed'
  PROVE  Awaited'
<1>1. ASSUME NEW i \in DOMAIN calls'
      PROVE  InOrder(calls'[i], user', Ours', muted', acct')
  <2>1. calls'[i] \in Requests
    BY ElementOfSeq, LenProperties DEF Lone
  <2>2. CASE Apple(calls'[i])
    BY <2>2 DEF Apple, InOrder, Bears, Carriers
  <2>3. CASE Fresh(calls'[i], user', muted')
    BY <2>3 DEF Fresh, InOrder, Bears, Pending
  <2> QED BY <2>2, <2>3 DEF Lone
<1>2. Own' /\ Registered' /\ InRole' /\ InHalf'
  BY DEF Rested, Own, Registered, InRole, InHalf
<1> QED BY <1>1, <1>2 DEF Awaited, Lone

LEMMA IdleLone == ASSUME NEW cs, Idle(cs), NEW who, NEW hush PROVE Lone(cs, who, hush)
BY DEF Idle, Lone, OneAtATime, Apple

LEMMA NothingIdle == Idle(<<>>)
BY DEF Idle

LEMMA SendLone ==
  ASSUME NEW cs, Idle(cs), NEW who, NEW hush, NEW c \in Requests, Fresh(c, who, hush)
  PROVE  /\ Lone(Append(cs, c), who, hush)
         /\ \E j \in DOMAIN Append(cs, c) : Append(cs, c)[j] = c
<1>1. /\ Append(cs, c) \in Seq(Requests)
      /\ DOMAIN Append(cs, c) = 1 .. Len(cs) + 1
      /\ Append(cs, c)[Len(cs) + 1] = c
      /\ \A j \in 1 .. Len(cs) : Append(cs, c)[j] = cs[j]
      /\ Len(cs) \in Nat /\ DOMAIN cs = 1 .. Len(cs)
  BY LenProperties DEF Idle
<1>2. \A j \in DOMAIN Append(cs, c) : j = Len(cs) + 1 \/ Apple(Append(cs, c)[j])
  BY <1>1 DEF Idle
<1>3. OneAtATime(Append(cs, c))
  BY <1>2 DEF OneAtATime, Apple
<1>4. Len(cs) + 1 \in DOMAIN Append(cs, c)
  BY <1>1
<1> QED BY <1>1, <1>2, <1>3, <1>4 DEF Lone

LEMMA SendApple ==
  ASSUME NEW cs, Idle(cs), NEW a \in Accounts
  PROVE  Idle(Append(cs, Call("apple", a, "none")))
<1> DEFINE c == Call("apple", a, "none")
<1>1. c \in Requests
  BY CallSound DEF Kinds, Args
<1>2. Apple(c)
  BY DEF Call, Apple, Pending
<1> HIDE DEF c
<1>3. /\ Append(cs, c) \in Seq(Requests)
      /\ \A j \in DOMAIN Append(cs, c) :
           Append(cs, c)[j] = c \/ \E k \in DOMAIN cs : Append(cs, c)[j] = cs[k]
  BY <1>1, Appended DEF Idle
<1>4. Idle(Append(cs, c))
  BY <1>2, <1>3 DEF Idle
<1> QED BY <1>4 DEF c

\* Of several requests outstanding only one is not Apple's.
LEMMA OnlyOne ==
  ASSUME Base, Awaited, NEW i \in DOMAIN calls, calls[i].kind # "apple"
  PROVE  /\ \A j \in DOMAIN calls : j = i \/ Apple(calls[j])
         /\ \A kind : kind # "apple" /\ Done(kind)
                        => calls[i].kind = kind /\ calls[i].ans.code = "200"
         /\ Outstanding("pushOff") => calls[i].kind = "pushOff"
         /\ Idle(Rest(i))
<1>1. ASSUME NEW j \in DOMAIN calls, j # i
      PROVE  Apple(calls[j])
  BY <1>1 DEF Awaited, OneAtATime, InOrder, Apple
<1>2. /\ RemoveAt(calls, i) \in Seq(Requests)
      /\ \A j \in DOMAIN RemoveAt(calls, i) :
           \E k \in DOMAIN calls : k # i /\ RemoveAt(calls, i)[j] = calls[k]
  BY Remaining DEF Base, AllSound
<1>3. Idle(Rest(i))
  BY <1>1, <1>2 DEF Idle, Rest
<1>4. ASSUME NEW kind, kind # "apple", Done(kind)
      PROVE  calls[i].kind = kind /\ calls[i].ans.code = "200"
  BY <1>1, <1>4 DEF Done, Apple
<1>5. Outstanding("pushOff") => calls[i].kind = "pushOff"
  BY <1>1 DEF Outstanding, Apple
<1> QED BY <1>1, <1>3, <1>4, <1>5

\* Before an answer that is taken with nothing else to take.
LEMMA RestedBefore ==
  ASSUME Base, Awaited, ~Done("pushOn"), ~Done("switch")
  PROVE  Rested
BY DEF Awaited, Rested, Registered, InRole, InHalf

LEMMA PutLone ==
  ASSUME Base, Awaited, NEW i \in DOMAIN calls, calls[i].kind # "apple",
         NEW who, NEW hush, NEW c \in Requests, Fresh(c, who, hush), c.kind # "apple"
  PROVE  Lone([calls EXCEPT ![i] = c], who, hush)
<1> DEFINE ds == [calls EXCEPT ![i] = c]
<1>1. \A j \in DOMAIN calls : j = i \/ Apple(calls[j])
  BY OnlyOne
<1>2. \A j \in DOMAIN calls : calls[j] \in Requests
  BY OneSound DEF Base
<1>3. /\ ds \in [DOMAIN calls -> Requests] /\ ds[i] = c
      /\ \A j \in DOMAIN calls : j = i \/ ds[j] = calls[j]
  BY <1>2 DEF Base, AllSound
<1> HIDE DEF ds
<1>4. ds \in Seq(Requests) /\ DOMAIN ds = DOMAIN calls
  BY <1>3, Mapped DEF Base, AllSound
<1>5. OneAtATime(ds)
  BY <1>1, <1>3, <1>4 DEF OneAtATime, Apple
<1>6. Lone(ds, who, hush)
  BY <1>1, <1>3, <1>4, <1>5 DEF Lone
<1> QED BY <1>6 DEF ds

\* Where no registration is under way, leaving "ready" makes none stale.
LEMMA EffectQuiet ==
  ASSUME NEW cs \in Seq(Requests), \A i \in DOMAIN cs : cs[i].kind # "pushOn",
         NEW new, new # "ready", NEW who
  PROVE  PushEffect(cs, new, who) = cs
<1>1. CASE status = "ready"
  <2>1. PushEffect(cs, new, who) =
          [i \in DOMAIN cs |-> IF cs[i].kind = "pushOn" /\ cs[i].arg = "effect"
                               THEN [cs[i] EXCEPT !.arg = "stale"] ELSE cs[i]]
    BY <1>1 DEF PushEffect
  <2>2. PushEffect(cs, new, who) = [i \in DOMAIN cs |-> cs[i]]
    BY <2>1
  <2>3. cs = [i \in DOMAIN cs |-> cs[i]]
    OBVIOUS
  <2> QED BY <2>2, <2>3
<1>2. CASE status # "ready"
  BY <1>2 DEF PushEffect
<1> QED BY <1>1, <1>2

LEMMA BecomeLone ==
  ASSUME NEW cs, Idle(cs), NEW new, NEW p, user' \in Accounts \cup {None}, Become(new, p, cs)
  PROVE  Lone(calls', user', muted)
<1>1. CASE new # "ready"
  <2>1. calls' = cs
    BY <1>1, EffectQuiet DEF Become, Idle, Apple
  <2> QED BY <2>1, IdleLone
<1>2. CASE new = "ready" /\ status # "ready" /\ ~muted
  <2> DEFINE c == Call("pushOn", user', "effect")
  <2>1. calls' = Append(cs, c)
    BY <1>2 DEF Become, PushEffect
  <2>2. c \in Requests
    BY CallSound DEF Kinds, Args
  <2>3. Fresh(c, user', muted)
    BY <1>2 DEF Call, Fresh
  <2> HIDE DEF c
  <2> QED BY <2>1, <2>2, <2>3, SendLone
<1>3. CASE new = "ready" /\ ~(status # "ready" /\ ~muted)
  <2>1. calls' = cs
    BY <1>3 DEF Become, PushEffect
  <2> QED BY <2>1, IdleLone
<1> QED BY <1>1, <1>2, <1>3

LEMMA ResolveLone ==
  ASSUME NEW cs, Idle(cs), user' \in Accounts \cup {None}, NEW confirmed,
         NEW vouched \in BOOLEAN, Resolve(user', confirmed, vouched, cs)
  PROVE  Lone(calls', user', muted)
<1>1. CASE Become("signed-out", None, cs) \/ Become("unverified", None, cs)
  BY <1>1, BecomeLone
<1>2. CASE Become("loading", profile, Append(cs, Load(user', vouched, 0, "first")))
  <2> DEFINE c == Load(user', vouched, 0, "first")
  <2>1. c \in Requests
    BY LoadSound
  <2>2. Fresh(c, user', muted) /\ c.kind = "load"
    BY DEF Load, Call, Fresh
  <2> HIDE DEF c
  <2>3. Lone(Append(cs, c), user', muted)
    BY <2>1, <2>2, SendLone
  <2>4. /\ Append(cs, c) \in Seq(Requests)
        /\ \A j \in DOMAIN Append(cs, c) :
             Append(cs, c)[j] = c \/ \E k \in DOMAIN cs : Append(cs, c)[j] = cs[k]
    BY <2>1, Appended DEF Idle
  <2>5. \A j \in DOMAIN Append(cs, c) : Append(cs, c)[j].kind # "pushOn"
    BY <2>2, <2>4 DEF Idle, Apple
  <2>6. calls' = Append(cs, c)
    BY <1>2, <2>4, <2>5, EffectQuiet DEF Become, c
  <2> QED BY <2>3, <2>6
<1> QED BY <1>1, <1>2 DEF Resolve

-----------------------------------------------------------------------------
(***************************************************************************)
(* Every action keeps that.  First what the person does.                   *)
(***************************************************************************)

\* A press that leaves them orderly comes when nothing is outstanding.
LEMMA PressFacts ==
  ASSUME IInv, Press, orderly'
  PROVE  calls = <<>> /\ Idle(calls) /\ Rested /\ ~(muted /\ pushToken)
<1>1. orderly /\ calls = <<>>
  BY DEF Press
<1>2. Base /\ Awaited
  BY <1>1 DEF IInv
<1>3. ~Done("pushOn") /\ ~Done("switch") /\ ~Outstanding("pushOff")
  BY <1>1 DEF Done, Outstanding
<1> QED BY <1>1, <1>2, <1>3, RestedBefore, NothingIdle DEF Awaited, Hushed

LEMMA EntryAwaited ==
  ASSUME IInv, orderly', NEW a \in Accounts,
         Register(a) \/ SignIn(a) \/ GoogleSignIn(a) \/ AppleSignIn(a)
  PROVE  Awaited'
<1>1. /\ Press /\ user = None /\ route = "entry" /\ user' = a
      /\ UNCHANGED <<route, pushToken, muted, acct, Ours>>
  <2>1. /\ Press /\ user = None /\ route = "entry" /\ user' = a
        /\ UNCHANGED <<route, pushToken, muted, acct, device>>
    BY DEF Register, SignIn, GoogleSignIn, AppleSignIn, On, server
  <2>2. UNCHANGED left
    BY <2>1 DEF Press
  <2> QED BY <2>1, <2>2 DEF Ours
<1>2. calls = <<>> /\ Idle(calls) /\ Rested /\ ~(muted /\ pushToken)
  BY <1>1, PressFacts
<1>3. profile = None /\ Ours = None
  BY <1>1, <1>2 DEF Rested, Own
<1>4. profile' = None
  BY <1>3 DEF Register, SignIn, GoogleSignIn, AppleSignIn, Resolve, Become
<1>5. Lone(calls', user', muted')
  <2>1. user' \in Accounts \cup {None} /\ (identity[a] = "verified") \in BOOLEAN
    BY <1>1
  <2>2. CASE Register(a)
    BY <1>1, <1>2, <2>1, <2>2, ResolveLone DEF Register
  <2>3. CASE SignIn(a)
    BY <1>1, <1>2, <2>1, <2>3, ResolveLone DEF SignIn
  <2>4. CASE GoogleSignIn(a)
    BY <1>1, <1>2, <2>1, <2>4, ResolveLone DEF GoogleSignIn
  <2>5. CASE AppleSignIn(a)
    <3>1. Idle(Append(calls, Call("apple", a, "none")))
      BY <1>2, SendApple
    <3> QED BY <1>1, <2>1, <2>5, <3>1, ResolveLone DEF AppleSignIn
  <2> QED BY <2>2, <2>3, <2>4, <2>5
<1>6. Rested' /\ Hushed'
  BY <1>1, <1>2, <1>3, <1>4 DEF Rested, Own, Hushed
<1> QED BY <1>5, <1>6, Settled

\* Sending one request, the rest of the phone and the API staying as they are.
LEMMA SentAwaited ==
  ASSUME Base, NEW cs, Idle(cs), Rested, ~(muted /\ pushToken),
         UNCHANGED <<profile, route, user, pushToken, muted, identity, acct, Ours>>,
         NEW kind \in Kinds \ {"boot", "nap", "apple", "pushOn"}, NEW arg \in Args \ {"stale"},
         kind \in {"register", "switch"} => arg \in Roles,
         calls' = Append(cs, Call(kind, user, arg))
  PROVE  Awaited'
<1> DEFINE c == Call(kind, user, arg)
<1>1. c \in Requests
  BY CallSound DEF Base, TypeOK
<1>2. Fresh(c, user', muted')
  BY DEF Call, Fresh
<1>3. Lone(calls', user', muted')
  <2>1. calls' = Append(cs, c)
    OBVIOUS
  <2> HIDE DEF c
  <2> QED BY <1>1, <1>2, <2>1, SendLone
<1>4. Rested' /\ Hushed'
  BY DEF Rested, Own, Hushed
<1> QED BY <1>3, <1>4, Settled

LEMMA DropAwaited ==
  ASSUME Base, NEW cs, Idle(cs), DropSession(cs), Ours = None, UNCHANGED <<muted, Ours>>
  PROVE  Awaited'
<1>1. user' = None /\ pushToken' = FALSE /\ Become("signed-out", None, cs)
  BY DEF DropSession
<1>2. profile' = None
  BY <1>1 DEF Become
<1>3. Lone(calls', user', muted')
  BY <1>1, BecomeLone
<1>4. Rested' /\ Hushed'
  BY <1>1, <1>2 DEF Rested, Own, Hushed
<1> QED BY <1>3, <1>4, Settled

LEMMA BeginSignOutAwaited ==
  ASSUME Base, NEW cs, Idle(cs), Rested, ~(muted /\ pushToken), BeginSignOut(cs),
         UNCHANGED <<route, muted, identity, acct, Ours>>
  PROVE  Awaited'
<1>1. CASE pushToken
  BY <1>1, SentAwaited DEF BeginSignOut, Kinds, Args
<1>2. CASE ~pushToken
  <2>1. Ours = None
    BY <1>2 DEF Rested
  <2> QED BY <1>2, <2>1, DropAwaited DEF BeginSignOut
<1> QED BY <1>1, <1>2

LEMMA RefreshAwaited == ASSUME IInv, orderly', Refresh PROVE Awaited'
<1>1. Press /\ UNCHANGED <<route, user, pushToken, muted, identity, acct, Ours>>
  BY DEF Refresh, server, Press, Ours
<1>2. Base /\ Idle(calls) /\ Rested /\ ~(muted /\ pushToken)
  BY <1>1, PressFacts DEF IInv
<1>3. CASE user = None
  <2>1. Resolve(None, FALSE, FALSE, calls)
    BY <1>3 DEF Refresh
  <2>2. profile' = None
    BY <2>1 DEF Resolve, Become
  <2>3. Lone(calls', user', muted')
    BY <1>1, <1>2, <1>3, <2>1, ResolveLone
  <2>4. Rested' /\ Hushed'
    BY <1>1, <1>2, <1>3, <2>2 DEF Rested, Own, Hushed
  <2> QED BY <2>3, <2>4, Settled
<1>4. CASE user # None
  BY <1>1, <1>2, <1>4, SentAwaited DEF Refresh, Kinds, Args
<1> QED BY <1>3, <1>4

LEMMA SignOutAwaited == ASSUME IInv, orderly', SignOut PROVE Awaited'
<1>1. Base /\ Idle(calls) /\ Rested /\ ~(muted /\ pushToken)
  BY PressFacts DEF IInv, SignOut
<1> QED BY <1>1, BeginSignOutAwaited DEF SignOut, server, Press, Ours

LEMMA SubmitAwaited ==
  ASSUME IInv, orderly', NEW kind \in {"register", "terms", "save", "switch", "delete"},
         NEW arg \in Args \ {"stale"}, kind \in {"register", "switch"} => arg \in Roles,
         Submit(kind, arg)
  PROVE  Awaited'
<1>1. Base /\ Idle(calls) /\ Rested /\ ~(muted /\ pushToken)
  BY PressFacts DEF IInv, Submit
<1> QED BY <1>1, SentAwaited DEF Submit, phone, server, Kinds, Press, Ours

LEMMA ToggleMuteAwaited == ASSUME IInv, orderly', ToggleMute PROVE Awaited'
<1>1. /\ Press /\ muted' = ~muted
      /\ UNCHANGED <<status, profile, route, user, identity, acct, Ours>>
  BY DEF ToggleMute, server, Press, Ours
<1>2. Base /\ calls = <<>> /\ Idle(calls) /\ Rested /\ ~(muted /\ pushToken)
  BY <1>1, PressFacts DEF IInv
<1>3. user \in Accounts \cup {None} /\ muted \in BOOLEAN
  BY <1>2 DEF Base, TypeOK
<1>4. CASE muted
  <2> DEFINE c == Call("pushOn", user, "toggle")
  <2>1. calls' = Append(calls, c) /\ UNCHANGED pushToken
    BY <1>4 DEF ToggleMute
  <2>2. c \in Requests
    BY <1>3, CallSound DEF Kinds, Args
  <2>3. Fresh(c, user', muted')
    BY <1>1, <1>4 DEF Call, Fresh
  <2>4. Lone(calls', user', muted')
    <3> HIDE DEF c
    <3> QED BY <1>2, <2>1, <2>2, <2>3, SendLone
  <2>5. Rested' /\ Hushed'
    BY <1>1, <1>2, <1>4, <2>1 DEF Rested, Own, Hushed
  <2> QED BY <2>4, <2>5, Settled
<1>5. CASE ~muted /\ pushToken
  <2> DEFINE c == Call("pushOff", user, "mute")
  <2>1. calls' = Append(calls, c) /\ UNCHANGED pushToken
    BY <1>5 DEF ToggleMute
  <2>2. c \in Requests
    BY <1>3, CallSound DEF Kinds, Args
  <2>3. Fresh(c, user', muted') /\ c.kind = "pushOff"
    BY <1>1, <1>5 DEF Call, Fresh
  <2> HIDE DEF c
  <2>4. Lone(calls', user', muted') /\ \E j \in DOMAIN calls' : calls'[j] = c
    BY <1>2, <2>1, <2>2, <2>3, SendLone
  <2>5. Rested' /\ Hushed'
    BY <1>1, <1>2, <2>1, <2>3, <2>4 DEF Rested, Own, Hushed, Outstanding
  <2> QED BY <2>4, <2>5, Settled
<1>6. CASE ~muted /\ ~pushToken
  <2>1. pushToken' = FALSE /\ UNCHANGED calls
    BY <1>6 DEF ToggleMute
  <2>2. Lone(calls', user', muted')
    BY <1>2, <2>1, IdleLone
  <2>3. Rested' /\ Hushed'
    BY <1>1, <1>2, <1>6, <2>1 DEF Rested, Own, Hushed
  <2> QED BY <2>2, <2>3, Settled
<1> QED BY <1>4, <1>5, <1>6

LEMMA PersonAwaited == ASSUME IInv, orderly', Person PROVE Awaited'
<1>1. CASE \E a \in Accounts : Register(a) \/ SignIn(a) \/ GoogleSignIn(a) \/ AppleSignIn(a)
  BY <1>1, EntryAwaited
<1>2. CASE Refresh \/ SignOut \/ ToggleMute
  BY <1>2, RefreshAwaited, SignOutAwaited, ToggleMuteAwaited
<1>3. CASE \E role \in Roles : Submit("register", role) \/ Submit("switch", role)
  <2>1. Roles \subseteq Args \ {"stale"}
    BY DEF Roles, Args
  <2> QED BY <1>3, <2>1, SubmitAwaited
<1>4. CASE \E kind \in {"terms", "save", "delete"} : Submit(kind, "none")
  BY <1>4, SubmitAwaited DEF Args
<1> QED BY <1>1, <1>2, <1>3, <1>4 DEF Person

\* The link in the mail, opened elsewhere.
LEMMA ConfirmEmailAwaited ==
  ASSUME Base, Awaited, NEW a \in Accounts, ConfirmEmail(a)
  PROVE  Awaited'
<1>1. /\ \A b \in Accounts : (identity'[b] = "gone") = (identity[b] = "gone")
      /\ UNCHANGED <<status, profile, route, user, emailOk, tokenOk, pushToken, muted,
                     calls, acct, Ours, attached, orderly>>
  BY DEF Base, TypeOK, ConfirmEmail, phone, Ours
<1>2. user # None => (Known(user, identity', acct) = Known(user, identity, acct))
  BY <1>1 DEF Known, Base, TypeOK
<1> QED BY <1>1, <1>2 DEF Awaited, Own, Registered, Hushed, InRole, InHalf, Done, Outstanding

-----------------------------------------------------------------------------
(***************************************************************************)
(* The API.                                                                *)
(***************************************************************************)

\* What putting an answer to the one request that is not Apple's has to show.
LEMMA AnsweredOne ==
  ASSUME Base, Awaited, NEW i \in DOMAIN calls, calls[i].kind # "apple", NEW ans \in Answers,
         Reply(i, ans), UNCHANGED phone,
         InOrder([calls[i] EXCEPT !.ans = ans], user, Ours', muted, acct'),
         Registered', InRole', InHalf'
  PROVE  Awaited'
<1> DEFINE c == [calls[i] EXCEPT !.ans = ans]
<1>1. calls' = [calls EXCEPT ![i] = c]
  BY DEF Reply
<1>2. c.kind = calls[i].kind
  BY OneSound DEF Base, Requests
<1>3. InOrder(c, user', Ours', muted', acct')
  BY DEF phone
<1> HIDE DEF c
<1>4. DOMAIN calls' = DOMAIN calls /\ calls'[i] = c
      /\ \A j \in DOMAIN calls : j = i \/ calls'[j] = calls[j]
  BY <1>1 DEF Base, AllSound
<1>5. \A j \in DOMAIN calls : j = i \/ Apple(calls[j])
  BY OnlyOne
<1>6. ASSUME NEW j \in DOMAIN calls'
      PROVE  InOrder(calls'[j], user', Ours', muted', acct')
  BY <1>3, <1>4, <1>5 DEF Apple, InOrder, Bears, Carriers
<1>7. OneAtATime(calls')
  BY <1>2, <1>4, <1>5 DEF OneAtATime, Apple
<1>8. Own' /\ Hushed'
  <2>1. Outstanding("pushOff") => Outstanding("pushOff")'
    BY <1>2, <1>4 DEF Outstanding
  <2> QED BY <2>1 DEF Awaited, Own, Hushed, phone
<1> QED BY <1>6, <1>7, <1>8 DEF Awaited

\* The same when the API's tables stay as they are.
LEMMA AnsweredOnly ==
  ASSUME Base, Awaited, NEW i \in DOMAIN calls, calls[i].kind # "apple", NEW ans \in Answers,
         ~(calls[i].kind \in {"pushOn", "switch"} /\ calls[i].ans.code = "200"),
         Reply(i, ans), UNCHANGED phone, UNCHANGED <<identity, acct, Ours>>,
         InOrder([calls[i] EXCEPT !.ans = ans], user, Ours, muted, acct)
  PROVE  Awaited'
<1>1. ~Done("pushOn") /\ ~Done("switch")
  BY OnlyOne
<1>2. Rested
  BY <1>1, RestedBefore
<1>3. Registered' /\ InRole' /\ InHalf'
  BY <1>2 DEF Rested, Registered, InRole, InHalf, phone
<1> QED BY <1>3, AnsweredOne

\* An answer that brings no profile, to a request that is not about the push
\* token, is in order.
LEMMA PlainInOrder ==
  ASSUME Base, Awaited, NEW i \in DOMAIN calls, NEW ans \in Answers, NEW dev, NEW as,
         calls[i].kind \notin {"pushOn", "pushOff"},
         ans.code = "lost" => calls[i].kind \in {"load", "reload"},
         calls[i].kind \in Carriers => ans.code # "200"
  PROVE  InOrder([calls[i] EXCEPT !.ans = ans], user, dev, muted, as)
<1>1. calls[i] \in Requests /\ InOrder(calls[i], user, Ours, muted, acct)
  BY OneSound DEF Base, Awaited
<1> QED BY <1>1 DEF Requests, InOrder, Bears

\* One that brings the caller's profile is.
LEMMA SnapshotInOrder ==
  ASSUME Base, Awaited, NEW i \in DOMAIN calls, NEW as, NEW dev,
         calls[i].kind \in Carriers, calls[i].who \in Accounts, as[calls[i].who] \in AccountRows
  PROVE  InOrder([calls[i] EXCEPT !.ans = Snapshot(calls[i].who, as)], user, dev, muted, as)
<1> DEFINE a == calls[i].who
           ans == Snapshot(a, as)
<1>1. calls[i] \in Requests /\ InOrder(calls[i], user, Ours, muted, acct)
  BY OneSound DEF Base, Awaited
<1>2. ans.code = "200" /\ ans.body.role = as[a].role /\ as[a] # None
  BY SnapshotSound, NullAssumption
<1> HIDE DEF ans
<1> DEFINE c == [calls[i] EXCEPT !.ans = ans]
<1>3. c.kind = calls[i].kind /\ c.who = a /\ c.arg = calls[i].arg /\ c.ans = ans
  BY <1>1 DEF Requests
<1>4. InOrder(c, user, dev, muted, as)
  <2> HIDE DEF a, c
  <2>1. calls[i].kind \notin {"boot", "nap", "apple"} => a = user
    BY <1>1 DEF InOrder, a
  <2> QED BY <1>1, <1>2, <1>3, <2>1 DEF InOrder, Carriers
<1> QED BY <1>4 DEF ans

LEMMA ServeLoadAwaited ==
  ASSUME Base, Awaited, NEW i \in DOMAIN calls, ServeLoad(i), UNCHANGED left, UNCHANGED phone
  PROVE  Awaited'
<1> DEFINE c == calls[i]
<1>1. c \in Requests
  BY OneSound DEF Base
<1>2. /\ c.kind = "load" /\ UNCHANGED <<identity, acct, Ours>>
      /\ Reply(i, CASE ~Stranger(c) /\ ~c.vouched -> Refused("403")
                    [] Unknown(c) /\ (Stranger(c) \/ c.vouched) -> Turned(c)
                    [] OTHER -> Snapshot(c.who, acct))
  BY DEF ServeLoad, Waiting, server, Ours
<1>3. ASSUME NEW ans \in Answers, ans.code \in {"401", "403", "404"}, Reply(i, ans)
      PROVE  Awaited'
  <2>1. InOrder([calls[i] EXCEPT !.ans = ans], user, Ours, muted, acct)
    BY <1>2, <1>3, PlainInOrder
  <2> QED BY <1>2, <1>3, <2>1, AnsweredOnly
<1>4. CASE ~Stranger(c) /\ ~c.vouched
  <2>1. Reply(i, Refused("403"))
    BY <1>2, <1>4
  <2> QED BY <1>3, <2>1, RefusedTyped DEF Codes
<1>5. CASE ~(~Stranger(c) /\ ~c.vouched) /\ Unknown(c) /\ (Stranger(c) \/ c.vouched)
  <2>1. Reply(i, Turned(c))
    BY <1>2, <1>5
  <2> QED BY <1>1, <1>3, <2>1, RefusedTyped
<1>6. CASE ~(~Stranger(c) /\ ~c.vouched) /\ ~(Unknown(c) /\ (Stranger(c) \/ c.vouched))
  <2>1. Reply(i, Snapshot(c.who, acct))
    BY <1>2, <1>6
  <2>2. ~Unknown(c)
    BY <1>6 DEF Unknown
  <2>3. c.who \in Accounts /\ acct[c.who] \in AccountRows
    BY <1>1, <2>2, CallerKnown
  <2>4. InOrder([calls[i] EXCEPT !.ans = Snapshot(c.who, acct)], user, Ours, muted, acct)
    BY <1>2, <2>3, SnapshotInOrder DEF Carriers
  <2> QED BY <1>2, <2>1, <2>3, <2>4, SnapshotSound, AnsweredOnly
<1> QED BY <1>4, <1>5, <1>6

LEMMA ServeReloadAwaited ==
  ASSUME Base, Awaited, NEW i \in DOMAIN calls, ServeReload(i), UNCHANGED left, UNCHANGED phone
  PROVE  Awaited'
<1>1. /\ calls[i].kind = "reload" /\ UNCHANGED <<identity, acct, Ours>>
      /\ Reply(i, Refused("200"))
  BY DEF ServeReload, Waiting, server, Ours
<1>2. Refused("200") \in Answers /\ Refused("200").code = "200"
  BY RefusedTyped DEF Codes
<1>3. InOrder([calls[i] EXCEPT !.ans = Refused("200")], user, Ours, muted, acct)
  BY <1>1, <1>2, PlainInOrder DEF Carriers
<1> QED BY <1>1, <1>2, <1>3, AnsweredOnly

\* A refusal.
LEMMA RefusalAwaited ==
  ASSUME Base, Awaited, NEW i \in DOMAIN calls,
         calls[i].kind \in {"register", "terms", "save", "switch", "delete"},
         calls[i].ans = Pending, NEW ans \in Answers, ans.code \in {"401", "404", "409"},
         Reply(i, ans), UNCHANGED phone, UNCHANGED <<identity, acct, Ours>>
  PROVE  Awaited'
<1>1. calls[i].ans.code # "200"
  BY DEF Pending
<1>2. InOrder([calls[i] EXCEPT !.ans = ans], user, Ours, muted, acct)
  BY PlainInOrder
<1> QED BY <1>1, <1>2, AnsweredOnly

\* A row written for the caller: a new one, or the caller's with a new
\* acceptance, the same, or another role.
LEMMA RowAwaited ==
  ASSUME Base, Awaited, NEW i \in DOMAIN calls, NEW row \in AccountRows,
         calls[i].kind \in Carriers \ {"load"}, calls[i].ans = Pending,
         calls[i].who \in Accounts, identity[calls[i].who] # "gone",
         calls[i].kind \in {"terms", "save"} => row.role = acct[calls[i].who].role,
         (calls[i].kind = "register") = (acct[calls[i].who] = None),
         acct' = [acct EXCEPT ![calls[i].who] = row],
         Reply(i, Snapshot(calls[i].who, [acct EXCEPT ![calls[i].who] = row])),
         UNCHANGED phone, UNCHANGED <<identity, Ours>>
  PROVE  Awaited'
<1> DEFINE a == calls[i].who
           ans == Snapshot(a, acct')
<1>1. acct' \in [Accounts -> AccountRows \cup {None}] /\ acct'[a] = row /\ row # None
  BY NullAssumption DEF Base, TypeOK
<1>2. ans \in Answers /\ ans.code = "200"
  BY <1>1, SnapshotSound
<1>3. InOrder([calls[i] EXCEPT !.ans = ans], user, Ours', muted, acct')
  BY <1>1, SnapshotInOrder
<1>4. Reply(i, ans)
  OBVIOUS
<1> HIDE DEF ans
<1>5. calls[i].kind # "apple" /\ calls[i].ans.code # "200" /\ a = user
  BY DEF Awaited, InOrder, Carriers, Pending
<1>6. Rested
  BY <1>5, OnlyOne, RestedBefore
<1>7. Registered'
  BY <1>6 DEF Rested, Registered, phone
<1>8. calls[i].kind = "switch" => Done("switch")'
  <2>1. calls' = [calls EXCEPT ![i].ans = ans] /\ calls[i] \in Requests
    BY <1>4, OneSound DEF Reply, Base
  <2>2. i \in DOMAIN calls' /\ calls'[i].kind = calls[i].kind /\ calls'[i].ans = ans
    BY <2>1 DEF Base, AllSound, Requests
  <2> QED BY <1>2, <2>2 DEF Done
<1>9. calls[i].kind = "register" =>
        /\ profile = None
        /\ ~(route \in {"host", "guest"})
  <2>1. calls[i].kind = "register" => ~Known(user, identity, acct)
    BY <1>5 DEF Known
  <2>2. user # None
    BY <1>5, SessionAssumption
  <2> QED BY <1>6, <2>1, <2>2 DEF Rested, Own, Base, Tables
<1>10. calls[i].kind \in {"terms", "save"} => acct[user] # None /\ acct'[user].role = acct[user].role
  BY <1>1, <1>5
<1>11. calls[i].kind \in {"register", "terms", "save", "switch"}
  BY DEF Carriers
<1>12. InRole'
  BY <1>6, <1>8, <1>9, <1>10, <1>11 DEF Rested, InRole, phone
<1>13. InHalf'
  <2>1. Known(user, identity', acct')
    BY <1>1, <1>5 DEF Known
  <2> QED BY <1>6, <1>8, <1>9, <1>10, <1>11, <2>1 DEF Rested, InHalf, phone
<1> QED BY <1>2, <1>3, <1>4, <1>5, <1>7, <1>12, <1>13, AnsweredOne

LEMMA ServeRegisterAwaited ==
  ASSUME Base, Awaited, NEW i \in DOMAIN calls, ServeRegister(i), UNCHANGED left, UNCHANGED phone
  PROVE  Awaited'
<1> DEFINE c == calls[i]
           row == [role |-> c.arg, accepted |-> {}]
<1>1. c \in Requests /\ Sound(c, identity, acct)
  BY OneSound DEF Base
<1>2. /\ c.kind = "register" /\ c.ans = Pending /\ UNCHANGED <<identity, Ours, attached>>
      /\ CASE Stranger(c) -> Reply(i, Refused("401")) /\ UNCHANGED acct
           [] ~Unknown(c) -> Reply(i, Refused("409")) /\ UNCHANGED acct
           [] OTHER -> /\ acct' = [acct EXCEPT ![c.who] = row]
                       /\ Reply(i, Snapshot(c.who, [acct EXCEPT ![c.who] = row]))
  BY DEF ServeRegister, Waiting, Ours
<1>3. CASE Stranger(c)
  <2>1. Reply(i, Refused("401")) /\ UNCHANGED acct
    BY <1>2, <1>3 DEF Unknown
  <2> QED BY <1>2, <2>1, RefusedTyped, RefusalAwaited DEF Codes
<1>4. CASE ~Stranger(c) /\ ~Unknown(c)
  <2>1. Reply(i, Refused("409")) /\ UNCHANGED acct
    BY <1>2, <1>4
  <2> QED BY <1>2, <2>1, RefusedTyped, RefusalAwaited DEF Codes
<1>5. CASE ~Stranger(c) /\ Unknown(c)
  <2>1. /\ acct' = [acct EXCEPT ![c.who] = row]
        /\ Reply(i, Snapshot(c.who, [acct EXCEPT ![c.who] = row]))
    BY <1>2, <1>5
  <2>2. c.who \in Accounts /\ identity[c.who] # "gone" /\ acct[c.who] = None
    BY <1>1, <1>5 DEF Requests, Stranger, Unknown
  <2>3. row \in AccountRows
    BY <1>1, <1>2 DEF Sound, AccountRows
  <2> HIDE DEF row
  <2>4. c.kind \in Carriers \ {"load"} /\ c.kind \notin {"terms", "save"}
    BY <1>2 DEF Carriers
  <2> QED BY <1>2, <2>1, <2>2, <2>3, <2>4, RowAwaited
<1> QED BY <1>3, <1>4, <1>5

LEMMA ServeEditAwaited ==
  ASSUME Base, Awaited, NEW i \in DOMAIN calls, ServeEdit(i), UNCHANGED left, UNCHANGED phone
  PROVE  Awaited'
<1> DEFINE c == calls[i]
           mine == acct[c.who]
           Put(row) == /\ acct' = [acct EXCEPT ![c.who] = row]
                       /\ Reply(i, Snapshot(c.who, [acct EXCEPT ![c.who] = row]))
<1>1. c \in Requests /\ Sound(c, identity, acct)
  BY OneSound DEF Base
<1>2. /\ c.kind \in {"terms", "save", "switch"} /\ c.ans = Pending
      /\ UNCHANGED <<identity, Ours, attached>>
      /\ IF Unknown(c) THEN Reply(i, Turned(c)) /\ UNCHANGED acct
         ELSE \/ c.kind = "terms" /\ Put([mine EXCEPT !.accepted = @ \cup {mine.role}])
              \/ c.kind = "save" /\ Put(mine)
              \/ c.kind = "switch" /\ Put([mine EXCEPT !.role = c.arg])
              \/ c.kind = "switch" /\ Reply(i, Refused("409")) /\ UNCHANGED acct
  BY DEF ServeEdit, Waiting, Ours
<1>3. CASE Unknown(c)
  BY <1>1, <1>2, <1>3, RefusedTyped, RefusalAwaited
<1>4. CASE ~Unknown(c)
  <2>1. c.who \in Accounts /\ mine \in AccountRows /\ identity[c.who] # "gone" /\ mine # None
    BY <1>1, <1>4, CallerKnown, NullAssumption
  <2>2. ASSUME NEW row \in AccountRows, Put(row),
               c.kind \in {"terms", "save"} => row.role = mine.role
        PROVE  Awaited'
    <3>1. c.kind \in Carriers \ {"load"} /\ c.kind # "register"
      BY <1>2 DEF Carriers
    <3> QED BY <1>2, <2>1, <2>2, <3>1, RowAwaited
  <2>3. CASE c.kind = "terms" /\ Put([mine EXCEPT !.accepted = @ \cup {mine.role}])
    <3> DEFINE row == [mine EXCEPT !.accepted = @ \cup {mine.role}]
    <3>1. row \in AccountRows /\ row.role = mine.role
      BY <2>1 DEF AccountRows
    <3> HIDE DEF Put, row
    <3> QED BY <2>2, <2>3, <3>1 DEF row
  <2>4. CASE c.kind = "save" /\ Put(mine)
    BY <2>1, <2>2, <2>4
  <2>5. CASE c.kind = "switch" /\ Put([mine EXCEPT !.role = c.arg])
    <3> DEFINE row == [mine EXCEPT !.role = c.arg]
    <3>1. row \in AccountRows
      BY <1>1, <2>1, <2>5 DEF AccountRows, Sound
    <3> HIDE DEF Put, row
    <3> QED BY <2>2, <2>5, <3>1 DEF row
  <2>6. CASE c.kind = "switch" /\ Reply(i, Refused("409")) /\ UNCHANGED acct
    BY <1>2, <2>6, RefusedTyped, RefusalAwaited DEF Codes
  <2> QED BY <1>2, <1>4, <2>3, <2>4, <2>5, <2>6
<1> QED BY <1>3, <1>4

LEMMA ServeDeviceAwaited ==
  ASSUME Base, Awaited, NEW i \in DOMAIN calls, ServeDevice(i), left' = (left /\ ~Renewed(i)),
         UNCHANGED phone
  PROVE  Awaited'
<1> DEFINE c == calls[i]
<1>1. c \in Requests /\ InOrder(c, user, Ours, muted, acct)
  BY OneSound DEF Base, Awaited
<1>2. /\ c.kind \in {"pushOn", "pushOff"} /\ c.ans = Pending /\ UNCHANGED <<identity, acct>>
      /\ IF Unknown(c) THEN Reply(i, Turned(c)) /\ UNCHANGED device
         ELSE /\ Reply(i, Refused("200"))
              /\ device' = IF c.kind = "pushOn" THEN c.who
                           ELSE IF device = c.who THEN None ELSE device
  BY DEF ServeDevice, Waiting
<1>3. c.ans.code # "200" /\ c.who = user
  BY <1>1, <1>2 DEF Pending, InOrder
<1>4. Rested
  BY <1>2, <1>3, OnlyOne, RestedBefore
<1>5. InRole' /\ InHalf'
  BY <1>2, <1>4 DEF Rested, InRole, InHalf, phone
<1>6. ASSUME NEW ans \in Answers, ans.code # "lost",
             c.kind = "pushOff" => Ours' = None,
             c.kind = "pushOn" /\ ans.code # "200" => Ours' = None
      PROVE  InOrder([c EXCEPT !.ans = ans], user, Ours', muted, acct')
  BY <1>1, <1>2, <1>6 DEF Requests, InOrder, Bears, Carriers
<1>7. CASE Unknown(c)
  <2>1. Ours = None
    <3>1. ASSUME ~left
          PROVE  device = None \/ (device = user /\ user \in Accounts)
      <4>1. device = None \/ device = user
        BY <1>4, <3>1 DEF Rested, Ours
      <4>2. device \in Accounts \cup {None}
        BY DEF Base, TypeOK
      <4> QED BY <4>1, <4>2
    <3> QED BY <1>3, <1>7, <3>1 DEF Unknown, Stranger, Base, Tables, Ours
  <2>4. Ours' = None
    <3>1. CASE left'
      BY <3>1 DEF Ours
    <3>2. CASE ~left' /\ left
      <4>1. device = user
        BY <1>2, <1>3, <1>7, <3>2 DEF Renewed
      <4>2. device = None
        BY <1>3, <1>7, <4>1 DEF Unknown, Stranger, Base, Tables, TypeOK
      <4> QED BY <1>2, <1>7, <4>2 DEF Ours
    <3>3. CASE ~left' /\ ~left
      BY <1>2, <1>7, <2>1, <3>3 DEF Ours
    <3> QED BY <3>1, <3>2, <3>3
  <2>2. Registered'
    BY <2>4 DEF Registered
  <2>3. Turned(c) \in Answers /\ Turned(c).code # "lost"
    BY <1>1, RefusedTyped
  <2> QED BY <1>2, <1>5, <1>6, <1>7, <2>4, <2>2, <2>3, AnsweredOne
<1>8. CASE ~Unknown(c)
  <2>1. Refused("200") \in Answers /\ Refused("200").code = "200"
    BY RefusedTyped DEF Codes
  <2>2. c.kind = "pushOff" => Ours' = None
    <3>1. ASSUME c.kind = "pushOff" PROVE Ours' = None
      <4>1. left' = left
        BY <3>1 DEF Renewed, Base, TypeOK
      <4>2. ~left => device = None \/ device = user
        BY <1>4 DEF Rested, Ours
      <4> QED BY <1>2, <1>3, <1>8, <3>1, <4>1, <4>2 DEF Ours
    <3> QED BY <3>1
  <2>3. calls' = [calls EXCEPT ![i].ans = Refused("200")]
    BY <1>2, <1>8 DEF Reply
  <2>4. c.kind = "pushOn" => Done("pushOn")'
    <3>1. /\ i \in DOMAIN calls' /\ calls'[i].kind = c.kind
          /\ calls'[i].ans = Refused("200")
      BY <1>1, <2>3 DEF Base, AllSound, Requests
    <3> QED BY <2>1, <3>1 DEF Done
  <2>5. Registered'
    <3>1. c.kind = "pushOn" => Ours' = user
      BY <1>2, <1>3, <1>8 DEF Renewed, Ours
    <3> QED BY <1>2, <2>2, <2>4, <3>1 DEF Registered, phone
  <2> QED BY <1>2, <1>5, <1>6, <1>8, <2>1, <2>2, <2>5, AnsweredOne
<1> QED BY <1>7, <1>8

\* Apple's code, whose answer nobody waits for.
LEMMA ServeAppleAwaited ==
  ASSUME Base, Awaited, NEW i \in DOMAIN calls, ServeApple(i), UNCHANGED left, UNCHANGED phone
  PROVE  Awaited'
<1>1. calls[i] \in Requests /\ InOrder(calls[i], user, Ours, muted, acct)
  BY OneSound DEF Base, Awaited
<1>2. calls[i].kind = "apple" /\ UNCHANGED <<identity, acct, Ours>>
  BY DEF ServeApple, Waiting, Ours
<1>3. PICK ans \in Answers : ans.code # "lost" /\ Reply(i, ans)
  BY <1>1, RefusedTyped DEF ServeApple, Codes
<1> DEFINE c == [calls[i] EXCEPT !.ans = ans]
<1>4. c.kind = "apple" /\ InOrder(c, user, Ours, muted, acct)
  BY <1>1, <1>2, <1>3 DEF Requests, InOrder, Bears, Carriers
<1>5. calls' = [calls EXCEPT ![i] = c]
  BY <1>3 DEF Reply
<1> HIDE DEF c
<1>6. DOMAIN calls' = DOMAIN calls /\ calls'[i] = c
      /\ \A j \in DOMAIN calls : j = i \/ calls'[j] = calls[j]
  BY <1>5 DEF Base, AllSound
<1>7. \A j \in DOMAIN calls' : InOrder(calls'[j], user', Ours', muted', acct')
  BY <1>2, <1>4, <1>6 DEF Awaited, phone
<1>8. OneAtATime(calls')
  BY <1>2, <1>4, <1>6 DEF Awaited, OneAtATime
<1>9. /\ \A kind : kind # "apple" /\ Done(kind) => Done(kind)'
      /\ Outstanding("pushOff") => Outstanding("pushOff")'
  BY <1>2, <1>4, <1>6 DEF Done, Outstanding
<1>10. Own' /\ Registered' /\ Hushed' /\ InRole' /\ InHalf'
  <2>1. (Done("pushOn") => Done("pushOn")') /\ (Done("switch") => Done("switch")')
    BY <1>9
  <2> QED BY <1>2, <1>9, <2>1 DEF Awaited, Own, Registered, Hushed, InRole, InHalf, phone
<1> QED BY <1>7, <1>8, <1>10 DEF Awaited

LEMMA ServeDeleteAwaited ==
  ASSUME Base, Awaited, NEW i \in DOMAIN calls, ServeDelete(i), UNCHANGED left, UNCHANGED phone
  PROVE  Awaited'
<1> DEFINE c == calls[i]
<1>1. c \in Requests /\ InOrder(c, user, Ours, muted, acct)
  BY OneSound DEF Base, Awaited
<1>2. /\ c.kind = "delete" /\ c.ans = Pending
      /\ IF Unknown(c) THEN Reply(i, Turned(c)) /\ UNCHANGED <<identity, acct, Ours>>
         ELSE /\ Reply(i, Refused("200"))
              /\ acct' = [acct EXCEPT ![c.who] = None]
              /\ identity' = [identity EXCEPT ![c.who] = "gone"]
              /\ device' = IF device = c.who THEN None ELSE device
  BY DEF ServeDelete, Waiting, server, Ours
<1>3. CASE Unknown(c)
  BY <1>1, <1>2, <1>3, RefusedTyped, RefusalAwaited
<1>4. CASE ~Unknown(c)
  <2>1. c.who \in Accounts /\ c.who = user
    BY <1>1, <1>2, <1>4, CallerKnown DEF InOrder
  <2>2. Rested
    BY <1>2, OnlyOne, RestedBefore
  <2>3. Refused("200") \in Answers
    BY RefusedTyped DEF Codes
  <2>4. acct'[user] = None /\ identity'[user] = "gone" /\ (Ours' # None => Ours' = Ours)
    BY <1>2, <1>4, <2>1 DEF Base, TypeOK, Ours
  <2>5. Registered' /\ InRole' /\ InHalf'
    BY <2>2, <2>4 DEF Rested, Registered, InRole, InHalf, Known, phone
  <2>6. InOrder([c EXCEPT !.ans = Refused("200")], user, Ours', muted, acct')
    <3>1. Refused("200").code = "200"
      BY RefusedTyped DEF Codes
    <3> QED BY <1>2, <2>3, <3>1, PlainInOrder DEF Carriers
  <2> QED BY <1>2, <1>4, <2>3, <2>5, <2>6, AnsweredOne
<1> QED BY <1>3, <1>4

LEMMA ServeAwaited == ASSUME Base, Awaited, Serve PROVE Awaited'
<1>1. PICK i \in DOMAIN calls :
        /\ \/ ServeLoad(i) \/ ServeReload(i) \/ ServeRegister(i) \/ ServeEdit(i)
           \/ ServeDevice(i) \/ ServeApple(i) \/ ServeDelete(i)
        /\ left' = (left /\ ~Renewed(i)) /\ UNCHANGED <<phone, orderly, presses>>
  BY DEF Serve
<1>2. CASE ServeDevice(i)
  BY <1>1, <1>2, ServeDeviceAwaited
<1>3. CASE ~ServeDevice(i)
  <2>1. calls[i].kind # "pushOn" /\ left \in BOOLEAN
    BY <1>1, <1>3 DEF ServeLoad, ServeReload, ServeRegister, ServeEdit, ServeApple, ServeDelete,
                      Waiting, Base, TypeOK
  <2>2. UNCHANGED left
    BY <1>1, <2>1 DEF Renewed
  <2> QED BY <1>1, <1>3, <2>2, ServeLoadAwaited, ServeReloadAwaited, ServeRegisterAwaited,
             ServeEditAwaited, ServeAppleAwaited, ServeDeleteAwaited
<1> QED BY <1>2, <1>3

LEMMA LoseAwaited == ASSUME Base, Awaited, Lose, orderly' PROVE Awaited'
<1>1. PICK i \in DOMAIN calls : /\ Reply(i, Lost) /\ calls[i].kind \in {"load", "reload"}
                                /\ UNCHANGED <<phone, identity, acct, device, left>>
  BY DEF Lose, server
<1>4. UNCHANGED <<phone, identity, acct, Ours>>
  BY <1>1 DEF Ours
<1>2. Lost \in Answers /\ Lost.code = "lost"
  BY DEF Lost, Answers, Codes
<1>3. InOrder([calls[i] EXCEPT !.ans = Lost], user, Ours, muted, acct)
  BY <1>1, <1>2, PlainInOrder
<1> QED BY <1>1, <1>2, <1>3, <1>4, AnsweredOnly

-----------------------------------------------------------------------------
(***************************************************************************)
(* Answers.                                                                *)
(***************************************************************************)

\* What the phone starts from when it takes an answer that is not Apple's, nor
\* about the push token or a switch of account type done.
LEMMA TakenFacts ==
  ASSUME Base, Awaited, NEW i \in DOMAIN calls, calls[i].kind # "apple"
  PROVE  /\ Idle(Rest(i)) /\ calls[i] \in Requests
         /\ InOrder(calls[i], user, Ours, muted, acct)
         /\ user \in Accounts \cup {None} /\ muted \in BOOLEAN
         /\ ~(calls[i].kind \in {"pushOn", "switch"} /\ calls[i].ans.code = "200") => Rested
         /\ calls[i].kind # "pushOff" => ~(muted /\ pushToken)
<1>1. Idle(Rest(i)) /\ calls[i] \in Requests /\ InOrder(calls[i], user, Ours, muted, acct)
  BY OnlyOne, OneSound DEF Base, Awaited
<1>2. user \in Accounts \cup {None} /\ muted \in BOOLEAN
  BY DEF Base, TypeOK
<1>3. ~(calls[i].kind \in {"pushOn", "switch"} /\ calls[i].ans.code = "200") => Rested
  BY OnlyOne, RestedBefore
<1>4. calls[i].kind # "pushOff" => ~(muted /\ pushToken)
  BY OnlyOne DEF Awaited, Hushed
<1> QED BY <1>1, <1>2, <1>3, <1>4

\* A profile that an answer brings is the signed-in account's, in its role.
LEMMA BodyOwn ==
  ASSUME Base, Awaited, NEW i \in DOMAIN calls, Bears(calls[i])
  PROVE  /\ user # None /\ calls[i].ans.body.owner = user
         /\ acct[user] # None /\ calls[i].ans.body.role = acct[user].role
<1>1. Sound(calls[i], identity, acct) /\ InOrder(calls[i], user, Ours, muted, acct)
  BY OneSound DEF Base, Awaited
<1> QED BY <1>1 DEF Sound, InOrder, Bears, Carriers

\* Setting it, or none, keeps a person who waits where they were.
LEMMA BecomeAwaited ==
  ASSUME Base, NEW cs, Idle(cs), Rested, ~(muted /\ pushToken), NEW new, NEW p,
         Become(new, p, cs), UNCHANGED <<route, user, pushToken, muted, identity, acct, Ours>>,
         p # None => p = profile \/ (/\ user # None /\ p.owner = user
                                     /\ acct[user] # None /\ p.role = acct[user].role)
  PROVE  Awaited'
<1>1. Lone(calls', user', muted')
  BY BecomeLone DEF Base, TypeOK
<1>2. profile' = p
  BY DEF Become
<1>3. Rested' /\ Hushed'
  BY <1>2 DEF Rested, Own, Hushed
<1> QED BY <1>1, <1>3, Settled

\* Changing nothing but the requests outstanding does too.
LEMMA CallsAwaited ==
  ASSUME Base, Lone(calls', user', muted'), Rested, ~(muted /\ pushToken),
         UNCHANGED <<profile, route, user, pushToken, muted, identity, acct, Ours>>
  PROVE  Awaited'
<1>1. Rested' /\ Hushed'
  BY DEF Rested, Own, Hushed
<1> QED BY <1>1, Settled

LEMMA ResolveAwaited ==
  ASSUME Base, NEW cs, Idle(cs), Rested, ~(muted /\ pushToken), NEW confirmed,
         NEW vouched \in BOOLEAN, Resolve(user, confirmed, vouched, cs),
         UNCHANGED <<route, user, pushToken, muted, identity, acct, Ours>>
  PROVE  Awaited'
<1>1. Lone(calls', user', muted')
  BY ResolveLone DEF Base, TypeOK
<1>2. profile' \in {None, profile}
  BY DEF Resolve, Become
<1>3. Rested' /\ Hushed'
  BY <1>2 DEF Rested, Own, Hushed
<1> QED BY <1>1, <1>3, Settled

LEMMA LoadAnsweredAwaited ==
  ASSUME Base, Awaited, NEW i \in DOMAIN calls, LoadAnswered(i), UNCHANGED <<server, left>>
  PROVE  Awaited'
<1> USE DEF server, Ours
<1> DEFINE c == calls[i]
           nap == [Call("nap", None, "none") EXCEPT !.n = c.n + 1]
<1>1. /\ c.kind = "load" /\ UNCHANGED <<route, user, pushToken, muted, identity, acct, Ours>>
  BY DEF LoadAnswered, Answered
<1>2. Idle(Rest(i)) /\ Rested /\ ~(muted /\ pushToken) /\ c.n \in Nat
  BY <1>1, TakenFacts DEF Requests
<1>3. CASE Got(i, "200")
           /\ Become(IF c.ans.body.terms THEN "ready" ELSE "needs-terms", c.ans.body, Rest(i))
  <2>1. Bears(c)
    BY <1>1, <1>3 DEF Bears, Carriers, Got
  <2> QED BY <1>1, <1>2, <1>3, <2>1, BodyOwn, BecomeAwaited
<1>4. CASE Become("needs-profile", None, Rest(i)) \/ GiveUp(i)
  BY <1>1, <1>2, <1>4, BecomeAwaited DEF GiveUp
<1>5. CASE /\ user # None /\ tokenOk' = (identity[user] = "verified")
           /\ calls' = [calls EXCEPT ![i] = Load(user, tokenOk', c.n, "again")]
           /\ UNCHANGED <<status, profile>>
  <2> DEFINE d == Load(user, tokenOk', c.n, "again")
  <2>1. tokenOk' \in BOOLEAN
    BY <1>5
  <2>2. d \in Requests
    BY <1>2, <2>1, LoadSound DEF Base, TypeOK
  <2>3. Fresh(d, user', muted') /\ d.kind # "apple"
    BY <1>1 DEF Load, Call, Fresh
  <2>4. calls' = [calls EXCEPT ![i] = d]
    BY <1>5
  <2> HIDE DEF d
  <2>5. Lone(calls', user', muted')
    BY <1>1, <2>2, <2>3, <2>4, PutLone
  <2> QED BY <1>1, <1>2, <1>5, <2>5, CallsAwaited
<1>6. CASE calls' = [calls EXCEPT ![i] = nap] /\ UNCHANGED <<status, profile>>
  <2> DEFINE next == c.n + 1
             blank == Call("nap", None, "none")
  <2>1. next \in Nat
    BY <1>2
  <2>2. blank \in Requests /\ blank.kind = "nap" /\ blank.ans = Pending /\ blank.arg = "none"
    BY CallSound DEF Kinds, Args, Call
  <2>3. nap = [blank EXCEPT !.n = next]
    OBVIOUS
  <2> HIDE DEF nap, next, blank
  <2>4. nap \in Requests /\ nap.kind = "nap" /\ nap.ans = Pending /\ nap.arg = "none"
    BY <2>1, <2>2, <2>3 DEF Requests
  <2>5. Fresh(nap, user', muted')
    BY <2>4 DEF Fresh
  <2>6. Lone(calls', user', muted')
    BY <1>1, <1>6, <2>4, <2>5, PutLone
  <2> QED BY <1>1, <1>2, <1>6, <2>6, CallsAwaited
<1> QED BY <1>3, <1>4, <1>5, <1>6 DEF LoadAnswered

LEMMA NextAttemptAwaited ==
  ASSUME Base, Awaited, NEW i \in DOMAIN calls, NextAttempt(i), UNCHANGED <<server, left>>
  PROVE  Awaited'
<1> DEFINE d == Load(user, tokenOk, calls[i].n, "first")
<1>1. /\ calls[i].kind = "nap" /\ calls' = [calls EXCEPT ![i] = d]
      /\ UNCHANGED <<profile, route, user, pushToken, muted, identity, acct, Ours>>
  BY DEF NextAttempt, phone, server, Ours
<1>2. Rested /\ ~(muted /\ pushToken) /\ calls[i].n \in Nat
  BY <1>1, TakenFacts DEF Requests
<1>3. d \in Requests
  BY <1>2, LoadSound DEF Base, TypeOK
<1>4. Fresh(d, user', muted') /\ d.kind # "apple"
  BY <1>1 DEF Load, Call, Fresh
<1> HIDE DEF d
<1>5. Lone(calls', user', muted')
  BY <1>1, <1>3, <1>4, PutLone
<1> QED BY <1>1, <1>2, <1>5, CallsAwaited

LEMMA ReloadAnsweredAwaited ==
  ASSUME Base, Awaited, NEW i \in DOMAIN calls,
         AuthRestored(i) \/ ReloadAnswered(i), UNCHANGED <<server, left>>
  PROVE  Awaited'
<1> USE DEF server, Ours
<1>1. /\ calls[i].kind \in {"boot", "reload"}
      /\ UNCHANGED <<route, user, pushToken, muted, identity, acct, Ours>>
  BY DEF AuthRestored, ReloadAnswered, Answered
<1>2. Idle(Rest(i)) /\ Rested /\ ~(muted /\ pushToken) /\ tokenOk \in BOOLEAN
  BY <1>1, TakenFacts DEF Base, TypeOK
<1>3. CASE calls' = Rest(i) /\ UNCHANGED <<status, profile>>
  BY <1>1, <1>2, <1>3, IdleLone, CallsAwaited
<1>4. CASE \E confirmed : \E vouched \in BOOLEAN : Resolve(user, confirmed, vouched, Rest(i))
  BY <1>1, <1>2, <1>4, ResolveAwaited
<1>5. ASSUME ReloadAnswered(i), user # None, emailOk' = (identity[user] = "verified"),
             tokenOk' = emailOk', Resolve(user, emailOk', tokenOk', Rest(i))
      PROVE  Awaited'
  <2>1. tokenOk' \in BOOLEAN
    BY <1>5
  <2> QED BY <1>4, <1>5, <2>1
<1>6. CASE AuthRestored(i)
  BY <1>2, <1>4, <1>6 DEF AuthRestored
<1>7. CASE ReloadAnswered(i)
  <2>1. CASE user = None
    BY <1>4, <1>7, <2>1 DEF ReloadAnswered
  <2>2. CASE user # None
    BY <1>3, <1>5, <1>7, <2>2 DEF ReloadAnswered
  <2> QED BY <2>1, <2>2
<1> QED BY <1>6, <1>7

LEMMA EntryAnsweredAwaited ==
  ASSUME Base, Awaited, NEW i \in DOMAIN calls, EntryAnswered(i), UNCHANGED <<server, left>>
  PROVE  Awaited'
<1> DEFINE c == calls[i]
           p == c.ans.body
<1>1. /\ c.kind \in {"register", "terms"}
      /\ UNCHANGED <<route, user, pushToken, muted, identity, acct, Ours>>
  BY DEF EntryAnswered, Answered, server, Ours
<1>2. Idle(Rest(i)) /\ Rested /\ ~(muted /\ pushToken)
  BY <1>1, TakenFacts
<1>3. CASE Got(i, "200")
  <2>1. Become(IF c.kind = "terms" \/ p.terms THEN "ready" ELSE "needs-terms", p, Rest(i))
    BY <1>3 DEF EntryAnswered
  <2>2. Bears(c)
    BY <1>1, <1>3 DEF Bears, Carriers, Got
  <2> QED BY <1>1, <1>2, <2>1, <2>2, BodyOwn, BecomeAwaited
<1>4. CASE ~Got(i, "200")
  <2>1. calls' = Rest(i) /\ UNCHANGED <<status, profile>>
    BY <1>4 DEF EntryAnswered
  <2> QED BY <1>1, <1>2, <2>1, IdleLone, CallsAwaited
<1> QED BY <1>3, <1>4

LEMMA EditAnsweredAwaited ==
  ASSUME Base, Awaited, NEW i \in DOMAIN calls, EditAnswered(i), UNCHANGED <<server, left>>
  PROVE  Awaited'
<1> DEFINE c == calls[i]
           p == c.ans.body
<1>1. /\ c.kind \in {"save", "switch"}
      /\ UNCHANGED <<user, pushToken, muted, identity, acct, Ours>>
  BY DEF EditAnswered, Answered, server, Ours
<1>2. Idle(Rest(i)) /\ ~(muted /\ pushToken)
  BY <1>1, TakenFacts
<1>3. CASE Got(i, "200")
  <2>1. Become(Standing(p), p, Rest(i)) /\ route' = Landing(c.kind, p)
    BY <1>3 DEF EditAnswered
  <2>2. Bears(c)
    BY <1>1, <1>3 DEF Bears, Carriers, Got
  <2>3. user # None /\ p.owner = user /\ acct[user] # None /\ p.role = acct[user].role
    BY <2>2, BodyOwn
  <2>4. CASE c.kind = "save"
    <3>1. route' = route
      BY <2>1, <2>4 DEF Landing
    <3>2. Rested
      BY <2>4, TakenFacts
    <3> QED BY <1>1, <1>2, <2>1, <2>3, <3>1, <3>2, BecomeAwaited
  <2>5. CASE c.kind = "switch"
    <3>1. route' = Area(acct[user].role)
      BY <2>1, <2>3, <2>5 DEF Landing
    <3>2. Lone(calls', user', muted')
      BY <1>1, <1>2, <2>1, BecomeLone DEF Base, TypeOK
    <3>3. ~Done("pushOn")
      BY <2>5, OnlyOne
    <3>4. profile' = p
      BY <2>1 DEF Become
    <3>5. Rested'
      BY <1>1, <2>3, <3>1, <3>3, <3>4 DEF Awaited, Registered, Rested, Own, Known
    <3>6. Hushed'
      BY <1>1, <1>2 DEF Hushed
    <3> QED BY <3>2, <3>5, <3>6, Settled
  <2> QED BY <1>1, <2>4, <2>5
<1>4. CASE ~Got(i, "200")
  <2>1. calls' = Rest(i) /\ UNCHANGED <<status, profile, route>>
    BY <1>4 DEF EditAnswered
  <2>2. Rested
    BY <1>1, <1>4, TakenFacts DEF Got
  <2> QED BY <1>1, <1>2, <2>1, <2>2, IdleLone, CallsAwaited
<1> QED BY <1>3, <1>4

LEMMA PushOnAnsweredAwaited ==
  ASSUME Base, Awaited, NEW i \in DOMAIN calls, PushOnAnswered(i), UNCHANGED <<server, left>>
  PROVE  Awaited'
<1> DEFINE c == calls[i]
<1>1. /\ c.kind = "pushOn" /\ c.ans # Pending /\ calls' = Rest(i)
      /\ pushToken' = IF c.arg = "stale" THEN pushToken ELSE Got(i, "200")
      /\ UNCHANGED <<profile, route, user, muted, identity, acct, Ours>>
  BY DEF PushOnAnswered, Answered, server, Ours
<1>2. Idle(Rest(i)) /\ InOrder(c, user, Ours, muted, acct)
  BY <1>1, TakenFacts
<1>3. /\ pushToken' = Got(i, "200") /\ ~muted
      /\ ~Got(i, "200") => Ours = None
  BY <1>1, <1>2 DEF InOrder, Got
<1>4. ~Done("switch")
  BY <1>1, OnlyOne
<1>5. Lone(calls', user', muted')
  BY <1>1, <1>2, IdleLone
<1>6. Rested' /\ Hushed'
  BY <1>1, <1>3, <1>4 DEF Awaited, Own, Registered, InRole, InHalf, Rested, Hushed
<1> QED BY <1>5, <1>6, Settled

LEMMA PushOffAnsweredAwaited ==
  ASSUME Base, Awaited, NEW i \in DOMAIN calls, PushOffAnswered(i), UNCHANGED <<server, left>>
  PROVE  Awaited'
<1> DEFINE c == calls[i]
<1>1. /\ c.kind = "pushOff" /\ c.ans # Pending
      /\ UNCHANGED <<route, muted, identity, acct, Ours>>
  BY DEF PushOffAnswered, Answered, server, Ours
<1>2. Idle(Rest(i)) /\ Ours = None /\ Rested
  BY <1>1, TakenFacts DEF InOrder
<1>3. CASE c.arg = "signOut"
  BY <1>1, <1>2, <1>3, DropAwaited DEF PushOffAnswered
<1>4. CASE c.arg # "signOut"
  <2>1. calls' = Rest(i) /\ pushToken' = FALSE /\ UNCHANGED <<profile, user>>
    BY <1>4 DEF PushOffAnswered
  <2>2. Lone(calls', user', muted')
    BY <1>2, <2>1, IdleLone
  <2>3. Rested' /\ Hushed'
    BY <1>1, <1>2, <2>1 DEF Rested, Own, Hushed
  <2> QED BY <2>2, <2>3, Settled
<1> QED BY <1>3, <1>4

LEMMA DeleteAnsweredAwaited ==
  ASSUME Base, Awaited, NEW i \in DOMAIN calls, DeleteAnswered(i), UNCHANGED <<server, left>>
  PROVE  Awaited'
<1>1. /\ calls[i].kind = "delete"
      /\ UNCHANGED <<route, muted, identity, acct, Ours>>
  BY DEF DeleteAnswered, Answered, server, Ours
<1>2. Idle(Rest(i)) /\ Rested /\ ~(muted /\ pushToken)
  BY <1>1, TakenFacts
<1>3. CASE Got(i, "200")
  BY <1>1, <1>2, <1>3, BeginSignOutAwaited DEF DeleteAnswered
<1>4. CASE ~Got(i, "200")
  <2>1. calls' = Rest(i) /\ UNCHANGED <<status, profile, user, pushToken>>
    BY <1>4 DEF DeleteAnswered
  <2> QED BY <1>1, <1>2, <2>1, IdleLone, CallsAwaited
<1> QED BY <1>3, <1>4

\* Apple's answer: everything else stays as it was.
LEMMA AppleAnsweredAwaited ==
  ASSUME Base, Awaited, NEW i \in DOMAIN calls, AppleAnswered(i), UNCHANGED <<server, left>>
  PROVE  Awaited'
<1>1. calls[i].kind = "apple" /\ calls' = RemoveAt(calls, i) /\ UNCHANGED <<phone, server>>
  BY DEF AppleAnswered, Answered, Rest
<1>2. calls \in Seq(Requests) /\ Len(calls) \in Nat /\ DOMAIN calls = 1 .. Len(calls)
  BY LenProperties DEF Base, AllSound
<1>3. /\ DOMAIN calls' = 1 .. (Len(calls) - 1)
      /\ \A j \in 1 .. (Len(calls) - 1) : calls'[j] = IF j < i THEN calls[j] ELSE calls[j + 1]
  BY <1>1, <1>2, RemovedAt
<1>4. /\ \A j \in DOMAIN calls' : \E k \in DOMAIN calls : k # i /\ calls'[j] = calls[k]
      /\ \A k \in DOMAIN calls \ {i} : \E j \in DOMAIN calls' : calls'[j] = calls[k]
  <2> DEFINE t == RemoveAt(calls, i)
  <2>1. /\ \A j \in DOMAIN t : \E k \in DOMAIN calls : k # i /\ t[j] = calls[k]
        /\ \A k \in DOMAIN calls \ {i} : \E j \in DOMAIN t : t[j] = calls[k]
    BY <1>2, Remaining
  <2>2. calls' = t
    BY <1>1
  <2> HIDE DEF t
  <2> QED BY <2>1, <2>2
<1>5. \A j \in DOMAIN calls' : InOrder(calls'[j], user', Ours', muted', acct')
  BY <1>1, <1>4 DEF Awaited, phone, server, Ours
<1>6. OneAtATime(calls')
  <2>1. ASSUME NEW j \in DOMAIN calls', NEW k \in DOMAIN calls', j < k,
               calls'[j].kind # "apple", calls'[k].kind # "apple"
        PROVE  FALSE
    <3>1. PICK m \in {j, j + 1} : m \in DOMAIN calls /\ calls'[j] = calls[m] /\ (m = j + 1 => j >= i)
      BY <1>2, <1>3
    <3>2. PICK n \in {k, k + 1} : n \in DOMAIN calls /\ calls'[k] = calls[n] /\ (n = k => k < i)
      BY <1>2, <1>3
    <3>3. m < n
      BY <1>2, <1>3, <2>1, <3>1, <3>2
    <3>4. m = n
      BY <2>1, <3>1, <3>2 DEF Awaited, OneAtATime
    <3> QED BY <1>2, <3>3, <3>4
  <2> QED BY <1>2, <1>3, <2>1 DEF OneAtATime
<1>7. /\ \A kind : kind # "apple" /\ Done(kind) => Done(kind)'
      /\ Outstanding("pushOff") => Outstanding("pushOff")'
  <2>1. \A k \in DOMAIN calls : calls[k].kind # "apple" =>
          \E j \in DOMAIN calls' : calls'[j] = calls[k]
    BY <1>1, <1>4
  <2> QED BY <2>1 DEF Done, Outstanding
<1>8. Own' /\ Registered' /\ Hushed' /\ InRole' /\ InHalf'
  <2>1. (Done("pushOn") => Done("pushOn")') /\ (Done("switch") => Done("switch")')
    BY <1>7
  <2> QED BY <1>1, <1>7, <2>1
          DEF Awaited, Own, Registered, Hushed, InRole, InHalf, phone, server, Ours
<1> QED BY <1>5, <1>6, <1>8 DEF Awaited

LEMMA ReceiveAwaited == ASSUME Base, Awaited, Receive PROVE Awaited'
<1>1. PICK i \in DOMAIN calls :
        /\ \/ AuthRestored(i) \/ LoadAnswered(i) \/ NextAttempt(i) \/ ReloadAnswered(i)
           \/ EntryAnswered(i) \/ EditAnswered(i) \/ PushOnAnswered(i)
           \/ PushOffAnswered(i) \/ AppleAnswered(i) \/ DeleteAnswered(i)
        /\ UNCHANGED <<server, orderly, left, presses>>
  BY DEF Receive
<1> QED BY <1>1, LoadAnsweredAwaited, NextAttemptAwaited, ReloadAnsweredAwaited,
           EntryAnsweredAwaited, EditAnsweredAwaited, PushOnAnsweredAwaited,
           PushOffAnsweredAwaited, AppleAnsweredAwaited, DeleteAnsweredAwaited

\* The gate lets nobody into the app but its account, into its half.
LEMMA GateAwaited == ASSUME Base, Awaited, Gate PROVE Awaited'
<1>1. /\ route \notin Fits(status) /\ route' = Home
      /\ UNCHANGED <<status, profile, user, pushToken, muted, calls, identity, acct, Ours>>
  BY DEF Gate, server, Ours
<1>2. InHalf'
  <2>1. CASE status = "ready"
    <3>1. profile \in Profiles /\ profile # None
      BY <2>1 DEF Base, TypeOK
    <3>2. user # None /\ profile.owner = user /\ Known(user, identity, acct)
      BY <3>1 DEF Awaited, Own, Base, Tables
    <3>3. route' = Area(profile.role)
      BY <1>1, <2>1, <3>1 DEF Home, Area, Profiles, Roles
    <3>4. acct[user] # None => Done("switch") \/ route' = Area(acct[user].role)
      BY <3>1, <3>3 DEF Awaited, InRole
    <3> QED BY <1>1, <3>2, <3>4 DEF InHalf, Done
  <2>2. CASE status # "ready"
    <3>1. Fits(status) \cap {"host", "guest"} = {} /\ \E r \in Fits(status) : TRUE
      BY <1>1, <2>2 DEF Fits, Base, TypeOK, Statuses, Routes
    <3>2. route' = CHOOSE r \in Fits(status) : TRUE
      BY <1>1, <2>2 DEF Home
    <3>3. route' \notin {"host", "guest"}
      BY <3>1, <3>2
    <3> QED BY <3>3 DEF InHalf
  <2> QED BY <2>1, <2>2
<1> QED BY <1>1, <1>2 DEF Awaited, Own, Registered, Hushed, InRole, Done, Outstanding

LEMMA InitAwaited == Init => Awaited
<1> SUFFICES ASSUME Init
             PROVE  Awaited
  OBVIOUS
<1> USE DEF Init
<1> DEFINE c == Call("boot", None, "none")
<1>1. c \in Requests
  BY CallSound DEF Kinds, Args
<1>2. InOrder(c, user, Ours, muted, acct)
  BY DEF Call, Pending, InOrder, Bears
<1>3. calls = <<c>> /\ Ours = None /\ profile = None /\ pushToken = FALSE /\ route = "index"
  BY DEF Ours
<1> HIDE DEF c
<1>4. OneAtATime(calls) /\ \A i \in DOMAIN calls : InOrder(calls[i], user, Ours, muted, acct)
  BY <1>1, <1>2, <1>3 DEF OneAtATime
<1> QED BY <1>3, <1>4 DEF Awaited, Own, Registered, Hushed, InRole, InHalf

LEMMA StepIInv == ASSUME IInv, [Next]_vars PROVE IInv'
<1>1. Base'
  BY StepBase DEF IInv
<1>2. ASSUME orderly'
      PROVE  Awaited'
  <2>1. CASE Person
    BY <1>2, <2>1, PersonAwaited
  <2>2. orderly \/ Person
    BY <1>2 DEF Next, Serve, Receive, Lose, Gate, ConfirmEmail, vars
  <2>3. CASE orderly /\ (Serve \/ Receive \/ Lose \/ Gate \/ \E a \in Accounts : ConfirmEmail(a))
    BY <1>2, <2>3, ServeAwaited, ReceiveAwaited, LoseAwaited, GateAwaited, ConfirmEmailAwaited
       DEF IInv
  <2>4. CASE orderly /\ UNCHANGED vars
    BY <2>4 DEF IInv, vars, phone, server, Ours, Awaited, OneAtATime, Own, Registered, Hushed,
                InRole, InHalf, Done, Outstanding
  <2> QED BY <2>1, <2>2, <2>3, <2>4 DEF Next
<1> QED BY <1>1, <1>2 DEF IInv

-----------------------------------------------------------------------------
(***************************************************************************)
(* Theorems.                                                               *)
(***************************************************************************)

\* No answer carries an acceptance the server does not have, whatever is
\* overtaken or lost; and for a person who waits one request is under way at
\* a time, it is the signed-in account's, a token registered by this launch is one the
\* app knows of, and the half of the app shown is that of the server's role.
THEOREM SessionInvariant == Spec => []IInv
<1>1. Init => IInv
  BY InitBase, InitAwaited DEF IInv
<1>2. IInv /\ [Next]_vars => IInv'
  BY StepIInv
<1> QED BY <1>1, <1>2, PTL DEF Spec

\* Every handler keeps every variable in its type, and nobody is let in, or
\* asked for the terms, without a profile.
THEOREM SessionTypeCorrect == Spec => []TypeOK
<1>1. IInv => TypeOK
  BY DEF IInv, Base
<1> QED BY <1>1, SessionInvariant, PTL

\* Nobody is let into the app, or shown it as another account type, before the
\* server has their acceptance of the terms in that role.
THEOREM EntryIsAccepted == Spec => EntersAccepted
<1>1. IInv /\ [Next]_vars => [Entering]_vars
  BY StepBase DEF IInv
<1>2. Spec => [][Entering]_vars
  BY <1>1, SessionInvariant, PTL DEF Spec
<1> QED BY <1>2 DEF EntersAccepted, Entering

\* Unless answers were overtaken, the account shown is the one signed in.
THEOREM OwnAccount == Spec => []AccountIsOwn
<1>1. IInv => AccountIsOwn
  BY DEF IInv, Base, TypeOK, Awaited, Own, AccountIsOwn
<1> QED BY <1>1, SessionInvariant, PTL

\* Signing out, deleting the account and muting leave no row of this launch
\* that would make this phone buzz, unless they were cut short.
THEOREM PhoneFallsSilent == Spec => []SilentPhone
<1>1. IInv => SilentPhone
  <2> SUFFICES ASSUME IInv, orderly, calls = <<>>, ~left
               PROVE  /\ user = None => device = None
                      /\ status = "ready" /\ muted => device # user
    BY DEF SilentPhone, Quiet
  <2>1. ~Done("pushOn") /\ ~Outstanding("pushOff")
    BY DEF Done, Outstanding
  <2> QED BY <2>1 DEF IInv, Base, TypeOK, Awaited, Own, Registered, Hushed, Ours
<1> QED BY <1>1, SessionInvariant, PTL

\* The answers of one person's edits, waited for one by one, leave the app in
\* the half that belongs to the server's role.
THEOREM OwnHalf == Spec => []InOwnHalf
<1>1. IInv => InOwnHalf
  <2> SUFFICES ASSUME IInv, orderly, calls = <<>>, status = "ready", user # None,
                      acct[user] # None, route \in Fits(status)
               PROVE  route = Area(acct[user].role)
    BY DEF InOwnHalf, Quiet
  <2>1. ~Done("switch") /\ route \in {"host", "guest"}
    BY DEF Done, Fits
  <2> QED BY <2>1 DEF IInv, Awaited, InHalf
<1> QED BY <1>1, SessionInvariant, PTL
=============================================================================
