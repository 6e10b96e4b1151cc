------------------------------ MODULE Session ------------------------------
(***************************************************************************)
(* Who is signed in on one phone (src/mobile/src/context/AuthContext.tsx), *)
(* the router that turns that status into a screen                         *)
(* (src/mobile/app/_layout.tsx), the screens that can change it, and the   *)
(* rows the API keeps about the account and about this phone's push token. *)
(*                                                                         *)
(* Every request is a record of `calls', in the order the phone sent them. *)
(* The server may serve them, and the phone may learn of it, in any order; *)
(* a request or its answer may be lost.  Between two awaits JavaScript     *)
(* runs alone, so each handler is one action per stretch between awaits.   *)
(***************************************************************************)
EXTENDS Naturals, SequencesExt

CONSTANTS
    Accounts,   \* the people who may sign in on this phone
    AppleIds,   \* those of them who use Sign in with Apple
    Retries,    \* attempts after the first (three delays in the code)
    MaxCalls,   \* bound: requests outstanding before the person stops pressing
    MaxPresses, \* bound: presses after a launch
    None        \* null

ASSUME SessionAssumption ==
    /\ AppleIds \subseteq Accounts
    /\ Retries \in Nat
    /\ MaxCalls \in Nat \ {0} /\ MaxPresses \in Nat
    /\ None \notin Accounts

Roles == {"organizer", "recipient"}

Statuses == {"loading", "signed-out", "unverified", "needs-profile",
             "needs-terms", "profile-unavailable", "ready"}

\* Screens, up to what the gate tells apart; "host" and "guest" are the two
\* halves of the (app) group, /posts and /feed with what is pushed on them.
Routes == {"index", "entry", "verify", "role", "problem", "terms",
           "host", "guest"}

Profiles == [owner: Accounts, role: Roles, terms: BOOLEAN]
AccountRows == [role: Roles, accepted: SUBSET Roles]

ASSUME NullAssumption == None \notin Profiles \cup AccountRows

VARIABLES
    \* the phone: AuthContext's state, the router, Firebase's current user
    status, profile, route, user, emailOk, tokenOk, pushToken, muted,
    \* requests outstanding
    calls,
    \* Firebase and the API: sign-in identities, accounts, the row of this
    \* phone's push token, the Apple accounts with no authorisation left to store
    identity, acct, device, attached,
    \* history: nothing was pressed over an unanswered call or cut short; the
    \* row of the push token is one that an earlier launch left; the number of
    \* presses
    orderly, left, presses

phone == <<status, profile, route, user, emailOk, tokenOk, pushToken, muted>>
server == <<identity, acct, device, attached>>
vars == <<phone, calls, server, orderly, left, presses>>

Pending == [code |-> "pending", body |-> None]
Lost    == [code |-> "lost", body |-> None]
Refused(code) == [code |-> code, body |-> None]

\* A request with the bearer token of `who' (api.ts: currentBearerToken).
Call(kind, who, arg) ==
    [kind |-> kind, who |-> who, arg |-> arg, n |-> 0, vouched |-> TRUE,
     ans |-> Pending]

\* The nth attempt at GET /users/me, "first" while the one retry with a fresh
\* token is still to be had; `vouched' if the token says the address is
\* confirmed.
Load(who, vouched, n, arg) ==
    [Call("load", who, arg) EXCEPT !.n = n, !.vouched = vouched]

Outstanding(kind) == \E i \in DOMAIN calls : calls[i].kind = kind

\* The push effect of AuthContext: entering "ready" registers the phone,
\* unless it is muted; leaving it makes a registration under way stale.
PushEffect(cs, new, who) ==
    CASE new = "ready" /\ status # "ready" /\ ~muted ->
            Append(cs, Call("pushOn", who, "effect"))
      [] new # "ready" /\ status = "ready" ->
            [i \in DOMAIN cs |->
                IF cs[i].kind = "pushOn" /\ cs[i].arg = "effect"
                THEN [cs[i] EXCEPT !.arg = "stale"] ELSE cs[i]]
      [] OTHER -> cs

\* setProfile and setStatus together, with the effect that watches status.
Become(new, p, cs) ==
    /\ status' = new
    /\ profile' = p
    /\ calls' = PushEffect(cs, new, user')

\* resolve(): from a Firebase user to a status, or to a fetch of the profile.
Resolve(u, confirmed, vouched, cs) ==
    \/ u = None /\ Become("signed-out", None, cs)
    \/ u # None /\ ~confirmed /\ Become("unverified", None, cs)
    \/ u # None /\ confirmed
       /\ Become("loading", profile, Append(cs, Load(u, vouched, 0, "first")))

\* A launch.  Firebase's session and the preference survive the process, and
\* the last process may have been killed anywhere: between confirming the
\* address and minting a new token, after registering the phone for pushes,
\* with the account created or switched and the terms not accepted.
Init ==
    /\ status = "loading" /\ profile = None /\ route = "index"
    /\ pushToken = FALSE /\ muted \in BOOLEAN
    /\ identity \in [Accounts -> {"none", "verified"}]
    /\ acct \in [Accounts -> [role: Roles, accepted: {{"recipient"}}] \cup {None}]
    /\ \A a \in Accounts : identity[a] = "none" => acct[a] = None
    /\ user \in {a \in Accounts : identity[a] = "verified"} \cup {None}
    /\ emailOk = (user # None) /\ tokenOk \in BOOLEAN /\ (tokenOk => emailOk)
    /\ device \in {user, None} /\ (device # None => acct[device] # None)
    /\ attached = {a \in AppleIds : identity[a] = "verified"}
    /\ calls = <<Call("boot", None, "none")>>
    /\ orderly = TRUE /\ left = (device # None) /\ presses = 0

-----------------------------------------------------------------------------
(* What the person does.                                                   *)

\* A press: the person may not have waited for what they pressed before.
Press ==
    /\ Len(calls) < MaxCalls /\ presses < MaxPresses
    /\ presses' = presses + 1
    /\ orderly' = (orderly /\ calls = <<>>) /\ UNCHANGED left

\* The screen shown: the gate replaces every screen by the splash while
\* status is "loading".
On(screens) == status # "loading" /\ route \in screens

\* AuthScreen, register: a Firebase identity, its address not confirmed.
Register(a) ==
    /\ Press /\ On({"entry"}) /\ user = None
    /\ a \notin AppleIds /\ identity[a] = "none"
    /\ identity' = [identity EXCEPT ![a] = "unverified"]
    /\ user' = a /\ emailOk' = FALSE /\ tokenOk' = FALSE
    /\ Resolve(a, FALSE, FALSE, calls)
    /\ UNCHANGED <<route, pushToken, muted, acct, device, attached>>

\* AuthScreen, sign in: with a password.
SignIn(a) ==
    /\ Press /\ On({"entry"}) /\ user = None
    /\ a \notin AppleIds /\ identity[a] \notin {"none", "gone"}
    /\ user' = a
    /\ emailOk' = (identity[a] = "verified") /\ tokenOk' = emailOk'
    /\ Resolve(a, emailOk', tokenOk', calls)
    /\ UNCHANGED <<route, pushToken, muted, server>>

\* GoogleSignInButton: makes the identity if there is none; Google has
\* confirmed the address.
GoogleSignIn(a) ==
    /\ Press /\ On({"entry"}) /\ user = None
    /\ a \notin AppleIds /\ identity[a] # "gone"
    /\ identity' = [identity EXCEPT ![a] = "verified"]
    /\ user' = a /\ emailOk' = TRUE /\ tokenOk' = TRUE
    /\ Resolve(a, TRUE, TRUE, calls)
    /\ UNCHANGED <<route, pushToken, muted, acct, device, attached>>

\* AppleSignInButton: sign in, hold the one-shot code, flush it.  No await
\* separates the two, so nothing is held once the button's handler yields,
\* and the flush of the role screen finds nothing to send.
AppleSignIn(a) ==
    /\ Press /\ On({"entry"}) /\ user = None
    /\ a \in AppleIds /\ identity[a] # "gone"
    /\ identity' = [identity EXCEPT ![a] = "verified"]
    /\ user' = a /\ emailOk' = TRUE /\ tokenOk' = TRUE
    /\ Resolve(a, TRUE, TRUE, Append(calls, Call("apple", a, "none")))
    /\ UNCHANGED <<route, pushToken, muted, acct, device, attached>>

\* The link in the mail, opened elsewhere.
ConfirmEmail(a) ==
    /\ identity[a] = "unverified"
    /\ identity' = [identity EXCEPT ![a] = "verified"]
    /\ UNCHANGED <<phone, calls, acct, device, attached, orderly, left, presses>>

\* "I've verified -- continue" and "Try again": refresh().
Refresh ==
    /\ Press /\ On({"verify", "problem"}) /\ ~Outstanding("reload")
    /\ UNCHANGED <<route, user, emailOk, tokenOk, pushToken, muted, server>>
    /\ IF user = None
       THEN Resolve(None, FALSE, FALSE, calls)
       ELSE /\ calls' = Append(calls, Call("reload", user, "none"))
            /\ UNCHANGED <<status, profile>>

\* Mutant: the profile outlives the session.
DropSessionKeepsProfile(cs) ==
    /\ user' = None /\ emailOk' = FALSE /\ tokenOk' = FALSE
    /\ pushToken' = FALSE
    /\ Become("signed-out", profile, cs)

\* Mutant: the profile goes and the status stays.
DropSessionKeepsStatus(cs) ==
    /\ user' = None /\ emailOk' = FALSE /\ tokenOk' = FALSE
    /\ pushToken' = FALSE
    /\ Become(status, None, cs)

\* The end of signOut(): Firebase forgets the user and tells its observer.
DropSession(cs) ==
    /\ user' = None /\ emailOk' = FALSE /\ tokenOk' = FALSE
    /\ pushToken' = FALSE
    /\ Become("signed-out", None, cs)

\* Mutant: the token is not handed back.
BeginSignOutAtOnce(cs) == DropSession(cs)

\* signOut(): hand the token back first, if the app holds one.
BeginSignOut(cs) ==
    IF pushToken
    THEN /\ calls' = Append(cs, Call("pushOff", user, "signOut"))
         /\ UNCHANGED <<status, profile, user, emailOk, tokenOk, pushToken>>
    ELSE DropSession(cs)

SignOut ==
    /\ Press /\ On({"verify", "role", "problem", "terms", "host", "guest"})
    /\ ~Outstanding("pushOff")
    /\ BeginSignOut(calls)
    /\ UNCHANGED <<route, muted, server>>

\* The buttons that send one request and act on its answer: Continue on the
\* role screen, Accept, Save, Switch account type and Delete account.
Screens == [register |-> {"role"}, terms |-> {"terms"}, save |-> {"host", "guest"},
            switch |-> {"host", "guest"}, delete |-> {"host", "guest"}]

Submit(kind, arg) ==
    /\ Press /\ On(Screens[kind]) /\ ~Outstanding(kind)
    /\ kind = "switch" => profile # None /\ arg # profile.role
    /\ calls' = Append(calls, Call(kind, user, arg))
    /\ UNCHANGED <<phone, server>>

\* Settings' mute switch: the preference first, then the token.
ToggleMute ==
    /\ Press /\ On({"host", "guest"})
    /\ muted' = ~muted
    /\ IF muted
       THEN calls' = Append(calls, Call("pushOn", user, "toggle")) /\ UNCHANGED pushToken
       ELSE IF pushToken
            THEN calls' = Append(calls, Call("pushOff", user, "mute")) /\ UNCHANGED pushToken
            ELSE pushToken' = FALSE /\ UNCHANGED calls
    /\ UNCHANGED <<status, profile, route, user, emailOk, tokenOk, server>>

-----------------------------------------------------------------------------
(* What the API does with a request, when it gets to it (src/api/routers/  *)
(* users.py and devices.py).                                               *)

\* UserProfile: terms_current asks for acceptance in the account's own role.
Snapshot(a, as) ==
    [code |-> "200", body |-> [owner |-> a, role |-> as[a].role,
                               terms |-> as[a].role \in as[a].accepted]]

Waiting(i, kind) == calls[i].kind = kind /\ calls[i].ans = Pending

Reply(i, ans) == calls' = [calls EXCEPT ![i].ans = ans]

\* Callers the API turns away: 401 without a token or with that of a deleted
\* identity, 404 without a profile.
Stranger(c) == c.who = None \/ identity[c.who] = "gone"
Unknown(c) == Stranger(c) \/ acct[c.who] = None
Turned(c) == Refused(IF Stranger(c) THEN "401" ELSE "404")

\* GET /users/me.  A token minted before the address was confirmed is refused.
ServeLoad(i) ==
    /\ Waiting(i, "load")
    /\ LET c == calls[i] IN
       Reply(i, CASE ~Stranger(c) /\ ~c.vouched -> Refused("403")
                  [] Unknown(c) /\ (Stranger(c) \/ c.vouched) -> Turned(c)
                  [] OTHER -> Snapshot(c.who, acct))
    /\ UNCHANGED server

\* Firebase: reload() and getIdToken(true).
ServeReload(i) ==
    /\ Waiting(i, "reload")
    /\ Reply(i, Refused("200"))
    /\ UNCHANGED server

\* POST /users/me: 409 when the account has a profile already.
ServeRegister(i) ==
    /\ Waiting(i, "register")
    /\ LET c == calls[i]
           new == [acct EXCEPT ![c.who] = [role |-> c.arg, accepted |-> {}]]
       IN  CASE Stranger(c) -> Reply(i, Refused("401")) /\ UNCHANGED acct
             [] ~Unknown(c) -> Reply(i, Refused("409")) /\ UNCHANGED acct
             [] OTHER -> acct' = new /\ Reply(i, Snapshot(c.who, new))
    /\ UNCHANGED <<identity, device, attached>>

\* POST /users/me/terms, PATCH /users/me and POST /users/me/role, which the
\* server refuses while food is in flight.
ServeEdit(i) ==
    /\ \E kind \in {"terms", "save", "switch"} : Waiting(i, kind)
    /\ LET c == calls[i]
           mine == acct[c.who]
           Put(row) == LET new == [acct EXCEPT ![c.who] = row]
                       IN acct' = new /\ Reply(i, Snapshot(c.who, new))
       IN  IF Unknown(c) THEN Reply(i, Turned(c)) /\ UNCHANGED acct
           ELSE \/ c.kind = "terms"
                   /\ Put([mine EXCEPT !.accepted = @ \cup {mine.role}])
                \/ c.kind = "save" /\ Put(mine)
                \/ c.kind = "switch" /\ Put([mine EXCEPT !.role = c.arg])
                \/ c.kind = "switch" /\ Reply(i, Refused("409")) /\ UNCHANGED acct
    /\ UNCHANGED <<identity, device, attached>>

\* POST /devices moves the token to the caller; DELETE /devices takes only
\* the caller's own.
ServeDevice(i) ==
    /\ Waiting(i, "pushOn") \/ Waiting(i, "pushOff")
    /\ LET c == calls[i] IN
       IF Unknown(c) THEN Reply(i, Turned(c)) /\ UNCHANGED device
       ELSE /\ Reply(i, Refused("200"))
            /\ device' = IF c.kind = "pushOn" THEN c.who
                         ELSE IF device = c.who THEN None ELSE device
    /\ UNCHANGED <<identity, acct, attached>>

\* POST /users/me/apple-authorization.
ServeApple(i) ==
    /\ Waiting(i, "apple")
    /\ IF Unknown(calls[i]) THEN Reply(i, Turned(calls[i])) /\ UNCHANGED attached
       ELSE Reply(i, Refused("200")) /\ attached' = attached \cup {calls[i].who}
    /\ UNCHANGED <<identity, acct, device>>

\* DELETE /users/me: the account with its device rows, then the identity.
ServeDelete(i) ==
    /\ Waiting(i, "delete")
    /\ LET c == calls[i] IN
       IF Unknown(c) THEN Reply(i, Turned(c)) /\ UNCHANGED server
       ELSE /\ Reply(i, Refused("200"))
            /\ acct' = [acct EXCEPT ![c.who] = None]
            /\ identity' = [identity EXCEPT ![c.who] = "gone"]
            /\ device' = IF device = c.who THEN None ELSE device
            /\ attached' = attached \ {c.who}

\* A registration makes the row one of this launch.
Renewed(i) == calls[i].kind = "pushOn" /\ device' = calls[i].who

Serve == \E i \in DOMAIN calls :
    /\ \/ ServeLoad(i) \/ ServeReload(i) \/ ServeRegister(i) \/ ServeEdit(i)
       \/ ServeDevice(i) \/ ServeApple(i) \/ ServeDelete(i)
    /\ left' = (left /\ ~Renewed(i))
    /\ UNCHANGED <<phone, orderly, presses>>

\* The request or its answer is lost; the phone gives up on it.
Lose == \E i \in DOMAIN calls :
    /\ calls[i].kind \notin {"boot", "nap"} /\ calls[i].ans # Lost
    /\ Reply(i, Lost)
    /\ orderly' = (orderly /\ calls[i].kind \in {"load", "reload"})
    /\ UNCHANGED <<phone, server, left, presses>>

-----------------------------------------------------------------------------
(* What the phone does with an answer.                                     *)

Answered(i, kind) == calls[i].kind = kind /\ calls[i].ans # Pending
Got(i, code) == calls[i].ans.code = code
Rest(i) == RemoveAt(calls, i)

\* Firebase restores the session from storage and calls its observer.
AuthRestored(i) ==
    /\ calls[i].kind = "boot"
    /\ UNCHANGED <<route, user, emailOk, tokenOk, pushToken, muted>>
    /\ Resolve(user, emailOk, tokenOk, Rest(i))

\* Mutant: the last attempt fails and nobody is told.
GiveUpSilently(i) == calls' = Rest(i) /\ UNCHANGED <<status, profile>>

GiveUp(i) == Become("profile-unavailable", None, Rest(i))

\* resolveProfile(): an answer, a pause before the next attempt, or the end
\* of the attempts.  Only a 404 means there is no profile.
LoadAnswered(i) ==
    /\ Answered(i, "load")
    /\ UNCHANGED <<route, user, emailOk, pushToken, muted>>
    /\ LET c == calls[i]
           Fail == IF c.n < Retries
                   THEN /\ calls' = [calls EXCEPT ![i] =
                                        [Call("nap", None, "none") EXCEPT !.n = c.n + 1]]
                        /\ UNCHANGED <<status, profile>>
                   ELSE GiveUp(i)
       IN  \/ /\ Got(i, "200") /\ UNCHANGED tokenOk
              /\ Become(IF c.ans.body.terms THEN "ready" ELSE "needs-terms",
                        c.ans.body, Rest(i))
           \/ /\ Got(i, "404") /\ UNCHANGED tokenOk
              /\ Become("needs-profile", None, Rest(i))
           \/ \* request(): a refusal of a stale token is retried once with a
              \* fresh one
              /\ Got(i, "403") /\ c.arg = "first" /\ user # None
              /\ tokenOk' = (identity[user] = "verified")
              /\ calls' = [calls EXCEPT ![i] = Load(user, tokenOk', c.n, "again")]
              /\ UNCHANGED <<status, profile>>
           \/ /\ Got(i, "401") \/ Got(i, "403") \/ Got(i, "lost")
              /\ UNCHANGED tokenOk
              /\ Fail

\* The pause is over: the next attempt, with whatever token there is now.
NextAttempt(i) ==
    /\ calls[i].kind = "nap"
    /\ calls' = [calls EXCEPT ![i] = Load(user, tokenOk, calls[i].n, "first")]
    /\ UNCHANGED phone

\* reloadUser() answers with whoever is the current user by then.  The user
\* object may have been reloaded although no new token came of it.
ReloadAnswered(i) ==
    /\ Answered(i, "reload")
    /\ UNCHANGED <<route, user, pushToken, muted>>
    /\ IF user = None
       THEN UNCHANGED <<emailOk, tokenOk>> /\ Resolve(None, FALSE, FALSE, Rest(i))
       ELSE \/ /\ Got(i, "200")
               /\ emailOk' = (identity[user] = "verified") /\ tokenOk' = emailOk'
               /\ Resolve(user, emailOk', tokenOk', Rest(i))
            \/ /\ Got(i, "lost")
               /\ emailOk' \in {emailOk, identity[user] = "verified"}
               /\ calls' = Rest(i)
               /\ UNCHANGED <<status, profile, tokenOk>>

\* completeProfile() and completeTerms(): an error stays on the screen.
EntryAnswered(i) ==
    /\ Answered(i, "register") \/ Answered(i, "terms")
    /\ UNCHANGED <<route, user, emailOk, tokenOk, pushToken, muted>>
    /\ IF Got(i, "200")
       THEN LET p == calls[i].ans.body IN
            Become(IF calls[i].kind = "terms" \/ p.terms THEN "ready" ELSE "needs-terms",
                   p, Rest(i))
       ELSE calls' = Rest(i) /\ UNCHANGED <<status, profile>>

Area(role) == IF role = "organizer" THEN "host" ELSE "guest"

\* Mutant: an edited profile leaves the status as it was.
StandingKept(p) == status

\* applyProfile(): accepting the terms is asked for again if the edit made
\* another acceptance necessary.
Standing(p) ==
    IF status \in {"ready", "needs-terms"}
    THEN IF p.terms THEN "ready" ELSE "needs-terms"
    ELSE status

\* Mutant: the router stays where it is.
LandingHere(kind, p) == route

\* A switch of account type moves to the other role's home.
Landing(kind, p) == IF kind = "switch" THEN Area(p.role) ELSE route

\* After Save and after a switch of account type.
EditAnswered(i) ==
    /\ Answered(i, "save") \/ Answered(i, "switch")
    /\ UNCHANGED <<user, emailOk, tokenOk, pushToken, muted>>
    /\ IF Got(i, "200")
       THEN LET p == calls[i].ans.body IN
            /\ Become(Standing(p), p, Rest(i))
            /\ route' = Landing(calls[i].kind, p)
       ELSE calls' = Rest(i) /\ UNCHANGED <<status, profile, route>>

\* registerForPush() returns.  A registration the effect gave up on is not
\* remembered; one the switch asked for is.
PushOnAnswered(i) ==
    /\ Answered(i, "pushOn")
    /\ calls' = Rest(i)
    /\ pushToken' = IF calls[i].arg = "stale" THEN pushToken ELSE Got(i, "200")
    /\ UNCHANGED <<status, profile, route, user, emailOk, tokenOk, muted>>

\* unregisterForPush() returns, whatever came of it.
PushOffAnswered(i) ==
    /\ Answered(i, "pushOff")
    /\ UNCHANGED <<route, muted>>
    /\ IF calls[i].arg = "signOut" THEN DropSession(Rest(i))
       ELSE /\ calls' = Rest(i) /\ pushToken' = FALSE
            /\ UNCHANGED <<status, profile, user, emailOk, tokenOk>>

AppleAnswered(i) == Answered(i, "apple") /\ calls' = Rest(i) /\ UNCHANGED phone

\* confirmDelete(): nothing left to be signed in to.
DeleteAnswered(i) ==
    /\ Answered(i, "delete")
    /\ UNCHANGED <<route, muted>>
    /\ IF Got(i, "200") THEN BeginSignOut(Rest(i))
       ELSE calls' = Rest(i) /\ UNCHANGED <<status, profile, user, emailOk, tokenOk, pushToken>>

Receive == \E i \in DOMAIN calls :
    /\ \/ AuthRestored(i) \/ LoadAnswered(i) \/ NextAttempt(i) \/ ReloadAnswered(i)
       \/ EntryAnswered(i) \/ EditAnswered(i) \/ PushOnAnswered(i)
       \/ PushOffAnswered(i) \/ AppleAnswered(i) \/ DeleteAnswered(i)
    /\ UNCHANGED <<server, orderly, left, presses>>

-----------------------------------------------------------------------------
(* The gate.                                                               *)

Fits(s) ==
    CASE s = "signed-out" -> {"entry"}
      [] s = "unverified" -> {"verify"}
      [] s = "needs-profile" -> {"role"}
      [] s = "profile-unavailable" -> {"problem"}
      [] s = "needs-terms" -> {"terms"}
      [] s = "ready" -> {"host", "guest"}
      [] OTHER -> Routes

Home == IF status = "ready"
        THEN IF profile # None /\ profile.role = "organizer" THEN "host" ELSE "guest"
        ELSE CHOOSE r \in Fits(status) : TRUE

Gate ==
    /\ route \notin Fits(status)
    /\ route' = Home
    /\ UNCHANGED <<status, profile, user, emailOk, tokenOk, pushToken, muted,
                   calls, server, orderly, left, presses>>

Person ==
    \/ \E a \in Accounts : Register(a) \/ SignIn(a) \/ GoogleSignIn(a) \/ AppleSignIn(a)
    \/ Refresh \/ SignOut \/ ToggleMute
    \/ \E role \in Roles : Submit("register", role) \/ Submit("switch", role)
    \/ \E kind \in {"terms", "save", "delete"} : Submit(kind, "none")

Next ==
    \/ Person \/ Serve \/ Receive \/ Lose \/ Gate
    \/ \E a \in Accounts : ConfirmEmail(a)

\* Every request comes to an end, every answer is delivered and effects run.
Spec == Init /\ [][Next]_vars
FairSpec == Spec /\ WF_vars(Serve) /\ WF_vars(Receive) /\ WF_vars(Gate)

-----------------------------------------------------------------------------
TypeOK ==
    /\ status \in Statuses /\ route \in Routes
    /\ profile \in Profiles \cup {None}
    /\ user \in Accounts \cup {None}
    /\ {emailOk, tokenOk, pushToken, muted, orderly, left} \subseteq BOOLEAN
    /\ identity \in [Accounts -> {"none", "unverified", "verified", "gone"}]
    /\ acct \in [Accounts -> AccountRows \cup {None}]
    /\ device \in Accounts \cup {None} /\ attached \subseteq Accounts
    /\ status \in {"ready", "needs-terms"} => profile # None

\* Nobody is let into the app, or shown it as another account type, before the
\* server has their acceptance of the terms in that role: not by a stale
\* answer, a second account on the phone, a switch of account type or a restart.
EntersAccepted ==
    [][status' = "ready" /\ <<status, profile>>' # <<status, profile>>
         => acct[profile'.owner] = None
            \/ profile'.role \in acct[profile'.owner].accepted]_vars

Quiet == orderly /\ calls = <<>>

\* Unless answers were overtaken, the account shown is the one signed in, and
\* the app is signed out exactly when Firebase is.
AccountIsOwn ==
    orderly => /\ profile # None /\ user # None => profile.owner = user
               /\ status \in {"ready", "needs-terms"} => user # None

\* Unless it was cut short, signing out, deleting the account and muting leave
\* no row of this launch that would make this phone buzz.  One that an earlier
\* launch left is out of their reach until this one has registered: the token
\* is not held before, and signing out from the screens that come before the
\* app leaves the row (src/mobile/src/context/AuthContext.tsx:264-272).
SilentPhone ==
    Quiet /\ ~left => /\ user = None => device = None
                      /\ status = "ready" /\ muted => device # user

\* The answers of one person's edits, waited for one by one, leave the app in
\* the half that belongs to the server's role.
InOwnHalf ==
    Quiet /\ status = "ready" /\ user # None /\ acct[user] # None /\ route \in Fits(status)
        => route = Area(acct[user].role)

\* The splash ends and the gate comes to rest, whatever is lost or refused.
AlwaysSettles == []<>(status # "loading" /\ route \in Fits(status))

\* "Held rather than sent: a brand new account has no profile ... and role
\* selection flushes it after registering"
\* (src/mobile/src/components/AppleSignInButton.tsx:60-62): who got in without
\* losing a request has their authorisation stored.
AppleCodeArrives ==
    calls = <<>> /\ orderly /\ status = "ready" /\ user \in AppleIds => user \in attached
=============================================================================
