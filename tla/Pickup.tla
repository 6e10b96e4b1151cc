------------------------------- MODULE Pickup -------------------------------
(***************************************************************************)
(* Reserving food and collecting it, from the recipient's phone: the       *)
(* listing screen (src/mobile/app/(app)/listing/[id].tsx), the claims      *)
(* screen (src/mobile/src/screens/MyClaims.tsx), and the API's rows, which *)
(* other recipients, the host and the sweep change meanwhile.              *)
(***************************************************************************)
EXTENDS Integers, SequencesExt

CONSTANTS
    Posts,
    Portions,   \* posted of each
    MaxQty,     \* the stepper's ceiling
    MaxCalls,   \* bound: requests outstanding
    MaxPresses, \* bound: what the person sends off
    MaxEvents,  \* bound: what other people, the clock and the network do
    None        \* null

ASSUME PickupAssumption ==
    /\ {Portions, MaxQty, MaxCalls} \subseteq Nat \ {0}
    /\ {MaxPresses, MaxEvents} \subseteq Nat
    /\ None \notin Posts

ClaimStatus == {"none", "pending", "picked_up", "no_show", "cancelled"}

\* A listing as fetched, and the state of the screen that shows it.
Shown == [left: 0..Portions, open: BOOLEAN]
Detail == [post: Posts, seen: Shown \cup {None}, error: BOOLEAN, claiming: BOOLEAN,
           claimed: BOOLEAN, claimError: BOOLEAN, qty: 1..MaxQty]

ASSUME NullAssumption == None \notin Detail

VARIABLES
    \* the screen in front, and the listing screen's state (None: not mounted)
    screen, detail,
    \* the claims screen, which stays mounted once visited
    mounted, rows, loading, refreshing, busy, handled,
    \* requests outstanding, in the order sent; a push on its way
    calls, pushed,
    \* the API: portions left, my claim on each post, the claims I have rated,
    \* all as last written; what of each post is committed, which is what every
    \* GET reads; hold: 0 running, 1 over, 2 over by more than the grace period
    left, claim, rated, stored, hold,
    \* history: the rows were overtaken, or missed a change nobody told them
    \* about; they were read before the change they were sent for was
    \* committed; reloads for a lapsed hold; the bounded events so far
    astray, early, asked, presses, events

mine == <<mounted, rows, loading, refreshing, busy, handled>>
written == <<left, claim, rated>>
server == <<written, stored, hold>>
history == <<astray, early>>
bounds == <<presses, events>>
vars == <<screen, detail, mine, calls, pushed, server, history, asked, bounds>>

NoClaim == [status |-> "none", qty |-> 0]
NoRow == [status |-> "none", rated |-> FALSE]

\* A post and my claim on it as its last transaction wrote them.  The session
\* commits after the answer and its background tasks (db.session_dependency).
Written(p) == [left |-> left[p], claim |-> claim[p], rated |-> p \in rated]
Unsaved == {p \in Posts : stored[p] # Written(p)}

\* What the two GETs show: the post, and every claim of mine.
Listing(p) == [left |-> stored[p].left, open |-> stored[p].left > 0]
Found == [p \in Posts |-> [status |-> stored[p].claim.status, rated |-> stored[p].rated]]

\* What the second will show once everything is committed.
Claims == [p \in Posts |-> [status |-> claim[p].status, rated |-> p \in rated]]

Pending == [code |-> "pending", body |-> None]

\* `then' is what the handler does with the answer.
Call(kind, p, qty, then) ==
    [kind |-> kind, post |-> p, qty |-> qty, then |-> then, ans |-> Pending,
     old |-> FALSE, early |-> FALSE]

Load(cs, then) == Append(cs, Call("mine", None, 0, then))

Opened(p) ==
    [post |-> p, seen |-> None, error |-> FALSE, claiming |-> FALSE,
     claimed |-> FALSE, claimError |-> FALSE, qty |-> 1]

Init ==
    /\ screen = "home" /\ detail = None
    /\ mounted = FALSE /\ rows = [p \in Posts |-> NoRow]
    /\ loading = TRUE /\ refreshing = FALSE /\ busy = None
    /\ handled = {}
    /\ calls = <<>> /\ pushed = FALSE
    /\ claim \in [Posts -> {NoClaim} \cup
                    [status: {"pending", "picked_up"}, qty: {1}]]
    /\ left = [p \in Posts |-> Portions - claim[p].qty]
    /\ rated = {} /\ hold \in [Posts -> {0, 1}]
    /\ \A p \in Posts : claim[p].status # "pending" => hold[p] = 0
    /\ stored = [p \in Posts |-> Written(p)]
    /\ astray = TRUE /\ early = FALSE /\ asked = [p \in Posts |-> 0]
    /\ presses = 0 /\ events = 0

-----------------------------------------------------------------------------
(* Moving between screens.                                                 *)

Room == Len(calls) < MaxCalls

\* What is under way for a listing screen that is left answers nobody.
Orphaned(cs) ==
    [i \in DOMAIN cs |-> IF cs[i].kind \in {"get", "create"}
                         THEN [cs[i] EXCEPT !.then = "gone"] ELSE cs[i]]

\* Mutant: "it loaded once on mount and then froze".
FocusOnce(cs) ==
    /\ screen' = "claims" /\ mounted' = TRUE /\ detail' = None
    /\ calls' = IF mounted THEN Orphaned(cs) ELSE Load(Orphaned(cs), "none")

\* Gaining focus mounts the claims screen, and reloads it.
Focus(cs) ==
    /\ screen' = "claims" /\ mounted' = TRUE /\ detail' = None
    /\ calls' = Load(Orphaned(cs), "none")

OpenListing(p) ==
    /\ Room /\ presses < MaxPresses /\ presses' = presses + 1
    /\ screen = "home" \/ (screen = "claims" /\ rows[p].status # "none")
    /\ screen' = "detail" /\ detail' = Opened(p)
    /\ calls' = Append(calls, Call("get", p, 0, "show"))
    /\ UNCHANGED <<mine, pushed, server, history, asked, events>>

GoBack ==
    /\ screen # "home" /\ screen' = "home" /\ detail' = None
    /\ calls' = Orphaned(calls)
    /\ UNCHANGED <<mine, pushed, server, history, asked, bounds>>

OpenClaims ==
    /\ Room /\ presses < MaxPresses /\ presses' = presses + 1
    /\ screen = "home" /\ Focus(calls)
    /\ UNCHANGED <<rows, loading, refreshing, busy, handled, pushed, server,
                   history, asked, events>>

-----------------------------------------------------------------------------
(* What the person does on them.                                           *)

Press ==
    /\ Room /\ presses < MaxPresses /\ presses' = presses + 1
    /\ UNCHANGED <<screen, pushed, server, history, asked, events>>

\* The claim bar of a listing that is loaded and still open.
CanClaim ==
    /\ screen = "detail" /\ detail.seen # None
    /\ detail.seen.open /\ ~detail.claimed

\* Mutant: nothing stops the stepper at one.
ClampNoFloor(n) == IF n > detail.seen.left THEN detail.seen.left ELSE n

\* stepQty(): within what was left when the screen loaded, and the ceiling.
Clamp(n) ==
    LET most == IF detail.seen.left < MaxQty THEN detail.seen.left ELSE MaxQty
        least == IF n < 1 THEN 1 ELSE n
    IN  IF least > most THEN most ELSE least

StepQty(delta) ==
    /\ CanClaim /\ detail.seen.left > 1
    /\ Clamp(detail.qty + delta) # detail.qty
    /\ detail' = [detail EXCEPT !.qty = Clamp(@ + delta)]
    /\ UNCHANGED <<screen, mine, calls, pushed, server, history, asked, bounds>>

OnClaim ==
    /\ Press /\ CanClaim /\ ~detail.claiming
    /\ detail' = [detail EXCEPT !.claiming = TRUE, !.claimError = FALSE]
    /\ calls' = Append(calls, Call("create", detail.post, detail.qty, "show"))
    /\ UNCHANGED mine

\* Cancel, under Active, or a star, under Picked Up: one row is busy at a time, the one pressed last.
Act(kind, p) ==
    /\ Press /\ screen = "claims" /\ ~loading /\ busy # p
    /\ IF kind = "cancel" THEN rows[p].status = "pending"
       ELSE rows[p].status = "picked_up" /\ ~rows[p].rated
    /\ busy' = p
    /\ calls' = Append(calls, Call(kind, p, 0, "reload"))
    /\ UNCHANGED <<detail, mounted, rows, loading, refreshing, handled>>

Pull ==
    /\ Press /\ screen = "claims" /\ ~loading
    /\ refreshing' = TRUE
    /\ calls' = Load(calls, "pull")
    /\ UNCHANGED <<detail, mounted, rows, loading, busy, handled>>

-----------------------------------------------------------------------------
(* What makes the claims screen reload by itself.                          *)

\* Mutant: no set of the claims already asked about.
LapsedAlways == {p \in Posts : rows[p].status = "pending" /\ hold[p] = 2}

\* The clock passes the end of a hold and of the grace period: once per claim.
Lapsed == {p \in Posts : rows[p].status = "pending" /\ hold[p] = 2} \ handled

OnExpiry ==
    /\ mounted /\ Room /\ Lapsed # {}
    /\ handled' = handled \cup Lapsed
    /\ asked' = [p \in Posts |-> IF p \in Lapsed THEN asked[p] + 1 ELSE asked[p]]
    /\ calls' = Load(calls, "none")
    /\ UNCHANGED <<screen, detail, mounted, rows, loading, refreshing, busy,
                   pushed, server, history, bounds>>

OnPush ==
    /\ pushed /\ pushed' = FALSE
    /\ IF mounted THEN Room /\ calls' = Load(calls, "none") ELSE UNCHANGED calls
    /\ UNCHANGED <<screen, detail, mine, server, history, asked, bounds>>

-----------------------------------------------------------------------------
(* The API, with its other callers (the whole of it is module Marketplace). *)

\* Rows read before now and not delivered yet are out of date.
Aged(cs) == [j \in DOMAIN cs |-> [cs[j] EXCEPT !.old = @ \/ (cs[j].kind = "mine" /\ cs[j].ans.code # "pending")]]

Resolve(p, status) ==
    /\ claim[p].status = "pending"
    /\ claim' = [claim EXCEPT ![p].status = status]
    /\ left' = IF status = "picked_up" THEN left
               ELSE [left EXCEPT ![p] = @ + claim[p].qty]

Event == events < MaxEvents /\ events' = events + 1

\* A transaction waits for the one before it: the post's row is locked from its
\* write to its commit (a second rating waits for the first one's key).
Free(p) == p \notin Unsaved

\* Nobody is told of this one, so that its write and its commit are one step.
AtOnce(p) == stored' = [stored EXCEPT ![p] = Written(p)']

\* Another recipient takes a portion; the host confirms the pickup, which
\* sends a push before it commits, or gives the food to somebody else, which
\* sends none.
OthersAct(p) ==
    /\ Event /\ Free(p)
    /\ \/ /\ left[p] > 0 /\ left' = [left EXCEPT ![p] = @ - 1]
          /\ UNCHANGED <<claim, rated, calls, pushed, astray>> /\ AtOnce(p)
       \/ /\ Resolve(p, "picked_up") /\ pushed' = TRUE /\ calls' = Aged(calls)
          /\ UNCHANGED <<rated, stored, astray>>
       \/ /\ Resolve(p, "no_show") /\ calls' = Aged(calls) /\ astray' = TRUE
          /\ UNCHANGED <<rated, pushed>> /\ AtOnce(p)
    /\ UNCHANGED <<screen, detail, mine, hold, early, asked, presses>>

\* The hold runs out, and then the grace period.
Tick(p) ==
    /\ Event /\ claim[p].status # "none" /\ hold[p] < 2
    /\ hold' = [hold EXCEPT ![p] = @ + 1]
    /\ UNCHANGED <<screen, detail, mine, calls, pushed, written, stored, history,
                   asked, presses>>

\* The sweep, at its own pace, and without a push.
Sweep == \E p \in Posts :
    /\ Free(p) /\ hold[p] > 0 /\ Resolve(p, "no_show")
    /\ UNCHANGED rated /\ AtOnce(p)
    /\ calls' = Aged(calls) /\ astray' = TRUE
    /\ UNCHANGED <<screen, detail, mine, pushed, hold, early, asked, bounds>>

Answer(cs, i, code, body) == [cs EXCEPT ![i].ans = [code |-> code, body |-> body]]
Reply(i, code, body) == calls' = Answer(calls, i, code, body)

\* GET /claims/mine, of what is committed by now.
Read(i) ==
    calls' = [Answer(calls, i, "200", Found) EXCEPT ![i].early = (Found # Claims)]

Serve == \E i \in DOMAIN calls :
    LET c == calls[i]
        p == c.post
        Refuse == Reply(i, "409", None) /\ UNCHANGED written
        Done == calls' = Answer(Aged(calls), i, "200", None)
    IN
    /\ c.ans = Pending
    /\ \/ c.kind = "get" /\ Reply(i, "200", Listing(p)) /\ UNCHANGED written
       \/ c.kind = "mine" /\ Read(i) /\ UNCHANGED written
       \/ /\ c.kind = "create" /\ Free(p)
          /\ IF claim[p] # NoClaim \/ left[p] < c.qty THEN Refuse
             ELSE /\ claim' = [claim EXCEPT ![p] = [status |-> "pending", qty |-> c.qty]]
                  /\ left' = [left EXCEPT ![p] = @ - c.qty]
                  /\ Done /\ UNCHANGED rated
       \/ /\ c.kind = "cancel" /\ Free(p)
          /\ IF claim[p].status # "pending" THEN Refuse
             ELSE Resolve(p, "cancelled") /\ Done /\ UNCHANGED rated
       \/ /\ c.kind = "rate" /\ Free(p)
          /\ IF claim[p].status # "picked_up" \/ p \in rated THEN Refuse
             ELSE rated' = rated \cup {p} /\ Done /\ UNCHANGED <<left, claim>>
    /\ UNCHANGED <<screen, detail, mine, pushed, stored, hold, history, asked, bounds>>

\* session_dependency(), once the answer and the background tasks are done.
Commit == \E p \in Unsaved :
    /\ stored' = [stored EXCEPT ![p] = Written(p)]
    /\ UNCHANGED <<screen, detail, mine, calls, pushed, written, hold, history,
                   asked, bounds>>

\* The commit fails, or the process ends before it; what was told was not so.
Rollback(p) ==
    /\ Event /\ p \in Unsaved
    /\ left' = [left EXCEPT ![p] = stored[p].left]
    /\ claim' = [claim EXCEPT ![p] = stored[p].claim]
    /\ rated' = IF stored[p].rated THEN rated \cup {p} ELSE rated \ {p}
    /\ calls' = Aged(calls) /\ astray' = TRUE
    /\ UNCHANGED <<screen, detail, mine, pushed, stored, hold, early, asked, presses>>

\* A request, its answer or the push is lost.
Lose ==
    /\ Event
    /\ \/ /\ \E i \in DOMAIN calls : calls[i].ans.code # "lost" /\ Reply(i, "lost", None)
          /\ UNCHANGED <<pushed, astray>>
       \/ pushed /\ pushed' = FALSE /\ astray' = TRUE /\ UNCHANGED calls
    /\ UNCHANGED <<screen, detail, mine, server, early, asked, presses>>

-----------------------------------------------------------------------------
(* Answers.                                                                *)

Rest(i) == RemoveAt(calls, i)

GetAnswered(i) ==
    LET c == calls[i] IN
    /\ c.kind = "get" /\ calls' = Rest(i)
    /\ detail' = IF c.then = "gone" THEN detail
                 ELSE IF c.ans.code = "200" THEN [detail EXCEPT !.seen = c.ans.body]
                 ELSE [detail EXCEPT !.error = TRUE]
    /\ UNCHANGED <<screen, mine, history>>

\* onClaim() after its await: to the claims screen, wherever the person is by
\* then.  Being there already gives it no focus, and so no reload.
CreateAnswered(i) ==
    LET c == calls[i] IN
    /\ c.kind = "create"
    /\ UNCHANGED <<rows, loading, refreshing, busy, handled, early>>
    /\ IF c.ans.code = "200"
       THEN IF screen = "claims"
            THEN /\ calls' = Rest(i) /\ astray' = TRUE
                 /\ UNCHANGED <<screen, detail, mounted>>
            ELSE Focus(Rest(i)) /\ UNCHANGED astray
       ELSE /\ detail' = IF c.then = "gone" THEN detail
                         ELSE [detail EXCEPT !.claiming = FALSE, !.claimError = TRUE]
            /\ calls' = Rest(i) /\ astray' = (astray \/ c.ans.code = "lost")
            /\ UNCHANGED <<screen, mounted>>

\* Mutant: a refusal leaves the row busy.
ActAnsweredNoFinally(i) ==
    LET c == calls[i] IN
    /\ c.kind \in {"cancel", "rate"}
    /\ UNCHANGED <<screen, detail, mounted, rows, loading, refreshing, busy, handled, early>>
    /\ calls' = IF c.ans.code = "200" THEN Load(Rest(i), "free") ELSE Rest(i)
    /\ astray' = (astray \/ c.ans.code = "lost")

\* onCancel() and onRate(): a success reloads before the row is free again.
ActAnswered(i) ==
    LET c == calls[i] IN
    /\ c.kind \in {"cancel", "rate"}
    /\ UNCHANGED <<screen, detail, mounted, rows, loading, refreshing, handled, early>>
    /\ IF c.ans.code = "200"
       THEN calls' = Load(Rest(i), "free") /\ UNCHANGED <<busy, astray>>
       ELSE busy' = None /\ calls' = Rest(i) /\ astray' = (astray \/ c.ans.code = "lost")

\* load(): a failure keeps what is on screen.
MineAnswered(i) ==
    LET c == calls[i] IN
    /\ c.kind = "mine"
    /\ loading' = FALSE
    /\ IF c.ans.code = "200"
       THEN rows' = c.ans.body /\ astray' = c.old /\ early' = c.early
       ELSE astray' = TRUE /\ UNCHANGED <<rows, early>>
    /\ refreshing' = IF c.then = "pull" THEN FALSE ELSE refreshing
    /\ busy' = IF c.then = "free" THEN None ELSE busy
    /\ calls' = RemoveAt([j \in DOMAIN calls |-> [calls[j] EXCEPT !.old = @ \/ (calls[j].kind = "mine" /\ j < i)]], i)
    /\ UNCHANGED <<screen, detail, mounted, handled>>

Receive == \E i \in DOMAIN calls :
    /\ calls[i].ans # Pending
    /\ GetAnswered(i) \/ CreateAnswered(i) \/ ActAnswered(i) \/ MineAnswered(i)
    /\ UNCHANGED <<pushed, server, asked, bounds>>

Person ==
    \/ GoBack \/ OpenClaims \/ OnClaim \/ Pull
    \/ \E delta \in {-1, 1} : StepQty(delta)
    \/ \E p \in Posts : OpenListing(p) \/ Act("cancel", p) \/ Act("rate", p)

System == Serve \/ Commit \/ Receive \/ OnExpiry \/ OnPush \/ Sweep

Next == Person \/ System \/ Lose \/ \E p \in Posts : OthersAct(p) \/ Rollback(p) \/ Tick(p)

\* Requests are answered or lost, transactions end, pushes arrive or are lost,
\* effects run and the sweep passes.
Spec == Init /\ [][Next]_vars
FairSpec == Spec /\ WF_vars(System)

-----------------------------------------------------------------------------
TypeOK ==
    /\ screen \in {"home", "detail", "claims"}
    /\ (screen = "detail") = (detail # None)
    /\ detail # None => detail \in Detail
    /\ rows \in [Posts -> [status: ClaimStatus, rated: BOOLEAN]]
    /\ {mounted, loading, refreshing, pushed, astray, early} \subseteq BOOLEAN
    /\ busy \in Posts \cup {None} /\ handled \subseteq Posts
    /\ left \in [Posts -> 0..Portions]
    /\ claim \in [Posts -> [status: ClaimStatus, qty: 0..Portions]]
    /\ stored \in [Posts -> [left: 0..Portions, rated: BOOLEAN,
                            claim: [status: ClaimStatus, qty: 0..Portions]]]
    /\ rated \subseteq Posts /\ hold \in [Posts -> 0..2]

\* Nothing is under way, at the phone or at the API.
AtRest == calls = <<>> /\ ~pushed /\ Unsaved = {}

\* At rest the rows are what the API has, unless an answer was overtaken or
\* lost, the API changed a claim without a push, or the rows were read before
\* the change they were sent for was committed: else a pickup the host confirms,
\* a reservation, a cancellation and a rating all show without a pull.
RowsAreTrue == AtRest /\ mounted /\ ~astray /\ ~early => rows = Found

\* "after the response (post-commit)": what an answer or a push tells of is
\* committed by then, so that the rows fetched on it have it.
ToldIsCommitted == AtRest /\ mounted /\ ~astray => rows = Found

\* "Once per claim: the set stops a server that still says pending ... from
\* being asked over and over".
AskedOnce == \A p \in Posts : asked[p] <= 1

\* Nothing stays busy, whatever is refused, lost or pressed at the same time.
NothingStaysBusy ==
    []<>(/\ busy = None /\ ~refreshing /\ (mounted => ~loading)
         /\ detail # None => ~detail.claiming)
=============================================================================
