-------------------------------- MODULE Desk --------------------------------
(***************************************************************************)
(* A host at work: the dashboard (src/mobile/src/screens/OrganizerHome.tsx),*)
(* which reloads on focus and listens to the stream of the host's own      *)
(* posts; the screen that manages one post                                 *)
(* (src/mobile/app/(app)/manage/[id].tsx), which does neither; the dialog  *)
(* that stands between a press and what cannot be undone; and the API's    *)
(* rows, which recipients and the sweeps change meanwhile.                 *)
(***************************************************************************)
EXTENDS Integers, SequencesExt

CONSTANTS
    Posts,      \* the host's, each with room for one claim
    Portions,   \* posted of each
    MaxCalls,   \* bound: requests outstanding
    MaxPresses, \* bound: what the host sends off
    MaxEvents,  \* bound: what recipients, the sweeps and the network do
    None        \* null

ASSUME DeskAssumption ==
    /\ {Portions, MaxCalls} \subseteq Nat \ {0}
    /\ {MaxPresses, MaxEvents} \subseteq Nat
    /\ None \notin Posts

Prelive == {"draft", "scheduled"}
Status == Prelive \cup {"active", "claimed", "cancelled", "expired"}
Handoffs == {"pickup", "noshow"}
Claims == {"none", "pending", "picked_up", "no_show", "cancelled"}
Rows == [status: Status, left: 0..Portions]

\* A post's management screen, and what a dialog asks about.
Managed == [post: Posts, seen: Rows \cup {None}, claim: Claims, loading: BOOLEAN,
            busy: {"stock", "cancel", None} \cup Handoffs, error: BOOLEAN]
Asked == [kind: {"cancel", "noshow"}, post: Posts]

ASSUME NullAssumption ==
    None \notin Rows /\ None \notin [Posts -> Rows] /\ None \notin Claims /\ None \notin Managed

VARIABLES
    \* the screen in front; the dashboard stays mounted behind the others
    screen, rows, loading, error, publishing,
    \* the management screen, while mounted; the act a dialog asks about
    manage, asking,
    \* requests outstanding, in the order sent; the stream of the host's posts
    calls, stream, events,
    \* the API: each post and its claim as last written; what of them is
    \* committed, which is what every GET reads
    post, claim, stored,
    \* history: the dashboard, or the management screen, missed a change that
    \* nobody told it about, or was told of it before it could be read; the
    \* bounded events so far
    astray, missed, presses, changes

dashboard == <<rows, loading, error, publishing>>
written == <<post, claim>>
server == <<written, stored>>
history == <<astray, missed, presses, changes>>
vars == <<screen, dashboard, manage, asking, calls, stream, events, server, history>>

\* Two GETs make one load: `one' and `two' are their answers.  `then' is what
\* is left of the handler when the screen that asked is gone.
Call(kind, p, arg) ==
    [kind |-> kind, post |-> p, arg |-> arg, then |-> "show", code |-> "pending",
     one |-> None, two |-> None, old |-> FALSE]

Load(cs) == Append(cs, Call("dash", None, "none"))
LoadOne(cs, p) == Append(cs, Call("manage", p, "none"))

Opened(p) == [post |-> p, seen |-> None, claim |-> "none", loading |-> TRUE,
              busy |-> None, error |-> FALSE]

\* A post and its claim as the last transaction wrote them.  The session
\* commits after the answer and its background tasks, the event among them
\* (db.session_dependency).
Written(p) == [row |-> post[p], claim |-> claim[p]]
Unsaved == {p \in Posts : stored[p] # Written(p)}

Init ==
    /\ screen = "posts" /\ loading = TRUE /\ error = FALSE /\ publishing = None
    /\ post \in [Posts -> {[status |-> s, left |-> Portions] : s \in Prelive \cup {"active"}}]
    /\ claim = [p \in Posts |-> "none"] /\ stored = [p \in Posts |-> Written(p)]
    /\ rows = [p \in Posts |-> None]
    /\ manage = None /\ asking = None
    /\ calls = Load(<<>>) /\ stream = "opening" /\ events = <<>>
    /\ astray = TRUE /\ missed = FALSE /\ presses = 0 /\ changes = 0

-----------------------------------------------------------------------------
(* Moving between screens.                                                 *)

Press ==
    /\ asking = None /\ Len(calls) < MaxCalls
    /\ presses < MaxPresses /\ presses' = presses + 1
    /\ UNCHANGED <<stream, events, server, astray, changes>>

\* Answers for a management screen that is left reach nobody; the reload after
\* an act is left out for it, as nothing would show it.
Orphaned(cs) ==
    [i \in DOMAIN cs |-> IF cs[i].kind \in {"dash", "publish"} THEN cs[i]
                         ELSE [cs[i] EXCEPT !.then = "gone"]]

\* Mutant: the dashboard is pushed over the screen it should replace.
FocusPushed(cs) ==
    /\ screen' = "posts" /\ missed' = FALSE
    /\ calls' = Load(cs) /\ error' = FALSE /\ UNCHANGED manage

\* The dashboard gains focus: it reloads.
Focus(cs) ==
    /\ screen' = "posts" /\ manage' = None /\ missed' = FALSE
    /\ calls' = Load(Orphaned(cs)) /\ error' = FALSE

Return ==
    /\ Press /\ screen # "posts"
    /\ Focus(calls)
    /\ UNCHANGED <<rows, loading, publishing, asking>>

\* Another tab.
Leave ==
    /\ asking = None /\ screen = "posts" /\ screen' = "away"
    /\ UNCHANGED <<dashboard, manage, asking, calls, stream, events, server, history>>

\* The list, rather than the skeleton or the message in its place.
ListOnScreen(p) == screen = "posts" /\ ~loading /\ ~error /\ rows[p] # None

OpenManage(p) ==
    /\ Press /\ ListOnScreen(p)
    /\ screen' = "manage" /\ manage' = Opened(p) /\ missed' = FALSE
    /\ calls' = LoadOne(calls, p)
    /\ UNCHANGED <<dashboard, asking>>

Retry ==
    /\ Press /\ screen = "posts" /\ ~loading /\ error
    /\ error' = FALSE /\ calls' = Load(calls)
    /\ UNCHANGED <<screen, rows, loading, publishing, manage, asking, missed>>

-----------------------------------------------------------------------------
(* What the host does with a post.                                         *)

\* Publish now, under Scheduled.
Publish(p) ==
    /\ Press /\ ListOnScreen(p) /\ rows[p].status \in Prelive /\ publishing # p
    /\ publishing' = p
    /\ calls' = Append(calls, Call("publish", p, "active"))
    /\ UNCHANGED <<screen, rows, loading, error, manage, asking, missed>>

Shown == screen = "manage" /\ manage.seen # None

\* act() and endPostEarly() from where nothing is left to confirm.
Begin(kind, p, arg) ==
    LET c == Call(kind, p, arg) IN
    IF manage # None /\ manage.post = p
    THEN /\ manage' = [manage EXCEPT !.busy = kind, !.error = FALSE]
         /\ calls' = Append(calls, c)
    ELSE /\ calls' = Append(calls, [c EXCEPT !.then = "gone"])
         /\ UNCHANGED manage

\* Out of Stock or Reopen, by what the screen shows.
ToggleStock ==
    /\ Press /\ Shown /\ manage.seen.status \in {"active", "claimed"}
    /\ manage.busy # "stock"
    /\ Begin("stock", manage.post,
             IF manage.seen.status = "active" THEN "claimed" ELSE "active")
    /\ UNCHANGED <<screen, dashboard, asking, missed>>

ConfirmPickup ==
    /\ Press /\ Shown /\ manage.claim = "pending" /\ manage.busy # "pickup"
    /\ Begin("pickup", manage.post, "picked_up")
    /\ UNCHANGED <<screen, dashboard, asking, missed>>

\* End Post Early and No-show ask first.
Ask(kind) ==
    /\ Press /\ Shown /\ manage.busy # kind
    /\ \/ kind = "cancel" /\ manage.seen.status \in {"active", "claimed"}
       \/ kind = "noshow" /\ manage.claim = "pending"
    /\ asking' = [kind |-> kind, post |-> manage.post]
    /\ UNCHANGED <<screen, dashboard, manage, calls, missed>>

\* ConfirmProvider.settle(): the handler goes on, or gives up.  The screen that
\* asked may have been replaced underneath the dialog.
Settle(accepted) ==
    /\ asking # None /\ asking' = None
    /\ IF accepted THEN Begin(asking.kind, asking.post,
                              IF asking.kind = "cancel" THEN "cancelled" ELSE "no_show")
       ELSE UNCHANGED <<manage, calls>>
    /\ UNCHANGED <<screen, dashboard, stream, events, server, history>>

-----------------------------------------------------------------------------
(* The API, with its other callers (the whole of it is module Marketplace). *)

\* Answers read before now and not delivered yet are out of date: for the
\* management screen always, for the dashboard unless the stream will tell.
Aged(cs, kinds) ==
    [j \in DOMAIN cs |->
        [cs[j] EXCEPT !.old = @ \/ (cs[j].kind \in kinds
                                    /\ (cs[j].one # None \/ cs[j].two # None))]]

\* A change the API announces.  Drafts are not announced.
Announce(p, cs) ==
    /\ missed' = (missed \/ manage # None)
    /\ IF stream = "open"
       THEN /\ events' = Append(events, [post |-> p, row |-> post'[p], old |-> FALSE])
            /\ calls' = Aged(cs, {"manage"})
            /\ UNCHANGED astray
       ELSE /\ calls' = Aged(cs, {"manage", "dash"})
            /\ astray' = TRUE
            /\ UNCHANGED events

\* A transaction waits for the one before it: the post's row is locked from its
\* write to its commit.
Free(p) == p \notin Unsaved

\* Nobody is told, so an event still on its way is out of date.
Silently(cs) ==
    /\ calls' = Aged(cs, {"manage", "dash"})
    /\ missed' = (missed \/ manage # None) /\ astray' = TRUE
    /\ events' = [i \in DOMAIN events |-> [events[i] EXCEPT !.old = TRUE]]

\* resolve_claim(): a portion given back reopens a post that had run out.
Resolved(p, to) ==
    /\ claim[p] = "pending"
    /\ claim' = [claim EXCEPT ![p] = to]
    /\ post' = IF to = "picked_up" THEN post
               ELSE [post EXCEPT ![p].left = @ + 1,
                                 ![p].status = IF @ = "claimed" THEN "active" ELSE @]

Event == changes < MaxEvents /\ changes' = changes + 1

\* A recipient reserves a portion, or gives it back.
RecipientActs(p) ==
    /\ Event /\ Free(p)
    /\ \/ /\ post[p].status = "active" /\ post[p].left > 0 /\ claim[p] = "none"
          /\ claim' = [claim EXCEPT ![p] = "pending"]
          /\ post' = [post EXCEPT ![p].left = @ - 1,
                                  ![p].status = IF post[p].left = 1 THEN "claimed" ELSE @]
       \/ Resolved(p, "cancelled")
    /\ Announce(p, calls)
    /\ UNCHANGED <<screen, dashboard, manage, asking, stream, stored, presses>>

\* A sweep sets a scheduled post live, expires a finished one or returns a
\* forgotten reservation.  With nobody told, its write and its commit are one step.
Sweep(p) ==
    /\ Event /\ Free(p)
    /\ \/ \E step \in {<<"scheduled", "active">>, <<"active", "expired">>, <<"claimed", "expired">>} :
            /\ post[p].status = step[1]
            /\ post' = [post EXCEPT ![p].status = step[2]]
            /\ UNCHANGED claim
       \/ Resolved(p, "no_show")
    /\ stored' = [stored EXCEPT ![p] = Written(p)']
    /\ Silently(calls)
    /\ UNCHANGED <<screen, dashboard, manage, asking, stream, presses>>

\* The commit fails, or the process ends before it; what was told was not so.
Rollback(p) ==
    /\ Event /\ p \in Unsaved
    /\ post' = [post EXCEPT ![p] = stored[p].row]
    /\ claim' = [claim EXCEPT ![p] = stored[p].claim]
    /\ Silently(calls)
    /\ UNCHANGED <<screen, dashboard, manage, asking, stream, stored, presses>>

\* session_dependency(), once the answer and the background tasks are done.
Commit == \E p \in Unsaved :
    /\ stored' = [stored EXCEPT ![p] = Written(p)]
    /\ UNCHANGED <<screen, dashboard, manage, asking, calls, stream, events, written,
                   history>>

\* assert_editable() and assert_can_transition(); asking for the status a post
\* has is no error.
Allowed(from, to) ==
    \/ from = to /\ to # "expired"
    \/ from \in Prelive /\ to \in {"active", "cancelled"}
    \/ from \in {"active", "claimed"} /\ to \in {"active", "claimed", "cancelled"}

Answer(i, code) == [calls EXCEPT ![i].code = code]

ServeAct(i) ==
    LET c == calls[i]
        p == c.post
        Done == post' # post \/ claim' # claim
    IN
    /\ c.kind \in {"publish", "stock", "cancel"} \cup Handoffs /\ Free(p)
    /\ IF (c.kind \in Handoffs /\ claim[p] # "pending")
          \/ (c.kind \notin Handoffs /\ ~Allowed(post[p].status, c.arg))
       THEN calls' = Answer(i, "409") /\ UNCHANGED <<events, written, astray, missed>>
       ELSE /\ IF c.kind \in Handoffs THEN Resolved(p, c.arg)
               ELSE post' = [post EXCEPT ![p].status = c.arg] /\ UNCHANGED claim
            /\ IF stream = "open"
               THEN /\ events' = Append(events, [post |-> p, row |-> post'[p], old |-> FALSE])
                    /\ calls' = Aged(Answer(i, "200"), {"manage"})
                    /\ UNCHANGED astray
               ELSE /\ calls' = Aged(Answer(i, "200"), {"manage", "dash"})
                    /\ astray' = (astray \/ Done) /\ UNCHANGED events
            /\ missed' = (missed \/ (manage # None /\ (c.then = "gone" \/ c.kind = "publish")))

\* Rows that are read before a change is committed, when the event that told
\* of it is past, are out of date from the start.
Early == \E p \in Posts :
    stored[p].row # post[p] /\ \A i \in DOMAIN events : events[i].post # p

\* The two GETs of a load are served apart.
ServeLoad(i) ==
    LET c == calls[i]
        p == c.post
    IN
    /\ \/ /\ c.kind = "dash"
          /\ calls' = [calls EXCEPT ![i].one = [q \in Posts |-> stored[q].row],
                                    ![i].code = "200", ![i].old = @ \/ Early]
       \/ /\ c.kind = "manage" /\ c.one = None
          /\ calls' = [calls EXCEPT ![i].one = stored[p].row,
                                    ![i].code = IF c.two = None THEN @ ELSE "200",
                                    ![i].old = @ \/ stored[p].row # post[p]]
       \/ /\ c.kind = "manage" /\ c.two = None
          /\ calls' = [calls EXCEPT ![i].two = stored[p].claim,
                                    ![i].code = IF c.one = None THEN @ ELSE "200",
                                    ![i].old = @ \/ stored[p].claim # claim[p]]
    /\ UNCHANGED <<events, written, astray, missed>>

Serve == \E i \in DOMAIN calls :
    /\ calls[i].code = "pending"
    /\ ServeAct(i) \/ ServeLoad(i)
    /\ UNCHANGED <<screen, dashboard, manage, asking, stream, stored, presses, changes>>

Lose == \E i \in DOMAIN calls :
    /\ Event /\ calls[i].code # "lost"
    /\ calls' = Answer(i, "lost")
    /\ UNCHANGED <<screen, dashboard, manage, asking, stream, events, server,
                   astray, missed, presses>>

-----------------------------------------------------------------------------
(* Answers and events.                                                     *)

Rest(i) == RemoveAt(calls, i)
Got(i, code) == calls[i].code = code

\* What is answered after this one is out of date if it was sent before.
Overtaking(i) ==
    RemoveAt([j \in DOMAIN calls |->
                [calls[j] EXCEPT !.old = @ \/ (j < i /\ calls[j].kind = calls[i].kind)]], i)

\* load() of the dashboard.
DashAnswered(i) ==
    LET c == calls[i] IN
    /\ c.kind = "dash"
    /\ calls' = Overtaking(i) /\ loading' = FALSE
    /\ publishing' = IF c.then = "publish" THEN None ELSE publishing
    /\ IF Got(i, "200") THEN rows' = c.one /\ astray' = c.old /\ UNCHANGED error
       ELSE error' = TRUE /\ astray' = TRUE /\ UNCHANGED rows
    /\ UNCHANGED <<screen, manage, missed>>

\* onPublish() after its first await; a failure reaches nobody.
PublishAnswered(i) ==
    /\ calls[i].kind = "publish"
    /\ IF Got(i, "200")
       THEN /\ calls' = [Load(Rest(i)) EXCEPT ![Len(calls)].then = "publish"]
            /\ error' = FALSE /\ UNCHANGED publishing
       ELSE calls' = Rest(i) /\ publishing' = None /\ UNCHANGED error
    /\ astray' = (astray \/ Got(i, "lost"))
    /\ UNCHANGED <<screen, rows, loading, manage, missed>>

\* load() of the management screen, which swallows its own failure.
ManageAnswered(i) ==
    LET c == calls[i] IN
    /\ c.kind = "manage"
    /\ calls' = Overtaking(i)
    /\ IF c.then = "gone" THEN UNCHANGED <<manage, missed>>
       ELSE /\ manage' = [manage EXCEPT
                    !.loading = FALSE,
                    !.busy = IF c.then = "free" THEN None ELSE @,
                    !.error = @ \/ ~Got(i, "200"),
                    !.seen = IF Got(i, "200") THEN c.one ELSE @,
                    !.claim = IF Got(i, "200") THEN c.two ELSE @]
            /\ missed' = (c.old \/ ~Got(i, "200"))
    /\ UNCHANGED <<screen, dashboard, astray>>

\* Mutant: the screen is not read again.
ActAnsweredNoLoad(i) ==
    LET c == calls[i] IN
    /\ c.kind \in {"stock"} \cup Handoffs
    /\ calls' = Rest(i)
    /\ IF c.then = "gone" THEN UNCHANGED <<manage, missed>>
       ELSE manage' = [manage EXCEPT !.busy = None, !.error = ~Got(i, "200")]
            /\ missed' = (missed \/ Got(i, "lost"))
    /\ UNCHANGED <<screen, dashboard, astray>>

\* act() after fn(): a success reloads before the button is free again.
ActAnswered(i) ==
    LET c == calls[i] IN
    /\ c.kind \in {"stock"} \cup Handoffs
    /\ IF c.then = "gone" THEN calls' = Rest(i) /\ UNCHANGED <<manage, missed>>
       ELSE IF Got(i, "200")
       THEN /\ calls' = [LoadOne(Rest(i), c.post) EXCEPT ![Len(calls)].then = "free"]
            /\ UNCHANGED <<manage, missed>>
       ELSE /\ manage' = [manage EXCEPT !.busy = None, !.error = TRUE]
            /\ calls' = Rest(i) /\ missed' = (missed \/ Got(i, "lost"))
    /\ UNCHANGED <<screen, dashboard, astray>>

\* Mutant: only the success leaves the screen, and nothing frees the button.
EndAnsweredNoReset(i) ==
    /\ calls[i].kind = "cancel"
    /\ IF Got(i, "200") THEN Focus(Rest(i))
       ELSE /\ manage' = IF calls[i].then = "gone" THEN manage ELSE [manage EXCEPT !.error = TRUE]
            /\ calls' = Rest(i)
            /\ missed' = (missed \/ Got(i, "lost")) /\ UNCHANGED <<screen, error>>
    /\ UNCHANGED <<rows, loading, publishing, astray>>

\* endPostEarly() after its request: to the dashboard, wherever the host is by
\* then.  Being there already gives it no focus, and so no reload.
EndAnswered(i) ==
    /\ calls[i].kind = "cancel"
    /\ IF Got(i, "200")
       THEN IF screen = "posts"
            THEN calls' = Rest(i) /\ UNCHANGED <<screen, manage, missed, error>>
            ELSE Focus(Rest(i))
       ELSE /\ manage' = IF calls[i].then = "gone" THEN manage
                         ELSE [manage EXCEPT !.busy = None, !.error = TRUE]
            /\ calls' = Rest(i) /\ missed' = (missed \/ Got(i, "lost"))
            /\ UNCHANGED <<screen, error>>
    /\ UNCHANGED <<rows, loading, publishing, astray>>

Receive == \E i \in DOMAIN calls :
    /\ calls[i].code # "pending"
    /\ \/ DashAnswered(i) \/ PublishAnswered(i) \/ ManageAnswered(i)
       \/ ActAnswered(i) \/ EndAnswered(i)
    /\ UNCHANGED <<asking, stream, events, server, presses, changes>>

\* subscribeToListings() resolves.
Subscribed ==
    /\ stream = "opening" /\ stream' = "open"
    /\ UNCHANGED <<screen, dashboard, manage, asking, calls, events, server, history>>

\* Mutant: the count is patched and the status is not.
PatchedCountOnly(e) == [rows[e.post] EXCEPT !.left = e.row.left]

\* A row the dashboard holds is patched in place.
Patched(e) == e.row

Deliver ==
    /\ stream = "open" /\ events # <<>>
    /\ events' = Tail(events)
    /\ LET e == Head(events) IN
       /\ rows' = IF rows[e.post] = None THEN rows ELSE [rows EXCEPT ![e.post] = Patched(e)]
       /\ calls' = Aged(calls, {"dash"}) /\ astray' = (astray \/ e.old)
    /\ UNCHANGED <<screen, loading, error, publishing, manage, asking, stream, server,
                   missed, presses, changes>>

Host ==
    \/ Return \/ Leave \/ Retry \/ ToggleStock \/ ConfirmPickup
    \/ Ask("cancel") \/ Ask("noshow") \/ Settle(TRUE) \/ Settle(FALSE)
    \/ \E p \in Posts : OpenManage(p) \/ Publish(p)

System == Serve \/ Commit \/ Receive \/ Subscribed \/ Deliver

Next == Host \/ System \/ Lose \/ \E p \in Posts : RecipientActs(p) \/ Sweep(p) \/ Rollback(p)

\* Requests are answered or lost, transactions end, and events arrive in order.
Spec == Init /\ [][Next]_vars
FairSpec == Spec /\ WF_vars(System)

-----------------------------------------------------------------------------
TypeOK ==
    /\ screen \in {"posts", "manage", "away"}
    /\ (screen = "manage") = (manage # None)
    /\ rows \in [Posts -> Rows \cup {None}] /\ post \in [Posts -> Rows]
    /\ claim \in [Posts -> Claims] /\ stored \in [Posts -> [row: Rows, claim: Claims]]
    /\ manage \in Managed \cup {None} /\ asking \in Asked \cup {None}
    /\ publishing \in Posts \cup {None} /\ stream \in {"opening", "open"}
    /\ {loading, error, astray, missed} \subseteq BOOLEAN

\* Nothing is under way, at the phone or at the API.
AtRest == calls = <<>> /\ Unsaved = {}

\* At rest the dashboard shows every post with the API's status and count,
\* unless the API changed one without an event, an answer was lost or
\* overtaken, or the rows were read after a change's event and before its
\* commit: reservations, publishing, ending and stock switches all arrive.
DeskIsTrue ==
    AtRest /\ events = <<>> /\ ~astray => \A p \in Posts : rows[p] = stored[p].row

\* Whatever acts the host has under way at once, the management screen ends up
\* with the post and the claim as the API has them, unless somebody else
\* changed them, an answer was lost or overtaken, or the reload that follows
\* an act was served before the act was committed.
ManageIsTrue ==
    AtRest /\ manage # None /\ ~missed
        => Written(manage.post) = [row |-> manage.seen, claim |-> manage.claim]

\* Nothing stays busy, whatever is refused, lost or pressed at the same time.
NothingStaysBusy ==
    []<>(/\ ~loading /\ publishing = None
         /\ manage # None => manage.busy = None /\ ~manage.loading)
=============================================================================
