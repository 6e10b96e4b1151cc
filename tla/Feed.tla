-------------------------------- MODULE Feed --------------------------------
(***************************************************************************)
(* A recipient's feed (src/mobile/src/screens/RecipientFeed.tsx): a list   *)
(* assembled from page fetches that overlap, from a stream of changes that *)
(* reconnects when its scope does, and from two timers, while the posts    *)
(* themselves change, run out and expire on the server.                    *)
(*                                                                         *)
(* Posts are numbered in the order of their deadlines, which is the order  *)
(* the server pages by; a cursor is the last post of a page, 0 is null.    *)
(***************************************************************************)
EXTENDS Naturals, SequencesExt

CONSTANTS
    PostCount,        \* posts are 1..PostCount
    Portions,    \* the most a post has left
    Posted,      \* the posts that are up when the screen opens
    Fitting,     \* what each kind of filter lets through
    PageSize,
    MaxCalls,    \* bound: fetches outstanding
    MaxPresses,  \* bound: what the person does
    MaxChanges,  \* bound: posts changing and expiring on the server
    MaxLosses    \* bound: fetches lost before the network is back, and commits

Posts == 1..PostCount

\* Dietary tags (and the time window, which behaves alike), the radius, and
\* the search text.
Kinds == {"tags", "near", "text"}

ASSUME FeedAssumption ==
    /\ {PostCount, Portions, PageSize, MaxCalls} \subseteq Nat \ {0}
    /\ {MaxPresses, MaxChanges, MaxLosses} \subseteq Nat
    /\ Posted \subseteq Posts /\ Fitting \in [Kinds -> SUBSET Posts]

VARIABLES
    \* the screen
    cards, next, loading, refreshing, loadingMore, error, offline,
    \* its filters: chips and sheet, the text typed and the text searched for,
    \* whether there is a fix
    chosen, typed, searched, located,
    \* fetches outstanding, in the order sent
    calls,
    \* the subscription, and the events on their way to it
    stream, events,
    \* the server: portions a recipient could still claim (0: not posted, sold
    \* out, withdrawn), as last written and as committed, which is what a page
    \* is read from; posts up to `clock' have expired
    left, stored, clock,
    \* history: the list on screen was put together from answers or events
    \* that overtook each other, missed a change, or were told of one before it
    \* could be read; the bounded events so far
    astray, presses, changes, losses

list == <<cards, next>>
flags == <<loading, refreshing, loadingMore>>
trouble == <<error, offline>>
filters == <<chosen, typed, searched, located>>
feed == <<list, flags, trouble, filters>>
server == <<left, stored, clock>>
bounds == <<presses, changes, losses>>
vars == <<feed, calls, stream, events, server, astray, bounds>>

Card(p) == [post |-> p, left |-> stored[p]]
Shown == {cards[i].post : i \in DOMAIN cards}

\* filters(): a radius is dropped when there is nowhere to measure it from.
Wanted(ch, loc, q) ==
    {k \in ch : k = "near" => loc} \cup {k \in {"text"} : q}

Sent == Wanted(chosen, located, searched)
\* Mutant: the stream is scoped as soon as there is a fix.
ScopedByFix(ch, loc) == loc

Scoped(ch, loc) == "near" \in ch /\ loc

Matches(f) == {p \in Posts : \A k \in f : p \in Fitting[k]}
Available == {p \in Posts : stored[p] > 0 /\ p > clock}

\* A change is committed after the answer to who made it and the background
\* tasks, the event among them (db.session_dependency); the post's row is
\* locked until then.
Unsaved == {p \in Posts : stored[p] # left[p]}
Free(p) == p \notin Unsaved

\* The k-th smallest of some numbers.
Nth(numbers, k) ==
    CHOOSE n \in numbers : Cardinality({m \in numbers : m <= n}) = k

\* The cards of a list that are of some posts, in their order.
Only(cs, posts) ==
    LET kept == {i \in DOMAIN cs : cs[i].post \in posts}
    IN  [k \in 1..Cardinality(kept) |-> cs[Nth(kept, k)]]

Pending == [code |-> "pending", items |-> <<>>, next |-> 0]
Failed(code) == [Pending EXCEPT !.code = code]

Fetch(kind, f, cursor) ==
    [kind |-> kind, filters |-> f, cursor |-> cursor, ans |-> Pending, old |-> FALSE]

\* load() up to its await.
Load(f) ==
    /\ Len(calls) < MaxCalls
    /\ calls' = Append(calls, Fetch("load", f, 0))
    /\ error' = FALSE

Init ==
    /\ cards = <<>> /\ next = 0
    /\ loading = TRUE /\ refreshing = FALSE /\ loadingMore = FALSE
    /\ error = FALSE /\ offline = FALSE
    /\ chosen = {} /\ typed = FALSE /\ searched = FALSE /\ located = FALSE
    /\ calls = <<Fetch("load", {}, 0)>>
    /\ stream = "opening" /\ events = <<>>
    /\ left = [p \in Posts |-> IF p \in Posted THEN Portions ELSE 0]
    /\ stored = left /\ clock = 0
    /\ astray = TRUE /\ presses = 0 /\ changes = 0 /\ losses = 0

-----------------------------------------------------------------------------
(* What changes the filters.  Each change is a new load(), and a change of *)
(* scope reconnects the stream.                                            *)

Refilter(ch, loc, q) ==
    /\ chosen' = ch /\ located' = loc /\ searched' = q
    /\ Load(Wanted(ch, loc, q))
    /\ IF Scoped(ch, loc) = Scoped(chosen, located) THEN UNCHANGED <<stream, events>>
       ELSE stream' = "opening" /\ events' = <<>>

\* useDeviceLocation answers with a fix; a refusal changes nothing here.
Locate ==
    /\ ~located
    /\ Refilter(chosen, TRUE, searched)
    /\ UNCHANGED <<list, flags, offline, typed, server, astray, bounds>>

Press == presses < MaxPresses /\ presses' = presses + 1 /\ ~loading

\* A chip, or a choice on the filter sheet, which offers no radius without a
\* fix; "All" and "Clear all" drop every chip but not the search.
Choose(ch) ==
    /\ Press
    /\ ch \in {chosen \cup {"tags"}, chosen \ {"tags"}, chosen \ {"near"}, {}}
              \cup (IF located THEN {chosen \cup {"near"}} ELSE {})
    /\ ch # chosen
    /\ Refilter(ch, located, searched)
    /\ UNCHANGED <<list, flags, offline, typed, server, astray, changes, losses>>

Type ==
    /\ Press
    /\ typed' = ~typed
    /\ UNCHANGED <<list, flags, trouble, chosen, searched, located, calls,
                   stream, events, server, astray, changes, losses>>

\* 350 ms after the last keystroke.
Debounced ==
    /\ typed # searched
    /\ Refilter(chosen, located, typed)
    /\ UNCHANGED <<list, flags, offline, typed, server, astray, bounds>>

-----------------------------------------------------------------------------
(* What else fetches.                                                      *)

\* The list, rather than the offline page or the message in its place.
ListOnScreen == ~loading /\ ~error /\ ~(offline /\ cards = <<>>)

Pull ==
    /\ Press /\ ListOnScreen
    /\ refreshing' = TRUE
    /\ Load(Sent)
    /\ UNCHANGED <<list, loading, loadingMore, offline, filters, stream, events,
                   server, astray, changes, losses>>

TryAgain ==
    /\ Press /\ ~ListOnScreen
    /\ Load(Sent)
    /\ UNCHANGED <<list, flags, offline, filters, stream, events, server, astray, changes, losses>>

\* Scrolled to the end: loadMore().
LoadMore ==
    /\ Press /\ ListOnScreen /\ cards # <<>>
    /\ next # 0 /\ ~loadingMore
    /\ Len(calls) < MaxCalls
    /\ loadingMore' = TRUE
    /\ calls' = Append(calls, Fetch("more", Sent, next))
    /\ UNCHANGED <<list, loading, refreshing, trouble, filters, stream, events,
                   server, astray, changes, losses>>

\* Mutant: the interval of the full-page notice only.
RetryEmpty ==
    /\ offline /\ cards = <<>>
    /\ Load(Sent)
    /\ UNCHANGED <<list, flags, offline, filters, stream, events, server, astray, bounds>>

\* The interval that runs while the screen believes it is offline.
Retry ==
    /\ offline
    /\ Load(Sent)
    /\ UNCHANGED <<list, flags, offline, filters, stream, events, server, astray, bounds>>

\* Mutant: "expired listings used to sit there until something else refetched".
PruneNever == FALSE /\ UNCHANGED vars

\* The timer of the soonest deadline, which the list's own change sets again.
Prune ==
    /\ \E p \in Shown : p <= clock
    /\ cards' = Only(cards, {p \in Posts : p > clock})
    /\ UNCHANGED <<next, flags, trouble, filters, calls, stream, events, server,
                   astray, bounds>>

-----------------------------------------------------------------------------
(* The stream.                                                             *)

\* subscribeToListings() resolves; one for a scope given up closes at once.
Opened ==
    /\ stream = "opening" /\ stream' = "open"
    /\ UNCHANGED <<feed, calls, events, server, astray, bounds>>

\* Answers under way that are older than what the screen learns now.
Overtaken(cs, OlderThan(_)) ==
    [j \in DOMAIN cs |-> [cs[j] EXCEPT !.old = @ \/ OlderThan(j)]]

Served(j) == calls[j].ans # Pending

\* Mutants: the count is not patched; a sold-out post is not taken off.
PatchedStatusOnly(e) ==
    IF e.left > 0 THEN cards ELSE Only(cards, Posts \ {e.post})
PatchedAlways(e) ==
    [i \in DOMAIN cards |-> IF cards[i].post = e.post THEN [cards[i] EXCEPT !.left = e.left]
                            ELSE cards[i]]

\* A post the list does not have is refetched for, a known one is patched
\* where it stands or taken off.
Patched(e) ==
    IF e.left > 0
    THEN [i \in DOMAIN cards |-> IF cards[i].post = e.post THEN [cards[i] EXCEPT !.left = e.left]
                                 ELSE cards[i]]
    ELSE Only(cards, Posts \ {e.post})

Deliver ==
    /\ stream = "open" /\ events # <<>>
    /\ events' = Tail(events)
    /\ LET e == Head(events) IN
       IF e.post \in Shown
       THEN /\ cards' = Patched(e)
            /\ calls' = Overtaken(calls, Served)
            /\ astray' = (astray \/ e.old)
            /\ UNCHANGED error
       ELSE /\ Len(calls) < MaxCalls
            /\ calls' = Append(Overtaken(calls, Served), Fetch("load", Sent, 0))
            /\ error' = FALSE
            /\ UNCHANGED <<cards, astray>>
    /\ UNCHANGED <<next, flags, offline, filters, stream, server, bounds>>

-----------------------------------------------------------------------------
(* The server and the network.                                             *)

Event == changes < MaxChanges /\ changes' = changes + 1
Loss == losses < MaxLosses /\ losses' = losses + 1

\* A post goes up, is claimed from, gets a portion back, or is withdrawn, by
\* somebody's request.  A stream that is open carries it, if its scope does.
Change(p) ==
    /\ Event /\ p > clock /\ Free(p)
    /\ \E n \in 0..Portions \ {left[p]} :
        /\ left' = [left EXCEPT ![p] = n]
        /\ IF stream = "open"
           THEN /\ events' = IF Scoped(chosen, located) => p \in Fitting["near"]
                             THEN Append(events, [post |-> p, left |-> n, old |-> FALSE])
                             ELSE events
                /\ UNCHANGED <<calls, astray>>
           ELSE /\ calls' = Overtaken(calls, Served) /\ astray' = TRUE
                /\ UNCHANGED events
    /\ UNCHANGED <<feed, stream, stored, clock, presses, losses>>

\* Nobody is told, so an event still on its way is out of date.
Silently(p) ==
    /\ calls' = Overtaken(calls, Served) /\ astray' = TRUE
    /\ events' = [i \in DOMAIN events |-> [events[i] EXCEPT !.old = @ \/ events[i].post = p]]
    /\ UNCHANGED <<feed, stream, clock, presses>>

\* A sweep sets a scheduled post live, or gives back what was never collected.
Sweep(p) ==
    /\ Event /\ p > clock /\ Free(p)
    /\ \E n \in left[p] + 1..Portions : left' = [left EXCEPT ![p] = n]
    /\ stored' = left' /\ UNCHANGED losses
    /\ Silently(p)

\* The commit fails, or the process ends before it; what was told was not so.
Rollback(p) ==
    /\ Loss /\ ~Free(p)
    /\ left' = [left EXCEPT ![p] = stored[p]] /\ UNCHANGED <<stored, changes>>
    /\ Silently(p)

\* session_dependency(), once the answer and the background tasks are done.
Commit == \E p \in Unsaved :
    /\ stored' = [stored EXCEPT ![p] = left[p]]
    /\ UNCHANGED <<feed, calls, stream, events, left, clock, astray, bounds>>

Expire ==
    /\ Event /\ clock < PostCount /\ clock' = clock + 1
    /\ UNCHANGED <<feed, calls, stream, events, left, stored, astray, presses, losses>>

\* GET /listings: the next page after the cursor, and a cursor if there is more.
Page(f, cursor) ==
    LET found == {p \in Available \cap Matches(f) : p > cursor}
        n == Min({PageSize, Cardinality(found)})
    IN  [code |-> "200", items |-> [i \in 1..n |-> Card(Nth(found, i))],
         next |-> IF n < Cardinality(found) THEN Nth(found, n) ELSE 0]

\* A page read before a change to it is committed, when the event that told of
\* it is past, is out of date from the start.
Early(f) == \E p \in Unsaved \cap Matches(f) : \A k \in DOMAIN events : events[k].post # p

Serve == \E i \in DOMAIN calls :
    LET c == calls[i] IN
    /\ c.ans = Pending
    /\ calls' = [calls EXCEPT ![i].ans = Page(c.filters, c.cursor), ![i].old = @ \/ Early(c.filters)]
    /\ UNCHANGED <<feed, stream, events, server, astray, bounds>>

\* While the network is out a fetch is lost, or answered with 200 and something
\* that is not the API's, as behind a captive portal.
Lose == \E i \in DOMAIN calls, code \in {"lost", "garbled"} :
    /\ Loss /\ calls[i].ans.code \notin {"lost", "garbled"}
    /\ calls' = [calls EXCEPT ![i].ans = Failed(code)]
    /\ UNCHANGED <<feed, stream, events, server, astray, presses, changes>>

-----------------------------------------------------------------------------
(* Answers.                                                                *)

\* load() after its await.  A lost request is an ApiError too (request() in
\* api.ts throws one with status 0); what is not one is an answer that no
\* page can be read from.
LoadAnswered(i) ==
    LET c == calls[i] IN
    /\ c.kind = "load"
    /\ loading' = FALSE /\ refreshing' = FALSE
    /\ calls' = RemoveAt(Overtaken(calls, LAMBDA j : j < i \/ calls[j].kind = "more"), i)
    /\ \/ /\ c.ans.code = "200"
          /\ cards' = c.ans.items /\ next' = c.ans.next
          /\ offline' = FALSE /\ astray' = c.old
          /\ UNCHANGED error
       \/ /\ c.ans.code = "lost"
          /\ error' = TRUE /\ offline' = FALSE
          /\ UNCHANGED <<list, astray>>
       \/ /\ c.ans.code = "garbled"
          /\ error' = FALSE /\ offline' = TRUE
          /\ UNCHANGED <<list, astray>>
    /\ UNCHANGED loadingMore

\* Mutant: a page is appended as it comes.
UnseenAll(items) == items

\* loadMore() after its await: what the list has already is left out.
Unseen(items) == Only(items, Posts \ Shown)

\* Mutant: the flag is cleared on success only.
MoreAnsweredNoFinally(i) ==
    LET c == calls[i] IN
    /\ c.kind = "more"
    /\ calls' = RemoveAt(calls, i)
    /\ \/ /\ c.ans.code = "200" /\ loadingMore' = FALSE
          /\ cards' = cards \o Unseen(c.ans.items) /\ next' = c.ans.next
          /\ astray' = (astray \/ c.old)
       \/ c.ans.code \in {"lost", "garbled"} /\ UNCHANGED <<list, astray, loadingMore>>
    /\ UNCHANGED <<loading, refreshing, trouble>>

MoreAnswered(i) ==
    LET c == calls[i] IN
    /\ c.kind = "more"
    /\ loadingMore' = FALSE
    /\ calls' = RemoveAt(calls, i)
    /\ \/ /\ c.ans.code = "200"
          /\ cards' = cards \o Unseen(c.ans.items) /\ next' = c.ans.next
          /\ astray' = (astray \/ c.old)
       \/ c.ans.code \in {"lost", "garbled"} /\ UNCHANGED <<list, astray>>
    /\ UNCHANGED <<loading, refreshing, trouble>>

Receive == \E i \in DOMAIN calls :
    /\ Served(i)
    /\ LoadAnswered(i) \/ MoreAnswered(i)
    /\ UNCHANGED <<filters, stream, events, server, bounds>>

Person == Pull \/ TryAgain \/ LoadMore \/ Type \/ \E ch \in SUBSET Kinds : Choose(ch)

\* Timers fire, and what is asked is answered or lost.
System == Debounced \/ Retry \/ Prune \/ Opened \/ Deliver \/ Receive \/ Serve \/ Commit

Next ==
    \/ Person \/ System \/ Locate \/ Lose \/ Expire
    \/ \E p \in Posts : Change(p) \/ Sweep(p) \/ Rollback(p)

Spec == Init /\ [][Next]_vars
FairSpec == Spec /\ WF_vars(System)

-----------------------------------------------------------------------------
Page200(a) == a.code = "200" => \A i \in DOMAIN a.items : a.items[i].left > 0

TypeOK ==
    /\ \A i \in DOMAIN cards : cards[i] \in [post: Posts, left: 1..Portions]
    /\ next \in 0..PostCount
    /\ {loading, refreshing, loadingMore, error, offline, typed, searched,
        located, astray} \subseteq BOOLEAN
    /\ chosen \subseteq {"tags", "near"}
    /\ \A i \in DOMAIN calls :
        /\ calls[i].kind \in {"load", "more"}
        /\ calls[i].filters \subseteq Kinds
        /\ calls[i].cursor \in 0..PostCount
        /\ Page200(calls[i].ans)
    /\ stream \in {"opening", "open"}
    /\ {left, stored} \subseteq [Posts -> 0..Portions] /\ clock \in 0..PostCount

\* No post is on the list twice, however a page, a reload and an event meet.
NoDuplicates == \A i, j \in DOMAIN cards : cards[i].post = cards[j].post => i = j

\* Nothing is under way, at the phone or at the API, and nothing was overtaken
\* or missed on the way here.
Settled ==
    /\ calls = <<>> /\ events = <<>> /\ Unsaved = {}
    /\ ~astray /\ ~error /\ ~offline /\ typed = searched

\* At rest every card shows a post that fits the filters on screen, with the
\* portions it really has: unless a sweep changed one since the last reload, or
\* the last reload was served between a change's event and its commit.
CardsAreTrue ==
    Settled => \A i \in DOMAIN cards : LET c == cards[i] IN
        c.post > clock => c.post \in Matches(Sent) /\ c.left = stored[c.post]

\* At rest no available post that fits is missing up to the place the list has
\* been scrolled to: "a missing listing is indistinguishable from an empty feed".
NothingMissing ==
    Settled => \A p \in Available \cap Matches(Sent) :
        p \in Shown \/ (next # 0 /\ p > next)

\* Every spinner stops, whatever is lost and however fetches overlap.
SpinnersStop == []<>(~loading /\ ~refreshing /\ ~loadingMore)

\* A post past its deadline leaves the list without anybody refetching, also
\* when an answer from before the deadline brings it back.
ExpiredLeave == []<>(\A p \in Shown : p > clock)

\* The offline notice keeps checking until the network is back.
OfflineEnds == []<>~offline

\* "a screen that recovers on its own is the difference between waiting and
\* being stuck": also when the request never arrived.
FeedRecovers == []<>~(error \/ offline)
=============================================================================
