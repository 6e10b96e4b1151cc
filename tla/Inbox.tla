------------------------------- MODULE Inbox --------------------------------
(***************************************************************************)
(* Notifications on one phone: the list                                    *)
(* (src/mobile/src/components/NotificationsList.tsx), whose rows are       *)
(* deleted before the API agrees; the dot on the bell                      *)
(* (src/mobile/src/context/UnreadContext.tsx), a number that several       *)
(* screens change; and the API's rows, to which notifications are added    *)
(* meanwhile and which it commits after it has answered                    *)
(* (src/api/db.py, session_dependency).  A host has two such lists, the    *)
(* Activity tab's and the one the bell opens: this is either of them, and  *)
(* the other is there by what it sends.                                    *)
(***************************************************************************)
EXTENDS Integers, SequencesExt, FiniteSetsExt

CONSTANTS
    Notes,      \* the notifications there will ever be
    MaxCalls,   \* bound: requests outstanding
    MaxPresses, \* bound: what the person sends off
    MaxEvents,  \* bound: notifications that arrive, pushes ahead of them,
                \* requests that are lost and commits that fail
    None        \* null

ASSUME InboxAssumption ==
    /\ IsFiniteSet(Notes) /\ None \notin Notes
    /\ MaxCalls \in Nat \ {0} /\ {MaxPresses, MaxEvents} \subseteq Nat

Rows == [id: Notes, read: BOOLEAN]

VARIABLES
    \* the list, while mounted
    mounted, items, loading,
    \* the rows `Clear all' was pressed over, while its dialog is up
    asking,
    \* UnreadContext
    unread,
    \* requests outstanding, in the order sent; a push on its way
    calls, pushed,
    \* the API: what became of each notification, what other requests can read
    \* of that, and the rows each transaction that has not committed has written
    notes, stored, open,
    \* history: what the list was given when it loaded, and what another list
    \* removed since it was mounted; the list, or the dot, was changed by
    \* something that ran over something else
    known, elsewhere, astray, stale, presses, changes

list == <<mounted, items, loading>>
server == <<notes, stored, open>>
history == <<known, elsewhere, astray, stale, presses, changes>>
vars == <<list, asking, unread, calls, pushed, server, history>>

KeptIn(ns) == {n \in Notes : ns[n] \in {"unread", "read"}}
UnreadIn(ns) == {n \in Notes : ns[n] = "unread"}
Kept == KeptIn(notes)
Unsaved == UNION open
Ids(rows) == {r.id : r \in rows}

\* `rows' is what the handler puts back if the request fails.
Call(kind, rows) ==
    [kind |-> kind, rows |-> rows, code |-> "pending", served |-> FALSE,
     body |-> {}, count |-> 0, gone |-> FALSE, old |-> FALSE]

Removals == {"delete", "clear"}
Removing(cs) == \E i \in DOMAIN cs : cs[i].kind \in Removals
Owed(c) == ~c.gone /\ c.kind \in Removals

\* UnreadProvider counts when the app starts.
Init ==
    /\ mounted = FALSE /\ items = {} /\ loading = FALSE
    /\ asking = None /\ unread = 0
    /\ calls = <<Call("count", {})>> /\ pushed = FALSE
    /\ notes \in [Notes -> {"none", "unread", "read"}] /\ stored = notes /\ open = {}
    /\ known = {} /\ elsewhere = {} /\ astray = FALSE /\ stale = TRUE
    /\ presses = 0 /\ changes = 0

-----------------------------------------------------------------------------
(* The person.                                                             *)

Press ==
    /\ asking = None /\ Len(calls) < MaxCalls
    /\ presses < MaxPresses /\ presses' = presses + 1
    /\ UNCHANGED <<pushed, server, changes>>

\* The bell, or the Activity tab: the list loads when it is mounted.
Open ==
    /\ Press /\ ~mounted
    /\ mounted' = TRUE /\ loading' = TRUE /\ items' = {}
    /\ known' = {} /\ elsewhere' = {} /\ astray' = FALSE
    /\ calls' = Append(calls, Call("list", {}))
    /\ UNCHANGED <<asking, unread, stale>>

\* What is under way goes on; only the dot still hears of it.
Close ==
    /\ asking = None /\ mounted /\ mounted' = FALSE
    /\ items' = {} /\ loading' = FALSE /\ known' = {} /\ elsewhere' = {}
    /\ calls' = [i \in DOMAIN calls |-> [calls[i] EXCEPT !.gone = TRUE]]
    /\ UNCHANGED <<asking, unread, pushed, server, astray, stale, presses, changes>>

\* Coming back to the app: the dot is counted again.
Foreground ==
    /\ Press
    /\ calls' = Append(calls, Call("count", {}))
    /\ UNCHANGED <<list, asking, unread, known, elsewhere, astray, stale>>

\* Mutant: the dot counts below zero.
DropBelow(row) == IF row.read THEN unread ELSE unread - 1

\* Deleting a row that shows as unread takes one off the dot.
Drop(row) == IF row.read \/ unread = 0 THEN unread ELSE unread - 1

\* onDelete(), up to its await.
Delete(row) ==
    /\ Press /\ mounted /\ ~loading /\ row \in items
    /\ unread' = Drop(row)
    /\ items' = items \ {row}
    /\ calls' = Append(calls, Call("delete", {row}))
    /\ UNCHANGED <<mounted, loading, asking, known, elsewhere, astray, stale>>

AskClear ==
    /\ Press /\ mounted /\ ~loading /\ items # {}
    /\ asking' = items
    /\ UNCHANGED <<list, unread, calls, known, elsewhere, astray, stale>>

\* onClearAll() after the dialog: it holds on to the rows it was pressed over.
Settle(accepted) ==
    /\ asking # None /\ asking' = None
    /\ IF accepted
       THEN /\ items' = {} /\ unread' = 0
            /\ astray' = (astray \/ asking # items \/ \E i \in DOMAIN calls : Owed(calls[i]))
            /\ calls' = Append(calls, Call("clear", asking))
       ELSE UNCHANGED <<items, unread, astray, calls>>
    /\ UNCHANGED <<mounted, loading, pushed, server, known, elsewhere, stale, presses, changes>>

\* The other list: it loads, and removes rows of its own (which this one may
\* have removed already).  The dot is shared.
Elsewhere ==
    /\ Press
    /\ \/ /\ calls' = Append(calls, [Call("list", {}) EXCEPT !.gone = TRUE])
          /\ UNCHANGED unread
       \/ \E row \in Rows :
            /\ stored[row.id] # "none" /\ (row.read => stored[row.id] # "unread")
            /\ unread' = Drop(row)
            /\ calls' = Append(calls, [Call("delete", {row}) EXCEPT !.gone = TRUE])
       \/ /\ unread' = 0
          /\ calls' = Append(calls, [Call("clear", {}) EXCEPT !.gone = TRUE])
    /\ UNCHANGED <<list, asking, known, elsewhere, astray, stale>>

-----------------------------------------------------------------------------
(* The API.                                                                *)

Event == changes < MaxEvents /\ changes' = changes + 1

\* Something happens that the person should know of; the push may not come.
Arrive(n) ==
    /\ Event /\ notes[n] = "none"
    /\ notes' = [notes EXCEPT ![n] = "unread"] /\ stored' = [stored EXCEPT ![n] = "unread"]
    /\ pushed' \in {TRUE, pushed}
    /\ UNCHANGED <<list, asking, unread, calls, open, known, elsewhere, astray, stale, presses>>

\* The push may also come before the row is committed, which may yet fail.
PushAhead ==
    /\ Event /\ ~pushed /\ pushed' = TRUE
    /\ UNCHANGED <<list, asking, unread, calls, server, known, elsewhere, astray, stale, presses>>

\* Lists and counts read before the rows were changed are out of date.
Aged(cs) ==
    [j \in DOMAIN cs |->
        [cs[j] EXCEPT !.old = @ \/ (cs[j].kind \in {"list", "count"} /\ cs[j].served)]]

Served(i, code) == [calls EXCEPT ![i].served = TRUE, ![i].code = code]

\* The rows a statement works on, of those it can see: POST /notifications/read;
\* DELETE /notifications/{id}; DELETE /notifications.
Target(c) ==
    CASE c.kind = "mark" -> UnreadIn(stored)
      [] c.kind = "delete" -> Ids(c.rows) \cap KeptIn(stored)
      [] OTHER -> KeptIn(stored)

\* GET /notifications, which the dot reads too, finds what is committed.  The
\* others wait for whoever has written their rows; only a deletion fails, for
\* a row that is gone.
Serve == \E i \in DOMAIN calls :
    LET c == calls[i]
        T == Target(c)
    IN
    /\ c.code = "pending"
    /\ \/ /\ c.kind \in {"list", "count"}
          /\ calls' = [Served(i, "200") EXCEPT
                         ![i].body = {[id |-> n, read |-> stored[n] = "read"] : n \in KeptIn(stored)},
                         ![i].count = Cardinality(UnreadIn(stored)),
                         ![i].old = (open # {})]
          /\ UNCHANGED <<server, elsewhere>>
       \/ /\ c.kind = "delete" /\ T = {}
          /\ calls' = Served(i, "404")
          /\ UNCHANGED <<server, elsewhere>>
       \/ /\ c.kind \in {"mark", "clear"} \/ (c.kind = "delete" /\ T # {})
          /\ T \cap Unsaved = {}
          /\ notes' = [n \in Notes |-> IF n \notin T THEN notes[n]
                                       ELSE IF c.kind = "mark" THEN "read" ELSE "gone"]
          /\ open' = IF T = {} THEN open ELSE open \cup {T}
          /\ elsewhere' = IF c.kind = "mark" \/ ~c.gone \/ ~mounted THEN elsewhere
                          ELSE elsewhere \cup T
          /\ calls' = Aged(Served(i, "200"))
          /\ UNCHANGED stored
    /\ UNCHANGED <<list, asking, unread, pushed, known, astray, stale, presses, changes>>

\* session_dependency: the answer leaves first, and the commit may fail.
Commit == \E T \in open :
    /\ stored' = [n \in Notes |-> IF n \in T THEN notes[n] ELSE stored[n]]
    /\ open' = open \ {T}
    /\ UNCHANGED <<list, asking, unread, calls, pushed, notes, history>>

Rollback == \E T \in open :
    /\ Event
    /\ notes' = [n \in Notes |-> IF n \in T THEN stored[n] ELSE notes[n]]
    /\ open' = open \ {T}
    /\ astray' = TRUE /\ elsewhere' = elsewhere \ T
    /\ UNCHANGED <<list, asking, unread, calls, pushed, stored, known, stale, presses>>

\* A request or its answer is lost.
Lose == \E i \in DOMAIN calls :
    /\ Event /\ calls[i].code # "lost"
    /\ calls' = [calls EXCEPT ![i].code = "lost"]
    /\ UNCHANGED <<list, asking, unread, pushed, server, known, elsewhere, astray, stale, presses>>

-----------------------------------------------------------------------------
(* Answers.                                                                *)

Rest(i) == RemoveAt(calls, i)
Got(i, code) == calls[i].code = code

\* refresh().  A count read while something is being removed counts it too.
CountAnswered(i) ==
    LET c == calls[i] IN
    /\ c.kind = "count"
    /\ IF Got(i, "200") THEN unread' = c.count /\ stale' = (c.old \/ Removing(Rest(i)))
       ELSE UNCHANGED <<unread, stale>>
    /\ calls' = RemoveAt([j \in DOMAIN calls |->
                            [calls[j] EXCEPT !.old = @ \/ (j < i /\ calls[j].kind = "count")]], i)
    /\ UNCHANGED <<list, known, astray>>

\* load() after its first await: the spinner stays until the second is over.
ListAnswered(i) ==
    LET c == calls[i]
        more == Got(i, "200") /\ c.count > 0
        mark == [Call("mark", {}) EXCEPT !.gone = c.gone]
    IN
    /\ c.kind = "list"
    /\ calls' = IF more THEN Append(Rest(i), mark) ELSE Rest(i)
    /\ IF c.gone THEN UNCHANGED <<items, loading, known, astray>>
       ELSE /\ IF Got(i, "200")
               THEN items' = c.body /\ known' = Ids(c.body)
                    /\ astray' = c.old
               ELSE UNCHANGED <<items, known, astray>>
            /\ loading' = more
    /\ UNCHANGED <<mounted, unread, stale>>

\* Mutant: opening the list leaves the dot to the next count.
MarkAnsweredNoClear(i) ==
    LET c == calls[i] IN
    /\ c.kind = "mark"
    /\ loading' = (loading /\ c.gone)
    /\ calls' = Rest(i) /\ stale' = (stale \/ (Got(i, "lost") /\ c.served))
    /\ UNCHANGED <<mounted, items, unread, known, astray>>

\* load() after its second await: "Opening this screen is what seen means".
MarkAnswered(i) ==
    LET c == calls[i] IN
    /\ c.kind = "mark"
    /\ unread' = IF Got(i, "200") THEN 0 ELSE unread
    /\ loading' = (loading /\ c.gone)
    /\ calls' = Rest(i)
    /\ stale' = (stale \/ (Got(i, "lost") /\ c.served))
    /\ UNCHANGED <<mounted, items, known, astray>>

\* Mutant: a failed deletion takes the row off all the same.
PutBackNone(c) == items

\* What a failed removal shows again: one row among the others, or all the
\* rows there were.
PutBack(c) == IF c.kind = "delete" THEN items \cup c.rows ELSE c.rows

\* onDelete() and onClearAll() after their awaits.  The dot does not go back.
RemovalAnswered(i) ==
    LET c == calls[i] IN
    /\ c.kind \in Removals
    /\ items' = IF c.gone \/ Got(i, "200") THEN items ELSE PutBack(c)
    /\ astray' = (astray \/ (Got(i, "lost") /\ c.served))
    /\ calls' = Rest(i)
    /\ UNCHANGED <<mounted, loading, unread, known, stale>>

Receive == \E i \in DOMAIN calls :
    /\ calls[i].code # "pending"
    /\ CountAnswered(i) \/ ListAnswered(i) \/ MarkAnswered(i) \/ RemovalAnswered(i)
    /\ UNCHANGED <<asking, pushed, server, elsewhere, presses, changes>>

\* usePushNavigation: a push counts again; the list does not move.
OnPush ==
    /\ pushed /\ pushed' = FALSE /\ Len(calls) < MaxCalls
    /\ calls' = Append(calls, Call("count", {}))
    /\ UNCHANGED <<list, asking, unread, server, history>>

Person ==
    \/ Open \/ Close \/ Foreground \/ AskClear \/ Settle(TRUE) \/ Settle(FALSE)
    \/ Elsewhere \/ \E row \in items : Delete(row)

System == Serve \/ Commit \/ Rollback \/ PushAhead \/ \E n \in Notes : Arrive(n)

Next == Person \/ System \/ Receive \/ OnPush \/ Lose

Spec == Init /\ [][Next]_vars

-----------------------------------------------------------------------------
TypeOK ==
    /\ items \subseteq Rows /\ Cardinality(Ids(items)) = Cardinality(items)
    /\ asking = None \/ asking \subseteq Rows
    /\ unread \in 0..Cardinality(Notes)
    /\ {notes, stored} \subseteq [Notes -> {"none", "unread", "read", "gone"}]
    /\ open \subseteq SUBSET Notes /\ elsewhere \subseteq Notes
    /\ {mounted, loading, pushed, astray, stale} \subseteq BOOLEAN
    /\ loading => mounted

AtRest == calls = <<>> /\ open = {}

\* However many rows are being deleted at once and whichever of them fail, at
\* rest the list has what it loaded less what the API has let go of: nothing
\* comes back from the dead and nothing is dropped that the API still has,
\* unless it was read across another change, an answer was lost, a commit
\* failed or `Clear all' ran over a deletion.  Rows a second list removed are
\* the exception: this one may go on showing them.
ListIsTrue ==
    AtRest /\ asking = None /\ mounted /\ ~loading /\ ~astray
        => Ids(items) \ elsewhere = known \cap Kept

\* "The dot must not outlive the thing it was pointing at": at rest, when
\* nothing is unread, there is no dot, unless its count was overtaken, was read
\* while something was being removed or had yet to be committed, or an answer
\* was lost.
DotNeverOutlives ==
    AtRest /\ ~pushed /\ ~stale /\ UnreadIn(notes) = {} => unread = 0
=============================================================================
