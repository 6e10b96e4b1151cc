# EcoEats, formally

TLA+ models of the EcoEats backend and of the mobile app that talks to it, the TLC
configurations that check them on small instances, and machine-checked proofs about
the backend's claims and listings and about the screens of the app. Everything here is written from the code in
`src/`; line numbers in `PROJECT.json` say which code each definition stands for.

EcoEats lets an organizer post surplus food in portions, with an expiry of at most
an hour, and lets recipients reserve portions for twenty minutes. The invariant
the product stands on is in `src/tests/test_claims_concurrency.py`: portions on the
shelf plus portions reserved always equals what was posted. Several web workers,
each with its own background sweeper, share one PostgreSQL database, so almost
every hard question about the backend is one about interleaved transactions. The app
has no threads, but every `await` in it lets other handlers, timers, events and
answers run, so almost every hard question about the app is one about what happened
between a request and its answer.

    tlc -workers 2 -config ClaimFlow_safety.cfg MCClaimFlow.tla     # about 3 minutes
    tlc -workers 2 -config Session_orderly.cfg MCSession.tla        # about 1 minute
    tlapm ClaimFlow_proofs.tla                                      # about 3 minutes
    tlapm Marketplace_proofs.tla                                    # about 2 minutes
    tlapm Session_proofs.tla                                        # about 5 minutes
    tlapm Feed_proofs.tla                                           # about 2 minutes
    tlapm Pickup_proofs.tla                                         # about 1 minute
    tlapm Desk_proofs.tla                                           # about 2 minutes
    tlapm Inbox_proofs.tla                                          # about 3 minutes
    tlapm Composer_proofs.tla                                       # about 1 minute

## 1. Inventory

### The backend (`src/api`)

| Component | State | Operations | What makes it correct |
| --- | --- | --- | --- |
| Claims (`services/claims.py`, `routers/claims.py`) | `claims` rows; `quantity_remaining` and `status` of `listings` | claim, picked up, no show, cancel, rate; the reservation sweep | portions are conserved; a claim is resolved once; a post's status agrees with its shelf; lapsed reservations come back |
| Listing rules (`services/listings.py`) | none (pure) | transitions, expiry, editability, resizing | a resize never offers less than nothing; terminal posts stay terminal |
| Listing endpoints (`routers/listings.py`) | `listings` rows | create, update, cancel; browse, photos, saved posts, the event stream | an edit does not undo what claims did meanwhile; drafts carry no claims |
| Scheduler (`services/scheduler.py`, `main.py`) | one task per worker | three sweeps per pass, for ever | failed passes do not stop the loop; every sweep eventually does its work |
| Database sessions (`db.py`) | a transaction per request | commit when the dependency is left, after the answer and the background tasks; rollback on an error | a reservation and its count appear together |
| Accounts (`routers/users.py`, `services/merge.py`, `deps.py`) | `users` rows, roles, terms | register, accept terms, switch role, delete, merge | no role that contradicts open claims and posts; deletion and merge give portions back |
| Tokens (`auth/`) | a cache of account states | verify, forget | a disabled account is not served from an old cache entry |
| Event bus (`events.py`) | subscriber queues (100 events), a Redis reader | publish, subscribe | events reach open streams, in order |
| Rate limiter (`ratelimit.py`) | counters per window | hit | at most the limit per window; failing open |
| Moderation (`services/moderation.py`) | blocks, reports | block, report | a blocked pair does not meet; reports outlive their subject |
| Push and notifications (`services/push.py`, `notify.py`, `routers/devices.py`, `notifications.py`) | device tokens, notification rows | register, send, prune receipts; list, mark read, delete, clear | a token belongs to the last account that registered it |
| Others | | uploads, Apple token calls, geometry, configuration, logging | little or no state |

### The app (`src/mobile`)

| Component | State | Operations | What makes it correct |
| --- | --- | --- | --- |
| Session (`AuthContext.tsx`, `_layout.tsx`, `api.ts`, `firebase.ts`, the entry screens, Profile, Settings) | status and profile, the route, the remembered push token, the mute preference; requests under way | sign in (password, Google, Apple), register, verify, choose a role, accept terms, save, switch role, mute, sign out, delete | the screen shown is that of the account signed in; nobody enters without accepting the terms of their role; signing out silences the phone; the splash ends |
| Feed (`RecipientFeed.tsx`, `listingStream.ts`, `FeedFilterSheet.tsx`) | the cards, the cursor, four flags, the filters, one subscription | load, next page, filter, search, pull, retry, prune, patch from an event | at rest the list is what the filters ask for; every spinner ends |
| Claims screens (`listing/[id].tsx`, `MyClaims.tsx`, `claims.ts`) | a listing and its stepper; the claims; one busy marker | claim, cancel, rate, reload on focus, push and lapsed hold | the rows agree with the server once told and committed; buttons come back |
| Host screens (`OrganizerHome.tsx`, `manage/[id].tsx`, `ConfirmDialog.tsx`) | the host's posts; one post and its claims; a dialog | publish, mark out of stock, end, hand over, no show | both screens agree with the server once told; dialogs and buttons come back |
| Notifications (`NotificationsList.tsx`, `UnreadContext.tsx`) | the rows (a host has two lists, the Activity tab's and the bell's), the count on the bell | list, mark read, delete, clear all, count | nothing returns from the dead; the dot does not outlive what it points at |
| Composer (`PostFood.tsx`, `useSpeech.ts`, `useDeviceLocation.ts`, `uploads.ts`, `VoicePanel.tsx`) | a form; an upload, a fix, a recogniser and posts under way | fill, dictate, add a photo, pin, clear, publish, schedule, save a draft | a cleared form stays clear; never too many photos; nothing stays busy |
| Others | | saved posts, moderation forms, password reset, legal texts, presentation | one request each, or no state |

`src/flutter_app` is an earlier client and `src/web` static pages.

### How they interact

* Requests and sweeps meet only in PostgreSQL: through row locks
  (`SELECT ... FOR UPDATE` in `create_claim` and `load_claim_for_update`), through the
  implicit row lock of every `UPDATE`, through unique keys and CHECK constraints.
* Handlers publish listing events after they have changed a row; the bus fans them
  out to open streams. The feed and the dashboard apply them over what they fetched;
  the sweeps publish nothing.
* A push tells the recipient's phone of a pickup, and the claims screen and the bell reload.
* With the pinned FastAPI (0.141.1, `requirements.lock`) the code after the `yield` of
  `session_dependency` runs when the response has been sent and its background tasks have
  ended. A handler that changes rows is therefore heard of in this order: the answer, the push
  (up to ten seconds of Expo), the event, the commit. Whoever is told may read before the commit.
* Account deletion and merging reach into claims and listings by cascade.
* Every worker's sweeper runs the same jobs on the same tables.
* In the app, `AuthContext` decides a status, the gate in `_layout.tsx` turns it into a
  screen, and the screens call back into `AuthContext`. Tabs stay mounted behind each other;
  pushed screens do not, but their handlers run on.

### Hard behaviours

The `hazards` of `PROJECT.json` list them at their lines. In the backend: two claims for
the last portion; two resolutions of one claim; clocks read before a wait and compared
after it; edits computed from a row read without a lock; CHECK constraints that make a
later statement fail; a process that dies between flush and commit; a sweep that is the
only thing that returns forgotten food; an answer, a push or an event that is ahead of its commit. In the app: answers that overtake each other or
never come, events that cross a fetch, a handler that resumes on a screen or an account
it was not started for, optimistic changes that fail, flags that only one path clears, a
launch after a process that died half-way.

## 2. The modules

    ListingRules        pure rules on a listing row
      |
      +-- Pantry            what the claim service promises, one atomic step per operation
      |     ^ refined by
      +-- ClaimFlow         claims, resolutions and the reservation sweep as transactions
            |-- MCClaimFlow, ClaimFlow_safety.cfg
            |-- ClaimFlow_proofs
            +-- Marketplace     plus create/update/cancel of listings and the other two sweeps
                  |-- MCMarketplace, Marketplace_*.cfg
                  +-- Marketplace_proofs (with ClaimFlow_proofs)

    Session    who is signed in on a phone         MCSession, Session_*.cfg     Session_proofs
    Feed       a recipient's list of food          MCFeed, Feed_*.cfg           Feed_proofs
    Pickup     reserving food and collecting it    MCPickup, Pickup_*.cfg       Pickup_proofs
    Desk       a host at work                      MCDesk, Desk_host.cfg        Desk_proofs
    Inbox      notifications on one phone          MCInbox, Inbox_phone.cfg     Inbox_proofs
    Composer   the form food is posted with        MCComposer, Composer_form.cfg  Composer_proofs

The six modules of the app have one shape. A request is a record of the sequence
`calls`: it is served once by an action that does to the API's rows what the endpoint
does, and its answer is received once by the action of the handler that waits for it;
in between anything may happen, and other requests may be served and received first.
`Lose` drops the request before it is served or the answer after it. JavaScript runs a
handler alone between two awaits, so every handler is one action per such stretch.
The handler's side of a request is one step here; that its transactions behave like
one step is what ClaimFlow and its refinement of Pantry are for.

The commit is a step of its own in the four modules that read what they have just been told of
(Pickup, Desk, Feed, Inbox). The rows as last written (`left`, `claim`, `post`, `notes`...) stand beside the
rows as committed, `stored`; the answer, the push and the event go out with the write, every GET reads
`stored`, `Commit` brings it up to date at any later moment and `Rollback` takes the write back. A transaction
that wants a row another has written waits (`Free`). A change that nobody is told of (the
sweeps', for one) is written and committed in one step: only a GET could tell the two apart, and it cannot
tell it from a later change. In Session write, answer and commit are one step: the endpoints
it calls have no background tasks, so the commit follows the answer at once. A request that overtakes it all the same (the
flush of Apple's code after a registration) and a commit that fails after its answer are left out there.

Screens that can drift from the server do so in known ways: an answer overtaken by
another, a change nobody announces, a lost answer, a fetch served between what told of a change and its
commit, a commit that fails. Nothing in the code repairs these before the next
fetch, so a history variable (`astray`, `missed`, `stale`, `early`, `elsewhere`, `old` of an answer, `orderly`, `left` of
Session) remembers that one happened and the properties about rest set such states aside. They are not
states the program cannot reach: each has a hazard in `PROJECT.json` that says what is left, and two of them
are runs that fail (section 3).

### ListingRules

`services/listings.py` operator by operator (`TRANSITIONS`, `CanTransition`,
`HasExpired`, `Editable`, `ApplyNewTotal`), on a record with the columns that matter:
`status`, `total` (`quantity_total`), `remaining` (`quantity_remaining`), `window`
(`expiry_minutes`), `expires` (`expires_at`), `scheduled` (`scheduled_for`). Title,
location, dietary tags and photos are left out: no rule reads them.

### ClaimFlow

*State.* `listings` and `claims` are the committed rows (claims keyed by listing and
recipient, as `uq_claim_per_recipient` makes them); `lock` the holder of each
listing's row lock; `txn` what every request slot and every sweeper is in the middle
of; `due` and `sweepNow` the batch and the clock reading of a sweep's pass; `clock`
the wall clock.

*A transaction is a process.* `idle -> waiting -> locked -> idle`:

| Action | Code |
| --- | --- |
| `RequestClaim` | `claim_food` and `create_claim` up to its `SELECT ... FOR UPDATE`; `now` is read here |
| `GrantClaim`, `RefuseClaim` | the lock arrives: status, expiry, quantity and duplicate checks; the new count and status |
| `RequestResolve` | the first, unlocked read of the claim in `load_claim_for_update` |
| `GrantResolve`, `RefuseResolve` | the lock, `db.refresh`, ownership, the guard and arithmetic of `resolve_claim` |
| `Commit`, `Rollback` | the end of `session_dependency`, or of the sweep's `session.begin()` |
| `ScanReservations`, `SweepNext` | the scan and the loop of `sweep_expired_reservations` |
| `Tick` | time passes |

Choices worth knowing:

* Isolation is READ COMMITTED, as configured by default: reads see the newest committed
  rows, writes are private until `Commit`. The waiters of a lock are not ordered
  (any may get it next), which allows more than PostgreSQL's queue does.
* `Updated` models SQLAlchemy's unit of work: the UPDATE carries the columns whose
  value changed, as absolute values, and applies to the newest committed row. There
  is no version column.
* The session commits when the request is finished with, after the answer and the background
  tasks, so a lock is held until then.
* Which of the checks refuses a request is not told apart; all of them end the
  transaction with nothing written.
* `Rollback` is possible at any moment a lock is held (a failed statement, a lost
  connection, a worker shut down); a transaction that dies earlier has done
  nothing, which the model shows as one that is never granted. A sweeper whose transaction fails drops the rest of its batch,
  because the exception leaves the loop.
* `Quantities` is a constant set: the schema allows 1 to 20, although a comment speaks
  of one portion per claim.
* A claim's `resolved_at`, messages, notifications and the block check before the
  lock are left out.

### Pantry

The abstract specification: a shelf of portions per post and, per recipient, a hand
that is filled once (`TakeInHand`) and emptied once (`Collect` or `PutBack`), each in
one atomic step. `ClaimFlow` refines it with `shelf` = `quantity_remaining` and `hand` =
the status and quantity of the claim. The step of Pantry happens at `Commit`;
everything else a transaction does is invisible.

### Marketplace

Everything else that writes a listing, in one specification with ClaimFlow. `Create`
makes an active, draft or scheduled post. `Update` and `Cancel` read the row without
a lock, decide, and queue their UPDATE (`Edit`, then `GrantEdit` when it gets the row);
they may therefore write over a row newer than the one they read. That is how a release
can come to break a CHECK (`RejectResolve`, here and not in ClaimFlow, where the counts
never allow it): the flush raises and a sweep drops the rest of its batch. A PATCH of descriptive
fields changes no modelled column and is left out. A sweeper's pass runs the reservation
sweep, then the finished listings, then the go-lives (`phase`); each of the two
lifecycle sweeps is one transaction that reads its rows (`snap`), locks them one by
one in key order (`LockSwept`) and writes them together (`CommitSwept`). Any part may
fail, and the pass goes on with the next sweep, as `run_sweeps` does.

### Session

*State.* `status`, `profile`, `pushToken`, `muted` are AuthContext's; `route` the router's;
`user`, `emailOk`, `tokenOk` Firebase's current user, whether it knows its address as confirmed, and
whether its bearer token says so; `identity`, `acct`, `device`, `attached` the server's
sign-in identities, accounts, the row of this phone's push token and stored Apple authorisations.

| Action | Code |
| --- | --- |
| `Register`, `SignIn`, `GoogleSignIn`, `AppleSignIn` | the buttons of `AuthScreen.tsx` up to Firebase's observer, with `resolve()` |
| `Refresh`, `ReloadAnswered` | "I've verified" and "Try again": `reloadUser()`, a fresh token, `resolve()` |
| `LoadAnswered`, `NextAttempt` | `resolveProfile()`: answer, refreshed token and repeat, pause, give up |
| `Submit`, `EntryAnswered`, `EditAnswered` | role, terms, save, switch of account type; the last with its navigation |
| `ToggleMute`, `PushOnAnswered`, `PushOffAnswered` | the mute switch and the push registration effect (`PushEffect`) |
| `SignOut`, `DeleteAnswered`, `DropSession` | the token back first, then Firebase, then the state |
| `Gate` | the redirects of `_layout.tsx` |

`Init` is any launch: Firebase's session, the preference and a registration for pushes survive the process, and the
last process may have died after any step of an entry. A launch that finds a row of the push token is
remembered (`left`) until this launch has registered the phone itself, since its token is not known before: signing out on the way
there, as the connection-problem screen offers, leaves the row where it is. Left out: the development sign-in
and linking a second way to sign in. A refused permission for pushes is
a lost registration.

### Feed

`cards` (posts with what is left of them) and `next` are the list; `chosen`, `typed`, `searched`,
`located` the filters; `stream` and `events` the subscription. Posts are numbered in the
order of their deadlines, which is the order of the keyset. `Load`, `LoadAnswered`,
`LoadMore`, `MoreAnswered`, `Pull`, `Refilter`, `Debounced`, `Retry`, `Prune` and `Patched` are the
functions and effects of `RecipientFeed.tsx`; `Page` is `browse` with its filters and its cursor;
`Opened` and `Deliver` are `subscribeToListings` and its callback; `Change` is whatever a request does to a post,
`Sweep` what the scheduler does (a go-live, a portion given back), which no stream carries. A change of scope
drops the events of the old stream. The time-window filter behaves like a tag and is one of them.
`Only` is the handlers' `filter()` and `Nth` the server's `ORDER BY`: they are counted out of sets, because
the library's `SelectSeq` and sorting operators cannot be reasoned about here (section 4).

### Pickup

`detail` is the listing screen (`OpenListing`, `StepQty`, `OnClaim`, `CreateAnswered`), `rows`, `busy` and
`handled` the claims screen (`Focus`, `Act`, `ActAnswered`, `OnExpiry`, `OnPush`, `Pull`,
`MineAnswered`). `hold` says how far a reservation's time has run: not out, out, out by more
than the screen's grace. `OthersAct`, `Tick` and `Sweep` are the rest of the world: a pickup pushes and commits later, a
no show and the sweep push nothing.

### Desk

`rows` is the dashboard (`Focus`, `DashAnswered`, `Publish`, `Patched`, `Deliver`), `manage` the management screen
(`ToggleStock`, `ConfirmPickup`, `ActAnswered`, `EndAnswered`), `asking` the dialog (`Ask`, `Settle`).
`Allowed` is the transition table. `RecipientActs` announces itself by an event, `Sweep` does
not. The two GETs of a load are served separately.

### Inbox

`items` is the list, `unread` the count, `notes` the rows of the API and `open` what each transaction not yet committed
has written. `Delete` and `Settle` remove before the API agrees; `RemovalAnswered` puts back what
failed. `Arrive` adds a notification and may push, which counts again (`OnPush`); `PushAhead` is a push ahead of its row.
A host has two lists mounted at once, the Activity tab's and the one the bell pushes. The module follows one of them; the
other's loads, deletions and `Clear all` are `Elsewhere`, whose answers reach only the shared dot. What it removes stays on
this list, and deleting it here ends in a 404 and a put-back: `elsewhere` names those rows. Left out: which row is slid
open, and the limit of fifty rows of the API's answer.

### Composer

`form` is the fields, `upload`, `fix`, `creates` and `mic` what is under way, by phase. `Uploaded`,
`Located`, `Created` and `Heard`/`Misheard`/`Ended`/`Permitted` are the continuations
of `addPhoto`, `useDeviceLocation`, `submit` and `useSpeech` (an empty phrase counts as spoken in the browser only); `platform` tells the browser's
recogniser, the phone's and neither apart. Fields that only fill the body of
the post are one (`rest`). The picker and the dialog are modal; the tab stays mounted.

## 3. What is checked

Every property of a passing run is paired in `PROJECT.json` with a mutation of the
code's logic that breaks it (a missing `FOR UPDATE`, no `db.refresh`, a dropped CHECK,
a forgotten `finally`, a screen that reloads on mount only...).

| Run | Instance | Shows |
| --- | --- | --- |
| `claims_safety` | 1 listing of 2 portions, 2 recipients, 2 requests, 1 sweeper, quantities 1 and 2 | `TypeOK`, `PortionsConserved`, `StatusMatchesShelf`, `BookedInDate`, `ResolvedIsFinal`; `PantrySpec` (refinement). 1.27 million states |
| `market` | 1 listing of 3, resized to 2, live at once, draft or scheduled; a claim slot, an edit slot, a sweeper; fairness | `MarketTypeOK`, `StockWithinBounds`, `PreliveIsUnclaimed`, `ReservedFromTheShelf` in spite of stale edits; `ScheduledGoesLive`, `FinishedIsExpired`, `LapsedIsReleased`. 129 000 states |
| `session` | 2 people, one with Apple; 1 retry, 2 requests under way, 3 presses after a launch | `EntersAccepted`, `AccountIsOwn`, `SilentPhone`, `InOwnHalf`, `AlwaysSettles`. 504 000 states |
| `feed` | 3 posts in pages of 1, 2 fetches under way, 2 presses, 1 change, 1 loss | `NoDuplicates`, `CardsAreTrue`, `NothingMissing`, `SpinnersStop`, `ExpiredLeave`, `OfflineEnds`. 645 000 states |
| `pickup` | 2 posts of 2 portions, 2 requests under way, 3 presses, 1 event | `RowsAreTrue`, `AskedOnce`, `NothingStaysBusy`. 1.4 million states |
| `desk` | 1 post, 2 requests under way, 3 presses, 2 events | `DeskIsTrue`, `ManageIsTrue`, `NothingStaysBusy`. 1.5 million states |
| `inbox` | 2 interchangeable notifications, 3 requests under way, 3 presses, 1 event | `ListIsTrue`, `DotNeverOutlives`. 3.7 million states |
| `composer` | 2 photos, 2 things under way | `TypeOK`, `ClearIsClean`, `NothingStaysBusy`. 954 000 states |

**Bounds.** In the backend, `Horizon` stops the clock, `Lead` limits how far ahead a post is scheduled;
nothing else is cut. One listing is enough for conservation: a claim transaction reads and
locks one listing row and the claims of it, so listings interact only in the lifecycle sweeps' multi-row
commit. Two recipients and two portions give both a sold-out post and one with a portion
left, both a refused and a granted competitor; two processes beside a sweeper give
every pairwise race. A window of two ticks with a
hold of one lets a reservation lapse before its post's expiry and at that very instant. The clock
stops at the expiry or one tick later; the sweepers of `market` keep stepping after it stops,
so a claim that lapses only with the last tick is still swept.

Liveness over the whole of Marketplace needs a smaller instance, so `market` gives each request slot one trade:
`ClaimSlots` carry claims and resolutions of `Newcomers`, `EditSlots` the host's edits (`Carried`). Two
edits under way together, and requests refused for want of a right (`claims_safety` has them), are left out. Besides
`MarketInit` it starts from `Crowded`, a state that `MarketSpec` reaches: of a post of three one portion is reserved, a
PATCH down to two has read that row, and a newcomer has reserved the other two before its UPDATE is sent. When it is, two
portions of the newcomer no longer fit back, both reservations lapse with the clock, and the sweep has a batch of
two of which one release breaks a CHECK on every pass. `LapsedIsReleased` holds because it excuses the sweep while
some reservation is `Broken`. With only the reservation's own brokenness for an excuse TLC finds the pass that always begins with the
broken one: the exception ends the batch, the scan has no order, and the other is never reached.

In the app, `MaxCalls` is how many requests are under way before the person waits, `MaxPresses` how
often they act, `MaxEvents` (`MaxChanges`, `MaxLosses`) how much else happens. Two
requests under way overlap in every order, three in Inbox because two deletions and a count
meet there. With the commit a step of its own one event is enough in Pickup, Inbox and Feed to come between any two
other steps; Desk has two, so that a sweep meets a recipient or a failed commit. A failed commit is one of the events (a
loss in Feed). The two posts of Pickup are alike, so it starts with one order of their claims. Three presses are enough to open a screen, act on it and act again before the
answer; the feed needs fewer, since it opens with a fetch under way and its filters refetch without a
press. The handlers keep no memory beyond the variables shown, so longer
sequences revisit these overlaps. One retry stands for the code's three: the attempts differ only
in how many are left. Three posts in pages of one give a second and a third page. Composer has no bound but
`MaxWork`, and its theorems hold for all.

**Fairness.** A transaction that holds a lock ends (weak fairness on `Commit`: an
asyncio handler that has its row runs to its end). `sweep_forever` is a loop
that catches every error but cancellation, so the sweeper keeps taking steps (weak
fairness on `Sweep`/`SweeperStep`). PostgreSQL queues the waiters of a row lock, so a
sweeper that waits gets its turn even though the lock is taken and freed over and over
(strong fairness on `Settle` and `LockSwept`), and a transaction that is tried again on every pass
is assumed not to fail every time for external reasons (strong fairness on its commits).
Nothing is assumed about clients: requests may never come.

In the app: the API answers or the request is given up (Firebase and fetch time out), an
answer's continuation runs, effects and timers fire. That is weak fairness on `Serve`,
`Receive` and `Gate` in Session, on `System` in Feed, Pickup and Desk, and on the four
kinds of answer in Composer (each its own, since an upload says nothing of the recogniser). Inbox
is checked for safety only. People are never assumed to press anything, so a button that needs a
second press to come back would be found. The bounds on presses, changes and losses mean that liveness is
about what happens once the person and the network leave the app alone.

### Disagreements between the code and what is written about it

Each is a run whose property TLC finds violated; the quoted text is in
`PROJECT.json`, under `findings`.

* `pickup_uncommitted`: comments say that events and pushes follow the commit
  (`routers/claims.py`, `routers/listings.py`, `services/push.py`), and the commit comes last of all. The
  reload of the claims screen after a cancellation can show the claim as still active, and nothing reads it again. The
  host's screens, the feed and the bell read early in the same way; `DeskIsTrue`, `ManageIsTrue`, `CardsAreTrue`, `NothingMissing` and
  `DotNeverOutlives` set it aside by `old` of the answer.
* `market_lost_update`: a PATCH of the size overwrites a concurrent claim's
  count, and a portion exists twice or not at all.
* `feed_offline`: `request()` turns a request that never arrived into an `ApiError`, which `load()` takes
  for an answer of the server. The screen shows the error and never enters its offline
  state, so the retry that the comment describes does not run. `OfflineEnds`
  shows that the retry works once that state is entered, by an answer that is not the API's, as
  behind a captive portal.
* `session_apple`: the Apple button flushes the one-shot code as soon as it holds it, before
  a new account exists; the code is forgotten before it is sent, so the flush on the role
  screen, which is there for this, finds nothing.

Two more were met on the way and are kept as exceptions of properties that hold. The docstring of
`sweep_expired_reservations` (`services/claims.py:169`) says that one bad row cannot stall the rest of a batch; it can
(`LapsedIsReleased`, under Bounds). The comment in `signOut` (`AuthContext.tsx:267`) says that the token is handed back
before the credentials go, "otherwise the phone keeps buzzing for an account nobody is signed into"; after a relaunch
that has not reached the app itself there is no token to hand back (`SilentPhone`, by `left`).

## 4. What is proved

Each proof module has one inductive invariant, checked by TLC on the run's instance before it was
proved, and is carried through the actions one lemma at a time; the theorems of the properties follow from it.

`ClaimFlow_proofs` proves, for every finite set of recipients and any sets of listings,
requests and sweepers, every quantity, size, window and hold:

| Theorem | States |
| --- | --- |
| `Invariant` | `Spec => []IInv` |
| `TypeCorrect` | `Spec => []TypeOK` |
| `Conservation` | `Spec => []PortionsConserved` |
| `HonestStatus` | `Spec => []StatusMatchesShelf` |
| `DatedReservations` | `Spec => []BookedInDate` |
| `ResolvedOnce` | `Spec => ResolvedIsFinal` |
| `ImplementsPantry` | `Spec => PantrySpec` |

The assumptions are `KeysAssumption` (recipients are finite, the identifiers of
different kinds differ) and `NumbersAssumption` (quantities, sizes, windows and the hold are
positive), declared in `ClaimFlow` and evaluated by TLC on every run.

*Why an inductive invariant is needed.* `PortionsConserved` says nothing of a transaction
that has computed its new row and not committed it. `IInv` adds what ties such a
transaction to the database:

* `LockOwned`: a listing's lock is held by a transaction on that listing;
* `Fresh`: a transaction past its lock owns the lock, and the row and the claim it read
  are still what is stored, so its planned row is `Reserve` or `Release` of the *current* row;
* `WellFormed`, and clock readings that are never in the future: a transaction's `now`
  is not later than the clock, which is what bounds deadlines and lets an expired
  post stay expired;
* `ClaimsPositive`: a release gives something back, so a reopened post has food.

The argument has two halves. The database (`Books`) is disturbed by no action but
`Commit` (`BooksKept`, `OnlyCommitsStore`), and every other action keeps the session half
(`Session`) because it touches one transaction (`LockStep`, `LeaveStep`). At `Commit`, `Fresh`
turns the write into an atomic reservation or resolution (`CommitWrites`), and two counting
lemmas about `PortionsOf` (`PortionsAdded`, `PortionsKept`) settle the sums. Expiry needs one more
thought: `StatusMatchesShelf` speaks of the clock now, while `Release` used an older one;
`Planned` remembers that it was no later. The refinement follows from the same
`CommitWrites` (`CommitAbstracted`): a commit is one step of Pantry and everything else stutters.

### Listings: `Marketplace_proofs`

For any listings, recipients, requests and sweepers, any sizes, edits and bounds on the clock, from
the same two assumptions and `MarketAssumption`:

| Theorem | States |
| --- | --- |
| `MarketInvariant` | `MarketSpec => []MarketIInv` |
| `MarketTypeCorrect` | `MarketSpec => []MarketTypeOK`: no count is negative |
| `StockBounded` | `MarketSpec => []StockWithinBounds` |
| `PreliveUnclaimed` | `MarketSpec => []PreliveIsUnclaimed` |
| `FromTheShelf` | `MarketSpec => ReservedFromTheShelf` |
| `ResolvedOnceInMarket` | `MarketSpec => ResolvedIsFinal` |

An edit's row may be older than the one it lands on, so `Fresh` is false here, and conservation with
it (`market_lost_update`). What is left: a claim's transaction still finds its row as it read it
under its own lock (`Holding`), and an edit writes `quantity_total` and `quantity_remaining` together or
neither (`Errands`, from `apply_new_total`), so whatever row it lands on has no more left than it has in
all. No edit ever writes a prelive status, so `ClaimedIsLive` survives the stale ones. `InTurn` says that a sweeper never has a
lifecycle batch and a claim in hand at once, which keeps `LockSwept` from being taken for a claim's lock.

### Session: `Session_proofs`

For any accounts, kinds of sign-in, retries and bounds, from `SessionAssumption` and `NullAssumption`
(`null` is not a profile or a row):

| Theorem | States |
| --- | --- |
| `SessionInvariant` | `Spec => []IInv` |
| `SessionTypeCorrect` | `Spec => []TypeOK` |
| `EntryIsAccepted` | `Spec => EntersAccepted` |
| `OwnAccount` | `Spec => []AccountIsOwn` |
| `PhoneFallsSilent` | `Spec => []SilentPhone` |
| `OwnHalf` | `Spec => []InOwnHalf` |

The invariant has two parts. `Base` holds always, answers overtaking each other as they like: no answer
bears an acceptance of terms that the server does not have (`Sound`), and acceptances are never taken back.
That is all `EntersAccepted` needs. `Awaited` holds for a person who waits for each answer (`orderly`): at
most one request but the flush of Apple's code is under way, it is the signed-in account's, and
each of the four facts about the phone has its exception while an answer that settles it is on its way: the
token's row, unless an earlier launch left it (`Ours`), is the user's, and the phone knows it *or* the registration has been answered and not received; the
half shown is that of the role, *or* the switch has been.

### Feed: `Feed_proofs`

For any number of posts, any portions, filters, page sizes and bounds, from `FeedAssumption`:

| Theorem | States |
| --- | --- |
| `FeedInvariant` | `Spec => []IInv` |
| `FeedTypeCorrect` | `Spec => []TypeOK` |
| `NoPostTwice` | `Spec => []NoDuplicates` |
| `TrueCards` | `Spec => []CardsAreTrue` |
| `NothingLeftOut` | `Spec => []NothingMissing` |

The list is put together from answers, pages and events in any order, so the invariant says when such a list is
`Right`: what is on it fits the filters and is as the server has it, and what the server has is on it or
further down than the cursor, save for what an event on its way will put right. A load is right as served, unless it was
read before the commit of what an event told (`Early`), and
stays so, since whatever changes afterwards sends an event or marks it as overtaken, as the sweeps and a failed commit do (`Silently`); an event applied to a right list leaves it right
(`PatchedRight`); a page that nothing has overtaken goes on where a right list ends (`MoreRight`). The list on screen may be wrong
only while it is `Due`: a change of filters, an event about a post it does not show and a retry send a load for the
filters then on screen, and `LoadsTrue` says that the last of these is right or will be followed by one that is.
The exceptions are what the person is told (an error, the offline notice) and `astray`.

Underneath are lemmas about the two list operators: `Nth` lists a finite set of numbers once each and in order
(`Ranked`, `Listed`), `Only` keeps what it should and nothing else (`Kept`), and a page is right and ends at
its cursor (`PageRight`).

### Claims screens: `Pickup_proofs`

For any posts, portions and bounds, from `PickupAssumption` and `NullAssumption`:

| Theorem | States |
| --- | --- |
| `PickupInvariant` | `Spec => []IInv` |
| `PickupTypeCorrect` | `Spec => []TypeOK` |
| `RowsTrue` | `Spec => []RowsAreTrue` |
| `AskedOnceOnly` | `Spec => []AskedOnce` |

`RowsAreTrue` is about rest; `Informed` says why rest is reached with the right rows: rows that differ from the
API's are a push away from a reload, or an answer is under way that will send for them or *is* them
(`Fits`: what nothing has overtaken, and was not read early, is what the API has once it has committed). `InStock` keeps a portion given
back from exceeding what was posted; `Outstanding` keeps answers away from a listing screen that is gone.

### Host screens: `Desk_proofs`

For any posts, portions and bounds, from `DeskAssumption` and `NullAssumption`:

| Theorem | States |
| --- | --- |
| `DeskInvariant` | `Spec => []IInv` |
| `DeskTypeCorrect` | `Spec => []TypeOK` |
| `TrueDesk` | `Spec => []DeskIsTrue` |
| `TrueManage` | `Spec => []ManageIsTrue` |

The dashboard is two streams into one list. `Right` is what makes them commute: a list is right if every post of
it is as the API has it or an event about it is still to come, and the last event about a post
brings it as it is (`LastIsTrue`). The rows and every answer on its way that nothing has overtaken are right
in this sense, so it does not matter which comes first, and with no events left they are equal. The management
screen is right or about to be read again (`Refreshing`): an act that was answered is followed by a fetch, and a lost
one too.

### Notifications: `Inbox_proofs`

For any set of notifications and any bounds, from `InboxAssumption`:

| Theorem | States |
| --- | --- |
| `InboxInvariant` | `Spec => []IInv` |
| `InboxTypeCorrect` | `Spec => []TypeOK` |
| `TrueList` | `Spec => []ListIsTrue` |
| `DotGoesOut` | `Spec => []DotNeverOutlives` |

A removal is optimistic, so the list and the API differ whenever one is under way. `OneLoad` and `OnePage`
say that everything in play (rows, the rows a removal would put back, the rows a dialog is about to clear) comes
from the one answer of the one load of this mount, and that two removals never share a row; `Told`
then follows each row: a removal not served yet leaves it with the API, one answered 200 has
taken it away, and a failure puts back what is still there. `Counted` bounds the dot by the
notifications that are unread and stay so unless a request to mark them is still under way.

### Composer: `Composer_proofs`

`Composer_proofs` proves, for every maximum of photos and every amount of work under way:

| Theorem | States |
| --- | --- |
| `ComposerIInv` | `Spec => []IInv` |
| `ComposerTypeCorrect` | `Spec => []TypeOK`, with it that the form never holds more than `MAX_PHOTOS` |
| `ClearedStaysClean` | `Spec => []ClearIsClean` |

from `ComposerAssumption` (both constants are positive). `TypeOK` is not inductive: a photo
lands in the form by a continuation that checks nothing. `PlaceKept` says why it need not: one upload
is under way exactly while `uploading` is set, the button is dead meanwhile, and the picker is only open when
a place is free, so the place checked when it opened is still free when the photo comes. Nor is
`ClearIsClean`, since what comes back makes a form dirty: `Accounted` adds that whatever is under way was
started by the host since the last clearing, or was there when it happened (`late`).

### Only model-checked

Every safety property of the passing runs is stated by a theorem. What is left to TLC is liveness: `ScheduledGoesLive`,
`FinishedIsExpired`, `LapsedIsReleased`, `AlwaysSettles`, `SpinnersStop`, `ExpiredLeave`, `OfflineEnds` and
`NothingStaysBusy` rest on fairness, which is `ENABLED`, and the prover does not handle it.

## 5. What is not modelled

* The transactions of the account endpoints (role switch, deletion, merge, stranded profiles): Session takes
  each request as one step. How they meet claims in flight is in the hazards and would be
  the next module, over ClaimFlow's rows.
* The event bus beyond an ordered channel: full queues, several instances and the
  Redis reader. Feed and Desk therefore say nothing of events reordered or dropped there.
* The cache of account states, the rate limiter and the prune of dead push tokens: counters and
  ages in one process or one row, beside the service's core.
* Ratings and device rows as concurrent inserts: each selects and then inserts, and the unique key refuses
  the second with an unhandled error.
* Saved posts and their hearts, moderation, password reset, linking a sign-in method: one request
  and one answer each. The heart keeps its own state in each
  card, so two presses race and another card of the same post is not told.
* The rows' contents: titles, photos, places, distances, the impact numbers. No rule reads
  them. The bounding box is floating-point arithmetic and out of TLC's reach, like the encoding of the cursor.
* Firebase, Apple, Cloudinary and Expo (libraries and HTTP services), presentation,
  migrations and scripts (run by hand), configuration and logging, the Flutter app.
