# BursaTrack: specification and verification

TLA+ models of BursaTrack (a portfolio tracker for Bursa Malaysia: FastAPI and
Postgres behind a Next.js frontend), the TLC runs that check them on small
instances, and TLAPS proofs of what matters most for every instance. The
reference is the code; each definition names the lines it models in
`PROJECT.json` (`map`).

## The system

One Postgres database at READ COMMITTED. Every HTTP request gets a SQLAlchemy
session of its own (`backend/app/database.py`), so what two requests share is
rows, and each SELECT sees the rows committed when it runs. A daily cron job
(`backend/scripts/refresh_prices.py`) writes prices to the same database. There
is no queue and no in-process shared state in the backend.

| component | state | operations | interacts through | hard behaviour |
|---|---|---|---|---|
| portfolio writes (`portfolio/service.py`) | `positions`, `lots`, `dividend_tranches` | create, edit, delete; delete_position cascades | rows; audit log | check-then-write across statements, optimistic locking, row locks of the cascade |
| portfolio reads | none | dashboard, calendar, sell scenario | reads the rows and the prices | rely on rules the writes keep |
| fee calculator (`portfolio/calculator.py`) | none | fees of a lot, sell scenario | called by writes and reads; mirrored by the frontend | rounding and caps at boundaries, agreement with the mirror |
| audit log (`admin/service.py`) | `audit_log` | append | written in the same transaction as the change | must explain what the rows hold |
| price refresh (`pricing/service.py`) | `system_config.price_refresh_lock`, `price_snapshots` | acquire, fetch, upsert, release | the lock row; prices | stale locks, timeouts, crash, unconditional release |
| manual prices (`pricing/service.py`) | `price_snapshots` | upsert | unique (stock, day) | races the cron |
| authentication (`auth/`) | `users.token_version`, lockout columns, `pending_tokens` | register, verify, login, refresh, logout, reset | tokens carry the version | read-then-increment, single-use tokens |
| login lockout (`auth/lockout.py`) | failures and lock of each address, in memory | check, record | the log-in route; Retry-After | attempts that overlap, sliding window, restart |
| frontend auth (`lib/auth-context.tsx`, `lib/api.ts`) | session in memory, cookie shared by all tabs | bootstrap, silent refresh, login, logout | answers of the API | answers out of order, pages loaded again |
| position page and its edit dialogs | forms, version of the row shown, SWR's copy | edit, delete, refresh | PATCH with a version; revalidation | answers that overtake each other or outlive their dialog |
| add dialogs | forms that stay mounted, previews of fees | fill, save, cancel, leave | POST; revalidation | double saves, lost answers, two implementations of one formula |
| dashboard | SWR's copy, sort order, editor of a stale price | sort, override | POST, then revalidation | one editor and several answers, prices refreshed behind it |

`PROJECT.json` lists all components, also those left out, and the hazards at
their lines.

What makes each correct: no edit is lost and no stale field is merged; the log
tells of every change of a row what its events carry; a deleted position is
closed; a stored dividend total is never recomputed; every request ends. Where
the overlaps that break them are absent: one active position per stock, at least
one active lot in each, no active child of a deleted position, at most eight
tranches a year with distinct labels, no more qualifying shares than were held.
One price refresh at a time until a cancelled one releases the lock twice, and all
of its prices or none. A revoked session is never valid again unless revocations
overlap; failed log-ins lock their address. A page shows what it was told to be saved,
never goes back to older rows, sends what was typed once and for its row, and
never stays busy for ever; a fee shown is the fee stored.

## Modules

| module | what it is |
|---|---|
| `PortfolioStore` | the write endpoints of the portfolio as a state machine |
| `JournaledTable` | abstract specification of a table and its audit log: rows and events are written together |
| `PortfolioProperties` | the properties of `PortfolioStore`, its inductive invariant, its tables as implementations of `JournaledTable` |
| `PriceRefresh` | the cron job, its lock, and the manual overrides on the same rows |
| `PriceProperties` | properties of the refresh |
| `PositionPage` | the position page, its edit dialogs and confirmations, SWR's copy, other sessions |
| `PositionProperties` | its properties |
| `FeePreview`, `FeeCalculator` | the formulas of fees and dividends, as the frontend and as the backend write them |
| `AddForms` | the three add dialogs; composes the two above, and the handler that stores what they send |
| `Sessions` | AuthProvider, AuthGate and the auth forms of several tabs, and the handlers under `/auth` |
| `LoginLockout` | the limiter of an address, the log-in handler around it, and the form's countdown |
| `Dashboard` | the table, its sort order, the price editor, SWR's copy, the nightly refresh |
| `MC...` and `MC..._*.cfg` | TLC instances |
| `..._proofs` | TLAPS theorems about the module of that name |
| `PortfolioRules_proofs` | those about the audit log, the business rules and the journals of the portfolio |

Where components interact, one module has both sides: a page with the endpoints
it calls (`PositionPage`, `AddForms`, `Sessions`, `LoginLockout`, `Dashboard`
each contain the server's steps, reduced to what that page can tell apart). The
backend's part is modelled in full by `PortfolioStore` and `PriceRefresh`, which
share no row and no call that changes state (the refresh reads which stocks have
active lots), so nothing composes those two.

### PortfolioStore

State: the three tables (id to row, `None` where no row exists), the audit log
per entity, and `req`, what each request slot is doing. A handler is split at
its SELECTs: each is a step on the committed rows and `req` remembers what was
read. A handler that only inserts, or writes one existing row, writes and
commits in one step: nobody sees its inserts earlier, and an UPDATE re-evaluates
its WHERE clause on the latest committed row while the row is locked.
`delete_position` updates three tables in three statements, so it is three steps
and its row locks are explicit (`LockedPositions`, `LockedLots`,
`LockedTranches`): other writers of those rows wait.

| handler | actions |
|---|---|
| `create_position` | `CreatePositionFind`, `CreatePositionCommit` |
| `add_lot_to_position` | `AddLotRead`, `AddLotCommit` |
| `update_lot` | `UpdateLotBegin` (position), `UpdateLotRead` (lot), `UpdateLotCommit` |
| `delete_lot` | `DeleteLotBegin`, `DeleteLotRead`, `DeleteLotCount`, `DeleteLotCommit` |
| `delete_position` | `DeletePositionRead`, `DeletePositionLots`, `DeletePositionTranches`, `DeletePositionCommit` |
| `create_dividend_tranche` | `CreateDividendRead`, `CreateDividendCheckShares`, `CreateDividendCheckYear`, `CreateDividendCommit` |
| `update_dividend_tranche` | `UpdateDividendRead`, three checks, `UpdateDividendCommit` |
| `delete_dividend_tranche` | `DeleteDividendRead`, `DeleteDividendCommit` |

The audit log holds what the code puts into the metadata of each kind of event
(`Carried`): an edit logs all old and new terms, a creation leaves out the
purchase date and the broker of a lot, and the dates and year of a dividend; a
deletion logs a lot's shares or a dividend's total, as the request read them. The
deletion of a position logs nothing of its rows.

Abstractions. Of a lot's terms, shares and purchase date are kept; price, broker
and the fee columns are written in the same statements. Amounts per share are
millionths of a ringgit and totals are sen, so rounding is exact. Dates are
natural numbers and `Year` is a division. A request refused by its first read
changes nothing and is left out; one refused later frees its slot. A client
sends a version it was given, so one the row has reached (`UpdateLotBegin`).
Category and notes of a position (`update_position_metadata`) are left out.

Bounds: ids are finite sets and `RoomFor...` starts an inserting request only
while an id is left for it; `MaxVersion` bounds the edits of a row.

### PriceRefresh

State: a clock in hours, the row `system_config.price_refresh_lock` (`NoRow`,
`Free` for NULL, or the hour written in it), what each run and each override is
doing, and `price_snapshots` as a function of stock and day.

| code | actions |
|---|---|
| `main`, `run_price_refresh` up to the lock | `Start` (skipped on a holiday) |
| `try_acquire_price_refresh_lock` | `TakeLock` (the UPDATE), `RereadLock`, `InsertLock` |
| `_fetch_all` | `Fetch`, a price or `None` for each stock |
| the loop over the prices | `CheckPrice` (SELECT of the latest row and deviation guard), `LookUp` (`_upsert_snapshot`), `Flush` (the write, at the next SELECT or at the commit) |
| `db.commit()` | `CommitPrices` |
| `release_price_refresh_lock` | `Release` in `finally`, `ReleaseAgain` in `main` |
| `asyncio.wait_for` | `TimeOut` |
| `create_manual_price_override` | `OverrideRead`, `OverrideWrite` |
| the platform, Postgres | `Crash`, `Deadlocked`, `Tick` |

Three facts of the libraries are modelled because the properties depend on them.
An ORM UPDATE sets only the columns whose value differs from the one the session
loaded (`NetUpdate`), and a row loaded twice in a session keeps its first
values. A flushed but uncommitted row, or a key being inserted, makes other
writers wait (`Locked`); two runs that wait for each other are broken up by
Postgres. A session whose flush failed, or whose connection was cancelled inside
a statement, refuses the release that `finally` attempts.

Abstractions. Time is counted in hours and only fetching takes time: a statement
of the script lasts no hour, so the clock stands still between the fetch and the
release. A weekend is one of the `Holidays`; the schedule fixes the day on which
a run is started, at any hour of it. The lock's timestamps are hours, so two
runs can write the same one. The audit event of an override, written in the same
transaction, is left out, and so are `last_refreshed_at` and the alerts.

Bounds: `MaxTime` on the clock; each run executes once and each user enters one
price, at any moment.

### PositionPage

State: `server` and `cache` (the rows, as the database and as SWR hold them),
`latest` and `retry` (which request for the position is the newest, and whether
SWR will try again), the ids the page keeps (`editing`, `deleting`), the forms
and confirmations, and `handler`, what each asynchronous event handler is doing.

| code | actions |
|---|---|
| pencil and bin buttons | `EditLot`, `EditTranche`, `OpenDelete` |
| `EditLotDialog`, `EditDividendDialog` | `TypeLot`, `TypeTranche`, `CancelEdit`, `SaveLot`, `SaveTranche`, `RefreshLot`, `RefreshTranche`, and for their answers `LotSaved`, `TrancheSaved`, `...SaveFailed`, `...Refreshed` |
| `ConfirmDialog`, `handleDelete...` | `Confirm`, `CancelDelete`, `Deleted`, `DeletionArrives`, `RowDeleted`, `PositionDeleted`, `DeleteFailed` |
| `mutate()` and SWR | `Revalidate`, `PositionArrives` |
| the endpoints | `ServerPatch`, `ServerDelete`, `ServerRead`, `OtherEdits`, `OtherDeletes` |
| network, browser | `Lose`, `LeavePage`, `GoBack`, `ArrivesTooLate` |

A setter of a dialog that is unmounted does nothing, one of the page works
(`own`). The effect of an edit dialog (`Effect`) runs with a new copy of the
position, because SWR then makes new row objects. Of a row the number of shares
is kept: the other fields are loaded, typed and sent in the same way. A row's
version counts for its age, which the code does not compare; the properties do.

### FeePreview, FeeCalculator, AddForms

Money is counted in sen, a price of a share in 1/10000 RM, a dividend per share
in 1/1000000 RM: the decimals the inputs may have, so every product is an
integer and both implementations round it exactly. `FeePreview` is the frontend
(decimal.js), `FeeCalculator` the backend (Python's `Decimal`), where rounding
and the ceiling are stated by what they return.

`AddForms` is one dialog at a time, of a kind fixed by the initial state. The
dialogs stay mounted while they are closed, so what was typed and `submitting`
survive `Cancel`, `Dismiss` and `OpenDialog`; `Save` starts a handler, whose
answers are `LotAdded`, `DividendLogged` with `DividendRefreshed`,
`PositionSaved` with `PositionOpened`, and `SaveFailed`. `ServerPost` computes
with the backend's formulas what it stores, and `Receipt` keeps it beside what
the form showed. `entry` numbers what a user types into an empty form and
`unanswered` the entries whose answer was lost: both are history.

Modelled as the code has it, though no rule of the repository speaks of it: the
answer of a save closes and resets the dialog as it is then, even when it was
closed and opened again meanwhile; a new copy of the position puts the first
lot's broker over the chosen one; with eight tranches in the year shown the
payment date cannot be changed; the number of qualifying shares offered is the
total of the last reset, where `UX-Spec-Part2.md:460` says "Default is always
current total".

### Sessions

State: the account (`version`, `link`), the cookie `jar`, the tabs (`page`,
`status`, `expiresAt`) and the calls under way, each answering to the tab that
sent it until that tab is loaded again.

| code | actions |
|---|---|
| page loads, links, `AuthGate` | `Load`, `Follow`, `AuthGate` |
| `AuthProvider`'s timer and bootstrap | `maybeRefresh`, `SessionApplied`, `SilentFailed`, `BootFailed` |
| `login`, `logout` and the forms | `SubmitLogin`, `SubmitRegistration`, `SubmitReset`, `LogOut`, `SignedIn`, `LoggedOut`, `FormRefused` |
| `apiFetch` | `FetchPage`, `PageAnswered`, `SessionExpired` |
| `/auth/*`, cut at its awaits | `refresh`, `ServePage`, `LogoutRead`, `ConsumeLink`, `CommitRevocation`, `VerifyPassword`, `IssueToLogin`, `CheckEmail`, `InsertUser`, `request_password_reset` |

Time is counted in the quarters of an hour between two checks of a tab; a call
is over by the next one. `Threshold` is what `REFRESH_THRESHOLD_MS` is in the
code, larger than a check. `ConsumeLink` reads the link and `MarkUsed` marks it
later without looking at it again, as the code does, so two overlapping uses of one
link may both succeed (`link` is then "reused"): the second waits until the first
has committed and then sets its own password. `LogoutRead` and `MarkUsed` read the
`token_version` that `CommitRevocation` adds one to.

### LoginLockout

State: `failures` and `lock` of one address (`LoginLockoutTracker`'s two
dictionaries; `log` is the history of its failures, each with the lock it
found, and `failures` the numbers of those remembered), the forms behind that address, and whether a page may read
Retry-After (`exposed`): the header is on no CORS safe list and `main.py`
exposes none, so from another origin no countdown starts. An attempt is `Check`
(before the password is verified), then `WrongPassword` or `RightPassword`, or
`Fail`; `Restart` forgets everything. Time is counted in halves of a second, and
`int(...) + 1` and `Math.ceil` are modelled as they round. `Verification`, the
longest an attempt lasts, is below `LOCKOUT` by assumption, so an attempt ends
before any lock set during it does.

`lockout.py:1` says "5 failed login attempts within a 10-minute window from a
given IP locks further login attempts". One corner of that does not hold and is
excluded from `FailuresLock` by `Open`. A failed attempt that was checked before
a lock was set, and counted after, is added to `_failure_times` of a locked
address. If enough of the failures that set the lock have left the window by
then, it does not renew the lock; and when the lock ends, `seconds_until_unlocked`
pops the list (line 32), although that failure is younger than the window. So it
and the failures after the lock may reach the threshold in one window and set no
new lock. TLC shows it with three failures as threshold. With two it takes an
attempt that is longer than the window, because the failure that set the lock is
still remembered.

### Dashboard

State: prices on the server and as SWR holds them, `sort`, one `editor` for all
rows (`overrideCode`, `overrideValue`, ...), and the handlers of overrides.
`saveOverride` sends; `OverrideSaved` closes whichever editor is open and asks
for the portfolio; `PortfolioArrives` applies the answer of the newest request.
`RefreshPrice` is the cron job, `Reload` loads the page again. Of nine columns
two are kept, one that may have no value and one that always has.

Definitions such as `VersionIgnored`, `TermsTruncated` or `KeepAll`, next to the
one they resemble, are deliberate mistakes used to test the properties: with the
mistake in place of the original, TLC must find the property violated.

## Runs

| run | question | instance | states |
|---|---|---|---|
| `overlapping` | are edits lost, do log and rows agree, are the tables journaled, is deletion final, is a total frozen, is the inductive invariant true, when any two requests overlap? | 2 requests, all endpoints, 1 position, 2 lots, 1 tranche, 2 versions, 2 labels | 1.29M |
| `liveness` | does every request end? does each business rule hold where the overlap that breaks it does not happen? | 2 requests, all endpoints, on one position, lots bought on and after the ex-date, with fairness | 282k |
| `promises` | violated: `SomePromiseHolds`, four rules the repository promises | 2 requests that overlap between a read and a write, 2 positions, 3 lots, 2 tranches | |
| `prices` | one run at a time, whatever is killed, cancelled or fails? is a left lock taken over? does every run end, and store all or nothing? | 1 run on one day, 2 on the next, 2 stocks, TTL 1, timeout 1, crashes, timeouts, 1 user, with fairness | 144k |
| `second_release` | violated: `OneRunAtATime` | a run cancelled by the timeout releases the lock again while the next run holds it | |
| `position_page` | are edits lost between dialogs, revalidations and sessions, does the page go back, stay busy, hide a save? | 1 lot, 1 tranche, 2 handlers, 1 other session, 1 fault | 2.55M |
| `add_forms` | is anything stored twice, or with another fee than was shown? does every save end? | each dialog, 2 brokers, 2 entries, 2 handlers, 1 change by others, 1 fault, with fairness | 552k |
| `sessions` | is a signed-in tab kept alive, "Loading" awaited, "session expired" deserved? | 2 tabs, 2 calls, 5 acts, 3 checks, 1 fault | 3.19M |
| `revocation` | violated: `SomeRevocationHolds`, two promises about resets and log-outs | 2 overlapping calls, an account that exists, calls that log in, log out or reset | |
| `login_lockout` | do failures lock, is a lock earned, does the countdown cover it? | 2 forms, threshold 3, 6 attempts, 3.5 seconds | 777k |
| `last_failure` | violated: `FormDisabledByLastFailure` | the failure that locks the address is answered without Retry-After | |
| `dashboard` | are prices without a value last, is an override shown, sent for its row, is typing kept? | 2 rows, 2 handlers, 1 refresh, 1 reload, 1 fault | 1.14M |

Bounds. Two requests are enough for the interleavings the properties speak of:
each hazard is a pair of a reader that writes later and a writer in between, and
the version that tells them apart has two values. A dividend of 0.00375 a share
is less than half a sen for one share, so its total is 0 and the table refuses
it, and exactly one and a half sen for four. The pages have
two handlers, one to be late and one to overtake it, and one fault. Two tabs
share a cookie as any number would. `CHECK_DEADLOCK FALSE` is set because an
instance ends when its ids, versions, acts or time are used up.

### Rules that overlap breaks

The business rules rest on a handler's reads, and nothing in the tables backs
them, so an overlap of two requests can break each. Each is stated with that
overlap, and holds in every behaviour without it, whatever else overlaps:

| rule | holds unless | stated as |
|---|---|---|
| an active position has an active lot | two requests have both counted the lots of one position | `LastLotGuarded`, run `liveness` |
| a deleted position has no active lot or tranche | a request is about to insert one while another deletes the position | `CascadeIsComplete`, run `liveness` |
| a checked dividend is covered by lots held on its reference date | lots are edited or deleted, or go with their position, between its check and its write | `EntitlementHolds`, run `liveness` |
| one active position of a stock | two requests have both found none | theorem `PositionsAreUnique` |
| few tranches in a year, with distinct labels | two requests have both checked a year of one position | theorem `YearsAreBounded` |

A formula `[]Apart => []Rule` says nothing of a behaviour in which that overlap
happens at some time. It loses no other violation: arrivals are not fair, so a
behaviour whose requests have not overlapped that way so far can always go on
without it.

The repository promises three of them, and that no deleted row is edited, without a
condition; `promises` shows that these four do not hold:

* `BursaTrack-DB-Stage3-Physical-Schema.md:543-547` specifies a unique index on
  the active positions of a portfolio and stock; migration 0005 has none.
* the same document, lines 549-552, specifies one on the labels of a position and
  year; migration 0009 has none.
* `get_default_sell_broker` (`portfolio/service.py:897-899`) says "Every active
  position has at least one active lot"; two overlapping deletions leave none.
* the schema document has `AND is_deleted = false` in the UPDATE of an edit
  (639-647); `update_lot`'s compares id and version only, and a deletion leaves the
  version as it is.

`SomePromiseHolds` is the disjunction of the four, so its counterexample breaks
all at once. Two things happen in the model that no document forbids: two
deletions of one lot both log an event, and a deletion logs the shares it read
earlier.
`01-api-requirements-report.md:255` says that LOT_CREATED logs all computed fee
fields; the code logs `all_in_cost` only.

Prices: `second_release` shows that mutual exclusion fails when a cancelled run
releases the lock in `finally` and again in `main`, and another run has taken it
in between. `LockExcludes` says that this is the only way: it excludes the second
release beside another run's work (`SecondReleaseApart`) and nothing else. A lock
is left when a run is killed, when its flush fails, because the failed session
refuses the release, or when the cancellation hits a statement, because the error
of the release is then not the `TimeoutError` that `main` catches.
`release_price_refresh_lock` ("cleared on both normal exit and exception") and the
comment in `main` ("a timeout can never leave the lock held") promise more.
`SkipIsJustified` says what holds: the lock stands for `Ttl` hours after somebody
took it, no longer. Three things the code or its comments say of prices hold only
where an override and a run do not meet, and are not stated as properties:
`source` tells a fetch from an override (`pricing/models.py:17`; each UPDATE sets
only the columns it saw change, so two that overlap may mix them), the next
refresh supersedes an override (`pricing/service.py:288-293`; one dated later than
the run stays the latest price), and the deviation guard compares with the
latest price, which may be an earlier run's or a user's of the same day.

Sessions: the docstring of `logout_user` (`auth/service.py:280-283`) and a comment
in `reset_password` (345-346) say that every session issued before is dead, and
`ResetPasswordForm.tsx:141` that a link can be used once. `revocation` shows that
neither holds: overlapping revocations write the same number, so a session
issued between the two commits survives the second, and overlapping uses of a link both
pass its check. `SomeRevocationHolds` is the disjunction of the two. That a
revoked session stays dead if no two revocations overlap is the theorem
`RevokedForGood`.

Fairness (`FairSpec`): weak fairness of each accepted request's next step. The
event loop resumes every coroutine whose statement has returned, and Postgres
grants a row lock when its holder commits; nothing makes a client send a
request, so arrivals are not fair. Weak fairness is enough because only
`delete_position` holds locks across steps and, holding them, it waits for
nobody: its tranches are locked by requests of the same position only, which
wait for the position first.

In `PriceRefresh`: weak fairness of `Tick` (time passes) and of each run's steps on the
database and of its timeout; `Fetch` is not fair, because nobody promises that a
provider answers. `RunsEnd` therefore rests on `wait_for`.

In `AddForms`: weak fairness of each handler's steps. `fetch` settles its
promise when the answer comes or the connection fails, and a settled promise's
continuation is run; the user's steps are not fair.

## Proofs

Every safety property of the passing runs except `EntitlementHolds`, and a few
that no run lists, is a theorem, for every value of the constants that satisfies the
named assumptions. Where a theorem has a further hypothesis, it is named below.

### The portfolio: rows

`PortfolioStore_proofs`, from `SharesAssumption`, `DaysAssumption`,
`PerShareAssumption`, `BoundsAssumption`, `NoneAssumption` and `KeysAssumption`:

* `RequestsStaySound`: `SoundRequests` is invariant;
* `TypeCorrect`: `TypeOK`;
* `NoUpdateIsLost`: `NoLostUpdate`;
* `RowsAreKept`: `RecordsAreKept`, an action property;
* `ClosedForGood`: `DeletionIsFinal`, an action property;
* `TotalStaysFrozen`: `TotalIsFrozen`.

`TypeOK` is not inductive: that a version stays in its bound and that an UPDATE
finds its row rest on what the request read earlier. `SoundRequests`
strengthens it by one fact per request in flight: the rows it names exist, the
version its client sent is at most the version it read, which is at most the
stored one, and while the stored version equals the one read, so do the terms.
The proof shows first that rows only grow (`Kept`: same position, no undelete,
no version lost, new terms only with a new version), then that soundness is
preserved when rows grow, then that each action leaves its own request sound.
`NoLostUpdate` follows by arithmetic on the three versions. `DeletionIsFinal`
needs a second invariant, `RequestsKnowHome`: the position in what a request has
read is still the one its row belongs to. A step that reads turns its request to
a position that is active or that it was about already, a step that writes
changes rows of that position only. For `TotalIsFrozen` every stored total is
`RoundMyr` of a product, which is at most half a sen off.

### The portfolio: audit log and business rules

`PortfolioRules_proofs`, from the same assumptions.

* `AuditTellsTheStory`, `DeletionsLeaveATrace`: `AuditExplainsRows` and
  `DeletionsAreExplained`, whatever requests overlap.
* `TablesImplementJournals`: `TablesAreJournaled`, the refinement of
  `JournaledTable` by the lots and by the dividends, each with its log.
* `LastLotIsGuarded`, `CascadeReachesAll`: `LastLotGuarded` and
  `CascadeIsComplete`, as the run states them.
* `PositionsAreUnique`, `YearsAreBounded`: `OnePositionPerStock` under
  `[]CreationsApart`; `OneLabelPerYear` and `FewTranchesPerYear` under
  `[]DividendsApart`.

For the log, one lemma (`Chronicled`) says what any step may do to a row and its
log together: nothing; create the row and append its first event; give it new
terms, the next version and an event with the terms before and after; delete it
with an event, or without one if its position is deleted in the same step. The
story of a row (`Stories`) is told by the set of numbers of its creations and
edits, not by a filtered sequence, so that one event more is one element more
and nothing has to be proved by induction over the log. Deletions need in
addition that a lot or dividend belongs to a position that exists (`AllAnchored`),
also while a request is about to insert it.

The refinement maps each commit to one write of its table and every other step to a
stutter. That an edit logs what the row holds at that moment is where it needs
`SoundRequests`: the version still matches, so the terms read are the stored ones.

Each business rule has an invariant that joins it to what the requests in flight
have established: another lot is left (`LotsRemain`), there is no active
position of that stock (`StocksAreHeldOnce`), the lots and tranches the cascade
has locked are all the active ones and whatever will be inserted goes into an
active position (`NothingEscapes`), the year has room and its labels are free
(`YearsStayInBounds`). Any number of requests may be in flight; a step of another
one that would falsify such a fact is one of the overlap the theorem excludes, or
waits for a row the cascade has locked, and all other steps keep it. The years
count tranches by cardinalities of sets that grow or shrink by one.

The row locks of `delete_position` are why every request ends (`RequestsFinish`).
What is safety in that is proved, for any number of overlapping requests:

* `OneHolderPerRow`: `LocksAreExclusive`, no two cascades lock the same row;
* `LockedRowsAreLeftAlone`: `LockedRowsStand`, an action property: what a cascade
  has locked stays as it is, and locked, until that cascade commits.

`CascadesApart` says that two cascades delete different positions: the first
UPDATE locks the position's row, and a second request waits for it and then finds
it deleted. The lots and tranches locked later belong to the position
(`RequestsKnowHome`), so they are apart too.

### Prices

`PriceRefresh_proofs`, from `TimeAssumption`, `PriceAssumption`,
`LockAssumption` and `ScheduleAssumption`:

| theorem | property | hypotheses |
|---|---|---|
| `SessionsAreSound`, `TypesAreOK` | `SoundSessions`, `TypeOK` | none: every fault and overlap |
| `RunsExclude` | `LockExcludes` | none: the property names the second release |
| `InChargeStaysFresh` | `InChargeIsFresh` | `[]SecondReleaseApart` |
| `LeftLocksExpire` | `SkipIsJustified` | none |
| `RefreshIsAllOrNothing` | `AllOrNothing` | none |

`second_release` refutes mutual exclusion without that hypothesis.

That a row is never half filled rests on what a session remembers: an UPDATE is
written only where a row was seen, and no row disappears; `SoundSessions` says
so for every session. Mutual exclusion is an argument about ages. The run in
charge wrote the lock, and it is at most `Timeout` old because the clock does
not pass the moment at which its fetch must have ended; nobody asked later than
now; so whoever finds the lock stale would need `Timeout > Ttl`. Two hours
against one in the code. A run that is skipped had been refused: it met a time
that another run had written when it read the lock again, or a row when it inserted
its own (`LockHasTaker`), and that time was not stale when it asked.
`RefreshIsAllOrNothing` rests on `AllWritesSound`: what a session has written of
a stock is the fetched price or, when the row it loaded held that price, nothing,
so the commit leaves each accepted stock at the price fetched.

The rows of `price_snapshots` are locked by uncommitted writes as well. Two
theorems about them have no hypothesis, so they hold also for runs that overlap
after a timeout:

* `OneWriterPerRow`: `RowsHaveOneWriter`, no row is in the uncommitted writes of
  two runs;
* `LockedPricesAreLeftAlone`: `WrittenRowsWait`, an action property: a row a run
  has written changes at that run's commit only.

Their invariant is `LocksSound`: besides `RowsHaveOneWriter`, a session writes each
stock once and forgets its rows when it stops storing. A third,
`RunsNeverWait`, says that no run waits for a row of another (`NoRunWaits`) under
`[]SecondReleaseApart`. Without that hypothesis it is false: two runs store at once
and one waits for a row of the other, or each for one of the other, which
`Deadlocked` resolves. The run `prices` allows that and shows that the runs end
even so.

### Pages and sessions

`Sessions_proofs`, from `SessionAssumption`.

* `RevokedForGood`: `RevocationIsFinal` under `[]RevocationsApart`, no two
  revocations have read the version at the same time; the run `revocation` shows
  what happens otherwise. The invariant `RevocationSound` says that a revocation
  under way has read the current version, that every session issued has at most
  the current version, and every revoked one a smaller.
* `LoadingEnds`, `NoticesAreEarned`: `LoadingIsAwaited` and
  `ExpiredNoticeIsEarned`, with nothing assumed. The calls whose 401 sends a page
  away are sent by signed-in pages only, and a page leaves "loading" when its
  bootstrap call is answered, refused or lost.
* `SessionsAreKeptAlive`: `KeptAlive`, with the hypothesis that the calls that
  may be lost are at least two fewer than the checks in a session's life and in the
  threshold. The invariant `TabsSound` says that what a signed-in tab thinks is
  left of its session covers the rest of the threshold, less one check for each
  call lost and one until the renewal under way is answered, and that the cookie
  lasts as long as any tab thinks it does. An older answer cannot shorten it,
  because every session on its way was issued since the last check.

`LoginLockout_proofs`, from `LockoutAssumption`.

* `CountdownSuffices`: `CountdownCoversLock`. `CountdownSound` follows an answer
  from the server to the form: the seconds it carries reach the end of the lock
  whatever was rounded, and a countdown started from them ends no earlier,
  unless the lock has ended.
* `FailuresDoLock`, `LocksAreEarned`: `FailuresLock` and `LockIsEarned`.
  `AttemptsSound` says that an attempt being verified is younger than any lock
  set since its check, so no lock ends while it lasts. `LockoutSound` says that
  a failure no longer remembered has left the window or was added to a lock, and
  that a lock reaches `LOCKOUT` past every failure counted before it. That
  failures are a set of numbers makes the counting monotone: failures of a window
  are a subset of those remembered.

`AddForms_proofs`, from `FormsAssumption`.

* `PreviewNeverDiverges`: `PreviewIsStored`. First the formulas: `Math.round` and
  `ROUND_HALF_UP` agree on what is not negative, and with them brokerage,
  clearing fee, stamp duty, the total of a lot and of a dividend, for all
  numbers. Then `ReceiptsSound`: only natural numbers and known brokers are ever
  sent, so every receipt agrees.
* `TypedOnceIsStoredOnce`: `SavedOnce`. `SavesSound` says that a dialog waits for
  one handler at most and is disabled while it does, that an entry which was
  sent and is still in the form is one whose handler will empty the form, unless
  its answer was lost or it was refused, and that an entry is sent once otherwise.
* `SavingIsAwaited`: `BusyWhileSaving`, the safety half of `SaveEnds`. A dialog is
  disabled exactly while one handler of its own has steps left, and the last of
  them enables it. `SavesSound` gives that there is one at most; `BusyAwaited`
  adds that there is one, whatever closes or reopens the dialog meanwhile.

`Dashboard_proofs`, from `DashboardAssumption`, which includes that the rows are
finitely many.

* `NoOverrideIsHidden`: `OverridesAreShown`. `OverridesSound` adds that no version
  told exceeds the server's, and that what the newest request brings was read
  after every override the page knows of: the answer of an override makes its own
  request the newest.
* `PricesGoToTheirRow`, `TypedTextIsKept`: `SentForItsRow` and `TypedIsKept`.
  `EditorInv`: what is in the input was typed for the row that is open, and the
  page waits for one override at a time, during which the input is empty or holds
  what was sent for that row.
* `RowsWithoutPriceAreLast`: `UnpricedLast`. A row's place is the number of rows
  above it; a priced row is above every other without a price in either order, so
  it has fewer rows above it, which is a comparison of cardinalities.

`PositionPage_proofs`, from `EntitiesAssumption` and `SharesAssumption`.

* `NoEditIsOverwritten`: `NoLostUpdate`. `EditsSound` says of every copy of a
  row (the cache, a form, a request, an answer) that what was loaded as version
  v with n shares is what the row held as version v. An accepted save carries
  the stored version, so the stored shares are the ones its form was loaded with.
* `BusyDialogsEnd`: `BusyHasHandler`. `BusySound` adds that a handler outlives
  only a dialog that has been closed, and that a page left shows no dialog.
* `PageGoesForward` and `SavesReachThePage`: `CacheNeverGoesBack` and
  `SavesAreShown`. `ReadsSound` says that no answer brings more than the server
  has, that the answer of the newest request is not older than the cache, and
  that a save the page was told of is cached or will be brought by that answer.

### What is only model-checked

Liveness under fairness (`RequestsFinish`, `RunsEnd`, `SaveEnds`), which needs
ENABLED and is out of the prover's reach; `EntitlementHolds`, because the shares of a
set of lots are a sum over it and what a fold computes needs an induction over
data; and the four violated runs, each of which is a counterexample. The safety facts
behind the liveness are proved above: `OneHolderPerRow`, `LockedRowsAreLeftAlone`,
`OneWriterPerRow`, `LockedPricesAreLeftAlone`, `RunsNeverWait`,
`SavingIsAwaited`. Their properties were checked with TLC on instances of the
runs' size before they were proved; the runs check the liveness they serve. Else nothing rests on induction over data: where the
models count or order, they do it with sets of numbers and cardinalities.

## Not modelled

* The e-mail sender, the price provider, configuration, monitoring and the error
  envelopes: I/O, or no state of their own.
* Reads (aggregates, the dividend calendar, the sell scenario) and the pages
  that only display them: they change nothing. What they rely on is stated as
  properties of the writes.
* `update_position_metadata`: two free-text fields without a version; the last
  writer wins, and the values it logs as previous may be stale.
* E-mail verification, which sets a flag no session depends on, and
  `ForgotPasswordForm`, whose cooldown is a countdown as `LoginForm`'s.
* Yields, wording, notices, layout and CSS.
