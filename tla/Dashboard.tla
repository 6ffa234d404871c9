----------------------------- MODULE Dashboard -----------------------------
(***************************************************************************)
(* The dashboard (app/dashboard/page.tsx): the table of positions with its *)
(* sort order, kept in the session's storage, the editor of a stale price, *)
(* and the copy of the portfolio that SWR holds for it, while prices are   *)
(* refreshed behind it.                                                    *)
(*                                                                         *)
(* Of the nine columns two are kept: one that always has a value and one   *)
(* that may have none, as the yield may, by which the table is sorted      *)
(* first.  An override is one asynchronous handler; it goes on when the    *)
(* row's editor is gone.  "typed" and "told" are history.                   *)
(***************************************************************************)
EXTENDS Integers, FiniteSets

CONSTANTS
    Rows,
    Served, Name,       \* row -> its place in the answer, and in the alphabet
    Entered,            \* what a user may type: 0 is not a price
    Market,             \* prices a refresh may bring
    STALE_THRESHOLD,
    Handlers,
    MaxTime,            \* bound of the instance on the clock
    MaxWrites,          \* bound of the instance on writes of each price
    MaxReloads,         \* bound of the instance on page loads
    MaxFaults,          \* bound of the instance on lost requests and answers
    None

Keys == {"name", "price"}
Price == [price : Nat \cup {None}, at : Nat, version : Nat]
Sort == [key : Keys, dir : {1, -1}]

ASSUME DashboardAssumption ==
    /\ IsFiniteSet(Rows)
    /\ Served \in [Rows -> Nat] /\ Name \in [Rows -> Nat]
    /\ \A r, q \in Rows : r # q => Served[r] # Served[q] /\ Name[r] # Name[q]
    /\ Entered \subseteq Nat /\ Market \subseteq Nat \ {0}
    /\ STALE_THRESHOLD \in Nat /\ None \notin Rows /\ None \notin Handlers
    /\ MaxTime \in Nat /\ MaxWrites \in [Rows -> Nat] /\ MaxReloads \in Nat /\ MaxFaults \in Nat

VARIABLES
    now,
    server,     \* row -> Price, in the database
    cache,      \* the same as SWR holds it, None while it is loading
    latest,     \* the handler whose request for the portfolio is the newest
    retry,      \* has SWR scheduled another attempt after a failed request?
    sort,       \* kept in sessionStorage, and read from there on mount
    editor,     \* overrideCode, overrideValue, overrideError, overrideSaving
    handler,
    told,       \* row -> version of the last override the page knows of (history)
    reloads, faults

page == <<cache, latest, retry, sort>>
bounds == <<reloads, faults>>
vars == <<now, server, cache, latest, retry, sort, editor, handler, told, reloads, faults>>

DEFAULT_SORT == [key |-> "price", dir |-> -1]
Closed == [row |-> None, value |-> None, error |-> FALSE, saving |-> FALSE, typed |-> None]
Idle == [step |-> "idle", row |-> None, price |-> None, outcome |-> "none", data |-> None]

Sending(r, p) == [Idle EXCEPT !.step = "sent", !.row = r, !.price = p]
Fetching(r) == [Idle EXCEPT !.step = "fetch", !.row = r]

Init ==
    /\ now = 0
    /\ server \in [Rows -> [price : {None} \cup Market, at : {0}, version : {0}]]
    /\ cache = None /\ latest = None /\ retry = FALSE
    /\ sort = DEFAULT_SORT
    /\ editor = Closed /\ handler = [h \in Handlers |-> Idle]
    /\ told = [r \in Rows |-> 0]
    /\ reloads = 0 /\ faults = 0

-----------------------------------------------------------------------------
(* The table *)

\* A price that was never retrieved is not stale.
Stale(r) == cache[r].price # None /\ now - cache[r].at > STALE_THRESHOLD

sortValue(r) == IF sort.key = "name" THEN Name[r] ELSE cache[r].price

Sign(a, b) == IF a < b THEN -1 ELSE IF a > b THEN 1 ELSE 0

\* Mutant: the direction turns rows without a value around, too.
compareAll(va, vb) ==
    sort.dir * (IF va = None THEN (IF vb = None THEN 0 ELSE 1)
                ELSE IF vb = None THEN -1 ELSE Sign(va, vb))

compare(va, vb) ==
    CASE va = None /\ vb = None -> 0
      [] va = None /\ vb # None -> 1
      [] va # None /\ vb = None -> -1
      [] OTHER -> sort.dir * Sign(va, vb)

compareRows(r, q) == compare(sortValue(r), sortValue(q))

\* sort() is stable: rows that compare equal stay as they were served.
Above(r, q) ==
    \/ compareRows(r, q) < 0
    \/ compareRows(r, q) = 0 /\ Served[r] < Served[q]

\* The line a row is shown on.
Line(r) == 1 + Cardinality({q \in Rows : Above(q, r)})

handleSort(key) ==
    LET next == IF sort.key = key THEN [key |-> key, dir |-> -sort.dir]
                                  ELSE [key |-> key, dir |-> IF key = "name" THEN 1 ELSE -1] IN
    /\ cache # None
    /\ sort' = next
    /\ UNCHANGED <<now, server, cache, latest, retry, editor, handler, told, bounds>>

-----------------------------------------------------------------------------
(* The editor of a price *)

\* Mutant: what was typed for another row stays.
OpenedAsLeft(r) == [editor EXCEPT !.row = r, !.error = FALSE]

Opened(r) == [editor EXCEPT !.row = r, !.value = None, !.error = FALSE, !.typed = None]

\* The badge is a button of every stale row, also while another one is edited.
openOverride(r) ==
    /\ cache # None /\ Stale(r) /\ editor.row # r
    /\ editor' = Opened(r)
    /\ UNCHANGED <<now, server, page, handler, told, bounds>>

\* Mutant: the input stays enabled.
AlwaysEnabled == TRUE

InputEnabled == ~editor.saving

Type(v) ==
    /\ editor.row # None /\ InputEnabled /\ v # editor.value
    /\ editor' = [editor EXCEPT !.value = v, !.typed = editor.row]
    /\ UNCHANGED <<now, server, page, handler, told, bounds>>

closeOverride == [editor EXCEPT !.row = None, !.value = None, !.error = FALSE, !.typed = None]

Escape ==
    /\ editor.row # None /\ InputEnabled
    /\ editor' = closeOverride
    /\ UNCHANGED <<now, server, page, handler, told, bounds>>

CanSave == editor.row # None /\ ~editor.saving

Invalid(v) == v \in {None, 0}

RefuseOverride ==
    /\ CanSave /\ Invalid(editor.value) /\ ~editor.error
    /\ editor' = [editor EXCEPT !.error = TRUE]
    /\ UNCHANGED <<now, server, page, handler, told, bounds>>

saveOverride(h) ==
    /\ CanSave /\ ~Invalid(editor.value) /\ handler[h] = Idle
    /\ handler' = [handler EXCEPT ![h] = Sending(editor.row, editor.value)]
    /\ editor' = [editor EXCEPT !.error = FALSE, !.saving = TRUE]
    /\ UNCHANGED <<now, server, page, told, bounds>>

\* The price is saved: whichever editor is open closes, and the page asks for
\* the portfolio again.
OverrideSaved(h) ==
    /\ handler[h].step = "answered" /\ handler[h].outcome = "ok"
    /\ editor' = closeOverride
    /\ handler' = [handler EXCEPT ![h] = Fetching(handler[h].row)]
    /\ latest' = h /\ told' = [told EXCEPT ![handler[h].row] = handler[h].data]
    /\ UNCHANGED <<now, server, cache, retry, sort, bounds>>

AfterFailure == [editor EXCEPT !.error = TRUE, !.saving = FALSE]

OverrideFailed(h) ==
    /\ handler[h].step = "answered" /\ handler[h].outcome # "ok"
    /\ editor' = AfterFailure
    /\ handler' = [handler EXCEPT ![h] = Idle]
    /\ UNCHANGED <<now, server, page, told, bounds>>

-----------------------------------------------------------------------------
(* SWR's copy of the portfolio *)

\* On mount, on focus, or once more after a failure.
Revalidate(h) ==
    /\ latest = None /\ handler[h] = Idle
    /\ handler' = [handler EXCEPT ![h] = Fetching(None)]
    /\ latest' = h /\ retry' = FALSE
    /\ UNCHANGED <<now, server, cache, sort, editor, told, bounds>>

\* Mutant: the answer of a request that a newer one has replaced is kept.
AppliesAll(h) == handler[h].data # None

Applies(h) == latest = h /\ handler[h].data # None

\* A handler that waits for the portfolio is done with it, whatever came.
PortfolioArrives(h) ==
    /\ handler[h].step = "fetched"
    /\ cache' = IF Applies(h) THEN handler[h].data ELSE cache
    /\ latest' = IF latest = h THEN None ELSE latest
    /\ retry' = IF handler[h].data = None THEN TRUE ELSE retry /\ ~Applies(h)
    /\ editor' = IF handler[h].row = None THEN editor ELSE [editor EXCEPT !.saving = FALSE]
    /\ handler' = [handler EXCEPT ![h] = Idle]
    /\ UNCHANGED <<now, server, sort, told, bounds>>

\* The page is loaded again; what the server was asked it still does.
Reload ==
    /\ reloads < MaxReloads /\ reloads' = reloads + 1
    /\ cache' = None /\ latest' = None /\ retry' = FALSE
    /\ editor' = Closed
    /\ handler' = [h \in Handlers |-> IF handler[h].step = "sent"
                     THEN [handler[h] EXCEPT !.step = "orphan"] ELSE Idle]
    /\ told' = [r \in Rows |-> 0]
    /\ UNCHANGED <<now, server, sort, faults>>

-----------------------------------------------------------------------------
(* The server, and the time *)

Written(r, p) == [price |-> p, at |-> now, version |-> server[r].version + 1]
MayWrite(r) == server[r].version < MaxWrites[r]

\* The version stands for the answer's time of the override.
ServerOverride(h) ==
    LET r == handler[h].row IN
    /\ handler[h].step \in {"sent", "orphan"} /\ MayWrite(r)
    /\ server' = [server EXCEPT ![r] = Written(r, handler[h].price)]
    /\ handler' = [handler EXCEPT ![h] =
         IF @.step = "orphan" THEN Idle
         ELSE [@ EXCEPT !.step = "answered", !.outcome = "ok", !.data = server'[r].version]]
    /\ UNCHANGED <<now, page, editor, told, bounds>>

\* 4xx: the account is read-only by now, or the price is refused.
ServerRefuses(h) ==
    /\ handler[h].step \in {"sent", "orphan"}
    /\ handler' = [handler EXCEPT ![h] =
         IF @.step = "orphan" THEN Idle ELSE [@ EXCEPT !.step = "answered", !.outcome = "refused"]]
    /\ UNCHANGED <<now, server, page, editor, told, bounds>>

ServerRead(h) ==
    /\ handler[h].step = "fetch"
    /\ handler' = [handler EXCEPT ![h].step = "fetched", ![h].data = server]
    /\ UNCHANGED <<now, server, page, editor, told, bounds>>

\* The nightly refresh writes a price.
RefreshPrice(r) ==
    /\ MayWrite(r)
    /\ \E p \in Market : server' = [server EXCEPT ![r] = Written(r, p)]
    /\ UNCHANGED <<now, page, editor, handler, told, bounds>>

Lose(h) ==
    /\ faults < MaxFaults /\ faults' = faults + 1
    /\ handler' = [handler EXCEPT ![h] =
         IF @.step \in {"sent", "answered"} THEN [@ EXCEPT !.step = "answered", !.outcome = "lost",
                                                          !.data = None]
         ELSE [@ EXCEPT !.step = "fetched", !.data = None]]
    /\ handler[h].step \in {"sent", "answered", "fetch"} /\ handler[h].outcome # "lost"
    /\ UNCHANGED <<now, server, page, editor, told, reloads>>

Clock ==
    /\ now < MaxTime /\ now' = now + 1
    /\ UNCHANGED <<server, page, editor, handler, told, bounds>>

HandlerStep(h) ==
    \/ ServerOverride(h) \/ ServerRefuses(h) \/ ServerRead(h)
    \/ OverrideSaved(h) \/ OverrideFailed(h) \/ PortfolioArrives(h)

Next ==
    \/ \E key \in Keys : handleSort(key)
    \/ \E r \in Rows : openOverride(r) \/ RefreshPrice(r)
    \/ \E v \in Entered : Type(v)
    \/ \E h \in Handlers : saveOverride(h) \/ Revalidate(h) \/ HandlerStep(h) \/ Lose(h)
    \/ Escape \/ RefuseOverride \/ Reload \/ Clock

Spec == Init /\ [][Next]_vars

-----------------------------------------------------------------------------
(* Properties *)

Step == {"idle", "sent", "orphan", "answered", "fetch", "fetched"}
TypeOK ==
    /\ now \in Nat /\ server \in [Rows -> Price] /\ cache \in {None} \cup [Rows -> Price]
    /\ latest \in Handlers \cup {None} /\ retry \in BOOLEAN
    /\ sort \in Sort
    /\ editor \in [row : Rows \cup {None}, value : Entered \cup {None}, error : BOOLEAN,
                   saving : BOOLEAN, typed : Rows \cup {None}]
    /\ \A h \in Handlers : handler[h].step \in Step
    /\ told \in [Rows -> Nat] /\ reloads \in Nat /\ faults \in Nat

\* Rows without a value are shown below all others, whichever way the column
\* is sorted and whatever prices come and go (compareRows: "always sort last,
\* regardless of direction").
UnpricedLast ==
    cache # None /\ sort.key = "price" =>
        \A r, q \in Rows : cache[r].price # None /\ cache[q].price = None => Line(r) < Line(q)

\* A price is sent for the row it was typed for: not one that was left in the
\* input when the badge of another row was pressed.
SentForItsRow ==
    [][\A h \in Handlers : handler[h] = Idle /\ handler'[h].step = "sent" =>
         handler'[h].row = editor.typed]_vars

\* What the user is typing is taken from the input by the user alone: the
\* answer of an override of another row closes no editor that is in use.
TypedIsKept ==
    [][editor.value # None /\ editor'.value = None /\ editor'.row = None /\ reloads' = reloads =>
         ~editor.saving \/ \E h \in Handlers : handler[h].step = "answered" /\ handler[h].row = editor.row]_vars

\* A price the page was told to be saved is shown, or will be: then the newest
\* request for the portfolio will bring it, or SWR is about to try again.
WillBring(h, r) ==
    \/ handler[h].step = "fetch" \/ handler[h].data = None
    \/ handler[h].data[r].version >= told[r]
OverridesAreShown ==
    \A r \in Rows :
        \/ told[r] = 0 \/ retry
        \/ cache # None /\ cache[r].version >= told[r]
        \/ latest # None /\ WillBring(latest, r)
=============================================================================
