------------------------------ MODULE AddForms ------------------------------
(***************************************************************************)
(* The dialogs that add a lot, a dividend or a position (AddLotDialog,     *)
(* AddDividendDialog, AddPositionDialog).  Unlike the edit dialogs they    *)
(* stay mounted while they are closed: what was typed, and "submitting",   *)
(* survive until the form is reset or the page is left.  Each behaviour is *)
(* about one of the three dialogs.                                         *)
(*                                                                         *)
(* "entry" numbers what the user types into an empty form; the code does   *)
(* not keep it.  Purchase dates, names, tags and error messages influence  *)
(* nothing here and are left out, as is the ex-date: every lot counts.     *)
(***************************************************************************)
EXTENDS FeePreview, Sequences, FiniteSets

Backend == INSTANCE FeeCalculator

CONSTANTS
    Dialogs,       \* of "lot", "dividend", "position"
    Brokers,       \* the broker configurations
    Prices,        \* prices, or dividends, per share a user may enter
    Shares,        \* numbers of shares a user may enter
    Years,         \* payment years
    ThisYear,
    Labels,        \* labels of a year's tranches: 1st, 2nd, ... as 1..n
    Holding,       \* [broker, total] of the position at first
    Handlers,
    MaxEntries,    \* bound of the instance on what a user types
    MaxChanges,    \* bound of the instance on changes by other sessions
    MaxFaults,     \* bound of the instance on lost requests and answers
    None

ASSUME FormsAssumption ==
    /\ Dialogs \subseteq {"lot", "dividend", "position"}
    /\ ThisYear \in Years /\ None \notin Brokers
    /\ Brokers \subseteq [fee_type : {"percentage", "flat"}, rate : Nat,
                           minimum_fee : Nat, flat_fee : Nat]
    /\ Holding.broker \in Brokers /\ Holding.total \in Nat
    /\ Prices \cup Shares \subseteq Nat \ {0}
    /\ MaxEntries \in Nat /\ MaxChanges \in Nat /\ MaxFaults \in Nat

VARIABLES
    dialog,      \* which of the dialogs this behaviour is about
    page,        \* "host" of the dialog, the position "created", or "away"
    open, form, submitting,
    cache,       \* the position as SWR holds it
    server,      \* the position in the database
    handler,     \* what each handleSave is doing
    stored,      \* what the server has stored for this dialog, in order
    entries,     \* how many entries were begun
    unanswered,  \* entries whose answer was lost (history)
    changes, faults

vars == <<dialog, page, open, form, submitting, cache, server, handler, stored,
          entries, unanswered, changes, faults>>

\* The form as resetForm leaves it, which does not touch the broker of a lot.
Reset(f, total) ==
    [entry |-> 0, price |-> 0, shares |-> IF dialog = "dividend" THEN total ELSE 0,
     broker |-> IF dialog = "lot" THEN f.broker ELSE None, year |-> ThisYear]

Idle == [step |-> "idle", own |-> FALSE, entry |-> 0, price |-> 0, shares |-> 0,
         broker |-> None, year |-> ThisYear, label |-> 0, total |-> 0, outcome |-> "none"]

Init ==
    /\ dialog \in Dialogs
    /\ page = "host" /\ open = FALSE /\ submitting = FALSE
    /\ server = [broker |-> Holding.broker, total |-> Holding.total,
                 used |-> [y \in Years |-> {}]]
    /\ cache = server
    /\ form = Reset([broker |-> None], cache.total)
    /\ handler = [t \in Handlers |-> Idle]
    /\ stored = <<>>
    /\ entries = 0 /\ unanswered = {} /\ changes = 0 /\ faults = 0

-----------------------------------------------------------------------------
(* The user *)

FreeLabels(c, y) == Labels \ c.used[y]
capReached == dialog = "dividend" /\ FreeLabels(cache, form.year) = {}

\* The effect on [open, position.lots] puts back the broker of the first lot.
WithBroker(f, c) == IF dialog = "lot" THEN [f EXCEPT !.broker = c.broker] ELSE f

OpenDialog ==
    /\ page = "host" /\ ~open /\ open' = TRUE
    /\ form' = WithBroker(form, cache)
    /\ UNCHANGED <<dialog, page, submitting, cache, server, handler, stored, entries, unanswered, changes, faults>>

\* The close button, Escape, a click beside the dialog.
Dismiss ==
    /\ open /\ open' = FALSE
    /\ form' = Reset(form, cache.total)
    /\ UNCHANGED <<dialog, page, submitting, cache, server, handler, stored, entries, unanswered, changes, faults>>

\* The Cancel button keeps the fields.
Cancel ==
    /\ open /\ open' = FALSE
    /\ UNCHANGED <<dialog, page, form, submitting, cache, server, handler, stored, entries, unanswered, changes, faults>>

\* What the user fills in; an empty form becomes a new entry.
Fill(f) ==
    /\ open /\ ~capReached /\ f # form
    /\ \/ form.entry # 0 /\ form' = f /\ UNCHANGED entries
       \/ /\ form.entry = 0 /\ entries < MaxEntries /\ entries' = entries + 1
          /\ form' = [f EXCEPT !.entry = entries']
    /\ UNCHANGED <<dialog, page, open, submitting, cache, server, handler, stored, unanswered, changes, faults>>

TypePrice == \E p \in Prices : Fill([form EXCEPT !.price = p])
TypeShares == \E n \in Shares : Fill([form EXCEPT !.shares = n])
ChooseBroker ==
    /\ dialog # "dividend"
    /\ \E b \in Brokers : Fill([form EXCEPT !.broker = b])
ChooseYear ==
    /\ dialog = "dividend"
    /\ \E y \in Years : Fill([form EXCEPT !.year = y])

validate ==
    IF dialog = "dividend"
      THEN validatePerShareAmount(form.price) /\ validateQualifyingShares(form.shares, cache.total)
      ELSE validatePurchasePrice(form.price) /\ validateShares(form.shares) /\ form.broker # None

\* Mutant: the button stays enabled while a save is under way.
AlwaysEnabled == open /\ ~capReached

SaveEnabled == open /\ ~submitting /\ ~capReached

\* Handlers are interchangeable: a save is given one that runs nothing.
Free(t) == handler[t] = Idle /\ t = CHOOSE u \in Handlers : handler[u] = Idle

Save(t) ==
    /\ SaveEnabled /\ validate /\ Free(t)
    /\ submitting' = TRUE
    /\ handler' = [handler EXCEPT ![t] =
         [step |-> "sent", own |-> TRUE, entry |-> form.entry, price |-> form.price,
          shares |-> form.shares, broker |-> form.broker, year |-> form.year,
          label |-> IF dialog = "dividend"
                      THEN CHOOSE l \in FreeLabels(cache, form.year) :
                             \A m \in FreeLabels(cache, form.year) : l <= m
                      ELSE 0,
          total |-> IF dialog = "dividend" THEN cache.total ELSE 0, outcome |-> "none"]]
    /\ UNCHANGED <<dialog, page, open, form, cache, server, stored, entries, unanswered, changes, faults>>

\* The browser's back button works under a modal dialog, too.
LeavePage ==
    /\ page = "host" /\ page' = "away"
    /\ open' = FALSE /\ submitting' = FALSE
    /\ handler' = [t \in Handlers |-> [handler[t] EXCEPT !.own = FALSE]]
    /\ UNCHANGED <<dialog, form, cache, server, stored, entries, unanswered, changes, faults>>

\* A new instance of the dialog, and of the cached position if it changed.
Return ==
    /\ page # "host" /\ page' = "host"
    /\ cache' \in {cache, server}
    /\ form' = Reset([broker |-> None], cache'.total)
    /\ UNCHANGED <<dialog, open, submitting, server, handler, stored, entries, unanswered, changes, faults>>

-----------------------------------------------------------------------------
(* The server, other sessions, and SWR *)

Refused(h) ==
    /\ dialog = "dividend"
    /\ h.label \in server.used[h.year] \/ h.shares > server.total

\* What the server computes and keeps, next to what the form has shown.
Receipt(h) ==
    IF dialog = "dividend"
      THEN [entry |-> h.entry, label |-> h.label, year |-> h.year,
            cost |-> Backend!dividend_total(h.price, h.shares),
            shown |-> computeDividendTotal(h.price, h.shares)]
      ELSE [entry |-> h.entry, label |-> 0, year |-> h.year,
            cost |-> Backend!calculate_lot_fees(h.shares, h.price, h.broker),
            shown |-> calculateLotFees(h.shares, h.price, h.broker)]

\* The request is of no more use then.
Answered(h, outcome) ==
    [Idle EXCEPT !.step = "answered", !.own = h.own, !.entry = h.entry,
                 !.total = h.total, !.outcome = outcome]

ServerPost(t) ==
    LET h == handler[t] IN
    /\ h.step = "sent"
    /\ handler' = [handler EXCEPT ![t] = Answered(h, IF Refused(h) THEN "refused" ELSE "ok")]
    /\ stored' = IF Refused(h) THEN stored ELSE Append(stored, Receipt(h))
    /\ server' = IF Refused(h) \/ dialog = "position" THEN server
                 ELSE IF dialog = "lot" THEN [server EXCEPT !.total = @ + h.shares]
                 ELSE [server EXCEPT !.used[h.year] = @ \cup {h.label}]
    /\ UNCHANGED <<dialog, page, open, form, submitting, cache, entries, unanswered, changes, faults>>

\* A request or an answer is lost: fetch() rejects.
Lose(t) ==
    /\ handler[t].step \in {"sent", "answered"} /\ handler[t].outcome # "lost"
    /\ faults < MaxFaults /\ faults' = faults + 1
    /\ handler' = [handler EXCEPT ![t] = Answered(handler[t], "lost")]
    /\ unanswered' = unanswered \cup {handler[t].entry}
    /\ UNCHANGED <<dialog, page, open, form, submitting, cache, server, stored, entries, changes>>

\* Another session adds or deletes a lot, the first one too, logs or deletes a
\* dividend.
OthersChange ==
    /\ dialog # "position" /\ changes < MaxChanges /\ changes' = changes + 1
    /\ \/ \E n \in Shares : server' = [server EXCEPT !.total = @ + n]
       \/ \E n \in Shares : server.total > n /\ server' = [server EXCEPT !.total = @ - n]
       \/ dialog = "lot" /\ \E b \in Brokers : server' = [server EXCEPT !.broker = b]
       \/ dialog = "dividend" /\ \E y \in Years, l \in Labels :
            server' = [server EXCEPT !.used[y] = IF l \in @ THEN @ \ {l} ELSE @ \cup {l}]
    /\ UNCHANGED <<dialog, page, open, form, submitting, cache, handler, stored, entries, unanswered, faults>>

\* A new copy of the position: its lots are a new array, whatever differs.
NewCache(f) ==
    /\ cache' = server
    /\ form' = IF open' /\ cache # server THEN WithBroker(f, server) ELSE f

Revalidate ==
    /\ page = "host" /\ cache # server /\ UNCHANGED open /\ NewCache(form)
    /\ UNCHANGED <<dialog, page, submitting, server, handler, stored, entries, unanswered, changes, faults>>

-----------------------------------------------------------------------------
(* Answers.  A handler whose page is gone sets nothing any more. *)

\* The lot dialog does not wait for the position it asks for again.
LotAdded(t) ==
    LET h == handler[t] IN
    /\ dialog = "lot" /\ h.step = "answered" /\ h.outcome = "ok"
    /\ handler' = [handler EXCEPT ![t] = Idle]
    /\ open' = (open /\ ~h.own)
    /\ submitting' = (submitting /\ ~h.own)
    /\ form' = IF h.own THEN Reset(form, h.total) ELSE form
    /\ UNCHANGED <<dialog, page, cache, server, stored, entries, unanswered, changes, faults>>

\* The dividend dialog closes at once and saves until the position is there.
DividendLogged(t) ==
    LET h == handler[t] IN
    /\ dialog = "dividend" /\ h.step = "answered" /\ h.outcome = "ok"
    /\ handler' = [handler EXCEPT ![t] = [Idle EXCEPT !.step = "refreshing", !.own = h.own]]
    /\ open' = (open /\ ~h.own)
    /\ form' = IF h.own THEN Reset(form, h.total) ELSE form
    /\ UNCHANGED <<dialog, page, submitting, cache, server, stored, entries, unanswered, changes, faults>>

DividendRefreshed(t) ==
    /\ dialog = "dividend" /\ handler[t].step = "refreshing"
    /\ handler' = [handler EXCEPT ![t] = Idle]
    /\ submitting' = (submitting /\ ~handler[t].own)
    /\ UNCHANGED open
    /\ IF page = "host" THEN NewCache(form) \/ UNCHANGED <<cache, form>>
                        ELSE UNCHANGED <<cache, form>>
    /\ UNCHANGED <<dialog, page, server, stored, entries, unanswered, changes, faults>>

PositionSaved(t) ==
    /\ dialog = "position" /\ handler[t].step = "answered" /\ handler[t].outcome = "ok"
    /\ handler' = [handler EXCEPT ![t].step = "refreshing"]
    /\ UNCHANGED <<dialog, page, open, form, submitting, cache, server, stored, entries, unanswered, changes, faults>>

\* The dashboard has answered: the dialog closes, and router.push leaves
\* whichever page is shown by now.
PositionOpened(t) ==
    /\ dialog = "position" /\ handler[t].step = "refreshing"
    /\ handler' = [u \in Handlers |-> IF u = t THEN Idle ELSE [handler[u] EXCEPT !.own = FALSE]]
    /\ page' = "created" /\ open' = FALSE /\ submitting' = FALSE
    /\ UNCHANGED <<dialog, form, cache, server, stored, entries, unanswered, changes, faults>>

\* Mutant: the error path returns before submitting is reset.
FailureStaysBusy(h) == UNCHANGED submitting

AfterFailure(h) == submitting' = (submitting /\ ~h.own)

SaveFailed(t) ==
    /\ handler[t].step = "answered" /\ handler[t].outcome # "ok"
    /\ handler' = [handler EXCEPT ![t] = Idle]
    /\ AfterFailure(handler[t])
    /\ UNCHANGED <<dialog, page, open, form, cache, server, stored, entries, unanswered, changes, faults>>

-----------------------------------------------------------------------------
HandlerStep(t) ==
    \/ ServerPost(t) \/ SaveFailed(t)
    \/ LotAdded(t) \/ DividendLogged(t) \/ DividendRefreshed(t)
    \/ PositionSaved(t) \/ PositionOpened(t)

UserStep ==
    \/ OpenDialog \/ Dismiss \/ Cancel
    \/ TypePrice \/ TypeShares \/ ChooseBroker \/ ChooseYear
    \/ LeavePage \/ Return
    \/ \E t \in Handlers : Save(t)

Next ==
    \/ UserStep
    \/ \E t \in Handlers : HandlerStep(t) \/ Lose(t)
    \/ OthersChange \/ Revalidate

Spec == Init /\ [][Next]_vars

\* A request is answered or fails, and a promise that is settled goes on.
FairSpec == Spec /\ \A t \in Handlers : WF_vars(HandlerStep(t))

-----------------------------------------------------------------------------
(* Properties *)

Receipts == 1..Len(stored)

\* What a user typed once is stored once, unless an answer was lost: dialogs
\* that are cancelled, dismissed, reopened or left while they save, and forms
\* that keep what was typed, do not send it again.
SavedOnce ==
    \A i, j \in Receipts :
        i # j /\ stored[i].entry = stored[j].entry => stored[i].entry \in unanswered

\* What the server stores is what the form has shown, to the sen
\* (lib/fee-calculator.ts: "this preview must never diverge").
PreviewIsStored == \A i \in Receipts : stored[i].cost = stored[i].shown

\* No dialog stays disabled as "Saving" for ever: every save of the instance
\* that is shown ends, however it is closed and reopened meanwhile.
SaveEnds == submitting ~> ~submitting
=============================================================================
