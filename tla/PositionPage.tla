---------------------------- MODULE PositionPage ----------------------------
(***************************************************************************)
(* The position page (app/positions/[id]/page.tsx) with its edit dialogs   *)
(* and delete confirmations, the copy of the position that SWR caches for  *)
(* it, and the rows on the server, which other sessions edit and delete    *)
(* too.                                                                    *)
(*                                                                         *)
(* A handler is one asynchronous event handler of the page, or one         *)
(* revalidation SWR starts by itself.  It outlives the dialog that started *)
(* it; a React setter of a dialog that is gone does nothing, a setter of   *)
(* the page always works.  Notices and error messages influence nothing    *)
(* and are left out.                                                       *)
(***************************************************************************)
EXTENDS Naturals, FiniteSetsExt

CONSTANTS
    Lots, Tranches,    \* the position's rows
    Position,          \* the position itself, deleted as one more row
    Initial,           \* the shares each row holds at first
    LotShares,         \* shares a user may enter for a lot
    TrancheShares,     \* qualifying shares a user may enter for a tranche
    Shared,            \* what other sessions write, too
    Handlers,
    MaxVersion,        \* bound of the instance on each row's versions
    Lossy,             \* operations whose requests or answers may get lost
    MaxFaults,         \* bound of the instance on how many do
    None

Rows == Lots \cup Tranches
Entities == Rows \cup {Position}
Kinds == {"lot", "tranche"}
ConfirmKinds == Kinds \cup {"position"}

KindOf(r) ==
    CASE r \in Lots -> "lot" [] r \in Tranches -> "tranche" [] OTHER -> "position"
SharesOf(k) == IF k = "lot" THEN LotShares ELSE TrancheShares

\* Of what a row holds, prices and dates behave like the number of shares,
\* except that the number of shares of a tranche depends on the lots.
Row == [live : BOOLEAN, version : Nat, shares : Nat]
Snapshot == [Entities -> Row]

ASSUME EntitiesAssumption ==
    /\ Lots \cap Tranches = {} /\ Position \notin Rows /\ Shared \subseteq Entities
    /\ None \notin Entities /\ None \notin Handlers /\ None \notin Snapshot
ASSUME SharesAssumption ==
    /\ Initial \in [Rows -> Nat \ {0}]
    /\ LotShares \cup TrancheShares \subseteq Nat \ {0}
ASSUME BoundsAssumption == MaxVersion \in [Rows -> Nat] /\ MaxFaults \in Nat

VARIABLES
    server,     \* entity -> Row, in the database
    cache,      \* entity -> Row, the position as SWR holds it
    latest,     \* the handler whose request for the position is the newest
    retry,      \* has SWR scheduled another attempt after a failed request?
    editing,    \* editingLotId, editingTrancheId
    deleting,   \* deletingLotId, deletingTrancheId, deleteDialogOpen
    form,       \* kind -> state of the edit dialog that is shown
    confirming, \* kind -> "submitting" of the confirmation
    handler,    \* what each handler is doing
    told,       \* row -> version of the last save the page knows of (history)
    onPage,     \* FALSE once the page has been left
    faults      \* requests and answers lost so far

vars == <<server, cache, latest, retry, editing, deleting, form, confirming,
          handler, told, onPage, faults>>

-----------------------------------------------------------------------------
(* Dialogs *)

\* "base" is what the fields were loaded with; the code does not keep it.
Blank == [shares |-> 0, base |-> 0, version |-> 0,
          conflict |-> FALSE, submitting |-> FALSE, refreshing |-> FALSE]

Opened(row) == [Blank EXCEPT !.shares = row.shares, !.base = row.shares,
                             !.version = row.version]

\* Mutant: an effect that keeps what the user has typed.
EffectKeepsTyping(f, row) == [f EXCEPT !.version = row.version, !.conflict = FALSE]

\* The effect on [open, lot] or [open, tranche]: SWR makes new row objects
\* whenever anything in the position differs from the cached copy.
Effect(f, row) == [Opened(row) EXCEPT !.submitting = f.submitting,
                                      !.refreshing = f.refreshing]

\* The dialog of a kind is mounted while its row is in the cached position.
Shown(ids, k, c) == ids[k] # None /\ c[ids[k]].live

\* What a handler belongs to: the dialog that started it, while that is open.
StillOpen(h, ed, del, c) ==
    LET k == KindOf(h.row) IN
    IF h.op = "delete"
    THEN k # "position" => del[k] = deleting[k] /\ Shown(del, k, c)
    ELSE ed[k] = editing[k] /\ Shown(ed, k, c)

\* The page rendered with new ids and a new cached position; fm, cf and hs
\* hold what the event handler has set.
Render(ed, del, c, fm, cf, hs) ==
    /\ editing' = ed /\ deleting' = del /\ cache' = c
    /\ form' = [k \in Kinds |->
         IF ~Shown(ed, k, c) THEN Blank
         ELSE IF ed[k] # editing[k] THEN Opened(c[ed[k]])
         ELSE IF c # cache THEN Effect(fm[k], c[ed[k]]) ELSE fm[k]]
    /\ confirming' = [k \in ConfirmKinds |->
         cf[k] /\ (k # "position" => del[k] = deleting[k] /\ Shown(del, k, c))]
    /\ handler' = [t \in Handlers |->
         [hs[t] EXCEPT !.own = @ /\ StillOpen(hs[t], ed, del, c)]]

\* The dialogs are modal: the page is used while none is shown.
PageIsFree ==
    /\ onPage
    /\ \A k \in Kinds : ~Shown(editing, k, cache)
    /\ \A k \in ConfirmKinds : ~Shown(deleting, k, cache)

-----------------------------------------------------------------------------
(* Handlers *)

Idle == [op |-> "idle", row |-> Position, shares |-> 0, base |-> 0,
         version |-> 0, own |-> FALSE, step |-> "idle", outcome |-> "none", data |-> None]

Steps == {"idle", "sent", "answered", "fetch", "fetched", "dashboard"}

\* A handler that starts with a request for the row, or for the position.
Sends(op, r, f) ==
    [Idle EXCEPT !.op = op, !.row = r, !.own = TRUE, !.step = "sent",
                 !.shares = f.shares, !.base = f.base, !.version = f.version]
Fetches(op, r) ==
    [Idle EXCEPT !.op = op, !.row = r, !.own = (op = "refresh"), !.step = "fetch"]

\* Of an answered request the row and the version it was for are used.
Answered(h, outcome) ==
    [h EXCEPT !.step = "answered", !.outcome = outcome, !.shares = 0, !.base = 0]

\* Qualifying shares are held: all lots are bought by the reference date.
Eligible(c) == MapThenSumSet(LAMBDA l : c[l].shares, {l \in Lots : c[l].live})
Fits(c, k, n) == k = "tranche" => n <= Eligible(c)

Init ==
    /\ server = [e \in Entities |->
         [live |-> TRUE, version |-> 1, shares |-> IF e = Position THEN 0 ELSE Initial[e]]]
    /\ cache = server
    /\ latest = None /\ retry = FALSE
    /\ editing = [k \in Kinds |-> None]
    /\ deleting = [k \in ConfirmKinds |-> None]
    /\ form = [k \in Kinds |-> Blank]
    /\ confirming = [k \in ConfirmKinds |-> FALSE]
    /\ handler = [t \in Handlers |-> Idle]
    /\ told = [r \in Rows |-> 1]
    /\ onPage = TRUE /\ faults = 0

-----------------------------------------------------------------------------
(* The user *)

OpenEdit(k, r) ==
    /\ PageIsFree /\ KindOf(r) = k /\ cache[r].live
    /\ Render([editing EXCEPT ![k] = r], deleting, cache, form, confirming, handler)
    /\ UNCHANGED <<server, latest, retry, told, onPage, faults>>

EditLot(r) == OpenEdit("lot", r)
EditTranche(r) == OpenEdit("tranche", r)

\* The inputs are disabled while a conflict is shown.
Type(k, n) ==
    /\ Shown(editing, k, cache) /\ ~form[k].conflict /\ n # form[k].shares
    /\ form' = [form EXCEPT ![k].shares = n]
    /\ UNCHANGED <<server, cache, latest, retry, editing, deleting, confirming, handler, told, onPage, faults>>

TypeLot == \E n \in LotShares : Type("lot", n)
TypeTranche == \E n \in TrancheShares : Type("tranche", n)

\* Cancel, Escape, the close button: not disabled while a save is under way.
CancelEdit(k) ==
    /\ Shown(editing, k, cache)
    /\ Render([editing EXCEPT ![k] = None], deleting, cache, form, confirming, handler)
    /\ UNCHANGED <<server, latest, retry, told, onPage, faults>>

CanSave(k) == Shown(editing, k, cache) /\ ~form[k].submitting /\ ~form[k].conflict

Save(k, t) ==
    /\ CanSave(k) /\ Fits(cache, k, form[k].shares)
    /\ handler[t] = Idle /\ form[k].version <= MaxVersion[editing[k]]
    /\ form' = [form EXCEPT ![k].submitting = TRUE]
    /\ handler' = [handler EXCEPT ![t] = Sends("save", editing[k], form[k])]
    /\ UNCHANGED <<server, cache, latest, retry, editing, deleting, confirming, told, onPage, faults>>

SaveLot(t) == Save("lot", t)
SaveTranche(t) == Save("tranche", t)

CanRefresh(k) == Shown(editing, k, cache) /\ form[k].conflict /\ ~form[k].refreshing

Refresh(k, t) ==
    /\ CanRefresh(k) /\ handler[t] = Idle
    /\ form' = [form EXCEPT ![k].refreshing = TRUE]
    /\ handler' = [handler EXCEPT ![t] = Fetches("refresh", editing[k])]
    /\ latest' = t
    /\ UNCHANGED <<server, cache, retry, editing, deleting, confirming, told, onPage, faults>>

RefreshLot(t) == Refresh("lot", t)
RefreshTranche(t) == Refresh("tranche", t)

\* The last lot has no delete button.
OpenDelete(r) ==
    /\ PageIsFree /\ cache[r].live
    /\ r \in Lots => \E l \in Lots \ {r} : cache[l].live
    /\ Render(editing, [deleting EXCEPT ![KindOf(r)] = r], cache, form, confirming, handler)
    /\ UNCHANGED <<server, latest, retry, told, onPage, faults>>

\* Nothing closes a confirmation that is submitting.
CancelDelete(k) ==
    /\ onPage /\ Shown(deleting, k, cache) /\ ~confirming[k]
    /\ Render(editing, [deleting EXCEPT ![k] = None], cache, form, confirming, handler)
    /\ UNCHANGED <<server, latest, retry, told, onPage, faults>>

Confirm(k, t) ==
    /\ onPage /\ Shown(deleting, k, cache) /\ ~confirming[k] /\ handler[t] = Idle
    /\ confirming' = [confirming EXCEPT ![k] = TRUE]
    /\ handler' = [handler EXCEPT ![t] = Sends("delete", deleting[k], Blank)]
    /\ UNCHANGED <<server, cache, latest, retry, editing, deleting, form, told, onPage, faults>>

\* A revalidation by SWR itself, on focus or after a failure; it is not
\* started while one is under way.
Revalidate(t) ==
    /\ onPage /\ latest = None /\ handler[t] = Idle
    /\ handler' = [handler EXCEPT ![t] = Fetches("revalidate", Position)]
    /\ latest' = t /\ retry' = FALSE
    /\ UNCHANGED <<server, cache, editing, deleting, form, confirming, told, onPage, faults>>

\* The setters of a page that is gone do nothing; what the server has been
\* asked to do it still does.
LeavePage ==
    /\ onPage' = FALSE
    /\ latest' = None /\ retry' = FALSE
    /\ Render([k \in Kinds |-> None], [k \in ConfirmKinds |-> None], cache, form,
              [k \in ConfirmKinds |-> FALSE],
              [t \in Handlers |-> IF handler[t].step = "sent"
                                 THEN [handler[t] EXCEPT !.own = FALSE] ELSE Idle])
    /\ UNCHANGED <<server, told, faults>>

GoBack == PageIsFree /\ LeavePage

-----------------------------------------------------------------------------
(* The server, and other sessions *)

VersionMatches(h) == server[h.row].version = h.version

PatchOutcome(h) ==
    IF ~server[h.row].live \/ ~Fits(server, KindOf(h.row), h.shares) THEN "refused"
    ELSE IF ~VersionMatches(h) THEN "conflict" ELSE "ok"

ServerPatch(t) ==
    LET h == handler[t] IN
    /\ h.op = "save" /\ h.step = "sent"
    /\ handler' = [handler EXCEPT ![t] = Answered(h, PatchOutcome(h))]
    /\ server' = IF PatchOutcome(h) # "ok" THEN server
                 ELSE [server EXCEPT ![h.row].version = @ + 1, ![h.row].shares = h.shares]
    /\ UNCHANGED <<cache, latest, retry, editing, deleting, form, confirming, told, onPage, faults>>

\* A lot may be deleted while another one is left; the position takes its
\* rows with it.
MayDelete(r) == server[r].live /\ (r \in Lots => \E l \in Lots \ {r} : server[l].live)
Without(r) ==
    [e \in Entities |->
        IF e = r \/ r = Position THEN [server[e] EXCEPT !.live = FALSE] ELSE server[e]]

ServerDelete(t) ==
    LET h == handler[t] IN
    /\ h.op = "delete" /\ h.step = "sent"
    /\ handler' = [handler EXCEPT ![t] = Answered(h, IF MayDelete(h.row) THEN "ok" ELSE "refused")]
    /\ server' = IF MayDelete(h.row) THEN Without(h.row) ELSE server
    /\ UNCHANGED <<cache, latest, retry, editing, deleting, form, confirming, told, onPage, faults>>

\* GET of the position: 404 once it is deleted.
ServerRead(t) ==
    /\ handler[t].step = "fetch"
    /\ handler' = [handler EXCEPT ![t].step = "fetched",
                     ![t].data = IF server[Position].live THEN server ELSE None]
    /\ UNCHANGED <<server, cache, latest, retry, editing, deleting, form, confirming, told, onPage, faults>>

OtherEdits(r) ==
    /\ server[r].live /\ server[r].version < MaxVersion[r]
    /\ \E n \in SharesOf(KindOf(r)) :
         /\ Fits(server, KindOf(r), n)
         /\ server' = [server EXCEPT ![r].version = @ + 1, ![r].shares = n]
    /\ UNCHANGED <<cache, latest, retry, editing, deleting, form, confirming, handler, told, onPage, faults>>

OtherDeletes(r) ==
    /\ MayDelete(r) /\ server' = Without(r)
    /\ UNCHANGED <<cache, latest, retry, editing, deleting, form, confirming, handler, told, onPage, faults>>

\* A request that does not reach the server, an answer that does not come
\* back: fetch() rejects.
Lose(t) ==
    /\ handler[t].op \in Lossy /\ faults < MaxFaults /\ faults' = faults + 1
    /\ \/ /\ handler[t].step \in {"sent", "answered"}
          /\ handler' = [handler EXCEPT ![t] = Answered(handler[t], "lost")]
       \/ /\ handler[t].step = "fetch"
          /\ handler' = [handler EXCEPT ![t].step = "fetched", ![t].data = None]
    /\ UNCHANGED <<server, cache, latest, retry, editing, deleting, form, confirming, told, onPage>>

-----------------------------------------------------------------------------
(* Answers *)

\* The dialog closes through the page's setter, whichever row is edited by
\* now; the page then asks for the position again.
Saved(k, t) ==
    /\ onPage /\ handler[t].op = "save" /\ KindOf(handler[t].row) = k
    /\ handler[t].step = "answered" /\ handler[t].outcome = "ok"
    /\ Render([editing EXCEPT ![k] = None], deleting, cache, form, confirming,
              [handler EXCEPT ![t] = Fetches("revalidate", Position)])
    /\ latest' = t
    /\ told' = [told EXCEPT ![handler[t].row] = handler[t].version + 1]
    /\ UNCHANGED <<server, retry, onPage, faults>>

\* Mutant: the page does not ask for the position again.
LotSavedOnly(t) ==
    /\ onPage /\ handler[t].op = "save" /\ KindOf(handler[t].row) = "lot"
    /\ handler[t].step = "answered" /\ handler[t].outcome = "ok"
    /\ Render([editing EXCEPT !["lot"] = None], deleting, cache, form, confirming,
              [handler EXCEPT ![t] = Idle])
    /\ told' = [told EXCEPT ![handler[t].row] = handler[t].version + 1]
    /\ UNCHANGED <<server, latest, retry, onPage, faults>>

LotSaved(t) == Saved("lot", t)
TrancheSaved(t) == Saved("tranche", t)

\* Mutant: a conflict returns before submitting is reset.
ConflictStaysBusy(f, h) ==
    IF h.outcome = "conflict" THEN [f EXCEPT !.conflict = TRUE] ELSE [f EXCEPT !.submitting = FALSE]

AfterFailure(f, h) ==
    [f EXCEPT !.submitting = FALSE, !.conflict = @ \/ h.outcome = "conflict"]

SaveFailed(k, t) ==
    LET h == handler[t] IN
    /\ onPage /\ h.op = "save" /\ KindOf(h.row) = k
    /\ h.step = "answered" /\ h.outcome # "ok"
    /\ form' = IF ~h.own THEN form
               ELSE [form EXCEPT ![k] = AfterFailure(form[k], h)]
    /\ handler' = [handler EXCEPT ![t] = Idle]
    /\ UNCHANGED <<server, cache, latest, retry, editing, deleting, confirming, told, onPage, faults>>

LotSaveFailed(t) == SaveFailed("lot", t)
TrancheSaveFailed(t) == SaveFailed("tranche", t)

\* Mutant: every answer is applied.
AppliesAll(t) == handler[t].data # None

\* SWR keeps the answer of the newest request only, and the cached data when
\* it failed; whoever waits gets what is cached then.
Applies(t) == latest = t /\ handler[t].data # None
NewCache(t) == IF Applies(t) THEN handler[t].data ELSE cache

Arrives(t) ==
    /\ onPage /\ handler[t].step = "fetched"
    /\ latest' = IF latest = t THEN None ELSE latest
    /\ retry' = IF handler[t].data = None THEN TRUE ELSE retry /\ ~Applies(t)
    /\ UNCHANGED <<server, told, onPage, faults>>

PositionArrives(t) ==
    /\ Arrives(t) /\ handler[t].op = "revalidate"
    /\ Render(editing, deleting, NewCache(t), form, confirming, [handler EXCEPT ![t] = Idle])

\* The Refresh button of a dialog in conflict: the fields and the version are
\* taken from the answer, if the row is still there.
Refreshed(k, t) ==
    LET h == handler[t]
        row == NewCache(t)[h.row]
        f == [form[k] EXCEPT !.conflict = FALSE, !.refreshing = FALSE] IN
    /\ Arrives(t) /\ h.op = "refresh" /\ KindOf(h.row) = k
    /\ Render(editing, deleting, NewCache(t),
              IF ~h.own THEN form
              ELSE [form EXCEPT ![k] = IF row.live THEN Effect(f, row) ELSE f],
              confirming, [handler EXCEPT ![t] = Idle])

LotRefreshed(t) == Refreshed("lot", t)
TrancheRefreshed(t) == Refreshed("tranche", t)

Deleted(t) ==
    LET h == handler[t] IN
    /\ onPage /\ h.op = "delete" /\ h.step = "answered" /\ h.outcome = "ok"
    /\ handler' = [handler EXCEPT ![t].step = IF h.row = Position THEN "dashboard" ELSE "fetch"]
    /\ latest' = IF h.row = Position THEN latest ELSE t
    /\ UNCHANGED <<server, cache, retry, editing, deleting, form, confirming, told, onPage, faults>>

DeleteFailed(t) ==
    LET h == handler[t] IN
    /\ onPage /\ h.op = "delete" /\ h.step = "answered" /\ h.outcome # "ok"
    /\ confirming' = IF h.own THEN [confirming EXCEPT ![KindOf(h.row)] = FALSE] ELSE confirming
    /\ handler' = [handler EXCEPT ![t] = Idle]
    /\ UNCHANGED <<server, cache, latest, retry, editing, deleting, form, told, onPage, faults>>

DeletionArrives(t) ==
    /\ Arrives(t) /\ handler[t].op = "delete"
    /\ Render(editing, deleting, NewCache(t), form, confirming,
              [handler EXCEPT ![t].step = "dashboard", ![t].data = None])

\* The dashboard has answered: onConfirm is done, the confirmation closes
\* through the page's setter, whichever row it asks about by now.
RowDeleted(t) ==
    LET k == KindOf(handler[t].row) IN
    /\ onPage /\ handler[t].step = "dashboard" /\ k # "position"
    /\ Render(editing, [deleting EXCEPT ![k] = None], cache, form, confirming,
              [handler EXCEPT ![t] = Idle])
    /\ UNCHANGED <<server, latest, retry, told, onPage, faults>>

PositionDeleted(t) ==
    /\ onPage /\ handler[t].step = "dashboard" /\ handler[t].row = Position
    /\ LeavePage

ArrivesTooLate(t) ==
    /\ ~onPage /\ handler[t].step = "answered"
    /\ handler' = [handler EXCEPT ![t] = Idle]
    /\ UNCHANGED <<server, cache, latest, retry, editing, deleting, form, confirming, told, onPage, faults>>

-----------------------------------------------------------------------------
UserStep ==
    \/ \E r \in Rows : EditLot(r) \/ EditTranche(r)
    \/ TypeLot \/ TypeTranche \/ GoBack
    \/ \E k \in Kinds : CancelEdit(k)
    \/ \E r \in Entities : OpenDelete(r)
    \/ \E k \in ConfirmKinds : CancelDelete(k) \/ \E t \in Handlers : Confirm(k, t)
    \/ \E t \in Handlers : \/ SaveLot(t) \/ SaveTranche(t)
                           \/ RefreshLot(t) \/ RefreshTranche(t)
                           \/ Revalidate(t)

HandlerStep(t) ==
    \/ ServerPatch(t) \/ ServerDelete(t) \/ ServerRead(t)
    \/ LotSaved(t) \/ TrancheSaved(t) \/ LotSaveFailed(t) \/ TrancheSaveFailed(t)
    \/ PositionArrives(t) \/ LotRefreshed(t) \/ TrancheRefreshed(t)
    \/ Deleted(t) \/ DeleteFailed(t) \/ DeletionArrives(t)
    \/ RowDeleted(t) \/ PositionDeleted(t) \/ ArrivesTooLate(t)

Next ==
    \/ UserStep
    \/ \E t \in Handlers : HandlerStep(t) \/ Lose(t)
    \/ \E r \in Shared \cap Rows : OtherEdits(r)
    \/ \E r \in Shared : OtherDeletes(r)

Spec == Init /\ [][Next]_vars
=============================================================================
