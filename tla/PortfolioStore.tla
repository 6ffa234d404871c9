--------------------------- MODULE PortfolioStore ---------------------------
(***************************************************************************)
(* The write side of the portfolio: positions, their lots and their        *)
(* dividend tranches, as the request handlers of portfolio/service.py      *)
(* change them in Postgres.                                                *)
(*                                                                         *)
(* A request is a slot of Requests.  Each SELECT of a handler is a step of *)
(* its own, on the committed rows, because READ COMMITTED gives every      *)
(* statement a snapshot of its own; the request remembers what it read.    *)
(* A handler that writes one existing row, or only inserts rows, writes    *)
(* and commits in one step: the row it updates is locked until the commit, *)
(* its WHERE clause is evaluated on the latest committed row, and rows it  *)
(* inserts are seen by nobody before the commit.  delete_position writes   *)
(* rows of three tables in three statements, so its locks are explicit.    *)
(*                                                                         *)
(* A request that is refused (404, 409, 422, 500) changes no row: its slot *)
(* becomes idle.  A request whose first read refuses it is not modelled.   *)
(***************************************************************************)
EXTENDS Integers, Sequences, FiniteSets, FiniteSetsExt

CONSTANTS
    Requests,       \* slots for requests in flight at the same time
    Endpoints,      \* the service functions the requests of this instance call
    Portfolios, Stocks,
    PositionId, LotId, TrancheId,   \* primary keys; None is not among them
    Shares,         \* share counts a client may send
    Days,           \* dates a client may send
    ExDays,         \* ex-dividend dates a client may send
    DaysPerYear,
    Labels,         \* tranche labels
    PerShare,       \* dividend amounts per share, in millionths of a ringgit
    TranchesPerYear,   \* 8 in the code
    MaxVersion,     \* bound of the instance on the version of a row
    None

ASSUME SharesAssumption == Shares \subseteq Nat \ {0}
ASSUME DaysAssumption == Days \subseteq Nat /\ ExDays \subseteq Nat
ASSUME PerShareAssumption == PerShare \subseteq Nat \ {0}
ASSUME BoundsAssumption ==
    /\ DaysPerYear \in Nat \ {0}
    /\ TranchesPerYear \in Nat \ {0}
    /\ MaxVersion \in Nat \ {0}
VARIABLES
    positions,   \* the positions table: id -> row, None where no row exists
    lots,        \* the lots table
    tranches,    \* the dividend_tranches table
    audit,       \* audit_logs: the events of each entity, oldest first
    req          \* what each request slot is doing

vars == <<positions, lots, tranches, audit, req>>

-----------------------------------------------------------------------------
(* Rows.  Of a lot's terms only shares and purchase date are kept: price,  *)
(* broker and the fee columns are written together with them, in the same  *)
(* statements.                                                             *)

Year(day) == day \div DaysPerYear

LotTerms == [shares : Shares, date : Days]
LotPatch == [shares : Shares \cup {None}, date : Days \cup {None}]

DividendBody == [label : Labels, per : PerShare, shares : Shares,
                 payment : Days, ex : ExDays \cup {None}]
DividendPatch == [label : Labels \cup {None}, per : PerShare \cup {None},
                  shares : Shares \cup {None}, payment : Days \cup {None},
                  ex : ExDays \cup {None}]

\* round_myr: millionths of a ringgit to sen, half up.
RoundMyr(x) == (x + 5000) \div 10000

Totals == {RoundMyr(per * n) : per \in PerShare, n \in Shares}
TrancheTerms == [body : DividendBody, year : {Year(d) : d \in Days}, total : Totals]

PositionRow == [portfolio : Portfolios, stock : Stocks, deleted : BOOLEAN]
LotRow == [position : PositionId, terms : LotTerms,
           version : 1..MaxVersion, deleted : BOOLEAN]
TrancheRow == [position : PositionId, terms : TrancheTerms,
               version : 1..MaxVersion, deleted : BOOLEAN]

\* "No row" and "not supplied" are told apart from every value.
ASSUME NoneAssumption ==
    /\ None \notin PositionRow \cup LotRow \cup TrancheRow
    /\ None \notin Portfolios \cup Stocks \cup PositionId \cup LotId \cup TrancheId
    /\ None \notin Nat \cup Labels

\* An audit event names the table with the key, so keys of different tables
\* are never taken for each other.
ASSUME KeysAssumption ==
    /\ PositionId \cap LotId = {} /\ PositionId \cap TrancheId = {}
    /\ LotId \cap TrancheId = {}

\* Lots and tranches are versioned rows: a position, terms, a version counter
\* for optimistic locking and a soft-delete mark.
NewRow(p, terms) ==
    [position |-> p, terms |-> terms, version |-> 1, deleted |-> FALSE]

EditedWithoutBump(row, terms) == [row EXCEPT !.terms = terms]

EditedAndRevived(row, terms) ==
    [row EXCEPT !.terms = terms, !.version = @ + 1, !.deleted = FALSE]

Edited(row, terms) == [row EXCEPT !.terms = terms, !.version = @ + 1]

Gone(row) == [row EXCEPT !.deleted = TRUE]

\* The WHERE clause of an optimistic-lock UPDATE: only the version is compared.
VersionIgnored(row, version) == TRUE

VersionMatches(row, version) == row.version = version

\* An unsupplied field of a PATCH keeps the value the request has read.
Supplied(new, stored) == IF new = None THEN stored ELSE new

MergedLot(terms, patch) ==
    [shares |-> Supplied(patch.shares, terms.shares),
     date   |-> Supplied(patch.date, terms.date)]

MergedDividend(body, patch) ==
    [label   |-> Supplied(patch.label, body.label),
     per     |-> Supplied(patch.per, body.per),
     shares  |-> Supplied(patch.shares, body.shares),
     payment |-> Supplied(patch.payment, body.payment),
     ex      |-> Supplied(patch.ex, body.ex)]

\* total_amount is the request's own per_share_amount x qualifying_shares.
TermsTruncated(body) ==
    [body |-> body, year |-> Year(body.payment),
     total |-> (body.per * body.shares) \div 10000]

Terms(body) ==
    [body |-> body, year |-> Year(body.payment),
     total |-> RoundMyr(body.per * body.shares)]

\* The date a dividend's entitlement is judged at.
ReferenceDate(body) == IF body.ex = None THEN body.payment ELSE body.ex

DatesInOrder(body) == body.ex # None => body.ex <= body.payment

-----------------------------------------------------------------------------
(* Queries, each the result of one SELECT on the committed rows.           *)

ActivePosition(p) == positions[p] # None /\ ~positions[p].deleted

ActiveLots(p) ==
    {l \in LotId : lots[l] # None /\ lots[l].position = p /\ ~lots[l].deleted}

ActiveTranches(p) ==
    {t \in TrancheId :
        tranches[t] # None /\ tranches[t].position = p /\ ~tranches[t].deleted}

\* get_owned_active_position finds a row.
OwnedEvenDeleted(pf, p) == positions[p] # None /\ positions[p].portfolio = pf

OwnedActive(pf, p) == ActivePosition(p) /\ positions[p].portfolio = pf

\* get_active_position_by_stock.
ActiveByStock(pf, s) ==
    {p \in PositionId : OwnedActive(pf, p) /\ positions[p].stock = s}

\* get_owned_lot finds a row.
OwnedLot(p, l) == l \in ActiveLots(p)

\* get_owned_dividend_tranche joins the tranche with its position.
OwnedTranche(pf, t) ==
    /\ tranches[t] # None
    /\ t \in ActiveTranches(tranches[t].position)
    /\ OwnedActive(pf, tranches[t].position)

\* shares_eligible_as_of over get_position_lots.
EligibleShares(p, day) ==
    MapThenSumSet(LAMBDA l : lots[l].terms.shares,
                  {l \in ActiveLots(p) : lots[l].terms.date <= day})

\* _check_tranche_year_constraints, for a tranche other than itself.
YearAllows(p, self, body) ==
    LET others == {t \in ActiveTranches(p) \ {self} :
                      tranches[t].terms.year = Year(body.payment)}
    IN  /\ Cardinality(others) < TranchesPerYear
        /\ \A t \in others : tranches[t].terms.body.label # body.label

\* delete_lot's guard: another active lot must remain.
SomeLotLeft(p) == ActiveLots(p) # {}

OtherLotLeft(p) == Cardinality(ActiveLots(p)) > 1

-----------------------------------------------------------------------------
(* Requests in flight: one record set per handler, holding what the        *)
(* handler still needs at the step named by "at".                          *)

Idle == [at |-> "idle"]

InCreatePosition == [at : {"create_position"}, portfolio : Portfolios, stock : Stocks,
                     position : PositionId \cup {None}, terms : LotTerms]
InAddLot == [at : {"add_lot"}, position : PositionId, terms : LotTerms]
InUpdateLotRead == [at : {"update_lot_read"}, position : PositionId, lot : LotId,
                    version : 1..(MaxVersion - 1), patch : LotPatch]
InUpdateLot == [at : {"update_lot"}, lot : LotId, version : 1..(MaxVersion - 1),
                terms : LotTerms, seen : LotRow]
InDeleteLotRead == [at : {"delete_lot_read"}, position : PositionId, lot : LotId]
InDeleteLot == [at : {"delete_lot_count", "delete_lot"}, lot : LotId, seen : LotRow]
DeletePositionSteps ==
    {"delete_position", "delete_position_tranches", "delete_position_commit"}
InDeletePosition == [at : DeletePositionSteps, position : PositionId,
                     lots : SUBSET LotId, tranches : SUBSET TrancheId]
CreateDividendSteps ==
    {"create_dividend_lots", "create_dividend_year", "create_dividend"}
InCreateDividend == [at : CreateDividendSteps, position : PositionId, body : DividendBody]
UpdateDividendSteps ==
    {"update_dividend_position", "update_dividend_lots", "update_dividend_year",
     "update_dividend"}
InUpdateDividend == [at : UpdateDividendSteps, portfolio : Portfolios, tranche : TrancheId,
                     version : 1..(MaxVersion - 1), body : DividendBody, seen : TrancheRow]
InDeleteDividend == [at : {"delete_dividend"}, tranche : TrancheId, seen : TrancheRow]

Request == {Idle} \cup InCreatePosition \cup InAddLot \cup InUpdateLotRead
           \cup InUpdateLot \cup InDeleteLotRead \cup InDeleteLot
           \cup InDeletePosition \cup InCreateDividend \cup InUpdateDividend
           \cup InDeleteDividend

Starts(r, endpoint) == endpoint \in Endpoints /\ req[r] = Idle
Continue(r, next) == req' = [req EXCEPT ![r] = next]
Goto(r, at) == Continue(r, [req[r] EXCEPT !.at = at])
Finish(r) == Continue(r, Idle)

\* Row locks held between delete_position's UPDATE statements and its commit.
Cascading == {r \in Requests :
                 req[r].at \in {"delete_position_tranches", "delete_position_commit"}}
LockedPositions == {req[r].position : r \in Cascading}
LockedLots == UNION {req[r].lots : r \in Cascading}
LockedTranches == UNION {req[r].tranches : r \in Cascading}

\* What the metadata of an event tells of a row's terms.  Only an edit logs
\* them all; a creation leaves out the dates, a deletion almost everything.
Carried(action, terms) ==
    CASE action \in {"LOT_CREATED", "LOT_DELETED"} -> [shares |-> terms.shares]
      [] action = "DIVIDEND_CREATED" ->
           [label |-> terms.body.label, per |-> terms.body.per,
            shares |-> terms.body.shares, total |-> terms.total]
      [] action = "DIVIDEND_DELETED" -> [total |-> terms.total]
      [] OTHER -> terms

Actions == {"LOT_CREATED", "LOT_UPDATED", "LOT_DELETED", "POSITION_DELETED",
            "DIVIDEND_CREATED", "DIVIDEND_UPDATED", "DIVIDEND_DELETED"}
Metadata == {None} \cup LotTerms \cup TrancheTerms \cup [shares : Shares]
            \cup [label : Labels, per : PerShare, shares : Shares, total : Totals]
            \cup [total : Totals]
Event == [action : Actions, old : Metadata, new : Metadata]

\* record_audit_event: one more event on the entity, written with the change.
Record(entity, action, old, new) ==
    audit' = [audit EXCEPT ![entity] =
                 Append(@, [action |-> action, old |-> old, new |-> new])]

\* Bounds of the instance: a request that will insert starts only while a
\* primary key is left for it.
Inserting(ats) == Cardinality({r \in Requests : req[r].at \in ats})
RoomFor(table, ats) ==
    Cardinality({i \in DOMAIN table : table[i] = None}) > Inserting(ats)
RoomForLot == RoomFor(lots, {"create_position", "add_lot"})
RoomForPosition == RoomFor(positions, {"create_position"})
RoomForTranche == RoomFor(tranches, CreateDividendSteps)

TypeOK ==
    /\ positions \in [PositionId -> PositionRow \cup {None}]
    /\ lots \in [LotId -> LotRow \cup {None}]
    /\ tranches \in [TrancheId -> TrancheRow \cup {None}]
    /\ audit \in [PositionId \cup LotId \cup TrancheId -> Seq(Event)]
    /\ req \in [Requests -> Request]

Init ==
    /\ positions = [p \in PositionId |-> None]
    /\ lots = [l \in LotId |-> None]
    /\ tranches = [t \in TrancheId |-> None]
    /\ audit = [e \in PositionId \cup LotId \cup TrancheId |-> <<>>]
    /\ req = [r \in Requests |-> Idle]

-----------------------------------------------------------------------------
(* create_position: an active position of the same stock turns the request *)
(* into an added lot (EC-001).  Two such positions make scalar_one_or_none *)
(* raise, so the request ends.                                             *)

CreatePositionFind(r) ==
    /\ Starts(r, "create_position") /\ RoomForLot /\ RoomForPosition
    /\ \E pf \in Portfolios, s \in Stocks, terms \in LotTerms :
         LET found == ActiveByStock(pf, s) IN
         /\ Cardinality(found) <= 1
         /\ \E p \in IF found = {} THEN {None} ELSE found :
              Continue(r, [at |-> "create_position", portfolio |-> pf, stock |-> s,
                           position |-> p, terms |-> terms])
    /\ UNCHANGED <<positions, lots, tranches, audit>>

\* _insert_lot: the row and its LOT_CREATED event.
InsertLot(p, terms) ==
    \E l \in LotId :
        /\ lots[l] = None
        /\ lots' = [lots EXCEPT ![l] = NewRow(p, terms)]
        /\ Record(l, "LOT_CREATED", None, Carried("LOT_CREATED", terms))

CreatePositionCommit(r) ==
    /\ req[r].at = "create_position"
    /\ \/ /\ req[r].position # None
          /\ InsertLot(req[r].position, req[r].terms)
          /\ UNCHANGED positions
       \/ /\ req[r].position = None
          /\ \E p \in PositionId :
               /\ positions[p] = None
               /\ positions' = [positions EXCEPT ![p] =
                     [portfolio |-> req[r].portfolio, stock |-> req[r].stock,
                      deleted |-> FALSE]]
               /\ InsertLot(p, req[r].terms)
    /\ Finish(r)
    /\ UNCHANGED tranches

(* add_lot_to_position *)

AddLotRead(r) ==
    /\ Starts(r, "add_lot") /\ RoomForLot
    /\ \E pf \in Portfolios, p \in PositionId, terms \in LotTerms :
         /\ OwnedActive(pf, p)
         /\ Continue(r, [at |-> "add_lot", position |-> p, terms |-> terms])
    /\ UNCHANGED <<positions, lots, tranches, audit>>

AddLotCommit(r) ==
    /\ req[r].at = "add_lot"
    /\ InsertLot(req[r].position, req[r].terms)
    /\ Finish(r)
    /\ UNCHANGED <<positions, tranches>>

(* update_lot: the version a client sends is one it has been given, so the *)
(* row has already reached it.  The broker reads depend on no other row.   *)

UpdateLotBegin(r) ==
    /\ Starts(r, "update_lot")
    /\ \E pf \in Portfolios, p \in PositionId, l \in LotId, patch \in LotPatch :
         /\ OwnedActive(pf, p)
         /\ lots[l] # None /\ lots[l].position = p
         /\ lots[l].version < MaxVersion
         /\ \E f \in DOMAIN patch : patch[f] # None
         /\ \E v \in 1..lots[l].version :
              Continue(r, [at |-> "update_lot_read", position |-> p, lot |-> l,
                           version |-> v, patch |-> patch])
    /\ UNCHANGED <<positions, lots, tranches, audit>>

UpdateLotRead(r) ==
    /\ req[r].at = "update_lot_read"
    /\ LET l == req[r].lot IN
       \/ /\ OwnedLot(req[r].position, l)
          /\ Continue(r, [at |-> "update_lot", lot |-> l, version |-> req[r].version,
                          terms |-> MergedLot(lots[l].terms, req[r].patch),
                          seen |-> lots[l]])
       \/ ~OwnedLot(req[r].position, l) /\ Finish(r)
    /\ UNCHANGED <<positions, lots, tranches, audit>>

UpdateLotLogsAfterwards(r) ==
    /\ req[r].at = "update_lot"
    /\ LET l == req[r].lot IN
       /\ l \notin LockedLots
       /\ \/ /\ VersionMatches(lots[l], req[r].version)
             /\ lots' = [lots EXCEPT ![l] = Edited(@, req[r].terms)]
             /\ Record(l, "LOT_UPDATED", Carried("LOT_UPDATED", lots'[l].terms),
                       Carried("LOT_UPDATED", req[r].terms))
          \/ /\ ~VersionMatches(lots[l], req[r].version)
             /\ UNCHANGED <<lots, audit>>
    /\ Finish(r)
    /\ UNCHANGED <<positions, tranches>>

UpdateLotCommit(r) ==
    /\ req[r].at = "update_lot"
    /\ LET l == req[r].lot IN
       /\ l \notin LockedLots
       /\ \/ /\ VersionMatches(lots[l], req[r].version)
             /\ lots' = [lots EXCEPT ![l] = Edited(@, req[r].terms)]
             /\ Record(l, "LOT_UPDATED", Carried("LOT_UPDATED", req[r].seen.terms),
                       Carried("LOT_UPDATED", req[r].terms))
          \/ /\ ~VersionMatches(lots[l], req[r].version)
             /\ UNCHANGED <<lots, audit>>
    /\ Finish(r)
    /\ UNCHANGED <<positions, tranches>>

(* delete_lot: the ORM's UPDATE names the row by its primary key alone.    *)

DeleteLotBegin(r) ==
    /\ Starts(r, "delete_lot")
    /\ \E pf \in Portfolios, p \in PositionId, l \in LotId :
         /\ OwnedActive(pf, p)
         /\ lots[l] # None /\ lots[l].position = p
         /\ Continue(r, [at |-> "delete_lot_read", position |-> p, lot |-> l])
    /\ UNCHANGED <<positions, lots, tranches, audit>>

DeleteLotRead(r) ==
    /\ req[r].at = "delete_lot_read"
    /\ LET l == req[r].lot IN
       \/ /\ OwnedLot(req[r].position, l)
          /\ Continue(r, [at |-> "delete_lot_count", lot |-> l, seen |-> lots[l]])
       \/ ~OwnedLot(req[r].position, l) /\ Finish(r)
    /\ UNCHANGED <<positions, lots, tranches, audit>>

DeleteLotCount(r) ==
    /\ req[r].at = "delete_lot_count"
    /\ \/ OtherLotLeft(req[r].seen.position) /\ Goto(r, "delete_lot")
       \/ ~OtherLotLeft(req[r].seen.position) /\ Finish(r)
    /\ UNCHANGED <<positions, lots, tranches, audit>>

DeleteLotUnlogged(r) ==
    /\ req[r].at = "delete_lot"
    /\ req[r].lot \notin LockedLots
    /\ lots' = [lots EXCEPT ![req[r].lot] = Gone(@)]
    /\ Finish(r)
    /\ UNCHANGED <<positions, tranches, audit>>

DeleteLotCommit(r) ==
    /\ req[r].at = "delete_lot"
    /\ req[r].lot \notin LockedLots
    /\ lots' = [lots EXCEPT ![req[r].lot] = Gone(@)]
    /\ Record(req[r].lot, "LOT_DELETED", Carried("LOT_DELETED", req[r].seen.terms), None)
    /\ Finish(r)
    /\ UNCHANGED <<positions, tranches>>

(* delete_position: three UPDATE statements and a commit.  The rows of a   *)
(* child table are those active when its statement runs.                   *)

DeletePositionRead(r) ==
    /\ Starts(r, "delete_position")
    /\ \E pf \in Portfolios, p \in PositionId :
         /\ OwnedActive(pf, p)
         /\ Continue(r, [at |-> "delete_position", position |-> p,
                         lots |-> {}, tranches |-> {}])
    /\ UNCHANGED <<positions, lots, tranches, audit>>

DeletePositionLots(r) ==
    /\ req[r].at = "delete_position"
    /\ req[r].position \notin LockedPositions
    /\ Continue(r, [req[r] EXCEPT !.at = "delete_position_tranches",
                                  !.lots = ActiveLots(req[r].position)])
    /\ UNCHANGED <<positions, lots, tranches, audit>>

TranchesInOwnTransaction(r) ==
    /\ req[r].at = "delete_position_tranches"
    /\ req[r].position \notin LockedPositions
    /\ Continue(r, [req[r] EXCEPT !.at = "delete_position_commit",
                                  !.tranches = ActiveTranches(req[r].position)])
    /\ UNCHANGED <<positions, lots, tranches, audit>>

DeletePositionTranches(r) ==
    /\ req[r].at = "delete_position_tranches"
    /\ Continue(r, [req[r] EXCEPT !.at = "delete_position_commit",
                                  !.tranches = ActiveTranches(req[r].position)])
    /\ UNCHANGED <<positions, lots, tranches, audit>>

\* The rows of a table whose ids are in S become soft-deleted.
KeepAll(table, S) == table

SoftDelete(table, S) ==
    [i \in DOMAIN table |-> IF i \in S THEN Gone(table[i]) ELSE table[i]]

DeletePositionCommit(r) ==
    /\ req[r].at = "delete_position_commit"
    /\ positions' = [positions EXCEPT ![req[r].position] = Gone(@)]
    /\ lots' = SoftDelete(lots, req[r].lots)
    /\ tranches' = SoftDelete(tranches, req[r].tranches)
    /\ Record(req[r].position, "POSITION_DELETED", None, None)
    /\ Finish(r)

(* create_dividend_tranche *)

CreateDividendRead(r) ==
    /\ Starts(r, "create_dividend") /\ RoomForTranche
    /\ \E pf \in Portfolios, p \in PositionId, body \in DividendBody :
         /\ DatesInOrder(body)
         /\ OwnedActive(pf, p)
         /\ Continue(r, [at |-> "create_dividend_lots", position |-> p, body |-> body])
    /\ UNCHANGED <<positions, lots, tranches, audit>>

CheckSharesAtPayment(r) ==
    /\ req[r].at = "create_dividend_lots"
    /\ LET b == req[r].body
           ok == b.shares <= EligibleShares(req[r].position, b.payment)
       IN  \/ ok /\ Goto(r, "create_dividend_year")
           \/ ~ok /\ Finish(r)
    /\ UNCHANGED <<positions, lots, tranches, audit>>

CreateDividendCheckShares(r) ==
    /\ req[r].at = "create_dividend_lots"
    /\ LET b == req[r].body
           ok == b.shares <= EligibleShares(req[r].position, ReferenceDate(b))
       IN  \/ ok /\ Goto(r, "create_dividend_year")
           \/ ~ok /\ Finish(r)
    /\ UNCHANGED <<positions, lots, tranches, audit>>

CreateDividendCheckYear(r) ==
    /\ req[r].at = "create_dividend_year"
    /\ LET ok == YearAllows(req[r].position, None, req[r].body)
       IN  \/ ok /\ Goto(r, "create_dividend")
           \/ ~ok /\ Finish(r)
    /\ UNCHANGED <<positions, lots, tranches, audit>>

\* A total that rounds to nothing breaks the CHECK on total_amount: no row.
CreateDividendCommit(r) ==
    /\ req[r].at = "create_dividend"
    /\ LET terms == Terms(req[r].body) IN
       \/ /\ terms.total > 0
          /\ \E t \in TrancheId :
               /\ tranches[t] = None
               /\ tranches' = [tranches EXCEPT ![t] = NewRow(req[r].position, terms)]
               /\ Record(t, "DIVIDEND_CREATED", None, Carried("DIVIDEND_CREATED", terms))
       \/ terms.total = 0 /\ UNCHANGED <<tranches, audit>>
    /\ Finish(r)
    /\ UNCHANGED <<positions, lots>>

(* update_dividend_tranche *)

UpdateDividendRead(r) ==
    /\ Starts(r, "update_dividend")
    /\ \E pf \in Portfolios, t \in TrancheId, patch \in DividendPatch :
         /\ OwnedTranche(pf, t)
         /\ tranches[t].version < MaxVersion
         /\ \E f \in DOMAIN patch : patch[f] # None
         /\ LET body == MergedDividend(tranches[t].terms.body, patch) IN
            /\ DatesInOrder(body)
            /\ \E v \in 1..tranches[t].version :
                 Continue(r, [at |-> "update_dividend_position", portfolio |-> pf,
                              tranche |-> t, version |-> v, body |-> body,
                              seen |-> tranches[t]])
    /\ UNCHANGED <<positions, lots, tranches, audit>>

UpdateDividendCheckPosition(r) ==
    /\ req[r].at = "update_dividend_position"
    /\ LET ok == OwnedActive(req[r].portfolio, req[r].seen.position)
       IN  \/ ok /\ Goto(r, "update_dividend_lots")
           \/ ~ok /\ Finish(r)
    /\ UNCHANGED <<positions, lots, tranches, audit>>

UpdateDividendCheckShares(r) ==
    /\ req[r].at = "update_dividend_lots"
    /\ LET b == req[r].body
           ok == b.shares <= EligibleShares(req[r].seen.position, ReferenceDate(b))
       IN  \/ ok /\ Goto(r, "update_dividend_year")
           \/ ~ok /\ Finish(r)
    /\ UNCHANGED <<positions, lots, tranches, audit>>

UpdateDividendCheckYear(r) ==
    /\ req[r].at = "update_dividend_year"
    /\ LET ok == YearAllows(req[r].seen.position, req[r].tranche, req[r].body)
       IN  \/ ok /\ Goto(r, "update_dividend")
           \/ ~ok /\ Finish(r)
    /\ UNCHANGED <<positions, lots, tranches, audit>>

UpdateDividendCommit(r) ==
    /\ req[r].at = "update_dividend"
    /\ LET t == req[r].tranche
           terms == Terms(req[r].body)
           hit == VersionMatches(tranches[t], req[r].version) /\ terms.total > 0
       IN  /\ t \notin LockedTranches
           /\ \/ /\ hit
                 /\ tranches' = [tranches EXCEPT ![t] = Edited(@, terms)]
                 /\ Record(t, "DIVIDEND_UPDATED", Carried("DIVIDEND_UPDATED", req[r].seen.terms),
                           Carried("DIVIDEND_UPDATED", terms))
              \/ ~hit /\ UNCHANGED <<tranches, audit>>
    /\ Finish(r)
    /\ UNCHANGED <<positions, lots>>

(* delete_dividend_tranche *)

DeleteDividendRead(r) ==
    /\ Starts(r, "delete_dividend")
    /\ \E pf \in Portfolios, t \in TrancheId :
         /\ OwnedTranche(pf, t)
         /\ Continue(r, [at |-> "delete_dividend", tranche |-> t, seen |-> tranches[t]])
    /\ UNCHANGED <<positions, lots, tranches, audit>>

DeleteDividendCommit(r) ==
    /\ req[r].at = "delete_dividend"
    /\ req[r].tranche \notin LockedTranches
    /\ tranches' = [tranches EXCEPT ![req[r].tranche] = Gone(@)]
    /\ Record(req[r].tranche, "DIVIDEND_DELETED",
              Carried("DIVIDEND_DELETED", req[r].seen.terms), None)
    /\ Finish(r)
    /\ UNCHANGED <<positions, lots>>

-----------------------------------------------------------------------------
\* A request arrives: its first read.
Arrive(r) ==
    \/ CreatePositionFind(r) \/ AddLotRead(r) \/ UpdateLotBegin(r)
    \/ DeleteLotBegin(r) \/ DeletePositionRead(r) \/ CreateDividendRead(r)
    \/ UpdateDividendRead(r) \/ DeleteDividendRead(r)

\* A request in flight takes its next step.
Proceed(r) ==
    \/ CreatePositionCommit(r) \/ AddLotCommit(r)
    \/ UpdateLotRead(r) \/ UpdateLotCommit(r)
    \/ DeleteLotRead(r) \/ DeleteLotCount(r) \/ DeleteLotCommit(r)
    \/ DeletePositionLots(r) \/ DeletePositionTranches(r) \/ DeletePositionCommit(r)
    \/ CreateDividendCheckShares(r) \/ CreateDividendCheckYear(r)
    \/ CreateDividendCommit(r)
    \/ UpdateDividendCheckPosition(r) \/ UpdateDividendCheckShares(r)
    \/ UpdateDividendCheckYear(r) \/ UpdateDividendCommit(r)
    \/ DeleteDividendCommit(r)

Next == \E r \in Requests : Arrive(r) \/ Proceed(r)

Spec == Init /\ [][Next]_vars

\* The server keeps running every request it has accepted; Postgres grants a
\* row lock once its holder has committed.
FairSpec == Spec /\ \A r \in Requests : WF_vars(Proceed(r))
=============================================================================
