------------------------ MODULE PortfolioProperties ------------------------
(***************************************************************************)
(* What PortfolioStore must guarantee: first the properties that hold      *)
(* however requests interleave, then the business rules, which the         *)
(* handlers enforce by reading before they write.                          *)
(***************************************************************************)
EXTENDS PortfolioStore

-----------------------------------------------------------------------------
(* Properties of concurrent requests *)

\* No lost update: when a PATCH is about to pass its version check, the row
\* still holds the terms the request read.  Then the fields the client left
\* out keep their stored values, and previous_values in the audit log is
\* what the row held.  The check compares the client's version, not the one
\* that was read, so this rests on clients sending versions they were given
\* (update_lot, update_dividend_tranche).
NoLostUpdate ==
    \A r \in Requests :
        /\ req[r].at = "update_lot" =>
              LET row == lots[req[r].lot] IN
              row.version = req[r].version => row.terms = req[r].seen.terms
        /\ req[r].at \in UpdateDividendSteps =>
              LET row == tranches[req[r].tranche] IN
              row.version = req[r].version => row.terms = req[r].seen.terms

\* What a request in flight may rely on: the rows it names exist; the version
\* its client sent is not newer than the row it read, nor that row than the
\* stored one; and while the version stands, so do the terms.
Snapshot(row, q) ==
    /\ row # None
    /\ q.version <= q.seen.version
    /\ q.seen.version <= row.version
    /\ q.seen.version = row.version => q.seen.terms = row.terms

Sound(q, ps, ls, ts) ==
    /\ q.at = "update_lot_read" => ls[q.lot] # None /\ q.version <= ls[q.lot].version
    /\ q.at = "update_lot" => Snapshot(ls[q.lot], q)
    /\ q.at \in {"delete_lot_read", "delete_lot_count", "delete_lot"} => ls[q.lot] # None
    /\ q.at \in DeletePositionSteps =>
         /\ ps[q.position] # None
         /\ \A l \in q.lots : ls[l] # None
         /\ \A t \in q.tranches : ts[t] # None
    /\ q.at \in UpdateDividendSteps => Snapshot(ts[q.tranche], q)
    /\ q.at = "delete_dividend" => ts[q.tranche] # None

\* The inductive invariant behind TypeOK and NoLostUpdate: every request in
\* flight is sound for the stored rows.
SoundRequests ==
    /\ TypeOK
    /\ \A r \in Requests : Sound(req[r], positions, lots, tranches)

\* A row and the events of its audit log tell one story: it was created once
\* and first, each edit's previous_values agree with what the event before it
\* logged as new, the last new values are what the row holds, and the version
\* counts the edits.  A creation tells of a row only what Carried lets it: the
\* dates of a lot or a dividend are in the log from its first edit on.
Told(log, created, updated) == {i \in 1..Len(log) : log[i].action \in {created, updated}}

Explains(log, row, created, updated) ==
    LET told == Told(log, created, updated)
        Says(i, terms) == log[i].new = Carried(log[i].action, terms)
    IN  /\ 1 \in told /\ \A i \in told : log[i].action = created <=> i = 1
        /\ row.version = Cardinality(told)
        /\ \A i, j \in told : j < i /\ (\A k \in told : k <= j \/ i <= k) =>
             Says(j, log[i].old)
        /\ \A i \in told : (\A k \in told : k <= i) => Says(i, row.terms)

AuditExplainsRows ==
    /\ \A l \in LotId :
         IF lots[l] = None THEN audit[l] = <<>>
         ELSE Explains(audit[l], lots[l], "LOT_CREATED", "LOT_UPDATED")
    /\ \A t \in TrancheId :
         IF tranches[t] = None THEN audit[t] = <<>>
         ELSE Explains(audit[t], tranches[t], "DIVIDEND_CREATED", "DIVIDEND_UPDATED")

\* Every soft-deleted row can be explained from the log: by an event of its
\* own or by the deletion of its position (the cascade logs no event per
\* child), and a logged deletion has taken effect.
Logged(e, action) == \E i \in 1..Len(audit[e]) : audit[e][i].action = action

DeletionsAreExplained ==
    /\ \A p \in PositionId : positions[p] # None =>
         (positions[p].deleted <=> Logged(p, "POSITION_DELETED"))
    /\ \A l \in LotId : lots[l] # None =>
         /\ Logged(l, "LOT_DELETED") => lots[l].deleted
         /\ lots[l].deleted => \/ Logged(l, "LOT_DELETED")
                               \/ positions[lots[l].position].deleted
    /\ \A t \in TrancheId : tranches[t] # None =>
         /\ Logged(t, "DIVIDEND_DELETED") => tranches[t].deleted
         /\ tranches[t].deleted => \/ Logged(t, "DIVIDEND_DELETED")
                                   \/ positions[tranches[t].position].deleted

\* Once a deleted position has no request left in flight that had seen it
\* active, it is closed for good: no request takes it up again and none of
\* its rows changes (get_owned_active_position, EC-006).
Concerns(r, p) ==
    \/ /\ req[r].at \in {"create_position", "add_lot", "update_lot_read", "delete_lot_read"}
                        \cup DeletePositionSteps \cup CreateDividendSteps
       /\ req[r].position = p
    \/ /\ req[r].at \in {"update_lot", "delete_lot_count", "delete_lot", "delete_dividend"}
                        \cup UpdateDividendSteps
       /\ req[r].seen.position = p

Closed(p) ==
    /\ positions[p] # None /\ positions[p].deleted
    /\ \A r \in Requests : ~Concerns(r, p)

LotsOf(p) == {<<l, lots[l]>> : l \in {k \in LotId : lots[k] # None /\ lots[k].position = p}}
TranchesOf(p) ==
    {<<t, tranches[t]>> :
        t \in {k \in TrancheId : tranches[k] # None /\ tranches[k].position = p}}

DeletionIsFinal ==
    [][\A p \in PositionId :
          Closed(p) => /\ Closed(p)'
                       /\ LotsOf(p)' = LotsOf(p)
                       /\ TranchesOf(p)' = TranchesOf(p)]_vars

\* No physical deletion (A-010): a row never disappears, never moves to
\* another position, is never undeleted and never loses a version.
Kept(old, new) ==
    /\ new.position = old.position
    /\ old.deleted => new.deleted
    /\ new.version >= old.version
    /\ new.terms # old.terms => new.version > old.version

RowsKept ==
    /\ \A l \in LotId : lots[l] # None => lots'[l] # None /\ Kept(lots[l], lots'[l])
    /\ \A t \in TrancheId :
         tranches[t] # None => tranches'[t] # None /\ Kept(tranches[t], tranches'[t])
    /\ \A p \in PositionId : positions[p] # None =>
         positions'[p] # None /\ positions'[p] \in {positions[p], Gone(positions[p])}

RecordsAreKept == [][RowsKept]_vars

\* A total in sen is as near as it can be to an amount in millionths; half a
\* sen goes upwards.
NearestSen(total, exact) == 10000 * total - exact \in -4999..5000

\* P0 invariant (BR-009/BR-027): total_amount is per_share_amount times the
\* tranche's own qualifying_shares, to the nearest sen, whatever happens to
\* the lots afterwards.
TotalIsFrozen ==
    \A t \in TrancheId : tranches[t] # None =>
        LET terms == tranches[t].terms
        IN  terms.total > 0 /\ NearestSen(terms.total, terms.body.per * terms.body.shares)

\* Every accepted request is answered: no request waits for ever for a row
\* lock of a deletion in progress.
RequestsFinish ==
    \A r \in Requests : (req[r].at # "idle") ~> (req[r].at = "idle")

\* Each table with its audit log is a journaled table: however many reads and
\* waits a handler takes, what it does to a row is one write, told by an event
\* that logs what the row held at that very moment
\* (_insert_lot, update_lot, delete_lot, the dividend handlers, delete_position).
Lots == INSTANCE JournaledTable WITH
    Id <- LotId, Owner <- PositionId, Content <- LotTerms,
    Created <- "LOT_CREATED", Updated <- "LOT_UPDATED", Removed <- "LOT_DELETED",
    table <- lots, log <- [l \in LotId |-> audit[l]]

Tranches == INSTANCE JournaledTable WITH
    Id <- TrancheId, Owner <- PositionId, Content <- TrancheTerms,
    Created <- "DIVIDEND_CREATED", Updated <- "DIVIDEND_UPDATED",
    Removed <- "DIVIDEND_DELETED",
    table <- tranches, log <- [t \in TrancheId |-> audit[t]]

TablesAreJournaled == Lots!Spec /\ Tranches!Spec

-----------------------------------------------------------------------------
(* Business rules.  The handlers enforce them by reading before they write,*)
(* and nothing in the tables backs them, so requests that overlap can      *)
(* break each of them.  Every rule comes with the overlap that breaks it:  *)
(* where two such requests are never in flight together the rule holds,    *)
(* whatever else overlaps.                                                 *)

\* EC-001: at most one active position per portfolio and stock
\* (create_position, get_active_position_by_stock).
OnePositionPerStock ==
    \A p, q \in PositionId :
        /\ ActivePosition(p) /\ ActivePosition(q)
        /\ positions[p].portfolio = positions[q].portfolio
        /\ positions[p].stock = positions[q].stock
        => p = q

\* No two requests have both found no position of a stock.
CreationsApart ==
    \A r, q \in Requests :
        /\ req[r].at = "create_position" /\ req[q].at = "create_position"
        /\ req[r].position = None /\ req[q].position = None
        /\ req[r].portfolio = req[q].portfolio /\ req[r].stock = req[q].stock
        => r = q

\* An active position has an active lot, on which get_default_sell_broker
\* relies.
ActivePositionHasLot ==
    \A p \in PositionId : ActivePosition(p) => ActiveLots(p) # {}

\* No two requests have both counted the lots of a position.
LotDeletionsApart ==
    \A r, q \in Requests :
        /\ req[r].at = "delete_lot" /\ req[q].at = "delete_lot"
        /\ req[r].seen.position = req[q].seen.position
        => r = q

\* The last-lot guard of delete_lot.
LastLotGuarded == []LotDeletionsApart => []ActivePositionHasLot

\* No active lot or tranche under a deleted position (delete_position; relied
\* on by get_dividend_calendar).
NoActiveOrphan ==
    \A p \in PositionId :
        positions[p] # None /\ positions[p].deleted =>
            ActiveLots(p) = {} /\ ActiveTranches(p) = {}

\* No request is about to insert a row under a position while another one
\* deletes that position.
Inserts(q, p) ==
    q.at \in {"create_position", "add_lot"} \cup CreateDividendSteps /\ q.position = p

CascadesAlone ==
    \A r, q \in Requests :
        req[r].at \in DeletePositionSteps => ~Inserts(req[q], req[r].position)

\* The cascade of delete_position leaves nothing behind.
CascadeIsComplete == []CascadesAlone => []NoActiveOrphan

\* BR-014 and the duplicate-label rule: within a position and a year, at most
\* TranchesPerYear active tranches, no two with the same label.
OneLabelPerYear ==
    \A t, u \in TrancheId :
        /\ tranches[t] # None /\ tranches[u] # None
        /\ ~tranches[t].deleted /\ ~tranches[u].deleted
        /\ tranches[t].position = tranches[u].position
        /\ tranches[t].terms.year = tranches[u].terms.year
        /\ tranches[t].terms.body.label = tranches[u].terms.body.label
        => t = u

FewTranchesPerYear ==
    \A p \in PositionId, y \in {Year(d) : d \in Days} :
        Cardinality({t \in ActiveTranches(p) : tranches[t].terms.year = y})
            <= TranchesPerYear

\* The position a dividend request is about.
DividendPosition(q) == IF q.at \in CreateDividendSteps THEN q.position ELSE q.seen.position

\* No two requests have both checked a year of a position.
DividendsApart ==
    \A r, q \in Requests :
        /\ {req[r].at, req[q].at} \subseteq {"create_dividend", "update_dividend"}
        /\ DividendPosition(req[r]) = DividendPosition(req[q])
        => r = q

\* VR-011: the qualifying_shares a request has checked are still within the
\* shares its position holds that were bought by the reference date.
SharesChecked ==
    {"create_dividend_year", "create_dividend", "update_dividend_year", "update_dividend"}

CheckedSharesHeld ==
    \A r \in Requests : req[r].at \in SharesChecked =>
        req[r].body.shares
            <= EligibleShares(DividendPosition(req[r]), ReferenceDate(req[r].body))

\* No request changes or deletes lots of a position while another one has
\* checked a dividend against them.
LotsStandStill ==
    \A r, q \in Requests :
        req[r].at \in SharesChecked =>
            /\ req[q].at \in {"update_lot", "delete_lot"} =>
                  req[q].seen.position # DividendPosition(req[r])
            /\ req[q].at = "delete_position_commit" =>
                  req[q].position # DividendPosition(req[r])

\* A dividend is never about to be stored for shares that were not held at its
\* ex-date (shares_eligible_as_of).
EntitlementHolds == []LotsStandStill => []CheckedSharesHeld

\* Where the schema document has "AND is_deleted = false" in the UPDATE of an
\* edit, a lot is not edited once it has been deleted (update_lot).
DeletedLotsAreNotEdited ==
    \A l \in LotId : \A i, j \in 1..Len(audit[l]) :
        audit[l][i].action = "LOT_DELETED" /\ audit[l][j].action = "LOT_UPDATED" => j < i

\* Four rules are promised without a condition: by two indexes of the schema
\* document, one active position per stock and one tranche label per position
\* and year (neither is in the migrations); by its UPDATE; and by the docstring
\* of get_default_sell_broker, the active lot.  Only a state that breaks all
\* four at once refutes this.
SomePromiseHolds ==
    \/ OnePositionPerStock
    \/ OneLabelPerYear
    \/ ActivePositionHasLot
    \/ DeletedLotsAreNotEdited
=============================================================================
