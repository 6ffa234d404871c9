----------------------- MODULE PortfolioStore_proofs -----------------------
(***************************************************************************)
(* Theorems about PortfolioStore, for every value of its constants: type   *)
(* correctness, no lost update, that rows are kept, that deletion is final *)
(* and that totals are exact.                                              *)
(*                                                                         *)
(* The inductive invariant is SoundRequests.  A step that only reads       *)
(* replaces one request by a sound one (lemma Advance); a step that writes *)
(* ends its request and leaves rows that are well-typed and kept, and what *)
(* the other requests rely on survives any such write (lemma Complete).    *)
(***************************************************************************)
EXTENDS PortfolioProperties, TLAPS

Tables == <<positions, lots, tranches, audit>>

RowsTyped ==
    /\ positions \in [PositionId -> PositionRow \cup {None}]
    /\ lots \in [LotId -> LotRow \cup {None}]
    /\ tranches \in [TrancheId -> TrancheRow \cup {None}]
    /\ audit \in [PositionId \cup LotId \cup TrancheId -> Seq(Event)]

-----------------------------------------------------------------------------
(* Rows *)

LEMMA LotRows ==
    ASSUME NEW row \in LotRow, NEW terms \in LotTerms
    PROVE  /\ Gone(row) \in LotRow
           /\ row.version < MaxVersion => Edited(row, terms) \in LotRow
           /\ \A p \in PositionId : NewRow(p, terms) \in LotRow
  <1>1. Gone(row) \in LotRow
    BY Zenon DEF LotRow, Gone
  <1>2. ASSUME row.version < MaxVersion PROVE Edited(row, terms) \in LotRow
    <2>1. row.version \in 1..MaxVersion
      BY DEF LotRow
    <2>2. row.version + 1 \in 1..MaxVersion
      BY <1>2, <2>1, BoundsAssumption
    <2>3. QED
      BY <2>2, Zenon DEF LotRow, Edited
  <1>3. ASSUME NEW p \in PositionId PROVE NewRow(p, terms) \in LotRow
    BY BoundsAssumption DEF LotRow, NewRow
  <1>4. QED
    BY <1>1, <1>2, <1>3

LEMMA TrancheRows ==
    ASSUME NEW row \in TrancheRow, NEW terms \in TrancheTerms
    PROVE  /\ Gone(row) \in TrancheRow
           /\ row.version < MaxVersion => Edited(row, terms) \in TrancheRow
           /\ \A p \in PositionId : NewRow(p, terms) \in TrancheRow
  <1>1. Gone(row) \in TrancheRow
    BY Zenon DEF TrancheRow, Gone
  <1>2. ASSUME row.version < MaxVersion PROVE Edited(row, terms) \in TrancheRow
    <2>1. row.version \in 1..MaxVersion
      BY DEF TrancheRow
    <2>2. row.version + 1 \in 1..MaxVersion
      BY <1>2, <2>1, BoundsAssumption
    <2>3. QED
      BY <2>2, Zenon DEF TrancheRow, Edited
  <1>3. ASSUME NEW p \in PositionId PROVE NewRow(p, terms) \in TrancheRow
    BY BoundsAssumption DEF TrancheRow, NewRow
  <1>4. QED
    BY <1>1, <1>2, <1>3

\* A row is kept by doing nothing, by an edit and by a soft delete.
LEMMA LotsKept ==
    ASSUME NEW row \in LotRow, NEW terms \in LotTerms
    PROVE  Kept(row, row) /\ Kept(row, Edited(row, terms)) /\ Kept(row, Gone(row))
  <1>1. row.version \in Int
    BY DEF LotRow
  <1>2. /\ Edited(row, terms).position = row.position
        /\ Edited(row, terms).version = row.version + 1
        /\ Edited(row, terms).deleted = row.deleted
    BY DEF LotRow, Edited
  <1>3. /\ Gone(row).position = row.position
        /\ Gone(row).version = row.version
        /\ Gone(row).terms = row.terms
        /\ Gone(row).deleted
    BY DEF LotRow, Gone
  <1>4. QED
    BY <1>1, <1>2, <1>3 DEF Kept

LEMMA TranchesKept ==
    ASSUME NEW row \in TrancheRow, NEW terms \in TrancheTerms
    PROVE  Kept(row, row) /\ Kept(row, Edited(row, terms)) /\ Kept(row, Gone(row))
  <1>1. row.version \in Int
    BY DEF TrancheRow
  <1>2. /\ Edited(row, terms).position = row.position
        /\ Edited(row, terms).version = row.version + 1
        /\ Edited(row, terms).deleted = row.deleted
    BY DEF TrancheRow, Edited
  <1>3. /\ Gone(row).position = row.position
        /\ Gone(row).version = row.version
        /\ Gone(row).terms = row.terms
        /\ Gone(row).deleted
    BY DEF TrancheRow, Gone
  <1>4. QED
    BY <1>1, <1>2, <1>3 DEF Kept

\* A year is a natural number, and so is an amount in sen.
LEMMA YearType ==
    ASSUME NEW day \in Nat
    PROVE  Year(day) \in Nat
  BY BoundsAssumption, SMTT(60) DEF Year

LEMMA ProductType ==
    ASSUME NEW x \in Nat, NEW y \in Nat
    PROVE  x * y \in Nat
  OBVIOUS

LEMMA TermsType ==
    ASSUME NEW body \in DividendBody
    PROVE  Terms(body) \in TrancheTerms
  <1>1. RoundMyr(body.per * body.shares) \in Totals
    BY DEF DividendBody, Totals
  <1>2. Year(body.payment) \in {Year(d) : d \in Days}
    BY DEF DividendBody
  <1>3. QED
    BY <1>1, <1>2 DEF Terms, TrancheTerms

\* What an event tells of a row's terms; an edit tells all of them.
LEMMA CarriedTyped ==
    /\ \A terms \in LotTerms :
         /\ Carried("LOT_CREATED", terms) \in Metadata
         /\ Carried("LOT_DELETED", terms) \in Metadata
         /\ Carried("LOT_UPDATED", terms) = terms /\ terms \in Metadata
    /\ \A terms \in TrancheTerms :
         /\ Carried("DIVIDEND_CREATED", terms) \in Metadata
         /\ Carried("DIVIDEND_DELETED", terms) \in Metadata
         /\ Carried("DIVIDEND_UPDATED", terms) = terms /\ terms \in Metadata
  <1>1. \A terms \in LotTerms : [shares |-> terms.shares] \in Metadata
    BY DEF LotTerms, Metadata
  <1>2. ASSUME NEW terms \in TrancheTerms
        PROVE  /\ [label |-> terms.body.label, per |-> terms.body.per,
                   shares |-> terms.body.shares, total |-> terms.total] \in Metadata
               /\ [total |-> terms.total] \in Metadata
    BY DEF TrancheTerms, DividendBody, Metadata
  <1>3. QED
    BY <1>1, <1>2 DEF Carried, Metadata

LEMMA MergedLotType ==
    ASSUME NEW terms \in LotTerms, NEW patch \in LotPatch
    PROVE  MergedLot(terms, patch) \in LotTerms
  BY DEF LotTerms, LotPatch, MergedLot, Supplied

LEMMA MergedDividendType ==
    ASSUME NEW body \in DividendBody, NEW patch \in DividendPatch
    PROVE  MergedDividend(body, patch) \in DividendBody
  BY DEF DividendBody, DividendPatch, MergedDividend, Supplied

LEMMA SameRowKept ==
    \A row \in LotRow \cup TrancheRow : Kept(row, row)
  BY DEF Kept, LotRow, TrancheRow

-----------------------------------------------------------------------------
(* Requests *)

\* The step a request is at says which handler it runs and what it holds.
LEMMA RequestShapes ==
    ASSUME NEW q \in Request
    PROVE  /\ q.at = "create_position" => q \in InCreatePosition
           /\ q.at = "add_lot" => q \in InAddLot
           /\ q.at = "update_lot_read" => q \in InUpdateLotRead
           /\ q.at = "update_lot" => q \in InUpdateLot
           /\ q.at = "delete_lot_read" => q \in InDeleteLotRead
           /\ q.at \in {"delete_lot_count", "delete_lot"} => q \in InDeleteLot
           /\ q.at \in DeletePositionSteps => q \in InDeletePosition
           /\ q.at \in CreateDividendSteps => q \in InCreateDividend
           /\ q.at \in UpdateDividendSteps => q \in InUpdateDividend
           /\ q.at = "delete_dividend" => q \in InDeleteDividend
  BY DEF Request, Idle, InCreatePosition, InAddLot, InUpdateLotRead,
    InUpdateLot, InDeleteLotRead, InDeleteLot, InDeletePosition, InCreateDividend,
    InUpdateDividend, InDeleteDividend, DeletePositionSteps, CreateDividendSteps,
    UpdateDividendSteps

-----------------------------------------------------------------------------
(* The two kinds of step *)

\* A snapshot stays one while its row is kept.
LEMMA SnapshotIsStable ==
    ASSUME NEW old, NEW new, old # None => new # None /\ Kept(old, new),
           NEW q, Snapshot(old, q),
           q.seen.version \in Int, old.version \in Int, new.version \in Int
    PROVE  Snapshot(new, q)
  BY DEF Snapshot, Kept

\* What a request relies on survives every write that keeps the rows.
LEMMA SoundIsStable ==
    ASSUME TypeOK, RowsTyped', RowsKept, NEW q \in Request,
           Sound(q, positions, lots, tranches)
    PROVE  Sound(q, positions', lots', tranches')
  <1>1. ASSUME q.at = "update_lot_read"
        PROVE  lots'[q.lot] # None /\ q.version <= lots'[q.lot].version
    <2>1. q \in InUpdateLotRead
      BY <1>1, RequestShapes
    <2>2. QED
      BY <1>1, <2>1 DEF Sound, RowsKept, Kept, InUpdateLotRead, LotRow, TypeOK, RowsTyped
  <1>2. ASSUME q.at = "update_lot"
        PROVE  Snapshot(lots'[q.lot], q)
    <2>1. q \in InUpdateLot
      BY <1>2, RequestShapes
    <2>2. q.lot \in LotId /\ q.seen \in LotRow
      BY <2>1 DEF InUpdateLot
    <2>3. Snapshot(lots[q.lot], q)
      BY <1>2 DEF Sound
    <2>4. lots'[q.lot] # None /\ Kept(lots[q.lot], lots'[q.lot])
      BY <2>2, <2>3 DEF Snapshot, RowsKept
    <2>5. lots[q.lot] \in LotRow /\ lots'[q.lot] \in LotRow
      BY <2>2, <2>3, <2>4 DEF Snapshot, TypeOK, RowsTyped
    <2>6. QED
      BY <2>2, <2>3, <2>4, <2>5, SnapshotIsStable DEF LotRow
  <1>3. ASSUME q.at \in {"delete_lot_read", "delete_lot_count", "delete_lot"}
        PROVE  lots'[q.lot] # None
    <2>1. q \in InDeleteLotRead \/ q \in InDeleteLot
      BY <1>3, RequestShapes
    <2>2. QED
      BY <1>3, <2>1 DEF Sound, RowsKept, InDeleteLotRead, InDeleteLot
  <1>4. ASSUME q.at \in DeletePositionSteps
        PROVE  /\ positions'[q.position] # None
               /\ \A l \in q.lots : lots'[l] # None
               /\ \A t \in q.tranches : tranches'[t] # None
    <2>1. q \in InDeletePosition
      BY <1>4, RequestShapes
    <2>2. QED
      BY <1>4, <2>1 DEF Sound, RowsKept, InDeletePosition
  <1>5. ASSUME q.at \in UpdateDividendSteps
        PROVE  Snapshot(tranches'[q.tranche], q)
    <2>1. q \in InUpdateDividend
      BY <1>5, RequestShapes
    <2>2. q.tranche \in TrancheId /\ q.seen \in TrancheRow
      BY <2>1 DEF InUpdateDividend
    <2>3. Snapshot(tranches[q.tranche], q)
      BY <1>5 DEF Sound
    <2>4. tranches'[q.tranche] # None /\ Kept(tranches[q.tranche], tranches'[q.tranche])
      BY <2>2, <2>3 DEF Snapshot, RowsKept
    <2>5. tranches[q.tranche] \in TrancheRow /\ tranches'[q.tranche] \in TrancheRow
      BY <2>2, <2>3, <2>4 DEF Snapshot, TypeOK, RowsTyped
    <2>6. QED
      BY <2>2, <2>3, <2>4, <2>5, SnapshotIsStable DEF TrancheRow
  <1>6. ASSUME q.at = "delete_dividend"
        PROVE  tranches'[q.tranche] # None
    <2>1. q \in InDeleteDividend
      BY <1>6, RequestShapes
    <2>2. QED
      BY <1>6, <2>1 DEF Sound, RowsKept, InDeleteDividend
  <1>7. QED
    BY <1>1, <1>2, <1>3, <1>4, <1>5, <1>6 DEF Sound

\* A step that only reads: one request is replaced by a sound one.
LEMMA Advance ==
    ASSUME SoundRequests, NEW r \in Requests, NEW q \in Request,
           Sound(q, positions, lots, tranches),
           req' = [req EXCEPT ![r] = q], UNCHANGED Tables
    PROVE  SoundRequests' /\ RowsKept
  <1>1. TypeOK'
    BY DEF SoundRequests, TypeOK, Tables
  <1>2. ASSUME NEW s \in Requests
        PROVE  Sound(req'[s], positions', lots', tranches')
    <2>1. Sound(req'[s], positions, lots, tranches)
      BY DEF SoundRequests, TypeOK
    <2>2. QED
      BY <2>1 DEF Tables
  <1>3. RowsKept
    BY SameRowKept DEF RowsKept, SoundRequests, TypeOK, Tables
  <1>4. QED
    BY <1>1, <1>2, <1>3 DEF SoundRequests

\* A step that writes ends its request and leaves rows that are kept.
LEMMA Complete ==
    ASSUME SoundRequests, NEW r \in Requests, Finish(r), RowsTyped', RowsKept
    PROVE  SoundRequests'
  <1>1. Idle \in Request /\ req' = [req EXCEPT ![r] = Idle]
    BY DEF Request, Finish, Continue
  <1>2. TypeOK'
    BY <1>1 DEF SoundRequests, TypeOK, RowsTyped
  <1>3. ASSUME NEW s \in Requests
        PROVE  Sound(req'[s], positions', lots', tranches')
    <2>1. CASE s = r
      <3>1. req'[s] = Idle
        BY <1>1, <2>1 DEF SoundRequests, TypeOK
      <3>2. QED
        BY <3>1 DEF Sound, Idle, DeletePositionSteps, UpdateDividendSteps
    <2>2. CASE s # r
      <3>1. req'[s] = req[s] /\ req[s] \in Request
        BY <1>1, <2>2 DEF SoundRequests, TypeOK
      <3>2. Sound(req[s], positions', lots', tranches')
        BY <3>1, SoundIsStable DEF SoundRequests
      <3>3. QED
        BY <3>1, <3>2
    <2>3. QED
      BY <2>1, <2>2
  <1>4. QED
    BY <1>2, <1>3 DEF SoundRequests

-----------------------------------------------------------------------------
(* Steps that write *)

LEMMA NothingTold == None \in Metadata
  BY DEF Metadata

LEMMA RecordTyped ==
    ASSUME TypeOK, NEW e \in PositionId \cup LotId \cup TrancheId,
           NEW action \in Actions, NEW old \in Metadata, NEW new \in Metadata,
           Record(e, action, old, new)
    PROVE  audit' \in [PositionId \cup LotId \cup TrancheId -> Seq(Event)]
  <1>1. [action |-> action, old |-> old, new |-> new] \in Event
    BY DEF Event
  <1>2. audit[e] \in Seq(Event)
    BY DEF TypeOK
  <1>3. Append(audit[e], [action |-> action, old |-> old, new |-> new]) \in Seq(Event)
    BY <1>1, <1>2
  <1>4. QED
    BY <1>3 DEF TypeOK, Record

LEMMA InsertLotKeeps ==
    ASSUME TypeOK, NEW p \in PositionId, NEW terms \in LotTerms, InsertLot(p, terms)
    PROVE  /\ lots' \in [LotId -> LotRow \cup {None}]
           /\ audit' \in [PositionId \cup LotId \cup TrancheId -> Seq(Event)]
           /\ \A l \in LotId : lots[l] # None => lots'[l] = lots[l]
  <1>1. PICK l \in LotId : /\ lots[l] = None
                           /\ lots' = [lots EXCEPT ![l] = NewRow(p, terms)]
                           /\ Record(l, "LOT_CREATED", None, Carried("LOT_CREATED", terms))
    BY DEF InsertLot
  <1>2. NewRow(p, terms) \in LotRow
    <2>1. [position |-> p, terms |-> terms, version |-> 1, deleted |-> FALSE] \in LotRow
      BY BoundsAssumption DEF LotRow
    <2>2. QED
      BY <2>1 DEF NewRow
  <1>3. audit' \in [PositionId \cup LotId \cup TrancheId -> Seq(Event)]
    BY <1>1, RecordTyped, CarriedTyped, NothingTold DEF Actions
  <1>4. QED
    BY <1>1, <1>2, <1>3 DEF TypeOK

LEMMA CreatePositionKeeps ==
    ASSUME SoundRequests, NEW r \in Requests, CreatePositionCommit(r)
    PROVE  RowsTyped' /\ RowsKept
  <1>1. req[r] \in InCreatePosition
    BY RequestShapes DEF SoundRequests, TypeOK, CreatePositionCommit
  <1>2. CASE req[r].position # None /\ InsertLot(req[r].position, req[r].terms)
             /\ UNCHANGED positions
    <2>1. req[r].position \in PositionId /\ req[r].terms \in LotTerms
      BY <1>1, <1>2 DEF InCreatePosition
    <2>2. QED
      BY <1>2, <2>1, InsertLotKeeps, SameRowKept
      DEF CreatePositionCommit, SoundRequests, TypeOK, RowsTyped, RowsKept
  <1>3. ASSUME NEW p \in PositionId, positions[p] = None,
               positions' = [positions EXCEPT ![p] =
                   [portfolio |-> req[r].portfolio, stock |-> req[r].stock,
                    deleted |-> FALSE]],
               InsertLot(p, req[r].terms)
        PROVE  RowsTyped' /\ RowsKept
    <2>1. /\ req[r].terms \in LotTerms
          /\ [portfolio |-> req[r].portfolio, stock |-> req[r].stock,
              deleted |-> FALSE] \in PositionRow
      BY <1>1 DEF InCreatePosition, PositionRow
    <2>2. /\ positions' \in [PositionId -> PositionRow \cup {None}]
          /\ \A o \in PositionId : positions[o] # None => positions'[o] = positions[o]
      BY <1>3, <2>1 DEF SoundRequests, TypeOK
    <2>3. QED
      BY <1>3, <2>1, <2>2, InsertLotKeeps, SameRowKept
      DEF CreatePositionCommit, SoundRequests, TypeOK, RowsTyped, RowsKept
  <1>4. QED
    BY <1>2, <1>3 DEF CreatePositionCommit

LEMMA AddLotKeeps ==
    ASSUME SoundRequests, NEW r \in Requests, AddLotCommit(r)
    PROVE  RowsTyped' /\ RowsKept
  <1>1. req[r].position \in PositionId /\ req[r].terms \in LotTerms
    BY RequestShapes DEF SoundRequests, TypeOK, AddLotCommit, InAddLot
  <1>2. QED
    BY <1>1, InsertLotKeeps, SameRowKept
    DEF AddLotCommit, SoundRequests, TypeOK, RowsTyped, RowsKept

LEMMA UpdateLotKeeps ==
    ASSUME SoundRequests, NEW r \in Requests, UpdateLotCommit(r)
    PROVE  RowsTyped' /\ RowsKept
  <1> DEFINE l == req[r].lot
  <1>1. /\ l \in LotId
        /\ req[r].version \in 1..(MaxVersion - 1)
        /\ req[r].terms \in LotTerms
        /\ req[r].seen.terms \in LotTerms
    BY RequestShapes DEF SoundRequests, TypeOK, UpdateLotCommit, InUpdateLot, LotRow
  <1>2. lots[l] # None /\ lots[l] \in LotRow
    BY <1>1 DEF SoundRequests, TypeOK, Sound, Snapshot, UpdateLotCommit
  <1>3. CASE /\ VersionMatches(lots[l], req[r].version)
             /\ lots' = [lots EXCEPT ![l] = Edited(@, req[r].terms)]
             /\ Record(l, "LOT_UPDATED", Carried("LOT_UPDATED", req[r].seen.terms),
                       Carried("LOT_UPDATED", req[r].terms))
    <2>1. lots[l].version < MaxVersion
      BY <1>1, <1>3, BoundsAssumption DEF VersionMatches
    <2>2. Edited(lots[l], req[r].terms) \in LotRow
      BY <1>1, <1>2, <2>1, LotRows
    <2>3. lots' \in [LotId -> LotRow \cup {None}]
      BY <1>3, <2>2 DEF SoundRequests, TypeOK
    <2>4. audit' \in [PositionId \cup LotId \cup TrancheId -> Seq(Event)]
      <3>1. /\ Carried("LOT_UPDATED", req[r].seen.terms) \in Metadata
            /\ Carried("LOT_UPDATED", req[r].terms) \in Metadata
        BY <1>1, CarriedTyped, Zenon
      <3>2. "LOT_UPDATED" \in Actions /\ l \in PositionId \cup LotId \cup TrancheId
        BY <1>1 DEF Actions
      <3>3. QED
        BY <1>3, <3>1, <3>2, RecordTyped DEF SoundRequests
    <2>5. \A k \in LotId : lots[k] # None => lots'[k] # None /\ Kept(lots[k], lots'[k])
      <3>1. SUFFICES ASSUME NEW k \in LotId, lots[k] # None
                     PROVE  lots'[k] # None /\ Kept(lots[k], lots'[k])
        OBVIOUS
      <3>2. CASE k = l
        BY <1>1, <1>2, <1>3, <2>2, <3>2, LotsKept, NoneAssumption
        DEF SoundRequests, TypeOK
      <3>3. CASE k # l
        BY <1>3, <3>1, <3>3, SameRowKept DEF SoundRequests, TypeOK
      <3>4. QED
        BY <3>2, <3>3
    <2>6. QED
      BY <2>3, <2>4, <2>5, SameRowKept
      DEF UpdateLotCommit, SoundRequests, TypeOK, RowsTyped, RowsKept
  <1>4. CASE UNCHANGED <<lots, audit>>
    BY <1>4, SameRowKept
    DEF UpdateLotCommit, SoundRequests, TypeOK, RowsTyped, RowsKept
  <1>5. QED
    BY <1>3, <1>4 DEF UpdateLotCommit

LEMMA DeleteLotKeeps ==
    ASSUME SoundRequests, NEW r \in Requests, DeleteLotCommit(r)
    PROVE  RowsTyped' /\ RowsKept
  <1> DEFINE l == req[r].lot
  <1>1. l \in LotId /\ req[r].seen.terms \in LotTerms
    BY RequestShapes DEF SoundRequests, TypeOK, DeleteLotCommit, InDeleteLot, LotRow
  <1>2. lots[l] # None /\ lots[l] \in LotRow
    BY <1>1 DEF SoundRequests, TypeOK, Sound, DeleteLotCommit
  <1>3. Gone(lots[l]) \in LotRow /\ Kept(lots[l], Gone(lots[l]))
    BY <1>1, <1>2, LotRows, LotsKept
  <1>4. lots' \in [LotId -> LotRow \cup {None}]
    BY <1>3 DEF DeleteLotCommit, SoundRequests, TypeOK
  <1>5. audit' \in [PositionId \cup LotId \cup TrancheId -> Seq(Event)]
    BY <1>1, RecordTyped, CarriedTyped, NothingTold DEF DeleteLotCommit, SoundRequests, Actions
  <1>6. ASSUME NEW k \in LotId, lots[k] # None
        PROVE  lots'[k] # None /\ Kept(lots[k], lots'[k])
    <2>1. CASE k = l
      BY <1>1, <1>3, <2>1, NoneAssumption DEF DeleteLotCommit, SoundRequests, TypeOK
    <2>2. CASE k # l
      BY <1>6, <2>2, SameRowKept DEF DeleteLotCommit, SoundRequests, TypeOK
    <2>3. QED
      BY <2>1, <2>2
  <1>7. QED
    BY <1>4, <1>5, <1>6, SameRowKept
    DEF DeleteLotCommit, SoundRequests, TypeOK, RowsTyped, RowsKept

\* The cascade soft-deletes rows that exist and leaves the others alone.
LEMMA SoftDeletedLots ==
    ASSUME lots \in [LotId -> LotRow \cup {None}],
           NEW S \in SUBSET LotId, \A l \in S : lots[l] # None,
           lots' = SoftDelete(lots, S)
    PROVE  /\ lots' \in [LotId -> LotRow \cup {None}]
           /\ \A l \in LotId : lots[l] # None => lots'[l] # None /\ Kept(lots[l], lots'[l])
  <1>1. \A l \in LotId : lots'[l] = IF l \in S THEN Gone(lots[l]) ELSE lots[l]
    BY DEF SoftDelete
  <1>2. \A row \in LotRow : Gone(row) \in LotRow
    BY Zenon DEF LotRow, Gone
  <1>3. \A row \in LotRow : Kept(row, Gone(row))
    <2>1. SUFFICES ASSUME NEW row \in LotRow PROVE Kept(row, Gone(row))
      OBVIOUS
    <2>2. row.terms \in LotTerms
      BY DEF LotRow
    <2>3. QED
      BY <2>2, LotsKept
  <1>4. DOMAIN lots = LotId /\ lots' = [l \in LotId |-> lots'[l]]
    BY <1>1 DEF SoftDelete
  <1>5. QED
    BY <1>1, <1>2, <1>3, <1>4, SameRowKept, NoneAssumption

LEMMA SoftDeletedTranches ==
    ASSUME tranches \in [TrancheId -> TrancheRow \cup {None}],
           NEW S \in SUBSET TrancheId, \A t \in S : tranches[t] # None,
           tranches' = SoftDelete(tranches, S)
    PROVE  /\ tranches' \in [TrancheId -> TrancheRow \cup {None}]
           /\ \A t \in TrancheId : tranches[t] # None =>
                 tranches'[t] # None /\ Kept(tranches[t], tranches'[t])
  <1>1. \A t \in TrancheId :
          tranches'[t] = IF t \in S THEN Gone(tranches[t]) ELSE tranches[t]
    BY DEF SoftDelete
  <1>2. \A row \in TrancheRow : Gone(row) \in TrancheRow
    BY Zenon DEF TrancheRow, Gone
  <1>3. \A row \in TrancheRow : Kept(row, Gone(row))
    <2>1. SUFFICES ASSUME NEW row \in TrancheRow PROVE Kept(row, Gone(row))
      OBVIOUS
    <2>2. row.terms \in TrancheTerms
      BY DEF TrancheRow
    <2>3. QED
      BY <2>2, TranchesKept
  <1>4. DOMAIN tranches = TrancheId /\ tranches' = [t \in TrancheId |-> tranches'[t]]
    BY <1>1 DEF SoftDelete
  <1>5. QED
    BY <1>1, <1>2, <1>3, <1>4, SameRowKept, NoneAssumption

LEMMA DeletePositionKeeps ==
    ASSUME SoundRequests, NEW r \in Requests, DeletePositionCommit(r)
    PROVE  RowsTyped' /\ RowsKept
  <1> DEFINE p == req[r].position
  <1>1. /\ p \in PositionId
        /\ req[r].lots \in SUBSET LotId
        /\ req[r].tranches \in SUBSET TrancheId
    BY RequestShapes
    DEF SoundRequests, TypeOK, DeletePositionCommit, InDeletePosition, DeletePositionSteps
  <1>2. /\ positions[p] # None
        /\ \A l \in req[r].lots : lots[l] # None
        /\ \A t \in req[r].tranches : tranches[t] # None
    BY DEF SoundRequests, Sound, DeletePositionCommit, DeletePositionSteps
  <1>3. Gone(positions[p]) \in PositionRow
    <2>1. positions[p] \in PositionRow
      BY <1>1, <1>2 DEF SoundRequests, TypeOK
    <2>2. QED
      BY <2>1, Zenon DEF PositionRow, Gone
  <1>4. /\ positions' \in [PositionId -> PositionRow \cup {None}]
        /\ \A o \in PositionId : positions[o] # None =>
              positions'[o] # None /\ positions'[o] \in {positions[o], Gone(positions[o])}
    BY <1>1, <1>3, NoneAssumption DEF DeletePositionCommit, SoundRequests, TypeOK
  <1>5. audit' \in [PositionId \cup LotId \cup TrancheId -> Seq(Event)]
    BY <1>1, RecordTyped, NothingTold DEF DeletePositionCommit, SoundRequests, Actions
  <1>6. /\ lots' \in [LotId -> LotRow \cup {None}]
        /\ \A l \in LotId : lots[l] # None => lots'[l] # None /\ Kept(lots[l], lots'[l])
    BY <1>1, <1>2, SoftDeletedLots DEF DeletePositionCommit, SoundRequests, TypeOK
  <1>7. /\ tranches' \in [TrancheId -> TrancheRow \cup {None}]
        /\ \A t \in TrancheId : tranches[t] # None =>
              tranches'[t] # None /\ Kept(tranches[t], tranches'[t])
    BY <1>1, <1>2, SoftDeletedTranches DEF DeletePositionCommit, SoundRequests, TypeOK
  <1>8. QED
    BY <1>4, <1>5, <1>6, <1>7 DEF RowsTyped, RowsKept

LEMMA CreateDividendKeeps ==
    ASSUME SoundRequests, NEW r \in Requests, CreateDividendCommit(r)
    PROVE  RowsTyped' /\ RowsKept
  <1> DEFINE terms == Terms(req[r].body)
  <1>1. req[r].position \in PositionId /\ req[r].body \in DividendBody
    BY RequestShapes
    DEF SoundRequests, TypeOK, CreateDividendCommit, InCreateDividend, CreateDividendSteps
  <1>2. terms \in TrancheTerms
    BY <1>1, TermsType
  <1>3. ASSUME NEW t \in TrancheId, tranches[t] = None,
               tranches' = [tranches EXCEPT ![t] = NewRow(req[r].position, terms)],
               Record(t, "DIVIDEND_CREATED", None, Carried("DIVIDEND_CREATED", terms))
        PROVE  RowsTyped' /\ RowsKept
    <2>1. NewRow(req[r].position, terms) \in TrancheRow
      <3> HIDE DEF terms
      <3>1. QED
        BY <1>1, <1>2, BoundsAssumption DEF TrancheRow, NewRow
    <2>2. audit' \in [PositionId \cup LotId \cup TrancheId -> Seq(Event)]
      <3> HIDE DEF terms
      <3>1. QED
        BY <1>2, <1>3, RecordTyped, CarriedTyped, NothingTold DEF SoundRequests, Actions
    <2>3. /\ tranches' \in [TrancheId -> TrancheRow \cup {None}]
          /\ \A u \in TrancheId : tranches[u] # None => tranches'[u] = tranches[u]
      <3> HIDE DEF terms
      <3>1. QED
        BY <1>3, <2>1 DEF SoundRequests, TypeOK
    <2>4. QED
      BY <2>2, <2>3, SameRowKept
      DEF CreateDividendCommit, SoundRequests, TypeOK, RowsTyped, RowsKept
  <1>4. CASE UNCHANGED <<tranches, audit>>
    BY <1>4, SameRowKept
    DEF CreateDividendCommit, SoundRequests, TypeOK, RowsTyped, RowsKept
  <1>5. QED
    BY <1>3, <1>4 DEF CreateDividendCommit

LEMMA UpdateDividendKeeps ==
    ASSUME SoundRequests, NEW r \in Requests, UpdateDividendCommit(r)
    PROVE  RowsTyped' /\ RowsKept
  <1> DEFINE t == req[r].tranche
             terms == Terms(req[r].body)
  <1>1. /\ t \in TrancheId
        /\ req[r].version \in 1..(MaxVersion - 1)
        /\ req[r].body \in DividendBody
        /\ req[r].seen.terms \in TrancheTerms
    BY RequestShapes
    DEF SoundRequests, TypeOK, UpdateDividendCommit, InUpdateDividend,
        UpdateDividendSteps, TrancheRow
  <1>2. terms \in TrancheTerms
    BY <1>1, TermsType
  <1>3. tranches[t] # None /\ tranches[t] \in TrancheRow
    BY <1>1
    DEF SoundRequests, TypeOK, Sound, Snapshot, UpdateDividendCommit, UpdateDividendSteps
  <1>4. ASSUME VersionMatches(tranches[t], req[r].version),
               tranches' = [tranches EXCEPT ![t] = Edited(@, terms)],
               Record(t, "DIVIDEND_UPDATED", Carried("DIVIDEND_UPDATED", req[r].seen.terms),
                      Carried("DIVIDEND_UPDATED", terms))
        PROVE  RowsTyped' /\ RowsKept
    <2> HIDE DEF terms
    <2>1. tranches[t].version < MaxVersion
      BY <1>1, <1>4, BoundsAssumption DEF VersionMatches
    <2>2. Edited(tranches[t], terms) \in TrancheRow
      BY <1>2, <1>3, <2>1, TrancheRows
    <2>3. tranches' \in [TrancheId -> TrancheRow \cup {None}]
      BY <1>4, <2>2 DEF SoundRequests, TypeOK
    <2>4. audit' \in [PositionId \cup LotId \cup TrancheId -> Seq(Event)]
      BY <1>1, <1>2, <1>4, RecordTyped, CarriedTyped DEF SoundRequests, Actions
    <2>5. ASSUME NEW u \in TrancheId, tranches[u] # None
          PROVE  tranches'[u] # None /\ Kept(tranches[u], tranches'[u])
      <3>1. CASE u = t
        BY <1>1, <1>2, <1>3, <1>4, <2>2, <3>1, TranchesKept, NoneAssumption
        DEF SoundRequests, TypeOK
      <3>2. CASE u # t
        BY <1>4, <2>5, <3>2, SameRowKept DEF SoundRequests, TypeOK
      <3>3. QED
        BY <3>1, <3>2
    <2>6. QED
      BY <2>3, <2>4, <2>5, SameRowKept
      DEF UpdateDividendCommit, SoundRequests, TypeOK, RowsTyped, RowsKept
  <1>5. CASE UNCHANGED <<tranches, audit>>
    BY <1>5, SameRowKept
    DEF UpdateDividendCommit, SoundRequests, TypeOK, RowsTyped, RowsKept
  <1>6. QED
    BY <1>4, <1>5 DEF UpdateDividendCommit

LEMMA DeleteDividendKeeps ==
    ASSUME SoundRequests, NEW r \in Requests, DeleteDividendCommit(r)
    PROVE  RowsTyped' /\ RowsKept
  <1> DEFINE t == req[r].tranche
  <1>1. t \in TrancheId /\ req[r].seen.terms \in TrancheTerms
    BY RequestShapes
    DEF SoundRequests, TypeOK, DeleteDividendCommit, InDeleteDividend, TrancheRow
  <1>2. tranches[t] # None /\ tranches[t] \in TrancheRow
    BY <1>1 DEF SoundRequests, TypeOK, Sound, DeleteDividendCommit
  <1>3. Gone(tranches[t]) \in TrancheRow /\ Kept(tranches[t], Gone(tranches[t]))
    BY <1>1, <1>2, TrancheRows, TranchesKept
  <1>4. tranches' \in [TrancheId -> TrancheRow \cup {None}]
    BY <1>3 DEF DeleteDividendCommit, SoundRequests, TypeOK
  <1>5. audit' \in [PositionId \cup LotId \cup TrancheId -> Seq(Event)]
    BY <1>1, RecordTyped, CarriedTyped, NothingTold DEF DeleteDividendCommit, SoundRequests, Actions
  <1>6. ASSUME NEW u \in TrancheId, tranches[u] # None
        PROVE  tranches'[u] # None /\ Kept(tranches[u], tranches'[u])
    <2>1. CASE u = t
      BY <1>1, <1>3, <2>1, NoneAssumption DEF DeleteDividendCommit, SoundRequests, TypeOK
    <2>2. CASE u # t
      BY <1>6, <2>2, SameRowKept DEF DeleteDividendCommit, SoundRequests, TypeOK
    <2>3. QED
      BY <2>1, <2>2
  <1>7. QED
    BY <1>4, <1>5, <1>6, SameRowKept
    DEF DeleteDividendCommit, SoundRequests, TypeOK, RowsTyped, RowsKept

-----------------------------------------------------------------------------
(* Steps that read *)

LEMMA FinishReading ==
    ASSUME SoundRequests, NEW r \in Requests, Finish(r), UNCHANGED Tables
    PROVE  SoundRequests' /\ RowsKept
  <1>1. Idle \in Request /\ Sound(Idle, positions, lots, tranches)
    BY DEF Request, Idle, Sound, DeletePositionSteps, UpdateDividendSteps
  <1>2. QED
    BY <1>1, Advance DEF Finish, Continue

LEMMA GotoReading ==
    ASSUME SoundRequests, NEW r \in Requests, NEW at, Goto(r, at), UNCHANGED Tables,
           \/ req[r].at = "delete_lot_count" /\ at = "delete_lot"
           \/ req[r].at \in CreateDividendSteps /\ at \in CreateDividendSteps
           \/ req[r].at \in UpdateDividendSteps /\ at \in UpdateDividendSteps
    PROVE  SoundRequests' /\ RowsKept
  <1> DEFINE q == [req[r] EXCEPT !.at = at]
  <1>1. req[r] \in Request /\ Sound(req[r], positions, lots, tranches)
    BY DEF SoundRequests, TypeOK
  <1>2. CASE req[r].at = "delete_lot_count" /\ at = "delete_lot"
    <2>1. req[r] \in InDeleteLot
      BY <1>1, <1>2, RequestShapes
    <2>2. q \in InDeleteLot /\ q.at = "delete_lot" /\ q.lot = req[r].lot
      BY <1>2, <2>1 DEF InDeleteLot
    <2>3. Sound(q, positions, lots, tranches)
      BY <1>1, <1>2, <2>2 DEF Sound, DeletePositionSteps, UpdateDividendSteps
    <2>4. QED
      BY <2>2, <2>3, Advance DEF Goto, Continue, Request
  <1>3. CASE req[r].at \in CreateDividendSteps /\ at \in CreateDividendSteps
    <2>1. req[r] \in InCreateDividend
      BY <1>1, <1>3, RequestShapes
    <2>2. q \in InCreateDividend /\ q.at = at
      BY <1>3, <2>1 DEF InCreateDividend
    <2>3. Sound(q, positions, lots, tranches)
      BY <1>3, <2>2 DEF Sound, DeletePositionSteps, UpdateDividendSteps, CreateDividendSteps
    <2>4. QED
      BY <2>2, <2>3, Advance DEF Goto, Continue, Request
  <1>4. CASE req[r].at \in UpdateDividendSteps /\ at \in UpdateDividendSteps
    <2>1. req[r] \in InUpdateDividend
      BY <1>1, <1>4, RequestShapes
    <2>2. /\ q \in InUpdateDividend /\ q.at = at
          /\ q.tranche = req[r].tranche /\ q.version = req[r].version
          /\ q.seen = req[r].seen
      BY <1>4, <2>1 DEF InUpdateDividend
    <2>3. Snapshot(tranches[q.tranche], q)
      BY <1>1, <1>4, <2>2 DEF Sound, Snapshot
    <2>4. Sound(q, positions, lots, tranches)
      BY <1>4, <2>2, <2>3 DEF Sound, DeletePositionSteps, UpdateDividendSteps
    <2>5. QED
      BY <2>2, <2>4, Advance DEF Goto, Continue, Request
  <1>5. QED
    BY <1>2, <1>3, <1>4

\* A first read: the request it starts is well-typed and sound.
LEMMA ArriveSound ==
    ASSUME SoundRequests, NEW r \in Requests, Arrive(r)
    PROVE  SoundRequests' /\ RowsKept
  <1>1. ASSUME CreatePositionFind(r) PROVE SoundRequests' /\ RowsKept
    <2>1. PICK pf \in Portfolios, s \in Stocks, terms \in LotTerms :
            \E p \in IF ActiveByStock(pf, s) = {} THEN {None} ELSE ActiveByStock(pf, s) :
              Continue(r, [at |-> "create_position", portfolio |-> pf, stock |-> s,
                           position |-> p, terms |-> terms])
      BY <1>1 DEF CreatePositionFind
    <2>2. PICK p \in PositionId \cup {None} :
            Continue(r, [at |-> "create_position", portfolio |-> pf, stock |-> s,
                         position |-> p, terms |-> terms])
      BY <2>1 DEF ActiveByStock
    <2> DEFINE q == [at |-> "create_position", portfolio |-> pf, stock |-> s,
                     position |-> p, terms |-> terms]
    <2>3. q \in Request /\ Sound(q, positions, lots, tranches)
      BY DEF Request, InCreatePosition, Sound, DeletePositionSteps, UpdateDividendSteps
    <2>4. QED
      BY <1>1, <2>2, <2>3, Advance DEF CreatePositionFind, Continue, Tables
  <1>2. ASSUME AddLotRead(r) PROVE SoundRequests' /\ RowsKept
    <2>1. PICK p \in PositionId, terms \in LotTerms :
            Continue(r, [at |-> "add_lot", position |-> p, terms |-> terms])
      BY <1>2 DEF AddLotRead
    <2> DEFINE q == [at |-> "add_lot", position |-> p, terms |-> terms]
    <2>2. q \in Request /\ Sound(q, positions, lots, tranches)
      BY DEF Request, InAddLot, Sound, DeletePositionSteps, UpdateDividendSteps
    <2>3. QED
      BY <1>2, <2>1, <2>2, Advance DEF AddLotRead, Continue, Tables
  <1>3. ASSUME UpdateLotBegin(r) PROVE SoundRequests' /\ RowsKept
    <2>1. PICK p \in PositionId, l \in LotId, patch \in LotPatch :
            /\ lots[l] # None /\ lots[l].version < MaxVersion
            /\ \E v \in 1..lots[l].version :
                 Continue(r, [at |-> "update_lot_read", position |-> p, lot |-> l,
                              version |-> v, patch |-> patch])
      BY <1>3 DEF UpdateLotBegin
    <2>2. PICK v \in 1..lots[l].version :
            Continue(r, [at |-> "update_lot_read", position |-> p, lot |-> l,
                         version |-> v, patch |-> patch])
      BY <2>1
    <2> DEFINE q == [at |-> "update_lot_read", position |-> p, lot |-> l,
                     version |-> v, patch |-> patch]
    <2>3. lots[l].version \in 1..MaxVersion
      BY <2>1 DEF SoundRequests, TypeOK, LotRow
    <2>4. v \in 1..(MaxVersion - 1) /\ v <= lots[l].version
      BY <2>1, <2>3, BoundsAssumption
    <2>5. q \in Request
      BY <2>4 DEF Request, InUpdateLotRead
    <2>6. Sound(q, positions, lots, tranches)
      BY <2>1, <2>4 DEF Sound, DeletePositionSteps, UpdateDividendSteps
    <2>7. QED
      BY <1>3, <2>2, <2>5, <2>6, Advance DEF UpdateLotBegin, Continue, Tables
  <1>4. ASSUME DeleteLotBegin(r) PROVE SoundRequests' /\ RowsKept
    <2>1. PICK p \in PositionId, l \in LotId :
            /\ lots[l] # None
            /\ Continue(r, [at |-> "delete_lot_read", position |-> p, lot |-> l])
      BY <1>4 DEF DeleteLotBegin
    <2> DEFINE q == [at |-> "delete_lot_read", position |-> p, lot |-> l]
    <2>2. q \in Request /\ Sound(q, positions, lots, tranches)
      BY <2>1 DEF Request, InDeleteLotRead, Sound, DeletePositionSteps, UpdateDividendSteps
    <2>3. QED
      BY <1>4, <2>1, <2>2, Advance DEF DeleteLotBegin, Continue, Tables
  <1>5. ASSUME DeletePositionRead(r) PROVE SoundRequests' /\ RowsKept
    <2>1. PICK p \in PositionId :
            /\ positions[p] # None
            /\ Continue(r, [at |-> "delete_position", position |-> p,
                            lots |-> {}, tranches |-> {}])
      BY <1>5 DEF DeletePositionRead, OwnedActive, ActivePosition
    <2> DEFINE q == [at |-> "delete_position", position |-> p,
                     lots |-> {}, tranches |-> {}]
    <2>2. q \in Request /\ Sound(q, positions, lots, tranches)
      BY <2>1 DEF Request, InDeletePosition, Sound, DeletePositionSteps, UpdateDividendSteps
    <2>3. QED
      BY <1>5, <2>1, <2>2, Advance DEF DeletePositionRead, Continue, Tables
  <1>6. ASSUME CreateDividendRead(r) PROVE SoundRequests' /\ RowsKept
    <2>1. PICK p \in PositionId, body \in DividendBody :
            Continue(r, [at |-> "create_dividend_lots", position |-> p, body |-> body])
      BY <1>6 DEF CreateDividendRead
    <2> DEFINE q == [at |-> "create_dividend_lots", position |-> p, body |-> body]
    <2>2. q \in Request /\ Sound(q, positions, lots, tranches)
      BY DEF Request, InCreateDividend, CreateDividendSteps, Sound,
             DeletePositionSteps, UpdateDividendSteps
    <2>3. QED
      BY <1>6, <2>1, <2>2, Advance DEF CreateDividendRead, Continue, Tables
  <1>7. ASSUME UpdateDividendRead(r) PROVE SoundRequests' /\ RowsKept
    <2>1. PICK pf \in Portfolios, t \in TrancheId, patch \in DividendPatch :
            /\ tranches[t] # None /\ tranches[t].version < MaxVersion
            /\ \E v \in 1..tranches[t].version :
                 Continue(r, [at |-> "update_dividend_position", portfolio |-> pf,
                              tranche |-> t, version |-> v,
                              body |-> MergedDividend(tranches[t].terms.body, patch),
                              seen |-> tranches[t]])
      BY <1>7 DEF UpdateDividendRead, OwnedTranche
    <2> DEFINE body == MergedDividend(tranches[t].terms.body, patch)
    <2>2. PICK v \in 1..tranches[t].version :
            Continue(r, [at |-> "update_dividend_position", portfolio |-> pf,
                         tranche |-> t, version |-> v, body |-> body,
                         seen |-> tranches[t]])
      BY <2>1
    <2> DEFINE q == [at |-> "update_dividend_position", portfolio |-> pf,
                     tranche |-> t, version |-> v, body |-> body,
                     seen |-> tranches[t]]
    <2>3. /\ tranches[t] \in TrancheRow
          /\ tranches[t].version \in 1..MaxVersion
          /\ tranches[t].terms.body \in DividendBody
      BY <2>1 DEF SoundRequests, TypeOK, TrancheRow, TrancheTerms
    <2>4. body \in DividendBody
      BY <2>3, MergedDividendType
    <2>5. v \in 1..(MaxVersion - 1) /\ v <= tranches[t].version
      BY <2>1, <2>3, BoundsAssumption
    <2> HIDE DEF body
    <2>6. q \in Request
      BY <2>3, <2>4, <2>5 DEF Request, InUpdateDividend, UpdateDividendSteps
    <2>7. Sound(q, positions, lots, tranches)
      BY <2>1, <2>3, <2>5 DEF Sound, Snapshot, DeletePositionSteps, UpdateDividendSteps
    <2>8. QED
      BY <1>7, <2>2, <2>6, <2>7, Advance DEF UpdateDividendRead, Continue, Tables
  <1>8. ASSUME DeleteDividendRead(r) PROVE SoundRequests' /\ RowsKept
    <2>1. PICK t \in TrancheId :
            /\ tranches[t] # None
            /\ Continue(r, [at |-> "delete_dividend", tranche |-> t, seen |-> tranches[t]])
      BY <1>8 DEF DeleteDividendRead, OwnedTranche
    <2> DEFINE q == [at |-> "delete_dividend", tranche |-> t, seen |-> tranches[t]]
    <2>2. tranches[t] \in TrancheRow
      BY <2>1 DEF SoundRequests, TypeOK
    <2>3. q \in Request /\ Sound(q, positions, lots, tranches)
      BY <2>1, <2>2
      DEF Request, InDeleteDividend, Sound, DeletePositionSteps, UpdateDividendSteps
    <2>4. QED
      BY <1>8, <2>1, <2>3, Advance DEF DeleteDividendRead, Continue, Tables
  <1>9. QED
    BY <1>1, <1>2, <1>3, <1>4, <1>5, <1>6, <1>7, <1>8 DEF Arrive

\* The second read of update_lot and of delete_lot.
LEMMA LotReadSound ==
    ASSUME SoundRequests, NEW r \in Requests, UpdateLotRead(r) \/ DeleteLotRead(r)
    PROVE  SoundRequests' /\ RowsKept
  <1> DEFINE l == req[r].lot
  <1>1. CASE Finish(r) /\ UNCHANGED Tables
    BY <1>1, FinishReading
  <1>2. ASSUME UpdateLotRead(r), OwnedLot(req[r].position, l),
               Continue(r, [at |-> "update_lot", lot |-> l, version |-> req[r].version,
                            terms |-> MergedLot(lots[l].terms, req[r].patch),
                            seen |-> lots[l]])
        PROVE  SoundRequests' /\ RowsKept
    <2> DEFINE terms == MergedLot(lots[l].terms, req[r].patch)
               q == [at |-> "update_lot", lot |-> l, version |-> req[r].version,
                     terms |-> terms, seen |-> lots[l]]
    <2>1. /\ l \in LotId
          /\ req[r].version \in 1..(MaxVersion - 1)
          /\ req[r].patch \in LotPatch
      BY <1>2, RequestShapes DEF SoundRequests, TypeOK, UpdateLotRead, InUpdateLotRead
    <2>2. lots[l] # None /\ req[r].version <= lots[l].version
      BY <1>2 DEF SoundRequests, Sound, UpdateLotRead
    <2>3. /\ lots[l] \in LotRow
          /\ lots[l].terms \in LotTerms
          /\ lots[l].version \in Int
      BY <2>1, <2>2 DEF SoundRequests, TypeOK, LotRow
    <2>4. terms \in LotTerms
      BY <2>1, <2>3, MergedLotType
    <2> HIDE DEF terms
    <2>5. q \in Request
      BY <2>1, <2>3, <2>4 DEF Request, InUpdateLot
    <2>6. Sound(q, positions, lots, tranches)
      BY <2>2, <2>3 DEF Sound, Snapshot, DeletePositionSteps, UpdateDividendSteps
    <2>7. QED
      BY <1>2, <2>5, <2>6, Advance DEF UpdateLotRead, Continue, Tables, terms
  <1>3. ASSUME DeleteLotRead(r), OwnedLot(req[r].position, l),
               Continue(r, [at |-> "delete_lot_count", lot |-> l, seen |-> lots[l]])
        PROVE  SoundRequests' /\ RowsKept
    <2> DEFINE q == [at |-> "delete_lot_count", lot |-> l, seen |-> lots[l]]
    <2>1. l \in LotId /\ lots[l] # None
      BY <1>3 DEF OwnedLot, ActiveLots
    <2>2. lots[l] \in LotRow
      BY <2>1 DEF SoundRequests, TypeOK
    <2>3. q \in Request /\ Sound(q, positions, lots, tranches)
      BY <2>1, <2>2 DEF Request, InDeleteLot, Sound, DeletePositionSteps, UpdateDividendSteps
    <2>4. QED
      BY <1>3, <2>3, Advance DEF DeleteLotRead, Continue, Tables
  <1>4. QED
    BY <1>1, <1>2, <1>3 DEF UpdateLotRead, DeleteLotRead, Tables

\* The UPDATE statements of delete_position on lots and tranches.
LEMMA CascadeSound ==
    ASSUME SoundRequests, NEW r \in Requests,
           DeletePositionLots(r) \/ DeletePositionTranches(r)
    PROVE  SoundRequests' /\ RowsKept
  <1> DEFINE q1 == [req[r] EXCEPT !.at = "delete_position_tranches",
                                  !.lots = ActiveLots(req[r].position)]
             q2 == [req[r] EXCEPT !.at = "delete_position_commit",
                                  !.tranches = ActiveTranches(req[r].position)]
  <1>1. /\ req[r] \in InDeletePosition
        /\ Sound(req[r], positions, lots, tranches)
        /\ req[r].at \in DeletePositionSteps
    BY RequestShapes
    DEF SoundRequests, TypeOK, DeletePositionLots, DeletePositionTranches,
        DeletePositionSteps
  <1>2. /\ ActiveLots(req[r].position) \in SUBSET LotId
        /\ \A l \in ActiveLots(req[r].position) : lots[l] # None
        /\ ActiveTranches(req[r].position) \in SUBSET TrancheId
        /\ \A t \in ActiveTranches(req[r].position) : tranches[t] # None
    BY DEF ActiveLots, ActiveTranches
  <1>3. CASE DeletePositionLots(r)
    <2>1. /\ q1 \in InDeletePosition
          /\ q1.at = "delete_position_tranches"
          /\ q1.position = req[r].position
          /\ q1.lots = ActiveLots(req[r].position)
          /\ q1.tranches = req[r].tranches
      BY <1>1, <1>2 DEF InDeletePosition, DeletePositionSteps
    <2>2. Sound(q1, positions, lots, tranches)
      BY <1>1, <1>2, <2>1 DEF Sound, DeletePositionSteps, UpdateDividendSteps
    <2>3. QED
      BY <1>3, <2>1, <2>2, Advance DEF DeletePositionLots, Continue, Tables, Request
  <1>4. CASE DeletePositionTranches(r)
    <2>1. /\ q2 \in InDeletePosition
          /\ q2.at = "delete_position_commit"
          /\ q2.position = req[r].position
          /\ q2.lots = req[r].lots
          /\ q2.tranches = ActiveTranches(req[r].position)
      BY <1>1, <1>2 DEF InDeletePosition, DeletePositionSteps
    <2>2. Sound(q2, positions, lots, tranches)
      BY <1>1, <1>2, <2>1 DEF Sound, DeletePositionSteps, UpdateDividendSteps
    <2>3. QED
      BY <1>4, <2>1, <2>2, Advance DEF DeletePositionTranches, Continue, Tables, Request
  <1>5. QED
    BY <1>3, <1>4

\* A check before a write: the request goes on or is refused.
LEMMA CheckSound ==
    ASSUME SoundRequests, NEW r \in Requests,
           \/ DeleteLotCount(r)
           \/ CreateDividendCheckShares(r) \/ CreateDividendCheckYear(r)
           \/ UpdateDividendCheckPosition(r) \/ UpdateDividendCheckShares(r)
           \/ UpdateDividendCheckYear(r)
    PROVE  SoundRequests' /\ RowsKept
  <1> USE DEF Tables
  <1>1. CASE DeleteLotCount(r)
    BY <1>1, GotoReading, FinishReading DEF DeleteLotCount
  <1>2. CASE CreateDividendCheckShares(r)
    BY <1>2, GotoReading, FinishReading DEF CreateDividendCheckShares, CreateDividendSteps
  <1>3. CASE CreateDividendCheckYear(r)
    BY <1>3, GotoReading, FinishReading DEF CreateDividendCheckYear, CreateDividendSteps
  <1>4. CASE UpdateDividendCheckPosition(r)
    BY <1>4, GotoReading, FinishReading DEF UpdateDividendCheckPosition, UpdateDividendSteps
  <1>5. CASE UpdateDividendCheckShares(r)
    BY <1>5, GotoReading, FinishReading DEF UpdateDividendCheckShares, UpdateDividendSteps
  <1>6. CASE UpdateDividendCheckYear(r)
    BY <1>6, GotoReading, FinishReading DEF UpdateDividendCheckYear, UpdateDividendSteps
  <1>7. QED
    BY <1>1, <1>2, <1>3, <1>4, <1>5, <1>6

-----------------------------------------------------------------------------
(* The theorems *)

\* Every step keeps the invariant and the rows.
LEMMA StepSound ==
    ASSUME SoundRequests, [Next]_vars
    PROVE  SoundRequests' /\ (RowsKept \/ UNCHANGED vars)
  <1>1. CASE UNCHANGED vars
    BY <1>1 DEF SoundRequests, TypeOK, vars
  <1>2. ASSUME NEW r \in Requests, Arrive(r)
        PROVE  SoundRequests' /\ RowsKept
    BY <1>2, ArriveSound
  <1>3. ASSUME NEW r \in Requests, Proceed(r)
        PROVE  SoundRequests' /\ RowsKept
    <2>1. CASE CreatePositionCommit(r)
      BY <2>1, CreatePositionKeeps, Complete DEF CreatePositionCommit
    <2>2. CASE AddLotCommit(r)
      BY <2>2, AddLotKeeps, Complete DEF AddLotCommit
    <2>3. CASE UpdateLotCommit(r)
      BY <2>3, UpdateLotKeeps, Complete DEF UpdateLotCommit
    <2>4. CASE DeleteLotCommit(r)
      BY <2>4, DeleteLotKeeps, Complete DEF DeleteLotCommit
    <2>5. CASE DeletePositionCommit(r)
      BY <2>5, DeletePositionKeeps, Complete DEF DeletePositionCommit
    <2>6. CASE CreateDividendCommit(r)
      BY <2>6, CreateDividendKeeps, Complete DEF CreateDividendCommit
    <2>7. CASE UpdateDividendCommit(r)
      BY <2>7, UpdateDividendKeeps, Complete DEF UpdateDividendCommit
    <2>8. CASE DeleteDividendCommit(r)
      BY <2>8, DeleteDividendKeeps, Complete DEF DeleteDividendCommit
    <2>9. QED
      BY <1>3, <2>1, <2>2, <2>3, <2>4, <2>5, <2>6, <2>7, <2>8,
         LotReadSound, CascadeSound, CheckSound
      DEF Proceed
  <1>4. QED
    BY <1>1, <1>2, <1>3 DEF Next

LEMMA InitSound == Init => SoundRequests
  <1>1. SUFFICES ASSUME Init PROVE SoundRequests
    OBVIOUS
  <1>2. TypeOK
    BY <1>1 DEF Init, TypeOK, Request, Idle
  <1>3. \A r \in Requests : Sound(req[r], positions, lots, tranches)
    BY <1>1 DEF Init, Idle, Sound, DeletePositionSteps, UpdateDividendSteps
  <1>4. QED
    BY <1>2, <1>3 DEF SoundRequests

\* The inductive invariant: whatever a request in flight has read stays good
\* enough for what it will write (all handlers of portfolio/service.py).
THEOREM RequestsStaySound == Spec => []SoundRequests
  <1>1. Init => SoundRequests
    BY InitSound
  <1>2. SoundRequests /\ [Next]_vars => SoundRequests'
    BY StepSound
  <1>3. QED
    BY <1>1, <1>2, PTL DEF Spec

\* The tables, the audit log and the requests keep their types; in particular
\* no version runs past the bound of the instance.
THEOREM TypeCorrect == Spec => []TypeOK
  <1>1. SoundRequests => TypeOK
    BY DEF SoundRequests
  <1>2. QED
    BY <1>1, RequestsStaySound, PTL

\* Optimistic locking loses no update, for any number of concurrent requests
\* (update_lot, update_dividend_tranche).
THEOREM NoUpdateIsLost == Spec => []NoLostUpdate
  <1>1. SoundRequests => NoLostUpdate
    <2>1. SUFFICES ASSUME SoundRequests, NEW r \in Requests
                   PROVE  /\ req[r].at = "update_lot" =>
                              (lots[req[r].lot].version = req[r].version =>
                                 lots[req[r].lot].terms = req[r].seen.terms)
                          /\ req[r].at \in UpdateDividendSteps =>
                              (tranches[req[r].tranche].version = req[r].version =>
                                 tranches[req[r].tranche].terms = req[r].seen.terms)
      BY DEF NoLostUpdate
    <2>2. CASE req[r].at = "update_lot"
      <3>1. req[r] \in InUpdateLot /\ Snapshot(lots[req[r].lot], req[r])
        BY <2>1, <2>2, RequestShapes DEF SoundRequests, TypeOK, Sound
      <3>2. lots[req[r].lot] \in LotRow
        BY <2>1, <3>1 DEF SoundRequests, TypeOK, Snapshot, InUpdateLot
      <3>3. QED
        BY <2>2, <3>1, <3>2 DEF Snapshot, InUpdateLot, LotRow, UpdateDividendSteps
    <2>3. CASE req[r].at \in UpdateDividendSteps
      <3>1. req[r] \in InUpdateDividend /\ Snapshot(tranches[req[r].tranche], req[r])
        BY <2>1, <2>3, RequestShapes DEF SoundRequests, TypeOK, Sound
      <3>2. tranches[req[r].tranche] \in TrancheRow
        BY <2>1, <3>1 DEF SoundRequests, TypeOK, Snapshot, InUpdateDividend
      <3>3. QED
        BY <2>3, <3>1, <3>2 DEF Snapshot, InUpdateDividend, TrancheRow, UpdateDividendSteps
    <2>4. QED
      BY <2>2, <2>3
  <1>2. QED
    BY <1>1, RequestsStaySound, PTL

\* No row is lost, moved, undeleted or changed without a new version, whatever
\* requests run side by side (A-010).
THEOREM RowsAreKept == Spec => RecordsAreKept
  <1>1. SoundRequests /\ [Next]_vars => [RowsKept]_vars
    BY StepSound
  <1>2. QED
    BY <1>1, RequestsStaySound, PTL DEF Spec, RecordsAreKept

-----------------------------------------------------------------------------
(* Deletion is final.  A second invariant: what a request has read of a    *)
(* row still says to which position the row belongs.                       *)

Homed(q, ls, ts) ==
    /\ q.at \in {"update_lot", "delete_lot_count", "delete_lot"} =>
         ls[q.lot].position = q.seen.position
    /\ q.at \in DeletePositionSteps =>
         /\ \A l \in q.lots : ls[l].position = q.position
         /\ \A t \in q.tranches : ts[t].position = q.position
    /\ q.at \in UpdateDividendSteps \cup {"delete_dividend"} =>
         ts[q.tranche].position = q.seen.position

RequestsKnowHome == \A r \in Requests : Homed(req[r], lots, tranches)

\* Concerns, of what a request holds.
Touches(q, p) ==
    \/ /\ q.at \in {"create_position", "add_lot", "update_lot_read", "delete_lot_read"}
                   \cup DeletePositionSteps \cup CreateDividendSteps
       /\ q.position = p
    \/ /\ q.at \in {"update_lot", "delete_lot_count", "delete_lot", "delete_dividend"}
                   \cup UpdateDividendSteps
       /\ q.seen.position = p

\* No row of p changes, and none comes or goes.
Untouched(p) ==
    /\ \A l \in LotId :
         (lots[l] # None /\ lots[l].position = p) \/ (lots'[l] # None /\ lots'[l].position = p)
         => lots'[l] = lots[l]
    /\ \A t \in TrancheId :
         \/ tranches[t] # None /\ tranches[t].position = p
         \/ tranches'[t] # None /\ tranches'[t].position = p
         => tranches'[t] = tranches[t]

DeletedStays(p) ==
    Closed(p) => Closed(p)' /\ LotsOf(p)' = LotsOf(p) /\ TranchesOf(p)' = TranchesOf(p)

FinalStep == RequestsKnowHome' /\ \A p \in PositionId : DeletedStays(p)

LEMMA UntouchedRows ==
    ASSUME NEW p \in PositionId, Untouched(p)
    PROVE  LotsOf(p)' = LotsOf(p) /\ TranchesOf(p)' = TranchesOf(p)
  <1>1. {l \in LotId : lots'[l] # None /\ lots'[l].position = p}
          = {l \in LotId : lots[l] # None /\ lots[l].position = p}
    BY DEF Untouched
  <1>2. {t \in TrancheId : tranches'[t] # None /\ tranches'[t].position = p}
          = {t \in TrancheId : tranches[t] # None /\ tranches[t].position = p}
    BY DEF Untouched
  <1>3. LotsOf(p)' = LotsOf(p)
    BY <1>1 DEF LotsOf, Untouched
  <1>4. TranchesOf(p)' = TranchesOf(p)
    BY <1>2 DEF TranchesOf, Untouched
  <1>5. QED
    BY <1>3, <1>4

\* A position stays closed if it stays deleted and no request turns to it.
LEMMA StaysClosed ==
    ASSUME RowsKept, NEW p \in PositionId, Closed(p), Untouched(p),
           \A s \in Requests : ~Touches(req'[s], p)
    PROVE  Closed(p)' /\ LotsOf(p)' = LotsOf(p) /\ TranchesOf(p)' = TranchesOf(p)
  <1>1. positions'[p] # None /\ positions'[p].deleted
    <2>1. positions'[p] # None /\ positions'[p] \in {positions[p], Gone(positions[p])}
      BY DEF RowsKept, Closed
    <2>2. CASE positions'[p] = positions[p]
      BY <2>1, <2>2 DEF Closed
    <2>3. CASE positions'[p] = Gone(positions[p])
      BY <2>1, <2>3 DEF Closed, Gone
    <2>4. QED
      BY <2>1, <2>2, <2>3
  <1>2. Closed(p)'
    BY <1>1 DEF Closed, Concerns, Touches
  <1>3. QED
    BY <1>2, UntouchedRows

\* What a request knows of its rows' positions survives every write.
LEMMA HomedIsStable ==
    ASSUME TypeOK, RowsKept, NEW q \in Request,
           Sound(q, positions, lots, tranches), Homed(q, lots, tranches)
    PROVE  Homed(q, lots', tranches')
  <1>1. ASSUME NEW l \in LotId, lots[l] # None
        PROVE  lots'[l].position = lots[l].position
    BY <1>1 DEF RowsKept, Kept
  <1>2. ASSUME NEW t \in TrancheId, tranches[t] # None
        PROVE  tranches'[t].position = tranches[t].position
    BY <1>2 DEF RowsKept, Kept
  <1>3. ASSUME q.at \in {"update_lot", "delete_lot_count", "delete_lot"}
        PROVE  lots'[q.lot].position = q.seen.position
    <2>1. q \in InUpdateLot \/ q \in InDeleteLot
      BY <1>3, RequestShapes
    <2>2. q.lot \in LotId /\ lots[q.lot] # None
      BY <1>3, <2>1 DEF InUpdateLot, InDeleteLot, Sound, Snapshot
    <2>3. QED
      BY <1>1, <1>3, <2>2 DEF Homed
  <1>4. ASSUME q.at \in DeletePositionSteps
        PROVE  /\ \A l \in q.lots : lots'[l].position = q.position
               /\ \A t \in q.tranches : tranches'[t].position = q.position
    <2>1. q \in InDeletePosition
      BY <1>4, RequestShapes
    <2>2. /\ \A l \in q.lots : l \in LotId /\ lots[l] # None
          /\ \A t \in q.tranches : t \in TrancheId /\ tranches[t] # None
      BY <1>4, <2>1 DEF InDeletePosition, Sound
    <2>3. QED
      BY <1>1, <1>2, <1>4, <2>2 DEF Homed
  <1>5. ASSUME q.at \in UpdateDividendSteps \cup {"delete_dividend"}
        PROVE  tranches'[q.tranche].position = q.seen.position
    <2>1. q \in InUpdateDividend \/ q \in InDeleteDividend
      BY <1>5, RequestShapes
    <2>2. q.tranche \in TrancheId /\ tranches[q.tranche] # None
      BY <1>5, <2>1 DEF InUpdateDividend, InDeleteDividend, Sound, Snapshot
    <2>3. QED
      BY <1>2, <1>5, <2>2 DEF Homed
  <1>6. QED
    BY <1>3, <1>4, <1>5 DEF Homed

\* A step that only reads turns its request to no position that is deleted.
LEMMA ReadIsFinal ==
    ASSUME SoundRequests, RequestsKnowHome, NEW r \in Requests, NEW q,
           Homed(q, lots, tranches),
           \A p \in PositionId : Touches(q, p) => Touches(req[r], p) \/ ActivePosition(p),
           req' = [req EXCEPT ![r] = q], UNCHANGED Tables
    PROVE  FinalStep
  <1>1. \A s \in Requests : req'[s] = IF s = r THEN q ELSE req[s]
    BY DEF SoundRequests, TypeOK
  <1>2. RequestsKnowHome'
    BY <1>1 DEF RequestsKnowHome, Homed, Tables
  <1>3. ASSUME NEW p \in PositionId, Closed(p)
        PROVE  Closed(p)' /\ LotsOf(p)' = LotsOf(p) /\ TranchesOf(p)' = TranchesOf(p)
    <2>1. ~ActivePosition(p) /\ \A s \in Requests : ~Touches(req[s], p)
      BY <1>3 DEF Closed, ActivePosition, Concerns, Touches
    <2>2. \A s \in Requests : ~Touches(req'[s], p)
      BY <1>1, <2>1
    <2>3. RowsKept
      BY SameRowKept DEF RowsKept, SoundRequests, TypeOK, Tables
    <2>4. Untouched(p)
      BY DEF Untouched, Tables
    <2>5. QED
      BY <1>3, <2>2, <2>3, <2>4, StaysClosed
  <1>4. QED
    BY <1>2, <1>3 DEF FinalStep, DeletedStays

\* A step that writes ends its request and writes rows of its position only.
LEMMA WriteIsFinal ==
    ASSUME SoundRequests, RequestsKnowHome, NEW r \in Requests, Finish(r), RowsKept,
           \A p \in PositionId : positions[p] # None /\ ~Touches(req[r], p) => Untouched(p)
    PROVE  FinalStep
  <1>1. \A s \in Requests : req'[s] = IF s = r THEN Idle ELSE req[s]
    BY DEF SoundRequests, TypeOK, Finish, Continue
  <1>2. ASSUME NEW s \in Requests PROVE Homed(req'[s], lots', tranches')
    <2>1. CASE s = r
      <3>1. req'[s] = Idle
        BY <1>1, <2>1
      <3>2. QED
        BY <3>1 DEF Homed, Idle, DeletePositionSteps, UpdateDividendSteps
    <2>2. CASE s # r
      <3>1. req'[s] = req[s] /\ req[s] \in Request
        BY <1>1, <2>2 DEF SoundRequests, TypeOK
      <3>2. Homed(req[s], lots', tranches')
        BY <3>1, HomedIsStable DEF SoundRequests, RequestsKnowHome
      <3>3. QED
        BY <3>1, <3>2
    <2>3. QED
      BY <2>1, <2>2
  <1>3. RequestsKnowHome'
    BY <1>2 DEF RequestsKnowHome
  <1>4. ASSUME NEW p \in PositionId, Closed(p)
        PROVE  Closed(p)' /\ LotsOf(p)' = LotsOf(p) /\ TranchesOf(p)' = TranchesOf(p)
    <2>1. positions[p] # None /\ \A s \in Requests : ~Touches(req[s], p)
      BY <1>4 DEF Closed, Concerns, Touches
    <2>2. \A s \in Requests : ~Touches(req'[s], p)
      BY <1>1, <2>1 DEF Touches, Idle, DeletePositionSteps, CreateDividendSteps,
        UpdateDividendSteps
    <2>3. Untouched(p)
      BY <2>1
    <2>4. QED
      BY <1>4, <2>2, <2>3, StaysClosed
  <1>5. QED
    BY <1>3, <1>4 DEF FinalStep, DeletedStays

-----------------------------------------------------------------------------
(* The steps that only read *)

LEMMA ArriveIsFinal ==
    ASSUME SoundRequests, RequestsKnowHome, NEW r \in Requests, Arrive(r)
    PROVE  FinalStep
  <1> USE DEF Tables
  <1>1. CASE CreatePositionFind(r)
    <2>1. PICK pf \in Portfolios, s \in Stocks, terms \in LotTerms :
            \E p \in IF ActiveByStock(pf, s) = {} THEN {None} ELSE ActiveByStock(pf, s) :
              Continue(r, [at |-> "create_position", portfolio |-> pf, stock |-> s,
                           position |-> p, terms |-> terms])
      BY <1>1 DEF CreatePositionFind
    <2>2. PICK p \in IF ActiveByStock(pf, s) = {} THEN {None} ELSE ActiveByStock(pf, s) :
            Continue(r, [at |-> "create_position", portfolio |-> pf, stock |-> s,
                         position |-> p, terms |-> terms])
      BY <2>1
    <2>3. p = None \/ ActivePosition(p)
      BY <2>2 DEF ActiveByStock, OwnedActive
    <2> DEFINE q == [at |-> "create_position", portfolio |-> pf, stock |-> s,
                     position |-> p, terms |-> terms]
    <2>4. Homed(q, lots, tranches)
      BY DEF Homed, DeletePositionSteps, UpdateDividendSteps
    <2>5. \A p2 \in PositionId : Touches(q, p2) => ActivePosition(p2)
      BY <2>3, NoneAssumption DEF Touches, UpdateDividendSteps
    <2>6. req' = [req EXCEPT ![r] = q] /\ UNCHANGED Tables
      BY <1>1, <2>2 DEF CreatePositionFind, Continue
    <2> HIDE DEF q
    <2>7. QED
      BY <2>4, <2>5, <2>6, ReadIsFinal
  <1>2. CASE AddLotRead(r)
    <2>1. PICK pf \in Portfolios, p \in PositionId, terms \in LotTerms :
            /\ OwnedActive(pf, p)
            /\ Continue(r, [at |-> "add_lot", position |-> p, terms |-> terms])
      BY <1>2 DEF AddLotRead
    <2> DEFINE q == [at |-> "add_lot", position |-> p, terms |-> terms]
    <2>2. Homed(q, lots, tranches)
      BY DEF Homed, DeletePositionSteps, UpdateDividendSteps
    <2>3. \A p2 \in PositionId : Touches(q, p2) => ActivePosition(p2)
      BY <2>1 DEF Touches, UpdateDividendSteps, OwnedActive
    <2>4. req' = [req EXCEPT ![r] = q] /\ UNCHANGED Tables
      BY <1>2, <2>1 DEF AddLotRead, Continue
    <2> HIDE DEF q
    <2>5. QED
      BY <2>2, <2>3, <2>4, ReadIsFinal
  <1>3. CASE UpdateLotBegin(r)
    <2>1. PICK pf \in Portfolios, p \in PositionId, l \in LotId, patch \in LotPatch :
            /\ OwnedActive(pf, p)
            /\ \E v \in 1..lots[l].version :
                 Continue(r, [at |-> "update_lot_read", position |-> p, lot |-> l,
                              version |-> v, patch |-> patch])
      BY <1>3 DEF UpdateLotBegin
    <2>2. PICK v \in 1..lots[l].version :
            Continue(r, [at |-> "update_lot_read", position |-> p, lot |-> l,
                         version |-> v, patch |-> patch])
      BY <2>1
    <2> DEFINE q == [at |-> "update_lot_read", position |-> p, lot |-> l,
                     version |-> v, patch |-> patch]
    <2>3. Homed(q, lots, tranches)
      BY DEF Homed, DeletePositionSteps, UpdateDividendSteps
    <2>4. \A p2 \in PositionId : Touches(q, p2) => ActivePosition(p2)
      BY <2>1 DEF Touches, UpdateDividendSteps, OwnedActive
    <2>5. req' = [req EXCEPT ![r] = q] /\ UNCHANGED Tables
      BY <1>3, <2>2 DEF UpdateLotBegin, Continue
    <2> HIDE DEF q
    <2>6. QED
      BY <2>3, <2>4, <2>5, ReadIsFinal
  <1>4. CASE DeleteLotBegin(r)
    <2>1. PICK pf \in Portfolios, p \in PositionId, l \in LotId :
            /\ OwnedActive(pf, p)
            /\ Continue(r, [at |-> "delete_lot_read", position |-> p, lot |-> l])
      BY <1>4 DEF DeleteLotBegin
    <2> DEFINE q == [at |-> "delete_lot_read", position |-> p, lot |-> l]
    <2>2. Homed(q, lots, tranches)
      BY DEF Homed, DeletePositionSteps, UpdateDividendSteps
    <2>3. \A p2 \in PositionId : Touches(q, p2) => ActivePosition(p2)
      BY <2>1 DEF Touches, UpdateDividendSteps, OwnedActive
    <2>4. req' = [req EXCEPT ![r] = q] /\ UNCHANGED Tables
      BY <1>4, <2>1 DEF DeleteLotBegin, Continue
    <2> HIDE DEF q
    <2>5. QED
      BY <2>2, <2>3, <2>4, ReadIsFinal
  <1>5. CASE DeletePositionRead(r)
    <2>1. PICK pf \in Portfolios, p \in PositionId :
            /\ OwnedActive(pf, p)
            /\ Continue(r, [at |-> "delete_position", position |-> p,
                            lots |-> {}, tranches |-> {}])
      BY <1>5 DEF DeletePositionRead
    <2> DEFINE q == [at |-> "delete_position", position |-> p,
                     lots |-> {}, tranches |-> {}]
    <2>2. Homed(q, lots, tranches)
      BY DEF Homed, UpdateDividendSteps
    <2>3. \A p2 \in PositionId : Touches(q, p2) => ActivePosition(p2)
      BY <2>1 DEF Touches, UpdateDividendSteps, OwnedActive
    <2>4. req' = [req EXCEPT ![r] = q] /\ UNCHANGED Tables
      BY <1>5, <2>1 DEF DeletePositionRead, Continue
    <2> HIDE DEF q
    <2>5. QED
      BY <2>2, <2>3, <2>4, ReadIsFinal
  <1>6. CASE CreateDividendRead(r)
    <2>1. PICK pf \in Portfolios, p \in PositionId, body \in DividendBody :
            /\ OwnedActive(pf, p)
            /\ Continue(r, [at |-> "create_dividend_lots", position |-> p, body |-> body])
      BY <1>6 DEF CreateDividendRead
    <2> DEFINE q == [at |-> "create_dividend_lots", position |-> p, body |-> body]
    <2>2. Homed(q, lots, tranches)
      BY DEF Homed, DeletePositionSteps, UpdateDividendSteps
    <2>3. \A p2 \in PositionId : Touches(q, p2) => ActivePosition(p2)
      BY <2>1 DEF Touches, UpdateDividendSteps, OwnedActive
    <2>4. req' = [req EXCEPT ![r] = q] /\ UNCHANGED Tables
      BY <1>6, <2>1 DEF CreateDividendRead, Continue
    <2> HIDE DEF q
    <2>5. QED
      BY <2>2, <2>3, <2>4, ReadIsFinal
  <1>7. CASE UpdateDividendRead(r)
    <2>1. PICK pf \in Portfolios, t \in TrancheId, patch \in DividendPatch :
            /\ OwnedTranche(pf, t)
            /\ \E v \in 1..tranches[t].version :
                 Continue(r, [at |-> "update_dividend_position", portfolio |-> pf,
                              tranche |-> t, version |-> v,
                              body |-> MergedDividend(tranches[t].terms.body, patch),
                              seen |-> tranches[t]])
      BY <1>7 DEF UpdateDividendRead
    <2>2. PICK v \in 1..tranches[t].version :
            Continue(r, [at |-> "update_dividend_position", portfolio |-> pf,
                         tranche |-> t, version |-> v,
                         body |-> MergedDividend(tranches[t].terms.body, patch),
                         seen |-> tranches[t]])
      BY <2>1
    <2> DEFINE q == [at |-> "update_dividend_position", portfolio |-> pf,
                     tranche |-> t, version |-> v,
                     body |-> MergedDividend(tranches[t].terms.body, patch),
                     seen |-> tranches[t]]
    <2>3. Homed(q, lots, tranches)
      BY DEF Homed, DeletePositionSteps
    <2>4. \A p2 \in PositionId : Touches(q, p2) => ActivePosition(p2)
      BY <2>1 DEF Touches, CreateDividendSteps, DeletePositionSteps, OwnedTranche, OwnedActive
    <2>5. req' = [req EXCEPT ![r] = q] /\ UNCHANGED Tables
      BY <1>7, <2>2 DEF UpdateDividendRead, Continue
    <2> HIDE DEF q
    <2>6. QED
      BY <2>3, <2>4, <2>5, ReadIsFinal
  <1>8. CASE DeleteDividendRead(r)
    <2>1. PICK pf \in Portfolios, t \in TrancheId :
            /\ OwnedTranche(pf, t)
            /\ Continue(r, [at |-> "delete_dividend", tranche |-> t, seen |-> tranches[t]])
      BY <1>8 DEF DeleteDividendRead
    <2> DEFINE q == [at |-> "delete_dividend", tranche |-> t, seen |-> tranches[t]]
    <2>2. Homed(q, lots, tranches)
      BY DEF Homed, DeletePositionSteps
    <2>3. \A p2 \in PositionId : Touches(q, p2) => ActivePosition(p2)
      BY <2>1 DEF Touches, CreateDividendSteps, DeletePositionSteps, OwnedTranche, OwnedActive
    <2>4. req' = [req EXCEPT ![r] = q] /\ UNCHANGED Tables
      BY <1>8, <2>1 DEF DeleteDividendRead, Continue
    <2> HIDE DEF q
    <2>5. QED
      BY <2>2, <2>3, <2>4, ReadIsFinal
  <1>9. QED
    BY <1>1, <1>2, <1>3, <1>4, <1>5, <1>6, <1>7, <1>8 DEF Arrive

\* A handler that goes on with what it holds, or gives up, turns to no other
\* position.
LEMMA GotoIsFinal ==
    ASSUME SoundRequests, RequestsKnowHome, NEW r \in Requests, NEW at,
           Goto(r, at), UNCHANGED Tables,
           \/ req[r].at = "delete_lot_count" /\ at = "delete_lot"
           \/ req[r].at \in CreateDividendSteps /\ at \in CreateDividendSteps
           \/ req[r].at \in UpdateDividendSteps /\ at \in UpdateDividendSteps
    PROVE  FinalStep
  <1> DEFINE q == [req[r] EXCEPT !.at = at]
  <1>1. req[r] \in InDeleteLot \cup InCreateDividend \cup InUpdateDividend
    BY RequestShapes DEF SoundRequests, TypeOK
  <1>2. /\ q.at = at
        /\ req[r] \in InDeleteLot => q.lot = req[r].lot /\ q.seen = req[r].seen
        /\ req[r] \in InCreateDividend => q.position = req[r].position
        /\ req[r] \in InUpdateDividend => q.tranche = req[r].tranche /\ q.seen = req[r].seen
    BY <1>1 DEF InDeleteLot, InCreateDividend, InUpdateDividend
  <1>3. /\ req[r].at = "delete_lot_count" => req[r] \in InDeleteLot
        /\ req[r].at \in CreateDividendSteps => req[r] \in InCreateDividend
        /\ req[r].at \in UpdateDividendSteps => req[r] \in InUpdateDividend
    BY RequestShapes DEF SoundRequests, TypeOK
  <1>4. req' = [req EXCEPT ![r] = q]
    BY DEF Goto, Continue
  <1> HIDE DEF q
  <1>5. Homed(req[r], lots, tranches)
    BY DEF RequestsKnowHome
  <1>6. Homed(q, lots, tranches)
    BY <1>2, <1>3, <1>5 DEF Homed, CreateDividendSteps, UpdateDividendSteps,
      DeletePositionSteps
  <1>7. \A p \in PositionId : Touches(q, p) => Touches(req[r], p)
    BY <1>2, <1>3 DEF Touches, CreateDividendSteps, UpdateDividendSteps,
      DeletePositionSteps
  <1>8. QED
    BY <1>4, <1>6, <1>7, ReadIsFinal

LEMMA GiveUpIsFinal ==
    ASSUME SoundRequests, RequestsKnowHome, NEW r \in Requests,
           Finish(r), UNCHANGED Tables
    PROVE  FinalStep
  <1>1. Homed(Idle, lots, tranches)
    BY DEF Homed, Idle, DeletePositionSteps, UpdateDividendSteps
  <1>2. \A p \in PositionId : ~Touches(Idle, p)
    BY DEF Touches, Idle, DeletePositionSteps, CreateDividendSteps, UpdateDividendSteps
  <1>3. QED
    BY <1>1, <1>2, ReadIsFinal DEF Finish, Continue

LEMMA CheckIsFinal ==
    ASSUME SoundRequests, RequestsKnowHome, NEW r \in Requests,
           \/ DeleteLotCount(r)
           \/ CreateDividendCheckShares(r) \/ CreateDividendCheckYear(r)
           \/ UpdateDividendCheckPosition(r) \/ UpdateDividendCheckShares(r)
           \/ UpdateDividendCheckYear(r)
    PROVE  FinalStep
  <1> USE DEF Tables
  <1>1. CASE DeleteLotCount(r)
    BY <1>1, GotoIsFinal, GiveUpIsFinal DEF DeleteLotCount
  <1>2. CASE CreateDividendCheckShares(r)
    BY <1>2, GotoIsFinal, GiveUpIsFinal DEF CreateDividendCheckShares, CreateDividendSteps
  <1>3. CASE CreateDividendCheckYear(r)
    BY <1>3, GotoIsFinal, GiveUpIsFinal DEF CreateDividendCheckYear, CreateDividendSteps
  <1>4. CASE UpdateDividendCheckPosition(r)
    BY <1>4, GotoIsFinal, GiveUpIsFinal DEF UpdateDividendCheckPosition, UpdateDividendSteps
  <1>5. CASE UpdateDividendCheckShares(r)
    BY <1>5, GotoIsFinal, GiveUpIsFinal DEF UpdateDividendCheckShares, UpdateDividendSteps
  <1>6. CASE UpdateDividendCheckYear(r)
    BY <1>6, GotoIsFinal, GiveUpIsFinal DEF UpdateDividendCheckYear, UpdateDividendSteps
  <1>7. QED
    BY <1>1, <1>2, <1>3, <1>4, <1>5, <1>6

LEMMA LotReadIsFinal ==
    ASSUME SoundRequests, RequestsKnowHome, NEW r \in Requests,
           UpdateLotRead(r) \/ DeleteLotRead(r)
    PROVE  FinalStep
  <1> USE DEF Tables
  <1> DEFINE l == req[r].lot
             q1 == [at |-> "update_lot", lot |-> l, version |-> req[r].version,
                    terms |-> MergedLot(lots[l].terms, req[r].patch), seen |-> lots[l]]
             q2 == [at |-> "delete_lot_count", lot |-> l, seen |-> lots[l]]
  <1>1. ASSUME UpdateLotRead(r), OwnedLot(req[r].position, l), Continue(r, q1)
        PROVE  FinalStep
    <2>1. Homed(q1, lots, tranches)
      BY DEF Homed, DeletePositionSteps, UpdateDividendSteps
    <2>2. \A p \in PositionId : Touches(q1, p) => Touches(req[r], p)
      BY <1>1 DEF Touches, UpdateLotRead, OwnedLot, ActiveLots, CreateDividendSteps,
        DeletePositionSteps
    <2>3. req' = [req EXCEPT ![r] = q1] /\ UNCHANGED Tables
      BY <1>1 DEF UpdateLotRead, Continue
    <2> HIDE DEF q1
    <2>4. QED
      BY <2>1, <2>2, <2>3, ReadIsFinal
  <1>2. ASSUME DeleteLotRead(r), OwnedLot(req[r].position, l), Continue(r, q2)
        PROVE  FinalStep
    <2>1. Homed(q2, lots, tranches)
      BY DEF Homed, DeletePositionSteps, UpdateDividendSteps
    <2>2. \A p \in PositionId : Touches(q2, p) => Touches(req[r], p)
      BY <1>2 DEF Touches, DeleteLotRead, OwnedLot, ActiveLots, CreateDividendSteps,
        DeletePositionSteps
    <2>3. req' = [req EXCEPT ![r] = q2] /\ UNCHANGED Tables
      BY <1>2 DEF DeleteLotRead, Continue
    <2> HIDE DEF q2
    <2>4. QED
      BY <2>1, <2>2, <2>3, ReadIsFinal
  <1>3. QED
    BY <1>1, <1>2, GiveUpIsFinal DEF UpdateLotRead, DeleteLotRead

LEMMA CascadeIsFinal ==
    ASSUME SoundRequests, RequestsKnowHome, NEW r \in Requests,
           DeletePositionLots(r) \/ DeletePositionTranches(r)
    PROVE  FinalStep
  <1> USE DEF Tables
  <1>1. req[r] \in InDeletePosition /\ Homed(req[r], lots, tranches)
    BY RequestShapes DEF SoundRequests, TypeOK, RequestsKnowHome, DeletePositionLots,
      DeletePositionTranches, DeletePositionSteps
  <1>2. CASE DeletePositionLots(r)
    <2> DEFINE q == [req[r] EXCEPT !.at = "delete_position_tranches",
                                   !.lots = ActiveLots(req[r].position)]
    <2>1. /\ q.at = "delete_position_tranches" /\ q.position = req[r].position
          /\ q.lots = ActiveLots(req[r].position) /\ q.tranches = req[r].tranches
      BY <1>1 DEF InDeletePosition
    <2>2. req' = [req EXCEPT ![r] = q] /\ UNCHANGED Tables
      BY <1>2 DEF DeletePositionLots, Continue
    <2> HIDE DEF q
    <2>3. Homed(q, lots, tranches)
      BY <1>1, <1>2, <2>1
      DEF DeletePositionLots, Homed, ActiveLots, DeletePositionSteps, UpdateDividendSteps
    <2>4. \A p \in PositionId : Touches(q, p) => Touches(req[r], p)
      BY <1>2, <2>1 DEF DeletePositionLots, Touches, DeletePositionSteps, UpdateDividendSteps
    <2>5. QED
      BY <2>2, <2>3, <2>4, ReadIsFinal
  <1>3. CASE DeletePositionTranches(r)
    <2> DEFINE q == [req[r] EXCEPT !.at = "delete_position_commit",
                                   !.tranches = ActiveTranches(req[r].position)]
    <2>1. /\ q.at = "delete_position_commit" /\ q.position = req[r].position
          /\ q.lots = req[r].lots /\ q.tranches = ActiveTranches(req[r].position)
      BY <1>1 DEF InDeletePosition
    <2>2. req' = [req EXCEPT ![r] = q] /\ UNCHANGED Tables
      BY <1>3 DEF DeletePositionTranches, Continue
    <2> HIDE DEF q
    <2>3. Homed(q, lots, tranches)
      BY <1>1, <1>3, <2>1
      DEF DeletePositionTranches, Homed, ActiveTranches, DeletePositionSteps,
        UpdateDividendSteps
    <2>4. \A p \in PositionId : Touches(q, p) => Touches(req[r], p)
      BY <1>3, <2>1
      DEF DeletePositionTranches, Touches, DeletePositionSteps, UpdateDividendSteps
    <2>5. QED
      BY <2>2, <2>3, <2>4, ReadIsFinal
  <1>4. QED
    BY <1>2, <1>3

-----------------------------------------------------------------------------
(* The steps that write *)

\* An inserted lot is the only one that changes, and it is of position p.
LEMMA InsertIsLocal ==
    ASSUME TypeOK, NEW p \in PositionId, NEW terms, InsertLot(p, terms),
           UNCHANGED tranches, NEW p2 \in PositionId, p2 # p
    PROVE  Untouched(p2)
  <1>1. PICK l \in LotId : lots[l] = None /\ lots' = [lots EXCEPT ![l] = NewRow(p, terms)]
    BY DEF InsertLot
  <1>2. lots'[l] = NewRow(p, terms) /\ \A k \in LotId \ {l} : lots'[k] = lots[k]
    BY <1>1 DEF TypeOK
  <1>3. lots'[l].position = p
    BY <1>2 DEF NewRow
  <1>4. QED
    BY <1>1, <1>2, <1>3 DEF Untouched

\* An edited or deleted row stays at its position.
LEMMA LotWriteIsLocal ==
    ASSUME TypeOK, NEW l \in LotId, NEW new, lots' = [lots EXCEPT ![l] = new],
           lots[l] # None, RowsKept,
           UNCHANGED tranches, NEW p \in PositionId, p # lots[l].position
    PROVE  Untouched(p)
  <1>1. \A k \in LotId \ {l} : lots'[k] = lots[k]
    BY DEF TypeOK
  <1>2. lots'[l].position = lots[l].position
    BY DEF RowsKept, Kept
  <1>3. QED
    BY <1>1, <1>2 DEF Untouched

LEMMA TrancheWriteIsLocal ==
    ASSUME TypeOK, NEW t \in TrancheId, NEW new, tranches' = [tranches EXCEPT ![t] = new],
           tranches[t] # None, RowsKept,
           UNCHANGED lots, NEW p \in PositionId, p # tranches[t].position
    PROVE  Untouched(p)
  <1>1. \A k \in TrancheId \ {t} : tranches'[k] = tranches[k]
    BY DEF TypeOK
  <1>2. tranches'[t].position = tranches[t].position
    BY DEF RowsKept, Kept
  <1>3. QED
    BY <1>1, <1>2 DEF Untouched

LEMMA NothingTouched ==
    ASSUME UNCHANGED <<lots, tranches>>, NEW p
    PROVE  Untouched(p)
  BY DEF Untouched

LEMMA InsertIsFinal ==
    ASSUME SoundRequests, RequestsKnowHome, RowsKept, NEW r \in Requests,
           CreatePositionCommit(r) \/ AddLotCommit(r)
    PROVE  FinalStep
  <1>1. TypeOK /\ Finish(r) /\ UNCHANGED tranches
    BY DEF SoundRequests, CreatePositionCommit, AddLotCommit
  <1>2. ASSUME NEW p \in PositionId, positions[p] # None, ~Touches(req[r], p)
        PROVE  Untouched(p)
    <2>1. CASE AddLotCommit(r)
      <3>1. req[r] \in InAddLot
        BY <1>1, <2>1, RequestShapes DEF TypeOK, AddLotCommit
      <3>2. req[r].position \in PositionId /\ req[r].position # p
        BY <1>2, <2>1, <3>1 DEF InAddLot, Touches, AddLotCommit
      <3>3. QED
        BY <1>1, <2>1, <3>2, InsertIsLocal DEF AddLotCommit
    <2>2. CASE CreatePositionCommit(r)
      <3>1. req[r] \in InCreatePosition
        BY <1>1, <2>2, RequestShapes DEF TypeOK, CreatePositionCommit
      <3>2. CASE req[r].position # None /\ InsertLot(req[r].position, req[r].terms)
        <4>1. req[r].position \in PositionId /\ req[r].position # p
          BY <1>2, <2>2, <3>1, <3>2 DEF InCreatePosition, Touches, CreatePositionCommit
        <4>2. QED
          BY <1>1, <3>2, <4>1, InsertIsLocal
      <3>3. ASSUME NEW n \in PositionId, positions[n] = None, InsertLot(n, req[r].terms)
            PROVE  Untouched(p)
        BY <1>1, <1>2, <3>3, InsertIsLocal
      <3>4. QED
        BY <2>2, <3>2, <3>3 DEF CreatePositionCommit
    <2>3. QED
      BY <2>1, <2>2
  <1>3. QED
    BY <1>1, <1>2, WriteIsFinal

LEMMA LotCommitIsFinal ==
    ASSUME SoundRequests, RequestsKnowHome, RowsKept, NEW r \in Requests,
           UpdateLotCommit(r) \/ DeleteLotCommit(r)
    PROVE  FinalStep
  <1>1. TypeOK /\ Finish(r) /\ UNCHANGED tranches
    BY DEF SoundRequests, UpdateLotCommit, DeleteLotCommit
  <1>2. req[r] \in InUpdateLot \/ req[r] \in InDeleteLot
    BY <1>1, RequestShapes DEF TypeOK, UpdateLotCommit, DeleteLotCommit
  <1>3. req[r].lot \in LotId /\ req[r].at \in {"update_lot", "delete_lot"}
    BY <1>2 DEF InUpdateLot, InDeleteLot, UpdateLotCommit, DeleteLotCommit
  <1>4. Sound(req[r], positions, lots, tranches) /\ Homed(req[r], lots, tranches)
    BY DEF SoundRequests, RequestsKnowHome
  <1>5. lots[req[r].lot] # None /\ lots[req[r].lot].position = req[r].seen.position
    BY <1>3, <1>4 DEF Sound, Snapshot, Homed
  <1>6. \/ UNCHANGED lots
        \/ lots' = [lots EXCEPT ![req[r].lot] = Edited(lots[req[r].lot], req[r].terms)]
        \/ lots' = [lots EXCEPT ![req[r].lot] = Gone(lots[req[r].lot])]
    BY DEF UpdateLotCommit, DeleteLotCommit
  <1>7. ASSUME NEW p \in PositionId, ~Touches(req[r], p) PROVE Untouched(p)
    <2>1. p # lots[req[r].lot].position
      BY <1>3, <1>5, <1>7 DEF Touches
    <2>2. QED
      BY <1>1, <1>3, <1>5, <1>6, <2>1, LotWriteIsLocal, NothingTouched
  <1>8. QED
    BY <1>1, <1>7, WriteIsFinal

LEMMA TrancheCommitIsFinal ==
    ASSUME SoundRequests, RequestsKnowHome, RowsKept, NEW r \in Requests,
           UpdateDividendCommit(r) \/ DeleteDividendCommit(r)
    PROVE  FinalStep
  <1>1. TypeOK /\ Finish(r) /\ UNCHANGED lots
    BY DEF SoundRequests, UpdateDividendCommit, DeleteDividendCommit
  <1>2. req[r].at \in {"update_dividend", "delete_dividend"}
    BY DEF UpdateDividendCommit, DeleteDividendCommit
  <1>3. req[r] \in InUpdateDividend \/ req[r] \in InDeleteDividend
    BY <1>1, <1>2, RequestShapes DEF TypeOK, UpdateDividendSteps
  <1>4. req[r].tranche \in TrancheId
    BY <1>3 DEF InUpdateDividend, InDeleteDividend
  <1>5. Sound(req[r], positions, lots, tranches) /\ Homed(req[r], lots, tranches)
    BY DEF SoundRequests, RequestsKnowHome
  <1>6. /\ tranches[req[r].tranche] # None
        /\ tranches[req[r].tranche].position = req[r].seen.position
    BY <1>2, <1>5 DEF Sound, Snapshot, Homed, UpdateDividendSteps
  <1>7. \/ UNCHANGED tranches
        \/ tranches' = [tranches EXCEPT ![req[r].tranche] =
                          Edited(tranches[req[r].tranche], Terms(req[r].body))]
        \/ tranches' = [tranches EXCEPT ![req[r].tranche] =
                          Gone(tranches[req[r].tranche])]
    BY DEF UpdateDividendCommit, DeleteDividendCommit
  <1>8. ASSUME NEW p \in PositionId, ~Touches(req[r], p) PROVE Untouched(p)
    <2>1. p # tranches[req[r].tranche].position
      BY <1>2, <1>6, <1>8 DEF Touches, UpdateDividendSteps
    <2>2. QED
      BY <1>1, <1>4, <1>6, <1>7, <2>1, TrancheWriteIsLocal, NothingTouched
  <1>9. QED
    BY <1>1, <1>8, WriteIsFinal

LEMMA CreateDividendIsFinal ==
    ASSUME SoundRequests, RequestsKnowHome, RowsKept, NEW r \in Requests,
           CreateDividendCommit(r)
    PROVE  FinalStep
  <1>1. TypeOK /\ Finish(r) /\ UNCHANGED lots
    BY DEF SoundRequests, CreateDividendCommit
  <1>2. req[r].at = "create_dividend" /\ req[r] \in InCreateDividend
    BY <1>1, RequestShapes DEF TypeOK, CreateDividendCommit, CreateDividendSteps
  <1>3. ASSUME NEW p \in PositionId, ~Touches(req[r], p) PROVE Untouched(p)
    <2>1. req[r].position # p
      BY <1>2, <1>3 DEF Touches, CreateDividendSteps
    <2>2. CASE UNCHANGED tranches
      BY <1>1, <2>2, NothingTouched
    <2>3. ASSUME NEW t \in TrancheId, tranches[t] = None,
                 tranches' = [tranches EXCEPT ![t] =
                                NewRow(req[r].position, Terms(req[r].body))]
          PROVE  Untouched(p)
      <3>1. /\ tranches'[t] = NewRow(req[r].position, Terms(req[r].body))
            /\ \A k \in TrancheId \ {t} : tranches'[k] = tranches[k]
        BY <1>1, <2>3 DEF TypeOK
      <3>2. tranches'[t].position = req[r].position
        BY <3>1 DEF NewRow
      <3>3. QED
        BY <1>1, <2>1, <2>3, <3>1, <3>2 DEF Untouched
    <2>4. QED
      BY <2>2, <2>3 DEF CreateDividendCommit
  <1>4. QED
    BY <1>1, <1>3, WriteIsFinal

LEMMA DeletePositionIsFinal ==
    ASSUME SoundRequests, RequestsKnowHome, RowsKept, NEW r \in Requests,
           DeletePositionCommit(r)
    PROVE  FinalStep
  <1>1. TypeOK /\ Finish(r)
    BY DEF SoundRequests, DeletePositionCommit
  <1>2. req[r].at \in DeletePositionSteps
    BY DEF DeletePositionCommit, DeletePositionSteps
  <1>3. req[r] \in InDeletePosition
    BY <1>1, <1>2, RequestShapes DEF TypeOK
  <1>4. Sound(req[r], positions, lots, tranches) /\ Homed(req[r], lots, tranches)
    BY DEF SoundRequests, RequestsKnowHome
  <1>5. /\ \A l \in req[r].lots :
             l \in LotId /\ lots[l] # None /\ lots[l].position = req[r].position
        /\ \A t \in req[r].tranches :
             t \in TrancheId /\ tranches[t] # None /\ tranches[t].position = req[r].position
    BY <1>2, <1>3, <1>4 DEF Sound, Homed, InDeletePosition
  <1>6. /\ \A l \in LotId : l \notin req[r].lots => lots'[l] = lots[l]
        /\ \A t \in TrancheId : t \notin req[r].tranches => tranches'[t] = tranches[t]
    BY <1>1 DEF TypeOK, DeletePositionCommit, SoftDelete
  <1>7. /\ \A l \in req[r].lots : lots'[l].position = req[r].position
        /\ \A t \in req[r].tranches : tranches'[t].position = req[r].position
    BY <1>5 DEF RowsKept, Kept
  <1>8. ASSUME NEW p \in PositionId, ~Touches(req[r], p) PROVE Untouched(p)
    <2>1. p # req[r].position
      BY <1>2, <1>8 DEF Touches
    <2>2. QED
      BY <1>5, <1>6, <1>7, <2>1 DEF Untouched
  <1>9. QED
    BY <1>1, <1>8, WriteIsFinal

\* Every step keeps the second invariant and leaves closed positions closed.
LEMMA StepIsFinal ==
    ASSUME SoundRequests, RequestsKnowHome, [Next]_vars
    PROVE  RequestsKnowHome' /\ (FinalStep \/ UNCHANGED vars)
  <1>1. CASE UNCHANGED vars
    BY <1>1 DEF RequestsKnowHome, Homed, vars
  <1>2. ASSUME ~UNCHANGED vars PROVE FinalStep
    <2>1. RowsKept
      BY <1>2, StepSound
    <2>2. PICK r \in Requests : Arrive(r) \/ Proceed(r)
      BY <1>2 DEF Next
    <2>3. CASE Arrive(r)
      BY <2>3, ArriveIsFinal
    <2>4. CASE Proceed(r)
      BY <2>1, <2>4, CheckIsFinal, LotReadIsFinal, CascadeIsFinal, InsertIsFinal,
         LotCommitIsFinal, TrancheCommitIsFinal, CreateDividendIsFinal,
         DeletePositionIsFinal
      DEF Proceed
    <2>5. QED
      BY <2>2, <2>3, <2>4
  <1>3. QED
    BY <1>1, <1>2 DEF FinalStep

\* A deleted position that no request in flight had seen active is closed for
\* good, and so are its lots and tranches, for any number of requests
\* (get_owned_active_position, EC-006).
THEOREM ClosedForGood == Spec => DeletionIsFinal
  <1>1. Init => SoundRequests /\ RequestsKnowHome
    <2>1. Init => RequestsKnowHome
      BY DEF Init, RequestsKnowHome, Homed, Idle, DeletePositionSteps, UpdateDividendSteps
    <2>2. QED
      BY <2>1, InitSound
  <1>2. SoundRequests /\ RequestsKnowHome /\ [Next]_vars
          => SoundRequests' /\ RequestsKnowHome'
    BY StepSound, StepIsFinal
  <1>3. SoundRequests /\ RequestsKnowHome /\ [Next]_vars
          => [\A p \in PositionId :
                Closed(p) => /\ Closed(p)'
                             /\ LotsOf(p)' = LotsOf(p)
                             /\ TranchesOf(p)' = TranchesOf(p)]_vars
    <2>1. SoundRequests /\ RequestsKnowHome /\ [Next]_vars
            => (\A p \in PositionId : DeletedStays(p)) \/ UNCHANGED vars
      BY StepIsFinal, Zenon DEF FinalStep
    <2>2. QED
      BY <2>1, Zenon DEF DeletedStays
  <1>4. QED
    BY <1>1, <1>2, <1>3, PTL DEF Spec, DeletionIsFinal

-----------------------------------------------------------------------------
(* The total of a tranche *)

Exact(terms) ==
    terms.total > 0 /\ NearestSen(terms.total, terms.body.per * terms.body.shares)

TotalsExact == \A t \in TrancheId : tranches[t] # None => Exact(tranches[t].terms)

LEMMA RoundMyrIsNearest ==
    ASSUME NEW x \in Nat
    PROVE  NearestSen(RoundMyr(x), x)
  <1>1. PICK d : d = (x + 5000) \div 10000
    OBVIOUS
  <1>2. d \in Int /\ 10000 * d <= x + 5000 /\ x + 5000 < 10000 * d + 10000
    BY <1>1, SMTT(60)
  <1>3. RoundMyr(x) = d
    BY <1>1 DEF RoundMyr
  <1>4. 10000 * d - x \in Int /\ -4999 <= 10000 * d - x /\ 10000 * d - x <= 5000
    BY <1>2, SMTT(120)
  <1>5. 10000 * d - x \in -4999..5000
    BY <1>2, <1>4, SMTT(120)
  <1>6. NearestSen(d, x)
    BY <1>2, <1>5, SMTT(120) DEF NearestSen
  <1>7. QED
    BY <1>3, <1>6, Zenon

LEMMA TermsExact ==
    ASSUME NEW body \in DividendBody, Terms(body).total > 0
    PROVE  Exact(Terms(body))
  <1>1. body.per \in Nat /\ body.shares \in Nat
    BY PerShareAssumption, SharesAssumption DEF DividendBody
  <1>2. body.per * body.shares \in Nat
    BY <1>1, ProductType
  <1>3. NearestSen(RoundMyr(body.per * body.shares), body.per * body.shares)
    BY <1>2, RoundMyrIsNearest, Zenon
  <1>4. Terms(body).body = body /\ Terms(body).total = RoundMyr(body.per * body.shares)
    BY Zenon DEF Terms
  <1>5. QED
    BY <1>3, <1>4, Zenon DEF Exact

\* Whoever writes a tranche keeps its terms, or stores the terms of the
\* dividend it was sent.
LEMMA StepExact ==
    ASSUME SoundRequests, TotalsExact, [Next]_vars
    PROVE  TotalsExact'
  <1>1. TypeOK
    BY DEF SoundRequests
  <1>2. CASE UNCHANGED tranches
    BY <1>2 DEF TotalsExact
  <1>3. ASSUME NEW r \in Requests, CreateDividendCommit(r), ~UNCHANGED tranches
        PROVE  TotalsExact'
    <2>1. req[r] \in InCreateDividend
      BY <1>1, <1>3, RequestShapes DEF TypeOK, CreateDividendCommit, CreateDividendSteps
    <2>2. Terms(req[r].body).total > 0 => Exact(Terms(req[r].body))
      BY <2>1, TermsExact DEF InCreateDividend
    <2>3. PICK t \in TrancheId :
            /\ Terms(req[r].body).total > 0
            /\ tranches' = [tranches EXCEPT ![t] =
                              NewRow(req[r].position, Terms(req[r].body))]
      BY <1>3 DEF CreateDividendCommit
    <2>4. /\ tranches'[t] = NewRow(req[r].position, Terms(req[r].body))
          /\ \A k \in TrancheId \ {t} : tranches'[k] = tranches[k]
      BY <1>1, <2>3 DEF TypeOK
    <2>5. tranches'[t].terms = Terms(req[r].body)
      BY <2>4 DEF NewRow
    <2>6. QED
      BY <2>2, <2>3, <2>4, <2>5 DEF TotalsExact
  <1>4. ASSUME NEW r \in Requests, UpdateDividendCommit(r), ~UNCHANGED tranches
        PROVE  TotalsExact'
    <2>1. req[r] \in InUpdateDividend
      BY <1>1, <1>4, RequestShapes DEF TypeOK, UpdateDividendCommit, UpdateDividendSteps
    <2>2. Terms(req[r].body).total > 0 => Exact(Terms(req[r].body))
      BY <2>1, TermsExact DEF InUpdateDividend
    <2> DEFINE t == req[r].tranche
    <2>3. /\ Terms(req[r].body).total > 0
          /\ tranches' = [tranches EXCEPT ![t] = Edited(tranches[t], Terms(req[r].body))]
      BY <1>4 DEF UpdateDividendCommit
    <2>4. t \in TrancheId /\ tranches[t] \in TrancheRow
      <3>1. Sound(req[r], positions, lots, tranches)
        BY DEF SoundRequests
      <3>2. tranches[t] # None
        BY <1>4, <3>1 DEF Sound, Snapshot, UpdateDividendCommit, UpdateDividendSteps
      <3>3. QED
        BY <1>1, <2>1, <3>2 DEF TypeOK, InUpdateDividend
    <2>5. /\ tranches'[t] = Edited(tranches[t], Terms(req[r].body))
          /\ \A k \in TrancheId \ {t} : tranches'[k] = tranches[k]
      BY <1>1, <2>3, <2>4 DEF TypeOK
    <2>6. tranches'[t].terms = Terms(req[r].body)
      BY <2>4, <2>5 DEF Edited, TrancheRow
    <2>7. QED
      BY <2>2, <2>3, <2>5, <2>6 DEF TotalsExact
  <1>5. ASSUME NEW r \in Requests, DeletePositionCommit(r) \/ DeleteDividendCommit(r)
        PROVE  TotalsExact'
    <2>1. ASSUME NEW t \in TrancheId, tranches[t] # None
          PROVE  Gone(tranches[t]).terms = tranches[t].terms
      BY <1>1, <2>1 DEF TypeOK, Gone, TrancheRow
    <2>2. \A t \in TrancheId :
            tranches'[t] = tranches[t] \/ tranches'[t] = Gone(tranches[t])
      BY <1>1, <1>5 DEF TypeOK, DeletePositionCommit, SoftDelete, DeleteDividendCommit
    <2>3. \A t \in TrancheId : tranches'[t] # None => tranches[t] # None
      <3>1. SUFFICES ASSUME NEW t \in TrancheId, tranches[t] = None,
                            tranches'[t] # None
                     PROVE  FALSE
        OBVIOUS
      <3>2. CASE DeletePositionCommit(r)
        <4>1. req[r] \in InDeletePosition /\ Sound(req[r], positions, lots, tranches)
          BY <1>1, <3>2, RequestShapes
          DEF TypeOK, SoundRequests, DeletePositionCommit, DeletePositionSteps
        <4>2. t \notin req[r].tranches
          BY <3>1, <3>2, <4>1 DEF Sound, DeletePositionCommit, DeletePositionSteps
        <4>3. QED
          BY <1>1, <3>1, <3>2, <4>2 DEF TypeOK, DeletePositionCommit, SoftDelete
      <3>3. CASE DeleteDividendCommit(r)
        <4>1. Sound(req[r], positions, lots, tranches)
          BY DEF SoundRequests
        <4>2. t # req[r].tranche
          BY <3>1, <3>3, <4>1 DEF Sound, DeleteDividendCommit
        <4>3. QED
          BY <1>1, <3>1, <3>3, <4>2 DEF TypeOK, DeleteDividendCommit
      <3>4. QED
        BY <1>5, <3>2, <3>3
    <2>4. ASSUME NEW t \in TrancheId, tranches'[t] # None
          PROVE  Exact(tranches'[t].terms)
      <3>1. tranches'[t].terms = tranches[t].terms
        BY <2>1, <2>2, <2>3, <2>4
      <3>2. Exact(tranches[t].terms)
        BY <2>3, <2>4 DEF TotalsExact
      <3>3. QED
        BY <3>1, <3>2
    <2>5. QED
      BY <2>4 DEF TotalsExact
  <1>6. ASSUME NEW r \in Requests, Arrive(r) PROVE UNCHANGED tranches
    BY <1>6 DEF Arrive, CreatePositionFind, AddLotRead, UpdateLotBegin, DeleteLotBegin,
      DeletePositionRead, CreateDividendRead, UpdateDividendRead, DeleteDividendRead
  <1>7. ASSUME NEW r \in Requests, Proceed(r)
        PROVE  \/ UNCHANGED tranches
               \/ CreateDividendCommit(r) \/ UpdateDividendCommit(r)
               \/ DeletePositionCommit(r) \/ DeleteDividendCommit(r)
    BY <1>7 DEF Proceed, CreatePositionCommit, AddLotCommit, UpdateLotRead,
      UpdateLotCommit, DeleteLotRead, DeleteLotCount, DeleteLotCommit,
      DeletePositionLots, DeletePositionTranches, CreateDividendCheckShares,
      CreateDividendCheckYear, UpdateDividendCheckPosition, UpdateDividendCheckShares,
      UpdateDividendCheckYear
  <1>8. QED
    BY <1>2, <1>3, <1>4, <1>5, <1>6, <1>7 DEF Next, vars

\* The total of a dividend is its amount per share times its own shares, to
\* the nearest sen, whatever happens to lots and whoever edits it (BR-009).
THEOREM TotalStaysFrozen == Spec => []TotalIsFrozen
  <1>1. Init => TotalsExact
    BY DEF Init, TotalsExact
  <1>2. SoundRequests /\ TotalsExact /\ [Next]_vars => TotalsExact'
    BY StepExact
  <1>3. TotalsExact => TotalIsFrozen
    BY Zenon DEF TotalsExact, Exact, TotalIsFrozen
  <1>4. QED
    BY <1>1, <1>2, <1>3, RequestsStaySound, PTL DEF Spec
=============================================================================
