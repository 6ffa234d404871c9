----------------------- MODULE PortfolioRules_proofs -----------------------
(***************************************************************************)
(* Theorems about the audit log of the portfolio and the row locks of its  *)
(* cascade, with any number of overlapping requests; about the business    *)
(* rules, each where the overlap that breaks it does not happen; and that  *)
(* each table with its log implements JournaledTable.                      *)
(***************************************************************************)
EXTENDS PortfolioStore_proofs, FiniteSetTheorems

-----------------------------------------------------------------------------
(* What a step may do to a row and to its log *)

RowChange(old, new, log, log2, created, updated, deleted, orphan) ==
    \/ new = old /\ log2 = log
    \/ /\ old = None /\ new # None /\ new.version = 1 /\ ~new.deleted
       /\ \E e \in Event : /\ e.action = created /\ e.new = Carried(created, new.terms)
                         /\ log2 = Append(log, e)
    \/ /\ old # None /\ new # None
       /\ new.version = old.version + 1 /\ new.deleted = old.deleted
       /\ \E e \in Event :
            /\ e.action = updated /\ e.old = old.terms
            /\ e.new = Carried(updated, new.terms) /\ log2 = Append(log, e)
    \/ /\ old # None /\ new # None
       /\ new.version = old.version /\ new.terms = old.terms /\ new.deleted
       /\ \/ log2 = log /\ orphan
          \/ \E e \in Event : e.action = deleted /\ log2 = Append(log, e)

Story(log, row, created, updated) ==
    IF row = None THEN log = <<>> ELSE Explains(log, row, created, updated)

\* One more event, of any kind.
LEMMA AppendedLog ==
    ASSUME NEW log \in Seq(Event), NEW e \in Event, NEW created, NEW updated
    PROVE  /\ Len(Append(log, e)) = Len(log) + 1 /\ Len(log) \in Nat
           /\ \A i \in 1..Len(log) : Append(log, e)[i] = log[i]
           /\ Append(log, e)[Len(log) + 1] = e
           /\ Told(Append(log, e), created, updated) =
                IF e.action \in {created, updated}
                  THEN Told(log, created, updated) \cup {Len(log) + 1}
                  ELSE Told(log, created, updated)
  <1>1. /\ Len(Append(log, e)) = Len(log) + 1 /\ Len(log) \in Nat
        /\ \A i \in 1..Len(log) : Append(log, e)[i] = log[i]
        /\ Append(log, e)[Len(log) + 1] = e
    OBVIOUS
  <1>2. 1..(Len(log) + 1) = 1..Len(log) \cup {Len(log) + 1}
    BY <1>1
  <1>3. QED
    BY <1>1, <1>2 DEF Told

LEMMA ToldIsFinite ==
    ASSUME NEW log \in Seq(Event), NEW created, NEW updated
    PROVE  /\ IsFiniteSet(Told(log, created, updated))
           /\ Cardinality(Told(log, created, updated)) \in Nat
           /\ Len(log) + 1 \notin Told(log, created, updated)
           /\ Cardinality(Told(log, created, updated) \cup {Len(log) + 1})
                = Cardinality(Told(log, created, updated)) + 1
  <1>1. Len(log) \in Nat
    OBVIOUS
  <1>2. IsFiniteSet(1..Len(log))
    BY <1>1, FS_Interval
  <1>3. Told(log, created, updated) \subseteq 1..Len(log)
    BY DEF Told
  <1>4. IsFiniteSet(Told(log, created, updated))
    BY <1>2, <1>3, FS_Subset
  <1>5. Len(log) + 1 \notin Told(log, created, updated)
    BY <1>1, <1>3
  <1>6. QED
    BY <1>4, <1>5, FS_CardinalityType, FS_AddElement

LEMMA CreationExplained ==
    ASSUME NEW e \in Event, NEW created, NEW updated, e.action = created,
           NEW row, row.version = 1, e.new = Carried(created, row.terms)
    PROVE  Explains(Append(<<>>, e), row, created, updated)
  <1> DEFINE none == <<>>
             log == Append(none, e)
  <1>1. none \in Seq(Event) /\ Len(none) = 0
    OBVIOUS
  <1>2. Told(none, created, updated) = {}
    BY <1>1 DEF Told
  <1> HIDE DEF none
  <1>3. /\ log[Len(none) + 1] = e
        /\ Told(log, created, updated) = Told(none, created, updated) \cup {Len(none) + 1}
    BY <1>1, AppendedLog
  <1>4. Told(log, created, updated) = {1} /\ log[1] = e
    BY <1>1, <1>2, <1>3
  <1>5. Cardinality({1}) = 1
    BY FS_Singleton
  <1> HIDE DEF log
  <1>6. Explains(log, row, created, updated)
    BY <1>4, <1>5 DEF Explains
  <1>7. QED
    BY <1>6 DEF log, none

LEMMA EditExplained ==
    ASSUME NEW log \in Seq(Event), NEW e \in Event, NEW created, NEW updated,
           created # updated, e.action = updated,
           NEW old, NEW row, Explains(log, old, created, updated),
           e.old = old.terms, e.new = Carried(updated, row.terms),
           row.version = old.version + 1
    PROVE  Explains(Append(log, e), row, created, updated)
  <1> DEFINE n == Len(log) + 1
             told == Told(log, created, updated)
             log2 == Append(log, e)
  <1>1. /\ Told(log2, created, updated) = told \cup {n}
        /\ \A i \in told : log2[i] = log[i] /\ i \in Nat /\ i < n
        /\ log2[n] = e /\ n \in Nat /\ n \notin told
    BY AppendedLog, ToldIsFinite DEF Told
  <1>2. row.version = Cardinality(told \cup {n})
    BY ToldIsFinite DEF Explains
  <1>3. 1 \in told /\ \A i \in told : log[i].action = created <=> i = 1
    BY DEF Explains
  <1>4. \A i, j \in told : j < i /\ (\A k \in told : k <= j \/ i <= k) =>
          log[j].new = Carried(log[j].action, log[i].old)
    BY DEF Explains
  <1>5. \A i \in told : (\A k \in told : k <= i) =>
          log[i].new = Carried(log[i].action, old.terms)
    BY DEF Explains
  <1> HIDE DEF told, log2, n
  <1>6. \A i \in told \cup {n} : log2[i].action = created <=> i = 1
    BY <1>1, <1>3
  <1>7. ASSUME NEW i \in told \cup {n}, NEW j \in told \cup {n}, j < i,
               \A k \in told \cup {n} : k <= j \/ i <= k
        PROVE  log2[j].new = Carried(log2[j].action, log2[i].old)
    <2>1. j \in told
      BY <1>1, <1>7
    <2>2. CASE i = n
      <3>1. \A k \in told : k <= j
        BY <1>1, <1>7, <2>2
      <3>2. QED
        BY <1>1, <1>5, <2>1, <2>2, <3>1
    <2>3. CASE i \in told
      BY <1>1, <1>4, <1>7, <2>1, <2>3
    <2>4. QED
      BY <2>2, <2>3
  <1>8. \A i \in told \cup {n} : (\A k \in told \cup {n} : k <= i) =>
          log2[i].new = Carried(log2[i].action, row.terms)
    BY <1>1
  <1>9. QED
    BY <1>1, <1>2, <1>3, <1>6, <1>7, <1>8 DEF Explains, log2

LEMMA DeletionExplained ==
    ASSUME NEW log \in Seq(Event), NEW e \in Event, NEW created, NEW updated,
           e.action \notin {created, updated},
           NEW old, NEW row, Explains(log, old, created, updated),
           row.terms = old.terms, row.version = old.version
    PROVE  Explains(Append(log, e), row, created, updated)
  <1> DEFINE log2 == Append(log, e)
  <1>1. /\ Told(log2, created, updated) = Told(log, created, updated)
        /\ \A i \in Told(log, created, updated) : log2[i] = log[i]
    BY AppendedLog DEF Told
  <1> HIDE DEF log2
  <1>2. Explains(log2, row, created, updated)
    BY <1>1 DEF Explains
  <1>3. QED
    BY <1>2 DEF log2

LEMMA ChangeExplained ==
    ASSUME NEW log \in Seq(Event), NEW log2, NEW old, NEW new,
           NEW created, NEW updated, NEW deleted, NEW orphan,
           created # updated, deleted \notin {created, updated},
           RowChange(old, new, log, log2, created, updated, deleted, orphan),
           Story(log, old, created, updated)
    PROVE  Story(log2, new, created, updated)
  <1>1. CASE new = old /\ log2 = log
    BY <1>1
  <1>2. ASSUME old = None, new # None, new.version = 1,
               NEW e \in Event, e.action = created, e.new = Carried(created, new.terms),
               log2 = Append(log, e)
        PROVE  Story(log2, new, created, updated)
    BY <1>2, CreationExplained DEF Story
  <1>3. ASSUME old # None, new # None, new.version = old.version + 1,
               NEW e \in Event, e.action = updated, e.old = old.terms,
               e.new = Carried(updated, new.terms),
               log2 = Append(log, e)
        PROVE  Story(log2, new, created, updated)
    BY <1>3, EditExplained DEF Story
  <1>4. ASSUME old # None, new # None, new.version = old.version, new.terms = old.terms
        PROVE  /\ log2 = log => Story(log2, new, created, updated)
               /\ \A e \in Event : e.action = deleted /\ log2 = Append(log, e) =>
                    Story(log2, new, created, updated)
    <2>1. Explains(log, old, created, updated)
      BY <1>4 DEF Story
    <2>2. Explains(log, new, created, updated)
      BY <1>4, <2>1 DEF Explains
    <2>3. QED
      BY <1>4, <2>1, <2>2, DeletionExplained DEF Story
  <1>5. QED
    BY <1>1, <1>2, <1>3, <1>4 DEF RowChange

\* A deletion is logged, or explained by the deletion of the position.
Explained(log, row, deleted, orphan) ==
    row # None =>
        /\ (\E i \in 1..Len(log) : log[i].action = deleted) => row.deleted
        /\ row.deleted => orphan \/ \E i \in 1..Len(log) : log[i].action = deleted

LEMMA DeletionStaysExplained ==
    ASSUME NEW log \in Seq(Event), NEW log2, NEW old, NEW new,
           NEW created, NEW updated, NEW deleted, NEW orphan, NEW orphan2,
           deleted \notin {created, updated}, old # None /\ orphan => orphan2,
           RowChange(old, new, log, log2, created, updated, deleted, orphan2),
           old = None => log = <<>>,
           Explained(log, old, deleted, orphan)
    PROVE  Explained(log2, new, deleted, orphan2)
  <1>1. ASSUME NEW e \in Event, log2 = Append(log, e)
        PROVE  (\E i \in 1..Len(log2) : log2[i].action = deleted)
                 <=> e.action = deleted \/ \E i \in 1..Len(log) : log[i].action = deleted
    <2>1. 1..Len(log2) = 1..Len(log) \cup {Len(log) + 1}
      BY <1>1, AppendedLog
    <2>2. QED
      BY <1>1, <2>1, AppendedLog
  <1>2. CASE new = old /\ log2 = log
    BY <1>2 DEF Explained
  <1>3. ASSUME old = None, new # None, ~new.deleted,
               NEW e \in Event, e.action = created, log2 = Append(log, e)
        PROVE  Explained(log2, new, deleted, orphan2)
    BY <1>1, <1>3 DEF Explained
  <1>4. ASSUME old # None, new # None, new.deleted = old.deleted,
               NEW e \in Event, e.action = updated, log2 = Append(log, e)
        PROVE  Explained(log2, new, deleted, orphan2)
    BY <1>1, <1>4 DEF Explained
  <1>5. ASSUME old # None, new # None, new.deleted, log2 = log, orphan2
        PROVE  Explained(log2, new, deleted, orphan2)
    BY <1>5 DEF Explained
  <1>6. ASSUME old # None, new # None, new.deleted,
               NEW e \in Event, e.action = deleted, log2 = Append(log, e)
        PROVE  Explained(log2, new, deleted, orphan2)
    BY <1>1, <1>6 DEF Explained
  <1>7. QED
    BY <1>2, <1>3, <1>4, <1>5, <1>6 DEF RowChange

-----------------------------------------------------------------------------
(* What each write does to the rows and to the log *)

Entities == PositionId \cup LotId \cup TrancheId

\* The position of a lot or tranche has been deleted when the step is done.
OrphanAfter(row) == positions'[row.position].deleted

LotChange(l) ==
    RowChange(lots[l], lots'[l], audit[l], audit'[l],
              "LOT_CREATED", "LOT_UPDATED", "LOT_DELETED", OrphanAfter(lots'[l]))

TrancheChange(t) ==
    RowChange(tranches[t], tranches'[t], audit[t], audit'[t],
              "DIVIDEND_CREATED", "DIVIDEND_UPDATED", "DIVIDEND_DELETED",
              OrphanAfter(tranches'[t]))

PositionChange(p) ==
    \/ positions'[p] = positions[p] /\ audit'[p] = audit[p]
    \/ /\ positions[p] = None /\ positions'[p] # None /\ ~positions'[p].deleted
       /\ audit'[p] = audit[p]
    \/ /\ positions[p] # None /\ positions'[p] # None /\ positions'[p].deleted
       /\ \E e \in Event :
            e.action = "POSITION_DELETED" /\ audit'[p] = Append(audit[p], e)

Chronicled ==
    /\ \A l \in LotId : LotChange(l)
    /\ \A t \in TrancheId : TrancheChange(t)
    /\ \A p \in PositionId : PositionChange(p)

\* record_audit_event adds one event to one entity.
LEMMA RecordIsLocal ==
    ASSUME TypeOK, NEW e \in Entities, NEW action \in Actions,
           NEW old \in Metadata, NEW new \in Metadata, Record(e, action, old, new)
    PROVE  /\ \E ev \in Event : /\ ev.action = action /\ ev.old = old /\ ev.new = new
                               /\ audit'[e] = Append(audit[e], ev)
           /\ \A k \in Entities : k # e => audit'[k] = audit[k]
  <1> DEFINE ev == [action |-> action, old |-> old, new |-> new]
  <1>1. ev \in Event /\ ev.action = action /\ ev.old = old /\ ev.new = new
    BY DEF Event
  <1>2. audit' = [audit EXCEPT ![e] = Append(@, ev)]
    BY DEF Record
  <1> HIDE DEF ev
  <1>3. audit'[e] = Append(audit[e], ev) /\ \A k \in Entities : k # e => audit'[k] = audit[k]
    BY <1>2 DEF TypeOK, Entities
  <1>4. QED
    BY <1>1, <1>3

LEMMA GoneRow ==
    ASSUME NEW row \in LotRow \cup TrancheRow
    PROVE  /\ Gone(row).deleted /\ Gone(row).terms = row.terms
           /\ Gone(row).version = row.version /\ Gone(row).position = row.position
  BY DEF LotRow, TrancheRow, Gone

LEMMA EditedRow ==
    ASSUME NEW row \in LotRow \cup TrancheRow, NEW terms
    PROVE  /\ Edited(row, terms).version = row.version + 1
           /\ Edited(row, terms).terms = terms
           /\ Edited(row, terms).deleted = row.deleted
           /\ Edited(row, terms).position = row.position
  BY DEF LotRow, TrancheRow, Edited

\* A row that was marked deleted with its event changed as the log says.
LEMMA RowGone ==
    ASSUME NEW old, NEW new, NEW log, NEW log2,
           NEW created, NEW updated, NEW deleted, NEW orphan,
           old # None, new # None, new.version = old.version, new.terms = old.terms, new.deleted,
           \E e \in Event : e.action = deleted /\ log2 = Append(log, e)
    PROVE  RowChange(old, new, log, log2, created, updated, deleted, orphan)
  BY Zenon DEF RowChange

\* What the log may hold.
LEMMA LogTypes ==
    /\ LotId \subseteq Entities /\ TrancheId \subseteq Entities
    /\ {"LOT_UPDATED", "LOT_DELETED", "DIVIDEND_UPDATED", "DIVIDEND_DELETED"} \subseteq Actions
    /\ None \in Metadata /\ LotTerms \subseteq Metadata /\ TrancheTerms \subseteq Metadata
  BY DEF Entities, Actions, Metadata

LEMMA LotsUnchanged ==
    ASSUME UNCHANGED lots, \A l \in LotId : audit'[l] = audit[l]
    PROVE  \A l \in LotId : LotChange(l)
  BY DEF LotChange, RowChange

LEMMA TranchesUnchanged ==
    ASSUME UNCHANGED tranches, \A t \in TrancheId : audit'[t] = audit[t]
    PROVE  \A t \in TrancheId : TrancheChange(t)
  BY DEF TrancheChange, RowChange

LEMMA PositionsUnchanged ==
    ASSUME UNCHANGED positions, \A p \in PositionId : audit'[p] = audit[p]
    PROVE  \A p \in PositionId : PositionChange(p)
  BY DEF PositionChange

LEMMA NothingWritten ==
    ASSUME UNCHANGED Tables
    PROVE  Chronicled
  BY LotsUnchanged, TranchesUnchanged, PositionsUnchanged DEF Chronicled, Tables

\* A write to one lot and to its log.
LEMMA OneLot ==
    ASSUME TypeOK, UNCHANGED tranches, NEW l \in LotId, LotChange(l),
           \A k \in LotId : k # l => lots'[k] = lots[k],
           \A k \in Entities : k # l => audit'[k] = audit[k]
    PROVE  /\ \A k \in LotId : LotChange(k)
           /\ \A t \in TrancheId : TrancheChange(t)
           /\ \A p \in PositionId : audit'[p] = audit[p]
  <1>1. \A k \in LotId : LotChange(k)
    <2>1. ASSUME NEW k \in LotId, k # l PROVE LotChange(k)
      BY <2>1, LogTypes, Zenon DEF LotChange, RowChange
    <2>2. QED
      BY <2>1
  <1>2. /\ \A t \in TrancheId : audit'[t] = audit[t]
        /\ \A p \in PositionId : audit'[p] = audit[p]
    BY KeysAssumption DEF Entities
  <1>3. QED
    BY <1>1, <1>2, TranchesUnchanged

LEMMA OneTranche ==
    ASSUME TypeOK, UNCHANGED <<positions, lots>>, NEW t \in TrancheId, TrancheChange(t),
           \A k \in TrancheId : k # t => tranches'[k] = tranches[k],
           \A k \in Entities : k # t => audit'[k] = audit[k]
    PROVE  Chronicled
  <1>1. \A k \in TrancheId : TrancheChange(k)
    <2>1. ASSUME NEW k \in TrancheId, k # t PROVE TrancheChange(k)
      BY <2>1, LogTypes, Zenon DEF TrancheChange, RowChange
    <2>2. QED
      BY <2>1
  <1>2. /\ \A l \in LotId : audit'[l] = audit[l]
        /\ \A p \in PositionId : audit'[p] = audit[p]
    BY KeysAssumption DEF Entities
  <1>3. QED
    BY <1>1, <1>2, LotsUnchanged, PositionsUnchanged DEF Chronicled

LEMMA InsertLotChronicled ==
    ASSUME TypeOK, UNCHANGED tranches,
           NEW p \in PositionId, NEW terms \in LotTerms, InsertLot(p, terms)
    PROVE  /\ \A k \in LotId : LotChange(k)
           /\ \A t \in TrancheId : TrancheChange(t)
           /\ \A q \in PositionId : audit'[q] = audit[q]
  <1>1. PICK l \in LotId : /\ lots[l] = None
                           /\ lots' = [lots EXCEPT ![l] = NewRow(p, terms)]
                           /\ Record(l, "LOT_CREATED", None, Carried("LOT_CREATED", terms))
    BY DEF InsertLot
  <1>2. /\ lots'[l] = NewRow(p, terms)
        /\ \A k \in LotId : k # l => lots'[k] = lots[k]
    BY <1>1 DEF TypeOK
  <1>3. /\ lots'[l] # None /\ lots'[l].version = 1 /\ ~lots'[l].deleted
        /\ lots'[l].terms = terms
    <2>1. NewRow(p, terms) \in LotRow
      BY BoundsAssumption DEF LotRow, NewRow
    <2>2. NewRow(p, terms) # None
      BY <2>1, NoneAssumption
    <2>3. QED
      BY <1>2, <2>2 DEF NewRow
  <1>4. /\ \E e \in Event : /\ e.action = "LOT_CREATED" /\ e.new = Carried("LOT_CREATED", terms)
                           /\ audit'[l] = Append(audit[l], e)
        /\ \A k \in Entities : k # l => audit'[k] = audit[k]
    <2>1. /\ l \in Entities /\ "LOT_CREATED" \in Actions
          /\ None \in Metadata /\ Carried("LOT_CREATED", terms) \in Metadata
      BY CarriedTyped, NothingTold DEF Entities, Actions
    <2>2. QED
      BY <1>1, <2>1, RecordIsLocal
  <1>5. LotChange(l)
    BY <1>1, <1>3, <1>4 DEF LotChange, RowChange
  <1>6. QED
    BY <1>2, <1>4, <1>5, OneLot

LEMMA CreatePositionChronicled ==
    ASSUME SoundRequests, NEW r \in Requests, CreatePositionCommit(r)
    PROVE  Chronicled
  <1>1. TypeOK /\ UNCHANGED tranches
    BY DEF SoundRequests, CreatePositionCommit
  <1>2. req[r] \in InCreatePosition
    BY <1>1, RequestShapes DEF TypeOK, CreatePositionCommit
  <1>3. req[r].terms \in LotTerms
    BY <1>2 DEF InCreatePosition
  <1>4. ASSUME req[r].position # None, InsertLot(req[r].position, req[r].terms),
               UNCHANGED positions
        PROVE  Chronicled
    <2>1. req[r].position \in PositionId
      BY <1>2, <1>4 DEF InCreatePosition
    <2>2. QED
      BY <1>1, <1>3, <1>4, <2>1, InsertLotChronicled, PositionsUnchanged DEF Chronicled
  <1>5. ASSUME NEW p \in PositionId, positions[p] = None,
               positions' = [positions EXCEPT ![p] =
                   [portfolio |-> req[r].portfolio, stock |-> req[r].stock,
                    deleted |-> FALSE]],
               InsertLot(p, req[r].terms)
        PROVE  Chronicled
    <2>1. [portfolio |-> req[r].portfolio, stock |-> req[r].stock,
           deleted |-> FALSE] \in PositionRow
      BY <1>2 DEF InCreatePosition, PositionRow
    <2>2. /\ positions'[p] # None /\ ~positions'[p].deleted
          /\ \A q \in PositionId : q # p => positions'[q] = positions[q]
      BY <1>1, <1>5, <2>1, NoneAssumption DEF TypeOK
    <2>3. /\ \A k \in LotId : LotChange(k)
          /\ \A t \in TrancheId : TrancheChange(t)
          /\ \A q \in PositionId : audit'[q] = audit[q]
      BY <1>1, <1>3, <1>5, InsertLotChronicled
    <2>4. \A q \in PositionId : PositionChange(q)
      BY <1>5, <2>2, <2>3 DEF PositionChange
    <2>5. QED
      BY <2>3, <2>4 DEF Chronicled
  <1>6. QED
    BY <1>4, <1>5 DEF CreatePositionCommit

LEMMA AddLotChronicled ==
    ASSUME SoundRequests, NEW r \in Requests, AddLotCommit(r)
    PROVE  Chronicled
  <1>1. TypeOK /\ UNCHANGED <<positions, tranches>>
    BY DEF SoundRequests, AddLotCommit
  <1>2. req[r].position \in PositionId /\ req[r].terms \in LotTerms
    BY <1>1, RequestShapes DEF TypeOK, AddLotCommit, InAddLot
  <1>3. InsertLot(req[r].position, req[r].terms)
    BY DEF AddLotCommit
  <1>4. QED
    BY <1>1, <1>2, <1>3, InsertLotChronicled, PositionsUnchanged DEF Chronicled

\* While the version stands, the terms are those the request has seen.
LEMMA UpdateLotChronicled ==
    ASSUME SoundRequests, NEW r \in Requests, UpdateLotCommit(r)
    PROVE  Chronicled
  <1> DEFINE l == req[r].lot
  <1>1. TypeOK /\ UNCHANGED <<positions, tranches>>
    BY DEF SoundRequests, UpdateLotCommit
  <1>2. req[r] \in InUpdateLot
    BY <1>1, RequestShapes DEF TypeOK, UpdateLotCommit
  <1>3. /\ l \in LotId /\ req[r].terms \in LotTerms /\ req[r].seen \in LotRow
        /\ req[r].version \in Int
    BY <1>2 DEF InUpdateLot
  <1>4. Snapshot(lots[l], req[r])
    BY DEF SoundRequests, Sound, UpdateLotCommit
  <1>5. lots[l] # None /\ lots[l] \in LotRow
    BY <1>1, <1>3, <1>4 DEF Snapshot, TypeOK
  <1>6. ASSUME VersionMatches(lots[l], req[r].version),
               lots' = [lots EXCEPT ![l] = Edited(@, req[r].terms)],
               Record(l, "LOT_UPDATED", Carried("LOT_UPDATED", req[r].seen.terms),
                      Carried("LOT_UPDATED", req[r].terms))
        PROVE  Chronicled
    <2>1. req[r].seen.terms = lots[l].terms
      <3>1. req[r].seen.version \in Int /\ lots[l].version \in Int
        BY <1>3, <1>5 DEF LotRow
      <3>2. QED
        BY <1>3, <1>4, <1>6, <3>1 DEF Snapshot, VersionMatches
    <2>2. /\ lots'[l] = Edited(lots[l], req[r].terms)
          /\ \A k \in LotId : k # l => lots'[k] = lots[k]
      BY <1>1, <1>3, <1>6 DEF TypeOK
    <2>3. lots'[l] # None
      BY <1>3, <1>5, UpdateLotKeeps DEF RowsKept
    <2>4. req[r].seen.terms \in LotTerms
      BY <1>3 DEF LotRow
    <2>5. /\ \E e \in Event : /\ e.action = "LOT_UPDATED" /\ e.old = req[r].seen.terms
                             /\ e.new = Carried("LOT_UPDATED", req[r].terms)
                             /\ audit'[l] = Append(audit[l], e)
          /\ \A k \in Entities : k # l => audit'[k] = audit[k]
      <3>1. /\ l \in Entities /\ "LOT_UPDATED" \in Actions
            /\ Carried("LOT_UPDATED", req[r].seen.terms) = req[r].seen.terms
            /\ req[r].seen.terms \in Metadata
            /\ Carried("LOT_UPDATED", req[r].terms) \in Metadata
        BY <1>3, <2>4, LogTypes, CarriedTyped
      <3>2. QED
        BY <1>1, <1>6, <3>1, RecordIsLocal
    <2>6. LotChange(l)
      <3>1. /\ lots'[l].version = lots[l].version + 1 /\ lots'[l].deleted = lots[l].deleted
            /\ lots'[l].terms = req[r].terms
        BY <1>5, <2>2, EditedRow
      <3>2. QED
        BY <1>5, <2>1, <2>3, <2>5, <3>1, Zenon DEF LotChange, RowChange
    <2>7. QED
      BY <1>1, <1>3, <2>2, <2>5, <2>6, OneLot, PositionsUnchanged DEF Chronicled
  <1>7. ASSUME UNCHANGED <<lots, audit>> PROVE Chronicled
    BY <1>1, <1>7, NothingWritten DEF Tables
  <1>8. QED
    BY <1>6, <1>7 DEF UpdateLotCommit

LEMMA DeleteLotChronicled ==
    ASSUME SoundRequests, NEW r \in Requests, DeleteLotCommit(r)
    PROVE  Chronicled
  <1> DEFINE l == req[r].lot
  <1>1. TypeOK /\ UNCHANGED <<positions, tranches>>
    BY DEF SoundRequests, DeleteLotCommit
  <1>2. req[r] \in InDeleteLot
    BY <1>1, RequestShapes DEF TypeOK, DeleteLotCommit
  <1>3. l \in LotId /\ req[r].seen.terms \in LotTerms
    BY <1>2 DEF InDeleteLot, LotRow
  <1>4. lots[l] # None /\ lots[l] \in LotRow
    BY <1>1, <1>3 DEF SoundRequests, Sound, DeleteLotCommit, TypeOK
  <1>5. /\ lots'[l] = Gone(lots[l])
        /\ \A k \in LotId : k # l => lots'[k] = lots[k]
    BY <1>1, <1>3 DEF TypeOK, DeleteLotCommit
  <1>6. lots'[l] # None
    BY <1>3, <1>4, DeleteLotKeeps DEF RowsKept
  <1>7. /\ \E e \in Event : e.action = "LOT_DELETED" /\ audit'[l] = Append(audit[l], e)
        /\ \A k \in Entities : k # l => audit'[k] = audit[k]
    <2>1. /\ l \in Entities /\ "LOT_DELETED" \in Actions
          /\ Carried("LOT_DELETED", req[r].seen.terms) \in Metadata /\ None \in Metadata
      BY <1>3, LogTypes, CarriedTyped
    <2>2. Record(l, "LOT_DELETED", Carried("LOT_DELETED", req[r].seen.terms), None)
      BY DEF DeleteLotCommit
    <2>3. QED
      BY <1>1, <2>1, <2>2, RecordIsLocal
  <1>8. LotChange(l)
    <2>1. /\ lots'[l].deleted /\ lots'[l].terms = lots[l].terms
          /\ lots'[l].version = lots[l].version
      BY <1>4, <1>5, GoneRow
    <2>2. QED
      BY <1>4, <1>6, <1>7, <2>1, RowGone, Zenon DEF LotChange
  <1>9. QED
    BY <1>1, <1>3, <1>5, <1>7, <1>8, OneLot, PositionsUnchanged DEF Chronicled

LEMMA CreateDividendChronicled ==
    ASSUME SoundRequests, NEW r \in Requests, CreateDividendCommit(r)
    PROVE  Chronicled
  <1> DEFINE terms == Terms(req[r].body)
  <1>1. TypeOK /\ UNCHANGED <<positions, lots>>
    BY DEF SoundRequests, CreateDividendCommit
  <1>2. req[r] \in InCreateDividend
    BY <1>1, RequestShapes DEF TypeOK, CreateDividendCommit, CreateDividendSteps
  <1>3. req[r].position \in PositionId /\ terms \in TrancheTerms
    BY <1>2, TermsType DEF InCreateDividend
  <1>4. ASSUME NEW t \in TrancheId, tranches[t] = None,
               tranches' = [tranches EXCEPT ![t] = NewRow(req[r].position, terms)],
               Record(t, "DIVIDEND_CREATED", None, Carried("DIVIDEND_CREATED", terms))
        PROVE  Chronicled
    <2> HIDE DEF terms
    <2>1. /\ tranches'[t] = NewRow(req[r].position, terms)
          /\ \A k \in TrancheId : k # t => tranches'[k] = tranches[k]
      BY <1>1, <1>4 DEF TypeOK
    <2>2. /\ tranches'[t] # None /\ tranches'[t].version = 1 /\ ~tranches'[t].deleted
          /\ tranches'[t].terms = terms
      <3>1. NewRow(req[r].position, terms) \in TrancheRow
        BY <1>3, BoundsAssumption DEF TrancheRow, NewRow
      <3>2. NewRow(req[r].position, terms) # None
        BY <3>1, NoneAssumption
      <3>3. QED
        BY <2>1, <3>2 DEF NewRow
    <2>3. /\ \E e \in Event : /\ e.action = "DIVIDEND_CREATED"
                             /\ e.new = Carried("DIVIDEND_CREATED", terms)
                             /\ audit'[t] = Append(audit[t], e)
          /\ \A k \in Entities : k # t => audit'[k] = audit[k]
      <3>1. /\ t \in Entities /\ "DIVIDEND_CREATED" \in Actions
            /\ None \in Metadata /\ Carried("DIVIDEND_CREATED", terms) \in Metadata
        BY <1>3, CarriedTyped, NothingTold DEF Entities, Actions
      <3>2. QED
        BY <1>1, <1>4, <3>1, RecordIsLocal
    <2>4. TrancheChange(t)
      BY <1>4, <2>2, <2>3 DEF TrancheChange, RowChange
    <2>5. QED
      BY <1>1, <2>1, <2>3, <2>4, OneTranche
  <1>5. ASSUME UNCHANGED <<tranches, audit>> PROVE Chronicled
    BY <1>1, <1>5, NothingWritten DEF Tables
  <1>6. QED
    BY <1>4, <1>5 DEF CreateDividendCommit

LEMMA UpdateDividendChronicled ==
    ASSUME SoundRequests, NEW r \in Requests, UpdateDividendCommit(r)
    PROVE  Chronicled
  <1> DEFINE t == req[r].tranche
             terms == Terms(req[r].body)
  <1>1. TypeOK /\ UNCHANGED <<positions, lots>>
    BY DEF SoundRequests, UpdateDividendCommit
  <1>2. req[r] \in InUpdateDividend /\ req[r].at \in UpdateDividendSteps
    BY <1>1, RequestShapes DEF TypeOK, UpdateDividendCommit, UpdateDividendSteps
  <1>3. /\ t \in TrancheId /\ terms \in TrancheTerms /\ req[r].seen \in TrancheRow
        /\ req[r].version \in Int
    BY <1>2, TermsType DEF InUpdateDividend
  <1>4. Snapshot(tranches[t], req[r])
    BY <1>2 DEF SoundRequests, Sound
  <1>5. tranches[t] # None /\ tranches[t] \in TrancheRow
    BY <1>1, <1>3, <1>4 DEF Snapshot, TypeOK
  <1>6. ASSUME VersionMatches(tranches[t], req[r].version),
               tranches' = [tranches EXCEPT ![t] = Edited(@, terms)],
               Record(t, "DIVIDEND_UPDATED", Carried("DIVIDEND_UPDATED", req[r].seen.terms),
                      Carried("DIVIDEND_UPDATED", terms))
        PROVE  Chronicled
    <2> HIDE DEF terms
    <2>1. req[r].seen.terms = tranches[t].terms
      <3>1. req[r].seen.version \in Int /\ tranches[t].version \in Int
        BY <1>3, <1>5 DEF TrancheRow
      <3>2. QED
        BY <1>3, <1>4, <1>6, <3>1 DEF Snapshot, VersionMatches
    <2>2. /\ tranches'[t] = Edited(tranches[t], terms)
          /\ \A k \in TrancheId : k # t => tranches'[k] = tranches[k]
      BY <1>1, <1>3, <1>6 DEF TypeOK
    <2>3. tranches'[t] # None
      BY <1>3, <1>5, UpdateDividendKeeps DEF RowsKept
    <2>4. req[r].seen.terms \in TrancheTerms
      BY <1>3 DEF TrancheRow
    <2>5. /\ \E e \in Event : /\ e.action = "DIVIDEND_UPDATED" /\ e.old = req[r].seen.terms
                             /\ e.new = Carried("DIVIDEND_UPDATED", terms)
                             /\ audit'[t] = Append(audit[t], e)
          /\ \A k \in Entities : k # t => audit'[k] = audit[k]
      <3>1. /\ t \in Entities /\ "DIVIDEND_UPDATED" \in Actions
            /\ Carried("DIVIDEND_UPDATED", req[r].seen.terms) = req[r].seen.terms
            /\ req[r].seen.terms \in Metadata
            /\ Carried("DIVIDEND_UPDATED", terms) \in Metadata
        BY <1>3, <2>4, LogTypes, CarriedTyped
      <3>2. QED
        BY <1>1, <1>6, <3>1, RecordIsLocal
    <2>6. TrancheChange(t)
      <3>1. /\ tranches'[t].version = tranches[t].version + 1
            /\ tranches'[t].deleted = tranches[t].deleted /\ tranches'[t].terms = terms
        BY <1>5, <2>2, EditedRow
      <3>2. QED
        BY <1>5, <2>1, <2>3, <2>5, <3>1, Zenon DEF TrancheChange, RowChange
    <2>7. QED
      BY <1>1, <1>3, <2>2, <2>5, <2>6, OneTranche
  <1>7. ASSUME UNCHANGED <<tranches, audit>> PROVE Chronicled
    BY <1>1, <1>7, NothingWritten DEF Tables
  <1>8. QED
    BY <1>6, <1>7 DEF UpdateDividendCommit

LEMMA DeleteDividendChronicled ==
    ASSUME SoundRequests, NEW r \in Requests, DeleteDividendCommit(r)
    PROVE  Chronicled
  <1> DEFINE t == req[r].tranche
  <1>1. TypeOK /\ UNCHANGED <<positions, lots>>
    BY DEF SoundRequests, DeleteDividendCommit
  <1>2. req[r] \in InDeleteDividend
    BY <1>1, RequestShapes DEF TypeOK, DeleteDividendCommit
  <1>3. t \in TrancheId /\ req[r].seen.terms \in TrancheTerms
    BY <1>2 DEF InDeleteDividend, TrancheRow
  <1>4. tranches[t] # None /\ tranches[t] \in TrancheRow
    BY <1>1, <1>3 DEF SoundRequests, Sound, DeleteDividendCommit, TypeOK
  <1>5. /\ tranches'[t] = Gone(tranches[t])
        /\ \A k \in TrancheId : k # t => tranches'[k] = tranches[k]
    BY <1>1, <1>3 DEF TypeOK, DeleteDividendCommit
  <1>6. tranches'[t] # None
    BY <1>3, <1>4, DeleteDividendKeeps DEF RowsKept
  <1>7. /\ \E e \in Event : e.action = "DIVIDEND_DELETED" /\ audit'[t] = Append(audit[t], e)
        /\ \A k \in Entities : k # t => audit'[k] = audit[k]
    <2>1. /\ t \in Entities /\ "DIVIDEND_DELETED" \in Actions
          /\ Carried("DIVIDEND_DELETED", req[r].seen.terms) \in Metadata /\ None \in Metadata
      BY <1>3, LogTypes, CarriedTyped
    <2>2. Record(t, "DIVIDEND_DELETED", Carried("DIVIDEND_DELETED", req[r].seen.terms), None)
      BY DEF DeleteDividendCommit
    <2>3. QED
      BY <1>1, <2>1, <2>2, RecordIsLocal
  <1>8. TrancheChange(t)
    <2>1. /\ tranches'[t].deleted /\ tranches'[t].terms = tranches[t].terms
          /\ tranches'[t].version = tranches[t].version
      BY <1>4, <1>5, GoneRow
    <2>2. QED
      BY <1>4, <1>6, <1>7, <2>1, RowGone, Zenon DEF TrancheChange
  <1>9. QED
    BY <1>1, <1>3, <1>5, <1>7, <1>8, OneTranche

\* The cascade: no event per child, but the children's position is deleted.
LEMMA DeletePositionChronicled ==
    ASSUME SoundRequests, RequestsKnowHome, NEW r \in Requests, DeletePositionCommit(r)
    PROVE  Chronicled
  <1> DEFINE p == req[r].position
  <1>1. TypeOK
    BY DEF SoundRequests
  <1>2. req[r] \in InDeletePosition /\ req[r].at \in DeletePositionSteps
    BY <1>1, RequestShapes DEF TypeOK, DeletePositionCommit, DeletePositionSteps
  <1>3. p \in PositionId
    BY <1>2 DEF InDeletePosition
  <1>4. RowsKept
    BY DeletePositionKeeps
  <1>5. /\ positions[p] # None /\ positions[p] \in PositionRow
        /\ \A l \in req[r].lots :
             l \in LotId /\ lots[l] # None /\ lots[l].position = p
        /\ \A t \in req[r].tranches :
             t \in TrancheId /\ tranches[t] # None /\ tranches[t].position = p
    BY <1>1, <1>2, <1>3
    DEF SoundRequests, Sound, RequestsKnowHome, Homed, InDeletePosition, TypeOK
  <1>6. /\ positions'[p] = Gone(positions[p])
        /\ \A q \in PositionId : q # p => positions'[q] = positions[q]
    BY <1>1, <1>3 DEF TypeOK, DeletePositionCommit
  <1>7. positions'[p] # None /\ positions'[p].deleted
    BY <1>3, <1>4, <1>5, <1>6 DEF RowsKept, Gone, PositionRow
  <1>8. /\ \E e \in Event :
             e.action = "POSITION_DELETED" /\ audit'[p] = Append(audit[p], e)
        /\ \A k \in Entities : k # p => audit'[k] = audit[k]
    <2>1. p \in Entities /\ "POSITION_DELETED" \in Actions /\ None \in Metadata
      BY <1>3 DEF Entities, Actions, Metadata
    <2>2. Record(p, "POSITION_DELETED", None, None)
      BY DEF DeletePositionCommit
    <2>3. QED
      BY <1>1, <2>1, <2>2, RecordIsLocal
  <1>9. \A q \in PositionId : PositionChange(q)
    BY <1>5, <1>6, <1>7, <1>8 DEF PositionChange, Entities
  <1>10. ASSUME NEW l \in LotId PROVE LotChange(l)
    <2>1. audit'[l] = audit[l]
      BY <1>3, <1>8, KeysAssumption DEF Entities
    <2>2. lots'[l] = IF l \in req[r].lots THEN Gone(lots[l]) ELSE lots[l]
      BY <1>1 DEF TypeOK, DeletePositionCommit, SoftDelete
    <2>3. CASE l \notin req[r].lots
      BY <2>1, <2>2, <2>3 DEF LotChange, RowChange
    <2>4. CASE l \in req[r].lots
      <3>1. lots[l] \in LotRow /\ lots[l] # None /\ lots'[l] # None
        BY <1>1, <1>4, <1>5, <2>4 DEF TypeOK, RowsKept
      <3>2. OrphanAfter(lots'[l])
        BY <1>5, <1>7, <2>2, <2>4, <3>1, GoneRow DEF OrphanAfter
      <3>3. /\ lots'[l].version = lots[l].version /\ lots'[l].terms = lots[l].terms
            /\ lots'[l].deleted
        BY <2>2, <2>4, <3>1, GoneRow
      <3>4. QED
        BY <2>1, <3>1, <3>2, <3>3 DEF LotChange, RowChange, OrphanAfter
    <2>5. QED
      BY <2>3, <2>4
  <1>11. ASSUME NEW t \in TrancheId PROVE TrancheChange(t)
    <2>1. audit'[t] = audit[t]
      BY <1>3, <1>8, KeysAssumption DEF Entities
    <2>2. tranches'[t] = IF t \in req[r].tranches THEN Gone(tranches[t]) ELSE tranches[t]
      BY <1>1 DEF TypeOK, DeletePositionCommit, SoftDelete
    <2>3. CASE t \notin req[r].tranches
      BY <2>1, <2>2, <2>3 DEF TrancheChange, RowChange
    <2>4. CASE t \in req[r].tranches
      <3>1. tranches[t] \in TrancheRow /\ tranches[t] # None /\ tranches'[t] # None
        BY <1>1, <1>4, <1>5, <2>4 DEF TypeOK, RowsKept
      <3>2. OrphanAfter(tranches'[t])
        BY <1>5, <1>7, <2>2, <2>4, <3>1, GoneRow DEF OrphanAfter
      <3>3. /\ tranches'[t].version = tranches[t].version
            /\ tranches'[t].terms = tranches[t].terms /\ tranches'[t].deleted
        BY <2>2, <2>4, <3>1, GoneRow
      <3>4. QED
        BY <2>1, <3>1, <3>2, <3>3 DEF TrancheChange, RowChange, OrphanAfter
    <2>5. QED
      BY <2>3, <2>4
  <1>12. QED
    BY <1>9, <1>10, <1>11 DEF Chronicled

LEMMA ReadsWriteNothing ==
    ASSUME NEW r \in Requests, Arrive(r) \/ Proceed(r)
    PROVE  \/ UNCHANGED Tables
           \/ CreatePositionCommit(r) \/ AddLotCommit(r)
           \/ UpdateLotCommit(r) \/ DeleteLotCommit(r)
           \/ CreateDividendCommit(r) \/ UpdateDividendCommit(r) \/ DeleteDividendCommit(r)
           \/ DeletePositionCommit(r)
  <1>1. CASE Arrive(r)
    BY <1>1 DEF Arrive, CreatePositionFind, AddLotRead, UpdateLotBegin, DeleteLotBegin,
      DeletePositionRead, CreateDividendRead, UpdateDividendRead, DeleteDividendRead, Tables
  <1>2. CASE Proceed(r)
    BY <1>2 DEF Proceed, UpdateLotRead, DeleteLotRead, DeleteLotCount,
      DeletePositionLots, DeletePositionTranches, CreateDividendCheckShares,
      CreateDividendCheckYear, UpdateDividendCheckPosition, UpdateDividendCheckShares,
      UpdateDividendCheckYear, Tables
  <1>3. QED
    BY <1>1, <1>2

LEMMA StepChronicled ==
    ASSUME SoundRequests, RequestsKnowHome, [Next]_vars
    PROVE  Chronicled
  <1>1. CASE UNCHANGED vars
    BY <1>1, NothingWritten DEF vars, Tables
  <1>2. ASSUME NEW r \in Requests, Arrive(r) \/ Proceed(r) PROVE Chronicled
    BY <1>2, ReadsWriteNothing, NothingWritten, CreatePositionChronicled, AddLotChronicled,
       UpdateLotChronicled, DeleteLotChronicled, CreateDividendChronicled,
       UpdateDividendChronicled, DeleteDividendChronicled, DeletePositionChronicled
  <1>3. QED
    BY <1>1, <1>2 DEF Next

-----------------------------------------------------------------------------
(* The audit log explains the rows *)

Stories ==
    /\ \A l \in LotId : Story(audit[l], lots[l], "LOT_CREATED", "LOT_UPDATED")
    /\ \A t \in TrancheId :
         Story(audit[t], tranches[t], "DIVIDEND_CREATED", "DIVIDEND_UPDATED")

LEMMA StepExplained ==
    ASSUME SoundRequests, RequestsKnowHome, Stories, [Next]_vars
    PROVE  Stories'
  <1>1. Chronicled /\ TypeOK
    BY StepChronicled DEF SoundRequests
  <1>2. ASSUME NEW l \in LotId
        PROVE  Story(audit'[l], lots'[l], "LOT_CREATED", "LOT_UPDATED")
    <2>1. audit[l] \in Seq(Event)
      BY <1>1 DEF TypeOK
    <2>2. LotChange(l) /\ Story(audit[l], lots[l], "LOT_CREATED", "LOT_UPDATED")
      BY <1>1 DEF Chronicled, Stories
    <2>3. QED
      BY <2>1, <2>2, ChangeExplained DEF LotChange
  <1>3. ASSUME NEW t \in TrancheId
        PROVE  Story(audit'[t], tranches'[t], "DIVIDEND_CREATED", "DIVIDEND_UPDATED")
    <2>1. audit[t] \in Seq(Event)
      BY <1>1 DEF TypeOK
    <2>2. /\ TrancheChange(t)
          /\ Story(audit[t], tranches[t], "DIVIDEND_CREATED", "DIVIDEND_UPDATED")
      BY <1>1 DEF Chronicled, Stories
    <2>3. QED
      BY <2>1, <2>2, ChangeExplained DEF TrancheChange
  <1>4. QED
    BY <1>2, <1>3 DEF Stories

LEMMA HomeFromTheStart == Init => RequestsKnowHome
  BY DEF Init, RequestsKnowHome, Homed, Idle, DeletePositionSteps, UpdateDividendSteps

LEMMA RequestsStayHomed == Spec => [](SoundRequests /\ RequestsKnowHome)
  <1>1. SoundRequests /\ RequestsKnowHome /\ [Next]_vars
          => SoundRequests' /\ RequestsKnowHome'
    BY StepSound, StepIsFinal
  <1>2. QED
    BY <1>1, InitSound, HomeFromTheStart, PTL DEF Spec

\* Whatever requests overlap, the events of a lot or a dividend tell how its
\* row came to be: one creation, edits that follow from one another, a version
\* that counts them (record_audit_event in every handler).
THEOREM AuditTellsTheStory == Spec => []AuditExplainsRows
  <1>1. Init => Stories
    BY DEF Init, Stories, Story
  <1>2. SoundRequests /\ RequestsKnowHome /\ Stories /\ [Next]_vars => Stories'
    BY StepExplained
  <1>3. Stories => AuditExplainsRows
    BY DEF Stories, Story, AuditExplainsRows
  <1>4. QED
    BY <1>1, <1>2, <1>3, RequestsStayHomed, PTL DEF Spec

-----------------------------------------------------------------------------
(* Deletions are explained.  Positions outlive their rows: the position of *)
(* a row, and the one a request will insert into, exists.                  *)

Anchored(q, ps) ==
    /\ q.at = "create_position" => q.position = None \/ ps[q.position] # None
    /\ q.at \in {"add_lot"} \cup CreateDividendSteps => ps[q.position] # None

RowsHavePositions ==
    /\ \A l \in LotId : lots[l] # None => positions[lots[l].position] # None
    /\ \A t \in TrancheId : tranches[t] # None => positions[tranches[t].position] # None

AllAnchored ==
    RowsHavePositions /\ \A r \in Requests : Anchored(req[r], positions)

LEMMA AnchoredIsStable ==
    ASSUME RowsKept, NEW q \in Request, Anchored(q, positions)
    PROVE  Anchored(q, positions')
  <1>1. CASE q.at = "create_position"
    <2>1. q \in InCreatePosition
      BY <1>1, RequestShapes
    <2>2. QED
      BY <1>1, <2>1 DEF Anchored, RowsKept, InCreatePosition, CreateDividendSteps
  <1>2. CASE q.at = "add_lot"
    <2>1. q \in InAddLot
      BY <1>2, RequestShapes
    <2>2. QED
      BY <1>2, <2>1 DEF Anchored, RowsKept, InAddLot, CreateDividendSteps
  <1>3. CASE q.at \in CreateDividendSteps
    <2>1. q \in InCreateDividend
      BY <1>3, RequestShapes
    <2>2. QED
      BY <1>3, <2>1 DEF Anchored, RowsKept, InCreateDividend, CreateDividendSteps
  <1>4. QED
    BY <1>1, <1>2, <1>3 DEF Anchored

\* The request that takes a step is anchored after it.
LEMMA ArrivalAnchored ==
    ASSUME SoundRequests, AllAnchored, NEW r \in Requests, Arrive(r)
    PROVE  Anchored(req'[r], positions)
  <1>1. req \in [Requests -> Request]
    BY DEF SoundRequests, TypeOK
  <1>2. ASSUME NEW q, req' = [req EXCEPT ![r] = q] PROVE req'[r] = q
    BY <1>1, <1>2
  <1>3. ASSUME NEW q, Continue(r, q) PROVE req'[r] = q
    BY <1>2, <1>3 DEF Continue
  <1>4. CASE CreatePositionFind(r)
    <2>1. PICK pf \in Portfolios, s \in Stocks, terms \in LotTerms :
            \E p \in IF ActiveByStock(pf, s) = {} THEN {None} ELSE ActiveByStock(pf, s) :
              Continue(r, [at |-> "create_position", portfolio |-> pf, stock |-> s,
                           position |-> p, terms |-> terms])
      BY <1>4 DEF CreatePositionFind
    <2>2. PICK p \in IF ActiveByStock(pf, s) = {} THEN {None} ELSE ActiveByStock(pf, s) :
              Continue(r, [at |-> "create_position", portfolio |-> pf, stock |-> s,
                           position |-> p, terms |-> terms])
      BY <2>1
    <2>3. p = None \/ positions[p] # None
      BY <2>2 DEF ActiveByStock, OwnedActive, ActivePosition
    <2>4. req'[r] = [at |-> "create_position", portfolio |-> pf, stock |-> s,
                     position |-> p, terms |-> terms]
      BY <1>3, <2>2
    <2>5. QED
      BY <2>3, <2>4 DEF Anchored, CreateDividendSteps
  <1>5. CASE AddLotRead(r)
    <2>1. PICK pf \in Portfolios, p \in PositionId, terms \in LotTerms :
            /\ OwnedActive(pf, p)
            /\ Continue(r, [at |-> "add_lot", position |-> p, terms |-> terms])
      BY <1>5 DEF AddLotRead
    <2>2. req'[r] = [at |-> "add_lot", position |-> p, terms |-> terms]
      BY <1>3, <2>1
    <2>3. QED
      BY <2>1, <2>2 DEF Anchored, CreateDividendSteps, OwnedActive, ActivePosition
  <1>6. CASE CreateDividendRead(r)
    <2>1. PICK pf \in Portfolios, p \in PositionId, body \in DividendBody :
            /\ OwnedActive(pf, p)
            /\ Continue(r, [at |-> "create_dividend_lots", position |-> p, body |-> body])
      BY <1>6 DEF CreateDividendRead
    <2>2. req'[r] = [at |-> "create_dividend_lots", position |-> p, body |-> body]
      BY <1>3, <2>1
    <2>3. QED
      BY <2>1, <2>2 DEF Anchored, CreateDividendSteps, OwnedActive, ActivePosition
  <1>7. CASE \/ UpdateLotBegin(r) \/ DeleteLotBegin(r) \/ DeletePositionRead(r)
             \/ UpdateDividendRead(r) \/ DeleteDividendRead(r)
    <2>1. ASSUME UpdateLotBegin(r) PROVE req'[r].at = "update_lot_read"
      <3>1. PICK p \in PositionId, l \in LotId, patch \in LotPatch, v \in Int :
              Continue(r, [at |-> "update_lot_read", position |-> p, lot |-> l,
                           version |-> v, patch |-> patch])
        BY <2>1 DEF UpdateLotBegin
      <3>2. QED
        BY <1>3, <3>1
    <2>2. ASSUME DeleteLotBegin(r) PROVE req'[r].at = "delete_lot_read"
      <3>1. PICK p \in PositionId, l \in LotId :
              Continue(r, [at |-> "delete_lot_read", position |-> p, lot |-> l])
        BY <2>2 DEF DeleteLotBegin
      <3>2. QED
        BY <1>3, <3>1
    <2>3. ASSUME DeletePositionRead(r) PROVE req'[r].at = "delete_position"
      <3>1. PICK p \in PositionId :
              Continue(r, [at |-> "delete_position", position |-> p,
                           lots |-> {}, tranches |-> {}])
        BY <2>3 DEF DeletePositionRead
      <3>2. QED
        BY <1>3, <3>1
    <2>4. ASSUME UpdateDividendRead(r) PROVE req'[r].at = "update_dividend_position"
      <3>1. PICK pf \in Portfolios, t \in TrancheId, patch \in DividendPatch,
                 v \in Int :
              Continue(r, [at |-> "update_dividend_position", portfolio |-> pf,
                           tranche |-> t, version |-> v,
                           body |-> MergedDividend(tranches[t].terms.body, patch),
                           seen |-> tranches[t]])
        BY <2>4 DEF UpdateDividendRead
      <3>2. QED
        BY <1>3, <3>1
    <2>5. ASSUME DeleteDividendRead(r) PROVE req'[r].at = "delete_dividend"
      <3>1. PICK t \in TrancheId :
              Continue(r, [at |-> "delete_dividend", tranche |-> t, seen |-> tranches[t]])
        BY <2>5 DEF DeleteDividendRead
      <3>2. QED
        BY <1>3, <3>1
    <2>6. QED
      BY <1>7, <2>1, <2>2, <2>3, <2>4, <2>5 DEF Anchored, CreateDividendSteps
  <1>8. QED
    BY <1>4, <1>5, <1>6, <1>7 DEF Arrive

LEMMA AdvanceAnchored ==
    ASSUME SoundRequests, AllAnchored, NEW r \in Requests, Proceed(r)
    PROVE  Anchored(req'[r], positions)
  <1>1. req \in [Requests -> Request]
    BY DEF SoundRequests, TypeOK
  <1>2. ASSUME NEW q, Continue(r, q) PROVE req'[r] = q
    BY <1>1, <1>2 DEF Continue
  <1>3. ASSUME Finish(r) PROVE Anchored(req'[r], positions)
    BY <1>2, <1>3 DEF Finish, Anchored, Idle, CreateDividendSteps
  <1>4. ASSUME NEW at, Goto(r, at) PROVE req'[r] = [req[r] EXCEPT !.at = at]
    BY <1>2, <1>4 DEF Goto
  <1>5. CASE CreateDividendCheckShares(r) \/ CreateDividendCheckYear(r)
    <2>1. PICK at : at \in CreateDividendSteps /\ (Goto(r, at) \/ Finish(r))
      <3>1. "create_dividend_year" \in CreateDividendSteps /\ "create_dividend" \in CreateDividendSteps
        BY DEF CreateDividendSteps
      <3>2. CASE CreateDividendCheckShares(r)
        BY <3>1, <3>2 DEF CreateDividendCheckShares
      <3>3. CASE CreateDividendCheckYear(r)
        BY <3>1, <3>3 DEF CreateDividendCheckYear
      <3>4. QED
        BY <1>5, <3>2, <3>3
    <2>2. req[r] \in InCreateDividend
      BY <1>1, <1>5, RequestShapes
      DEF CreateDividendCheckShares, CreateDividendCheckYear, CreateDividendSteps
    <2>3. positions[req[r].position] # None
      BY <2>2 DEF AllAnchored, Anchored, InCreateDividend
    <2>4. ASSUME Goto(r, at) PROVE Anchored(req'[r], positions)
      <3>1. req'[r].at = at /\ req'[r].position = req[r].position
        BY <1>4, <2>2, <2>4 DEF InCreateDividend
      <3>2. QED
        BY <2>3, <3>1, Zenon DEF Anchored
    <2>5. QED
      BY <1>3, <2>1, <2>4
  <1>6. CASE DeleteLotCount(r)
    <2>1. req[r] \in InDeleteLot
      BY <1>1, <1>6, RequestShapes DEF DeleteLotCount
    <2>2. ASSUME Goto(r, "delete_lot") PROVE Anchored(req'[r], positions)
      <3>1. req'[r].at = "delete_lot"
        <4>1. req'[r] = [req[r] EXCEPT !.at = "delete_lot"]
          BY <1>4, <2>2, Zenon
        <4>2. QED
          BY <2>1, <4>1 DEF InDeleteLot
      <3>2. QED
        BY <3>1 DEF Anchored, CreateDividendSteps
    <2>3. QED
      BY <1>3, <1>6, <2>2 DEF DeleteLotCount
  <1>7. CASE \/ UpdateDividendCheckPosition(r) \/ UpdateDividendCheckShares(r)
             \/ UpdateDividendCheckYear(r)
    <2>1. PICK at : at \in UpdateDividendSteps /\ (Goto(r, at) \/ Finish(r))
      BY <1>7 DEF UpdateDividendCheckPosition, UpdateDividendCheckShares,
        UpdateDividendCheckYear, UpdateDividendSteps
    <2>2. req[r] \in InUpdateDividend
      BY <1>1, <1>7, RequestShapes DEF UpdateDividendCheckPosition,
        UpdateDividendCheckShares, UpdateDividendCheckYear, UpdateDividendSteps
    <2>3. ASSUME Goto(r, at) PROVE Anchored(req'[r], positions)
      <3>1. req'[r].at = at
        BY <1>4, <2>2, <2>3 DEF InUpdateDividend
      <3>2. QED
        BY <2>1, <3>1 DEF Anchored, CreateDividendSteps, UpdateDividendSteps
    <2>4. QED
      BY <1>3, <2>1, <2>3
  <1>8. CASE UpdateLotRead(r) \/ DeleteLotRead(r)
    <2>1. ASSUME UpdateLotRead(r), ~Finish(r) PROVE req'[r].at = "update_lot"
      <3>1. Continue(r, [at |-> "update_lot", lot |-> req[r].lot,
                         version |-> req[r].version,
                         terms |-> MergedLot(lots[req[r].lot].terms, req[r].patch),
                         seen |-> lots[req[r].lot]])
        BY <2>1 DEF UpdateLotRead
      <3>2. QED
        BY <1>2, <3>1
    <2>2. ASSUME DeleteLotRead(r), ~Finish(r) PROVE req'[r].at = "delete_lot_count"
      <3>1. Continue(r, [at |-> "delete_lot_count", lot |-> req[r].lot,
                         seen |-> lots[req[r].lot]])
        BY <2>2 DEF DeleteLotRead
      <3>2. QED
        BY <1>2, <3>1
    <2>3. QED
      BY <1>3, <1>8, <2>1, <2>2 DEF Anchored, CreateDividendSteps
  <1>9. CASE DeletePositionLots(r) \/ DeletePositionTranches(r)
    <2>1. req[r] \in InDeletePosition
      BY <1>1, <1>9, RequestShapes
      DEF DeletePositionLots, DeletePositionTranches, DeletePositionSteps
    <2>2. req'[r].at \in DeletePositionSteps
      BY <1>2, <1>9, <2>1 DEF DeletePositionLots, DeletePositionTranches,
        DeletePositionSteps, InDeletePosition
    <2>3. QED
      BY <2>2 DEF Anchored, DeletePositionSteps, CreateDividendSteps
  <1>10. CASE \/ CreatePositionCommit(r) \/ AddLotCommit(r)
              \/ UpdateLotCommit(r) \/ DeleteLotCommit(r)
              \/ CreateDividendCommit(r) \/ UpdateDividendCommit(r)
              \/ DeleteDividendCommit(r) \/ DeletePositionCommit(r)
    BY <1>3, <1>10 DEF CreatePositionCommit, AddLotCommit, UpdateLotCommit,
      DeleteLotCommit, CreateDividendCommit, UpdateDividendCommit, DeleteDividendCommit,
      DeletePositionCommit
  <1>11. QED
    BY <1>5, <1>6, <1>7, <1>8, <1>9, <1>10 DEF Proceed

LEMMA OnlyOneMoves ==
    ASSUME TypeOK, NEW r \in Requests, Arrive(r) \/ Proceed(r)
    PROVE  \A s \in Requests : s # r => req'[s] = req[s]
  <1>1. \E q : Continue(r, q)
    <2>1. (\E at : Goto(r, at)) \/ Finish(r) => \E q : Continue(r, q)
      BY Zenon DEF Goto, Finish
    <2>2. CASE CreatePositionFind(r) \/ AddLotRead(r) \/ UpdateLotBegin(r) \/ DeleteLotBegin(r)
      BY <2>2, Zenon DEF CreatePositionFind, AddLotRead, UpdateLotBegin, DeleteLotBegin
    <2>3. CASE \/ DeletePositionRead(r) \/ CreateDividendRead(r)
               \/ UpdateDividendRead(r) \/ DeleteDividendRead(r)
      BY <2>3, Zenon DEF DeletePositionRead, CreateDividendRead, UpdateDividendRead, DeleteDividendRead
    <2>4. CASE CreatePositionCommit(r) \/ AddLotCommit(r)
      BY <2>1, <2>4, Zenon DEF CreatePositionCommit, AddLotCommit
    <2>5. CASE UpdateLotRead(r) \/ UpdateLotCommit(r)
      BY <2>1, <2>5, Zenon DEF UpdateLotRead, UpdateLotCommit
    <2>6. CASE DeleteLotRead(r) \/ DeleteLotCount(r) \/ DeleteLotCommit(r)
      BY <2>1, <2>6, Zenon DEF DeleteLotRead, DeleteLotCount, DeleteLotCommit
    <2>7. CASE DeletePositionLots(r) \/ DeletePositionTranches(r) \/ DeletePositionCommit(r)
      BY <2>1, <2>7, Zenon DEF DeletePositionLots, DeletePositionTranches, DeletePositionCommit
    <2>8. CASE \/ CreateDividendCheckShares(r) \/ CreateDividendCheckYear(r) \/ CreateDividendCommit(r)
               \/ DeleteDividendCommit(r)
      BY <2>1, <2>8, Zenon DEF CreateDividendCheckShares, CreateDividendCheckYear,
         CreateDividendCommit, DeleteDividendCommit
    <2>9. CASE \/ UpdateDividendCheckPosition(r) \/ UpdateDividendCheckShares(r)
               \/ UpdateDividendCheckYear(r) \/ UpdateDividendCommit(r)
      BY <2>1, <2>9, Zenon DEF UpdateDividendCheckPosition, UpdateDividendCheckShares,
         UpdateDividendCheckYear, UpdateDividendCommit
    <2>10. QED
      BY <2>2, <2>3, <2>4, <2>5, <2>6, <2>7, <2>8, <2>9, Zenon DEF Arrive, Proceed
  <1>2. QED
    BY <1>1 DEF Continue, TypeOK

\* Where a row appears, its position exists.
LEMMA NewLotAnchored ==
    ASSUME SoundRequests, AllAnchored, RowsKept, NEW r \in Requests,
           Arrive(r) \/ Proceed(r), NEW l \in LotId, lots[l] = None, lots'[l] # None
    PROVE  positions'[lots'[l].position] # None
  <1>1. TypeOK /\ Sound(req[r], positions, lots, tranches) /\ Anchored(req[r], positions)
    BY DEF SoundRequests, AllAnchored
  <1>2. ASSUME NEW p \in PositionId, NEW terms, InsertLot(p, terms)
        PROVE  lots'[l].position = p
    <2>1. PICK k \in LotId : lots' = [lots EXCEPT ![k] = NewRow(p, terms)]
      BY <1>2 DEF InsertLot
    <2>2. lots'[l] = NewRow(p, terms)
      BY <1>1, <2>1 DEF TypeOK
    <2>3. QED
      BY <2>2 DEF NewRow
  <1>3. CASE CreatePositionCommit(r)
    <2>1. req[r] \in InCreatePosition
      BY <1>1, <1>3, RequestShapes DEF TypeOK, CreatePositionCommit
    <2>2. CASE req[r].position # None /\ InsertLot(req[r].position, req[r].terms)
      <3>1. req[r].position \in PositionId /\ positions[req[r].position] # None
        BY <1>1, <1>3, <2>1, <2>2 DEF InCreatePosition, Anchored, CreatePositionCommit
      <3>2. QED
        BY <1>2, <2>2, <3>1 DEF RowsKept
    <2>3. ASSUME NEW p \in PositionId, InsertLot(p, req[r].terms),
                 positions' = [positions EXCEPT ![p] =
                     [portfolio |-> req[r].portfolio, stock |-> req[r].stock,
                      deleted |-> FALSE]]
          PROVE  positions'[p] # None
      <3>1. [portfolio |-> req[r].portfolio, stock |-> req[r].stock,
             deleted |-> FALSE] \in PositionRow
        BY <2>1 DEF InCreatePosition, PositionRow
      <3>2. QED
        BY <1>1, <2>3, <3>1, NoneAssumption DEF TypeOK
    <2>4. QED
      BY <1>2, <1>3, <2>2, <2>3 DEF CreatePositionCommit
  <1>4. CASE AddLotCommit(r)
    <2>1. req[r] \in InAddLot
      BY <1>1, <1>4, RequestShapes DEF TypeOK, AddLotCommit
    <2>2. req[r].position \in PositionId /\ positions[req[r].position] # None
      BY <1>1, <1>4, <2>1 DEF InAddLot, Anchored, AddLotCommit
    <2>3. QED
      BY <1>2, <1>4, <2>2 DEF AddLotCommit, RowsKept
  <1>5. ~UNCHANGED lots
    OBVIOUS
  <1>6. ~UpdateLotCommit(r) /\ ~DeleteLotCommit(r)
    <2>1. SUFFICES ASSUME UpdateLotCommit(r) \/ DeleteLotCommit(r) PROVE FALSE
      OBVIOUS
    <2>2. req[r].lot # l
      BY <1>1, <2>1 DEF Sound, Snapshot, UpdateLotCommit, DeleteLotCommit
    <2>3. QED
      BY <1>1, <2>1, <2>2 DEF TypeOK, UpdateLotCommit, DeleteLotCommit
  <1>7. ~DeletePositionCommit(r)
    <2>1. SUFFICES ASSUME DeletePositionCommit(r) PROVE FALSE
      OBVIOUS
    <2>2. l \notin req[r].lots
      BY <1>1, <2>1 DEF Sound, DeletePositionCommit, DeletePositionSteps
    <2>3. QED
      BY <1>1, <2>1, <2>2 DEF TypeOK, DeletePositionCommit, SoftDelete
  <1>8. QED
    BY <1>3, <1>4, <1>5, <1>6, <1>7, ReadsWriteNothing
    DEF Tables, CreateDividendCommit, UpdateDividendCommit, DeleteDividendCommit

LEMMA NewTrancheAnchored ==
    ASSUME SoundRequests, AllAnchored, RowsKept, NEW r \in Requests,
           Arrive(r) \/ Proceed(r),
           NEW t \in TrancheId, tranches[t] = None, tranches'[t] # None
    PROVE  positions'[tranches'[t].position] # None
  <1>1. TypeOK /\ Sound(req[r], positions, lots, tranches) /\ Anchored(req[r], positions)
    BY DEF SoundRequests, AllAnchored
  <1>2. CASE CreateDividendCommit(r)
    <2>1. req[r] \in InCreateDividend
      BY <1>1, <1>2, RequestShapes DEF TypeOK, CreateDividendCommit, CreateDividendSteps
    <2>2. req[r].position \in PositionId /\ positions[req[r].position] # None
      BY <1>1, <1>2, <2>1
      DEF InCreateDividend, Anchored, CreateDividendCommit, CreateDividendSteps
    <2>3. PICK k \in TrancheId :
            tranches' = [tranches EXCEPT ![k] = NewRow(req[r].position, Terms(req[r].body))]
      BY <1>2 DEF CreateDividendCommit
    <2>4. tranches'[t] = NewRow(req[r].position, Terms(req[r].body))
      BY <1>1, <2>3 DEF TypeOK
    <2>5. QED
      BY <2>2, <2>4 DEF NewRow, RowsKept
  <1>3. ~UNCHANGED tranches
    OBVIOUS
  <1>4. ~UpdateDividendCommit(r) /\ ~DeleteDividendCommit(r)
    <2>1. SUFFICES ASSUME UpdateDividendCommit(r) \/ DeleteDividendCommit(r) PROVE FALSE
      OBVIOUS
    <2>2. req[r].tranche # t
      BY <1>1, <2>1 DEF Sound, Snapshot, UpdateDividendCommit, DeleteDividendCommit,
        UpdateDividendSteps
    <2>3. QED
      BY <1>1, <2>1, <2>2 DEF TypeOK, UpdateDividendCommit, DeleteDividendCommit
  <1>5. ~DeletePositionCommit(r)
    <2>1. SUFFICES ASSUME DeletePositionCommit(r) PROVE FALSE
      OBVIOUS
    <2>2. t \notin req[r].tranches
      BY <1>1, <2>1 DEF Sound, DeletePositionCommit, DeletePositionSteps
    <2>3. QED
      BY <1>1, <2>1, <2>2 DEF TypeOK, DeletePositionCommit, SoftDelete
  <1>6. QED
    BY <1>2, <1>3, <1>4, <1>5, ReadsWriteNothing
    DEF Tables, CreatePositionCommit, AddLotCommit, UpdateLotCommit, DeleteLotCommit

LEMMA StepAnchored ==
    ASSUME SoundRequests, AllAnchored, [Next]_vars
    PROVE  AllAnchored'
  <1>1. CASE UNCHANGED vars
    BY <1>1 DEF vars, AllAnchored, RowsHavePositions, Anchored
  <1>2. ASSUME NEW r \in Requests, Arrive(r) \/ Proceed(r), ~UNCHANGED vars
        PROVE  AllAnchored'
    <2>1. RowsKept /\ TypeOK
      BY <1>2, StepSound DEF SoundRequests
    <2>2. ASSUME NEW s \in Requests PROVE Anchored(req'[s], positions)
      BY <1>2, <2>1, <2>2, ArrivalAnchored, AdvanceAnchored, OnlyOneMoves DEF AllAnchored
    <2>3. ASSUME NEW s \in Requests PROVE Anchored(req'[s], positions')
      <3>1. req'[s] \in Request
        BY StepSound DEF SoundRequests, TypeOK
      <3>2. QED
        BY <2>1, <2>2, <3>1, AnchoredIsStable
    <2>4. ASSUME NEW l \in LotId, lots'[l] # None
          PROVE  positions'[lots'[l].position] # None
      <3>1. CASE lots[l] = None
        BY <1>2, <2>1, <2>4, <3>1, NewLotAnchored
      <3>2. CASE lots[l] # None
        <4>1. /\ lots'[l].position = lots[l].position
              /\ lots[l].position \in PositionId
          BY <2>1, <3>2 DEF RowsKept, Kept, TypeOK, LotRow
        <4>2. positions[lots[l].position] # None
          BY <3>2 DEF AllAnchored, RowsHavePositions
        <4>3. QED
          BY <2>1, <4>1, <4>2 DEF RowsKept
      <3>3. QED
        BY <3>1, <3>2
    <2>5. ASSUME NEW t \in TrancheId, tranches'[t] # None
          PROVE  positions'[tranches'[t].position] # None
      <3>1. CASE tranches[t] = None
        BY <1>2, <2>1, <2>5, <3>1, NewTrancheAnchored
      <3>2. CASE tranches[t] # None
        <4>1. /\ tranches'[t].position = tranches[t].position
              /\ tranches[t].position \in PositionId
          BY <2>1, <3>2 DEF RowsKept, Kept, TypeOK, TrancheRow
        <4>2. positions[tranches[t].position] # None
          BY <3>2 DEF AllAnchored, RowsHavePositions
        <4>3. QED
          BY <2>1, <4>1, <4>2 DEF RowsKept
      <3>3. QED
        BY <3>1, <3>2
    <2>6. QED
      BY <2>3, <2>4, <2>5 DEF AllAnchored, RowsHavePositions
  <1>3. QED
    BY <1>1, <1>2 DEF Next

Deletion(e, action) == \E i \in 1..Len(audit[e]) : audit[e][i].action = action

Orphan(row) == positions[row.position].deleted

Deletions ==
    /\ \A p \in PositionId :
         Deletion(p, "POSITION_DELETED") <=> positions[p] # None /\ positions[p].deleted
    /\ \A l \in LotId : Explained(audit[l], lots[l], "LOT_DELETED", Orphan(lots[l]))
    /\ \A t \in TrancheId :
         Explained(audit[t], tranches[t], "DIVIDEND_DELETED", Orphan(tranches[t]))

LEMMA StepDeletions ==
    ASSUME SoundRequests, RequestsKnowHome, AllAnchored, Stories, Deletions, [Next]_vars
    PROVE  Deletions'
  <1>1. Chronicled /\ TypeOK /\ (RowsKept \/ UNCHANGED vars)
    BY StepChronicled, StepSound DEF SoundRequests
  <1>2. ASSUME NEW p \in PositionId, positions[p] # None, positions[p].deleted
        PROVE  positions'[p].deleted
    <2>1. positions[p] \in PositionRow
      BY <1>1, <1>2 DEF TypeOK
    <2>2. QED
      BY <1>1, <1>2, <2>1 DEF RowsKept, vars, Gone, PositionRow
  <1>3. ASSUME NEW p \in PositionId
        PROVE  Deletion(p, "POSITION_DELETED")' <=>
                 positions'[p] # None /\ positions'[p].deleted
    <2>1. PositionChange(p) /\ audit[p] \in Seq(Event)
      BY <1>1 DEF Chronicled, TypeOK
    <2>2. Deletion(p, "POSITION_DELETED") <=> positions[p] # None /\ positions[p].deleted
      BY DEF Deletions
    <2>3. ASSUME NEW e \in Event, audit'[p] = Append(audit[p], e),
                 e.action = "POSITION_DELETED"
          PROVE  Deletion(p, "POSITION_DELETED")'
      <3>1. /\ Len(audit[p]) + 1 \in 1..Len(audit'[p])
            /\ audit'[p][Len(audit[p]) + 1] = e
        BY <2>1, <2>3
      <3>2. QED
        BY <2>3, <3>1 DEF Deletion
    <2>4. QED
      BY <2>1, <2>2, <2>3 DEF PositionChange, Deletion
  <1>4. ASSUME NEW l \in LotId
        PROVE  Explained(audit'[l], lots'[l], "LOT_DELETED", OrphanAfter(lots'[l]))
    <2>1. LotChange(l) /\ audit[l] \in Seq(Event)
      BY <1>1 DEF Chronicled, TypeOK
    <2>2. lots[l] = None => audit[l] = <<>>
      BY DEF Stories, Story
    <2>3. lots[l] # None /\ Orphan(lots[l]) => OrphanAfter(lots'[l])
      <3>1. SUFFICES ASSUME lots[l] # None, Orphan(lots[l]) PROVE OrphanAfter(lots'[l])
        OBVIOUS
      <3>2. lots[l].position \in PositionId /\ lots'[l].position = lots[l].position
        BY <1>1, <3>1 DEF TypeOK, LotRow, RowsKept, Kept, vars
      <3>3. positions[lots[l].position] # None
        BY <3>1 DEF AllAnchored, RowsHavePositions
      <3>4. QED
        BY <1>2, <3>1, <3>2, <3>3 DEF Orphan, OrphanAfter
    <2>4. Explained(audit[l], lots[l], "LOT_DELETED", Orphan(lots[l]))
      BY DEF Deletions
    <2>5. QED
      BY <2>1, <2>2, <2>3, <2>4, DeletionStaysExplained DEF LotChange
  <1>5. ASSUME NEW t \in TrancheId
        PROVE  Explained(audit'[t], tranches'[t], "DIVIDEND_DELETED",
                         OrphanAfter(tranches'[t]))
    <2>1. TrancheChange(t) /\ audit[t] \in Seq(Event)
      BY <1>1 DEF Chronicled, TypeOK
    <2>2. tranches[t] = None => audit[t] = <<>>
      BY DEF Stories, Story
    <2>3. tranches[t] # None /\ Orphan(tranches[t]) => OrphanAfter(tranches'[t])
      <3>1. SUFFICES ASSUME tranches[t] # None, Orphan(tranches[t])
                     PROVE  OrphanAfter(tranches'[t])
        OBVIOUS
      <3>2. /\ tranches[t].position \in PositionId
            /\ tranches'[t].position = tranches[t].position
        BY <1>1, <3>1 DEF TypeOK, TrancheRow, RowsKept, Kept, vars
      <3>3. positions[tranches[t].position] # None
        BY <3>1 DEF AllAnchored, RowsHavePositions
      <3>4. QED
        BY <1>2, <3>1, <3>2, <3>3 DEF Orphan, OrphanAfter
    <2>4. Explained(audit[t], tranches[t], "DIVIDEND_DELETED", Orphan(tranches[t]))
      BY DEF Deletions
    <2>5. QED
      BY <2>1, <2>2, <2>3, <2>4, DeletionStaysExplained DEF TrancheChange
  <1>6. QED
    BY <1>3, <1>4, <1>5 DEF Deletions, Orphan, OrphanAfter

\* Whatever requests overlap, every soft-deleted row is explained by the log,
\* by an event of its own or by that of its position, and every deletion that
\* was logged has taken effect (delete_position and its cascade).
THEOREM DeletionsLeaveATrace == Spec => []DeletionsAreExplained
  <1>1. Init => AllAnchored /\ Stories /\ Deletions
    BY DEF Init, AllAnchored, RowsHavePositions, Anchored, Idle, CreateDividendSteps,
      Stories, Story, Deletions, Deletion, Explained
  <1>2. SoundRequests /\ RequestsKnowHome /\ AllAnchored /\ Stories /\ Deletions /\ [Next]_vars
          => AllAnchored' /\ Stories' /\ Deletions'
    BY StepAnchored, StepExplained, StepDeletions
  <1>3. Deletions => DeletionsAreExplained
    BY DEF Deletions, Deletion, Explained, Orphan, DeletionsAreExplained, Logged
  <1>4. QED
    BY <1>1, <1>2, <1>3, RequestsStayHomed, PTL DEF Spec

-----------------------------------------------------------------------------
(* The row locks of delete_position.  A cascade begins only on a position  *)
(* no other cascade has locked, and it locks rows of its own position.     *)

CascadeSteps == {"delete_position_tranches", "delete_position_commit"}

\* No row is locked twice: the cascades in flight delete different positions
\* and have taken different lots and tranches.
LocksAreExclusive ==
    \A r, q \in Cascading : r # q =>
        /\ req[r].position # req[q].position
        /\ req[r].lots \cap req[q].lots = {}
        /\ req[r].tranches \cap req[q].tranches = {}

\* What a cascade has locked stays as it is, and stays locked, until the cascade
\* itself commits, whatever other requests do.
StandsUntilCommit(r) ==
    \/ DeletePositionCommit(r)
    \/ /\ r \in Cascading'
       /\ positions'[req[r].position] = positions[req[r].position]
       /\ \A l \in req[r].lots : lots'[l] = lots[l] /\ l \in req'[r].lots
       /\ \A t \in req[r].tranches : tranches'[t] = tranches[t] /\ t \in req'[r].tranches

LockedRowsStand == [][\A r \in Cascading : StandsUntilCommit(r)]_vars

\* Inductive: two cascades delete different positions, and a cascade has
\* locked no tranche before the statement that locks them.
CascadesApart ==
    /\ \A r, q \in Cascading : r # q => req[r].position # req[q].position
    /\ \A r \in Requests :
         req[r].at \in {"delete_position", "delete_position_tranches"} => req[r].tranches = {}

\* Only delete_position's own steps lead to a step of delete_position.
LEMMA OthersDoNotCascade ==
    ASSUME TypeOK, NEW r \in Requests, Arrive(r) \/ Proceed(r)
    PROVE  \/ req'[r].at \notin DeletePositionSteps
           \/ DeletePositionRead(r) \/ DeletePositionLots(r) \/ DeletePositionTranches(r)
  <1>1. \A q : Continue(r, q) => req'[r] = q
    BY DEF Continue, TypeOK
  <1>2. Finish(r) => req'[r].at \notin DeletePositionSteps
    BY <1>1 DEF Finish, Idle, DeletePositionSteps
  <1>3. ASSUME NEW at, Goto(r, at), at \notin DeletePositionSteps,
               req[r].at \in {"delete_lot_count"} \cup CreateDividendSteps \cup UpdateDividendSteps
        PROVE  req'[r].at \notin DeletePositionSteps
    <2>1. req[r] \in InDeleteLot \cup InCreateDividend \cup InUpdateDividend
      BY <1>3, RequestShapes DEF TypeOK
    <2>2. [req[r] EXCEPT !.at = at].at = at
      BY <2>1 DEF InDeleteLot, InCreateDividend, InUpdateDividend
    <2>3. QED
      BY <1>1, <1>3, <2>2 DEF Goto
  <1>4. ASSUME NEW q, Continue(r, q), q.at \notin DeletePositionSteps
        PROVE  req'[r].at \notin DeletePositionSteps
    BY <1>1, <1>4
  <1>5. CASE \/ CreatePositionFind(r) \/ AddLotRead(r) \/ UpdateLotBegin(r)
             \/ DeleteLotBegin(r) \/ CreateDividendRead(r) \/ UpdateDividendRead(r)
             \/ DeleteDividendRead(r)
    <2>1. CASE CreatePositionFind(r)
      BY <2>1 DEF CreatePositionFind, Continue, DeletePositionSteps, TypeOK
    <2>2. CASE AddLotRead(r)
      BY <2>2 DEF AddLotRead, Continue, DeletePositionSteps, TypeOK
    <2>3. CASE UpdateLotBegin(r)
      BY <2>3 DEF UpdateLotBegin, Continue, DeletePositionSteps, TypeOK
    <2>4. CASE DeleteLotBegin(r)
      BY <2>4 DEF DeleteLotBegin, Continue, DeletePositionSteps, TypeOK
    <2>5. CASE CreateDividendRead(r)
      BY <2>5 DEF CreateDividendRead, Continue, DeletePositionSteps, TypeOK
    <2>6. CASE UpdateDividendRead(r)
      BY <2>6 DEF UpdateDividendRead, Continue, DeletePositionSteps, TypeOK
    <2>7. CASE DeleteDividendRead(r)
      BY <2>7 DEF DeleteDividendRead, Continue, DeletePositionSteps, TypeOK
    <2>8. QED
      BY <1>5, <2>1, <2>2, <2>3, <2>4, <2>5, <2>6, <2>7
  <1>6. CASE UpdateLotRead(r) \/ DeleteLotRead(r)
    BY <1>1, <1>2, <1>6 DEF UpdateLotRead, DeleteLotRead, DeletePositionSteps
  <1>7. CASE \/ CreatePositionCommit(r) \/ AddLotCommit(r) \/ UpdateLotCommit(r)
             \/ DeleteLotCommit(r) \/ DeletePositionCommit(r) \/ CreateDividendCommit(r)
             \/ UpdateDividendCommit(r) \/ DeleteDividendCommit(r)
    BY <1>2, <1>7, Zenon DEF CreatePositionCommit, AddLotCommit, UpdateLotCommit, DeleteLotCommit,
      DeletePositionCommit, CreateDividendCommit, UpdateDividendCommit, DeleteDividendCommit
  <1>8. CASE \/ DeleteLotCount(r) \/ CreateDividendCheckShares(r) \/ CreateDividendCheckYear(r)
    BY <1>2, <1>3, <1>8 DEF DeleteLotCount, CreateDividendCheckShares,
      CreateDividendCheckYear, DeletePositionSteps, CreateDividendSteps
  <1>9. CASE \/ UpdateDividendCheckPosition(r) \/ UpdateDividendCheckShares(r)
             \/ UpdateDividendCheckYear(r)
    BY <1>2, <1>3, <1>9 DEF UpdateDividendCheckPosition, UpdateDividendCheckShares,
      UpdateDividendCheckYear, DeletePositionSteps, UpdateDividendSteps
  <1>10. QED
    BY <1>5, <1>6, <1>7, <1>8, <1>9, Zenon DEF Arrive, Proceed

\* What a cascade knows of the rows it has locked.
LEMMA CascadeShape ==
    ASSUME SoundRequests, RequestsKnowHome, NEW r \in Cascading
    PROVE  /\ r \in Requests /\ req[r] \in InDeletePosition
           /\ req[r].position \in PositionId /\ positions[req[r].position] # None
           /\ \A l \in req[r].lots : l \in LotId /\ lots[l].position = req[r].position
           /\ \A t \in req[r].tranches : t \in TrancheId /\ tranches[t].position = req[r].position
  <1>1. r \in Requests /\ req[r].at \in DeletePositionSteps
    BY DEF Cascading, DeletePositionSteps
  <1>2. req[r] \in InDeletePosition
    BY <1>1, RequestShapes DEF SoundRequests, TypeOK
  <1>3. Sound(req[r], positions, lots, tranches) /\ Homed(req[r], lots, tranches)
    BY <1>1 DEF SoundRequests, RequestsKnowHome
  <1>4. QED
    BY <1>1, <1>2, <1>3 DEF Sound, Homed, InDeletePosition

\* The three steps before delete_position's commit.
LEMMA CascadeAdvances ==
    ASSUME TypeOK, NEW r \in Requests
    PROVE  /\ DeletePositionRead(r) =>
                req'[r].at = "delete_position" /\ req'[r].tranches = {}
           /\ DeletePositionLots(r) =>
                /\ req'[r].at = "delete_position_tranches"
                /\ req'[r].position = req[r].position /\ req'[r].tranches = req[r].tranches
           /\ DeletePositionTranches(r) =>
                /\ req'[r].at = "delete_position_commit"
                /\ req'[r].position = req[r].position /\ req'[r].lots = req[r].lots
  <1>1. \A q : Continue(r, q) => req'[r] = q
    BY DEF Continue, TypeOK
  <1>2. DeletePositionLots(r) \/ DeletePositionTranches(r) => req[r] \in InDeletePosition
    BY RequestShapes DEF DeletePositionLots, DeletePositionTranches, DeletePositionSteps, TypeOK
  <1>3. DeletePositionRead(r) => req'[r].at = "delete_position" /\ req'[r].tranches = {}
    BY DEF DeletePositionRead, Continue, TypeOK
  <1>4. QED
    BY <1>1, <1>2, <1>3 DEF DeletePositionLots, DeletePositionTranches, InDeletePosition

\* A cascade starts with a lock nobody holds, or goes on with its own.
LEMMA StepKeepsApart ==
    ASSUME TypeOK, CascadesApart, NEW r \in Requests, Arrive(r) \/ Proceed(r)
    PROVE  CascadesApart'
  <1>0. /\ DeletePositionRead(r) =>
             req'[r].at = "delete_position" /\ req'[r].tranches = {}
        /\ DeletePositionLots(r) =>
             req'[r].position = req[r].position /\ req'[r].tranches = req[r].tranches
        /\ DeletePositionTranches(r) =>
             req'[r].at = "delete_position_commit" /\ req'[r].position = req[r].position
    BY CascadeAdvances, Zenon
  <1>1. \A s \in Requests : s # r => req'[s] = req[s]
    BY OnlyOneMoves
  <1>2. \A s \in Requests : s # r => (s \in Cascading' <=> s \in Cascading)
    BY <1>1 DEF Cascading
  <1>3. ASSUME r \in Cascading', NEW s \in Cascading, s # r
        PROVE  req'[r].position # req[s].position
    <2>1. req'[r].at \in CascadeSteps
      BY <1>3 DEF Cascading, CascadeSteps
    <2>2. req'[r].at \in DeletePositionSteps /\ ~DeletePositionRead(r)
      BY <1>0, <2>1 DEF CascadeSteps, DeletePositionSteps
    <2>3. DeletePositionLots(r) \/ DeletePositionTranches(r)
      BY <2>2, OthersDoNotCascade, Zenon
    <2>4. CASE DeletePositionLots(r)
      <3>1. req[r].position \notin LockedPositions
        BY <2>4, Zenon DEF DeletePositionLots
      <3>2. req[s].position \in LockedPositions
        BY <1>3 DEF LockedPositions
      <3>3. QED
        BY <1>0, <2>4, <3>1, <3>2, Zenon
    <2>5. CASE DeletePositionTranches(r)
      <3>1. r \in Cascading
        BY <2>5 DEF DeletePositionTranches, Cascading
      <3>2. QED
        BY <1>0, <1>3, <2>5, <3>1, Zenon DEF CascadesApart
    <2>6. QED
      BY <2>3, <2>4, <2>5
  <1>4. Cascading \subseteq Requests /\ Cascading' \subseteq Requests
    BY DEF Cascading
  <1>5. \A s, q \in Cascading' : s # q => req'[s].position # req'[q].position
    BY <1>1, <1>2, <1>3, <1>4 DEF CascadesApart
  <1>6. ASSUME req'[r].at \in {"delete_position", "delete_position_tranches"}
        PROVE  req'[r].tranches = {}
    <2>1. req'[r].at \in DeletePositionSteps /\ ~DeletePositionTranches(r)
      BY <1>0, <1>6 DEF DeletePositionSteps
    <2>2. DeletePositionRead(r) \/ DeletePositionLots(r)
      BY <2>1, OthersDoNotCascade, Zenon
    <2>3. DeletePositionLots(r) => req[r].tranches = {}
      BY DEF DeletePositionLots, CascadesApart
    <2>4. QED
      BY <1>0, <2>2, <2>3, Zenon
  <1>7. \A s \in Requests :
           req'[s].at \in {"delete_position", "delete_position_tranches"} => req'[s].tranches = {}
    BY <1>1, <1>6 DEF CascadesApart
  <1>8. QED
    BY <1>5, <1>7 DEF CascadesApart

LEMMA LocksApart ==
    ASSUME SoundRequests, RequestsKnowHome, CascadesApart
    PROVE  LocksAreExclusive
  <1>1. SUFFICES ASSUME NEW r \in Cascading, NEW q \in Cascading, r # q
                 PROVE  /\ req[r].position # req[q].position
                        /\ req[r].lots \cap req[q].lots = {}
                        /\ req[r].tranches \cap req[q].tranches = {}
    BY DEF LocksAreExclusive
  <1>2. req[r].position # req[q].position
    BY <1>1 DEF CascadesApart
  <1>3. /\ \A l \in req[r].lots : lots[l].position = req[r].position
        /\ \A l \in req[q].lots : lots[l].position = req[q].position
        /\ \A t \in req[r].tranches : tranches[t].position = req[r].position
        /\ \A t \in req[q].tranches : tranches[t].position = req[q].position
    BY CascadeShape, Zenon
  <1>4. QED
    BY <1>2, <1>3

LEMMA CascadesStayApart ==
    Spec => [](SoundRequests /\ RequestsKnowHome /\ CascadesApart)
  <1>1. Init => CascadesApart
    BY DEF Init, CascadesApart, Cascading, Idle
  <1>2. TypeOK /\ CascadesApart /\ [Next]_vars => CascadesApart'
    <2>1. CascadesApart /\ UNCHANGED vars => CascadesApart'
      BY DEF CascadesApart, Cascading, vars
    <2>2. QED
      BY <2>1, StepKeepsApart DEF Next
  <1>3. SoundRequests => TypeOK
    BY DEF SoundRequests
  <1>4. QED
    BY <1>1, <1>2, <1>3, RequestsStayHomed, PTL DEF Spec

\* Two overlapping delete_position requests never hold a lock on the same row:
\* the first UPDATE takes the position's own row, and the other two take rows of
\* that position only (delete_position, portfolio/service.py).
THEOREM OneHolderPerRow == Spec => []LocksAreExclusive
  <1>1. SoundRequests /\ RequestsKnowHome /\ CascadesApart => LocksAreExclusive
    BY LocksApart
  <1>2. QED
    BY <1>1, CascadesStayApart, PTL

\* Nothing but its own next statement follows a cascade's UPDATE.
LEMMA CascadeGoesOn ==
    ASSUME NEW r \in Cascading, Arrive(r) \/ Proceed(r)
    PROVE  DeletePositionTranches(r) \/ DeletePositionCommit(r)
  <1>1. req[r].at \in CascadeSteps
    BY DEF Cascading, CascadeSteps
  <1>2. ~Arrive(r)
    <2>1. \A e : ~Starts(r, e)
      BY <1>1 DEF Starts, Idle, CascadeSteps
    <2>2. QED
      BY <2>1, Zenon DEF Arrive, CreatePositionFind, AddLotRead, UpdateLotBegin, DeleteLotBegin,
        DeletePositionRead, CreateDividendRead, UpdateDividendRead, DeleteDividendRead
  <1>3. ~(CreatePositionCommit(r) \/ AddLotCommit(r))
    BY <1>1 DEF CascadeSteps, CreatePositionCommit, AddLotCommit
  <1>4. ~(UpdateLotRead(r) \/ UpdateLotCommit(r))
    BY <1>1 DEF CascadeSteps, UpdateLotRead, UpdateLotCommit
  <1>5. ~(DeleteLotRead(r) \/ DeleteLotCount(r) \/ DeleteLotCommit(r) \/ DeletePositionLots(r))
    BY <1>1 DEF CascadeSteps, DeleteLotRead, DeleteLotCount, DeleteLotCommit, DeletePositionLots
  <1>6. ~(\/ CreateDividendCheckShares(r) \/ CreateDividendCheckYear(r)
          \/ CreateDividendCommit(r) \/ DeleteDividendCommit(r))
    BY <1>1 DEF CascadeSteps, CreateDividendCheckShares, CreateDividendCheckYear,
      CreateDividendCommit, DeleteDividendCommit
  <1>7. ~(\/ UpdateDividendCheckPosition(r) \/ UpdateDividendCheckShares(r)
          \/ UpdateDividendCheckYear(r) \/ UpdateDividendCommit(r))
    BY <1>1 DEF CascadeSteps, UpdateDividendCheckPosition, UpdateDividendCheckShares,
      UpdateDividendCheckYear, UpdateDividendCommit
  <1>8. QED
    BY <1>2, <1>3, <1>4, <1>5, <1>6, <1>7, Zenon DEF Proceed

\* No other request changes a row that cascade s has locked: an insert takes a
\* free key, an update or a delete waits for the lock, and another cascade has
\* locked other rows.
LEMMA OthersLeaveLocked ==
    ASSUME SoundRequests, RequestsKnowHome, CascadesApart,
           NEW s \in Cascading, NEW r \in Requests, r # s, Arrive(r) \/ Proceed(r)
    PROVE  /\ positions'[req[s].position] = positions[req[s].position]
           /\ \A l \in req[s].lots : lots'[l] = lots[l]
           /\ \A t \in req[s].tranches : tranches'[t] = tranches[t]
  <1>1. TypeOK
    BY DEF SoundRequests
  <1>2. /\ req[s].position \in PositionId /\ positions[req[s].position] # None
        /\ \A l \in req[s].lots : l \in LotId
        /\ \A t \in req[s].tranches : t \in TrancheId
    BY CascadeShape, Zenon
  <1>3. /\ \A l \in req[s].lots : lots[l] # None
        /\ \A t \in req[s].tranches : tranches[t] # None
    <2>1. s \in Requests /\ req[s].at \in DeletePositionSteps
      BY DEF Cascading, DeletePositionSteps
    <2>2. Sound(req[s], positions, lots, tranches)
      BY <2>1 DEF SoundRequests
    <2>3. QED
      BY <2>1, <2>2 DEF Sound
  <1>4. req[s].lots \subseteq LockedLots /\ req[s].tranches \subseteq LockedTranches
    BY DEF LockedLots, LockedTranches
  <1>5. CASE UNCHANGED Tables
    BY <1>5 DEF Tables
  <1>6. CASE CreatePositionCommit(r) \/ AddLotCommit(r)
    <2>1. ASSUME NEW p, NEW terms, InsertLot(p, terms) PROVE \A l \in req[s].lots : lots'[l] = lots[l]
      BY <1>1, <1>3, <2>1 DEF InsertLot, TypeOK
    <2>2. /\ UNCHANGED tranches
          /\ \E p, terms : InsertLot(p, terms)
      BY <1>6, Zenon DEF CreatePositionCommit, AddLotCommit
    <2>3. \/ UNCHANGED positions
          \/ \E p \in PositionId : \E new : positions[p] = None /\ positions' = [positions EXCEPT ![p] = new]
      BY <1>6, Zenon DEF CreatePositionCommit, AddLotCommit
    <2>4. positions'[req[s].position] = positions[req[s].position]
      BY <1>1, <1>2, <2>3 DEF TypeOK
    <2>5. QED
      BY <2>1, <2>2, <2>4
  <1>7. CASE UpdateLotCommit(r) \/ DeleteLotCommit(r)
    <2>1. /\ req[r].lot \notin LockedLots
          /\ UNCHANGED <<positions, tranches>>
          /\ UNCHANGED lots \/ \E new : lots' = [lots EXCEPT ![req[r].lot] = new]
      BY <1>7, Zenon DEF UpdateLotCommit, DeleteLotCommit
    <2>2. QED
      BY <1>1, <1>2, <1>4, <2>1 DEF TypeOK
  <1>8. CASE CreateDividendCommit(r)
    <2>1. /\ UNCHANGED <<positions, lots>>
          /\ \/ UNCHANGED tranches
             \/ \E t \in TrancheId : \E new : tranches[t] = None /\ tranches' = [tranches EXCEPT ![t] = new]
      BY <1>8, Zenon DEF CreateDividendCommit
    <2>2. QED
      BY <1>1, <1>2, <1>3, <2>1 DEF TypeOK
  <1>9. CASE UpdateDividendCommit(r) \/ DeleteDividendCommit(r)
    <2>1. /\ req[r].tranche \notin LockedTranches
          /\ UNCHANGED <<positions, lots>>
          /\ UNCHANGED tranches \/ \E new : tranches' = [tranches EXCEPT ![req[r].tranche] = new]
      BY <1>9, Zenon DEF UpdateDividendCommit, DeleteDividendCommit
    <2>2. QED
      BY <1>1, <1>2, <1>4, <2>1 DEF TypeOK
  <1>10. CASE DeletePositionCommit(r)
    <2>1. r \in Cascading
      BY <1>10 DEF DeletePositionCommit, Cascading
    <2>2. /\ req[r].position # req[s].position
          /\ req[r].lots \cap req[s].lots = {}
          /\ req[r].tranches \cap req[s].tranches = {}
      BY <2>1, LocksApart DEF LocksAreExclusive
    <2>3. QED
      BY <1>1, <1>2, <1>10, <2>2 DEF DeletePositionCommit, SoftDelete, TypeOK
  <1>11. QED
    BY <1>5, <1>6, <1>7, <1>8, <1>9, <1>10, ReadsWriteNothing

LEMMA StepLeavesLocked ==
    ASSUME SoundRequests, RequestsKnowHome, CascadesApart, NEW s \in Cascading, Next
    PROVE  StandsUntilCommit(s)
  <1>1. PICK r \in Requests : Arrive(r) \/ Proceed(r)
    BY DEF Next
  <1>2. TypeOK /\ s \in Requests
    BY DEF SoundRequests, Cascading
  <1>3. CASE r # s
    <2>1. req'[s] = req[s]
      BY <1>1, <1>2, <1>3, OnlyOneMoves
    <2>2. s \in Cascading'
      BY <1>2, <2>1 DEF Cascading
    <2>3. QED
      BY <1>1, <1>3, <2>1, <2>2, OthersLeaveLocked DEF StandsUntilCommit
  <1>4. CASE r = s
    <2>1. DeletePositionTranches(s) \/ DeletePositionCommit(s)
      BY <1>1, <1>4, CascadeGoesOn
    <2>2. ASSUME DeletePositionTranches(s) PROVE StandsUntilCommit(s)
      <3>1. /\ UNCHANGED <<positions, lots, tranches>>
            /\ req[s].at = "delete_position_tranches"
        BY <2>2 DEF DeletePositionTranches
      <3>2. req'[s].at = "delete_position_commit" /\ req'[s].lots = req[s].lots
        BY <1>2, <2>2, CascadeAdvances
      <3>3. req[s].tranches = {}
        BY <1>2, <3>1 DEF CascadesApart
      <3>4. s \in Cascading'
        BY <1>2, <3>2 DEF Cascading
      <3>5. QED
        BY <3>1, <3>2, <3>3, <3>4 DEF StandsUntilCommit
    <2>3. QED
      BY <2>1, <2>2 DEF StandsUntilCommit
  <1>5. QED
    BY <1>3, <1>4

\* Between its UPDATEs and its commit, a delete_position finds every row it has
\* locked as it left it, and no request gets past the lock (delete_position,
\* and the UPDATE statements of the other handlers, which name the row).
THEOREM LockedRowsAreLeftAlone == Spec => LockedRowsStand
  <1>1. SoundRequests /\ RequestsKnowHome /\ CascadesApart /\ [Next]_vars
          => [\A r \in Cascading : StandsUntilCommit(r)]_vars
    BY StepLeavesLocked
  <1>2. QED
    BY <1>1, CascadesStayApart, PTL DEF Spec, LockedRowsStand

-----------------------------------------------------------------------------
(* The business rules, each where the overlap that breaks it does not      *)
(* happen: what a request has checked still holds when it writes.          *)

\* The step that brings a request to the place where it has checked all it will.
LEMMA WhereStepsLead ==
    ASSUME TypeOK, NEW r \in Requests, Arrive(r) \/ Proceed(r)
    PROVE  /\ req'[r].at = "create_position" => CreatePositionFind(r)
           /\ req'[r].at = "add_lot" => AddLotRead(r)
           /\ req'[r].at = "delete_lot" => DeleteLotCount(r)
           /\ req'[r].at \in CreateDividendSteps =>
                \/ CreateDividendRead(r)
                \/ CreateDividendCheckShares(r) /\ req'[r].at = "create_dividend_year"
                \/ CreateDividendCheckYear(r) /\ req'[r].at = "create_dividend"
           /\ req'[r].at = "update_dividend" => UpdateDividendCheckYear(r)
  <1>1. \A q : Continue(r, q) => req'[r] = q
    BY DEF Continue, TypeOK
  <1>2. Finish(r) => req'[r].at = "idle"
    BY <1>1 DEF Finish, Idle
  <1>3. ASSUME NEW at, Goto(r, at),
               req[r].at \in {"delete_lot_count"} \cup CreateDividendSteps \cup UpdateDividendSteps
        PROVE  req'[r].at = at
    <2>1. req[r] \in InDeleteLot \cup InCreateDividend \cup InUpdateDividend
      BY <1>3, RequestShapes DEF TypeOK
    <2>2. [req[r] EXCEPT !.at = at].at = at
      BY <2>1 DEF InDeleteLot, InCreateDividend, InUpdateDividend
    <2>3. QED
      BY <1>1, <1>3, <2>2 DEF Goto
  <1>4. CASE CreatePositionFind(r)
    <2>1. req'[r].at = "create_position"
      BY <1>4 DEF CreatePositionFind, Continue, TypeOK
    <2>2. QED
      BY <1>4, <2>1 DEF CreateDividendSteps
  <1>5. CASE AddLotRead(r)
    <2>1. req'[r].at = "add_lot"
      BY <1>5 DEF AddLotRead, Continue, TypeOK
    <2>2. QED
      BY <1>5, <2>1 DEF CreateDividendSteps
  <1>6. CASE UpdateLotBegin(r)
    <2>1. req'[r].at = "update_lot_read"
      BY <1>6 DEF UpdateLotBegin, Continue, TypeOK
    <2>2. QED
      BY <1>6, <2>1 DEF CreateDividendSteps
  <1>7. CASE DeleteLotBegin(r)
    <2>1. req'[r].at = "delete_lot_read"
      BY <1>7 DEF DeleteLotBegin, Continue, TypeOK
    <2>2. QED
      BY <1>7, <2>1 DEF CreateDividendSteps
  <1>8. CASE DeletePositionRead(r)
    <2>1. req'[r].at = "delete_position"
      BY <1>8 DEF DeletePositionRead, Continue, TypeOK
    <2>2. QED
      BY <1>8, <2>1 DEF CreateDividendSteps
  <1>9. CASE CreateDividendRead(r)
    <2>1. req'[r].at = "create_dividend_lots"
      BY <1>9 DEF CreateDividendRead, Continue, TypeOK
    <2>2. QED
      BY <1>9, <2>1 DEF CreateDividendSteps
  <1>10. CASE UpdateDividendRead(r)
    <2>1. req'[r].at = "update_dividend_position"
      BY <1>10 DEF UpdateDividendRead, Continue, TypeOK
    <2>2. QED
      BY <1>10, <2>1 DEF CreateDividendSteps
  <1>11. CASE DeleteDividendRead(r)
    <2>1. req'[r].at = "delete_dividend"
      BY <1>11 DEF DeleteDividendRead, Continue, TypeOK
    <2>2. QED
      BY <1>11, <2>1 DEF CreateDividendSteps
  <1>12. CASE UpdateLotRead(r) \/ DeleteLotRead(r)
    BY <1>1, <1>2, <1>12 DEF UpdateLotRead, DeleteLotRead, CreateDividendSteps
  <1>13. CASE \/ CreatePositionCommit(r) \/ AddLotCommit(r) \/ UpdateLotCommit(r)
              \/ DeleteLotCommit(r) \/ DeletePositionCommit(r) \/ CreateDividendCommit(r)
              \/ UpdateDividendCommit(r) \/ DeleteDividendCommit(r)
    <2>1. Finish(r)
      BY <1>13, Zenon DEF CreatePositionCommit, AddLotCommit, UpdateLotCommit, DeleteLotCommit,
        DeletePositionCommit, CreateDividendCommit, UpdateDividendCommit, DeleteDividendCommit
    <2>2. QED
      BY <1>2, <2>1 DEF CreateDividendSteps
  <1>14. CASE DeletePositionLots(r) \/ DeletePositionTranches(r)
    <2>1. req'[r].at \in CascadeSteps
      BY <1>14, CascadeAdvances DEF CascadeSteps
    <2>2. QED
      BY <2>1 DEF CascadeSteps, CreateDividendSteps
  <1>15. CASE DeleteLotCount(r) \/ CreateDividendCheckShares(r) \/ CreateDividendCheckYear(r)
    BY <1>2, <1>3, <1>15 DEF DeleteLotCount, CreateDividendCheckShares,
      CreateDividendCheckYear, CreateDividendSteps
  <1>16. CASE \/ UpdateDividendCheckPosition(r) \/ UpdateDividendCheckShares(r)
              \/ UpdateDividendCheckYear(r)
    BY <1>2, <1>3, <1>16 DEF UpdateDividendCheckPosition, UpdateDividendCheckShares,
      UpdateDividendCheckYear, CreateDividendSteps, UpdateDividendSteps
  <1>17. QED
    BY <1>4, <1>5, <1>6, <1>7, <1>8, <1>9, <1>10, <1>11, <1>12, <1>13, <1>14, <1>15, <1>16, Zenon
    DEF Arrive, Proceed

\* What each write does to the active lots and to the positions.
LEMMA LotInserted ==
    ASSUME TypeOK, NEW p \in PositionId, NEW terms \in LotTerms, InsertLot(p, terms)
    PROVE  \E l \in LotId : \A q \in PositionId :
             ActiveLots(q)' = IF q = p THEN ActiveLots(q) \cup {l} ELSE ActiveLots(q)
  <1>1. PICK l \in LotId : /\ lots[l] = None
                           /\ lots' = [lots EXCEPT ![l] = NewRow(p, terms)]
    BY DEF InsertLot
  <1>2. /\ lots'[l] = NewRow(p, terms)
        /\ \A k \in LotId : k # l => lots'[k] = lots[k]
    BY <1>1 DEF TypeOK
  <1>3. NewRow(p, terms) # None
    <2>1. NewRow(p, terms) \in LotRow
      BY BoundsAssumption DEF LotRow, NewRow
    <2>2. QED
      BY <2>1, NoneAssumption
  <1>4. lots'[l] # None /\ lots'[l].position = p /\ ~lots'[l].deleted
    BY <1>2, <1>3 DEF NewRow
  <1>5. QED
    BY <1>1, <1>2, <1>4 DEF ActiveLots

LEMMA LotUpdated ==
    ASSUME SoundRequests, NEW r \in Requests, UpdateLotCommit(r)
    PROVE  \A q \in PositionId : ActiveLots(q)' = ActiveLots(q)
  <1> DEFINE l == req[r].lot
  <1>1. TypeOK
    BY DEF SoundRequests
  <1>2. l \in LotId
    BY <1>1, RequestShapes DEF TypeOK, UpdateLotCommit, InUpdateLot
  <1>3. lots[l] # None /\ lots[l] \in LotRow
    BY <1>1, <1>2 DEF SoundRequests, Sound, Snapshot, UpdateLotCommit, TypeOK
  <1>4. CASE lots' = [lots EXCEPT ![l] = Edited(@, req[r].terms)]
    <2>1. /\ lots'[l] = Edited(lots[l], req[r].terms)
          /\ \A k \in LotId : k # l => lots'[k] = lots[k]
      BY <1>1, <1>2, <1>4 DEF TypeOK
    <2>2. lots'[l] # None
      BY <1>2, <1>3, UpdateLotKeeps DEF RowsKept
    <2>3. lots'[l].position = lots[l].position /\ lots'[l].deleted = lots[l].deleted
      BY <1>3, <2>1, EditedRow
    <2>4. QED
      BY <1>3, <2>1, <2>2, <2>3 DEF ActiveLots
  <1>5. CASE UNCHANGED lots
    BY <1>5 DEF ActiveLots
  <1>6. QED
    BY <1>4, <1>5 DEF UpdateLotCommit

LEMMA LotDeleted ==
    ASSUME SoundRequests, NEW r \in Requests, DeleteLotCommit(r)
    PROVE  \A q \in PositionId : ActiveLots(q)' = ActiveLots(q) \ {req[r].lot}
  <1> DEFINE l == req[r].lot
  <1>1. TypeOK
    BY DEF SoundRequests
  <1>2. l \in LotId
    BY <1>1, RequestShapes DEF TypeOK, DeleteLotCommit, InDeleteLot
  <1>3. lots[l] # None /\ lots[l] \in LotRow
    BY <1>1, <1>2 DEF SoundRequests, Sound, DeleteLotCommit, TypeOK
  <1>4. /\ lots'[l] = Gone(lots[l])
        /\ \A k \in LotId : k # l => lots'[k] = lots[k]
    BY <1>1, <1>2 DEF TypeOK, DeleteLotCommit
  <1>5. lots'[l].deleted
    BY <1>3, <1>4, GoneRow
  <1>6. QED
    BY <1>4, <1>5 DEF ActiveLots

\* A lot of a position the request has found, or of the position it creates.
Inserted(r, p, l) ==
    /\ \A q \in PositionId :
         ActiveLots(q)' = IF q = p THEN ActiveLots(q) \cup {l} ELSE ActiveLots(q)
    /\ \/ UNCHANGED positions /\ req[r].position = p
       \/ /\ req[r].at = "create_position" /\ req[r].position = None
          /\ positions[p] = None
          /\ positions' = [positions EXCEPT ![p] =
                [portfolio |-> req[r].portfolio, stock |-> req[r].stock, deleted |-> FALSE]]
          /\ positions'[p] # None /\ ~positions'[p].deleted
          /\ positions'[p].portfolio = req[r].portfolio
          /\ positions'[p].stock = req[r].stock
          /\ \A q \in PositionId : q # p => positions'[q] = positions[q]

LEMMA InsertionShape ==
    ASSUME SoundRequests, NEW r \in Requests, CreatePositionCommit(r) \/ AddLotCommit(r)
    PROVE  \E p \in PositionId, l \in LotId : Inserted(r, p, l)
  <1>1. TypeOK
    BY DEF SoundRequests
  <1>2. CASE AddLotCommit(r)
    <2>1. req[r].position \in PositionId /\ req[r].terms \in LotTerms
      BY <1>1, <1>2, RequestShapes DEF TypeOK, AddLotCommit, InAddLot
    <2>2. PICK l \in LotId : \A q \in PositionId :
            ActiveLots(q)' = IF q = req[r].position THEN ActiveLots(q) \cup {l}
                                                   ELSE ActiveLots(q)
      BY <1>1, <1>2, <2>1, LotInserted DEF AddLotCommit
    <2>3. QED
      BY <1>2, <2>1, <2>2 DEF AddLotCommit, Inserted
  <1>3. CASE CreatePositionCommit(r)
    <2>1. req[r] \in InCreatePosition
      BY <1>1, <1>3, RequestShapes DEF TypeOK, CreatePositionCommit
    <2>2. req[r].terms \in LotTerms
      BY <2>1 DEF InCreatePosition
    <2>3. CASE /\ req[r].position # None /\ InsertLot(req[r].position, req[r].terms)
               /\ UNCHANGED positions
      <3>1. req[r].position \in PositionId
        BY <2>1, <2>3 DEF InCreatePosition
      <3>2. PICK l \in LotId : \A q \in PositionId :
              ActiveLots(q)' = IF q = req[r].position THEN ActiveLots(q) \cup {l}
                                                     ELSE ActiveLots(q)
        BY <1>1, <2>2, <2>3, <3>1, LotInserted
      <3>3. QED
        BY <2>3, <3>1, <3>2 DEF Inserted
    <2>4. ASSUME NEW p \in PositionId, positions[p] = None, req[r].position = None,
                 positions' = [positions EXCEPT ![p] =
                     [portfolio |-> req[r].portfolio, stock |-> req[r].stock,
                      deleted |-> FALSE]],
                 InsertLot(p, req[r].terms)
          PROVE  \E l \in LotId : Inserted(r, p, l)
      <3>1. [portfolio |-> req[r].portfolio, stock |-> req[r].stock,
             deleted |-> FALSE] \in PositionRow
        BY <2>1 DEF InCreatePosition, PositionRow
      <3>2. /\ positions'[p] = [portfolio |-> req[r].portfolio, stock |-> req[r].stock,
                                deleted |-> FALSE]
            /\ \A q \in PositionId : q # p => positions'[q] = positions[q]
        BY <1>1, <2>4 DEF TypeOK
      <3>3. positions'[p] # None
        BY <3>1, <3>2, NoneAssumption
      <3>4. PICK l \in LotId : \A q \in PositionId :
              ActiveLots(q)' = IF q = p THEN ActiveLots(q) \cup {l} ELSE ActiveLots(q)
        BY <1>1, <2>2, <2>4, LotInserted
      <3>5. QED
        BY <1>3, <2>4, <3>2, <3>3, <3>4 DEF Inserted, CreatePositionCommit
    <2>5. QED
      BY <1>3, <2>3, <2>4 DEF CreatePositionCommit
  <1>4. QED
    BY <1>2, <1>3

\* A deleted position takes with it the rows its request has locked, all of
\* them its own.
PositionGone(r) ==
    LET p == req[r].position IN
    /\ p \in PositionId /\ positions[p] # None
    /\ positions'[p] # None /\ positions'[p].deleted
    /\ \A q \in PositionId : q # p => positions'[q] = positions[q]
    /\ \A q \in PositionId : ActiveLots(q)' = ActiveLots(q) \ req[r].lots
    /\ \A q \in PositionId : ActiveTranches(q)' = ActiveTranches(q) \ req[r].tranches
    /\ \A q \in PositionId : q # p => /\ ActiveLots(q) \cap req[r].lots = {}
                                      /\ ActiveTranches(q) \cap req[r].tranches = {}
    /\ \A t \in TrancheId : tranches[t] = None => tranches'[t] = None
    /\ \A t \in TrancheId : tranches[t] # None => tranches'[t].terms = tranches[t].terms

LEMMA DeletionShape ==
    ASSUME SoundRequests, RequestsKnowHome, NEW r \in Requests, DeletePositionCommit(r)
    PROVE  PositionGone(r)
  <1> DEFINE p == req[r].position
  <1>1. TypeOK /\ r \in Cascading
    BY DEF SoundRequests, Cascading, DeletePositionCommit
  <1>2. /\ p \in PositionId /\ positions[p] # None
        /\ \A l \in req[r].lots : l \in LotId /\ lots[l].position = p
        /\ \A t \in req[r].tranches : t \in TrancheId /\ tranches[t].position = p
    BY <1>1, CascadeShape, Zenon
  <1>3. /\ positions'[p] = Gone(positions[p])
        /\ \A q \in PositionId : q # p => positions'[q] = positions[q]
    BY <1>1, <1>2 DEF TypeOK, DeletePositionCommit
  <1>4. positions[p] \in PositionRow
    BY <1>1, <1>2 DEF TypeOK
  <1>5. positions'[p] \in PositionRow /\ positions'[p].deleted
    BY <1>3, <1>4 DEF Gone, PositionRow
  <1>6. \A l \in LotId :
          lots'[l] = IF l \in req[r].lots THEN Gone(lots[l]) ELSE lots[l]
    BY <1>1 DEF TypeOK, DeletePositionCommit, SoftDelete
  <1>7. \A t \in TrancheId :
          tranches'[t] = IF t \in req[r].tranches THEN Gone(tranches[t]) ELSE tranches[t]
    BY <1>1 DEF TypeOK, DeletePositionCommit, SoftDelete
  <1>8. /\ \A l \in req[r].lots : lots[l] # None
        /\ \A t \in req[r].tranches : tranches[t] # None
    BY DEF SoundRequests, Sound, DeletePositionCommit, DeletePositionSteps
  <1>9. \A l \in req[r].lots : lots'[l].deleted
    <2>1. ASSUME NEW l \in req[r].lots PROVE lots'[l].deleted
      <3>1. l \in LotId /\ lots[l] \in LotRow /\ lots'[l] = Gone(lots[l])
        BY <1>1, <1>2, <1>6, <1>8 DEF TypeOK
      <3>2. QED
        BY <3>1, GoneRow
    <2>2. QED
      BY <2>1
  <1>10. \A t \in req[r].tranches :
           tranches'[t].deleted /\ tranches'[t].terms = tranches[t].terms
    <2>1. ASSUME NEW t \in req[r].tranches
          PROVE  tranches'[t].deleted /\ tranches'[t].terms = tranches[t].terms
      <3>1. t \in TrancheId /\ tranches[t] \in TrancheRow /\ tranches'[t] = Gone(tranches[t])
        BY <1>1, <1>2, <1>7, <1>8 DEF TypeOK
      <3>2. QED
        BY <3>1, GoneRow
    <2>2. QED
      BY <2>1
  <1>11. \A q \in PositionId : ActiveLots(q)' = ActiveLots(q) \ req[r].lots
    BY <1>2, <1>6, <1>9 DEF ActiveLots
  <1>12. \A q \in PositionId : ActiveTranches(q)' = ActiveTranches(q) \ req[r].tranches
    BY <1>2, <1>7, <1>10 DEF ActiveTranches
  <1>13. \A q \in PositionId : q # p => /\ ActiveLots(q) \cap req[r].lots = {}
                                        /\ ActiveTranches(q) \cap req[r].tranches = {}
    BY <1>2 DEF ActiveLots, ActiveTranches
  <1>14. /\ \A t \in TrancheId : tranches[t] = None => tranches'[t] = None
         /\ \A t \in TrancheId : tranches[t] # None => tranches'[t].terms = tranches[t].terms
    BY <1>7, <1>8, <1>10
  <1>15. positions'[p] # None
    BY <1>5, NoneAssumption
  <1>16. QED
    BY <1>2, <1>3, <1>5, <1>11, <1>12, <1>13, <1>14, <1>15 DEF PositionGone

-----------------------------------------------------------------------------
(* The last lot.  A request that has counted the lots of an active         *)
(* position leaves one there when it deletes its own.                      *)

LeavesALot(q, p) ==
    q.at = "delete_lot" /\ q.seen.position = p /\ ActivePosition(p) =>
        ActiveLots(p) \ {q.lot} # {}

LotsRemain ==
    ActivePositionHasLot /\ \A r \in Requests, p \in PositionId : LeavesALot(req[r], p)

\* Where a position stays active, only the deletion of a lot takes one away,
\* and a position that becomes active has one.
LEMMA LotsOfAnActivePosition ==
    ASSUME SoundRequests, RequestsKnowHome, NEW r \in Requests, Arrive(r) \/ Proceed(r),
           NEW p \in PositionId, ActivePosition(p)'
    PROVE  /\ ~DeleteLotCommit(r) => ActiveLots(p) \subseteq ActiveLots(p)'
           /\ ActivePosition(p) \/ (positions[p] = None /\ ActiveLots(p)' # {})
  <1>1. CASE UNCHANGED <<positions, lots>>
    BY <1>1 DEF ActiveLots, ActivePosition
  <1>2. CASE CreatePositionCommit(r) \/ AddLotCommit(r)
    <2>1. PICK q \in PositionId, l \in LotId : Inserted(r, q, l)
      BY <1>2, InsertionShape
    <2>2. ActiveLots(p) \subseteq ActiveLots(p)'
      BY <2>1 DEF Inserted
    <2>3. ActivePosition(p) \/ (positions[p] = None /\ ActiveLots(p)' # {})
      BY <2>1 DEF Inserted, ActivePosition
    <2>4. QED
      BY <2>2, <2>3
  <1>3. CASE UpdateLotCommit(r)
    BY <1>3, LotUpdated DEF UpdateLotCommit, ActivePosition
  <1>4. CASE DeleteLotCommit(r)
    BY <1>4 DEF DeleteLotCommit, ActivePosition
  <1>5. CASE DeletePositionCommit(r)
    <2>1. PositionGone(r)
      BY <1>5, DeletionShape
    <2>2. p # req[r].position
      BY <2>1 DEF PositionGone, ActivePosition
    <2>3. QED
      BY <2>1, <2>2 DEF PositionGone, ActivePosition
  <1>6. QED
    BY <1>1, <1>2, <1>3, <1>4, <1>5, ReadsWriteNothing
    DEF Tables, CreateDividendCommit, UpdateDividendCommit, DeleteDividendCommit

\* What a request about to delete a lot knows.
LEMMA DeletionOfALot ==
    ASSUME SoundRequests, RequestsKnowHome, AllAnchored, NEW r \in Requests,
           req[r].at \in {"delete_lot_count", "delete_lot"}
    PROVE  /\ req[r] \in InDeleteLot /\ req[r].lot \in LotId
           /\ req[r].seen.position \in PositionId
           /\ lots[req[r].lot] # None /\ lots[req[r].lot].position = req[r].seen.position
           /\ positions[req[r].seen.position] # None
  <1>1. TypeOK /\ Sound(req[r], positions, lots, tranches) /\ Homed(req[r], lots, tranches)
    BY DEF SoundRequests, RequestsKnowHome
  <1>2. req[r] \in InDeleteLot
    BY <1>1, RequestShapes DEF TypeOK
  <1>3. req[r].lot \in LotId /\ req[r].seen.position \in PositionId
    BY <1>2 DEF InDeleteLot, LotRow
  <1>4. lots[req[r].lot] # None /\ lots[req[r].lot].position = req[r].seen.position
    BY <1>1 DEF Sound, Homed
  <1>5. QED
    BY <1>2, <1>3, <1>4 DEF AllAnchored, RowsHavePositions

LEMMA StepKeepsALot ==
    ASSUME SoundRequests, RequestsKnowHome, AllAnchored, LotDeletionsApart, LotsRemain,
           NEW r \in Requests, Arrive(r) \/ Proceed(r)
    PROVE  LotsRemain'
  <1>1. TypeOK
    BY DEF SoundRequests
  <1>2. \A s \in Requests : s # r => req'[s] = req[s]
    BY <1>1, OnlyOneMoves
  \* No other request's deletion takes the lot that request s leaves.
  <1>3. ASSUME NEW s \in Requests, s # r, NEW p \in PositionId PROVE LeavesALot(req[s], p)'
    <2>1. SUFFICES ASSUME req[s].at = "delete_lot", req[s].seen.position = p,
                          ActivePosition(p)'
                   PROVE  ActiveLots(p)' \ {req[s].lot} # {}
      BY <1>2, <1>3 DEF LeavesALot
    <2>2. positions[p] # None
      BY <2>1, DeletionOfALot
    <2>3. ActivePosition(p)
      BY <2>1, <2>2, LotsOfAnActivePosition
    <2>4. ActiveLots(p) \ {req[s].lot} # {}
      BY <2>1, <2>3 DEF LotsRemain, LeavesALot
    <2>5. CASE ~DeleteLotCommit(r)
      BY <2>1, <2>4, <2>5, LotsOfAnActivePosition
    <2>6. CASE DeleteLotCommit(r)
      <3>1. req[r].at = "delete_lot"
        BY <2>6 DEF DeleteLotCommit
      <3>2. req[r].seen.position # p
        BY <1>3, <2>1, <3>1 DEF LotDeletionsApart
      <3>3. req[r].lot \notin ActiveLots(p)
        BY <3>1, <3>2, DeletionOfALot DEF ActiveLots
      <3>4. ActiveLots(p)' = ActiveLots(p)
        BY <2>6, <3>3, LotDeleted
      <3>5. QED
        BY <2>4, <3>4
    <2>7. QED
      BY <2>5, <2>6
  \* The request that has just counted has seen a second lot.
  <1>4. ASSUME NEW p \in PositionId PROVE LeavesALot(req[r], p)'
    <2>1. SUFFICES ASSUME req'[r].at = "delete_lot", req'[r].seen.position = p
                   PROVE  ActiveLots(p)' \ {req'[r].lot} # {}
      BY DEF LeavesALot
    <2>2. DeleteLotCount(r)
      BY <1>1, <2>1, WhereStepsLead
    <2>3. /\ req[r].at = "delete_lot_count" /\ UNCHANGED lots
          /\ Finish(r) \/ (OtherLotLeft(req[r].seen.position) /\ Goto(r, "delete_lot"))
      BY <2>2 DEF DeleteLotCount
    <2>4. ~Finish(r)
      BY <1>1, <2>1 DEF Finish, Continue, Idle, TypeOK
    <2>5. req[r] \in InDeleteLot
      BY <2>3, DeletionOfALot
    <2>6. req'[r] = [req[r] EXCEPT !.at = "delete_lot"]
      BY <1>1, <2>3, <2>4 DEF Goto, Continue, TypeOK
    <2>7. req[r].seen.position = p /\ req'[r].lot = req[r].lot
      BY <2>1, <2>5, <2>6 DEF InDeleteLot
    <2>8. Cardinality(ActiveLots(p)) > 1
      BY <2>3, <2>4, <2>7 DEF OtherLotLeft
    <2>9. ActiveLots(p) # {} /\ ActiveLots(p) # {req[r].lot}
      <3>1. Cardinality({}) = 0 /\ Cardinality({req[r].lot}) = 1
        BY FS_EmptySet, FS_Singleton, Zenon
      <3>2. QED
        BY <2>8, <3>1
    <2>10. ActiveLots(p)' = ActiveLots(p)
      BY <2>3 DEF ActiveLots
    <2>11. QED
      BY <2>7, <2>9, <2>10
  <1>5. ASSUME NEW s \in Requests, NEW p \in PositionId PROVE LeavesALot(req[s], p)'
    BY <1>3, <1>4
  <1>6. ActivePositionHasLot'
    <2>1. SUFFICES ASSUME NEW p \in PositionId, ActivePosition(p)' PROVE ActiveLots(p)' # {}
      BY DEF ActivePositionHasLot
    <2>2. CASE ~ActivePosition(p)
      BY <2>1, <2>2, LotsOfAnActivePosition
    <2>3. CASE ActivePosition(p) /\ ~DeleteLotCommit(r)
      BY <2>1, <2>3, LotsOfAnActivePosition DEF LotsRemain, ActivePositionHasLot
    <2>4. CASE ActivePosition(p) /\ DeleteLotCommit(r)
      <3>1. req[r].at = "delete_lot" /\ ActiveLots(p)' = ActiveLots(p) \ {req[r].lot}
        BY <2>4, LotDeleted DEF DeleteLotCommit
      <3>2. CASE req[r].seen.position = p
        BY <2>4, <3>1, <3>2 DEF LotsRemain, LeavesALot
      <3>3. CASE req[r].seen.position # p
        <4>1. req[r].lot \notin ActiveLots(p)
          BY <3>1, <3>3, DeletionOfALot DEF ActiveLots
        <4>2. QED
          BY <2>4, <3>1, <4>1 DEF LotsRemain, ActivePositionHasLot
      <3>4. QED
        BY <3>2, <3>3
    <2>5. QED
      BY <2>2, <2>3, <2>4
  <1>7. QED
    BY <1>5, <1>6 DEF LotsRemain

LEMMA RequestsStayAnchored ==
    Spec => [](SoundRequests /\ RequestsKnowHome /\ AllAnchored)
  <1>1. Init => AllAnchored
    BY DEF Init, AllAnchored, RowsHavePositions, Anchored, Idle, CreateDividendSteps
  <1>2. SoundRequests /\ AllAnchored /\ [Next]_vars => AllAnchored'
    BY StepAnchored
  <1>3. QED
    BY <1>1, <1>2, RequestsStayHomed, PTL DEF Spec

\* As long as no two requests have counted the lots of one position at the
\* same time, delete_lot's guard leaves an active lot in every active position,
\* whatever else overlaps: edits, purchases, cascades, creations
\* (delete_lot, portfolio/service.py).
THEOREM LastLotIsGuarded == Spec => LastLotGuarded
  <1>1. Init => LotsRemain
    BY DEF Init, LotsRemain, ActivePositionHasLot, ActivePosition, LeavesALot, Idle
  <1>2. /\ SoundRequests /\ RequestsKnowHome /\ AllAnchored /\ LotDeletionsApart
        /\ LotsRemain /\ [Next]_vars
        => LotsRemain'
    <2>1. LotsRemain /\ UNCHANGED vars => LotsRemain'
      BY DEF LotsRemain, ActivePositionHasLot, ActivePosition, LeavesALot, ActiveLots, vars
    <2>2. QED
      BY <2>1, StepKeepsALot DEF Next
  <1>3. LotsRemain => ActivePositionHasLot
    BY DEF LotsRemain
  <1>4. QED
    BY <1>1, <1>2, <1>3, RequestsStayAnchored, PTL DEF Spec, LastLotGuarded

-----------------------------------------------------------------------------
(* One position per stock.  A request that will create a position still    *)
(* finds none when it commits.                                             *)

Unclaimed(q, pf, st) ==
    q.at = "create_position" /\ q.position = None /\ q.portfolio = pf /\ q.stock = st =>
        ActiveByStock(pf, st) = {}

StocksAreHeldOnce ==
    /\ OnePositionPerStock
    /\ \A r \in Requests, pf \in Portfolios, st \in Stocks : Unclaimed(req[r], pf, st)

\* Where a position is active after a step, it was before, or a request that had
\* found none of its stock has created it.
LEMMA ActivePositionsComeFrom ==
    ASSUME SoundRequests, RequestsKnowHome, NEW r \in Requests, Arrive(r) \/ Proceed(r)
    PROVE  \/ \A p \in PositionId :
                ActivePosition(p)' => ActivePosition(p) /\ positions'[p] = positions[p]
           \/ /\ req[r].at = "create_position" /\ req[r].position = None
              /\ \E n \in PositionId :
                   /\ positions'[n].portfolio = req[r].portfolio
                   /\ positions'[n].stock = req[r].stock
                   /\ \A p \in PositionId : p # n => positions'[p] = positions[p]
  <1>1. CASE UNCHANGED positions
    BY <1>1 DEF ActivePosition
  <1>2. CASE CreatePositionCommit(r) \/ AddLotCommit(r)
    <2>1. PICK q \in PositionId, l \in LotId : Inserted(r, q, l)
      BY <1>2, InsertionShape
    <2>2. QED
      BY <1>1, <2>1 DEF Inserted
  <1>3. CASE DeletePositionCommit(r)
    BY <1>3, DeletionShape DEF PositionGone, ActivePosition
  <1>4. QED
    BY <1>1, <1>2, <1>3, ReadsWriteNothing
    DEF Tables, UpdateLotCommit, DeleteLotCommit, CreateDividendCommit, UpdateDividendCommit,
      DeleteDividendCommit

LEMMA StepKeepsStocksApart ==
    ASSUME SoundRequests, RequestsKnowHome, CreationsApart, StocksAreHeldOnce,
           NEW r \in Requests, Arrive(r) \/ Proceed(r)
    PROVE  StocksAreHeldOnce'
  <1>1. TypeOK /\ \A s \in Requests : s # r => req'[s] = req[s]
    BY OnlyOneMoves DEF SoundRequests
  <1>2. CASE \A p \in PositionId :
               ActivePosition(p)' => ActivePosition(p) /\ positions'[p] = positions[p]
    <2>1. OnePositionPerStock'
      BY <1>2 DEF StocksAreHeldOnce, OnePositionPerStock
    <2>2. \A pf, st : ActiveByStock(pf, st)' \subseteq ActiveByStock(pf, st)
      BY <1>2 DEF ActiveByStock, OwnedActive
    <2>3. ASSUME NEW s \in Requests, s # r, NEW pf \in Portfolios, NEW st \in Stocks
          PROVE  Unclaimed(req[s], pf, st)'
      BY <1>1, <2>2, <2>3 DEF StocksAreHeldOnce, Unclaimed
    <2>4. ASSUME NEW pf \in Portfolios, NEW st \in Stocks PROVE Unclaimed(req[r], pf, st)'
      <3>1. SUFFICES ASSUME req'[r].at = "create_position", req'[r].position = None,
                            req'[r].portfolio = pf, req'[r].stock = st
                     PROVE  ActiveByStock(pf, st)' = {}
        BY DEF Unclaimed
      <3>2. CreatePositionFind(r)
        BY <1>1, <3>1, WhereStepsLead
      <3>3. PICK f \in Portfolios, c \in Stocks, terms \in LotTerms :
              \E p \in IF ActiveByStock(f, c) = {} THEN {None} ELSE ActiveByStock(f, c) :
                Continue(r, [at |-> "create_position", portfolio |-> f, stock |-> c,
                             position |-> p, terms |-> terms])
        BY <3>2 DEF CreatePositionFind
      <3>4. PICK p \in IF ActiveByStock(f, c) = {} THEN {None} ELSE ActiveByStock(f, c) :
              req'[r] = [at |-> "create_position", portfolio |-> f, stock |-> c,
                         position |-> p, terms |-> terms]
        BY <1>1, <3>3 DEF Continue, TypeOK
      <3>5. p = None /\ f = pf /\ c = st
        BY <3>1, <3>4
      <3>6. ActiveByStock(pf, st) = {}
        BY <3>4, <3>5, NoneAssumption DEF ActiveByStock
      <3>7. QED
        BY <2>2, <3>6
    <2>5. QED
      BY <2>1, <2>3, <2>4 DEF StocksAreHeldOnce
  <1>3. ASSUME req[r].at = "create_position", req[r].position = None,
               NEW n \in PositionId,
               positions'[n].portfolio = req[r].portfolio, positions'[n].stock = req[r].stock,
               \A p \in PositionId : p # n => positions'[p] = positions[p]
        PROVE  StocksAreHeldOnce'
    <2>1. ActiveByStock(req[r].portfolio, req[r].stock) = {}
      <3>1. req[r].portfolio \in Portfolios /\ req[r].stock \in Stocks
        BY <1>1, <1>3, RequestShapes DEF TypeOK, InCreatePosition
      <3>2. QED
        BY <1>3, <3>1 DEF StocksAreHeldOnce, Unclaimed
    <2>2. \A p \in PositionId : p # n /\ ActivePosition(p)' => ActivePosition(p)
      BY <1>3 DEF ActivePosition
    <2>3. \A p \in PositionId : p # n /\ ActivePosition(p)' =>
            ~(/\ positions'[p].portfolio = positions'[n].portfolio
              /\ positions'[p].stock = positions'[n].stock)
      BY <1>3, <2>1, <2>2 DEF ActiveByStock, OwnedActive
    <2>4. OnePositionPerStock'
      <3>1. SUFFICES ASSUME NEW p \in PositionId, NEW q \in PositionId,
                            ActivePosition(p)', ActivePosition(q)',
                            positions'[p].portfolio = positions'[q].portfolio,
                            positions'[p].stock = positions'[q].stock
                     PROVE  p = q
        BY DEF OnePositionPerStock
      <3>2. CASE p = n \/ q = n
        BY <2>3, <3>1, <3>2
      <3>3. CASE p # n /\ q # n
        BY <1>3, <2>2, <3>1, <3>3 DEF StocksAreHeldOnce, OnePositionPerStock
      <3>4. QED
        BY <3>2, <3>3
    <2>5. req'[r].at # "create_position"
      <3>1. ~Starts(r, "create_position")
        BY <1>3 DEF Starts, Idle
      <3>2. QED
        BY <1>1, <3>1, WhereStepsLead DEF CreatePositionFind
    <2>6. ASSUME NEW s \in Requests, s # r, NEW pf \in Portfolios, NEW st \in Stocks
          PROVE  Unclaimed(req[s], pf, st)'
      <3>1. SUFFICES ASSUME req[s].at = "create_position", req[s].position = None,
                            req[s].portfolio = pf, req[s].stock = st
                     PROVE  ActiveByStock(pf, st)' = {}
        BY <1>1, <2>6 DEF Unclaimed
      <3>2. ~(pf = req[r].portfolio /\ st = req[r].stock)
        BY <1>3, <2>6, <3>1 DEF CreationsApart
      <3>3. ActiveByStock(pf, st) = {}
        BY <3>1 DEF StocksAreHeldOnce, Unclaimed
      <3>4. QED
        BY <1>3, <2>2, <3>2, <3>3 DEF ActiveByStock, OwnedActive
    <2>7. \A s \in Requests, pf \in Portfolios, st \in Stocks : Unclaimed(req[s], pf, st)'
      BY <2>5, <2>6 DEF Unclaimed
    <2>8. QED
      BY <2>4, <2>7 DEF StocksAreHeldOnce
  <1>4. QED
    BY <1>2, <1>3, ActivePositionsComeFrom

\* As long as no two requests have both found no position of one stock, a
\* portfolio has at most one active position of it: nothing else that overlaps
\* creates a second one (create_position, get_active_position_by_stock, EC-001).
THEOREM PositionsAreUnique == Spec /\ []CreationsApart => []OnePositionPerStock
  <1>1. Init => StocksAreHeldOnce
    BY DEF Init, StocksAreHeldOnce, OnePositionPerStock, ActivePosition, Unclaimed, Idle
  <1>2. /\ SoundRequests /\ RequestsKnowHome /\ CreationsApart /\ StocksAreHeldOnce
        /\ [Next]_vars
        => StocksAreHeldOnce'
    <2>1. StocksAreHeldOnce /\ UNCHANGED vars => StocksAreHeldOnce'
      BY DEF StocksAreHeldOnce, OnePositionPerStock, ActivePosition, Unclaimed, ActiveByStock,
        OwnedActive, vars
    <2>2. QED
      BY <2>1, StepKeepsStocksApart DEF Next
  <1>3. StocksAreHeldOnce => OnePositionPerStock
    BY DEF StocksAreHeldOnce
  <1>4. QED
    BY <1>1, <1>2, <1>3, RequestsStayHomed, PTL DEF Spec

-----------------------------------------------------------------------------
(* The cascade.  What a deletion has locked is all that is left of its     *)
(* position, and what will be inserted goes into an active position.       *)

LEMMA DividendCreated ==
    ASSUME SoundRequests, NEW r \in Requests, CreateDividendCommit(r), ~UNCHANGED tranches
    PROVE  \E t \in TrancheId :
             /\ tranches[t] = None /\ tranches'[t] # None
             /\ tranches'[t].position = req[r].position
             /\ tranches'[t].terms = Terms(req[r].body)
             /\ \A k \in TrancheId : k # t => tranches'[k] = tranches[k]
             /\ \A q \in PositionId :
                  ActiveTranches(q)' = IF q = req[r].position THEN ActiveTranches(q) \cup {t}
                                                             ELSE ActiveTranches(q)
  <1> DEFINE p == req[r].position
             terms == Terms(req[r].body)
  <1>1. TypeOK
    BY DEF SoundRequests
  <1>2. req[r] \in InCreateDividend
    BY <1>1, RequestShapes DEF TypeOK, CreateDividendCommit, CreateDividendSteps
  <1>3. p \in PositionId /\ terms \in TrancheTerms
    BY <1>2, TermsType DEF InCreateDividend
  <1>4. PICK t \in TrancheId : /\ tranches[t] = None
                               /\ tranches' = [tranches EXCEPT ![t] = NewRow(p, terms)]
    BY DEF CreateDividendCommit
  <1> HIDE DEF terms
  <1>5. /\ tranches'[t] = NewRow(p, terms)
        /\ \A k \in TrancheId : k # t => tranches'[k] = tranches[k]
    BY <1>1, <1>4 DEF TypeOK
  <1>6. NewRow(p, terms) # None
    <2>1. NewRow(p, terms) \in TrancheRow
      BY <1>3, BoundsAssumption DEF TrancheRow, NewRow
    <2>2. QED
      BY <2>1, NoneAssumption
  <1>7. /\ tranches'[t] # None /\ tranches'[t].position = p /\ ~tranches'[t].deleted
        /\ tranches'[t].terms = terms
    BY <1>5, <1>6 DEF NewRow
  <1>8. \A q \in PositionId :
          ActiveTranches(q)' = IF q = p THEN ActiveTranches(q) \cup {t} ELSE ActiveTranches(q)
    BY <1>4, <1>5, <1>7 DEF ActiveTranches
  <1>9. QED
    BY <1>4, <1>5, <1>7, <1>8 DEF terms

LEMMA DividendUpdated ==
    ASSUME SoundRequests, NEW r \in Requests, UpdateDividendCommit(r), ~UNCHANGED tranches
    PROVE  /\ req[r].tranche \in TrancheId /\ tranches[req[r].tranche] # None
           /\ tranches'[req[r].tranche].position = tranches[req[r].tranche].position
           /\ tranches'[req[r].tranche].terms = Terms(req[r].body)
           /\ \A k \in TrancheId : k # req[r].tranche => tranches'[k] = tranches[k]
           /\ \A q \in PositionId : ActiveTranches(q)' = ActiveTranches(q)
  <1> DEFINE t == req[r].tranche
             terms == Terms(req[r].body)
  <1>1. TypeOK
    BY DEF SoundRequests
  <1>2. req[r] \in InUpdateDividend
    BY <1>1, RequestShapes DEF TypeOK, UpdateDividendCommit, UpdateDividendSteps
  <1>3. t \in TrancheId
    BY <1>2 DEF InUpdateDividend
  <1>4. tranches[t] # None /\ tranches[t] \in TrancheRow
    BY <1>1, <1>3
    DEF SoundRequests, Sound, Snapshot, UpdateDividendCommit, UpdateDividendSteps, TypeOK
  <1>5. tranches' = [tranches EXCEPT ![t] = Edited(@, terms)]
    BY DEF UpdateDividendCommit
  <1> HIDE DEF terms
  <1>6. /\ tranches'[t] = Edited(tranches[t], terms)
        /\ \A k \in TrancheId : k # t => tranches'[k] = tranches[k]
    BY <1>1, <1>3, <1>5 DEF TypeOK
  <1>7. tranches'[t] # None
    BY <1>3, <1>4, UpdateDividendKeeps DEF RowsKept
  <1>8. /\ tranches'[t].position = tranches[t].position
        /\ tranches'[t].deleted = tranches[t].deleted /\ tranches'[t].terms = terms
    BY <1>4, <1>6, EditedRow
  <1>9. \A q \in PositionId : ActiveTranches(q)' = ActiveTranches(q)
    BY <1>4, <1>6, <1>7, <1>8 DEF ActiveTranches
  <1>10. QED
    BY <1>3, <1>4, <1>6, <1>8, <1>9 DEF terms

LEMMA DividendDeleted ==
    ASSUME SoundRequests, NEW r \in Requests, DeleteDividendCommit(r)
    PROVE  /\ \A q \in PositionId : ActiveTranches(q)' \subseteq ActiveTranches(q)
           /\ \A t \in TrancheId : tranches[t] = None => tranches'[t] = None
           /\ \A t \in TrancheId : tranches[t] # None =>
                /\ tranches'[t].terms = tranches[t].terms
                /\ tranches'[t].version = tranches[t].version
  <1> DEFINE t == req[r].tranche
  <1>1. TypeOK
    BY DEF SoundRequests
  <1>2. t \in TrancheId
    BY <1>1, RequestShapes DEF TypeOK, DeleteDividendCommit, InDeleteDividend
  <1>3. tranches[t] # None /\ tranches[t] \in TrancheRow
    BY <1>1, <1>2 DEF SoundRequests, Sound, DeleteDividendCommit, TypeOK
  <1>4. /\ tranches'[t] = Gone(tranches[t])
        /\ \A k \in TrancheId : k # t => tranches'[k] = tranches[k]
    BY <1>1, <1>2 DEF TypeOK, DeleteDividendCommit
  <1>5. /\ tranches'[t].deleted /\ tranches'[t].terms = tranches[t].terms
        /\ tranches'[t].version = tranches[t].version
    BY <1>3, <1>4, GoneRow
  <1>6. QED
    BY <1>3, <1>4, <1>5 DEF ActiveTranches

\* A position ends with its own cascade.
LEMMA WherePositionsEnd ==
    ASSUME SoundRequests, RequestsKnowHome, NEW r \in Requests, Arrive(r) \/ Proceed(r),
           NEW p \in PositionId
    PROVE  /\ positions'[p] # None /\ positions'[p].deleted =>
                /\ positions[p] # None
                /\ positions[p].deleted \/ (DeletePositionCommit(r) /\ req[r].position = p)
           /\ ActivePosition(p) =>
                ActivePosition(p)' \/ (DeletePositionCommit(r) /\ req[r].position = p)
  <1>1. CASE UNCHANGED positions
    BY <1>1 DEF ActivePosition
  <1>2. CASE CreatePositionCommit(r) \/ AddLotCommit(r)
    <2>1. PICK q \in PositionId, l \in LotId : Inserted(r, q, l)
      BY <1>2, InsertionShape
    <2>2. QED
      BY <1>1, <2>1 DEF Inserted, ActivePosition
  <1>3. CASE DeletePositionCommit(r)
    BY <1>3, DeletionShape DEF PositionGone, ActivePosition
  <1>4. QED
    BY <1>1, <1>2, <1>3, ReadsWriteNothing
    DEF Tables, UpdateLotCommit, DeleteLotCommit, CreateDividendCommit, UpdateDividendCommit,
      DeleteDividendCommit

\* An active lot appears where a request inserts it, or with a new position.
LEMMA WhereLotsAppear ==
    ASSUME SoundRequests, RequestsKnowHome, NEW r \in Requests, Arrive(r) \/ Proceed(r),
           NEW p \in PositionId
    PROVE  \/ ActiveLots(p)' \subseteq ActiveLots(p)
           \/ Inserts(req[r], p) /\ UNCHANGED positions
           \/ positions[p] = None /\ ActivePosition(p)'
  <1>1. CASE UNCHANGED lots
    BY <1>1 DEF ActiveLots
  <1>2. CASE CreatePositionCommit(r) \/ AddLotCommit(r)
    <2>1. PICK q \in PositionId, l \in LotId : Inserted(r, q, l)
      BY <1>2, InsertionShape
    <2>2. req[r].at \in {"create_position", "add_lot"}
      BY <1>2 DEF CreatePositionCommit, AddLotCommit
    <2>3. CASE p = q
      BY <2>1, <2>2, <2>3 DEF Inserted, Inserts, ActivePosition
    <2>4. CASE p # q
      BY <2>1, <2>4 DEF Inserted
    <2>5. QED
      BY <2>3, <2>4
  <1>3. CASE UpdateLotCommit(r) \/ DeleteLotCommit(r)
    BY <1>3, LotUpdated, LotDeleted
  <1>4. CASE DeletePositionCommit(r)
    BY <1>4, DeletionShape DEF PositionGone
  <1>5. QED
    BY <1>1, <1>2, <1>3, <1>4, ReadsWriteNothing
    DEF Tables, CreateDividendCommit, UpdateDividendCommit, DeleteDividendCommit

LEMMA WhereTranchesAppear ==
    ASSUME SoundRequests, RequestsKnowHome, NEW r \in Requests, Arrive(r) \/ Proceed(r),
           NEW p \in PositionId
    PROVE  \/ ActiveTranches(p)' \subseteq ActiveTranches(p)
           \/ Inserts(req[r], p) /\ UNCHANGED positions
  <1>1. CASE UNCHANGED tranches
    BY <1>1 DEF ActiveTranches
  <1>2. CASE CreateDividendCommit(r) /\ ~UNCHANGED tranches
    <2>1. PICK t \in TrancheId : \A q \in PositionId :
            ActiveTranches(q)' = IF q = req[r].position THEN ActiveTranches(q) \cup {t}
                                                       ELSE ActiveTranches(q)
      BY <1>2, DividendCreated
    <2>2. req[r].at \in CreateDividendSteps /\ UNCHANGED positions
      BY <1>2 DEF CreateDividendCommit, CreateDividendSteps
    <2>3. QED
      BY <2>1, <2>2 DEF Inserts
  <1>3. CASE UpdateDividendCommit(r) /\ ~UNCHANGED tranches
    BY <1>3, DividendUpdated
  <1>4. CASE DeleteDividendCommit(r)
    BY <1>4, DividendDeleted
  <1>5. CASE DeletePositionCommit(r)
    BY <1>5, DeletionShape DEF PositionGone
  <1>6. QED
    BY <1>1, <1>2, <1>3, <1>4, <1>5, ReadsWriteNothing
    DEF Tables, CreatePositionCommit, AddLotCommit, UpdateLotCommit, DeleteLotCommit

ReachesAll(q, p) ==
    /\ q.at \in CascadeSteps /\ q.position = p => ActiveLots(p) \subseteq q.lots
    /\ q.at = "delete_position_commit" /\ q.position = p => ActiveTranches(p) \subseteq q.tranches

NothingEscapes ==
    /\ NoActiveOrphan
    /\ \A r \in Requests, p \in PositionId :
         ReachesAll(req[r], p) /\ (Inserts(req[r], p) => ActivePosition(p))

\* The request that takes a step will insert into a position it has seen active.
LEMMA InsertionsFindActive ==
    ASSUME SoundRequests, NothingEscapes, NEW r \in Requests, Arrive(r) \/ Proceed(r),
           NEW p \in PositionId, Inserts(req'[r], p)
    PROVE  UNCHANGED positions /\ ActivePosition(p)
  <1>1. TypeOK
    BY DEF SoundRequests
  <1>2. \A q : Continue(r, q) => req'[r] = q
    BY <1>1 DEF Continue, TypeOK
  <1>3. \/ CreatePositionFind(r) \/ AddLotRead(r) \/ CreateDividendRead(r)
        \/ CreateDividendCheckShares(r) \/ CreateDividendCheckYear(r)
    BY <1>1, WhereStepsLead DEF Inserts
  <1>4. CASE CreatePositionFind(r)
    <2>1. PICK f \in Portfolios, c \in Stocks, terms \in LotTerms :
            \E q \in IF ActiveByStock(f, c) = {} THEN {None} ELSE ActiveByStock(f, c) :
              Continue(r, [at |-> "create_position", portfolio |-> f, stock |-> c,
                           position |-> q, terms |-> terms])
      BY <1>4 DEF CreatePositionFind
    <2>2. PICK q \in IF ActiveByStock(f, c) = {} THEN {None} ELSE ActiveByStock(f, c) :
            req'[r] = [at |-> "create_position", portfolio |-> f, stock |-> c,
                       position |-> q, terms |-> terms]
      BY <1>2, <2>1
    <2>3. q = p
      BY <2>2 DEF Inserts
    <2>4. p # None
      BY NoneAssumption
    <2>5. QED
      BY <1>4, <2>2, <2>3, <2>4 DEF ActiveByStock, OwnedActive, CreatePositionFind
  <1>5. CASE AddLotRead(r)
    <2>1. PICK f \in Portfolios, q \in PositionId, terms \in LotTerms :
            OwnedActive(f, q) /\ req'[r] = [at |-> "add_lot", position |-> q, terms |-> terms]
      BY <1>2, <1>5 DEF AddLotRead
    <2>2. QED
      BY <1>5, <2>1 DEF Inserts, OwnedActive, AddLotRead
  <1>6. CASE CreateDividendRead(r)
    <2>1. PICK f \in Portfolios, q \in PositionId, body \in DividendBody :
            /\ OwnedActive(f, q)
            /\ req'[r] = [at |-> "create_dividend_lots", position |-> q, body |-> body]
      BY <1>2, <1>6 DEF CreateDividendRead
    <2>2. QED
      BY <1>6, <2>1 DEF Inserts, OwnedActive, CreateDividendRead
  <1>7. CASE CreateDividendCheckShares(r) \/ CreateDividendCheckYear(r)
    <2>1. /\ UNCHANGED positions /\ req[r].at \in CreateDividendSteps
          /\ Finish(r) \/ \E at : Goto(r, at)
      BY <1>7 DEF CreateDividendCheckShares, CreateDividendCheckYear, CreateDividendSteps
    <2>2. ~Finish(r)
      BY <1>2 DEF Finish, Inserts, Idle, CreateDividendSteps
    <2>3. PICK at : req'[r] = [req[r] EXCEPT !.at = at]
      BY <1>2, <2>1, <2>2 DEF Goto
    <2>4. req[r] \in InCreateDividend
      BY <1>1, <2>1, RequestShapes DEF TypeOK
    <2>5. req'[r].position = req[r].position
      BY <2>3, <2>4 DEF InCreateDividend
    <2>6. Inserts(req[r], p)
      BY <2>1, <2>5 DEF Inserts
    <2>7. QED
      BY <2>1, <2>6 DEF NothingEscapes
  <1>8. QED
    BY <1>3, <1>4, <1>5, <1>6, <1>7

LEMMA StepLetsNothingEscape ==
    ASSUME SoundRequests, RequestsKnowHome, CascadesAlone, NothingEscapes,
           NEW r \in Requests, Arrive(r) \/ Proceed(r)
    PROVE  NothingEscapes'
  <1>1. TypeOK /\ \A s \in Requests : s # r => req'[s] = req[s]
    BY OnlyOneMoves DEF SoundRequests
  <1>2. ASSUME NEW s \in Requests, NEW p \in PositionId, Inserts(req'[s], p)
        PROVE  ActivePosition(p)'
    <2>1. CASE s = r
      BY <1>2, <2>1, InsertionsFindActive DEF ActivePosition
    <2>2. CASE s # r
      <3>1. Inserts(req[s], p) /\ ActivePosition(p)
        BY <1>1, <1>2, <2>2 DEF NothingEscapes
      <3>2. ~(DeletePositionCommit(r) /\ req[r].position = p)
        BY <3>1 DEF CascadesAlone, DeletePositionCommit, DeletePositionSteps
      <3>3. QED
        BY <3>1, <3>2, WherePositionsEnd
    <2>3. QED
      BY <2>1, <2>2
  <1>3. ASSUME NEW s \in Requests, s # r, NEW p \in PositionId PROVE ReachesAll(req[s], p)'
    <2>1. SUFFICES ASSUME req[s].at \in CascadeSteps, req[s].position = p
                   PROVE  ReachesAll(req[s], p)'
      BY <1>1, <1>3 DEF ReachesAll, CascadeSteps
    <2>2. req[s].at \in DeletePositionSteps
      BY <2>1 DEF CascadeSteps, DeletePositionSteps
    <2>3. positions[p] # None /\ ~Inserts(req[r], p)
      BY <2>1, <2>2 DEF SoundRequests, Sound, CascadesAlone
    <2>4. /\ ActiveLots(p)' \subseteq ActiveLots(p)
          /\ ActiveTranches(p)' \subseteq ActiveTranches(p)
      BY <2>3, WhereLotsAppear, WhereTranchesAppear
    <2>5. ReachesAll(req[s], p) /\ req'[s] = req[s]
      BY <1>1, <1>3 DEF NothingEscapes
    <2>6. QED
      BY <2>4, <2>5 DEF ReachesAll
  <1>4. ASSUME NEW p \in PositionId PROVE ReachesAll(req[r], p)'
    <2>1. SUFFICES ASSUME req'[r].at \in CascadeSteps, req'[r].position = p
                   PROVE  ReachesAll(req[r], p)'
      BY DEF ReachesAll, CascadeSteps
    <2>2. DeletePositionLots(r) \/ DeletePositionTranches(r)
      <3>1. req'[r].at \in DeletePositionSteps /\ req'[r].at # "delete_position"
        BY <2>1 DEF CascadeSteps, DeletePositionSteps
      <3>2. QED
        BY <1>1, <3>1, OthersDoNotCascade, CascadeAdvances
    <2>3. /\ req[r] \in InDeletePosition /\ UNCHANGED <<lots, tranches>>
          /\ req'[r].position = req[r].position
      BY <1>1, <2>2, CascadeAdvances, RequestShapes
      DEF DeletePositionLots, DeletePositionTranches, DeletePositionSteps, TypeOK
    <2>4. ActiveLots(p)' = ActiveLots(p) /\ ActiveTranches(p)' = ActiveTranches(p)
      BY <2>3 DEF ActiveLots, ActiveTranches
    <2>5. CASE DeletePositionLots(r)
      <3>1. req'[r] = [req[r] EXCEPT !.at = "delete_position_tranches", !.lots = ActiveLots(p)]
        BY <1>1, <2>1, <2>3, <2>5 DEF DeletePositionLots, Continue, TypeOK
      <3>2. req'[r].at = "delete_position_tranches" /\ req'[r].lots = ActiveLots(p)
        BY <2>3, <3>1 DEF InDeletePosition
      <3>3. QED
        BY <2>4, <3>2 DEF ReachesAll
    <2>6. CASE DeletePositionTranches(r)
      <3>1. req'[r] = [req[r] EXCEPT !.at = "delete_position_commit",
                                     !.tranches = ActiveTranches(p)]
        BY <1>1, <2>1, <2>3, <2>6 DEF DeletePositionTranches, Continue, TypeOK
      <3>2. req'[r].lots = req[r].lots /\ req'[r].tranches = ActiveTranches(p)
        BY <2>3, <3>1 DEF InDeletePosition
      <3>3. ActiveLots(p) \subseteq req[r].lots
        BY <2>1, <2>3, <2>6
        DEF NothingEscapes, ReachesAll, DeletePositionTranches, CascadeSteps
      <3>4. QED
        BY <2>4, <3>2, <3>3 DEF ReachesAll
    <2>7. QED
      BY <2>2, <2>5, <2>6
  <1>5. NoActiveOrphan'
    <2>1. SUFFICES ASSUME NEW p \in PositionId, positions'[p] # None, positions'[p].deleted
                   PROVE  ActiveLots(p)' = {} /\ ActiveTranches(p)' = {}
      BY DEF NoActiveOrphan
    <2>2. positions[p] # None /\ ~ActivePosition(p)'
      BY <2>1, WherePositionsEnd DEF ActivePosition
    <2>3. CASE positions[p].deleted
      <3>1. ~Inserts(req[r], p) /\ ActiveLots(p) = {} /\ ActiveTranches(p) = {}
        BY <2>2, <2>3 DEF NothingEscapes, NoActiveOrphan, ActivePosition
      <3>2. QED
        BY <2>2, <3>1, WhereLotsAppear, WhereTranchesAppear
    <2>4. CASE DeletePositionCommit(r) /\ req[r].position = p
      <3>1. ActiveLots(p) \subseteq req[r].lots /\ ActiveTranches(p) \subseteq req[r].tranches
        BY <2>4 DEF NothingEscapes, ReachesAll, DeletePositionCommit, CascadeSteps
      <3>2. QED
        BY <2>4, <3>1, DeletionShape DEF PositionGone
    <2>5. QED
      BY <2>1, <2>3, <2>4, WherePositionsEnd
  <1>6. \A s \in Requests, p \in PositionId : (Inserts(req[s], p) => ActivePosition(p))'
    BY <1>2
  <1>7. QED
    BY <1>3, <1>4, <1>5, <1>6 DEF NothingEscapes

\* As long as nothing is inserted into a position that another request is
\* deleting, a deleted position has no active lot or tranche left, whatever edits
\* and deletions of single rows, or of the same position, overlap
\* (delete_position; get_dividend_calendar relies on it).
THEOREM CascadeReachesAll == Spec => CascadeIsComplete
  <1>1. Init => NothingEscapes
    BY DEF Init, NothingEscapes, NoActiveOrphan, ReachesAll, Inserts, Idle, CascadeSteps,
      CreateDividendSteps
  <1>2. /\ SoundRequests /\ RequestsKnowHome /\ CascadesAlone /\ NothingEscapes
        /\ [Next]_vars
        => NothingEscapes'
    <2>1. NothingEscapes /\ UNCHANGED vars => NothingEscapes'
      BY DEF NothingEscapes, NoActiveOrphan, ReachesAll, Inserts, ActivePosition, ActiveLots,
        ActiveTranches, vars
    <2>2. QED
      BY <2>1, StepLetsNothingEscape DEF Next
  <1>3. NothingEscapes => NoActiveOrphan
    BY DEF NothingEscapes
  <1>4. QED
    BY <1>1, <1>2, <1>3, RequestsStayHomed, PTL DEF Spec, CascadeIsComplete

-----------------------------------------------------------------------------
(* The years of dividends.  What a request has checked of a year still     *)
(* holds when it writes.                                                   *)

InYear(p, y) == {t \in ActiveTranches(p) : tranches[t].terms.year = y}

Stored == {t \in TrancheId : tranches[t] # None}

\* The rule for one position and year; the tranches there are finitely many,
\* since each of them was inserted.
YearRule(p, y) ==
    /\ Cardinality(InYear(p, y)) <= TranchesPerYear
    /\ \A t, u \in InYear(p, y) :
         tranches[t].terms.body.label = tranches[u].terms.body.label => t = u

TrancheRules == IsFiniteSet(Stored) /\ \A p \in PositionId, y \in Nat : YearRule(p, y)

YearStaysFree(q, p, t, body) ==
    /\ q.at = "create_dividend" /\ q.position = p /\ q.body = body =>
         YearAllows(p, None, body)
    /\ q.at = "update_dividend" /\ q.seen.position = p /\ q.tranche = t /\ q.body = body =>
         YearAllows(p, t, body)

YearsStayInBounds ==
    /\ TrancheRules
    /\ \A r \in Requests, p \in PositionId, t \in TrancheId, body \in DividendBody :
         YearStaysFree(req[r], p, t, body)

LEMMA YearsAreFinite ==
    ASSUME TrancheRules, NEW p, NEW y
    PROVE  IsFiniteSet(InYear(p, y)) /\ Cardinality(InYear(p, y)) \in Nat
  <1>1. InYear(p, y) \subseteq Stored
    BY DEF InYear, Stored, ActiveTranches
  <1>2. IsFiniteSet(InYear(p, y))
    BY <1>1, FS_Subset DEF TrancheRules
  <1>3. QED
    BY <1>2, FS_CardinalityType

\* Fewer tranches with unchanged terms keep the rule of a year.
LEMMA FewerInYear ==
    ASSUME TrancheRules, NEW p \in PositionId, NEW y \in Nat,
           InYear(p, y)' \subseteq InYear(p, y),
           \A t \in InYear(p, y)' : tranches'[t].terms = tranches[t].terms
    PROVE  YearRule(p, y)'
  <1>1. YearRule(p, y)
    BY DEF TrancheRules
  <1>2. Cardinality(InYear(p, y)') <= Cardinality(InYear(p, y))
        /\ IsFiniteSet(InYear(p, y)')
    BY YearsAreFinite, FS_Subset
  <1>3. Cardinality(InYear(p, y)') \in Nat /\ Cardinality(InYear(p, y)) \in Nat
    BY <1>2, YearsAreFinite, FS_CardinalityType
  <1>4. Cardinality(InYear(p, y)') <= TranchesPerYear
    BY <1>1, <1>2, <1>3, BoundsAssumption DEF YearRule
  <1>5. QED
    BY <1>1, <1>4 DEF YearRule

\* One more tranche, which the year had room for and whose label is new.
LEMMA OneMoreInYear ==
    ASSUME TrancheRules, NEW p \in PositionId, NEW y \in Nat, NEW t, NEW others,
           others \subseteq InYear(p, y), t \notin others,
           InYear(p, y)' \subseteq others \cup {t},
           \A u \in others : tranches'[u].terms = tranches[u].terms,
           Cardinality(others) < TranchesPerYear,
           \A u \in others : tranches[u].terms.body.label # tranches'[t].terms.body.label
    PROVE  YearRule(p, y)'
  <1>1. YearRule(p, y)
    BY DEF TrancheRules
  <1>2. IsFiniteSet(others) /\ Cardinality(others) \in Nat
    BY YearsAreFinite, FS_Subset, FS_CardinalityType
  <1>3. /\ IsFiniteSet(others \cup {t})
        /\ Cardinality(others \cup {t}) = Cardinality(others) + 1
    BY <1>2, FS_AddElement
  <1>4. /\ Cardinality(InYear(p, y)') <= Cardinality(others \cup {t})
        /\ Cardinality(InYear(p, y)') \in Nat
    BY <1>3, FS_Subset, FS_CardinalityType
  <1>5. Cardinality(InYear(p, y)') <= TranchesPerYear
    BY <1>2, <1>3, <1>4, BoundsAssumption
  <1>6. \A u, v \in others \cup {t} :
          tranches'[u].terms.body.label = tranches'[v].terms.body.label => u = v
    BY <1>1 DEF YearRule
  <1>7. QED
    BY <1>5, <1>6 DEF YearRule

\* Fewer active tranches, none of them changed.
LEMMA FewerTranches ==
    ASSUME TrancheRules,
           \A q \in PositionId : ActiveTranches(q)' \subseteq ActiveTranches(q),
           \A t \in TrancheId : tranches[t] = None => tranches'[t] = None,
           \A t \in TrancheId : tranches[t] # None => tranches'[t].terms = tranches[t].terms
    PROVE  IsFiniteSet(Stored)' /\ \A p \in PositionId, y \in Nat : YearRule(p, y)'
  <1>1. IsFiniteSet(Stored')
    <2>1. Stored' \subseteq Stored
      BY DEF Stored
    <2>2. QED
      BY <2>1, FS_Subset DEF TrancheRules
  <1>2. ASSUME NEW p \in PositionId, NEW y \in Nat PROVE YearRule(p, y)'
    <2>1. /\ InYear(p, y)' \subseteq InYear(p, y)
          /\ \A t \in InYear(p, y)' : tranches'[t].terms = tranches[t].terms
      BY DEF InYear, ActiveTranches
    <2>2. QED
      BY <2>1, FewerInYear
  <1>3. QED
    BY <1>1, <1>2

LEMMA CreateDividendKeepsRules ==
    ASSUME SoundRequests, YearsStayInBounds, NEW r \in Requests,
           CreateDividendCommit(r), ~UNCHANGED tranches
    PROVE  TrancheRules'
  <1> DEFINE b == req[r].body
  <1>1. TypeOK /\ TrancheRules /\ req[r].at = "create_dividend"
    BY DEF SoundRequests, YearsStayInBounds, CreateDividendCommit
  <1>2. req[r] \in InCreateDividend
    BY <1>1, RequestShapes DEF TypeOK, CreateDividendSteps
  <1>3. PICK p \in PositionId : p = req[r].position
    BY <1>2 DEF InCreateDividend
  <1>4. YearAllows(p, None, b)
    <2>1. PICK t \in TrancheId : tranches[t] = None
      BY DividendCreated
    <2>2. b \in DividendBody
      BY <1>2 DEF InCreateDividend
    <2>3. QED
      BY <1>1, <1>3, <2>1, <2>2 DEF YearsStayInBounds, YearStaysFree
  <1>5. PICK t \in TrancheId :
          /\ tranches[t] = None /\ tranches'[t] # None
          /\ tranches'[t].terms = Terms(b)
          /\ \A k \in TrancheId : k # t => tranches'[k] = tranches[k]
          /\ \A q \in PositionId :
               ActiveTranches(q)' = IF q = p THEN ActiveTranches(q) \cup {t}
                                             ELSE ActiveTranches(q)
    BY <1>3, DividendCreated
  <1>6. Terms(b).body = b /\ Terms(b).year = Year(b.payment)
    BY DEF Terms
  <1>7. IsFiniteSet(Stored')
    <2>1. Stored' = Stored \cup {t}
      BY <1>5 DEF Stored
    <2>2. QED
      BY <1>1, <2>1, FS_AddElement DEF TrancheRules
  <1> HIDE DEF b
  <1>8. ASSUME NEW q \in PositionId, NEW y \in Nat PROVE YearRule(q, y)'
    <2>1. \A k \in ActiveTranches(q) : k # t /\ tranches'[k] = tranches[k]
      BY <1>5 DEF ActiveTranches
    <2>2. CASE q = p /\ y = Year(b.payment)
      <3>1. /\ Cardinality(InYear(q, y)) < TranchesPerYear
            /\ \A k \in InYear(q, y) : tranches[k].terms.body.label # b.label
        <4>1. ActiveTranches(p) \ {None} = ActiveTranches(p)
          BY NoneAssumption DEF ActiveTranches
        <4>2. InYear(q, y)
                = {k \in ActiveTranches(p) \ {None} : tranches[k].terms.year = Year(b.payment)}
          BY <2>2, <4>1 DEF InYear
        <4>3. QED
          BY <1>4, <4>2 DEF YearAllows
      <3>2. InYear(q, y)' \subseteq InYear(q, y) \cup {t} /\ t \notin InYear(q, y)
        BY <1>5, <2>1 DEF InYear
      <3>3. \A k \in InYear(q, y) : tranches'[k].terms = tranches[k].terms
        BY <2>1 DEF InYear
      <3>4. tranches'[t].terms.body.label = b.label
        BY <1>5, <1>6
      <3>5. QED
        BY <1>1, <3>1, <3>2, <3>3, <3>4, OneMoreInYear
    <2>3. CASE ~(q = p /\ y = Year(b.payment))
      <3>1. /\ InYear(q, y)' \subseteq InYear(q, y)
            /\ \A k \in InYear(q, y)' : tranches'[k].terms = tranches[k].terms
        BY <1>5, <1>6, <2>1, <2>3 DEF InYear
      <3>2. QED
        BY <1>1, <3>1, FewerInYear
    <2>4. QED
      BY <2>2, <2>3
  <1>9. QED
    BY <1>7, <1>8 DEF TrancheRules

LEMMA UpdateDividendKeepsRules ==
    ASSUME SoundRequests, RequestsKnowHome, YearsStayInBounds, NEW r \in Requests,
           UpdateDividendCommit(r), ~UNCHANGED tranches
    PROVE  TrancheRules'
  <1> DEFINE b == req[r].body
  <1>1. TypeOK /\ TrancheRules /\ req[r].at = "update_dividend"
    BY DEF SoundRequests, YearsStayInBounds, UpdateDividendCommit
  <1>2. req[r] \in InUpdateDividend
    BY <1>1, RequestShapes DEF TypeOK, UpdateDividendSteps
  <1>3. PICK t \in TrancheId : t = req[r].tranche
    BY <1>2 DEF InUpdateDividend
  <1>4. PICK p \in PositionId : p = req[r].seen.position
    BY <1>2 DEF InUpdateDividend, TrancheRow
  <1>5. tranches[t].position = p /\ YearAllows(p, t, b)
    <2>1. tranches[t].position = p
      BY <1>1, <1>3, <1>4 DEF RequestsKnowHome, Homed, UpdateDividendSteps
    <2>2. b \in DividendBody
      BY <1>2 DEF InUpdateDividend
    <2>3. QED
      BY <1>1, <1>3, <1>4, <2>1, <2>2 DEF YearsStayInBounds, YearStaysFree
  <1>6. /\ tranches[t] # None /\ tranches'[t].terms = Terms(b)
        /\ \A k \in TrancheId : k # t => tranches'[k] = tranches[k]
        /\ \A q \in PositionId : ActiveTranches(q)' = ActiveTranches(q)
    BY <1>3, DividendUpdated
  <1>7. Terms(b).body = b /\ Terms(b).year = Year(b.payment)
    BY DEF Terms
  <1>8. IsFiniteSet(Stored')
    <2>1. Stored' \subseteq Stored
      BY <1>6 DEF Stored
    <2>2. QED
      BY <1>1, <2>1, FS_Subset DEF TrancheRules
  <1> HIDE DEF b
  <1>9. ASSUME NEW q \in PositionId, NEW y \in Nat PROVE YearRule(q, y)'
    <2>1. \A k \in ActiveTranches(q) : k # t => tranches'[k] = tranches[k]
      BY <1>6 DEF ActiveTranches
    <2>2. q # p => t \notin ActiveTranches(q)
      BY <1>5 DEF ActiveTranches
    <2>3. CASE q = p /\ y = Year(b.payment)
      <3> DEFINE others == InYear(q, y) \ {t}
      <3>1. /\ Cardinality(others) < TranchesPerYear
            /\ \A k \in others : tranches[k].terms.body.label # b.label
        <4>1. others
                = {k \in ActiveTranches(p) \ {t} : tranches[k].terms.year = Year(b.payment)}
          BY <2>3 DEF InYear
        <4>2. QED
          BY <1>5, <4>1 DEF YearAllows
      <3>2. InYear(q, y)' \subseteq others \cup {t}
        BY <1>6, <2>1 DEF InYear
      <3>3. \A k \in others : tranches'[k].terms = tranches[k].terms
        BY <2>1 DEF InYear
      <3>4. tranches'[t].terms.body.label = b.label
        BY <1>6, <1>7
      <3>5. others \subseteq InYear(q, y) /\ t \notin others
        OBVIOUS
      <3> HIDE DEF others
      <3>6. QED
        BY <1>1, <3>1, <3>2, <3>3, <3>4, <3>5, OneMoreInYear
    <2>4. CASE ~(q = p /\ y = Year(b.payment))
      <3>1. /\ InYear(q, y)' \subseteq InYear(q, y)
            /\ \A k \in InYear(q, y)' : tranches'[k].terms = tranches[k].terms
        BY <1>6, <1>7, <2>1, <2>2, <2>4 DEF InYear
      <3>2. QED
        BY <1>1, <3>1, FewerInYear
    <2>5. QED
      BY <2>3, <2>4
  <1>10. QED
    BY <1>8, <1>9 DEF TrancheRules

\* Only a dividend request that has checked a year adds to a position's active
\* tranches, or changes one of them.
LEMMA TranchesOfAPosition ==
    ASSUME SoundRequests, RequestsKnowHome, NEW r \in Requests, Arrive(r) \/ Proceed(r),
           NEW p \in PositionId,
           ~(/\ req[r].at \in {"create_dividend", "update_dividend"}
             /\ DividendPosition(req[r]) = p)
    PROVE  /\ ActiveTranches(p)' \subseteq ActiveTranches(p)
           /\ \A t \in ActiveTranches(p)' : tranches'[t].terms = tranches[t].terms
  <1>1. CASE UNCHANGED tranches
    BY <1>1 DEF ActiveTranches
  <1>2. CASE CreateDividendCommit(r) /\ ~UNCHANGED tranches
    <2>1. PICK t \in TrancheId :
            /\ tranches[t] = None
            /\ \A k \in TrancheId : k # t => tranches'[k] = tranches[k]
            /\ \A q \in PositionId :
                 ActiveTranches(q)' = IF q = req[r].position THEN ActiveTranches(q) \cup {t}
                                                            ELSE ActiveTranches(q)
      BY <1>2, DividendCreated
    <2>2. req[r].position # p
      BY <1>2 DEF CreateDividendCommit, DividendPosition, CreateDividendSteps
    <2>3. ActiveTranches(p)' = ActiveTranches(p) /\ t \notin ActiveTranches(p)
      BY <2>1, <2>2 DEF ActiveTranches
    <2>4. ActiveTranches(p) \subseteq TrancheId
      BY DEF ActiveTranches
    <2>5. QED
      BY <2>1, <2>3, <2>4
  <1>3. CASE UpdateDividendCommit(r) /\ ~UNCHANGED tranches
    <2>1. /\ \A k \in TrancheId : k # req[r].tranche => tranches'[k] = tranches[k]
          /\ ActiveTranches(p)' = ActiveTranches(p)
      BY <1>3, DividendUpdated
    <2>2. req[r].seen.position # p
      BY <1>3 DEF UpdateDividendCommit, DividendPosition, CreateDividendSteps
    <2>3. req[r].tranche \notin ActiveTranches(p)
      BY <1>3, <2>2
      DEF RequestsKnowHome, Homed, UpdateDividendCommit, UpdateDividendSteps, ActiveTranches
    <2>4. ActiveTranches(p) \subseteq TrancheId
      BY DEF ActiveTranches
    <2>5. QED
      BY <2>1, <2>3, <2>4
  <1>4. CASE DeleteDividendCommit(r)
    BY <1>4, DividendDeleted DEF ActiveTranches
  <1>5. CASE DeletePositionCommit(r)
    <2>1. PositionGone(r)
      BY <1>5, DeletionShape
    <2>2. ActiveTranches(p)' \subseteq ActiveTranches(p)
      BY <2>1 DEF PositionGone
    <2>3. QED
      BY <2>1, <2>2 DEF PositionGone, ActiveTranches
  <1>6. QED
    BY <1>1, <1>2, <1>3, <1>4, <1>5, ReadsWriteNothing
    DEF Tables, CreatePositionCommit, AddLotCommit, UpdateLotCommit, DeleteLotCommit

\* A year that had room still has it with fewer tranches.
LEMMA RoomRemains ==
    ASSUME TrancheRules, NEW p \in PositionId, NEW self, NEW body, YearAllows(p, self, body),
           ActiveTranches(p)' \subseteq ActiveTranches(p),
           \A t \in ActiveTranches(p)' : tranches'[t].terms = tranches[t].terms
    PROVE  YearAllows(p, self, body)'
  <1> DEFINE others == {t \in ActiveTranches(p) \ {self} :
                          tranches[t].terms.year = Year(body.payment)}
             after == {t \in ActiveTranches(p)' \ {self} :
                         tranches'[t].terms.year = Year(body.payment)}
  <1>1. /\ Cardinality(others) < TranchesPerYear
        /\ \A t \in others : tranches[t].terms.body.label # body.label
    BY DEF YearAllows
  <1>2. after \subseteq others /\ others \subseteq Stored
    BY DEF Stored, ActiveTranches
  <1>3. IsFiniteSet(others)
    BY <1>2, FS_Subset DEF TrancheRules
  <1>4. Cardinality(after) <= Cardinality(others) /\ IsFiniteSet(after)
    BY <1>2, <1>3, FS_Subset
  <1>5. Cardinality(after) \in Nat /\ Cardinality(others) \in Nat
    BY <1>3, <1>4, FS_CardinalityType
  <1>6. Cardinality(after) < TranchesPerYear
    BY <1>1, <1>4, <1>5, BoundsAssumption
  <1>7. \A t \in after : tranches'[t].terms.body.label # body.label
    BY <1>1, <1>2
  <1>8. QED
    BY <1>6, <1>7 DEF YearAllows

LEMMA StepKeepsYears ==
    ASSUME SoundRequests, RequestsKnowHome, DividendsApart, YearsStayInBounds,
           NEW r \in Requests, Arrive(r) \/ Proceed(r)
    PROVE  YearsStayInBounds'
  <1>1. /\ TypeOK /\ TrancheRules
        /\ \A s \in Requests : s # r => req'[s] = req[s]
    BY OnlyOneMoves DEF SoundRequests, YearsStayInBounds
  <1>2. ASSUME NEW s \in Requests, s # r, NEW p \in PositionId, NEW t \in TrancheId,
               NEW body \in DividendBody
        PROVE  YearStaysFree(req[s], p, t, body)'
    <2>1. SUFFICES ASSUME req[s].at \in {"create_dividend", "update_dividend"},
                          DividendPosition(req[s]) = p
                   PROVE  YearStaysFree(req[s], p, t, body)'
      BY <1>1, <1>2 DEF YearStaysFree, DividendPosition, CreateDividendSteps
    <2>2. ~(/\ req[r].at \in {"create_dividend", "update_dividend"}
            /\ DividendPosition(req[r]) = p)
      BY <1>2, <2>1 DEF DividendsApart
    <2>3. /\ ActiveTranches(p)' \subseteq ActiveTranches(p)
          /\ \A k \in ActiveTranches(p)' : tranches'[k].terms = tranches[k].terms
      BY <2>2, TranchesOfAPosition
    <2>4. YearStaysFree(req[s], p, t, body) /\ req'[s] = req[s]
      BY <1>1, <1>2 DEF YearsStayInBounds
    <2>5. \A self : YearAllows(p, self, body) => YearAllows(p, self, body)'
      BY <1>1, <2>3, RoomRemains
    <2>6. QED
      BY <2>4, <2>5 DEF YearStaysFree
  <1>3. ASSUME NEW p \in PositionId, NEW t \in TrancheId, NEW body \in DividendBody
        PROVE  YearStaysFree(req[r], p, t, body)'
    <2>1. \A q : Continue(r, q) => req'[r] = q
      BY <1>1 DEF Continue, TypeOK
    <2>2. UNCHANGED tranches =>
            \A self : YearAllows(p, self, body)' <=> YearAllows(p, self, body)
      BY DEF YearAllows, ActiveTranches
    <2>3. ASSUME req'[r].at = "create_dividend", req'[r].position = p, req'[r].body = body
          PROVE  YearAllows(p, None, body)'
      <3>1. CreateDividendCheckYear(r)
        BY <1>1, <2>3, WhereStepsLead
        DEF CreateDividendSteps, CreateDividendRead, Continue, TypeOK
      <3>2. ~Finish(r)
        BY <2>1, <2>3 DEF Finish, Idle
      <3>3. /\ req[r].at \in CreateDividendSteps /\ UNCHANGED tranches
            /\ YearAllows(req[r].position, None, req[r].body)
            /\ req'[r] = [req[r] EXCEPT !.at = "create_dividend"]
        BY <2>1, <3>1, <3>2 DEF CreateDividendCheckYear, Goto, CreateDividendSteps
      <3>4. req[r] \in InCreateDividend
        BY <1>1, <3>3, RequestShapes DEF TypeOK
      <3>5. req[r].body = body /\ req[r].position = p
        BY <2>3, <3>3, <3>4 DEF InCreateDividend
      <3>6. QED
        BY <2>2, <3>3, <3>5
    <2>4. ASSUME req'[r].at = "update_dividend", req'[r].seen.position = p,
                 req'[r].tranche = t, req'[r].body = body
          PROVE  YearAllows(p, t, body)'
      <3>1. UpdateDividendCheckYear(r)
        BY <1>1, <2>4, WhereStepsLead
      <3>2. ~Finish(r)
        BY <2>1, <2>4 DEF Finish, Idle
      <3>3. /\ req[r].at \in UpdateDividendSteps /\ UNCHANGED tranches
            /\ YearAllows(req[r].seen.position, req[r].tranche, req[r].body)
            /\ req'[r] = [req[r] EXCEPT !.at = "update_dividend"]
        BY <2>1, <3>1, <3>2 DEF UpdateDividendCheckYear, Goto, UpdateDividendSteps
      <3>4. req[r] \in InUpdateDividend
        BY <1>1, <3>3, RequestShapes DEF TypeOK
      <3>5. req[r].body = body /\ req[r].tranche = t /\ req[r].seen.position = p
        BY <2>4, <3>3, <3>4 DEF InUpdateDividend
      <3>6. QED
        BY <2>2, <3>3, <3>5
    <2>5. QED
      BY <2>3, <2>4 DEF YearStaysFree
  <1>4. TrancheRules'
    <2>1. ASSUME UNCHANGED tranches PROVE TrancheRules'
      BY <1>1, <2>1 DEF TrancheRules, YearRule, InYear, Stored, ActiveTranches
    <2>2. CASE CreateDividendCommit(r) \/ UpdateDividendCommit(r)
      BY <2>1, <2>2, CreateDividendKeepsRules, UpdateDividendKeepsRules
    <2>3. CASE DeleteDividendCommit(r)
      BY <1>1, <2>3, DividendDeleted, FewerTranches DEF TrancheRules
    <2>4. CASE DeletePositionCommit(r)
      <3>1. PositionGone(r)
        BY <2>4, DeletionShape
      <3>2. \A q \in PositionId : ActiveTranches(q)' \subseteq ActiveTranches(q)
        BY <3>1 DEF PositionGone
      <3>3. QED
        BY <1>1, <3>1, <3>2, FewerTranches DEF PositionGone, TrancheRules
    <2>5. QED
      BY <2>1, <2>2, <2>3, <2>4, ReadsWriteNothing
      DEF Tables, CreatePositionCommit, AddLotCommit, UpdateLotCommit, DeleteLotCommit
  <1>5. QED
    BY <1>1, <1>2, <1>3, <1>4 DEF YearsStayInBounds

\* As long as no two requests have checked the years of one position at the
\* same time, a position has at most TranchesPerYear active tranches in a year and
\* no two with one label, whatever else overlaps
\* (_check_tranche_year_constraints, BR-014).
THEOREM YearsAreBounded ==
    Spec /\ []DividendsApart => [](OneLabelPerYear /\ FewTranchesPerYear)
  <1>1. Init => YearsStayInBounds
    <2>1. SUFFICES ASSUME Init PROVE YearsStayInBounds
      OBVIOUS
    <2>2. Stored = {} /\ \A p : ActiveTranches(p) = {}
      BY <2>1 DEF Init, Stored, ActiveTranches
    <2>3. \A p, y : InYear(p, y) = {}
      BY <2>2 DEF InYear
    <2>4. TrancheRules
      BY <2>2, <2>3, FS_EmptySet, BoundsAssumption DEF TrancheRules, YearRule
    <2>5. QED
      BY <2>1, <2>4 DEF YearsStayInBounds, YearStaysFree, Init, Idle
  <1>2. /\ SoundRequests /\ RequestsKnowHome /\ DividendsApart /\ YearsStayInBounds
        /\ [Next]_vars
        => YearsStayInBounds'
    <2>1. YearsStayInBounds /\ UNCHANGED vars => YearsStayInBounds'
      <3>1. UNCHANGED vars => \A p : ActiveTranches(p)' = ActiveTranches(p)
        BY DEF ActiveTranches, vars
      <3>2. TrancheRules /\ UNCHANGED vars => TrancheRules'
        BY <3>1 DEF TrancheRules, YearRule, InYear, Stored, vars
      <3>3. UNCHANGED vars => \A p, self, body :
              YearAllows(p, self, body)' <=> YearAllows(p, self, body)
        BY <3>1 DEF YearAllows, vars
      <3>4. QED
        BY <3>2, <3>3 DEF YearsStayInBounds, YearStaysFree, vars
    <2>2. QED
      BY <2>1, StepKeepsYears DEF Next
  <1>3. SoundRequests /\ YearsStayInBounds => OneLabelPerYear /\ FewTranchesPerYear
    <2>1. SUFFICES ASSUME SoundRequests, YearsStayInBounds
                   PROVE  OneLabelPerYear /\ FewTranchesPerYear
      OBVIOUS
    <2>2. \A d \in Days : Year(d) \in Nat
      BY DaysAssumption, YearType
    <2>3. FewTranchesPerYear
      BY <2>1, <2>2 DEF FewTranchesPerYear, YearsStayInBounds, TrancheRules, YearRule, InYear
    <2>4. ASSUME NEW t \in TrancheId, NEW u \in TrancheId,
                 tranches[t] # None, tranches[u] # None,
                 ~tranches[t].deleted, ~tranches[u].deleted,
                 tranches[t].position = tranches[u].position,
                 tranches[t].terms.year = tranches[u].terms.year,
                 tranches[t].terms.body.label = tranches[u].terms.body.label
          PROVE  t = u
      <3>1. tranches[t] \in TrancheRow
        BY <2>1, <2>4 DEF SoundRequests, TypeOK
      <3>2. PICK p \in PositionId, y \in Nat :
              p = tranches[t].position /\ y = tranches[t].terms.year
        BY <2>2, <3>1 DEF TrancheRow, TrancheTerms
      <3>3. t \in InYear(p, y) /\ u \in InYear(p, y)
        BY <2>4, <3>2 DEF InYear, ActiveTranches
      <3>4. QED
        BY <2>1, <2>4, <3>3 DEF YearsStayInBounds, TrancheRules, YearRule
    <2>5. QED
      BY <2>3, <2>4 DEF OneLabelPerYear
  <1>4. QED
    BY <1>1, <1>2, <1>3, RequestsStayHomed, PTL DEF Spec

-----------------------------------------------------------------------------
(* Each table with its log implements a journaled table: a handler's       *)
(* commit is one write of it, and every other step leaves it alone.        *)

LEMMA JournalsStartEmpty == Init => Lots!Init /\ Tranches!Init
  BY DEF Init, Lots!Init, Tranches!Init

\* An event is one of the table whose key it names.
LEMMA LotTold ==
    ASSUME TypeOK, NEW l \in LotId, NEW action, NEW old, NEW new, Record(l, action, old, new)
    PROVE  Lots!Tell(l, action, old, new) /\ UNCHANGED [t \in TrancheId |-> audit[t]]
  <1>1. l \notin TrancheId
    BY KeysAssumption
  <1>2. \A t \in TrancheId : audit'[t] = audit[t]
    BY <1>1 DEF TypeOK, Record
  <1>3. Lots!Tell(l, action, old, new)
    BY DEF TypeOK, Record, Lots!Tell
  <1>4. QED
    BY <1>2, <1>3

LEMMA TrancheTold ==
    ASSUME TypeOK, NEW t \in TrancheId, NEW action, NEW old, NEW new,
           Record(t, action, old, new)
    PROVE  Tranches!Tell(t, action, old, new) /\ UNCHANGED [l \in LotId |-> audit[l]]
  <1>1. t \notin LotId
    BY KeysAssumption
  <1>2. \A l \in LotId : audit'[l] = audit[l]
    BY <1>1 DEF TypeOK, Record
  <1>3. Tranches!Tell(t, action, old, new)
    BY DEF TypeOK, Record, Tranches!Tell
  <1>4. QED
    BY <1>2, <1>3

LEMMA LotInsertionIsJournaled ==
    ASSUME TypeOK, NEW p \in PositionId, NEW terms \in LotTerms, InsertLot(p, terms)
    PROVE  Lots!Next /\ UNCHANGED [t \in TrancheId |-> audit[t]]
  <1>1. PICK l \in LotId :
          /\ lots[l] = None /\ lots' = [lots EXCEPT ![l] = NewRow(p, terms)]
          /\ Record(l, "LOT_CREATED", None, Carried("LOT_CREATED", terms))
    BY DEF InsertLot
  <1>2. Lots!Create(l, p, terms) /\ UNCHANGED [t \in TrancheId |-> audit[t]]
    <2>1. l \notin Lots!Stored
      BY <1>1 DEF Lots!Stored
    <2>2. /\ Lots!Tell(l, "LOT_CREATED", None, Carried("LOT_CREATED", terms))
          /\ UNCHANGED [t \in TrancheId |-> audit[t]]
      BY <1>1, LotTold
    <2>3. QED
      BY <1>1, <2>1, <2>2 DEF Lots!Create, NewRow
  <1>3. QED
    BY <1>2 DEF Lots!Next

\* The step is a write of one journal or of both, or of neither.
Journaled ==
    /\ Lots!Next \/ UNCHANGED <<lots, [l \in LotId |-> audit[l]]>>
    /\ Tranches!Next \/ UNCHANGED <<tranches, [t \in TrancheId |-> audit[t]]>>

LEMMA InsertionIsJournaled ==
    ASSUME SoundRequests, NEW r \in Requests, CreatePositionCommit(r) \/ AddLotCommit(r)
    PROVE  Journaled
  <1>1. TypeOK
    BY DEF SoundRequests
  <1>2. req[r] \in InCreatePosition \cup InAddLot
    BY <1>1, RequestShapes DEF TypeOK, CreatePositionCommit, AddLotCommit
  <1>3. \E p \in PositionId : InsertLot(p, req[r].terms)
    BY <1>2 DEF CreatePositionCommit, AddLotCommit, InCreatePosition, InAddLot
  <1>4. req[r].terms \in LotTerms /\ UNCHANGED tranches
    BY <1>2 DEF CreatePositionCommit, AddLotCommit, InCreatePosition, InAddLot
  <1>5. QED
    BY <1>1, <1>3, <1>4, LotInsertionIsJournaled DEF Journaled

LEMMA UpdateLotIsJournaled ==
    ASSUME SoundRequests, NEW r \in Requests, UpdateLotCommit(r)
    PROVE  Journaled
  <1>1. TypeOK /\ UNCHANGED tranches
    BY DEF SoundRequests, UpdateLotCommit
  <1>2. req[r] \in InUpdateLot
    BY <1>1, RequestShapes DEF TypeOK, UpdateLotCommit
  <1>3. PICK l \in LotId, terms \in LotTerms :
          l = req[r].lot /\ terms = req[r].terms
    BY <1>2 DEF InUpdateLot
  <1>4. Snapshot(lots[l], req[r])
    BY <1>3 DEF SoundRequests, Sound, UpdateLotCommit
  <1>5. CASE UNCHANGED <<lots, audit>>
    BY <1>1, <1>5 DEF Journaled
  <1>6. CASE /\ VersionMatches(lots[l], req[r].version)
             /\ lots' = [lots EXCEPT ![l] = Edited(@, terms)]
             /\ Record(l, "LOT_UPDATED", Carried("LOT_UPDATED", req[r].seen.terms),
                       Carried("LOT_UPDATED", terms))
    <2>1. /\ lots[l] # None /\ lots[l] \in LotRow
          /\ req[r].seen \in LotRow
      BY <1>1, <1>2, <1>4 DEF Snapshot, TypeOK, InUpdateLot
    <2>2. req[r].seen.terms = lots[l].terms
      <3>1. /\ req[r].version \in Int /\ req[r].seen.version \in Int
            /\ lots[l].version \in Int
            /\ req[r].version <= req[r].seen.version
            /\ req[r].seen.version <= lots[l].version
            /\ lots[l].version = req[r].version
        BY <1>2, <1>4, <1>6, <2>1, BoundsAssumption
        DEF Snapshot, VersionMatches, InUpdateLot, LotRow
      <3>2. req[r].seen.version = lots[l].version
        BY <3>1
      <3>3. QED
        BY <1>4, <3>2 DEF Snapshot
    <2>3. Record(l, "LOT_UPDATED", Carried("LOT_UPDATED", lots[l].terms),
                 Carried("LOT_UPDATED", terms))
      BY <1>6, <2>2
    <2>4. /\ Lots!Tell(l, "LOT_UPDATED", Carried("LOT_UPDATED", lots[l].terms),
                Carried("LOT_UPDATED", terms))
          /\ UNCHANGED [t \in TrancheId |-> audit[t]]
      BY <1>1, <2>3, LotTold
    <2>5. lots' = [lots EXCEPT ![l].terms = terms, ![l].version = @ + 1]
      BY <1>1, <1>6, <2>1 DEF Edited, TypeOK, LotRow
    <2>6. Lots!Edit(l, terms)
      BY <2>1, <2>4, <2>5 DEF Lots!Edit, Lots!Stored
    <2>7. QED
      BY <1>1, <2>4, <2>6 DEF Lots!Next, Journaled
  <1>7. QED
    BY <1>3, <1>5, <1>6 DEF UpdateLotCommit

LEMMA DeleteLotIsJournaled ==
    ASSUME SoundRequests, NEW r \in Requests, DeleteLotCommit(r)
    PROVE  Journaled
  <1>1. TypeOK /\ UNCHANGED tranches
    BY DEF SoundRequests, DeleteLotCommit
  <1>2. req[r] \in InDeleteLot
    BY <1>1, RequestShapes DEF TypeOK, DeleteLotCommit
  <1>3. PICK l \in LotId, seen \in LotTerms :
          l = req[r].lot /\ seen = req[r].seen.terms
    BY <1>2 DEF InDeleteLot, LotRow
  <1>4. lots[l] # None
    BY <1>3 DEF SoundRequests, Sound, DeleteLotCommit
  <1>5. Record(l, "LOT_DELETED", Carried("LOT_DELETED", seen), None)
    BY <1>3 DEF DeleteLotCommit
  <1>6. /\ Lots!Tell(l, "LOT_DELETED", Carried("LOT_DELETED", seen), None)
        /\ UNCHANGED [t \in TrancheId |-> audit[t]]
    BY <1>1, <1>5, LotTold
  <1>7. lots' = [lots EXCEPT ![l].deleted = TRUE]
    BY <1>3 DEF DeleteLotCommit, Gone
  <1>8. Lots!Remove(l, seen)
    BY <1>4, <1>6, <1>7 DEF Lots!Remove, Lots!Stored
  <1>9. QED
    BY <1>1, <1>6, <1>8 DEF Lots!Next, Journaled

LEMMA CreateDividendIsJournaled ==
    ASSUME SoundRequests, NEW r \in Requests, CreateDividendCommit(r)
    PROVE  Journaled
  <1>1. TypeOK /\ UNCHANGED lots
    BY DEF SoundRequests, CreateDividendCommit
  <1>2. req[r] \in InCreateDividend
    BY <1>1, RequestShapes DEF TypeOK, CreateDividendCommit, CreateDividendSteps
  <1>3. PICK p \in PositionId, terms \in TrancheTerms :
          p = req[r].position /\ terms = Terms(req[r].body)
    BY <1>2, TermsType DEF InCreateDividend
  <1>4. CASE UNCHANGED <<tranches, audit>>
    BY <1>1, <1>4 DEF Journaled
  <1>5. ASSUME NEW t \in TrancheId, tranches[t] = None,
               tranches' = [tranches EXCEPT ![t] = NewRow(p, terms)],
               Record(t, "DIVIDEND_CREATED", None, Carried("DIVIDEND_CREATED", terms))
        PROVE  Journaled
    <2>1. t \notin Tranches!Stored
      BY <1>5 DEF Tranches!Stored
    <2>2. /\ Tranches!Tell(t, "DIVIDEND_CREATED", None, Carried("DIVIDEND_CREATED", terms))
          /\ UNCHANGED [l \in LotId |-> audit[l]]
      BY <1>1, <1>5, TrancheTold
    <2>3. Tranches!Create(t, p, terms)
      BY <1>5, <2>1, <2>2 DEF Tranches!Create, NewRow
    <2>4. QED
      BY <1>1, <2>2, <2>3 DEF Tranches!Next, Journaled
  <1>6. QED
    BY <1>3, <1>4, <1>5 DEF CreateDividendCommit

LEMMA UpdateDividendIsJournaled ==
    ASSUME SoundRequests, NEW r \in Requests, UpdateDividendCommit(r)
    PROVE  Journaled
  <1>1. TypeOK /\ UNCHANGED lots
    BY DEF SoundRequests, UpdateDividendCommit
  <1>2. req[r] \in InUpdateDividend
    BY <1>1, RequestShapes DEF TypeOK, UpdateDividendCommit, UpdateDividendSteps
  <1>3. PICK t \in TrancheId, terms \in TrancheTerms :
          t = req[r].tranche /\ terms = Terms(req[r].body)
    BY <1>2, TermsType DEF InUpdateDividend
  <1>4. Snapshot(tranches[t], req[r])
    BY <1>3 DEF SoundRequests, Sound, UpdateDividendCommit, UpdateDividendSteps
  <1>5. CASE UNCHANGED <<tranches, audit>>
    BY <1>1, <1>5 DEF Journaled
  <1>6. CASE /\ VersionMatches(tranches[t], req[r].version)
             /\ tranches' = [tranches EXCEPT ![t] = Edited(@, terms)]
             /\ Record(t, "DIVIDEND_UPDATED", Carried("DIVIDEND_UPDATED", req[r].seen.terms),
                       Carried("DIVIDEND_UPDATED", terms))
    <2>1. /\ tranches[t] # None /\ tranches[t] \in TrancheRow
          /\ req[r].seen \in TrancheRow
      BY <1>1, <1>2, <1>4 DEF Snapshot, TypeOK, InUpdateDividend
    <2>2. req[r].seen.terms = tranches[t].terms
      <3>1. /\ req[r].version \in Int /\ req[r].seen.version \in Int
            /\ tranches[t].version \in Int
            /\ req[r].version <= req[r].seen.version
            /\ req[r].seen.version <= tranches[t].version
            /\ tranches[t].version = req[r].version
        BY <1>2, <1>4, <1>6, <2>1, BoundsAssumption
        DEF Snapshot, VersionMatches, InUpdateDividend, TrancheRow
      <3>2. req[r].seen.version = tranches[t].version
        BY <3>1
      <3>3. QED
        BY <1>4, <3>2 DEF Snapshot
    <2>3. Record(t, "DIVIDEND_UPDATED", Carried("DIVIDEND_UPDATED", tranches[t].terms),
                 Carried("DIVIDEND_UPDATED", terms))
      BY <1>6, <2>2
    <2>4. /\ Tranches!Tell(t, "DIVIDEND_UPDATED", Carried("DIVIDEND_UPDATED", tranches[t].terms),
                Carried("DIVIDEND_UPDATED", terms))
          /\ UNCHANGED [l \in LotId |-> audit[l]]
      BY <1>1, <2>3, TrancheTold
    <2>5. tranches' = [tranches EXCEPT ![t].terms = terms, ![t].version = @ + 1]
      BY <1>1, <1>6, <2>1 DEF Edited, TypeOK, TrancheRow
    <2>6. Tranches!Edit(t, terms)
      BY <2>1, <2>4, <2>5 DEF Tranches!Edit, Tranches!Stored
    <2>7. QED
      BY <1>1, <2>4, <2>6 DEF Tranches!Next, Journaled
  <1>7. QED
    BY <1>3, <1>5, <1>6 DEF UpdateDividendCommit

LEMMA DeleteDividendIsJournaled ==
    ASSUME SoundRequests, NEW r \in Requests, DeleteDividendCommit(r)
    PROVE  Journaled
  <1>1. TypeOK /\ UNCHANGED lots
    BY DEF SoundRequests, DeleteDividendCommit
  <1>2. req[r] \in InDeleteDividend
    BY <1>1, RequestShapes DEF TypeOK, DeleteDividendCommit
  <1>3. PICK t \in TrancheId, seen \in TrancheTerms :
          t = req[r].tranche /\ seen = req[r].seen.terms
    BY <1>2 DEF InDeleteDividend, TrancheRow
  <1>4. tranches[t] # None
    BY <1>3 DEF SoundRequests, Sound, DeleteDividendCommit
  <1>5. Record(t, "DIVIDEND_DELETED", Carried("DIVIDEND_DELETED", seen), None)
    BY <1>3 DEF DeleteDividendCommit
  <1>6. /\ Tranches!Tell(t, "DIVIDEND_DELETED", Carried("DIVIDEND_DELETED", seen), None)
        /\ UNCHANGED [l \in LotId |-> audit[l]]
    BY <1>1, <1>5, TrancheTold
  <1>7. tranches' = [tranches EXCEPT ![t].deleted = TRUE]
    BY <1>3 DEF DeleteDividendCommit, Gone
  <1>8. Tranches!Remove(t, seen)
    BY <1>4, <1>6, <1>7 DEF Tranches!Remove, Tranches!Stored
  <1>9. QED
    BY <1>1, <1>6, <1>8 DEF Tranches!Next, Journaled

LEMMA CascadeIsJournaled ==
    ASSUME SoundRequests, RequestsKnowHome, NEW r \in Requests, DeletePositionCommit(r)
    PROVE  Journaled
  <1> DEFINE p == req[r].position
  <1>1. TypeOK /\ r \in Cascading
    BY DEF SoundRequests, Cascading, DeletePositionCommit
  <1>2. /\ p \in PositionId
        /\ \A l \in req[r].lots : l \in LotId /\ lots[l].position = p
        /\ \A t \in req[r].tranches : t \in TrancheId /\ tranches[t].position = p
    BY <1>1, CascadeShape, Zenon
  <1>3. /\ req[r].lots \in SUBSET Lots!Stored
        /\ req[r].tranches \in SUBSET Tranches!Stored
    BY <1>2 DEF SoundRequests, Sound, DeletePositionCommit, DeletePositionSteps, Lots!Stored,
      Tranches!Stored
  <1>4. /\ UNCHANGED [l \in LotId |-> audit[l]]
        /\ UNCHANGED [t \in TrancheId |-> audit[t]]
    <2>1. p \notin LotId /\ p \notin TrancheId
      BY <1>2, KeysAssumption
    <2>2. \A e \in LotId \cup TrancheId : audit'[e] = audit[e]
      BY <1>1, <2>1 DEF TypeOK, DeletePositionCommit, Record
    <2>3. QED
      BY <2>2
  <1>5. Lots!RemoveAll(p, req[r].lots)
    BY <1>1, <1>2, <1>4 DEF Lots!RemoveAll, DeletePositionCommit, SoftDelete, Gone, TypeOK
  <1>6. Tranches!RemoveAll(p, req[r].tranches)
    BY <1>1, <1>2, <1>4 DEF Tranches!RemoveAll, DeletePositionCommit, SoftDelete, Gone, TypeOK
  <1>7. QED
    BY <1>2, <1>3, <1>5, <1>6 DEF Lots!Next, Tranches!Next, Journaled

LEMMA StepIsJournaled ==
    ASSUME SoundRequests, RequestsKnowHome, [Next]_vars
    PROVE  Journaled
  <1>1. UNCHANGED Tables => Journaled
    BY DEF Tables, Journaled
  <1>2. UNCHANGED vars => UNCHANGED Tables
    BY DEF vars, Tables
  <1>3. ASSUME NEW r \in Requests, Arrive(r) \/ Proceed(r) PROVE Journaled
    BY <1>1, <1>3, ReadsWriteNothing, InsertionIsJournaled, UpdateLotIsJournaled,
       DeleteLotIsJournaled, CreateDividendIsJournaled, UpdateDividendIsJournaled,
       DeleteDividendIsJournaled, CascadeIsJournaled
  <1>4. QED
    BY <1>1, <1>2, <1>3 DEF Next

\* Whatever requests overlap, and however many reads and waits a handler takes,
\* it writes a row and its event at once, and the old terms an edit logs are the
\* ones the row holds at that moment: the write side implements two journaled
\* tables (every handler of portfolio/service.py that writes).
THEOREM TablesImplementJournals == Spec => TablesAreJournaled
  <1>1. Journaled => /\ [Lots!Next]_(Lots!vars)
                     /\ [Tranches!Next]_(Tranches!vars)
    BY DEF Journaled, Lots!vars, Tranches!vars
  <1>2. SoundRequests /\ RequestsKnowHome /\ [Next]_vars =>
          /\ [Lots!Next]_(Lots!vars)
          /\ [Tranches!Next]_(Tranches!vars)
    BY <1>1, StepIsJournaled
  <1>3. QED
    BY <1>2, JournalsStartEmpty, RequestsStayHomed, PTL
    DEF Spec, TablesAreJournaled, Lots!Spec, Tranches!Spec

=============================================================================
