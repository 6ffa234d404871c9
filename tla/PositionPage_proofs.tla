------------------------ MODULE PositionPage_proofs ------------------------
(***************************************************************************)
(* No save of the position page overwrites an edit unseen, and no dialog   *)
(* stays busy without a handler that will end it, for every number of rows *)
(* and handlers, and however answers overtake each other.                  *)
(***************************************************************************)
EXTENDS PositionProperties, TLAPS

\* What was loaded as version v, n shares, is what the row held then.
Matches(v, n, row) == v <= row.version /\ (v = row.version => n = row.shares)

\* A copy of the rows that was read from the server.
Seen(c, s) == \A r \in Rows : Matches(c[r].version, c[r].shares, s[r])

Types ==
    /\ server \in Snapshot /\ cache \in Snapshot
    /\ editing \in [Kinds -> Rows \cup {None}]
    /\ \A k \in Kinds : editing[k] # None => KindOf(editing[k]) = k
    /\ deleting \in [ConfirmKinds -> Entities \cup {None}]
    /\ form \in [Kinds -> Forms]
    /\ handler \in [Handlers -> HandlerStates]

\* The fields of an edit dialog on screen were loaded from the row it edits.
Loaded(k, f) ==
    Shown(editing, k, cache) => Matches(f.version, f.base, server[editing[k]])

\* A save under way carries what its dialog's fields were loaded with; an
\* answer carries rows the server has held; deletions load the dashboard.
Carries(h, s) ==
    /\ h.step = "sent" => h.outcome = "none"
    /\ h.step = "sent" /\ h.op = "save" =>
         h.row \in Rows /\ Matches(h.version, h.base, s[h.row])
    /\ h.step = "fetched" /\ h.data # None => Seen(h.data, s)
    /\ h.step = "dashboard" => h.op = "delete"

\* A refresh whose dialog is still open is one of the row it edits.
Owned(h, ed) ==
    h.own /\ h.op = "refresh" => ed[KindOf(h.row)] = h.row

\* The inductive invariant of NoLostUpdate.
EditsSound ==
    /\ Types /\ Seen(cache, server)
    /\ \A k \in Kinds : Loaded(k, form[k])
    /\ \A t \in Handlers : Carries(handler[t], server) /\ Owned(handler[t], editing)

-----------------------------------------------------------------------------
(* Rows, kinds and handlers *)

LEMMA KindTyped ==
    /\ \A r \in Lots : KindOf(r) = "lot"
    /\ \A r \in Tranches : KindOf(r) = "tranche"
    /\ KindOf(Position) = "position"
    /\ \A r \in Entities : KindOf(r) \in ConfirmKinds
    /\ \A r \in Rows : KindOf(r) \in Kinds
BY EntitiesAssumption DEF KindOf, Entities, Rows, Kinds, ConfirmKinds

\* Versions only grow, and shares change with them.
Grows == Seen(server, server')

LEMMA MatchesGrows ==
    ASSUME server \in Snapshot, server' \in Snapshot, Grows, NEW r \in Rows,
           NEW v \in Nat, NEW n, Matches(v, n, server[r])
    PROVE  Matches(v, n, server'[r])
<1>1. /\ server[r].version \in Nat /\ server'[r].version \in Nat
      /\ server[r].version <= server'[r].version
      /\ server[r].version = server'[r].version => server[r].shares = server'[r].shares
  BY DEF Grows, Seen, Matches, Snapshot, Row, Entities
<1>. QED
  BY <1>1 DEF Matches

LEMMA SeenGrows ==
    ASSUME server \in Snapshot, server' \in Snapshot, Grows,
           NEW c \in Snapshot, Seen(c, server)
    PROVE  Seen(c, server')
<1>. SUFFICES ASSUME NEW r \in Rows PROVE Matches(c[r].version, c[r].shares, server'[r])
  BY DEF Seen
<1>1. c[r].version \in Nat /\ Matches(c[r].version, c[r].shares, server[r])
  BY DEF Seen, Snapshot, Row, Entities
<1>. QED
  BY <1>1, MatchesGrows

LEMMA CarriesGrows ==
    ASSUME server \in Snapshot, server' \in Snapshot, Grows,
           NEW h \in HandlerStates, Carries(h, server)
    PROVE  Carries(h, server')
<1>1. h.version \in Nat /\ h.data \in Snapshot \cup {None}
  BY DEF HandlerStates
<1>. QED
  BY <1>1, MatchesGrows, SeenGrows DEF Carries

LEMMA IdleSound ==
    /\ Idle \in HandlerStates
    /\ \A s, ed : Carries(Idle, s) /\ Owned(Idle, ed)
<1>1. Idle \in HandlerStates
  BY DEF Idle, HandlerStates, Steps, Entities
<1>2. ASSUME NEW s, NEW ed PROVE Carries(Idle, s) /\ Owned(Idle, ed)
  BY DEF Idle, Carries, Owned
<1>. QED
  BY <1>1, <1>2

\* A handler that begins to send, or asks for the position.
LEMMA FetchesSound ==
    ASSUME NEW op \in {"refresh", "revalidate"}, NEW r \in Entities, NEW s, NEW ed,
           op = "refresh" => ed[KindOf(r)] = r
    PROVE  Fetches(op, r) \in HandlerStates /\ Carries(Fetches(op, r), s) /\ Owned(Fetches(op, r), ed)
<1>1. Fetches(op, r) \in HandlerStates
  BY DEF Fetches, Idle, HandlerStates, Steps
<1>2. Fetches(op, r).step = "fetch" /\ Fetches(op, r).op = op /\ Fetches(op, r).row = r
  BY DEF Fetches, Idle
<1>. QED
  BY <1>1, <1>2 DEF Carries, Owned

LEMMA SendsSound ==
    ASSUME NEW op \in {"save", "delete"}, NEW r \in Entities, NEW f \in Forms, NEW s, NEW ed,
           op = "save" => r \in Rows /\ Matches(f.version, f.base, s[r])
    PROVE  Sends(op, r, f) \in HandlerStates /\ Carries(Sends(op, r, f), s) /\ Owned(Sends(op, r, f), ed)
<1>. DEFINE h == Sends(op, r, f)
<1>1. f.shares \in Nat /\ f.base \in Nat /\ f.version \in Nat
  BY DEF Forms
<1>2. h \in HandlerStates
  BY <1>1, Zenon DEF Sends, Idle, HandlerStates, Steps
<1>3. h.step = "sent" /\ h.op = op /\ h.row = r /\ h.outcome = "none"
      /\ h.version = f.version /\ h.base = f.base
  BY DEF Sends, Idle
<1>. HIDE DEF h
<1>4. Carries(h, s) /\ Owned(h, ed)
  BY <1>3 DEF Carries, Owned
<1>. QED
  BY <1>2, <1>4 DEF h

LEMMA AnsweredSound ==
    ASSUME NEW h \in HandlerStates, NEW outcome \in {"ok", "conflict", "refused", "lost"}, NEW s, NEW ed,
           Owned(h, ed)
    PROVE  Answered(h, outcome) \in HandlerStates /\ Carries(Answered(h, outcome), s)
           /\ Owned(Answered(h, outcome), ed)
<1>. DEFINE g == Answered(h, outcome)
<1>1. g \in HandlerStates /\ g.step = "answered" /\ g.op = h.op /\ g.row = h.row /\ g.own = h.own
  BY DEF Answered, HandlerStates, Steps
<1>. HIDE DEF g
<1>2. Carries(g, s) /\ Owned(g, ed)
  BY <1>1 DEF Carries, Owned
<1>. QED
  BY <1>1, <1>2 DEF g

LEMMA BlankTyped == Blank \in Forms
BY DEF Blank, Forms

\* A form loaded from a row has its version and shares.
LEMMA OpenedTyped ==
    ASSUME NEW row \in Row
    PROVE  Opened(row) \in Forms /\ Opened(row).version = row.version /\ Opened(row).base = row.shares
BY DEF Opened, Blank, Forms, Row

LEMMA EffectTyped ==
    ASSUME NEW row \in Row, NEW f \in Forms
    PROVE  Effect(f, row) \in Forms /\ Effect(f, row).version = row.version
           /\ Effect(f, row).base = row.shares
<1>1. Opened(row) \in Forms /\ Opened(row).version = row.version /\ Opened(row).base = row.shares
  BY OpenedTyped
<1>2. f.submitting \in BOOLEAN /\ f.refreshing \in BOOLEAN
  BY DEF Forms
<1>. QED
  BY <1>1, <1>2 DEF Effect, Forms

-----------------------------------------------------------------------------
(* Steps of the page *)

\* The page is rendered: every dialog on screen was loaded from its row, then
\* or before, and a handler owns its dialog only while that is open.
LEMMA RenderSound ==
    ASSUME EditsSound, UNCHANGED server,
           NEW ed \in [Kinds -> Rows \cup {None}], \A k \in Kinds : ed[k] # None => KindOf(ed[k]) = k,
           NEW del \in [ConfirmKinds -> Entities \cup {None}],
           NEW c \in Snapshot, Seen(c, server),
           NEW fm \in [Kinds -> Forms], NEW cf,
           NEW hs \in [Handlers -> HandlerStates],
           \A t \in Handlers : Carries(hs[t], server) /\ Owned(hs[t], editing),
           \A k \in Kinds : ed[k] = editing[k] /\ c = cache => Loaded(k, fm[k]),
           Render(ed, del, c, fm, cf, hs)
    PROVE  EditsSound'
<1>1. editing' = ed /\ deleting' = del /\ cache' = c
  BY DEF Render
<1>2. ASSUME NEW k \in Kinds
      PROVE  form'[k] \in Forms /\ Loaded(k, form[k])'
  <2>1. form'[k] = IF ~Shown(ed, k, c) THEN Blank
                   ELSE IF ed[k] # editing[k] THEN Opened(c[ed[k]])
                   ELSE IF c # cache THEN Effect(fm[k], c[ed[k]]) ELSE fm[k]
    BY DEF Render
  <2>2. Loaded(k, form[k])' <=> (Shown(ed, k, c) => Matches(form'[k].version, form'[k].base, server[ed[k]]))
    BY <1>1 DEF Loaded, Shown
  <2>3. CASE ~Shown(ed, k, c)
    BY <2>1, <2>2, <2>3, BlankTyped
  <2>4. CASE Shown(ed, k, c) /\ (ed[k] # editing[k] \/ c # cache)
    <3>1. ed[k] \in Rows
      BY <2>4 DEF Shown
    <3>2. c[ed[k]] \in Row /\ Matches(c[ed[k]].version, c[ed[k]].shares, server[ed[k]])
      BY <3>1 DEF Seen, Snapshot, Entities
    <3>3. form'[k] = Opened(c[ed[k]]) \/ form'[k] = Effect(fm[k], c[ed[k]])
      BY <2>1, <2>4
    <3>4. form'[k] \in Forms /\ form'[k].version = c[ed[k]].version /\ form'[k].base = c[ed[k]].shares
      BY <3>2, <3>3, OpenedTyped, EffectTyped
    <3>. QED
      BY <2>2, <3>2, <3>4
  <2>5. CASE Shown(ed, k, c) /\ ed[k] = editing[k] /\ c = cache
    <3>1. form'[k] = fm[k] /\ Loaded(k, fm[k]) /\ Shown(editing, k, cache)
      BY <2>1, <2>5 DEF Shown
    <3>. QED
      BY <2>2, <2>5, <3>1 DEF Loaded
  <2>. QED
    BY <2>3, <2>4, <2>5
<1>3. form' \in [Kinds -> Forms]
  BY <1>2 DEF Render
<1>4. ASSUME NEW t \in Handlers
      PROVE  handler'[t] \in HandlerStates /\ Carries(handler'[t], server') /\ Owned(handler'[t], editing')
  <2>. DEFINE h == hs[t]
              b == h.own /\ StillOpen(h, ed, del, c)
  <2>1. handler'[t] = [h EXCEPT !.own = b]
    BY DEF Render
  <2>2. h \in HandlerStates /\ b \in BOOLEAN
    OBVIOUS
  <2>3. b /\ h.op = "refresh" => h.own /\ ed[KindOf(h.row)] = editing[KindOf(h.row)]
    BY DEF StillOpen
  <2>4. Carries(h, server) /\ Owned(h, editing)
    OBVIOUS
  <2>. HIDE DEF b, h
  <2>5. /\ handler'[t] \in HandlerStates /\ handler'[t].own = b
        /\ handler'[t].op = h.op /\ handler'[t].row = h.row /\ handler'[t].step = h.step
        /\ handler'[t].version = h.version /\ handler'[t].base = h.base
        /\ handler'[t].outcome = h.outcome /\ handler'[t].data = h.data
    BY <2>1, <2>2 DEF HandlerStates
  <2>6. Carries(handler'[t], server')
    BY <2>4, <2>5 DEF Carries
  <2>7. Owned(handler'[t], editing')
    BY <1>1, <2>3, <2>4, <2>5 DEF Owned
  <2>. QED
    BY <2>5, <2>6, <2>7
<1>5. handler' \in [Handlers -> HandlerStates]
  BY <1>4 DEF Render
<1>6. Types'
  BY <1>1, <1>3, <1>5 DEF EditsSound, Types
<1>7. Seen(cache, server)'
  BY <1>1 DEF Seen
<1>. QED
  BY <1>2, <1>4, <1>6, <1>7 DEF EditsSound

\* A step that renders nothing new leaves forms as they were loaded.
LEMMA StaySound ==
    ASSUME EditsSound, UNCHANGED <<server, cache, editing, deleting>>,
           form' \in [Kinds -> Forms],
           \A k \in Kinds : form'[k].version = form[k].version /\ form'[k].base = form[k].base,
           handler' \in [Handlers -> HandlerStates],
           \A t \in Handlers : handler'[t] # handler[t] =>
             Carries(handler'[t], server) /\ Owned(handler'[t], editing)
    PROVE  EditsSound'
<1>1. Types'
  BY DEF EditsSound, Types
<1>2. Seen(cache, server)'
  BY DEF EditsSound, Seen
<1>3. ASSUME NEW k \in Kinds PROVE Loaded(k, form[k])'
  BY DEF EditsSound, Loaded, Shown
<1>4. ASSUME NEW t \in Handlers PROVE (Carries(handler[t], server) /\ Owned(handler[t], editing))'
  <2>1. Carries(handler'[t], server) /\ Owned(handler'[t], editing)
    BY DEF EditsSound
  <2>. QED
    BY <2>1 DEF Carries, Owned, Seen
<1>. QED
  BY <1>1, <1>2, <1>3, <1>4 DEF EditsSound

\* A step of the server keeps what forms, answers and the page were loaded
\* with older than its rows, or equal to them.
LEMMA ServerSound ==
    ASSUME EditsSound, UNCHANGED <<cache, editing, deleting, form>>,
           server' \in Snapshot, Grows,
           handler' \in [Handlers -> HandlerStates],
           \A t \in Handlers : handler'[t] # handler[t] =>
             Carries(handler'[t], server') /\ Owned(handler'[t], editing)
    PROVE  EditsSound'
<1>1. Types'
  BY DEF EditsSound, Types
<1>2. Seen(cache, server)'
  <2>1. Seen(cache, server')
    BY SeenGrows DEF EditsSound, Types
  <2>. QED
    BY <2>1 DEF Seen
<1>3. ASSUME NEW k \in Kinds PROVE Loaded(k, form[k])'
  <2>1. SUFFICES ASSUME Shown(editing, k, cache)
                 PROVE  Matches(form[k].version, form[k].base, server'[editing[k]])
    BY DEF Loaded, Shown
  <2>2. editing[k] \in Rows /\ form[k].version \in Nat
    BY <2>1 DEF EditsSound, Types, Shown, Forms
  <2>3. Matches(form[k].version, form[k].base, server[editing[k]])
    BY <2>1 DEF EditsSound, Loaded
  <2>4. server \in Snapshot
    BY DEF EditsSound, Types
  <2>. QED
    BY <2>2, <2>3, <2>4, MatchesGrows
<1>4. ASSUME NEW t \in Handlers PROVE (Carries(handler[t], server) /\ Owned(handler[t], editing))'
  <2>1. Carries(handler'[t], server') /\ Owned(handler'[t], editing)
    BY CarriesGrows DEF EditsSound, Types
  <2>. QED
    BY <2>1 DEF Carries, Owned, Seen
<1>. QED
  BY <1>1, <1>2, <1>3, <1>4 DEF EditsSound

-----------------------------------------------------------------------------
(* The user's steps *)

\* Where every render starts.
LEMMA HereSound ==
    ASSUME EditsSound
    PROVE  /\ server \in Snapshot /\ cache \in Snapshot /\ Seen(cache, server)
           /\ editing \in [Kinds -> Rows \cup {None}]
           /\ \A k \in Kinds : editing[k] # None => KindOf(editing[k]) = k
           /\ deleting \in [ConfirmKinds -> Entities \cup {None}]
           /\ form \in [Kinds -> Forms] /\ handler \in [Handlers -> HandlerStates]
           /\ \A t \in Handlers : Carries(handler[t], server) /\ Owned(handler[t], editing)
           /\ \A k \in Kinds : Loaded(k, form[k])
BY DEF EditsSound, Types

\* One handler changes, the others go on.
LEMMA OneHandler ==
    ASSUME EditsSound, NEW t \in Handlers, NEW h \in HandlerStates,
           Carries(h, server), Owned(h, editing), NEW hs, hs = [handler EXCEPT ![t] = h]
    PROVE  /\ hs \in [Handlers -> HandlerStates]
           /\ \A u \in Handlers : Carries(hs[u], server) /\ Owned(hs[u], editing)
BY HereSound

LEMMA OpenEditSound ==
    ASSUME EditsSound, NEW k \in Kinds, NEW r \in Rows, OpenEdit(k, r)
    PROVE  EditsSound'
<1>. DEFINE ed == [editing EXCEPT ![k] = r]
<1>1. KindOf(r) = k /\ UNCHANGED server /\ Render(ed, deleting, cache, form, confirming, handler)
  BY DEF OpenEdit
<1>2. ed \in [Kinds -> Rows \cup {None}] /\ \A j \in Kinds : ed[j] # None => KindOf(ed[j]) = j
  BY <1>1, HereSound
<1>. HIDE DEF ed
<1>. QED
  BY <1>1, <1>2, HereSound, RenderSound

LEMMA CancelEditSound ==
    ASSUME EditsSound, NEW k \in Kinds, CancelEdit(k)
    PROVE  EditsSound'
<1>. DEFINE ed == [editing EXCEPT ![k] = None]
<1>1. UNCHANGED server /\ Render(ed, deleting, cache, form, confirming, handler)
  BY DEF CancelEdit
<1>2. ed \in [Kinds -> Rows \cup {None}] /\ \A j \in Kinds : ed[j] # None => KindOf(ed[j]) = j
  BY HereSound
<1>. HIDE DEF ed
<1>. QED
  BY <1>1, <1>2, HereSound, RenderSound

LEMMA TypeSound ==
    ASSUME EditsSound, NEW k \in Kinds, NEW n \in Nat, Type(k, n)
    PROVE  EditsSound'
<1>1. /\ form' = [form EXCEPT ![k].shares = n]
      /\ UNCHANGED <<server, cache, editing, deleting, handler>>
  BY DEF Type
<1>2. form' \in [Kinds -> Forms]
      /\ \A j \in Kinds : form'[j].version = form[j].version /\ form'[j].base = form[j].base
  <2>1. form \in [Kinds -> Forms]
    BY HereSound
  <2>. QED
    BY <1>1, <2>1 DEF Forms
<1>. QED
  BY <1>1, <1>2, HereSound, StaySound

LEMMA SaveSound ==
    ASSUME EditsSound, NEW k \in Kinds, NEW t \in Handlers, Save(k, t)
    PROVE  EditsSound'
<1>. DEFINE h == Sends("save", editing[k], form[k])
<1>1. /\ Shown(editing, k, cache)
      /\ form' = [form EXCEPT ![k].submitting = TRUE] /\ handler' = [handler EXCEPT ![t] = h]
      /\ UNCHANGED <<server, cache, editing, deleting>>
  BY DEF Save, CanSave
<1>2. form' \in [Kinds -> Forms]
      /\ \A j \in Kinds : form'[j].version = form[j].version /\ form'[j].base = form[j].base
  <2>1. form \in [Kinds -> Forms]
    BY HereSound
  <2>. QED
    BY <1>1, <2>1 DEF Forms
<1>3. editing[k] \in Rows /\ Matches(form[k].version, form[k].base, server[editing[k]])
  BY <1>1, HereSound DEF Loaded, Shown
<1>4. h \in HandlerStates /\ Carries(h, server) /\ Owned(h, editing)
  BY <1>3, HereSound, SendsSound DEF Entities
<1>. HIDE DEF h
<1>5. handler' \in [Handlers -> HandlerStates]
      /\ \A u \in Handlers : Carries(handler'[u], server) /\ Owned(handler'[u], editing)
  BY <1>1, <1>4, OneHandler
<1>. QED
  BY <1>1, <1>2, <1>5, StaySound

LEMMA RefreshSound ==
    ASSUME EditsSound, NEW k \in Kinds, NEW t \in Handlers, Refresh(k, t)
    PROVE  EditsSound'
<1>. DEFINE h == Fetches("refresh", editing[k])
<1>1. /\ Shown(editing, k, cache)
      /\ form' = [form EXCEPT ![k].refreshing = TRUE] /\ handler' = [handler EXCEPT ![t] = h]
      /\ UNCHANGED <<server, cache, editing, deleting>>
  BY DEF Refresh, CanRefresh
<1>2. form' \in [Kinds -> Forms]
      /\ \A j \in Kinds : form'[j].version = form[j].version /\ form'[j].base = form[j].base
  <2>1. form \in [Kinds -> Forms]
    BY HereSound
  <2>. QED
    BY <1>1, <2>1 DEF Forms
<1>3. editing[k] \in Entities /\ editing[KindOf(editing[k])] = editing[k]
  BY <1>1, HereSound DEF Shown, Entities
<1>4. h \in HandlerStates /\ Carries(h, server) /\ Owned(h, editing)
  BY <1>3, FetchesSound
<1>. HIDE DEF h
<1>5. handler' \in [Handlers -> HandlerStates]
      /\ \A u \in Handlers : Carries(handler'[u], server) /\ Owned(handler'[u], editing)
  BY <1>1, <1>4, OneHandler
<1>. QED
  BY <1>1, <1>2, <1>5, StaySound

LEMMA OpenDeleteSound ==
    ASSUME EditsSound, NEW r \in Entities, OpenDelete(r)
    PROVE  EditsSound'
<1>. DEFINE del == [deleting EXCEPT ![KindOf(r)] = r]
<1>1. UNCHANGED server /\ Render(editing, del, cache, form, confirming, handler)
  BY DEF OpenDelete
<1>2. del \in [ConfirmKinds -> Entities \cup {None}]
  BY HereSound, KindTyped
<1>. HIDE DEF del
<1>. QED
  BY <1>1, <1>2, HereSound, RenderSound

LEMMA CancelDeleteSound ==
    ASSUME EditsSound, NEW k \in ConfirmKinds, CancelDelete(k)
    PROVE  EditsSound'
<1>. DEFINE del == [deleting EXCEPT ![k] = None]
<1>1. UNCHANGED server /\ Render(editing, del, cache, form, confirming, handler)
  BY DEF CancelDelete
<1>2. del \in [ConfirmKinds -> Entities \cup {None}]
  BY HereSound
<1>. HIDE DEF del
<1>. QED
  BY <1>1, <1>2, HereSound, RenderSound

LEMMA ConfirmSound ==
    ASSUME EditsSound, NEW k \in ConfirmKinds, NEW t \in Handlers, Confirm(k, t)
    PROVE  EditsSound'
<1>. DEFINE h == Sends("delete", deleting[k], Blank)
<1>1. /\ Shown(deleting, k, cache) /\ handler' = [handler EXCEPT ![t] = h]
      /\ UNCHANGED <<server, cache, editing, deleting, form>>
  BY DEF Confirm
<1>2. deleting[k] \in Entities
  BY <1>1, HereSound DEF Shown
<1>3. h \in HandlerStates /\ Carries(h, server) /\ Owned(h, editing)
  BY <1>2, SendsSound, BlankTyped
<1>. HIDE DEF h
<1>4. handler' \in [Handlers -> HandlerStates]
      /\ \A u \in Handlers : Carries(handler'[u], server) /\ Owned(handler'[u], editing)
  BY <1>1, <1>3, OneHandler
<1>. QED
  BY <1>1, <1>4, HereSound, StaySound

LEMMA RevalidateSound ==
    ASSUME EditsSound, NEW t \in Handlers, Revalidate(t)
    PROVE  EditsSound'
<1>. DEFINE h == Fetches("revalidate", Position)
<1>1. /\ handler' = [handler EXCEPT ![t] = h]
      /\ UNCHANGED <<server, cache, editing, deleting, form>>
  BY DEF Revalidate
<1>2. h \in HandlerStates /\ Carries(h, server) /\ Owned(h, editing)
  BY FetchesSound DEF Entities
<1>. HIDE DEF h
<1>3. handler' \in [Handlers -> HandlerStates]
      /\ \A u \in Handlers : Carries(handler'[u], server) /\ Owned(handler'[u], editing)
  BY <1>1, <1>2, OneHandler
<1>. QED
  BY <1>1, <1>3, HereSound, StaySound

\* A handler that loses its dialog still carries what it carried.
LEMMA DisownedSound ==
    ASSUME NEW h \in HandlerStates, NEW s, NEW ed, Carries(h, s)
    PROVE  LET g == [h EXCEPT !.own = FALSE] IN
           g \in HandlerStates /\ Carries(g, s) /\ Owned(g, ed)
<1>. DEFINE g == [h EXCEPT !.own = FALSE]
<1>1. /\ g \in HandlerStates /\ g.own = FALSE
      /\ g.op = h.op /\ g.row = h.row /\ g.step = h.step /\ g.version = h.version
      /\ g.base = h.base /\ g.outcome = h.outcome /\ g.data = h.data
  BY DEF HandlerStates
<1>. HIDE DEF g
<1>2. Carries(g, s) /\ Owned(g, ed)
  BY <1>1 DEF Carries, Owned
<1>. QED
  BY <1>1, <1>2 DEF g

LEMMA LeavePageSound ==
    ASSUME EditsSound, LeavePage
    PROVE  EditsSound'
<1>. DEFINE ed == [k \in Kinds |-> None]
            del == [k \in ConfirmKinds |-> None]
            hs == [t \in Handlers |-> IF handler[t].step = "sent"
                                     THEN [handler[t] EXCEPT !.own = FALSE] ELSE Idle]
            cf == [k \in ConfirmKinds |-> FALSE]
<1>1. UNCHANGED server /\ Render(ed, del, cache, form, cf, hs)
  BY DEF LeavePage
<1>2. /\ ed \in [Kinds -> Rows \cup {None}] /\ \A j \in Kinds : ed[j] # None => KindOf(ed[j]) = j
      /\ del \in [ConfirmKinds -> Entities \cup {None}]
  OBVIOUS
<1>3. ASSUME NEW t \in Handlers
      PROVE  hs[t] \in HandlerStates /\ Carries(hs[t], server) /\ Owned(hs[t], editing)
  <2>1. handler[t] \in HandlerStates /\ Carries(handler[t], server)
    BY HereSound
  <2>2. CASE handler[t].step = "sent"
    BY <2>1, <2>2, DisownedSound
  <2>3. CASE handler[t].step # "sent"
    BY <2>3, IdleSound
  <2>. QED
    BY <2>2, <2>3
<1>4. hs \in [Handlers -> HandlerStates]
  BY <1>3
<1>. HIDE DEF ed, del, hs, cf
<1>. QED
  BY <1>1, <1>2, <1>3, <1>4, HereSound, RenderSound

-----------------------------------------------------------------------------
(* The server's steps *)

\* The row of a save is written as a newer version; of a deletion only "live"
\* changes.
LEMMA WriteGrows ==
    ASSUME server \in Snapshot, NEW r \in Entities, NEW n \in Nat,
           server' = [server EXCEPT ![r].version = @ + 1, ![r].shares = n]
    PROVE  server' \in Snapshot /\ Grows
<1>. DEFINE w == [server[r] EXCEPT !.version = @ + 1, !.shares = n]
<1>1. \A q \in Entities : server[q] \in Row /\ server[q].version \in Nat
  BY DEF Snapshot, Row
<1>2. w \in Row /\ w.version = server[r].version + 1
  <2>1. server[r] \in Row /\ server[r].version + 1 \in Nat
    BY <1>1
  <2>. QED
    BY <2>1 DEF Row
<1>3. server' = [server EXCEPT ![r] = w]
  BY <1>1 DEF Snapshot
<1>. HIDE DEF w
<1>4. server' \in Snapshot /\ server'[r] = w /\ \A q \in Entities \ {r} : server'[q] = server[q]
  BY <1>2, <1>3 DEF Snapshot
<1>5. ASSUME NEW q \in Rows PROVE Matches(server[q].version, server[q].shares, server'[q])
  <2>1. q \in Entities
    BY DEF Entities
  <2>2. CASE q = r
    BY <1>1, <1>2, <1>4, <2>1, <2>2 DEF Matches
  <2>3. CASE q # r
    <3>1. server'[q] = server[q] /\ server[q].version \in Nat
      BY <1>1, <1>4, <2>1, <2>3
    <3>. QED
      BY <3>1 DEF Matches
  <2>. QED
    BY <2>2, <2>3
<1>. QED
  BY <1>4, <1>5 DEF Grows, Seen

LEMMA WithoutGrows ==
    ASSUME server \in Snapshot, NEW r \in Entities, server' = Without(r) \/ server' = server
    PROVE  server' \in Snapshot /\ Grows
<1>1. \A q \in Entities : server[q] \in Row /\ server[q].version \in Nat
  BY DEF Snapshot, Row
<1>2. ASSUME NEW q \in Entities
      PROVE  /\ server'[q] \in Row
             /\ server'[q].version = server[q].version /\ server'[q].shares = server[q].shares
  <2>1. CASE server' = server
    BY <1>1, <2>1
  <2>2. CASE server' = Without(r)
    <3>1. server'[q] = server[q] \/ server'[q] = [server[q] EXCEPT !.live = FALSE]
      BY <2>2 DEF Without
    <3>. QED
      BY <1>1, <3>1 DEF Row
  <2>. QED
    BY <2>1, <2>2
<1>3. server' \in Snapshot
  BY <1>2 DEF Without, Snapshot
<1>4. \A q \in Rows : Matches(server[q].version, server[q].shares, server'[q])
  BY <1>1, <1>2 DEF Matches, Entities
<1>. QED
  BY <1>3, <1>4 DEF Grows, Seen

\* A save or a deletion is answered.
LEMMA AnswerSound ==
    ASSUME EditsSound, NEW t \in Handlers, NEW outcome \in {"ok", "conflict", "refused", "lost"},
           server' \in Snapshot, Grows, UNCHANGED <<cache, editing, deleting, form>>,
           handler' = [handler EXCEPT ![t] = Answered(handler[t], outcome)]
    PROVE  EditsSound'
<1>. DEFINE h == Answered(handler[t], outcome)
<1>1. h \in HandlerStates /\ Carries(h, server') /\ Owned(h, editing)
  BY HereSound, AnsweredSound
<1>2. handler' = [handler EXCEPT ![t] = h]
  OBVIOUS
<1>. HIDE DEF h
<1>3. handler' \in [Handlers -> HandlerStates]
      /\ \A u \in Handlers : handler'[u] # handler[u] => handler'[u] = h
  BY <1>1, <1>2, HereSound
<1>. QED
  BY <1>1, <1>3, ServerSound

LEMMA PatchOutcomeTyped ==
    ASSUME NEW h
    PROVE  /\ PatchOutcome(h) \in {"ok", "conflict", "refused"}
           /\ PatchOutcome(h) = "ok" => server[h.row].version = h.version
BY DEF PatchOutcome, VersionMatches

LEMMA ServerPatchSound ==
    ASSUME EditsSound, NEW t \in Handlers, ServerPatch(t)
    PROVE  EditsSound'
<1>. DEFINE h == handler[t]
<1>1. /\ handler' = [handler EXCEPT ![t] = Answered(handler[t], PatchOutcome(h))]
      /\ \/ server' = server
         \/ server' = [server EXCEPT ![h.row].version = @ + 1, ![h.row].shares = h.shares]
      /\ UNCHANGED <<cache, editing, deleting, form>>
  BY DEF ServerPatch
<1>2. h.row \in Entities /\ h.shares \in Nat /\ server \in Snapshot
  BY HereSound DEF HandlerStates
<1>3. PatchOutcome(h) \in {"ok", "conflict", "refused", "lost"}
  BY PatchOutcomeTyped
<1>. HIDE DEF h
<1>4. server' \in Snapshot /\ Grows
  BY <1>1, <1>2, WriteGrows, WithoutGrows
<1>. QED
  BY <1>1, <1>3, <1>4, AnswerSound

LEMMA ServerDeleteSound ==
    ASSUME EditsSound, NEW t \in Handlers, ServerDelete(t)
    PROVE  EditsSound'
<1>. DEFINE h == handler[t]
            outcome == IF MayDelete(h.row) THEN "ok" ELSE "refused"
<1>1. /\ handler' = [handler EXCEPT ![t] = Answered(handler[t], outcome)]
      /\ server' = Without(h.row) \/ server' = server
      /\ UNCHANGED <<cache, editing, deleting, form>>
  BY DEF ServerDelete
<1>2. h.row \in Entities /\ server \in Snapshot
  BY HereSound DEF HandlerStates
<1>3. outcome \in {"ok", "conflict", "refused", "lost"}
  OBVIOUS
<1>. HIDE DEF h, outcome
<1>4. server' \in Snapshot /\ Grows
  BY <1>1, <1>2, WithoutGrows
<1>. QED
  BY <1>1, <1>3, <1>4, AnswerSound

\* What a request for the position brings is what the server holds.
LEMMA FetchedSound ==
    ASSUME EditsSound, NEW t \in Handlers, handler[t].step = "fetch",
           NEW d \in {server, None}, UNCHANGED <<server, cache, editing, deleting, form>>,
           handler' = [handler EXCEPT ![t].step = "fetched", ![t].data = d]
    PROVE  EditsSound'
<1>. DEFINE h == handler[t]
            g == [h EXCEPT !.step = "fetched", !.data = d]
<1>1. h \in HandlerStates /\ server \in Snapshot /\ Owned(h, editing)
  BY HereSound
<1>2. /\ g \in HandlerStates /\ g.step = "fetched" /\ g.data = d
      /\ g.op = h.op /\ g.row = h.row /\ g.own = h.own
  BY <1>1 DEF HandlerStates, Steps
<1>3. handler' = [handler EXCEPT ![t] = g]
  OBVIOUS
<1>. HIDE DEF g, h
<1>4. Seen(server, server)
  <2>1. \A r \in Rows : server[r].version \in Nat
    BY <1>1 DEF Snapshot, Row, Entities
  <2>. QED
    BY <2>1 DEF Seen, Matches
<1>5. Carries(g, server) /\ Owned(g, editing)
  BY <1>1, <1>2, <1>4 DEF Carries, Owned
<1>6. handler' \in [Handlers -> HandlerStates]
      /\ \A u \in Handlers : Carries(handler'[u], server) /\ Owned(handler'[u], editing)
  BY <1>2, <1>3, <1>5, OneHandler
<1>. QED
  BY <1>6, HereSound, StaySound

LEMMA ServerReadSound ==
    ASSUME EditsSound, NEW t \in Handlers, ServerRead(t)
    PROVE  EditsSound'
<1>. DEFINE d == IF server[Position].live THEN server ELSE None
<1>1. /\ handler[t].step = "fetch"
      /\ handler' = [handler EXCEPT ![t].step = "fetched", ![t].data = d]
      /\ UNCHANGED <<server, cache, editing, deleting, form>>
  BY DEF ServerRead
<1>2. d \in {server, None}
  OBVIOUS
<1>. HIDE DEF d
<1>. QED
  BY <1>1, <1>2, FetchedSound

LEMMA OtherEditsSound ==
    ASSUME EditsSound, NEW r \in Rows, OtherEdits(r)
    PROVE  EditsSound'
<1>1. PICK n \in SharesOf(KindOf(r)) :
        server' = [server EXCEPT ![r].version = @ + 1, ![r].shares = n]
  BY DEF OtherEdits
<1>2. UNCHANGED <<cache, editing, deleting, form, handler>>
  BY DEF OtherEdits
<1>3. n \in Nat /\ r \in Entities
  BY SharesAssumption DEF SharesOf, Entities
<1>4. server' \in Snapshot /\ Grows
  BY <1>1, <1>3, HereSound, WriteGrows
<1>. QED
  BY <1>2, <1>4, HereSound, ServerSound

LEMMA OtherDeletesSound ==
    ASSUME EditsSound, NEW r \in Entities, OtherDeletes(r)
    PROVE  EditsSound'
<1>1. server' = Without(r) /\ UNCHANGED <<cache, editing, deleting, form, handler>>
  BY DEF OtherDeletes
<1>2. server' \in Snapshot /\ Grows
  BY <1>1, HereSound, WithoutGrows
<1>. QED
  BY <1>1, <1>2, HereSound, ServerSound

LEMMA LoseSound ==
    ASSUME EditsSound, NEW t \in Handlers, Lose(t)
    PROVE  EditsSound'
<1>1. UNCHANGED <<server, cache, editing, deleting, form>>
  BY DEF Lose
<1>2. CASE handler' = [handler EXCEPT ![t] = Answered(handler[t], "lost")]
  <2>1. server' \in Snapshot /\ Grows
    BY <1>1, HereSound, WithoutGrows DEF Entities
  <2>. QED
    BY <1>1, <1>2, <2>1, AnswerSound
<1>3. CASE /\ handler[t].step = "fetch"
           /\ handler' = [handler EXCEPT ![t].step = "fetched", ![t].data = None]
  BY <1>1, <1>3, FetchedSound
<1>. QED
  BY <1>2, <1>3 DEF Lose

-----------------------------------------------------------------------------
(* Answers *)

LEMMA SavedSound ==
    ASSUME EditsSound, NEW k \in Kinds, NEW t \in Handlers, Saved(k, t)
    PROVE  EditsSound'
<1>. DEFINE ed == [editing EXCEPT ![k] = None]
            h == Fetches("revalidate", Position)
            hs == [handler EXCEPT ![t] = h]
<1>1. UNCHANGED server /\ Render(ed, deleting, cache, form, confirming, hs)
  BY DEF Saved
<1>2. ed \in [Kinds -> Rows \cup {None}] /\ \A j \in Kinds : ed[j] # None => KindOf(ed[j]) = j
  BY HereSound
<1>3. h \in HandlerStates /\ Carries(h, server) /\ Owned(h, editing)
  BY FetchesSound DEF Entities
<1>. HIDE DEF h
<1>4. hs \in [Handlers -> HandlerStates]
      /\ \A u \in Handlers : Carries(hs[u], server) /\ Owned(hs[u], editing)
  BY <1>3, OneHandler
<1>. HIDE DEF ed, hs
<1>. QED
  BY <1>1, <1>2, <1>4, HereSound, RenderSound

\* A handler ends.
LEMMA EndSound ==
    ASSUME EditsSound, NEW t \in Handlers, NEW hs, hs = [handler EXCEPT ![t] = Idle]
    PROVE  /\ hs \in [Handlers -> HandlerStates]
           /\ \A u \in Handlers : Carries(hs[u], server) /\ Owned(hs[u], editing)
BY IdleSound, OneHandler

LEMMA SaveFailedSound ==
    ASSUME EditsSound, NEW k \in Kinds, NEW t \in Handlers, SaveFailed(k, t)
    PROVE  EditsSound'
<1>. DEFINE h == handler[t]
            f == AfterFailure(form[k], h)
<1>1. /\ form' = form \/ form' = [form EXCEPT ![k] = f]
      /\ handler' = [handler EXCEPT ![t] = Idle]
      /\ UNCHANGED <<server, cache, editing, deleting>>
  BY DEF SaveFailed
<1>2. f \in Forms /\ f.version = form[k].version /\ f.base = form[k].base
  <2>1. form[k] \in Forms
    BY HereSound
  <2>2. (form[k].conflict \/ h.outcome = "conflict") \in BOOLEAN
    BY <2>1 DEF Forms
  <2>. QED
    BY <2>1, <2>2 DEF AfterFailure, Forms
<1>. HIDE DEF f
<1>3. form' \in [Kinds -> Forms]
      /\ \A j \in Kinds : form'[j].version = form[j].version /\ form'[j].base = form[j].base
  BY <1>1, <1>2, HereSound
<1>. QED
  BY <1>1, <1>3, EndSound, StaySound

\* What SWR caches next was read from the server.
LEMMA NewCacheSound ==
    ASSUME EditsSound, NEW t \in Handlers, Arrives(t)
    PROVE  NewCache(t) \in Snapshot /\ Seen(NewCache(t), server)
<1>1. handler[t].step = "fetched"
  BY DEF Arrives
<1>2. handler[t].data \in Snapshot \cup {None} /\ Carries(handler[t], server)
  BY HereSound DEF HandlerStates
<1>. QED
  BY <1>1, <1>2, HereSound DEF NewCache, Applies, Carries

LEMMA PositionArrivesSound ==
    ASSUME EditsSound, NEW t \in Handlers, PositionArrives(t)
    PROVE  EditsSound'
<1>. DEFINE hs == [handler EXCEPT ![t] = Idle]
            c == NewCache(t)
<1>1. /\ Arrives(t) /\ UNCHANGED server
      /\ Render(editing, deleting, c, form, confirming, hs)
  BY DEF PositionArrives, Arrives
<1>2. c \in Snapshot /\ Seen(c, server)
  BY <1>1, NewCacheSound
<1>3. hs \in [Handlers -> HandlerStates]
      /\ \A u \in Handlers : Carries(hs[u], server) /\ Owned(hs[u], editing)
  BY EndSound
<1>. HIDE DEF hs, c
<1>. QED
  BY <1>1, <1>2, <1>3, HereSound, RenderSound

\* The fields a refresh loads are those of the row its dialog edits.
LEMMA RefreshedSound ==
    ASSUME EditsSound, NEW k \in Kinds, NEW t \in Handlers, Refreshed(k, t)
    PROVE  EditsSound'
<1>. DEFINE h == handler[t]
            c == NewCache(t)
            row == c[h.row]
            f == [form[k] EXCEPT !.conflict = FALSE, !.refreshing = FALSE]
            g == IF row.live THEN Effect(f, row) ELSE f
            fm == IF ~h.own THEN form ELSE [form EXCEPT ![k] = g]
            hs == [handler EXCEPT ![t] = Idle]
<1>1. /\ Arrives(t) /\ h.op = "refresh" /\ KindOf(h.row) = k /\ UNCHANGED server
      /\ Render(editing, deleting, c, fm, confirming, hs)
  BY DEF Refreshed, Arrives
<1>2. c \in Snapshot /\ Seen(c, server)
  BY <1>1, NewCacheSound
<1>3. h.row \in Entities /\ (h.own => editing[k] = h.row)
  BY <1>1, HereSound DEF HandlerStates, Owned
<1>4. form[k] \in Forms /\ f \in Forms /\ f.version = form[k].version /\ f.base = form[k].base
  <2>1. form[k] \in Forms
    BY HereSound
  <2>. QED
    BY <2>1 DEF Forms
<1>5. row \in Row
  BY <1>2, <1>3 DEF Snapshot
<1>6. hs \in [Handlers -> HandlerStates]
      /\ \A u \in Handlers : Carries(hs[u], server) /\ Owned(hs[u], editing)
  BY EndSound
<1>. HIDE DEF h, c, row, f, hs
<1>7. g \in Forms
  BY <1>4, <1>5, EffectTyped
<1>8. ASSUME h.own PROVE Loaded(k, g)
  <2>1. CASE row.live
    <3>1. g.version = row.version /\ g.base = row.shares
      BY <1>4, <1>5, <2>1, EffectTyped
    <3>2. editing[k] = h.row /\ h.row \in Rows
      BY <1>3, <1>8, HereSound, EntitiesAssumption
    <3>3. Matches(row.version, row.shares, server[h.row])
      BY <1>2, <3>2 DEF Seen, row
    <3>. HIDE DEF g
    <3>. QED
      BY <3>1, <3>2, <3>3 DEF Loaded
  <2>2. CASE ~row.live
    <3>1. g.version = form[k].version /\ g.base = form[k].base /\ Loaded(k, form[k])
      BY <1>4, <2>2, HereSound
    <3>. HIDE DEF g
    <3>. QED
      BY <3>1 DEF Loaded
  <2>. QED
    BY <2>1, <2>2
<1>. HIDE DEF g
<1>9. fm \in [Kinds -> Forms] /\ \A j \in Kinds : Loaded(j, fm[j])
  <2>1. CASE ~h.own
    BY <2>1, HereSound
  <2>2. CASE h.own
    <3>1. fm = [form EXCEPT ![k] = g]
      BY <2>2
    <3>. HIDE DEF fm
    <3>2. fm \in [Kinds -> Forms] /\ fm[k] = g /\ \A j \in Kinds \ {k} : fm[j] = form[j]
      BY <1>7, <3>1, HereSound
    <3>3. Loaded(k, g) /\ \A j \in Kinds : Loaded(j, form[j])
      BY <1>8, <2>2, HereSound
    <3>. QED
      BY <3>2, <3>3
  <2>. QED
    BY <2>1, <2>2
<1>. HIDE DEF fm
<1>. QED
  BY <1>1, <1>2, <1>6, <1>9, HereSound, RenderSound

\* A handler goes on to its next step, with nothing it carries changed.
LEMMA GoesOnSound ==
    ASSUME EditsSound, NEW t \in Handlers, NEW step \in {"fetch", "dashboard"},
           NEW d \in {handler[t].data, None}, handler[t].op = "delete"
    PROVE  LET g == [handler[t] EXCEPT !.step = step, !.data = d] IN
           g \in HandlerStates /\ Carries(g, server) /\ Owned(g, editing)
<1>. DEFINE h == handler[t]
            g == [h EXCEPT !.step = step, !.data = d]
<1>1. h \in HandlerStates /\ Owned(h, editing) /\ h.op = "delete"
  BY HereSound
<1>2. d \in Snapshot \cup {None}
  BY <1>1 DEF HandlerStates
<1>. HIDE DEF h
<1>3. g \in HandlerStates /\ g.step = step /\ g.op = h.op /\ g.row = h.row /\ g.own = h.own
  BY <1>1, <1>2, Zenon DEF HandlerStates, Steps
<1>. HIDE DEF g
<1>4. Carries(g, server) /\ Owned(g, editing)
  BY <1>1, <1>3 DEF Carries, Owned
<1>. QED
  BY <1>3, <1>4 DEF g, h

LEMMA DeletedSound ==
    ASSUME EditsSound, NEW t \in Handlers, Deleted(t)
    PROVE  EditsSound'
<1>. DEFINE step == IF handler[t].row = Position THEN "dashboard" ELSE "fetch"
            g == [handler[t] EXCEPT !.step = step, !.data = handler[t].data]
<1>1. /\ handler' = [handler EXCEPT ![t].step = step] /\ handler[t].op = "delete"
      /\ UNCHANGED <<server, cache, editing, deleting, form>>
  BY DEF Deleted
<1>2. step \in {"fetch", "dashboard"}
  OBVIOUS
<1>. HIDE DEF step
<1>3. g \in HandlerStates /\ Carries(g, server) /\ Owned(g, editing)
  BY <1>1, <1>2, GoesOnSound, Zenon
<1>4. handler' = [handler EXCEPT ![t] = g]
  <2>1. handler[t] \in HandlerStates
    BY HereSound
  <2>2. g = [handler[t] EXCEPT !.step = step]
    BY <2>1 DEF HandlerStates
  <2>. QED
    BY <1>1, <2>2
<1>. HIDE DEF g
<1>5. handler' \in [Handlers -> HandlerStates]
      /\ \A u \in Handlers : Carries(handler'[u], server) /\ Owned(handler'[u], editing)
  BY <1>3, <1>4, OneHandler
<1>. QED
  BY <1>1, <1>5, HereSound, StaySound

LEMMA DeleteFailedSound ==
    ASSUME EditsSound, NEW t \in Handlers, DeleteFailed(t)
    PROVE  EditsSound'
<1>1. /\ handler' = [handler EXCEPT ![t] = Idle]
      /\ UNCHANGED <<server, cache, editing, deleting, form>>
  BY DEF DeleteFailed
<1>. QED
  BY <1>1, EndSound, HereSound, StaySound

LEMMA DeletionArrivesSound ==
    ASSUME EditsSound, NEW t \in Handlers, DeletionArrives(t)
    PROVE  EditsSound'
<1>. DEFINE g == [handler[t] EXCEPT !.step = "dashboard", !.data = None]
            hs == [handler EXCEPT ![t] = g]
            c == NewCache(t)
<1>1. /\ Arrives(t) /\ handler[t].op = "delete" /\ UNCHANGED server
      /\ Render(editing, deleting, c, form, confirming, hs)
  BY Zenon DEF DeletionArrives, Arrives
<1>2. c \in Snapshot /\ Seen(c, server)
  BY <1>1, NewCacheSound
<1>3. g \in HandlerStates /\ Carries(g, server) /\ Owned(g, editing)
  BY <1>1, GoesOnSound, Zenon
<1>. HIDE DEF g
<1>4. hs \in [Handlers -> HandlerStates]
      /\ \A u \in Handlers : Carries(hs[u], server) /\ Owned(hs[u], editing)
  BY <1>3, OneHandler
<1>. HIDE DEF hs, c
<1>. QED
  BY <1>1, <1>2, <1>4, HereSound, RenderSound

LEMMA RowDeletedSound ==
    ASSUME EditsSound, NEW t \in Handlers, RowDeleted(t)
    PROVE  EditsSound'
<1>. DEFINE k == KindOf(handler[t].row)
            del == [deleting EXCEPT ![k] = None]
            hs == [handler EXCEPT ![t] = Idle]
<1>1. UNCHANGED server /\ Render(editing, del, cache, form, confirming, hs)
  BY DEF RowDeleted
<1>2. del \in [ConfirmKinds -> Entities \cup {None}]
  BY HereSound
<1>3. hs \in [Handlers -> HandlerStates]
      /\ \A u \in Handlers : Carries(hs[u], server) /\ Owned(hs[u], editing)
  BY EndSound
<1>. HIDE DEF del, hs
<1>. QED
  BY <1>1, <1>2, <1>3, HereSound, RenderSound

LEMMA ArrivesTooLateSound ==
    ASSUME EditsSound, NEW t \in Handlers, ArrivesTooLate(t)
    PROVE  EditsSound'
<1>1. /\ handler' = [handler EXCEPT ![t] = Idle]
      /\ UNCHANGED <<server, cache, editing, deleting, form>>
  BY DEF ArrivesTooLate
<1>. QED
  BY <1>1, EndSound, HereSound, StaySound

-----------------------------------------------------------------------------
(* The invariant *)

LEMMA InitSound == Init => EditsSound
<1>. SUFFICES ASSUME Init PROVE EditsSound
  OBVIOUS
<1>1. server \in Snapshot
  <2>. DEFINE n(e) == IF e = Position THEN 0 ELSE Initial[e]
              row(e) == [live |-> TRUE, version |-> 1, shares |-> n(e)]
  <2>1. ASSUME NEW e \in Entities PROVE n(e) \in Nat
    BY SharesAssumption DEF Entities
  <2>2. ASSUME NEW e \in Entities PROVE row(e) \in Row
    BY <2>1 DEF Row
  <2>3. server = [e \in Entities |-> row(e)]
    BY DEF Init
  <2>. HIDE DEF row
  <2>. QED
    BY <2>2, <2>3 DEF Snapshot
<1>2. cache = server
  BY DEF Init
<1>3. Seen(cache, server)
  <2>1. \A r \in Rows : server[r].version \in Nat
    BY <1>1 DEF Snapshot, Row, Entities
  <2>. QED
    BY <1>2, <2>1 DEF Seen, Matches
<1>4. \A k \in Kinds : editing[k] = None
  BY DEF Init
<1>5. Types
  <2>1. editing \in [Kinds -> Rows \cup {None}] /\ deleting \in [ConfirmKinds -> Entities \cup {None}]
    BY DEF Init
  <2>2. form \in [Kinds -> Forms]
    BY BlankTyped DEF Init
  <2>3. handler \in [Handlers -> HandlerStates]
    BY IdleSound DEF Init
  <2>. QED
    BY <1>1, <1>2, <1>4, <2>1, <2>2, <2>3 DEF Types
<1>6. \A k \in Kinds : Loaded(k, form[k])
  BY <1>4 DEF Loaded, Shown
<1>7. \A t \in Handlers : Carries(handler[t], server) /\ Owned(handler[t], editing)
  BY IdleSound DEF Init
<1>. QED
  BY <1>3, <1>5, <1>6, <1>7 DEF EditsSound

LEMMA UserStepSound ==
    ASSUME EditsSound, UserStep
    PROVE  EditsSound'
<1>1. ASSUME NEW r \in Rows, EditLot(r) \/ EditTranche(r) PROVE EditsSound'
  BY <1>1, OpenEditSound DEF EditLot, EditTranche, Kinds
<1>2. ASSUME TypeLot \/ TypeTranche PROVE EditsSound'
  <2>1. \A n \in LotShares \cup TrancheShares : n \in Nat
    BY SharesAssumption
  <2>. QED
    BY <1>2, <2>1, TypeSound DEF TypeLot, TypeTranche, Kinds
<1>3. ASSUME GoBack PROVE EditsSound'
  BY <1>3, LeavePageSound DEF GoBack
<1>4. ASSUME NEW k \in Kinds, CancelEdit(k) PROVE EditsSound'
  BY <1>4, CancelEditSound
<1>5. ASSUME NEW r \in Entities, OpenDelete(r) PROVE EditsSound'
  BY <1>5, OpenDeleteSound
<1>6. ASSUME NEW k \in ConfirmKinds, CancelDelete(k) \/ \E t \in Handlers : Confirm(k, t)
      PROVE  EditsSound'
  BY <1>6, CancelDeleteSound, ConfirmSound
<1>7. ASSUME NEW t \in Handlers, SaveLot(t) \/ SaveTranche(t) PROVE EditsSound'
  BY <1>7, SaveSound DEF SaveLot, SaveTranche, Kinds
<1>8. ASSUME NEW t \in Handlers, RefreshLot(t) \/ RefreshTranche(t) PROVE EditsSound'
  BY <1>8, RefreshSound DEF RefreshLot, RefreshTranche, Kinds
<1>9. ASSUME NEW t \in Handlers, Revalidate(t) PROVE EditsSound'
  BY <1>9, RevalidateSound
<1>. QED
  BY <1>1, <1>2, <1>3, <1>4, <1>5, <1>6, <1>7, <1>8, <1>9 DEF UserStep

LEMMA HandlerStepSound ==
    ASSUME EditsSound, NEW t \in Handlers, HandlerStep(t)
    PROVE  EditsSound'
<1>1. CASE ServerPatch(t) \/ ServerDelete(t) \/ ServerRead(t)
  BY <1>1, ServerPatchSound, ServerDeleteSound, ServerReadSound
<1>2. CASE LotSaved(t) \/ TrancheSaved(t)
  BY <1>2, SavedSound DEF LotSaved, TrancheSaved, Kinds
<1>3. CASE LotSaveFailed(t) \/ TrancheSaveFailed(t)
  BY <1>3, SaveFailedSound DEF LotSaveFailed, TrancheSaveFailed, Kinds
<1>4. CASE LotRefreshed(t) \/ TrancheRefreshed(t)
  BY <1>4, RefreshedSound DEF LotRefreshed, TrancheRefreshed, Kinds
<1>5. CASE PositionArrives(t) \/ DeletionArrives(t)
  BY <1>5, PositionArrivesSound, DeletionArrivesSound
<1>6. CASE Deleted(t) \/ DeleteFailed(t) \/ RowDeleted(t)
  BY <1>6, DeletedSound, DeleteFailedSound, RowDeletedSound
<1>7. CASE PositionDeleted(t) \/ ArrivesTooLate(t)
  BY <1>7, LeavePageSound, ArrivesTooLateSound DEF PositionDeleted
<1>. QED
  BY <1>1, <1>2, <1>3, <1>4, <1>5, <1>6, <1>7 DEF HandlerStep

LEMMA StepSound == EditsSound /\ [Next]_vars => EditsSound'
<1>1. ASSUME EditsSound, UserStep PROVE EditsSound'
  BY <1>1, UserStepSound
<1>2. ASSUME EditsSound, NEW t \in Handlers, HandlerStep(t) PROVE EditsSound'
  BY <1>2, HandlerStepSound
<1>3. ASSUME EditsSound, NEW t \in Handlers, Lose(t) PROVE EditsSound'
  BY <1>3, LoseSound
<1>4. ASSUME EditsSound, NEW r \in Shared \cap Rows, OtherEdits(r) PROVE EditsSound'
  BY <1>4, OtherEditsSound
<1>5. ASSUME EditsSound, NEW r \in Shared, OtherDeletes(r) PROVE EditsSound'
  <2>1. r \in Entities
    BY EntitiesAssumption
  <2>. QED
    BY <1>5, <2>1, OtherDeletesSound
<1>6. ASSUME EditsSound, UNCHANGED vars PROVE EditsSound'
  BY <1>6, HereSound, StaySound DEF vars
<1>. QED
  BY <1>1, <1>2, <1>3, <1>4, <1>5, <1>6 DEF Next

-----------------------------------------------------------------------------
(* Only the server accepts a save *)

UnderWay(h) ==
    h \in HandlerStates /\ h.step = "sent" /\ h.op = "save" /\ h.outcome = "none"

LEMMA IdleIsNotUnderWay == ~UnderWay(Idle)
BY DEF UnderWay, Idle

\* Rendering the page answers nothing.
LEMMA RenderAnswersNothing ==
    ASSUME NEW t \in Handlers, NEW ed, NEW del, NEW c, NEW fm, NEW cf, NEW hs,
           hs[t] = handler[t], UnderWay(handler[t]), Render(ed, del, c, fm, cf, hs)
    PROVE  handler'[t].outcome = "none"
<1>. DEFINE b == hs[t].own /\ StillOpen(hs[t], ed, del, c)
<1>1. handler'[t] = [hs[t] EXCEPT !.own = b]
  BY DEF Render
<1>. HIDE DEF b
<1>. QED
  BY <1>1 DEF UnderWay, HandlerStates

LEMMA LeavingAnswersNothing ==
    ASSUME NEW t \in Handlers, UnderWay(handler[t]), LeavePage
    PROVE  handler'[t].outcome = "none"
<1>. DEFINE ed == [k \in Kinds |-> None]
            del == [k \in ConfirmKinds |-> None]
            hs == [u \in Handlers |-> IF handler[u].step = "sent"
                                     THEN [handler[u] EXCEPT !.own = FALSE] ELSE Idle]
            cf == [k \in ConfirmKinds |-> FALSE]
            b == hs[t].own /\ StillOpen(hs[t], ed, del, cache)
<1>1. hs[t] = [handler[t] EXCEPT !.own = FALSE]
  BY DEF UnderWay
<1>2. handler'[t] = [hs[t] EXCEPT !.own = b]
  BY DEF LeavePage, Render
<1>. HIDE DEF b, hs
<1>. QED
  BY <1>1, <1>2 DEF UnderWay, HandlerStates

LEMMA UserAnswersNothing ==
    ASSUME EditsSound, NEW t \in Handlers, UnderWay(handler[t]), UserStep
    PROVE  handler'[t].outcome = "none"
<1>1. CASE GoBack
  BY <1>1, LeavingAnswersNothing DEF GoBack
<1>2. ASSUME NEW r \in Rows, EditLot(r) \/ EditTranche(r) PROVE handler'[t].outcome = "none"
  BY <1>2, RenderAnswersNothing DEF EditLot, EditTranche, OpenEdit
<1>3. ASSUME NEW k \in Kinds, CancelEdit(k) PROVE handler'[t].outcome = "none"
  BY <1>3, RenderAnswersNothing DEF CancelEdit
<1>4. ASSUME NEW r \in Entities, OpenDelete(r) PROVE handler'[t].outcome = "none"
  BY <1>4, RenderAnswersNothing DEF OpenDelete
<1>5. ASSUME NEW k \in ConfirmKinds, CancelDelete(k) PROVE handler'[t].outcome = "none"
  BY <1>5, RenderAnswersNothing DEF CancelDelete
<1>6. CASE TypeLot \/ TypeTranche
  BY <1>6 DEF TypeLot, TypeTranche, Type, UnderWay
<1>7. ASSUME NEW u \in Handlers, NEW h, handler[u] = Idle, handler' = [handler EXCEPT ![u] = h]
      PROVE  handler'[t].outcome = "none"
  <2>1. u # t
    BY <1>7, IdleIsNotUnderWay
  <2>. QED
    BY <1>7, <2>1, HereSound DEF UnderWay
<1>8. ASSUME NEW u \in Handlers, NEW k \in ConfirmKinds,
             Confirm(k, u) \/ SaveLot(u) \/ SaveTranche(u)
             \/ RefreshLot(u) \/ RefreshTranche(u) \/ Revalidate(u)
      PROVE  handler'[t].outcome = "none"
  BY <1>7, <1>8 DEF Confirm, SaveLot, SaveTranche, Save, RefreshLot, RefreshTranche, Refresh, Revalidate
<1>9. "lot" \in ConfirmKinds
  BY DEF ConfirmKinds, Kinds
<1>. QED
  BY <1>1, <1>2, <1>3, <1>4, <1>5, <1>6, <1>8, <1>9 DEF UserStep

\* Another handler changes.
LEMMA OthersAnswerNothing ==
    ASSUME EditsSound, NEW t \in Handlers, UnderWay(handler[t]), NEW u \in Handlers,
           handler[u].step # "sent" \/ handler[u].op # "save",
           NEW h, NEW hs, hs = [handler EXCEPT ![u] = h]
    PROVE  hs[t] = handler[t] /\ hs[t].outcome = "none"
<1>1. u # t
  BY DEF UnderWay
<1>. QED
  BY <1>1, HereSound DEF UnderWay

LEMMA HandlersAnswerNothing ==
    ASSUME EditsSound, NEW t \in Handlers, UnderWay(handler[t]), NEW u \in Handlers,
           HandlerStep(u), ~ServerPatch(u)
    PROVE  handler'[t].outcome = "none"
<1>1. CASE ServerDelete(u)
  BY <1>1, OthersAnswerNothing DEF ServerDelete
<1>2. CASE ServerRead(u)
  <2>1. handler[u] \in HandlerStates /\ handler[u].step = "fetch"
    BY <1>2, HereSound DEF ServerRead
  <2>2. PICK h : handler' = [handler EXCEPT ![u] = h]
    BY <1>2 DEF ServerRead
  <2>. QED
    BY <2>1, <2>2, OthersAnswerNothing
<1>3. ASSUME NEW k \in Kinds, Saved(k, u) PROVE handler'[t].outcome = "none"
  BY <1>3, OthersAnswerNothing, RenderAnswersNothing DEF Saved
<1>4. ASSUME NEW k \in Kinds, SaveFailed(k, u) PROVE handler'[t].outcome = "none"
  BY <1>4, OthersAnswerNothing DEF SaveFailed
<1>5. CASE PositionArrives(u)
  BY <1>5, OthersAnswerNothing, RenderAnswersNothing DEF PositionArrives, Arrives
<1>6. ASSUME NEW k \in Kinds, Refreshed(k, u) PROVE handler'[t].outcome = "none"
  BY <1>6, OthersAnswerNothing, RenderAnswersNothing DEF Refreshed, Arrives
<1>7. CASE Deleted(u)
  BY <1>7, OthersAnswerNothing DEF Deleted
<1>8. CASE DeleteFailed(u)
  BY <1>8, OthersAnswerNothing DEF DeleteFailed
<1>9. CASE DeletionArrives(u)
  <2>. DEFINE hs == [handler EXCEPT ![u].step = "dashboard", ![u].data = None]
  <2>1. handler[u].step = "fetched" /\ Render(editing, deleting, NewCache(u), form, confirming, hs)
    BY <1>9 DEF DeletionArrives, Arrives
  <2>2. PICK h : hs = [handler EXCEPT ![u] = h]
    OBVIOUS
  <2>. HIDE DEF hs
  <2>3. handler[u].step # "sent"
    BY <2>1
  <2>4. hs[t] = handler[t]
    BY <2>2, <2>3, OthersAnswerNothing
  <2>. QED
    BY <2>1, <2>4, RenderAnswersNothing
<1>10. CASE RowDeleted(u)
  BY <1>10, OthersAnswerNothing, RenderAnswersNothing DEF RowDeleted
<1>11. CASE PositionDeleted(u)
  BY <1>11, LeavingAnswersNothing DEF PositionDeleted
<1>12. CASE ArrivesTooLate(u)
  BY <1>12, OthersAnswerNothing DEF ArrivesTooLate
<1>. QED
  BY <1>1, <1>2, <1>3, <1>4, <1>5, <1>6, <1>7, <1>8, <1>9, <1>10, <1>11, <1>12
  DEF HandlerStep, LotSaved, TrancheSaved, LotSaveFailed, TrancheSaveFailed,
      LotRefreshed, TrancheRefreshed, Kinds

LEMMA PatchAcceptsMatching ==
    ASSUME EditsSound, NEW t \in Handlers, UnderWay(handler[t]), NEW u \in Handlers,
           ServerPatch(u), handler'[t].outcome = "ok"
    PROVE  server[handler[t].row].shares = handler[t].base
<1>1. handler' = [handler EXCEPT ![u] = Answered(handler[u], PatchOutcome(handler[u]))]
  BY DEF ServerPatch
<1>2. u = t
  BY <1>1, HereSound DEF UnderWay
<1>3. handler'[t] = Answered(handler[t], PatchOutcome(handler[t]))
  BY <1>1, <1>2, HereSound
<1>4. PatchOutcome(handler[t]) = "ok"
  BY <1>3 DEF Answered, UnderWay, HandlerStates
<1>5. server[handler[t].row].version = handler[t].version
  BY <1>4, PatchOutcomeTyped
<1>6. Matches(handler[t].version, handler[t].base, server[handler[t].row])
  BY HereSound DEF Carries, UnderWay
<1>. QED
  BY <1>5, <1>6 DEF Matches

LEMMA LossesAcceptNothing ==
    ASSUME EditsSound, NEW t \in Handlers, UnderWay(handler[t]), NEW u \in Handlers, Lose(u)
    PROVE  handler'[t].outcome # "ok"
<1>1. CASE handler' = [handler EXCEPT ![u] = Answered(handler[u], "lost")]
  <2>1. CASE u = t
    <3>1. handler'[t] = Answered(handler[t], "lost")
      BY <1>1, <2>1, HereSound
    <3>. QED
      BY <3>1 DEF Answered, UnderWay, HandlerStates
  <2>2. CASE u # t
    BY <1>1, <2>2, HereSound DEF UnderWay
  <2>. QED
    BY <2>1, <2>2
<1>2. CASE /\ handler[u].step = "fetch"
           /\ handler' = [handler EXCEPT ![u].step = "fetched", ![u].data = None]
  <2>1. PICK h : handler' = [handler EXCEPT ![u] = h]
    BY <1>2
  <2>2. handler[u].step # "sent"
    BY <1>2
  <2>3. handler'[t].outcome = "none"
    BY <2>1, <2>2, OthersAnswerNothing
  <2>. QED
    BY <2>3
<1>. QED
  BY <1>1, <1>2 DEF Lose

LEMMA AcceptedIsSound ==
    ASSUME EditsSound, [Next]_vars, NEW t \in Handlers,
           handler[t].step = "sent", handler'[t].outcome = "ok", handler[t].op = "save"
    PROVE  server[handler[t].row].shares = handler[t].base
<1>1. UnderWay(handler[t])
  BY HereSound DEF UnderWay, Carries
<1>2. handler'[t].outcome # "none" /\ handler' # handler
  BY <1>1 DEF UnderWay
<1>3. ASSUME NEW u \in Handlers, HandlerStep(u) PROVE ServerPatch(u)
  BY <1>1, <1>2, <1>3, HandlersAnswerNothing
<1>4. ASSUME NEW u \in Handlers PROVE ~Lose(u)
  BY <1>1, <1>4, LossesAcceptNothing
<1>5. ~UserStep
  BY <1>1, <1>2, UserAnswersNothing
<1>6. ~UNCHANGED vars
  BY <1>2 DEF vars
<1>7. \A r : ~OtherEdits(r) /\ ~OtherDeletes(r)
  BY <1>2 DEF OtherEdits, OtherDeletes
<1>8. PICK u \in Handlers : ServerPatch(u)
  BY <1>3, <1>4, <1>5, <1>6, <1>7 DEF Next
<1>. QED
  BY <1>1, <1>8, PatchAcceptsMatching

\* A save the server accepts replaces exactly what its dialog's fields were
\* loaded with, whatever was refreshed, revalidated, cancelled or written by
\* other sessions in between.
THEOREM NoEditIsOverwritten == Spec => NoLostUpdate
<1>1. Init => EditsSound
  BY InitSound
<1>2. EditsSound /\ [Next]_vars => EditsSound'
  BY StepSound
<1>3. EditsSound /\ [Next]_vars =>
        [\A t \in Handlers :
           handler[t].step = "sent" /\ handler'[t].outcome = "ok" /\ handler[t].op = "save" =>
             server[handler[t].row].shares = handler[t].base]_vars
  BY AcceptedIsSound
<1>. QED
  BY <1>1, <1>2, <1>3, PTL DEF Spec, NoLostUpdate

-----------------------------------------------------------------------------
(* No dialog stays busy without a handler that ends it *)

\* A handler of the dialog that edits, refreshes or deletes the row.
Works(h, op, r) == h.own /\ h.op = op /\ h.row = r
Deletes(h, k) == h.own /\ h.op = "delete" /\ KindOf(h.row) = k

Working(op, r) == \E t \in Handlers : Works(handler[t], op, r)
Deleting(k) == \E t \in Handlers : Deletes(handler[t], k)

\* A page that is gone shows no dialog.
Closed ==
    /\ \A k \in Kinds : editing[k] = None /\ ~form[k].submitting /\ ~form[k].refreshing
    /\ \A k \in ConfirmKinds : deleting[k] = None /\ ~confirming[k]

\* The inductive invariant of BusyHasHandler.
BusySound ==
    /\ EditsSound
    /\ \A k \in ConfirmKinds : deleting[k] # None => KindOf(deleting[k]) = k
    /\ confirming \in [ConfirmKinds -> BOOLEAN]
    /\ \A k \in Kinds : /\ form[k].submitting => Working("save", editing[k])
                        /\ form[k].refreshing => Working("refresh", editing[k])
    /\ \A k \in ConfirmKinds : confirming[k] => Deleting(k)
    /\ ~onPage => Closed

LEMMA FormBooleans ==
    ASSUME NEW f \in Forms
    PROVE  f.submitting \in BOOLEAN /\ f.refreshing \in BOOLEAN /\ f.conflict \in BOOLEAN
BY DEF Forms

LEMMA BlankIsFree ==
    /\ ~Blank.submitting /\ ~Blank.refreshing
    /\ \A row : ~Opened(row).submitting /\ ~Opened(row).refreshing
BY DEF Blank, Opened

\* The page is rendered: whoever works for a dialog that stays open, or for
\* the deletion of the position, goes on to.
LEMMA RenderBusy ==
    ASSUME BusySound, EditsSound',
           NEW ed \in [Kinds -> Rows \cup {None}],
           NEW del \in [ConfirmKinds -> Entities \cup {None}],
           \A k \in ConfirmKinds : del[k] # None => KindOf(del[k]) = k,
           NEW c, NEW fm \in [Kinds -> Forms], NEW cf \in [ConfirmKinds -> BOOLEAN],
           NEW hs \in [Handlers -> HandlerStates],
           \A k \in Kinds : ed[k] = editing[k] /\ ed[k] # None =>
             /\ fm[k].submitting => \E t \in Handlers : Works(hs[t], "save", editing[k])
             /\ fm[k].refreshing => \E t \in Handlers : Works(hs[t], "refresh", editing[k]),
           \A k \in ConfirmKinds : cf[k] /\ (k # "position" => del[k] # None) =>
             \E t \in Handlers : Deletes(hs[t], k),
           Render(ed, del, c, fm, cf, hs),
           onPage' \/ /\ \A k \in Kinds : ed[k] = None
                      /\ \A k \in ConfirmKinds : del[k] = None /\ ~cf[k]
    PROVE  BusySound'
<1>1. editing' = ed /\ deleting' = del /\ cache' = c
  BY DEF Render
<1>2. confirming' = [k \in ConfirmKinds |->
         cf[k] /\ (k # "position" => del[k] = deleting[k] /\ Shown(del, k, c))]
  BY DEF Render
<1>3. ASSUME NEW t \in Handlers
      PROVE  /\ handler'[t].op = hs[t].op /\ handler'[t].row = hs[t].row
             /\ handler'[t].own = (hs[t].own /\ StillOpen(hs[t], ed, del, c))
  <2>. DEFINE b == hs[t].own /\ StillOpen(hs[t], ed, del, c)
  <2>1. handler'[t] = [hs[t] EXCEPT !.own = b] /\ hs[t] \in HandlerStates
    BY DEF Render
  <2>. HIDE DEF b
  <2>2. handler'[t].op = hs[t].op /\ handler'[t].row = hs[t].row /\ handler'[t].own = b
    BY <2>1 DEF HandlerStates
  <2>. QED
    BY <2>2 DEF b
<1>4. ASSUME NEW k \in Kinds
      PROVE  /\ form'[k].submitting => Working("save", editing[k])'
             /\ form'[k].refreshing => Working("refresh", editing[k])'
             /\ ed[k] = None => ~form'[k].submitting /\ ~form'[k].refreshing
  <2>1. form'[k] = IF ~Shown(ed, k, c) THEN Blank
                   ELSE IF ed[k] # editing[k] THEN Opened(c[ed[k]])
                   ELSE IF c # cache THEN Effect(fm[k], c[ed[k]]) ELSE fm[k]
    BY DEF Render
  <2>2. CASE ~Shown(ed, k, c) \/ ed[k] # editing[k]
    <3>1. ~form'[k].submitting /\ ~form'[k].refreshing
      BY <2>1, <2>2, BlankIsFree
    <3>. QED
      BY <3>1
  <2>3. CASE Shown(ed, k, c) /\ ed[k] = editing[k]
    <3>1. form'[k].submitting = fm[k].submitting /\ form'[k].refreshing = fm[k].refreshing
      BY <2>1, <2>3 DEF Effect, Opened, Blank
    <3>2. ed[k] # None /\ KindOf(ed[k]) = k
      BY <2>3, HereSound DEF Shown, BusySound
    <3>3. ASSUME NEW op \in {"save", "refresh"}, NEW t \in Handlers, Works(hs[t], op, editing[k])
          PROVE  Works(handler'[t], op, ed[k])
      <4>1. hs[t].own /\ hs[t].op = op /\ hs[t].row = ed[k]
        BY <2>3, <3>3 DEF Works
      <4>2. StillOpen(hs[t], ed, del, c)
        BY <2>3, <3>2, <4>1 DEF StillOpen
      <4>. QED
        BY <1>3, <4>1, <4>2 DEF Works
    <3>4. /\ fm[k].submitting => \E t \in Handlers : Works(handler'[t], "save", ed[k])
          /\ fm[k].refreshing => \E t \in Handlers : Works(handler'[t], "refresh", ed[k])
      BY <2>3, <3>2, <3>3
    <3>. QED
      BY <1>1, <3>1, <3>2, <3>4 DEF Working, Works
  <2>. QED
    BY <2>2, <2>3
<1>5. ASSUME NEW k \in ConfirmKinds PROVE confirming'[k] => Deleting(k)'
  <2>1. SUFFICES ASSUME confirming'[k] PROVE Deleting(k)'
    OBVIOUS
  <2>2. cf[k] /\ (k # "position" => del[k] = deleting[k] /\ Shown(del, k, c))
    BY <1>2, <2>1
  <2>3. PICK t \in Handlers : Deletes(hs[t], k)
    <3>1. cf[k] /\ (k # "position" => del[k] # None)
      BY <2>2 DEF Shown
    <3>. QED
      BY <3>1
  <2>4. hs[t].own /\ hs[t].op = "delete" /\ KindOf(hs[t].row) = k
    BY <2>3 DEF Deletes
  <2>5. StillOpen(hs[t], ed, del, c)
    <3>1. CASE k = "position"
      BY <2>4, <3>1 DEF StillOpen
    <3>2. CASE k # "position"
      <4>1. del[k] = deleting[k] /\ Shown(del, k, c)
        BY <2>2, <3>2
      <4>. QED
        BY <2>4, <3>2, <4>1 DEF StillOpen
    <3>. QED
      BY <3>1, <3>2
  <2>6. Deletes(handler'[t], k)
    BY <1>3, <2>4, <2>5 DEF Deletes
  <2>. QED
    BY <2>6 DEF Deleting, Deletes
<1>6. confirming' \in [ConfirmKinds -> BOOLEAN] /\ \A k \in ConfirmKinds : confirming'[k] => cf[k]
  BY <1>2
<1>7. (\A k \in ConfirmKinds : deleting[k] # None => KindOf(deleting[k]) = k)'
  BY <1>1
<1>8. (~onPage => Closed)'
  BY <1>1, <1>4, <1>6 DEF Closed
<1>. QED
  BY <1>4, <1>5, <1>6, <1>7, <1>8 DEF BusySound

\* Nothing is rendered: nobody stops working but for a form that is released.
LEMMA StayBusy ==
    ASSUME BusySound, EditsSound', UNCHANGED <<editing, deleting, onPage>>,
           confirming' \in [ConfirmKinds -> BOOLEAN],
           \A k \in Kinds :
             /\ form'[k].submitting => \E t \in Handlers : Works(handler'[t], "save", editing[k])
             /\ form'[k].refreshing => \E t \in Handlers : Works(handler'[t], "refresh", editing[k]),
           \A k \in ConfirmKinds : confirming'[k] => \E t \in Handlers : Deletes(handler'[t], k),
           ~onPage =>
             /\ \A k \in Kinds : ~form'[k].submitting /\ ~form'[k].refreshing
             /\ \A k \in ConfirmKinds : ~confirming'[k]
    PROVE  BusySound'
<1>1. ASSUME NEW k \in Kinds
      PROVE  /\ form'[k].submitting => Working("save", editing[k])'
             /\ form'[k].refreshing => Working("refresh", editing[k])'
  BY DEF Working, Works
<1>2. \A k \in ConfirmKinds : confirming'[k] => Deleting(k)'
  BY DEF Deleting, Deletes
<1>3. (~onPage => Closed)'
  BY DEF BusySound, Closed
<1>4. (\A k \in ConfirmKinds : deleting[k] # None => KindOf(deleting[k]) = k)'
  BY DEF BusySound
<1>. QED
  BY <1>1, <1>2, <1>3, <1>4 DEF BusySound

LEMMA BusyFacts ==
    ASSUME BusySound
    PROVE  /\ EditsSound /\ handler \in [Handlers -> HandlerStates] /\ form \in [Kinds -> Forms]
           /\ editing \in [Kinds -> Rows \cup {None}]
           /\ deleting \in [ConfirmKinds -> Entities \cup {None}]
           /\ \A k \in ConfirmKinds : deleting[k] # None => KindOf(deleting[k]) = k
           /\ confirming \in [ConfirmKinds -> BOOLEAN]
           /\ \A k \in Kinds :
                /\ form[k].submitting => \E t \in Handlers : Works(handler[t], "save", editing[k])
                /\ form[k].refreshing => \E t \in Handlers : Works(handler[t], "refresh", editing[k])
           /\ \A k \in ConfirmKinds : confirming[k] => \E t \in Handlers : Deletes(handler[t], k)
           /\ ~onPage => Closed
BY HereSound DEF BusySound, Working, Deleting

\* While the handlers go on, so does what they work for.
Continues(hs) ==
    \A t \in Handlers : hs[t].own = handler[t].own /\ hs[t].op = handler[t].op /\ hs[t].row = handler[t].row

LEMMA ContinuesBusy ==
    ASSUME BusySound, NEW hs, Continues(hs)
    PROVE  /\ \A k \in Kinds :
                /\ form[k].submitting => \E t \in Handlers : Works(hs[t], "save", editing[k])
                /\ form[k].refreshing => \E t \in Handlers : Works(hs[t], "refresh", editing[k])
           /\ \A k \in ConfirmKinds : confirming[k] => \E t \in Handlers : Deletes(hs[t], k)
BY BusyFacts DEF Continues, Works, Deletes

\* A dialog that is opened or closed, or a cache that is replaced, while every
\* handler continues.
LEMMA OpenBusy ==
    ASSUME BusySound, EditsSound',
           NEW ed \in [Kinds -> Rows \cup {None}],
           NEW del \in [ConfirmKinds -> Entities \cup {None}],
           \A k \in ConfirmKinds : del[k] # None => KindOf(del[k]) = k,
           NEW c, NEW hs \in [Handlers -> HandlerStates], Continues(hs),
           Render(ed, del, c, form, confirming, hs), onPage'
    PROVE  BusySound'
<1>1. form \in [Kinds -> Forms] /\ confirming \in [ConfirmKinds -> BOOLEAN]
  BY BusyFacts
<1>2. ASSUME NEW k \in Kinds
      PROVE  /\ form[k].submitting => \E t \in Handlers : Works(hs[t], "save", editing[k])
             /\ form[k].refreshing => \E t \in Handlers : Works(hs[t], "refresh", editing[k])
  BY ContinuesBusy
<1>3. ASSUME NEW k \in ConfirmKinds, confirming[k]
      PROVE  \E t \in Handlers : Deletes(hs[t], k)
  BY <1>3, ContinuesBusy
<1>. QED
  BY <1>1, <1>2, <1>3, RenderBusy

LEMMA IdleWorksForNobody ==
    \A op, r, k : op \in {"save", "refresh"} => ~Works(Idle, op, r) /\ ~Deletes(Idle, k)
BY DEF Idle, Works, Deletes

\* A handler starts: nobody was working in its place.
LEMMA StartsBusy ==
    ASSUME BusySound, NEW t \in Handlers, handler[t] = Idle, NEW h,
           handler' = [handler EXCEPT ![t] = h]
    PROVE  /\ handler'[t] = h
           /\ \A k \in Kinds :
                /\ form[k].submitting => \E u \in Handlers : Works(handler'[u], "save", editing[k])
                /\ form[k].refreshing => \E u \in Handlers : Works(handler'[u], "refresh", editing[k])
           /\ \A k \in ConfirmKinds : confirming[k] => \E u \in Handlers : Deletes(handler'[u], k)
<1>1. handler'[t] = h /\ \A u \in Handlers \ {t} : handler'[u] = handler[u]
  BY BusyFacts
<1>2. \A u, r, k : Works(handler[u], "save", r) \/ Works(handler[u], "refresh", r)
                              \/ Deletes(handler[u], k) => u # t
  BY IdleWorksForNobody
<1>. QED
  BY <1>1, <1>2, BusyFacts

LEMMA DialogStepBusy ==
    ASSUME BusySound, EditsSound', NEW k \in Kinds, NEW j \in ConfirmKinds,
           NEW r \in Entities, NEW n,
           (r \in Rows /\ OpenEdit(k, r)) \/ CancelEdit(k) \/ OpenDelete(r) \/ CancelDelete(j)
    PROVE  BusySound'
<1>1. Continues(handler)
  BY DEF Continues
<1>2. onPage
  <2>1. Closed => ~Shown(editing, k, cache) /\ ~Shown(deleting, j, cache)
    BY DEF Closed, Shown
  <2>. QED
    BY <2>1, BusyFacts DEF OpenEdit, CancelEdit, OpenDelete, CancelDelete, PageIsFree
<1>7. /\ editing \in [Kinds -> Rows \cup {None}]
      /\ deleting \in [ConfirmKinds -> Entities \cup {None}]
      /\ \A i \in ConfirmKinds : deleting[i] # None => KindOf(deleting[i]) = i
      /\ handler \in [Handlers -> HandlerStates]
  BY BusyFacts
<1>3. CASE OpenEdit(k, r) /\ r \in Rows
  <2>. DEFINE ed == [editing EXCEPT ![k] = r]
  <2>1. onPage' /\ Render(ed, deleting, cache, form, confirming, handler)
    BY <1>2, <1>3 DEF OpenEdit
  <2>2. ed \in [Kinds -> Rows \cup {None}]
    BY <1>3, BusyFacts
  <2>. HIDE DEF ed
  <2>. QED
    BY <1>1, <1>7, <2>1, <2>2, OpenBusy
<1>4. CASE CancelEdit(k)
  <2>. DEFINE ed == [editing EXCEPT ![k] = None]
  <2>1. onPage' /\ Render(ed, deleting, cache, form, confirming, handler)
    BY <1>2, <1>4 DEF CancelEdit
  <2>2. ed \in [Kinds -> Rows \cup {None}]
    BY BusyFacts
  <2>. HIDE DEF ed
  <2>. QED
    BY <1>1, <1>7, <2>1, <2>2, OpenBusy
<1>5. CASE OpenDelete(r)
  <2>. DEFINE del == [deleting EXCEPT ![KindOf(r)] = r]
  <2>1. onPage' /\ Render(editing, del, cache, form, confirming, handler)
    BY <1>2, <1>5 DEF OpenDelete
  <2>2. /\ del \in [ConfirmKinds -> Entities \cup {None}]
        /\ \A i \in ConfirmKinds : del[i] # None => KindOf(del[i]) = i
    BY BusyFacts, KindTyped
  <2>. HIDE DEF del
  <2>. QED
    BY <1>1, <1>7, <2>1, <2>2, OpenBusy
<1>6. CASE CancelDelete(j)
  <2>. DEFINE del == [deleting EXCEPT ![j] = None]
  <2>1. onPage' /\ Render(editing, del, cache, form, confirming, handler)
    BY <1>2, <1>6 DEF CancelDelete
  <2>2. /\ del \in [ConfirmKinds -> Entities \cup {None}]
        /\ \A i \in ConfirmKinds : del[i] # None => KindOf(del[i]) = i
    BY BusyFacts
  <2>. HIDE DEF del
  <2>. QED
    BY <1>1, <1>7, <2>1, <2>2, OpenBusy
<1>. QED
  BY <1>3, <1>4, <1>5, <1>6

LEMMA TypeBusy ==
    ASSUME BusySound, EditsSound', NEW k \in Kinds, NEW n, Type(k, n)
    PROVE  BusySound'
<1>1. /\ form' = [form EXCEPT ![k].shares = n]
      /\ UNCHANGED <<editing, deleting, onPage, confirming, handler>>
  BY DEF Type
<1>2. \A j \in Kinds : form'[j].submitting = form[j].submitting
                       /\ form'[j].refreshing = form[j].refreshing
  BY <1>1, BusyFacts DEF Forms
<1>. QED
  BY <1>1, <1>2, BusyFacts, StayBusy DEF Closed

LEMMA ShownIsOnPage ==
    ASSUME BusySound, NEW k \in Kinds, Shown(editing, k, cache)
    PROVE  onPage
BY BusyFacts DEF Shown, Closed

LEMMA NewHandlersWork ==
    ASSUME NEW r, NEW f
    PROVE  /\ Works(Sends("save", r, f), "save", r)
           /\ Works(Fetches("refresh", r), "refresh", r)
           /\ Deletes(Sends("delete", r, f), KindOf(r))
BY DEF Sends, Fetches, Idle, Works, Deletes

LEMMA SaveBusy ==
    ASSUME BusySound, EditsSound', NEW k \in Kinds, NEW t \in Handlers, Save(k, t)
    PROVE  BusySound'
<1>. DEFINE h == Sends("save", editing[k], form[k])
<1>1. /\ Shown(editing, k, cache) /\ handler[t] = Idle
      /\ form' = [form EXCEPT ![k].submitting = TRUE] /\ handler' = [handler EXCEPT ![t] = h]
      /\ UNCHANGED <<editing, deleting, onPage, confirming>>
  BY DEF Save, CanSave
<1>2. onPage
  BY <1>1, ShownIsOnPage
<1>3. \A j \in Kinds : /\ form'[j].submitting => form[j].submitting \/ j = k
                       /\ form'[j].refreshing = form[j].refreshing
  BY <1>1, BusyFacts DEF Forms
<1>4. Works(h, "save", editing[k])
  BY NewHandlersWork
<1>. HIDE DEF h
<1>5. /\ handler'[t] = h
      /\ \A j \in Kinds :
           /\ form[j].submitting => \E u \in Handlers : Works(handler'[u], "save", editing[j])
           /\ form[j].refreshing => \E u \in Handlers : Works(handler'[u], "refresh", editing[j])
      /\ \A j \in ConfirmKinds : confirming[j] => \E u \in Handlers : Deletes(handler'[u], j)
  BY <1>1, StartsBusy
<1>6. \A j \in Kinds :
        /\ form'[j].submitting => \E u \in Handlers : Works(handler'[u], "save", editing[j])
        /\ form'[j].refreshing => \E u \in Handlers : Works(handler'[u], "refresh", editing[j])
  BY <1>3, <1>4, <1>5
<1>7. confirming' \in [ConfirmKinds -> BOOLEAN]
      /\ \A j \in ConfirmKinds : confirming'[j] => \E u \in Handlers : Deletes(handler'[u], j)
  BY <1>1, <1>5, BusyFacts
<1>. QED
  BY <1>1, <1>2, <1>6, <1>7, StayBusy

LEMMA RefreshBusy ==
    ASSUME BusySound, EditsSound', NEW k \in Kinds, NEW t \in Handlers, Refresh(k, t)
    PROVE  BusySound'
<1>. DEFINE h == Fetches("refresh", editing[k])
<1>1. /\ Shown(editing, k, cache) /\ handler[t] = Idle
      /\ form' = [form EXCEPT ![k].refreshing = TRUE] /\ handler' = [handler EXCEPT ![t] = h]
      /\ UNCHANGED <<editing, deleting, onPage, confirming>>
  BY DEF Refresh, CanRefresh
<1>2. onPage
  BY <1>1, ShownIsOnPage
<1>3. \A j \in Kinds : /\ form'[j].submitting = form[j].submitting
                       /\ form'[j].refreshing => form[j].refreshing \/ j = k
  BY <1>1, BusyFacts DEF Forms
<1>4. Works(h, "refresh", editing[k])
  BY NewHandlersWork
<1>. HIDE DEF h
<1>5. /\ handler'[t] = h
      /\ \A j \in Kinds :
           /\ form[j].submitting => \E u \in Handlers : Works(handler'[u], "save", editing[j])
           /\ form[j].refreshing => \E u \in Handlers : Works(handler'[u], "refresh", editing[j])
      /\ \A j \in ConfirmKinds : confirming[j] => \E u \in Handlers : Deletes(handler'[u], j)
  BY <1>1, StartsBusy
<1>6. \A j \in Kinds :
        /\ form'[j].submitting => \E u \in Handlers : Works(handler'[u], "save", editing[j])
        /\ form'[j].refreshing => \E u \in Handlers : Works(handler'[u], "refresh", editing[j])
  BY <1>3, <1>4, <1>5
<1>7. confirming' \in [ConfirmKinds -> BOOLEAN]
      /\ \A j \in ConfirmKinds : confirming'[j] => \E u \in Handlers : Deletes(handler'[u], j)
  BY <1>1, <1>5, BusyFacts
<1>. QED
  BY <1>1, <1>2, <1>6, <1>7, StayBusy

LEMMA ConfirmBusy ==
    ASSUME BusySound, EditsSound', NEW k \in ConfirmKinds, NEW t \in Handlers, Confirm(k, t)
    PROVE  BusySound'
<1>. DEFINE h == Sends("delete", deleting[k], Blank)
<1>1. /\ onPage /\ Shown(deleting, k, cache) /\ handler[t] = Idle
      /\ confirming' = [confirming EXCEPT ![k] = TRUE] /\ handler' = [handler EXCEPT ![t] = h]
      /\ UNCHANGED <<editing, deleting, onPage, form>>
  BY DEF Confirm
<1>2. KindOf(deleting[k]) = k
  BY <1>1, BusyFacts DEF Shown
<1>3. Deletes(h, k)
  BY <1>2, NewHandlersWork
<1>4. confirming' \in [ConfirmKinds -> BOOLEAN]
      /\ \A j \in ConfirmKinds : confirming'[j] => confirming[j] \/ j = k
  BY <1>1, BusyFacts
<1>. HIDE DEF h
<1>5. /\ handler'[t] = h
      /\ \A j \in Kinds :
           /\ form[j].submitting => \E u \in Handlers : Works(handler'[u], "save", editing[j])
           /\ form[j].refreshing => \E u \in Handlers : Works(handler'[u], "refresh", editing[j])
      /\ \A j \in ConfirmKinds : confirming[j] => \E u \in Handlers : Deletes(handler'[u], j)
  BY <1>1, StartsBusy
<1>6. \A j \in ConfirmKinds : confirming'[j] => \E u \in Handlers : Deletes(handler'[u], j)
  BY <1>3, <1>4, <1>5
<1>7. \A j \in Kinds :
        /\ form'[j].submitting => \E u \in Handlers : Works(handler'[u], "save", editing[j])
        /\ form'[j].refreshing => \E u \in Handlers : Works(handler'[u], "refresh", editing[j])
  BY <1>1, <1>5
<1>. QED
  BY <1>1, <1>4, <1>6, <1>7, StayBusy

LEMMA RevalidateBusy ==
    ASSUME BusySound, EditsSound', NEW t \in Handlers, Revalidate(t)
    PROVE  BusySound'
<1>1. PICK h : handler' = [handler EXCEPT ![t] = h]
  BY DEF Revalidate
<1>2. onPage /\ handler[t] = Idle /\ UNCHANGED <<editing, deleting, onPage, form, confirming>>
  BY DEF Revalidate
<1>3. /\ handler'[t] = h
      /\ \A j \in Kinds :
           /\ form[j].submitting => \E u \in Handlers : Works(handler'[u], "save", editing[j])
           /\ form[j].refreshing => \E u \in Handlers : Works(handler'[u], "refresh", editing[j])
      /\ \A j \in ConfirmKinds : confirming[j] => \E u \in Handlers : Deletes(handler'[u], j)
  BY <1>1, <1>2, StartsBusy
<1>4. /\ confirming' \in [ConfirmKinds -> BOOLEAN]
      /\ \A j \in ConfirmKinds : confirming'[j] => \E u \in Handlers : Deletes(handler'[u], j)
      /\ \A j \in Kinds :
           /\ form'[j].submitting => \E u \in Handlers : Works(handler'[u], "save", editing[j])
           /\ form'[j].refreshing => \E u \in Handlers : Works(handler'[u], "refresh", editing[j])
  BY <1>2, <1>3, BusyFacts
<1>. QED
  BY <1>2, <1>4, StayBusy

LEMMA LeavePageBusy ==
    ASSUME BusySound, EditsSound', LeavePage
    PROVE  BusySound'
<1>. DEFINE ed == [k \in Kinds |-> None]
            del == [k \in ConfirmKinds |-> None]
            hs == [t \in Handlers |-> IF handler[t].step = "sent"
                                     THEN [handler[t] EXCEPT !.own = FALSE] ELSE Idle]
            cf == [k \in ConfirmKinds |-> FALSE]
<1>1. Render(ed, del, cache, form, cf, hs)
  BY DEF LeavePage
<1>2. ASSUME NEW t \in Handlers PROVE hs[t] \in HandlerStates
  <2>1. handler[t] \in HandlerStates
    BY BusyFacts
  <2>. QED
    BY <2>1, IdleSound DEF HandlerStates
<1>3. /\ ed \in [Kinds -> Rows \cup {None}] /\ \A k \in Kinds : ed[k] = None
      /\ del \in [ConfirmKinds -> Entities \cup {None}] /\ \A k \in ConfirmKinds : del[k] = None
      /\ cf \in [ConfirmKinds -> BOOLEAN] /\ \A k \in ConfirmKinds : ~cf[k]
      /\ hs \in [Handlers -> HandlerStates]
  BY <1>2
<1>. HIDE DEF ed, del, hs, cf
<1>. QED
  BY <1>1, <1>3, BusyFacts, RenderBusy

\* The server answers, or the network does not: handlers stay where they
\* belong.
LEMMA ServerBusy ==
    ASSUME BusySound, EditsSound', UNCHANGED <<editing, deleting, form, confirming, onPage>>,
           Continues(handler')
    PROVE  BusySound'
BY BusyFacts, ContinuesBusy, StayBusy DEF Closed

LEMMA ServerStepBusy ==
    ASSUME BusySound, EditsSound', NEW t \in Handlers,
           ServerPatch(t) \/ ServerDelete(t) \/ ServerRead(t) \/ Lose(t) \/ Deleted(t)
    PROVE  BusySound'
<1>1. UNCHANGED <<editing, deleting, form, confirming, onPage>>
  BY DEF ServerPatch, ServerDelete, ServerRead, Lose, Deleted
<1>2. ASSUME NEW g, handler' = [handler EXCEPT ![t] = g],
             g.own = handler[t].own, g.op = handler[t].op, g.row = handler[t].row
      PROVE  Continues(handler')
  BY <1>2, BusyFacts DEF Continues
<1>3. handler[t] \in HandlerStates /\ handler \in [Handlers -> HandlerStates]
  BY BusyFacts
<1>4. ASSUME NEW outcome, handler' = [handler EXCEPT ![t] = Answered(handler[t], outcome)]
      PROVE  Continues(handler')
  <2>. DEFINE g == Answered(handler[t], outcome)
  <2>1. g.own = handler[t].own /\ g.op = handler[t].op /\ g.row = handler[t].row
    BY <1>3 DEF Answered, HandlerStates
  <2>2. handler' = [handler EXCEPT ![t] = g]
    BY <1>4
  <2>. HIDE DEF g
  <2>. QED
    BY <1>2, <2>1, <2>2
<1>5. ASSUME NEW step, NEW d, handler' = [handler EXCEPT ![t].step = step, ![t].data = d]
      PROVE  Continues(handler')
  <2>. DEFINE g == [handler[t] EXCEPT !.step = step, !.data = d]
  <2>1. g.own = handler[t].own /\ g.op = handler[t].op /\ g.row = handler[t].row
    BY <1>3 DEF HandlerStates
  <2>2. handler' = [handler EXCEPT ![t] = g]
    BY <1>3, <1>5
  <2>. HIDE DEF g
  <2>. QED
    BY <1>2, <2>1, <2>2
<1>6. ASSUME NEW step, handler' = [handler EXCEPT ![t].step = step]
      PROVE  Continues(handler')
  <2>. DEFINE g == [handler[t] EXCEPT !.step = step]
  <2>1. g.own = handler[t].own /\ g.op = handler[t].op /\ g.row = handler[t].row
    BY <1>3 DEF HandlerStates
  <2>2. handler' = [handler EXCEPT ![t] = g]
    BY <1>3, <1>6
  <2>. HIDE DEF g
  <2>. QED
    BY <1>2, <2>1, <2>2
<1>7. Continues(handler')
  BY <1>4, <1>5, <1>6 DEF ServerPatch, ServerDelete, ServerRead, Lose, Deleted
<1>. QED
  BY <1>1, <1>7, ServerBusy

\* A handler ends: whoever else is busy has another.
LEMMA OthersGoOn ==
    ASSUME BusySound, NEW t \in Handlers, NEW k, k = KindOf(handler[t].row)
    PROVE  /\ \A j \in Kinds :
                /\ form[j].submitting /\ ~(handler[t].own /\ handler[t].op = "save" /\ j = k) =>
                     \E u \in Handlers \ {t} : Works(handler[u], "save", editing[j])
                /\ form[j].refreshing /\ ~(handler[t].own /\ handler[t].op = "refresh" /\ j = k) =>
                     \E u \in Handlers \ {t} : Works(handler[u], "refresh", editing[j])
           /\ \A j \in ConfirmKinds :
                confirming[j] /\ ~(handler[t].own /\ handler[t].op = "delete" /\ j = k) =>
                  \E u \in Handlers \ {t} : Deletes(handler[u], j)
<1>1. handler[t].row \in Entities
  BY BusyFacts DEF HandlerStates
<1>2. ASSUME NEW j \in Kinds, NEW op, Works(handler[t], op, editing[j])
      PROVE  handler[t].own /\ handler[t].op = op /\ j = k
  BY <1>1, <1>2, HereSound, EntitiesAssumption DEF BusySound, Works
<1>3. ASSUME NEW j \in ConfirmKinds, Deletes(handler[t], j)
      PROVE  handler[t].own /\ handler[t].op = "delete" /\ j = k
  BY <1>3 DEF Deletes
<1>4. \A j \in Kinds :
        /\ form[j].submitting => \E t_1 \in Handlers : Works(handler[t_1], "save", editing[j])
        /\ form[j].refreshing => \E t_1 \in Handlers : Works(handler[t_1], "refresh", editing[j])
  BY BusyFacts
<1>5. \A j \in ConfirmKinds : confirming[j] => \E t_1 \in Handlers : Deletes(handler[t_1], j)
  BY BusyFacts
<1>6. ASSUME NEW j \in Kinds, form[j].submitting,
             ~(handler[t].own /\ handler[t].op = "save" /\ j = k)
      PROVE  \E u \in Handlers \ {t} : Works(handler[u], "save", editing[j])
  BY <1>2, <1>4, <1>6
<1>7. ASSUME NEW j \in Kinds, form[j].refreshing,
             ~(handler[t].own /\ handler[t].op = "refresh" /\ j = k)
      PROVE  \E u \in Handlers \ {t} : Works(handler[u], "refresh", editing[j])
  BY <1>2, <1>4, <1>7
<1>8. ASSUME NEW j \in ConfirmKinds, confirming[j],
             ~(handler[t].own /\ handler[t].op = "delete" /\ j = k)
      PROVE  \E u \in Handlers \ {t} : Deletes(handler[u], j)
  BY <1>3, <1>5, <1>8
<1>. QED
  BY <1>6, <1>7, <1>8

LEMMA SavedBusy ==
    ASSUME BusySound, EditsSound', NEW k \in Kinds, NEW t \in Handlers, Saved(k, t)
    PROVE  BusySound'
<1>. DEFINE ed == [editing EXCEPT ![k] = None]
            g == Fetches("revalidate", Position)
            hs == [handler EXCEPT ![t] = g]
<1>1. /\ onPage' /\ handler[t].op = "save" /\ KindOf(handler[t].row) = k
      /\ Render(ed, deleting, cache, form, confirming, hs)
  BY DEF Saved
<1>2. ed \in [Kinds -> Rows \cup {None}] /\ ed[k] = None
  BY BusyFacts
<1>3. g \in HandlerStates
  BY FetchesSound DEF Entities
<1>. HIDE DEF g
<1>4. hs \in [Handlers -> HandlerStates] /\ \A u \in Handlers \ {t} : hs[u] = handler[u]
  BY <1>3, BusyFacts
<1>. HIDE DEF ed, hs
<1>5. ASSUME NEW j \in Kinds, ed[j] = editing[j], ed[j] # None
      PROVE  /\ form[j].submitting => \E u \in Handlers : Works(hs[u], "save", editing[j])
             /\ form[j].refreshing => \E u \in Handlers : Works(hs[u], "refresh", editing[j])
  <2>1. j # k
    BY <1>2, <1>5
  <2>. QED
    BY <1>1, <1>4, <2>1, OthersGoOn
<1>6. ASSUME NEW j \in ConfirmKinds, confirming[j] PROVE \E u \in Handlers : Deletes(hs[u], j)
  BY <1>1, <1>4, <1>6, OthersGoOn
<1>9. /\ editing \in [Kinds -> Rows \cup {None}] /\ form \in [Kinds -> Forms]
      /\ deleting \in [ConfirmKinds -> Entities \cup {None}]
      /\ \A i \in ConfirmKinds : deleting[i] # None => KindOf(deleting[i]) = i
      /\ confirming \in [ConfirmKinds -> BOOLEAN]
  BY BusyFacts
<1>. QED
  BY <1>1, <1>2, <1>4, <1>5, <1>6, <1>9, RenderBusy

LEMMA SaveFailedBusy ==
    ASSUME BusySound, EditsSound', NEW k \in Kinds, NEW t \in Handlers, SaveFailed(k, t)
    PROVE  BusySound'
<1>. DEFINE h == handler[t]
            f == AfterFailure(form[k], h)
<1>1. /\ onPage /\ h.op = "save" /\ KindOf(h.row) = k
      /\ form' = IF ~h.own THEN form ELSE [form EXCEPT ![k] = f]
      /\ handler' = [handler EXCEPT ![t] = Idle]
      /\ UNCHANGED <<editing, deleting, confirming, onPage>>
  BY DEF SaveFailed
<1>2. f.submitting = FALSE /\ f.refreshing = form[k].refreshing
  <2>1. form[k] \in Forms
    BY BusyFacts
  <2>. QED
    BY <2>1 DEF AfterFailure, Forms
<1>. HIDE DEF f
<1>3. \A u \in Handlers \ {t} : handler'[u] = handler[u]
  BY <1>1
<1>4. \A j \in Kinds : /\ form'[j].submitting => form[j].submitting /\ ~(h.own /\ j = k)
                       /\ form'[j].refreshing => form[j].refreshing
  BY <1>1, <1>2, BusyFacts
<1>5. ASSUME NEW j \in Kinds
      PROVE  /\ form'[j].submitting => \E u \in Handlers \ {t} : Works(handler[u], "save", editing[j])
             /\ form'[j].refreshing => \E u \in Handlers \ {t} : Works(handler[u], "refresh", editing[j])
  BY <1>1, <1>4, OthersGoOn
<1>6. ASSUME NEW j \in ConfirmKinds, confirming[j] PROVE \E u \in Handlers \ {t} : Deletes(handler[u], j)
  BY <1>1, <1>6, OthersGoOn
<1>7. \A j \in Kinds :
        /\ form'[j].submitting => \E u \in Handlers : Works(handler'[u], "save", editing[j])
        /\ form'[j].refreshing => \E u \in Handlers : Works(handler'[u], "refresh", editing[j])
  BY <1>3, <1>5 DEF Works
<1>8. \A j \in ConfirmKinds : confirming'[j] => \E u \in Handlers : Deletes(handler'[u], j)
  BY <1>1, <1>3, <1>6 DEF Deletes
<1>. QED
  BY <1>1, <1>7, <1>8, BusyFacts, StayBusy

LEMMA DeleteFailedBusy ==
    ASSUME BusySound, EditsSound', NEW t \in Handlers, DeleteFailed(t)
    PROVE  BusySound'
<1>. DEFINE h == handler[t]
            k == KindOf(h.row)
<1>1. /\ onPage /\ h.op = "delete"
      /\ confirming' = IF h.own THEN [confirming EXCEPT ![k] = FALSE] ELSE confirming
      /\ handler' = [handler EXCEPT ![t] = Idle]
      /\ UNCHANGED <<editing, deleting, form, onPage>>
  BY DEF DeleteFailed
<1>2. \A u \in Handlers \ {t} : handler'[u] = handler[u]
  BY <1>1
<1>3. /\ confirming' \in [ConfirmKinds -> BOOLEAN]
      /\ \A j \in ConfirmKinds : confirming'[j] => confirming[j] /\ ~(h.own /\ j = k)
  BY <1>1, BusyFacts
<1>4. ASSUME NEW j \in ConfirmKinds, confirming'[j]
      PROVE  \E u \in Handlers \ {t} : Deletes(handler[u], j)
  BY <1>1, <1>3, <1>4, OthersGoOn
<1>5. ASSUME NEW j \in Kinds
      PROVE  /\ form[j].submitting => \E u \in Handlers \ {t} : Works(handler[u], "save", editing[j])
             /\ form[j].refreshing => \E u \in Handlers \ {t} : Works(handler[u], "refresh", editing[j])
  BY <1>1, OthersGoOn
<1>6. \A j \in ConfirmKinds : confirming'[j] => \E u \in Handlers : Deletes(handler'[u], j)
  BY <1>2, <1>4 DEF Deletes
<1>7. \A j \in Kinds :
        /\ form'[j].submitting => \E u \in Handlers : Works(handler'[u], "save", editing[j])
        /\ form'[j].refreshing => \E u \in Handlers : Works(handler'[u], "refresh", editing[j])
  BY <1>1, <1>2, <1>5 DEF Works
<1>. QED
  BY <1>1, <1>3, <1>6, <1>7, StayBusy

LEMMA ArrivesTooLateBusy ==
    ASSUME BusySound, EditsSound', NEW t \in Handlers, ArrivesTooLate(t)
    PROVE  BusySound'
<1>1. ~onPage /\ UNCHANGED <<editing, deleting, form, confirming, onPage>>
  BY DEF ArrivesTooLate
<1>2. /\ \A k \in Kinds : ~form'[k].submitting /\ ~form'[k].refreshing
      /\ \A k \in ConfirmKinds : ~confirming'[k]
  BY <1>1, BusyFacts DEF Closed
<1>3. confirming' \in [ConfirmKinds -> BOOLEAN]
  BY <1>1, BusyFacts
<1>. QED
  BY <1>1, <1>2, <1>3, StayBusy

\* The position arrives, for one who is no longer busy then.
LEMMA PositionArrivesBusy ==
    ASSUME BusySound, EditsSound', NEW t \in Handlers, PositionArrives(t)
    PROVE  BusySound'
<1>. DEFINE hs == [handler EXCEPT ![t] = Idle]
<1>1. /\ handler[t].op = "revalidate" /\ onPage'
      /\ Render(editing, deleting, NewCache(t), form, confirming, hs)
  BY DEF PositionArrives, Arrives
<1>2. hs \in [Handlers -> HandlerStates] /\ \A u \in Handlers \ {t} : hs[u] = handler[u]
  BY BusyFacts, IdleSound
<1>. HIDE DEF hs
<1>3. ASSUME NEW j \in Kinds
      PROVE  /\ form[j].submitting => \E u \in Handlers : Works(hs[u], "save", editing[j])
             /\ form[j].refreshing => \E u \in Handlers : Works(hs[u], "refresh", editing[j])
  BY <1>1, <1>2, OthersGoOn
<1>4. ASSUME NEW j \in ConfirmKinds, confirming[j] PROVE \E u \in Handlers : Deletes(hs[u], j)
  BY <1>1, <1>2, <1>4, OthersGoOn
<1>. QED
  BY <1>1, <1>2, <1>3, <1>4, BusyFacts, RenderBusy

LEMMA RefreshedBusy ==
    ASSUME BusySound, EditsSound', NEW k \in Kinds, NEW t \in Handlers, Refreshed(k, t)
    PROVE  BusySound'
<1>. DEFINE h == handler[t]
            row == NewCache(t)[h.row]
            f == [form[k] EXCEPT !.conflict = FALSE, !.refreshing = FALSE]
            g == IF row.live THEN Effect(f, row) ELSE f
            fm == IF ~h.own THEN form ELSE [form EXCEPT ![k] = g]
            hs == [handler EXCEPT ![t] = Idle]
<1>1. /\ Arrives(t) /\ h.op = "refresh" /\ KindOf(h.row) = k /\ onPage'
      /\ Render(editing, deleting, NewCache(t), fm, confirming, hs)
  BY DEF Refreshed, Arrives
<1>2. f \in Forms /\ f.submitting = form[k].submitting /\ f.refreshing = FALSE
  <2>1. form[k] \in Forms
    BY BusyFacts
  <2>. QED
    BY <2>1 DEF Forms
<1>3. row \in Row
  <2>1. NewCache(t) \in Snapshot /\ h.row \in Entities
    BY <1>1, BusyFacts, NewCacheSound DEF HandlerStates
  <2>. HIDE DEF h
  <2>. QED
    BY <2>1 DEF Snapshot
<1>4. hs \in [Handlers -> HandlerStates] /\ \A u \in Handlers \ {t} : hs[u] = handler[u]
  BY BusyFacts, IdleSound
<1>. HIDE DEF row, f, hs
<1>5. g \in Forms /\ g.submitting = form[k].submitting /\ g.refreshing = FALSE
  <2>1. CASE row.live
    <3>1. Effect(f, row) \in Forms
      BY <1>2, <1>3, EffectTyped
    <3>2. Effect(f, row).submitting = f.submitting /\ Effect(f, row).refreshing = f.refreshing
      BY DEF Effect, Opened, Blank
    <3>. QED
      BY <1>2, <2>1, <3>1, <3>2
  <2>2. CASE ~row.live
    BY <1>2, <2>2
  <2>. QED
    BY <2>1, <2>2
<1>. HIDE DEF g
<1>6. /\ fm \in [Kinds -> Forms]
      /\ \A j \in Kinds : /\ fm[j].submitting = form[j].submitting
                          /\ fm[j].refreshing => form[j].refreshing /\ ~(h.own /\ j = k)
  BY <1>5, BusyFacts
<1>. HIDE DEF fm
<1>7. ASSUME NEW j \in Kinds
      PROVE  /\ fm[j].submitting => \E u \in Handlers : Works(hs[u], "save", editing[j])
             /\ fm[j].refreshing => \E u \in Handlers : Works(hs[u], "refresh", editing[j])
  BY <1>1, <1>4, <1>6, OthersGoOn
<1>8. ASSUME NEW j \in ConfirmKinds, confirming[j] PROVE \E u \in Handlers : Deletes(hs[u], j)
  BY <1>1, <1>4, <1>8, OthersGoOn
<1>9. /\ editing \in [Kinds -> Rows \cup {None}] /\ form \in [Kinds -> Forms]
      /\ deleting \in [ConfirmKinds -> Entities \cup {None}]
      /\ \A i \in ConfirmKinds : deleting[i] # None => KindOf(deleting[i]) = i
      /\ confirming \in [ConfirmKinds -> BOOLEAN]
  BY BusyFacts
<1>. QED
  BY <1>1, <1>4, <1>6, <1>7, <1>8, <1>9, RenderBusy

LEMMA DeletionArrivesBusy ==
    ASSUME BusySound, EditsSound', NEW t \in Handlers, DeletionArrives(t)
    PROVE  BusySound'
<1>. DEFINE g == [handler[t] EXCEPT !.step = "dashboard", !.data = None]
            hs == [handler EXCEPT ![t] = g]
<1>1. handler \in [Handlers -> HandlerStates] /\ handler[t] \in HandlerStates
  BY BusyFacts
<1>2. /\ g \in HandlerStates /\ g.own = handler[t].own /\ g.op = handler[t].op
      /\ g.row = handler[t].row
  BY <1>1 DEF HandlerStates, Steps
<1>3. onPage' /\ Render(editing, deleting, NewCache(t), form, confirming, hs)
  <2>1. hs = [handler EXCEPT ![t].step = "dashboard", ![t].data = None]
    BY <1>1
  <2>. HIDE DEF hs
  <2>. QED
    BY <2>1 DEF DeletionArrives, Arrives
<1>. HIDE DEF g
<1>4. hs \in [Handlers -> HandlerStates] /\ Continues(hs)
  BY <1>1, <1>2 DEF Continues
<1>. HIDE DEF hs
<1>5. /\ editing \in [Kinds -> Rows \cup {None}]
      /\ deleting \in [ConfirmKinds -> Entities \cup {None}]
      /\ \A i \in ConfirmKinds : deleting[i] # None => KindOf(deleting[i]) = i
  BY BusyFacts
<1>. QED
  BY <1>3, <1>4, <1>5, OpenBusy

LEMMA RowDeletedBusy ==
    ASSUME BusySound, EditsSound', NEW t \in Handlers, RowDeleted(t)
    PROVE  BusySound'
<1>. DEFINE k == KindOf(handler[t].row)
            del == [deleting EXCEPT ![k] = None]
            hs == [handler EXCEPT ![t] = Idle]
<1>1. /\ onPage' /\ handler[t].step = "dashboard" /\ k # "position"
      /\ Render(editing, del, cache, form, confirming, hs)
  BY DEF RowDeleted
<1>2. handler[t].op = "delete" /\ k \in ConfirmKinds
  BY <1>1, BusyFacts, HereSound, KindTyped DEF Carries, HandlerStates
<1>3. hs \in [Handlers -> HandlerStates] /\ \A u \in Handlers \ {t} : hs[u] = handler[u]
  BY BusyFacts, IdleSound
<1>4. /\ del \in [ConfirmKinds -> Entities \cup {None}] /\ del[k] = None
      /\ \A i \in ConfirmKinds : del[i] # None => KindOf(del[i]) = i
  BY <1>2, BusyFacts
<1>. HIDE DEF hs, del
<1>5. ASSUME NEW j \in Kinds
      PROVE  /\ form[j].submitting => \E u \in Handlers : Works(hs[u], "save", editing[j])
             /\ form[j].refreshing => \E u \in Handlers : Works(hs[u], "refresh", editing[j])
  BY <1>2, <1>3, OthersGoOn
<1>6. ASSUME NEW j \in ConfirmKinds, confirming[j], j # "position" => del[j] # None
      PROVE  \E u \in Handlers : Deletes(hs[u], j)
  <2>1. j # k
    BY <1>1, <1>4, <1>6
  <2>. QED
    BY <1>3, <1>6, <2>1, OthersGoOn
<1>7. \A j \in ConfirmKinds : confirming[j] /\ (j # "position" => del[j] # None) =>
        \E u \in Handlers : Deletes(hs[u], j)
  BY <1>6
<1>. HIDE DEF k
<1>9. /\ editing \in [Kinds -> Rows \cup {None}] /\ form \in [Kinds -> Forms]
      /\ deleting \in [ConfirmKinds -> Entities \cup {None}]
      /\ \A i \in ConfirmKinds : deleting[i] # None => KindOf(deleting[i]) = i
      /\ confirming \in [ConfirmKinds -> BOOLEAN]
  BY BusyFacts
<1>. QED
  BY <1>1, <1>3, <1>4, <1>5, <1>7, <1>9, RenderBusy

LEMMA InitBusy == Init => BusySound
<1>. SUFFICES ASSUME Init PROVE BusySound
  OBVIOUS
<1>1. EditsSound
  BY InitSound
<1>2. \A k \in Kinds : ~form[k].submitting /\ ~form[k].refreshing
  BY BlankIsFree DEF Init
<1>3. /\ \A k \in ConfirmKinds : deleting[k] = None /\ ~confirming[k]
      /\ confirming \in [ConfirmKinds -> BOOLEAN] /\ onPage
  BY DEF Init
<1>. QED
  BY <1>1, <1>2, <1>3 DEF BusySound

LEMMA StepBusy == BusySound /\ [Next]_vars => BusySound'
<1>. SUFFICES ASSUME BusySound, [Next]_vars PROVE BusySound'
  OBVIOUS
<1>1. EditsSound'
  BY BusyFacts, StepSound
<1>2. ASSUME UserStep PROVE BusySound'
  <2>. USE DEF Kinds, ConfirmKinds
  <2>1. ASSUME NEW r \in Rows, EditLot(r) \/ EditTranche(r) PROVE BusySound'
    BY <1>1, <2>1, DialogStepBusy DEF EditLot, EditTranche, Entities
  <2>2. CASE TypeLot \/ TypeTranche
    BY <1>1, <2>2, TypeBusy DEF TypeLot, TypeTranche
  <2>3. CASE GoBack
    BY <1>1, <2>3, LeavePageBusy DEF GoBack
  <2>4. ASSUME NEW k \in Kinds, CancelEdit(k) PROVE BusySound'
    BY <1>1, <2>4, DialogStepBusy DEF Entities
  <2>5. ASSUME NEW r \in Entities, OpenDelete(r) PROVE BusySound'
    BY <1>1, <2>5, DialogStepBusy
  <2>6. ASSUME NEW k \in ConfirmKinds, CancelDelete(k) PROVE BusySound'
    BY <1>1, <2>6, DialogStepBusy DEF Entities
  <2>7. ASSUME NEW k \in ConfirmKinds, NEW t \in Handlers, Confirm(k, t) PROVE BusySound'
    BY <1>1, <2>7, ConfirmBusy
  <2>8. ASSUME NEW t \in Handlers, SaveLot(t) \/ SaveTranche(t) PROVE BusySound'
    BY <1>1, <2>8, SaveBusy DEF SaveLot, SaveTranche
  <2>9. ASSUME NEW t \in Handlers, RefreshLot(t) \/ RefreshTranche(t) \/ Revalidate(t)
        PROVE  BusySound'
    BY <1>1, <2>9, RefreshBusy, RevalidateBusy DEF RefreshLot, RefreshTranche
  <2>. QED
    BY <1>2, <2>1, <2>2, <2>3, <2>4, <2>5, <2>6, <2>7, <2>8, <2>9 DEF UserStep
<1>3. ASSUME NEW t \in Handlers, HandlerStep(t) PROVE BusySound'
  <2>. USE DEF Kinds
  <2>1. CASE ServerPatch(t) \/ ServerDelete(t) \/ ServerRead(t) \/ Deleted(t)
    BY <1>1, <2>1, ServerStepBusy
  <2>2. CASE LotSaved(t) \/ TrancheSaved(t)
    BY <1>1, <2>2, SavedBusy DEF LotSaved, TrancheSaved
  <2>3. CASE LotSaveFailed(t) \/ TrancheSaveFailed(t) \/ DeleteFailed(t) \/ ArrivesTooLate(t)
    BY <1>1, <2>3, SaveFailedBusy, DeleteFailedBusy, ArrivesTooLateBusy
    DEF LotSaveFailed, TrancheSaveFailed
  <2>4. CASE LotRefreshed(t) \/ TrancheRefreshed(t)
    BY <1>1, <2>4, RefreshedBusy DEF LotRefreshed, TrancheRefreshed
  <2>5. CASE PositionArrives(t) \/ DeletionArrives(t)
    BY <1>1, <2>5, PositionArrivesBusy, DeletionArrivesBusy
  <2>6. CASE RowDeleted(t) \/ PositionDeleted(t)
    BY <1>1, <2>6, RowDeletedBusy, LeavePageBusy DEF PositionDeleted
  <2>. QED
    BY <1>3, <2>1, <2>2, <2>3, <2>4, <2>5, <2>6 DEF HandlerStep
<1>4. ASSUME NEW t \in Handlers, Lose(t) PROVE BusySound'
  BY <1>1, <1>4, ServerStepBusy
<1>5. ASSUME UNCHANGED <<editing, deleting, form, confirming, onPage, handler>> PROVE BusySound'
  <2>1. Continues(handler')
    BY <1>5 DEF Continues
  <2>. QED
    BY <1>1, <1>5, <2>1, ServerBusy
<1>6. ASSUME NEW r, OtherEdits(r) \/ OtherDeletes(r) PROVE BusySound'
  BY <1>5, <1>6 DEF OtherEdits, OtherDeletes
<1>7. ASSUME UNCHANGED vars PROVE BusySound'
  BY <1>5, <1>7 DEF vars
<1>. QED
  BY <1>2, <1>3, <1>4, <1>6, <1>7 DEF Next

\* A button is disabled only while a handler of its dialog is under way, for
\* every number of handlers that outlive their dialogs.
THEOREM BusyDialogsEnd == Spec => []BusyHasHandler
<1>1. BusySound => BusyHasHandler
  BY BusyFacts DEF BusyHasHandler, Works, Deletes
<1>. QED
  BY <1>1, InitBusy, StepBusy, PTL DEF Spec

-----------------------------------------------------------------------------
(***************************************************************************)
(* The position page never goes back to older rows and never loses a save  *)
(* it was told of, for every number of rows and handlers, and in whatever  *)
(* order the answers to its requests come.                                 *)
(***************************************************************************)

\* What an answer brings is not newer than the server's rows, and an accepted
\* save is older.
Honest(h, s) ==
    /\ h.data # None => h.step = "fetched" /\ NoOlder(h.data, s)
    /\ h.op = "save" /\ h.step = "answered" /\ h.outcome = "ok" /\ h.row \in Rows =>
         h.version < s[h.row].version

\* The newest request brings what the page shows already, or newer rows.
NewestIsNewer ==
    latest # None /\ handler[latest].data # None => NoOlder(cache, handler[latest].data)

\* SavesAreShown, said of the newest request alone.
SaveIsShown(r) ==
    onPage /\ ~(told[r] <= cache[r].version) =>
      IF latest = None THEN retry
      ELSE handler[latest].data # None => told[r] <= handler[latest].data[r].version

\* The inductive invariant of CacheNeverGoesBack and SavesAreShown.
ReadsSound ==
    /\ EditsSound /\ latest \in Handlers \cup {None} /\ told \in [Rows -> Nat]
    /\ NoOlder(cache, server) /\ NewestIsNewer
    /\ \A t \in Handlers : Honest(handler[t], server)
    /\ \A r \in Rows : told[r] <= server[r].version /\ SaveIsShown(r)

-----------------------------------------------------------------------------
(* Older and newer copies *)

LEMMA Versions ==
    ASSUME NEW c \in Snapshot, NEW e \in Entities
    PROVE  c[e] \in Row /\ c[e].version \in Nat /\ c[e].live \in BOOLEAN
BY DEF Snapshot, Row

LEMMA NoOlderThanItself ==
    ASSUME NEW c \in Snapshot PROVE NoOlder(c, c)
BY Versions DEF NoOlder

LEMMA NoOlderTransitive ==
    ASSUME NEW c \in Snapshot, NEW d \in Snapshot, NEW s \in Snapshot,
           NoOlder(c, d), NoOlder(d, s)
    PROVE  NoOlder(c, s)
<1>. SUFFICES ASSUME NEW e \in Entities
              PROVE  c[e].version <= s[e].version /\ (s[e].live => c[e].live)
  BY DEF NoOlder
<1>1. c[e].version \in Nat /\ d[e].version \in Nat /\ s[e].version \in Nat
  BY Versions
<1>. QED
  BY <1>1 DEF NoOlder

LEMMA HonestGrows ==
    ASSUME NEW h \in HandlerStates, NEW s \in Snapshot, NEW u \in Snapshot,
           Honest(h, s), NoOlder(s, u)
    PROVE  Honest(h, u)
<1>1. ASSUME h.data # None PROVE h.step = "fetched" /\ NoOlder(h.data, u)
  <2>1. h.data \in Snapshot
    BY <1>1 DEF HandlerStates
  <2>. QED
    BY <1>1, <2>1, NoOlderTransitive DEF Honest
<1>2. ASSUME h.op = "save", h.step = "answered", h.outcome = "ok", h.row \in Rows
      PROVE  h.version < u[h.row].version
  <2>1. h.version \in Nat /\ h.row \in Entities
    BY DEF HandlerStates
  <2>2. s[h.row].version \in Nat /\ u[h.row].version \in Nat
    BY <2>1, Versions
  <2>3. h.version < s[h.row].version /\ s[h.row].version <= u[h.row].version
    BY <1>2, <2>1 DEF Honest, NoOlder
  <2>. QED
    BY <2>1, <2>2, <2>3
<1>. QED
  BY <1>1, <1>2 DEF Honest

\* Without an answer there is nothing to be honest about.
LEMMA SilentHonest ==
    ASSUME NEW h, h.data = None, h.step # "answered" \/ h.op # "save" \/ h.outcome # "ok", NEW s
    PROVE  Honest(h, s)
BY DEF Honest

LEMMA FactsOfReads ==
    ASSUME ReadsSound
    PROVE  /\ EditsSound /\ server \in Snapshot /\ cache \in Snapshot
           /\ handler \in [Handlers -> HandlerStates]
           /\ \A t \in Handlers : handler[t].data \in Snapshot \cup {None}
           /\ \A t \in Handlers : Honest(handler[t], server)
           /\ latest \in Handlers \cup {None} /\ told \in [Rows -> Nat]
           /\ NoOlder(cache, server)
<1>1. EditsSound
  BY DEF ReadsSound
<1>2. handler \in [Handlers -> HandlerStates]
  BY <1>1, HereSound
<1>3. \A t \in Handlers : handler[t].data \in Snapshot \cup {None}
  BY <1>2 DEF HandlerStates
<1>. QED
  BY <1>1, <1>2, <1>3, HereSound DEF ReadsSound

-----------------------------------------------------------------------------
(* How a step may change what is cached and what is asked for *)

\* The cached position is replaced by the newest answer only, which is then
\* gone; a newer request starts with nothing; a request ends with its answer
\* cached or another attempt scheduled.
Flow ==
    /\ onPage' => onPage
    /\ \/ cache' = cache
       \/ /\ latest # None /\ latest' = None
          /\ handler[latest].data # None /\ cache' = handler[latest].data
    /\ latest' \in Handlers \cup {None}
    /\ latest' # None =>
         /\ cache' = cache
         /\ \/ handler'[latest'].data = None
            \/ server' = server /\ handler'[latest'].data = server
            \/ latest' = latest /\ handler'[latest'].data = handler[latest].data
    /\ latest' = None /\ onPage' =>
         IF latest = None THEN retry => retry'
         ELSE retry' \/ (handler[latest].data # None /\ cache' = handler[latest].data)

LEMMA FlowSound ==
    ASSUME ReadsSound, EditsSound', Flow, UNCHANGED told, NoOlder(server, server'),
           \A t \in Handlers : Honest(handler'[t], server')
    PROVE  ReadsSound'
<1>1. /\ server \in Snapshot /\ cache \in Snapshot /\ server' \in Snapshot
      /\ latest \in Handlers \cup {None} /\ told \in [Rows -> Nat]
      /\ \A t \in Handlers : handler[t].data \in Snapshot \cup {None}
      /\ NoOlder(cache, server) /\ NewestIsNewer
      /\ \A t \in Handlers : Honest(handler[t], server)
      /\ \A r \in Rows : told[r] <= server[r].version /\ SaveIsShown(r)
  BY FactsOfReads DEF ReadsSound, EditsSound, Types
<1>2. ASSUME cache' = cache
      PROVE  NoOlder(cache, server)' /\ NewestIsNewer' /\ \A r \in Rows : SaveIsShown(r)'
  <2>1. NoOlder(cache, server')
    BY <1>1, NoOlderTransitive
  <2>2. NoOlder(cache, server)'
    BY <1>2, <2>1 DEF NoOlder
  <2>3. NewestIsNewer'
    <3>1. SUFFICES ASSUME latest' # None, handler'[latest'].data # None
                   PROVE  NoOlder(cache, handler'[latest'].data)
      BY <1>2 DEF NewestIsNewer, NoOlder
    <3>2. CASE handler'[latest'].data = server
      BY <1>1, <3>2
    <3>3. CASE latest' = latest /\ handler'[latest'].data = handler[latest].data
      BY <1>1, <3>1, <3>3 DEF NewestIsNewer
    <3>. QED
      BY <3>1, <3>2, <3>3 DEF Flow
  <2>4. ASSUME NEW r \in Rows PROVE SaveIsShown(r)'
    <3>1. SUFFICES ASSUME onPage', ~(told[r] <= cache[r].version)
                   PROVE  IF latest' = None THEN retry'
                          ELSE handler'[latest'].data # None =>
                                 told[r] <= handler'[latest'].data[r].version
      BY <1>2 DEF SaveIsShown
    <3>2. IF latest = None THEN retry
          ELSE handler[latest].data # None => told[r] <= handler[latest].data[r].version
      BY <1>1, <3>1 DEF SaveIsShown, Flow
    <3>3. CASE latest' = None
      <4>1. CASE latest = None
        BY <3>1, <3>2, <3>3, <4>1 DEF Flow
      <4>2. CASE latest # None
        <5>1. handler[latest].data # None /\ cache = handler[latest].data => FALSE
          BY <3>1, <3>2, <4>2
        <5>. QED
          BY <1>2, <3>1, <3>3, <4>2, <5>1 DEF Flow
      <4>. QED
        BY <4>1, <4>2
    <3>4. CASE latest' # None
      <4>1. CASE handler'[latest'].data = None
        BY <3>4, <4>1
      <4>2. CASE handler'[latest'].data = server
        BY <1>1, <3>4, <4>2
      <4>3. CASE latest' = latest /\ handler'[latest'].data = handler[latest].data
        BY <3>2, <3>4, <4>3
      <4>. QED
        BY <3>4, <4>1, <4>2, <4>3 DEF Flow
    <3>. QED
      BY <3>3, <3>4
  <2>. QED
    BY <2>2, <2>3, <2>4
<1>3. ASSUME latest # None, latest' = None,
             handler[latest].data # None, cache' = handler[latest].data
      PROVE  NoOlder(cache, server)' /\ NewestIsNewer' /\ \A r \in Rows : SaveIsShown(r)'
  <2>. DEFINE d == handler[latest].data
  <2>1. d \in Snapshot /\ NoOlder(d, server) /\ NoOlder(cache, d)
    BY <1>1, <1>3 DEF Honest, NewestIsNewer
  <2>2. NoOlder(d, server')
    BY <1>1, <2>1, NoOlderTransitive
  <2>3. cache' = d
    BY <1>3
  <2>4. ASSUME NEW r \in Rows PROVE onPage' => told[r] <= d[r].version
    <3>1. r \in Entities
      BY DEF Entities
    <3>2. told[r] \in Nat /\ cache[r].version \in Nat /\ d[r].version \in Nat
      BY <1>1, <2>1, <3>1, Versions
    <3>3. cache[r].version <= d[r].version
      BY <2>1, <3>1 DEF NoOlder
    <3>4. onPage' => told[r] <= cache[r].version \/ told[r] <= d[r].version
      BY <1>1, <1>3 DEF SaveIsShown, Flow
    <3>. QED
      BY <3>2, <3>3, <3>4
  <2>. HIDE DEF d
  <2>5. NoOlder(cache, server)'
    BY <2>2, <2>3 DEF NoOlder
  <2>6. NewestIsNewer'
    BY <1>3 DEF NewestIsNewer
  <2>7. \A r \in Rows : SaveIsShown(r)'
    BY <2>3, <2>4 DEF SaveIsShown
  <2>. QED
    BY <2>5, <2>6, <2>7
<1>4. NoOlder(cache, server)' /\ NewestIsNewer' /\ \A r \in Rows : SaveIsShown(r)'
  BY <1>2, <1>3 DEF Flow
<1>5. ASSUME NEW r \in Rows PROVE (told[r] <= server[r].version)'
  <2>1. r \in Entities
    BY DEF Entities
  <2>2. told[r] \in Nat /\ server[r].version \in Nat /\ server'[r].version \in Nat
    BY <1>1, <2>1, Versions
  <2>3. told[r] <= server[r].version /\ server[r].version <= server'[r].version
    BY <1>1, <2>1 DEF NoOlder
  <2>. QED
    BY <2>2, <2>3
<1>6. \A t \in Handlers : Honest(handler[t], server)'
  BY DEF Honest, NoOlder
<1>7. told' \in [Rows -> Nat] /\ latest' \in Handlers \cup {None}
  BY <1>1 DEF Flow
<1>. QED
  BY <1>4, <1>5, <1>6, <1>7 DEF ReadsSound

-----------------------------------------------------------------------------
(* The kinds of steps *)

\* Nothing is asked for, answered or applied.
LEMMA WritesSound ==
    ASSUME ReadsSound, EditsSound', NoOlder(server, server'),
           UNCHANGED <<cache, latest, retry, told, onPage>>,
           \A u \in Handlers : /\ Honest(handler'[u], server')
                               /\ handler'[u].data \in {handler[u].data, None}
    PROVE  ReadsSound'
<1>1. latest \in Handlers \cup {None}
  BY FactsOfReads
<1>2. Flow
  BY <1>1 DEF Flow
<1>. QED
  BY <1>2, FlowSound

LEMMA QuietSound ==
    ASSUME ReadsSound, EditsSound', UNCHANGED <<server, cache, latest, retry, told, onPage>>,
           \A u \in Handlers : /\ Honest(handler'[u], server)
                               /\ handler'[u].data \in {handler[u].data, None}
    PROVE  ReadsSound'
<1>1. NoOlder(server, server')
  <2>1. NoOlder(server, server)
    BY FactsOfReads, NoOlderThanItself
  <2>. QED
    BY <2>1 DEF NoOlder
<1>2. \A u \in Handlers : Honest(handler'[u], server')
  BY DEF Honest, NoOlder
<1>. QED
  BY <1>1, <1>2, WritesSound

\* One handler changes, with no answer to apply.
LEMMA OneChanges ==
    ASSUME ReadsSound, NEW t \in Handlers, NEW h, h.data = None, Honest(h, server),
           NEW hs, hs = [handler EXCEPT ![t] = h]
    PROVE  \A u \in Handlers : Honest(hs[u], server) /\ hs[u].data \in {handler[u].data, None}
BY FactsOfReads

LEMMA IdleSilent == Idle.data = None /\ Idle.step = "idle"
BY DEF Idle

LEMMA OneEnds ==
    ASSUME ReadsSound, NEW t \in Handlers, NEW hs, hs = [handler EXCEPT ![t] = Idle]
    PROVE  \A u \in Handlers : Honest(hs[u], server) /\ hs[u].data \in {handler[u].data, None}
BY IdleSilent, SilentHonest, OneChanges

\* Rendering changes no answer.
LEMMA RenderKeeps ==
    ASSUME NEW ed, NEW del, NEW c, NEW fm, NEW cf, NEW hs \in [Handlers -> HandlerStates],
           NEW s, \A u \in Handlers : Honest(hs[u], s), Render(ed, del, c, fm, cf, hs)
    PROVE  /\ cache' = c
           /\ \A u \in Handlers : Honest(handler'[u], s) /\ handler'[u].data = hs[u].data
<1>1. cache' = c
  BY DEF Render
<1>2. ASSUME NEW u \in Handlers PROVE Honest(handler'[u], s) /\ handler'[u].data = hs[u].data
  <2>. DEFINE b == hs[u].own /\ StillOpen(hs[u], ed, del, c)
  <2>1. handler'[u] = [hs[u] EXCEPT !.own = b] /\ hs[u] \in HandlerStates
    BY DEF Render
  <2>. HIDE DEF b
  <2>2. /\ handler'[u].data = hs[u].data /\ handler'[u].step = hs[u].step
        /\ handler'[u].op = hs[u].op /\ handler'[u].row = hs[u].row
        /\ handler'[u].outcome = hs[u].outcome /\ handler'[u].version = hs[u].version
    BY <2>1 DEF HandlerStates
  <2>3. Honest(hs[u], s)
    OBVIOUS
  <2>4. Honest(handler'[u], s)
    BY <2>2, <2>3 DEF Honest
  <2>. QED
    BY <2>2, <2>4
<1>. QED
  BY <1>1, <1>2

LEMMA RenderQuietSound ==
    ASSUME ReadsSound, EditsSound', UNCHANGED <<server, latest, retry, told, onPage>>,
           NEW ed, NEW del, NEW fm, NEW cf, NEW hs \in [Handlers -> HandlerStates],
           \A u \in Handlers : Honest(hs[u], server) /\ hs[u].data \in {handler[u].data, None},
           Render(ed, del, cache, fm, cf, hs)
    PROVE  ReadsSound'
<1>1. /\ cache' = cache
      /\ \A u \in Handlers : Honest(handler'[u], server) /\ handler'[u].data = hs[u].data
  BY RenderKeeps
<1>. QED
  BY <1>1, QuietSound

\* A handler asks for the position.
LEMMA AsksSound ==
    ASSUME ReadsSound, EditsSound', UNCHANGED <<server, cache, told, onPage>>,
           NEW t \in Handlers, latest' = t, NEW h, h.data = None, Honest(h, server),
           handler' = [handler EXCEPT ![t] = h]
    PROVE  ReadsSound'
<1>1. \A u \in Handlers : Honest(handler'[u], server)
  BY OneChanges
<1>2. handler'[t].data = None
  BY FactsOfReads
<1>3. t # None
  BY EntitiesAssumption
<1>4. Flow
  BY <1>2, <1>3 DEF Flow
<1>5. NoOlder(server, server')
  <2>1. NoOlder(server, server)
    BY FactsOfReads, NoOlderThanItself
  <2>. QED
    BY <2>1 DEF NoOlder
<1>6. \A u \in Handlers : Honest(handler'[u], server')
  BY <1>1 DEF Honest, NoOlder
<1>. QED
  BY <1>4, <1>5, <1>6, FlowSound

\* An answer arrives.
LEMMA ArrivesSound ==
    ASSUME ReadsSound, EditsSound', NEW t \in Handlers, Arrives(t),
           NEW ed, NEW del, NEW fm, NEW cf, NEW hs \in [Handlers -> HandlerStates],
           \A u \in Handlers : Honest(hs[u], server) /\ hs[u].data \in {handler[u].data, None},
           Render(ed, del, NewCache(t), fm, cf, hs)
    PROVE  ReadsSound'
<1>1. /\ cache' = NewCache(t)
      /\ \A u \in Handlers : Honest(handler'[u], server) /\ handler'[u].data = hs[u].data
  BY RenderKeeps
<1>2. /\ onPage /\ UNCHANGED <<server, told, onPage>>
      /\ latest' = IF latest = t THEN None ELSE latest
      /\ retry' = IF handler[t].data = None THEN TRUE ELSE retry /\ ~Applies(t)
  BY DEF Arrives
<1>3. t # None /\ latest \in Handlers \cup {None}
  BY FactsOfReads, EntitiesAssumption
<1>4. Flow
  <2>1. CASE latest = t
    <3>1. latest' = None /\ latest # None
      BY <1>2, <1>3, <2>1
    <3>2. CASE handler[t].data = None
      BY <1>1, <1>2, <2>1, <3>1, <3>2 DEF Flow, NewCache, Applies
    <3>3. CASE handler[t].data # None
      BY <1>1, <1>2, <2>1, <3>1, <3>3 DEF Flow, NewCache, Applies
    <3>. QED
      BY <3>2, <3>3
  <2>2. CASE latest # t
    <3>1. ~Applies(t) /\ cache' = cache /\ latest' = latest
      BY <1>1, <1>2, <2>2 DEF NewCache, Applies
    <3>2. retry => retry'
      BY <1>2, <3>1
    <3>. QED
      BY <1>1, <1>2, <1>3, <3>1, <3>2 DEF Flow
  <2>. QED
    BY <2>1, <2>2
<1>5. NoOlder(server, server')
  <2>1. NoOlder(server, server)
    BY FactsOfReads, NoOlderThanItself
  <2>. QED
    BY <1>2, <2>1 DEF NoOlder
<1>6. \A u \in Handlers : Honest(handler'[u], server')
  BY <1>1, <1>2 DEF Honest, NoOlder
<1>. QED
  BY <1>2, <1>4, <1>5, <1>6, FlowSound

-----------------------------------------------------------------------------
(* Steps *)

LEMMA NewHandlersHonest ==
    ASSUME NEW op \in {"save", "delete", "refresh", "revalidate"}, NEW r, NEW f, NEW s
    PROVE  /\ Sends(op, r, f).data = None /\ Honest(Sends(op, r, f), s)
           /\ Fetches(op, r).data = None /\ Honest(Fetches(op, r), s)
<1>1. Sends(op, r, f).data = None /\ Sends(op, r, f).step = "sent"
  BY DEF Sends, Idle
<1>2. Fetches(op, r).data = None /\ Fetches(op, r).step = "fetch"
  BY DEF Fetches, Idle
<1>. QED
  BY <1>1, <1>2, SilentHonest

LEMMA SameHandlers ==
    ASSUME ReadsSound
    PROVE  /\ handler \in [Handlers -> HandlerStates]
           /\ \A u \in Handlers : Honest(handler[u], server) /\ handler[u].data \in {handler[u].data, None}
BY FactsOfReads

LEMMA DialogStepReads ==
    ASSUME ReadsSound, EditsSound', NEW k \in Kinds, NEW j \in ConfirmKinds, NEW r, NEW n,
           OpenEdit(k, r) \/ CancelEdit(k) \/ OpenDelete(r) \/ CancelDelete(j) \/ Type(k, n)
    PROVE  ReadsSound'
<1>1. CASE OpenEdit(k, r)
  BY <1>1, SameHandlers, RenderQuietSound DEF OpenEdit
<1>2. CASE CancelEdit(k)
  BY <1>2, SameHandlers, RenderQuietSound DEF CancelEdit
<1>3. CASE OpenDelete(r)
  BY <1>3, SameHandlers, RenderQuietSound DEF OpenDelete
<1>4. CASE CancelDelete(j)
  BY <1>4, SameHandlers, RenderQuietSound DEF CancelDelete
<1>5. CASE Type(k, n)
  BY <1>5, SameHandlers, QuietSound DEF Type
<1>. QED
  BY <1>1, <1>2, <1>3, <1>4, <1>5

LEMMA SendStepReads ==
    ASSUME ReadsSound, EditsSound', NEW k \in Kinds, NEW j \in ConfirmKinds, NEW t \in Handlers,
           Save(k, t) \/ Confirm(j, t)
    PROVE  ReadsSound'
<1>1. PICK op, r, f : /\ op \in {"save", "delete"}
                       /\ handler' = [handler EXCEPT ![t] = Sends(op, r, f)]
  BY DEF Save, Confirm
<1>2. UNCHANGED <<server, cache, latest, retry, told, onPage>>
  BY DEF Save, Confirm
<1>3. Sends(op, r, f).data = None /\ Honest(Sends(op, r, f), server)
  BY <1>1, NewHandlersHonest
<1>. QED
  BY <1>1, <1>2, <1>3, OneChanges, QuietSound

LEMMA AskStepReads ==
    ASSUME ReadsSound, EditsSound', NEW k \in Kinds, NEW t \in Handlers,
           Refresh(k, t) \/ Revalidate(t)
    PROVE  ReadsSound'
<1>1. PICK op, r : /\ op \in {"refresh", "revalidate"}
                    /\ handler' = [handler EXCEPT ![t] = Fetches(op, r)]
  BY DEF Refresh, Revalidate
<1>2. latest' = t /\ UNCHANGED <<server, cache, told, onPage>>
  BY DEF Refresh, Revalidate
<1>3. Fetches(op, r).data = None /\ Honest(Fetches(op, r), server)
  BY <1>1, NewHandlersHonest
<1>. QED
  BY <1>1, <1>2, <1>3, AsksSound

LEMMA EndStepReads ==
    ASSUME ReadsSound, EditsSound', NEW k \in Kinds, NEW t \in Handlers,
           SaveFailed(k, t) \/ DeleteFailed(t) \/ ArrivesTooLate(t)
    PROVE  ReadsSound'
<1>1. /\ handler' = [handler EXCEPT ![t] = Idle]
      /\ UNCHANGED <<server, cache, latest, retry, told, onPage>>
  BY DEF SaveFailed, DeleteFailed, ArrivesTooLate
<1>. QED
  BY <1>1, OneEnds, QuietSound

LEMMA RowDeletedReads ==
    ASSUME ReadsSound, EditsSound', NEW t \in Handlers, RowDeleted(t)
    PROVE  ReadsSound'
<1>. DEFINE del == [deleting EXCEPT ![KindOf(handler[t].row)] = None]
            hs == [handler EXCEPT ![t] = Idle]
<1>1. /\ UNCHANGED <<server, latest, retry, told, onPage>>
      /\ Render(editing, del, cache, form, confirming, hs)
  BY DEF RowDeleted
<1>2. hs \in [Handlers -> HandlerStates]
  BY FactsOfReads, IdleSound
<1>3. \A u \in Handlers : Honest(hs[u], server) /\ hs[u].data \in {handler[u].data, None}
  BY OneEnds
<1>. HIDE DEF hs, del
<1>. QED
  BY <1>1, <1>2, <1>3, RenderQuietSound

LEMMA LeavePageReads ==
    ASSUME ReadsSound, EditsSound', LeavePage
    PROVE  ReadsSound'
<1>. DEFINE ed == [k \in Kinds |-> None]
            del == [k \in ConfirmKinds |-> None]
            hs == [t \in Handlers |-> IF handler[t].step = "sent"
                                     THEN [handler[t] EXCEPT !.own = FALSE] ELSE Idle]
            cf == [k \in ConfirmKinds |-> FALSE]
<1>1. /\ onPage' = FALSE /\ latest' = None /\ UNCHANGED <<server, told>>
      /\ Render(ed, del, cache, form, cf, hs)
  BY DEF LeavePage
<1>2. ASSUME NEW u \in Handlers PROVE hs[u] \in HandlerStates /\ Honest(hs[u], server)
  <2>1. CASE handler[u].step = "sent"
    <3>1. handler[u] \in HandlerStates /\ handler[u].data = None
      BY <2>1, FactsOfReads DEF Honest
    <3>2. hs[u] \in HandlerStates /\ hs[u].data = None /\ hs[u].step = "sent"
      BY <2>1, <3>1 DEF HandlerStates
    <3>. HIDE DEF hs
    <3>. QED
      BY <3>2, SilentHonest
  <2>2. CASE handler[u].step # "sent"
    BY <2>2, IdleSound, IdleSilent, SilentHonest
  <2>. QED
    BY <2>1, <2>2
<1>3. hs \in [Handlers -> HandlerStates]
  BY <1>2
<1>. HIDE DEF ed, del, hs, cf
<1>4. cache' = cache /\ \A u \in Handlers : Honest(handler'[u], server)
  BY <1>1, <1>2, <1>3, RenderKeeps
<1>5. Flow
  BY <1>1, <1>4 DEF Flow
<1>6. NoOlder(server, server')
  <2>1. NoOlder(server, server)
    BY FactsOfReads, NoOlderThanItself
  <2>. QED
    BY <1>1, <2>1 DEF NoOlder
<1>7. \A u \in Handlers : Honest(handler'[u], server')
  BY <1>1, <1>4 DEF Honest, NoOlder
<1>. QED
  BY <1>1, <1>5, <1>6, <1>7, FlowSound

\* The page is told of a save: whoever asked before, the newest request is now
\* its own.
LEMMA SavedReads ==
    ASSUME ReadsSound, EditsSound', NEW k \in Kinds, NEW t \in Handlers, Saved(k, t)
    PROVE  ReadsSound'
<1>. DEFINE h == handler[t]
            ed == [editing EXCEPT ![k] = None]
            g == Fetches("revalidate", Position)
            hs == [handler EXCEPT ![t] = g]
<1>1. /\ h.op = "save" /\ KindOf(h.row) = k /\ h.step = "answered" /\ h.outcome = "ok"
      /\ Render(ed, deleting, cache, form, confirming, hs)
      /\ latest' = t /\ told' = [told EXCEPT ![h.row] = h.version + 1]
      /\ UNCHANGED <<server, onPage>>
  BY DEF Saved
<1>2. h \in HandlerStates /\ handler \in [Handlers -> HandlerStates] /\ Honest(h, server)
      /\ told \in [Rows -> Nat] /\ server \in Snapshot
  BY FactsOfReads
<1>3. h.row \in Rows /\ h.version \in Nat
  BY <1>1, <1>2, KindTyped DEF HandlerStates, Entities, Kinds
<1>4. h.version < server[h.row].version
  BY <1>1, <1>2, <1>3 DEF Honest
<1>. HIDE DEF h
<1>5. g \in HandlerStates /\ g.data = None /\ Honest(g, server)
  BY FetchesSound, NewHandlersHonest DEF Entities
<1>. HIDE DEF g
<1>6. hs \in [Handlers -> HandlerStates] /\ hs[t].data = None
  BY <1>2, <1>5
<1>7. \A u \in Handlers : Honest(hs[u], server)
  BY <1>5, OneChanges
<1>. HIDE DEF hs, ed
<1>8. cache' = cache /\ handler'[t].data = None /\ \A u \in Handlers : Honest(handler'[u], server)
  BY <1>1, <1>6, <1>7, RenderKeeps
<1>9. latest' # None /\ latest' \in Handlers
  BY <1>1, EntitiesAssumption
<1>10. told' \in [Rows -> Nat]
  BY <1>1, <1>2, <1>3
<1>11. ASSUME NEW r \in Rows PROVE told'[r] <= server[r].version
  <2>1. told[r] <= server[r].version /\ r \in Entities
    BY DEF ReadsSound, Entities
  <2>2. server[r].version \in Nat
    BY <1>2, <2>1, Versions
  <2>3. CASE r = h.row
    BY <1>1, <1>2, <1>3, <1>4, <2>2, <2>3
  <2>4. CASE r # h.row
    BY <1>1, <1>2, <2>1, <2>4
  <2>. QED
    BY <2>3, <2>4
<1>12. NewestIsNewer' /\ \A r \in Rows : SaveIsShown(r)'
  BY <1>1, <1>8, <1>9 DEF NewestIsNewer, SaveIsShown
<1>13. NoOlder(cache, server)'
  <2>1. NoOlder(cache, server)
    BY FactsOfReads
  <2>. QED
    BY <1>1, <1>8, <2>1 DEF NoOlder
<1>14. \A u \in Handlers : Honest(handler[u], server)'
  BY <1>1, <1>8 DEF Honest, NoOlder
<1>15. \A r \in Rows : (told[r] <= server[r].version)'
  BY <1>1, <1>11
<1>. QED
  BY <1>9, <1>10, <1>12, <1>13, <1>14, <1>15 DEF ReadsSound

LEMMA DeletedReads ==
    ASSUME ReadsSound, EditsSound', NEW t \in Handlers, Deleted(t)
    PROVE  ReadsSound'
<1>. DEFINE step == IF handler[t].row = Position THEN "dashboard" ELSE "fetch"
            g == [handler[t] EXCEPT !.step = step]
<1>1. /\ handler[t].op = "delete" /\ handler[t].step = "answered"
      /\ handler' = [handler EXCEPT ![t].step = step]
      /\ latest' = (IF handler[t].row = Position THEN latest ELSE t)
      /\ UNCHANGED <<server, cache, retry, told, onPage>>
  BY DEF Deleted
<1>2. handler[t] \in HandlerStates /\ handler[t].data = None
  BY <1>1, FactsOfReads DEF Honest
<1>3. g.data = None /\ g.op = "delete"
  BY <1>1, <1>2 DEF HandlerStates
<1>4. handler' = [handler EXCEPT ![t] = g]
  BY <1>1
<1>. HIDE DEF g
<1>5. Honest(g, server)
  BY <1>3, SilentHonest
<1>6. CASE handler[t].row = Position
  <2>1. latest' = latest
    BY <1>1, <1>6
  <2>. QED
    BY <1>1, <1>3, <1>4, <1>5, <2>1, OneChanges, QuietSound
<1>7. CASE handler[t].row # Position
  <2>1. latest' = t
    BY <1>1, <1>7
  <2>. QED
    BY <1>1, <1>3, <1>4, <1>5, <2>1, AsksSound
<1>. QED
  BY <1>6, <1>7

LEMMA ArrivalReads ==
    ASSUME ReadsSound, EditsSound', NEW k \in Kinds, NEW t \in Handlers,
           PositionArrives(t) \/ Refreshed(k, t) \/ DeletionArrives(t)
    PROVE  ReadsSound'
<1>. DEFINE g == [handler[t] EXCEPT !.step = "dashboard", !.data = None]
<1>1. handler \in [Handlers -> HandlerStates] /\ handler[t] \in HandlerStates
  BY FactsOfReads
<1>2. ASSUME NEW hs, hs = [handler EXCEPT ![t] = Idle]
      PROVE  /\ hs \in [Handlers -> HandlerStates]
             /\ \A u \in Handlers : Honest(hs[u], server) /\ hs[u].data \in {handler[u].data, None}
  BY <1>1, <1>2, IdleSound, OneEnds
<1>3. ASSUME NEW hs, hs = [handler EXCEPT ![t] = g]
      PROVE  /\ hs \in [Handlers -> HandlerStates]
             /\ \A u \in Handlers : Honest(hs[u], server) /\ hs[u].data \in {handler[u].data, None}
  <2>1. g \in HandlerStates /\ g.data = None /\ g.step = "dashboard"
    BY <1>1 DEF HandlerStates, Steps
  <2>. HIDE DEF g
  <2>2. Honest(g, server)
    BY <2>1, SilentHonest
  <2>. QED
    BY <1>1, <1>3, <2>1, <2>2, OneChanges
<1>4. Arrives(t)
  BY DEF PositionArrives, Refreshed, DeletionArrives
<1>5. CASE PositionArrives(t)
  <2>. DEFINE hs == [handler EXCEPT ![t] = Idle]
  <2>1. Render(editing, deleting, NewCache(t), form, confirming, hs)
    BY <1>5 DEF PositionArrives
  <2>2. /\ hs \in [Handlers -> HandlerStates]
        /\ \A u \in Handlers : Honest(hs[u], server) /\ hs[u].data \in {handler[u].data, None}
    BY <1>2
  <2>. HIDE DEF hs
  <2>. QED
    BY <1>4, <2>1, <2>2, ArrivesSound
<1>6. CASE Refreshed(k, t)
  <2>. DEFINE hs == [handler EXCEPT ![t] = Idle]
  <2>1. PICK fm : Render(editing, deleting, NewCache(t), fm, confirming, hs)
    BY <1>6 DEF Refreshed
  <2>2. /\ hs \in [Handlers -> HandlerStates]
        /\ \A u \in Handlers : Honest(hs[u], server) /\ hs[u].data \in {handler[u].data, None}
    BY <1>2
  <2>. HIDE DEF hs
  <2>. QED
    BY <1>4, <2>1, <2>2, ArrivesSound
<1>7. CASE DeletionArrives(t)
  <2>. DEFINE hs == [handler EXCEPT ![t] = g]
  <2>1. hs = [handler EXCEPT ![t].step = "dashboard", ![t].data = None]
    BY <1>1
  <2>2. Render(editing, deleting, NewCache(t), form, confirming, hs)
    BY <1>7, <2>1 DEF DeletionArrives
  <2>3. /\ hs \in [Handlers -> HandlerStates]
        /\ \A u \in Handlers : Honest(hs[u], server) /\ hs[u].data \in {handler[u].data, None}
    BY <1>3
  <2>. HIDE DEF hs
  <2>. QED
    BY <1>4, <2>2, <2>3, ArrivesSound
<1>. QED
  BY <1>5, <1>6, <1>7

-----------------------------------------------------------------------------
(* The server's steps *)

LEMMA WriteNoOlder ==
    ASSUME server \in Snapshot, NEW r \in Entities, NEW n,
           server' = [server EXCEPT ![r].version = @ + 1, ![r].shares = n]
    PROVE  NoOlder(server, server') /\ server'[r].version = server[r].version + 1
<1>. DEFINE w == [server[r] EXCEPT !.version = @ + 1, !.shares = n]
<1>1. \A e \in Entities : server[e] \in Row /\ server[e].version \in Nat
  BY DEF Snapshot, Row
<1>2. w.version = server[r].version + 1 /\ w.live = server[r].live
  <2>1. server[r] \in Row
    BY <1>1
  <2>. QED
    BY <2>1 DEF Row
<1>3. server' = [server EXCEPT ![r] = w]
  BY <1>1 DEF Snapshot
<1>. HIDE DEF w
<1>4. server'[r] = w /\ \A e \in Entities \ {r} : server'[e] = server[e]
  BY <1>3 DEF Snapshot
<1>5. ASSUME NEW e \in Entities
      PROVE  server[e].version <= server'[e].version /\ (server'[e].live => server[e].live)
  <2>1. CASE e = r
    BY <1>1, <1>2, <1>4, <2>1
  <2>2. CASE e # r
    <3>1. server'[e] = server[e] /\ server[e].version \in Nat
      BY <1>1, <1>4, <2>2
    <3>. QED
      BY <3>1
  <2>. QED
    BY <2>1, <2>2
<1>. QED
  BY <1>2, <1>4, <1>5 DEF NoOlder

LEMMA WithoutNoOlder ==
    ASSUME server \in Snapshot, NEW r, server' = Without(r) \/ server' = server
    PROVE  NoOlder(server, server')
<1>. SUFFICES ASSUME NEW e \in Entities
              PROVE  server[e].version <= server'[e].version /\ (server'[e].live => server[e].live)
  BY DEF NoOlder
<1>1. server[e] \in Row /\ server[e].version \in Nat
  BY DEF Snapshot, Row
<1>2. server'[e] = server[e] \/ server'[e] = [server[e] EXCEPT !.live = FALSE]
  BY DEF Without
<1>3. CASE server'[e] = server[e]
  BY <1>1, <1>3
<1>4. CASE server'[e] = [server[e] EXCEPT !.live = FALSE]
  <2>1. server'[e].version = server[e].version /\ server'[e].live = FALSE
    BY <1>1, <1>4 DEF Row
  <2>. QED
    BY <1>1, <2>1
<1>. QED
  BY <1>2, <1>3, <1>4

\* A request is answered, or lost.
LEMMA AnswerReads ==
    ASSUME ReadsSound, EditsSound', NEW t \in Handlers, NEW outcome,
           handler[t].step # "fetched", NoOlder(server, server'),
           /\ handler[t].op = "save" /\ outcome = "ok" /\ handler[t].row \in Rows
           => handler[t].version < server'[handler[t].row].version,
           handler' = [handler EXCEPT ![t] = Answered(handler[t], outcome)],
           UNCHANGED <<cache, latest, retry, told, onPage>>
    PROVE  ReadsSound'
<1>. DEFINE g == Answered(handler[t], outcome)
<1>1. server \in Snapshot /\ server' \in Snapshot
  BY FactsOfReads DEF EditsSound, Types
<1>2. handler[t] \in HandlerStates /\ handler[t].data = None
  BY FactsOfReads DEF Honest
<1>3. /\ g.data = None /\ g.op = handler[t].op /\ g.row = handler[t].row
      /\ g.version = handler[t].version /\ g.outcome = outcome
  BY <1>2 DEF Answered, HandlerStates
<1>4. handler'[t] = g
  BY FactsOfReads
<1>. HIDE DEF g
<1>5. Honest(g, server')
  BY <1>3 DEF Honest
<1>6. ASSUME NEW u \in Handlers
      PROVE  Honest(handler'[u], server') /\ handler'[u].data \in {handler[u].data, None}
  <2>1. CASE u = t
    BY <1>3, <1>4, <1>5, <2>1
  <2>2. CASE u # t
    <3>1. handler'[u] = handler[u]
      BY <2>2
    <3>2. Honest(handler[u], server')
      BY <1>1, FactsOfReads, HonestGrows
    <3>. QED
      BY <3>1, <3>2
  <2>. QED
    BY <2>1, <2>2
<1>. QED
  BY <1>6, WritesSound

LEMMA ServerPatchReads ==
    ASSUME ReadsSound, EditsSound', NEW t \in Handlers, ServerPatch(t)
    PROVE  ReadsSound'
<1>. DEFINE h == handler[t]
<1>1. /\ handler' = [handler EXCEPT ![t] = Answered(handler[t], PatchOutcome(h))]
      /\ server' = IF PatchOutcome(h) # "ok" THEN server
                   ELSE [server EXCEPT ![h.row].version = @ + 1, ![h.row].shares = h.shares]
      /\ h.step = "sent" /\ UNCHANGED <<cache, latest, retry, told, onPage>>
  BY DEF ServerPatch
<1>2. h.row \in Entities /\ h.version \in Nat /\ server \in Snapshot
  BY FactsOfReads DEF HandlerStates
<1>3. PatchOutcome(h) = "ok" => server[h.row].version = h.version
  BY PatchOutcomeTyped
<1>4. CASE PatchOutcome(h) # "ok"
  <2>1. NoOlder(server, server')
    BY <1>1, <1>2, <1>4, WithoutNoOlder
  <2>. QED
    BY <1>1, <1>4, <2>1, AnswerReads, Zenon
<1>5. CASE PatchOutcome(h) = "ok"
  <2>1. NoOlder(server, server') /\ server'[h.row].version = server[h.row].version + 1
    BY <1>1, <1>2, <1>5, WriteNoOlder
  <2>2. h.version < server'[h.row].version
    BY <1>2, <1>3, <1>5, <2>1
  <2>. QED
    BY <1>1, <2>1, <2>2, AnswerReads, Zenon
<1>. QED
  BY <1>4, <1>5

LEMMA ServerDeleteReads ==
    ASSUME ReadsSound, EditsSound', NEW t \in Handlers, ServerDelete(t)
    PROVE  ReadsSound'
<1>. DEFINE outcome == IF MayDelete(handler[t].row) THEN "ok" ELSE "refused"
<1>1. /\ handler' = [handler EXCEPT ![t] = Answered(handler[t], outcome)]
      /\ server' = Without(handler[t].row) \/ server' = server
      /\ handler[t].step = "sent" /\ handler[t].op = "delete"
      /\ UNCHANGED <<cache, latest, retry, told, onPage>>
  BY DEF ServerDelete
<1>. HIDE DEF outcome
<1>2. NoOlder(server, server')
  BY <1>1, FactsOfReads, WithoutNoOlder
<1>. QED
  BY <1>1, <1>2, AnswerReads

LEMMA ServerReadReads ==
    ASSUME ReadsSound, EditsSound', NEW t \in Handlers, ServerRead(t)
    PROVE  ReadsSound'
<1>. DEFINE d == IF server[Position].live THEN server ELSE None
            g == [handler[t] EXCEPT !.step = "fetched", !.data = d]
<1>1. /\ handler' = [handler EXCEPT ![t].step = "fetched", ![t].data = d]
      /\ UNCHANGED <<server, cache, latest, retry, told, onPage>>
  BY DEF ServerRead
<1>2. /\ handler[t] \in HandlerStates /\ handler \in [Handlers -> HandlerStates]
      /\ server \in Snapshot /\ latest \in Handlers \cup {None}
  BY FactsOfReads
<1>3. d \in {server, None}
  OBVIOUS
<1>. HIDE DEF d
<1>4. g.step = "fetched" /\ g.data = d
  BY <1>2 DEF HandlerStates
<1>5. handler' = [handler EXCEPT ![t] = g]
  BY <1>1, <1>2
<1>. HIDE DEF g
<1>6. NoOlder(server, server)
  BY <1>2, NoOlderThanItself
<1>7. Honest(g, server)
  BY <1>3, <1>4, <1>6 DEF Honest
<1>8. handler'[t] = g /\ \A u \in Handlers \ {t} : handler'[u] = handler[u]
  BY <1>2, <1>5
<1>9. \A u \in Handlers : Honest(handler'[u], server)
  BY <1>7, <1>8, FactsOfReads
<1>10. latest # None => handler'[latest].data \in {handler[latest].data, server, None}
  BY <1>2, <1>3, <1>4, <1>8
<1>11. Flow
  BY <1>1, <1>2, <1>10 DEF Flow
<1>12. NoOlder(server, server') /\ \A u \in Handlers : Honest(handler'[u], server')
  BY <1>1, <1>6, <1>9 DEF NoOlder, Honest
<1>. QED
  BY <1>1, <1>11, <1>12, FlowSound

LEMMA OtherReads ==
    ASSUME ReadsSound, EditsSound', NEW r \in Entities, OtherEdits(r) \/ OtherDeletes(r)
    PROVE  ReadsSound'
<1>1. UNCHANGED <<cache, latest, retry, told, onPage, handler>>
  BY DEF OtherEdits, OtherDeletes
<1>2. server \in Snapshot /\ server' \in Snapshot
  BY FactsOfReads DEF EditsSound, Types
<1>3. NoOlder(server, server')
  <2>1. CASE OtherEdits(r)
    <3>1. PICK n : server' = [server EXCEPT ![r].version = @ + 1, ![r].shares = n]
      BY <2>1 DEF OtherEdits
    <3>. QED
      BY <1>2, <3>1, WriteNoOlder
  <2>2. CASE OtherDeletes(r)
    BY <1>2, <2>2, WithoutNoOlder DEF OtherDeletes
  <2>. QED
    BY <2>1, <2>2
<1>4. \A u \in Handlers : Honest(handler[u], server')
  BY <1>2, <1>3, FactsOfReads, HonestGrows
<1>. QED
  BY <1>1, <1>3, <1>4, WritesSound

LEMMA LoseReads ==
    ASSUME ReadsSound, EditsSound', NEW t \in Handlers, Lose(t)
    PROVE  ReadsSound'
<1>1. UNCHANGED <<server, cache, latest, retry, told, onPage>>
  BY DEF Lose
<1>2. CASE /\ handler[t].step \in {"sent", "answered"}
           /\ handler' = [handler EXCEPT ![t] = Answered(handler[t], "lost")]
  <2>1. NoOlder(server, server')
    BY <1>1, FactsOfReads, WithoutNoOlder
  <2>. QED
    BY <1>1, <1>2, <2>1, AnswerReads
<1>3. CASE /\ handler[t].step = "fetch"
           /\ handler' = [handler EXCEPT ![t].step = "fetched", ![t].data = None]
  <2>. DEFINE g == [handler[t] EXCEPT !.step = "fetched", !.data = None]
  <2>1. g.data = None /\ g.step = "fetched"
    <3>1. handler[t] \in HandlerStates
      BY FactsOfReads
    <3>. QED
      BY <3>1 DEF HandlerStates
  <2>2. handler' = [handler EXCEPT ![t] = g]
    BY <1>3, FactsOfReads
  <2>. HIDE DEF g
  <2>3. Honest(g, server)
    BY <2>1, SilentHonest
  <2>. QED
    BY <1>1, <2>1, <2>2, <2>3, OneChanges, QuietSound
<1>. QED
  BY <1>2, <1>3 DEF Lose

-----------------------------------------------------------------------------
(* The invariant *)

LEMMA InitReads == Init => ReadsSound
<1>. SUFFICES ASSUME Init PROVE ReadsSound
  OBVIOUS
<1>1. EditsSound
  BY InitSound
<1>2. server \in Snapshot /\ cache = server /\ latest = None /\ told = [r \in Rows |-> 1]
      /\ \A t \in Handlers : handler[t] = Idle
  BY <1>1, HereSound DEF Init
<1>3. NoOlder(cache, server)
  BY <1>2, NoOlderThanItself
<1>4. \A t \in Handlers : Honest(handler[t], server)
  BY <1>2, IdleSilent, SilentHonest
<1>5. \A r \in Rows : server[r].version = 1 /\ told[r] = 1
  BY DEF Init, Entities
<1>6. \A r \in Rows : SaveIsShown(r)
  BY <1>2, <1>5 DEF SaveIsShown
<1>. QED
  BY <1>1, <1>2, <1>3, <1>4, <1>5, <1>6 DEF ReadsSound, NewestIsNewer

LEMMA UserStepReads ==
    ASSUME ReadsSound, EditsSound', UserStep
    PROVE  ReadsSound'
<1>. USE DEF Kinds, ConfirmKinds
<1>1. ASSUME NEW r \in Rows, EditLot(r) \/ EditTranche(r) PROVE ReadsSound'
  BY <1>1, DialogStepReads DEF EditLot, EditTranche
<1>2. CASE TypeLot \/ TypeTranche
  BY <1>2, DialogStepReads DEF TypeLot, TypeTranche
<1>3. CASE GoBack
  BY <1>3, LeavePageReads DEF GoBack
<1>4. ASSUME NEW k \in Kinds, CancelEdit(k) PROVE ReadsSound'
  BY <1>4, DialogStepReads
<1>5. ASSUME NEW r \in Entities, OpenDelete(r) PROVE ReadsSound'
  BY <1>5, DialogStepReads
<1>6. ASSUME NEW k \in ConfirmKinds, CancelDelete(k) \/ \E t \in Handlers : Confirm(k, t)
      PROVE  ReadsSound'
  BY <1>6, DialogStepReads, SendStepReads
<1>7. ASSUME NEW t \in Handlers, SaveLot(t) \/ SaveTranche(t) PROVE ReadsSound'
  BY <1>7, SendStepReads DEF SaveLot, SaveTranche
<1>8. ASSUME NEW t \in Handlers, RefreshLot(t) \/ RefreshTranche(t) \/ Revalidate(t)
      PROVE  ReadsSound'
  BY <1>8, AskStepReads DEF RefreshLot, RefreshTranche
<1>. QED
  BY <1>1, <1>2, <1>3, <1>4, <1>5, <1>6, <1>7, <1>8 DEF UserStep

LEMMA HandlerStepReads ==
    ASSUME ReadsSound, EditsSound', NEW t \in Handlers, HandlerStep(t)
    PROVE  ReadsSound'
<1>. USE DEF Kinds
<1>1. CASE ServerPatch(t) \/ ServerDelete(t) \/ ServerRead(t)
  BY <1>1, ServerPatchReads, ServerDeleteReads, ServerReadReads
<1>2. CASE LotSaved(t) \/ TrancheSaved(t)
  BY <1>2, SavedReads DEF LotSaved, TrancheSaved
<1>3. CASE LotSaveFailed(t) \/ TrancheSaveFailed(t) \/ DeleteFailed(t) \/ ArrivesTooLate(t)
  BY <1>3, EndStepReads DEF LotSaveFailed, TrancheSaveFailed
<1>4. CASE LotRefreshed(t) \/ TrancheRefreshed(t) \/ PositionArrives(t) \/ DeletionArrives(t)
  BY <1>4, ArrivalReads DEF LotRefreshed, TrancheRefreshed
<1>5. CASE Deleted(t) \/ RowDeleted(t) \/ PositionDeleted(t)
  BY <1>5, DeletedReads, RowDeletedReads, LeavePageReads DEF PositionDeleted
<1>. QED
  BY <1>1, <1>2, <1>3, <1>4, <1>5 DEF HandlerStep

LEMMA StepReads == ReadsSound /\ [Next]_vars => ReadsSound'
<1>. SUFFICES ASSUME ReadsSound, [Next]_vars PROVE ReadsSound'
  OBVIOUS
<1>1. EditsSound'
  BY FactsOfReads, StepSound
<1>2. ASSUME NEW t \in Handlers, HandlerStep(t) \/ Lose(t) PROVE ReadsSound'
  BY <1>1, <1>2, HandlerStepReads, LoseReads
<1>3. ASSUME UserStep PROVE ReadsSound'
  BY <1>1, <1>3, UserStepReads
<1>4. ASSUME NEW r \in Shared, OtherEdits(r) \/ OtherDeletes(r) PROVE ReadsSound'
  <2>1. r \in Entities
    BY EntitiesAssumption
  <2>. QED
    BY <1>1, <1>4, <2>1, OtherReads
<1>5. ASSUME UNCHANGED vars PROVE ReadsSound'
  BY <1>1, <1>5, SameHandlers, QuietSound DEF vars
<1>. QED
  BY <1>2, <1>3, <1>4, <1>5 DEF Next

-----------------------------------------------------------------------------
\* A step leaves what is cached alone, or replaces it by the newest answer,
\* which is not older.
LEMMA StepGoesForward == ReadsSound /\ [Next]_vars => NoOlder(cache, cache')
<1>. SUFFICES ASSUME ReadsSound, [Next]_vars PROVE NoOlder(cache, cache')
  OBVIOUS
<1>1. NoOlder(cache, cache)
  BY FactsOfReads, NoOlderThanItself
<1>2. CASE cache' = cache
  BY <1>1, <1>2 DEF NoOlder
<1>3. ASSUME NEW t \in Handlers, cache' = NewCache(t) PROVE NoOlder(cache, cache')
  <2>1. NewestIsNewer
    BY DEF ReadsSound
  <2>2. CASE Applies(t)
    <3>1. NoOlder(cache, handler[t].data) /\ cache' = handler[t].data
      BY <1>3, <2>1, <2>2, EntitiesAssumption DEF NewestIsNewer, Applies, NewCache
    <3>. QED
      BY <3>1 DEF NoOlder
  <2>3. CASE ~Applies(t)
    <3>1. cache' = cache
      BY <1>3, <2>3, Zenon DEF NewCache
    <3>. QED
      BY <1>2, <3>1
  <2>. QED
    BY <2>2, <2>3
<1>4. ASSUME NEW t \in Handlers, HandlerStep(t) PROVE cache' = cache \/ cache' = NewCache(t)
  <2>1. CASE ServerPatch(t) \/ ServerDelete(t) \/ ServerRead(t)
    BY <2>1, Zenon DEF ServerPatch, ServerDelete, ServerRead
  <2>2. CASE LotSaved(t) \/ TrancheSaved(t) \/ LotSaveFailed(t) \/ TrancheSaveFailed(t)
    BY <2>2, Zenon DEF LotSaved, TrancheSaved, Saved, LotSaveFailed, TrancheSaveFailed, SaveFailed, Render
  <2>3. CASE PositionArrives(t) \/ LotRefreshed(t) \/ TrancheRefreshed(t) \/ DeletionArrives(t)
    BY <2>3, Zenon DEF PositionArrives, LotRefreshed, TrancheRefreshed, Refreshed, DeletionArrives,
                       Arrives, Render
  <2>4. CASE Deleted(t) \/ DeleteFailed(t) \/ ArrivesTooLate(t)
    BY <2>4, Zenon DEF Deleted, DeleteFailed, ArrivesTooLate
  <2>5. CASE RowDeleted(t) \/ PositionDeleted(t)
    BY <2>5, Zenon DEF RowDeleted, PositionDeleted, LeavePage, Render
  <2>. QED
    BY <1>4, <2>1, <2>2, <2>3, <2>4, <2>5, Zenon DEF HandlerStep
<1>5. ASSUME UserStep PROVE cache' = cache
  BY <1>5 DEF UserStep, EditLot, EditTranche, OpenEdit, TypeLot, TypeTranche, Type, GoBack,
     LeavePage, CancelEdit, OpenDelete, CancelDelete, Confirm, SaveLot, SaveTranche, Save,
     RefreshLot, RefreshTranche, Refresh, Revalidate, Render
<1>6. ASSUME NEW t \in Handlers, Lose(t) PROVE cache' = cache
  BY <1>6 DEF Lose
<1>7. ASSUME NEW r, OtherEdits(r) \/ OtherDeletes(r) PROVE cache' = cache
  BY <1>7 DEF OtherEdits, OtherDeletes
<1>8. ASSUME UNCHANGED vars PROVE cache' = cache
  BY <1>8 DEF vars
<1>. QED
  BY <1>2, <1>3, <1>4, <1>5, <1>6, <1>7, <1>8 DEF Next

\* The page never goes back to an older state of a row, nor brings a deleted
\* row back, in whatever order answers come.
THEOREM PageGoesForward == Spec => CacheNeverGoesBack
<1>. QED
  BY InitReads, StepReads, StepGoesForward, PTL DEF Spec, CacheNeverGoesBack

\* What a save has told the page of is shown, or the newest request will
\* bring it, or SWR will ask again.
THEOREM SavesReachThePage == Spec => []SavesAreShown
<1>1. ReadsSound => SavesAreShown
  <2>. SUFFICES ASSUME ReadsSound, onPage, NEW r \in Rows
                PROVE  \/ cache[r].version >= told[r] \/ retry
                       \/ latest # None /\ WillBring(latest, r)
    BY DEF SavesAreShown
  <2>1. SaveIsShown(r) /\ latest \in Handlers \cup {None} /\ told[r] \in Nat
    BY DEF ReadsSound
  <2>2. r \in Entities /\ cache[r].version \in Nat
    BY FactsOfReads, Versions DEF Entities
  <2>3. latest # None /\ handler[latest].data # None => handler[latest].data[r].version \in Nat
    BY <2>1, <2>2, FactsOfReads, Versions
  <2>. QED
    BY <2>1, <2>2, <2>3 DEF SaveIsShown, WillBring
<1>. QED
  BY <1>1, InitReads, StepReads, PTL DEF Spec
=============================================================================
