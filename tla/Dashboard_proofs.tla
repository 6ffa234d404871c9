-------------------------- MODULE Dashboard_proofs --------------------------
(***************************************************************************)
(* For every number of rows and handlers, however answers overtake each    *)
(* other: an override the page knows of is shown or will be, a price goes  *)
(* to the server for the row it was typed for, what is typed is not taken  *)
(* from the input, and rows without a price are the last of the table.     *)
(***************************************************************************)
EXTENDS Dashboard, FiniteSetTheorems, TLAPS

Portfolio == [Rows -> Price]
HandlerState == [step : Step, row : Rows \cup {None}, price : Entered \cup {None},
                 outcome : {"none", "ok", "refused", "lost"},
                 data : {None} \cup Nat \cup Portfolio]

EditorSound ==
    /\ editor.row \in Rows \cup {None} /\ editor.value \in Entered \cup {None}
    /\ DOMAIN editor = {"row", "value", "error", "saving", "typed"}

Types ==
    /\ now \in Nat /\ server \in Portfolio
    /\ latest \in Handlers \cup {None}
    /\ EditorSound
    /\ handler \in [Handlers -> HandlerState]
    /\ told \in [Rows -> Nat]

\* An override under way is one of a row; a good answer tells a version that
\* the server has reached.
Overriding(h, s) ==
    /\ h.step \in {"sent", "orphan", "answered"} => h.row \in Rows
    /\ h.step = "answered" /\ h.outcome = "ok" => h.data \in Nat /\ h.data <= s[h.row].version

\* The newest request was sent after every override the page knows of, so
\* what the server has read for it includes them.
Bringing(h, t) ==
    /\ h.step \in {"fetch", "fetched"}
    /\ h.step = "fetched" /\ h.data # None => \A r \in Rows : h.data[r].version >= t[r]

Covered(r) ==
    \/ told[r] = 0 \/ retry
    \/ cache # None /\ cache[r].version >= told[r]
    \/ latest # None

\* The inductive invariant of OverridesAreShown.
OverridesSound ==
    /\ Types
    /\ \A h \in Handlers : Overriding(handler[h], server)
    /\ \A r \in Rows : told[r] <= server[r].version
    /\ latest # None => Bringing(handler[latest], told)
    /\ \A r \in Rows : Covered(r)

LEMMA SoundMeansShown == OverridesSound => OverridesAreShown
BY DEF OverridesSound, Types, Covered, Bringing, OverridesAreShown, WillBring

LEMMA IdleTyped == Idle \in HandlerState /\ Idle.step = "idle"
BY DEF Idle, HandlerState, Step

LEMMA InitSound == Init => OverridesSound
<1>. SUFFICES ASSUME Init PROVE OverridesSound
  OBVIOUS
<1>1. server \in Portfolio /\ \A r \in Rows : server[r].version = 0
  <2>1. \A p \in [price : {None} \cup Market, at : {0}, version : {0}] : p \in Price /\ p.version = 0
    <3>1. Market \subseteq Nat
      BY DashboardAssumption
    <3>2. TAKE p \in [price : {None} \cup Market, at : {0}, version : {0}]
    <3>3. p.price \in {None} \cup Nat /\ p.at = 0 /\ p.version = 0
      BY <3>1
    <3>4. p = [price |-> p.price, at |-> p.at, version |-> p.version]
      OBVIOUS
    <3>. QED
      BY <3>3, <3>4 DEF Price
  <2>. QED
    BY <2>1 DEF Init, Portfolio
<1>2. handler \in [Handlers -> HandlerState] /\ told \in [Rows -> Nat]
  BY IdleTyped DEF Init
<1>3. EditorSound
  BY DEF Init, Closed, EditorSound
<1>4. Types
  BY <1>1, <1>2, <1>3 DEF Init, Types
<1>5. \A h \in Handlers : Overriding(handler[h], server)
  BY IdleTyped DEF Init, Overriding
<1>. QED
  BY <1>1, <1>4, <1>5 DEF Init, OverridesSound, Covered

-----------------------------------------------------------------------------
(* Steps *)

\* The rows' versions only grow.
Grows == \A r \in Rows : server[r].version <= server'[r].version

\* A step that tells the page nothing, and leaves its copy and its newest
\* request alone.
LEMMA PageKept ==
    ASSUME OverridesSound, Types', Grows, UNCHANGED <<cache, latest, retry, told>>,
           \A h \in Handlers : handler'[h] # handler[h] => Overriding(handler'[h], server'),
           latest # None /\ handler'[latest] # handler[latest] => Bringing(handler'[latest], told)
    PROVE  OverridesSound'
<1>1. \A r \in Rows : server[r].version \in Nat /\ server'[r].version \in Nat /\ told[r] \in Nat
  BY DEF OverridesSound, Types, Portfolio, Price
<1>2. ASSUME NEW h \in Handlers PROVE Overriding(handler[h], server)'
  <2>1. CASE handler'[h] # handler[h]
    BY <2>1 DEF Overriding
  <2>2. CASE handler'[h] = handler[h]
    <3>1. Overriding(handler[h], server)
      BY DEF OverridesSound
    <3>. QED
      BY <1>1, <2>2, <3>1 DEF Overriding, Grows
  <2>. QED
    BY <2>1, <2>2
<1>3. (\A r \in Rows : told[r] <= server[r].version)'
  BY <1>1 DEF OverridesSound, Grows
<1>4. (latest # None => Bringing(handler[latest], told))'
  BY DEF OverridesSound, Bringing
<1>5. (\A r \in Rows : Covered(r))'
  BY DEF OverridesSound, Covered
<1>. QED
  BY <1>2, <1>3, <1>4, <1>5 DEF OverridesSound

\* The user's steps: no handler but one that begins to send.
LEMMA UserSteps ==
    ASSUME OverridesSound,
           \/ \E key \in Keys : handleSort(key)
           \/ \E r \in Rows : openOverride(r)
           \/ \E v \in Entered : Type(v)
           \/ Escape \/ RefuseOverride \/ Clock \/ UNCHANGED vars
    PROVE  OverridesSound'
<1>1. UNCHANGED <<server, cache, latest, retry, handler, told>> /\ now' \in Nat
  <2>1. UNCHANGED <<server, cache, latest, retry, handler, told>>
    BY Zenon DEF handleSort, openOverride, Type, Escape, RefuseOverride, Clock, vars, page
  <2>2. now' = now \/ now' = now + 1
    BY Zenon DEF handleSort, openOverride, Type, Escape, RefuseOverride, Clock, vars
  <2>. QED
    BY <2>1, <2>2 DEF OverridesSound, Types
<1>2. EditorSound'
  <2>. USE DEF EditorSound
  <2>1. EditorSound
    BY DEF OverridesSound, Types
  <2>2. CASE \E key \in Keys : handleSort(key)
    BY <2>1, <2>2 DEF handleSort
  <2>3. CASE \E r \in Rows : openOverride(r)
    BY <2>1, <2>3, Zenon DEF openOverride, Opened
  <2>4. CASE \E v \in Entered : Type(v)
    BY <2>1, <2>4, Zenon DEF Type
  <2>5. CASE Escape
    BY <2>1, <2>5 DEF Escape, closeOverride
  <2>6. CASE RefuseOverride
    BY <2>1, <2>6 DEF RefuseOverride
  <2>7. CASE Clock \/ UNCHANGED vars
    BY <2>1, <2>7 DEF Clock, vars
  <2>. QED
    BY <2>2, <2>3, <2>4, <2>5, <2>6, <2>7
<1>3. Types' /\ Grows
  BY <1>1, <1>2 DEF OverridesSound, Types, Grows, Portfolio, Price
<1>. QED
  BY <1>1, <1>3, PageKept

\* The steps of the server and of faults: handler h waits for an answer, and
\* gets one, or nobody waits for it any more.
LEMMA ServerSteps ==
    ASSUME OverridesSound,
           \/ \E r \in Rows : RefreshPrice(r)
           \/ \E h \in Handlers : ServerOverride(h) \/ ServerRefuses(h) \/ ServerRead(h) \/ Lose(h)
    PROVE  OverridesSound'
<1>1. /\ now \in Nat /\ server \in Portfolio /\ handler \in [Handlers -> HandlerState]
      /\ \A r \in Rows : server[r].version \in Nat /\ told[r] \in Nat
      /\ \A r \in Rows : told[r] <= server[r].version
      /\ \A h \in Handlers : Overriding(handler[h], server)
      /\ None \notin Handlers
  BY DashboardAssumption DEF OverridesSound, Types, Portfolio, Price
<1>2. latest # None => Bringing(handler[latest], told)
  BY DEF OverridesSound
<1>3. ASSUME Types, Grows, UNCHANGED <<now, page, editor, told>>,
             server' \in Portfolio, handler' \in [Handlers -> HandlerState]
      PROVE  Types' /\ UNCHANGED <<cache, latest, retry, told>>
  BY <1>3 DEF Types, page, EditorSound
<1>4. ASSUME NEW r \in Rows, NEW p \in Entered \cup Market \cup {None}, server' = [server EXCEPT ![r] = Written(r, p)]
      PROVE  /\ server' \in Portfolio /\ Grows
             /\ server'[r].version = server[r].version + 1
  <2>1. Written(r, p) \in Price /\ Written(r, p).version = server[r].version + 1
    BY <1>1, DashboardAssumption DEF Written, Price
  <2>. QED
    BY <1>1, <1>4, <2>1 DEF Portfolio, Grows
<1>5. ASSUME NEW r \in Rows, RefreshPrice(r) PROVE OverridesSound'
  <2>1. PICK p \in Market : server' = [server EXCEPT ![r] = Written(r, p)]
    BY <1>5 DEF RefreshPrice
  <2>2. server' \in Portfolio /\ Grows
    BY <1>4, <2>1
  <2>3. UNCHANGED <<now, page, editor, told, handler>>
    BY <1>5 DEF RefreshPrice
  <2>. QED
    BY <1>1, <1>3, <2>2, <2>3, PageKept DEF OverridesSound
<1>6. ASSUME NEW h \in Handlers, ServerOverride(h) \/ ServerRefuses(h) \/ ServerRead(h) \/ Lose(h)
      PROVE  /\ handler' = [handler EXCEPT ![h] = handler'[h]]
             /\ UNCHANGED <<now, page, editor, told>>
             /\ \A g \in Handlers : g # h => handler'[g] = handler[g]
  <2>1. ASSUME NEW x, handler' = [handler EXCEPT ![h] = x]
        PROVE  /\ handler' = [handler EXCEPT ![h] = handler'[h]]
               /\ \A g \in Handlers : g # h => handler'[g] = handler[g]
    BY <1>1, <2>1, Zenon
  <2>2. CASE ServerOverride(h)
    BY <2>1, <2>2, Zenon DEF ServerOverride
  <2>3. CASE ServerRefuses(h)
    BY <2>1, <2>3, Zenon DEF ServerRefuses
  <2>4. CASE ServerRead(h)
    <3>1. \E x : handler' = [handler EXCEPT ![h] = x]
      BY <1>1, <2>4 DEF ServerRead
    <3>. QED
      BY <2>1, <2>4, <3>1 DEF ServerRead
  <2>5. CASE Lose(h)
    BY <2>1, <2>5, Zenon DEF Lose
  <2>. QED
    BY <1>6, <2>2, <2>3, <2>4, <2>5
<1>7. ASSUME NEW h \in Handlers, handler[h].step \in {"sent", "orphan", "answered"},
             ServerOverride(h) \/ ServerRefuses(h) \/ ServerRead(h) \/ Lose(h),
             handler'[h] \in HandlerState, Overriding(handler'[h], server'),
             server' \in Portfolio, Grows
      PROVE  OverridesSound'
  <2>1. handler' \in [Handlers -> HandlerState]
    BY <1>1, <1>6, <1>7
  <2>2. latest # h
    BY <1>2, <1>7, <1>1 DEF Bringing
  <2>3. \A g \in Handlers : handler'[g] # handler[g] => Overriding(handler'[g], server')
    BY <1>6, <1>7
  <2>4. latest # None => handler'[latest] = handler[latest]
    BY <1>6, <1>7, <2>2 DEF OverridesSound, Types
  <2>5. Types' /\ UNCHANGED <<cache, latest, retry, told>>
    BY <1>3, <1>6, <1>7, <2>1 DEF OverridesSound
  <2>. QED
    BY <1>7, <2>3, <2>4, <2>5, PageKept
<1>8. ASSUME NEW h \in Handlers, ServerOverride(h) PROVE OverridesSound'
  <2>. DEFINE r == handler[h].row
  <2>1. /\ handler[h].step \in {"sent", "orphan"} /\ r \in Rows
        /\ handler[h].price \in Entered \cup {None}
        /\ server' = [server EXCEPT ![r] = Written(r, handler[h].price)]
    BY <1>1, <1>8, Zenon DEF ServerOverride, Overriding, HandlerState
  <2>2. server' \in Portfolio /\ Grows /\ server'[r].version \in Nat
    <3>1. handler[h].price \in Entered \cup Market \cup {None}
      BY <2>1
    <3>. HIDE DEF r
    <3>2. server' \in Portfolio /\ Grows /\ server'[r].version = server[r].version + 1
      BY <1>4, <2>1, <3>1
    <3>. QED
      BY <1>1, <2>1, <3>2
  <2>3. handler'[h] = IF handler[h].step = "orphan" THEN Idle
                      ELSE [handler[h] EXCEPT !.step = "answered", !.outcome = "ok",
                                              !.data = server'[r].version]
    BY <1>1, <1>8, Zenon DEF ServerOverride
  <2>4. handler'[h] \in HandlerState /\ Overriding(handler'[h], server')
    <3>. DEFINE v == server'[r].version
    <3>1. v \in Nat
      BY <2>2
    <3>2. handler'[h] = Idle
          \/ handler'[h] = [handler[h] EXCEPT !.step = "answered", !.outcome = "ok", !.data = v]
      BY <2>3
    <3>3. handler'[h] = Idle => handler'[h] \in HandlerState /\ Overriding(handler'[h], server')
      BY IdleTyped DEF Overriding
    <3>4. handler[h] \in HandlerState
      BY <1>1
    <3>5. handler'[h].row = handler[h].row \/ handler'[h] = Idle
      BY <3>2, <3>4 DEF HandlerState
    <3>. HIDE DEF v
    <3>6. CASE handler'[h] = [handler[h] EXCEPT !.step = "answered", !.outcome = "ok", !.data = v]
      <4>1. handler'[h] \in HandlerState /\ handler'[h].data = v /\ handler'[h].row = r
            /\ handler'[h].step = "answered"
        BY <3>1, <3>4, <3>6 DEF HandlerState, Step
      <4>. QED
        BY <2>1, <3>1, <4>1 DEF Overriding, v
    <3>. QED
      BY <3>2, <3>3, <3>6
  <2>. QED
    BY <1>7, <1>8, <2>1, <2>2, <2>4
<1>9. UNCHANGED server => Grows /\ server' \in Portfolio
  BY <1>1 DEF Grows
<1>10. ASSUME NEW h \in Handlers, ServerRefuses(h) PROVE OverridesSound'
  <2>1. handler[h].step \in {"sent", "orphan"} /\ handler[h] \in HandlerState
        /\ handler[h].row \in Rows /\ UNCHANGED server
    BY <1>1, <1>10, Zenon DEF ServerRefuses, Overriding
  <2>2. handler'[h] = Idle
        \/ handler'[h] = [handler[h] EXCEPT !.step = "answered", !.outcome = "refused"]
    BY <1>1, <1>10, Zenon DEF ServerRefuses
  <2>3. handler'[h] \in HandlerState /\ Overriding(handler'[h], server')
    <3>1. CASE handler'[h] = Idle
      BY <3>1, IdleTyped DEF Overriding
    <3>2. CASE handler'[h] = [handler[h] EXCEPT !.step = "answered", !.outcome = "refused"]
      <4>1. handler'[h] \in HandlerState /\ handler'[h].row = handler[h].row
            /\ handler'[h].outcome = "refused"
        BY <2>1, <3>2 DEF HandlerState, Step
      <4>. QED
        BY <2>1, <4>1 DEF Overriding
    <3>. QED
      BY <2>2, <3>1, <3>2
  <2>. QED
    BY <1>7, <1>9, <1>10, <2>1, <2>3
<1>11. ASSUME NEW h \in Handlers, ServerRead(h) PROVE OverridesSound'
  <2>1. handler[h].step = "fetch" /\ handler[h] \in HandlerState /\ UNCHANGED server
    BY <1>1, <1>11 DEF ServerRead
  <2>2. handler'[h] = [handler[h] EXCEPT !.step = "fetched", !.data = server]
    BY <1>1, <1>11 DEF ServerRead
  <2>3. handler'[h] \in HandlerState /\ handler'[h].step = "fetched" /\ handler'[h].data = server
    BY <1>1, <2>1, <2>2 DEF HandlerState, Step
  <2>4. Overriding(handler'[h], server') /\ Bringing(handler'[h], told)
    BY <1>1, <2>3 DEF Overriding, Bringing
  <2>5. handler' \in [Handlers -> HandlerState]
    BY <1>1, <1>6, <1>11, <2>3
  <2>6. Types' /\ UNCHANGED <<cache, latest, retry, told>>
    BY <1>3, <1>6, <1>9, <1>11, <2>1, <2>5 DEF OverridesSound
  <2>7. latest \in Handlers \cup {None}
    BY DEF OverridesSound, Types
  <2>. QED
    BY <1>1, <1>6, <1>9, <1>11, <2>1, <2>4, <2>6, <2>7, PageKept
<1>12. ASSUME NEW h \in Handlers, Lose(h) PROVE OverridesSound'
  <2>1. handler[h].step \in {"sent", "answered", "fetch"} /\ handler[h] \in HandlerState
        /\ UNCHANGED server
    BY <1>1, <1>12, Zenon DEF Lose
  <2>2. CASE handler[h].step \in {"sent", "answered"}
    <3>1. handler'[h] = [handler[h] EXCEPT !.step = "answered", !.outcome = "lost", !.data = None]
      BY <1>1, <1>12, <2>2, Zenon DEF Lose
    <3>2. handler'[h] \in HandlerState /\ handler'[h].row = handler[h].row
          /\ handler'[h].outcome = "lost"
      BY <2>1, <3>1 DEF HandlerState, Step
    <3>3. Overriding(handler'[h], server')
      BY <1>1, <2>2, <3>2 DEF Overriding
    <3>. QED
      BY <1>7, <1>9, <1>12, <2>1, <2>2, <3>2, <3>3
  <2>3. CASE handler[h].step = "fetch"
    <3>1. handler'[h] = [handler[h] EXCEPT !.step = "fetched", !.data = None]
      BY <1>1, <1>12, <2>3, Zenon DEF Lose
    <3>2. handler'[h] \in HandlerState /\ handler'[h].step = "fetched" /\ handler'[h].data = None
      BY <2>1, <3>1 DEF HandlerState, Step
    <3>3. Overriding(handler'[h], server') /\ Bringing(handler'[h], told)
      BY <3>2 DEF Overriding, Bringing
    <3>4. handler' \in [Handlers -> HandlerState]
      BY <1>1, <1>6, <1>12, <3>2
    <3>5. Types' /\ UNCHANGED <<cache, latest, retry, told>>
      BY <1>3, <1>6, <1>9, <1>12, <2>1, <3>4 DEF OverridesSound
    <3>6. latest \in Handlers \cup {None}
      BY DEF OverridesSound, Types
    <3>. QED
      BY <1>1, <1>6, <1>9, <1>12, <2>1, <3>3, <3>5, <3>6, PageKept
  <2>. QED
    BY <2>1, <2>2, <2>3
<1>. QED
  BY <1>5, <1>8, <1>10, <1>11, <1>12

\* The page's steps: an override is sent and answered, a copy is asked for and
\* arrives, the page is loaded again.
LEMMA PageSteps ==
    ASSUME OverridesSound,
           \/ Reload
           \/ \E h \in Handlers : \/ saveOverride(h) \/ OverrideSaved(h) \/ OverrideFailed(h)
                                \/ Revalidate(h) \/ PortfolioArrives(h)
    PROVE  OverridesSound'
<1>1. /\ now \in Nat /\ server \in Portfolio /\ handler \in [Handlers -> HandlerState]
      /\ latest \in Handlers \cup {None} /\ told \in [Rows -> Nat] /\ EditorSound
      /\ \A r \in Rows : server[r].version \in Nat /\ told[r] \in Nat
      /\ \A r \in Rows : told[r] <= server[r].version
      /\ \A h \in Handlers : Overriding(handler[h], server)
      /\ None \notin Handlers /\ None \notin Rows
      /\ latest # None => Bringing(handler[latest], told)
  BY DashboardAssumption DEF OverridesSound, Types, Portfolio, Price
<1>2. UNCHANGED server => Grows
  BY <1>1 DEF Grows
\* One handler moves on, and the editor may close.
<1>3. ASSUME NEW h \in Handlers, NEW x \in HandlerState, handler' = [handler EXCEPT ![h] = x],
             UNCHANGED <<now, server>>, Overriding(x, server)
      PROVE  /\ handler' \in [Handlers -> HandlerState] /\ handler'[h] = x
             /\ now' \in Nat /\ server' \in Portfolio
             /\ \A g \in Handlers : g # h => handler'[g] = handler[g]
             /\ \A g \in Handlers : Overriding(handler'[g], server')
  <2>1. handler' \in [Handlers -> HandlerState] /\ handler'[h] = x
        /\ \A g \in Handlers : g # h => handler'[g] = handler[g]
    BY <1>1, <1>3
  <2>2. server' = server /\ now' = now
    BY <1>3
  <2>3. \A g \in Handlers : Overriding(handler'[g], server')
    BY <1>1, <1>3, <2>1, <2>2
  <2>. QED
    BY <1>1, <2>1, <2>2, <2>3
<1>4. ASSUME NEW h \in Handlers, saveOverride(h) PROVE OverridesSound'
  <2>. DEFINE x == Sending(editor.row, editor.value)
  <2>1. /\ handler' = [handler EXCEPT ![h] = x] /\ UNCHANGED <<now, server, cache, latest, retry, told>>
        /\ editor.row \in Rows /\ editor.value \in Entered \cup {None} /\ handler[h].step = "idle"
        /\ editor' = [editor EXCEPT !.error = FALSE, !.saving = TRUE]
    BY <1>1, <1>4, IdleTyped DEF saveOverride, CanSave, EditorSound, page
  <2>2. x \in HandlerState /\ x.step = "sent" /\ x.row \in Rows
    BY <2>1 DEF Sending, Idle, HandlerState, Step
  <2>. HIDE DEF x
  <2>3. Overriding(x, server)
    BY <2>2 DEF Overriding
  <2>4. EditorSound'
    BY <1>1, <2>1 DEF EditorSound
  <2>5. latest # h
    BY <1>1, <2>1 DEF Bringing
  <2>6. Types'
    BY <1>1, <1>3, <2>1, <2>2, <2>3, <2>4 DEF Types
  <2>7. /\ \A g \in Handlers : Overriding(handler'[g], server')
        /\ latest # None => handler'[latest] = handler[latest]
    BY <1>1, <1>3, <2>1, <2>2, <2>3, <2>5
  <2>. QED
    BY <1>2, <2>1, <2>6, <2>7, PageKept
<1>5. ASSUME NEW h \in Handlers, OverrideFailed(h) PROVE OverridesSound'
  <2>1. /\ handler' = [handler EXCEPT ![h] = Idle] /\ UNCHANGED <<now, server, cache, latest, retry, told>>
        /\ handler[h].step = "answered" /\ editor' = [editor EXCEPT !.error = TRUE, !.saving = FALSE]
    BY <1>5 DEF OverrideFailed, AfterFailure, page
  <2>2. Overriding(Idle, server)
    BY IdleTyped DEF Overriding
  <2>3. EditorSound'
    BY <1>1, <2>1 DEF EditorSound
  <2>4. latest # h
    BY <1>1, <2>1 DEF Bringing
  <2>5. Types'
    BY <1>1, <1>3, <2>1, <2>2, <2>3, IdleTyped DEF Types
  <2>6. /\ \A g \in Handlers : Overriding(handler'[g], server')
        /\ latest # None => handler'[latest] = handler[latest]
    BY <1>1, <1>3, <2>1, <2>2, <2>4, IdleTyped
  <2>. QED
    BY <1>2, <2>1, <2>5, <2>6, PageKept
<1>6. ASSUME NEW r \in Rows \cup {None}
      PROVE  /\ Fetching(r) \in HandlerState /\ Fetching(r).step = "fetch"
             /\ Overriding(Fetching(r), server)
  BY DEF Fetching, Idle, HandlerState, Step, Overriding
<1>7. ASSUME NEW h \in Handlers, OverrideSaved(h) PROVE OverridesSound'
  <2>. DEFINE r == handler[h].row
              v == handler[h].data
              x == Fetching(r)
  <2>1. r \in Rows /\ v \in Nat /\ v <= server[r].version
    BY <1>1, <1>7 DEF OverrideSaved, Overriding
  <2>2. /\ handler' = [handler EXCEPT ![h] = x] /\ latest' = h
        /\ UNCHANGED <<now, server>> /\ editor' = closeOverride
        /\ told' = [told EXCEPT ![r] = v]
    BY <1>7 DEF OverrideSaved
  <2>3. x \in HandlerState /\ x.step = "fetch" /\ Overriding(x, server)
    BY <1>6, <2>1
  <2>. HIDE DEF x, r, v
  <2>4. EditorSound'
    BY <1>1, <2>2 DEF EditorSound, closeOverride
  <2>5. told' \in [Rows -> Nat] /\ \A q \in Rows : told'[q] <= server'[q].version
    BY <1>1, <2>1, <2>2
  <2>6. Types'
    BY <1>3, <2>2, <2>3, <2>4, <2>5 DEF Types
  <2>7. Bringing(handler'[latest'], told')
    BY <1>3, <2>2, <2>3 DEF Bringing
  <2>8. (\A q \in Rows : Covered(q))'
    BY <1>1, <2>2 DEF Covered
  <2>9. \A g \in Handlers : Overriding(handler'[g], server')
    BY <1>3, <2>2, <2>3
  <2>. QED
    BY <2>5, <2>6, <2>7, <2>8, <2>9 DEF OverridesSound
<1>8. ASSUME NEW h \in Handlers, Revalidate(h) PROVE OverridesSound'
  <2>. DEFINE x == Fetching(None)
  <2>1. /\ handler' = [handler EXCEPT ![h] = x] /\ latest' = h
        /\ UNCHANGED <<now, server, editor, told>>
    BY <1>8 DEF Revalidate
  <2>2. x \in HandlerState /\ x.step = "fetch" /\ Overriding(x, server)
    BY <1>6
  <2>. HIDE DEF x
  <2>3. Types'
    BY <1>1, <1>3, <2>1, <2>2 DEF Types, EditorSound
  <2>4. Bringing(handler'[latest'], told')
    BY <1>3, <2>1, <2>2 DEF Bringing
  <2>5. (\A q \in Rows : Covered(q))'
    BY <1>1, <2>1 DEF Covered
  <2>6. /\ \A g \in Handlers : Overriding(handler'[g], server')
        /\ \A q \in Rows : told'[q] <= server'[q].version
    BY <1>1, <1>3, <2>1, <2>2
  <2>. QED
    BY <2>3, <2>4, <2>5, <2>6 DEF OverridesSound
<1>9. ASSUME NEW h \in Handlers, PortfolioArrives(h) PROVE OverridesSound'
  <2>1. /\ handler' = [handler EXCEPT ![h] = Idle] /\ UNCHANGED <<now, server, told>>
        /\ handler[h].step = "fetched"
        /\ latest' = IF latest = h THEN None ELSE latest
        /\ cache' = IF Applies(h) THEN handler[h].data ELSE cache
        /\ retry' = IF handler[h].data = None THEN TRUE ELSE retry /\ ~Applies(h)
        /\ editor' = editor \/ editor' = [editor EXCEPT !.saving = FALSE]
    BY <1>9 DEF PortfolioArrives
  <2>2. Overriding(Idle, server)
    BY IdleTyped DEF Overriding
  <2>3. EditorSound'
    BY <1>1, <2>1 DEF EditorSound
  <2>4. Types'
    BY <1>1, <1>3, <2>1, <2>2, <2>3, IdleTyped DEF Types
  <2>5. /\ \A g \in Handlers : Overriding(handler'[g], server')
        /\ \A q \in Rows : told'[q] <= server'[q].version
    BY <1>1, <1>3, <2>1, <2>2, IdleTyped
  <2>6. (latest # None => Bringing(handler[latest], told))'
    <3>1. latest' # None => latest' = latest /\ latest # h
      BY <2>1
    <3>2. latest' # None => handler'[latest'] = handler[latest']
      BY <1>1, <1>3, <2>1, <2>2, <3>1, IdleTyped
    <3>. QED
      BY <1>1, <2>1, <3>1, <3>2 DEF Bringing
  <2>7. ASSUME NEW q \in Rows PROVE Covered(q)'
    <3>1. CASE latest = h /\ handler[h].data # None
      <4>1. cache' = handler[h].data /\ told' = told
        BY <2>1, <3>1 DEF Applies
      <4>2. handler[h].data[q].version >= told[q]
        BY <1>1, <2>1, <3>1 DEF Bringing
      <4>. QED
        BY <3>1, <4>1, <4>2 DEF Covered
    <3>2. CASE handler[h].data = None
      BY <2>1, <3>2 DEF Covered
    <3>3. CASE latest # h /\ handler[h].data # None
      <4>1. UNCHANGED <<cache, latest, told>> /\ (retry => retry')
        BY <2>1, <3>3 DEF Applies
      <4>2. Covered(q)
        BY DEF OverridesSound
      <4>. QED
        BY <4>1, <4>2 DEF Covered
    <3>. QED
      BY <3>1, <3>2, <3>3
  <2>. QED
    BY <2>4, <2>5, <2>6, <2>7 DEF OverridesSound
<1>10. ASSUME Reload PROVE OverridesSound'
  <2>1. /\ latest' = None /\ editor' = Closed /\ UNCHANGED <<now, server>>
        /\ told' = [r \in Rows |-> 0]
        /\ handler' = [h \in Handlers |-> IF handler[h].step = "sent"
                          THEN [handler[h] EXCEPT !.step = "orphan"] ELSE Idle]
    BY <1>10 DEF Reload
  <2>2. ASSUME NEW h \in Handlers
        PROVE  handler'[h] \in HandlerState /\ Overriding(handler'[h], server')
    <3>1. CASE handler[h].step = "sent"
      <4>1. handler[h] \in HandlerState /\ handler[h].row \in Rows
        BY <1>1, <3>1 DEF Overriding
      <4>2. handler'[h] = [handler[h] EXCEPT !.step = "orphan"]
        BY <2>1, <3>1
      <4>3. handler'[h] \in HandlerState /\ handler'[h].step = "orphan" /\ handler'[h].row \in Rows
        BY <4>1, <4>2 DEF HandlerState, Step
      <4>. QED
        BY <4>3 DEF Overriding
    <3>2. CASE handler[h].step # "sent"
      BY <2>1, <3>2, IdleTyped DEF Overriding
    <3>. QED
      BY <3>1, <3>2
  <2>3. handler' \in [Handlers -> HandlerState]
    BY <2>1, <2>2
  <2>4. EditorSound'
    BY <2>1 DEF EditorSound, Closed
  <2>5. Types'
    BY <1>1, <2>1, <2>3, <2>4 DEF Types
  <2>6. \A r \in Rows : told'[r] = 0 /\ told'[r] <= server'[r].version
    BY <1>1, <2>1
  <2>. QED
    BY <2>1, <2>2, <2>5, <2>6 DEF OverridesSound, Covered
<1>. QED
  BY <1>4, <1>5, <1>7, <1>8, <1>9, <1>10

LEMMA StepSound == OverridesSound /\ [Next]_vars => OverridesSound'
BY UserSteps, ServerSteps, PageSteps DEF Next, HandlerStep

\* A price the page was told to be saved is shown, or the newest request for
\* the portfolio will bring it, or SWR tries again: the order in which the
\* answers of overrides and requests arrive hides none (overridePrice then
\* mutate, app/dashboard/page.tsx, and SWR's rule that the newest request wins).
THEOREM NoOverrideIsHidden == Spec => []OverridesAreShown
<1>. QED
  BY InitSound, StepSound, SoundMeansShown, PTL DEF Spec

-----------------------------------------------------------------------------
(* The editor: what is typed, and for which row *)

\* The handler of an override that the page still waits for.
Saves(x) ==
    \/ x.step \in {"sent", "answered"}
    \/ x.step \in {"fetch", "fetched"} /\ x.row # None

TypedForRow == editor.value # None => editor.typed = editor.row

\* While an override is saved the input is disabled: it is empty, or holds the
\* price that was sent, for the row it was sent for.
Waited(x) ==
    /\ editor.saving
    /\ editor.value # None => x.step \in {"sent", "answered"} /\ x.row = editor.row

\* The inductive invariant of the editor: the page waits for one override.
OneSaves ==
    /\ \A h \in Handlers : Saves(handler[h]) => Waited(handler[h])
    /\ \A g, h \in Handlers : Saves(handler[g]) /\ Saves(handler[h]) => g = h

LEMMA IdleSavesNot == ~Saves(Idle) /\ ~Saves(Fetching(None))
BY DEF Saves, Idle, Fetching

LEMMA InitOneSaves == Init => TypedForRow /\ OneSaves
BY IdleSavesNot DEF Init, Closed, TypedForRow, OneSaves

\* Every step that changes a handler or the editor, other than loading the
\* page again: what the editor becomes, and the handler.
Steady(e) == e.saving = editor.saving /\ (e.value = None \/ (e.value = editor.value /\ e.row = editor.row
                                                            /\ e.typed = editor.typed))

LEMMA EditorKept ==
    ASSUME EditorSound, TypedForRow, OneSaves, UNCHANGED handler, Steady(editor')
    PROVE  TypedForRow' /\ OneSaves'
<1>1. editor'.value # None => editor.value # None /\ editor'.row = editor.row /\ editor'.typed = editor.typed
  BY DEF Steady
<1>2. TypedForRow'
  BY <1>1 DEF TypedForRow
<1>3. ASSUME NEW h \in Handlers, Saves(handler[h]) PROVE Waited(handler[h])'
  <2>1. Waited(handler[h])
    BY <1>3 DEF OneSaves
  <2>. QED
    BY <1>1, <2>1 DEF Waited, Steady
<1>4. \A h \in Handlers : Saves(handler'[h]) => Saves(handler[h])
  OBVIOUS
<1>. QED
  BY <1>2, <1>3, <1>4 DEF OneSaves, Saves

\* Handler h moves on, and waits for the override only if it did before.
LEMMA HandlerMovesOn ==
    ASSUME EditorSound, TypedForRow, OneSaves, Steady(editor'), NEW h \in Handlers, NEW x,
           handler \in [Handlers -> HandlerState], handler' = [handler EXCEPT ![h] = x],
           Saves(x) => /\ Saves(handler[h]) /\ x.row = handler[h].row
                       /\ \/ x.step \in {"sent", "answered"}
                          \/ handler[h].step \notin {"sent", "answered"}
                          \/ editor'.value = None
    PROVE  TypedForRow' /\ OneSaves'
<1>1. editor'.value # None => editor.value # None /\ editor'.row = editor.row /\ editor'.typed = editor.typed
  BY DEF Steady
<1>2. TypedForRow'
  BY <1>1 DEF TypedForRow
<1>3. handler'[h] = x /\ \A g \in Handlers : g # h => handler'[g] = handler[g]
  OBVIOUS
<1>4. \A g \in Handlers : Saves(handler'[g]) => Saves(handler[g])
  BY <1>3 DEF Saves
<1>5. ASSUME NEW g \in Handlers, Saves(handler'[g]) PROVE Waited(handler[g])'
  <2>1. Waited(handler[g])
    BY <1>4, <1>5 DEF OneSaves
  <2>2. g # h => handler'[g] = handler[g]
    BY <1>3
  <2>3. CASE g = h
    BY <1>1, <1>3, <1>5, <2>1, <2>3 DEF Waited, Steady
  <2>. QED
    BY <1>1, <2>1, <2>2, <2>3 DEF Waited, Steady
<1>. QED
  BY <1>2, <1>4, <1>5 DEF OneSaves, Saves

\* The page waits for no override any more, or for none yet but that of h.
LEMMA SavesAfresh ==
    ASSUME TypedForRow', NEW h \in Handlers, \A g \in Handlers : g # h => ~Saves(handler'[g]),
           Saves(handler'[h]) => Waited(handler[h])'
    PROVE  OneSaves'
BY DEF OneSaves, Saves

LEMMA EditorSteps ==
    ASSUME OverridesSound, TypedForRow, OneSaves, [Next]_vars
    PROVE  TypedForRow' /\ OneSaves'
<1>1. EditorSound /\ handler \in [Handlers -> HandlerState]
  BY DEF OverridesSound, Types
<1>. USE <1>1
<1>2. ASSUME ~editor.saving PROVE \A h \in Handlers : ~Saves(handler[h])
  BY <1>2 DEF OneSaves, Waited
<1>3. CASE UNCHANGED <<handler, editor>>
  BY <1>3, EditorKept DEF Steady
<1>4. ASSUME NEW r \in Rows, openOverride(r) PROVE TypedForRow' /\ OneSaves'
  <2>1. editor'.value = None /\ editor'.saving = editor.saving /\ UNCHANGED handler
    BY <1>4 DEF openOverride, Opened, EditorSound
  <2>. QED
    BY <2>1, EditorKept DEF Steady
<1>5. ASSUME NEW v \in Entered, Type(v) PROVE TypedForRow' /\ OneSaves'
  <2>1. editor'.typed = editor.row /\ editor'.row = editor.row /\ ~editor.saving /\ UNCHANGED handler
    BY <1>5 DEF Type, InputEnabled, EditorSound
  <2>. QED
    BY <1>2, <2>1 DEF TypedForRow, OneSaves, Saves
<1>6. CASE Escape
  <2>1. editor'.value = None /\ editor'.saving = editor.saving /\ UNCHANGED handler
    BY <1>6 DEF Escape, closeOverride, EditorSound
  <2>. QED
    BY <2>1, EditorKept DEF Steady
<1>7. CASE RefuseOverride
  <2>1. /\ editor'.value = editor.value /\ editor'.saving = editor.saving
        /\ editor'.row = editor.row /\ editor'.typed = editor.typed /\ UNCHANGED handler
    BY <1>7 DEF RefuseOverride, EditorSound
  <2>. QED
    BY <2>1, EditorKept DEF Steady
<1>8. ASSUME NEW h \in Handlers, saveOverride(h) PROVE TypedForRow' /\ OneSaves'
  <2>1. /\ handler' = [handler EXCEPT ![h] = Sending(editor.row, editor.value)] /\ ~editor.saving
        /\ editor' = [editor EXCEPT !.error = FALSE, !.saving = TRUE]
    BY <1>8 DEF saveOverride, CanSave
  <2>2. /\ handler'[h].step = "sent" /\ handler'[h].row = editor.row
        /\ \A g \in Handlers : g # h => handler'[g] = handler[g]
    BY <2>1 DEF Sending, Idle
  <2>3. /\ editor'.saving /\ editor'.value = editor.value /\ editor'.row = editor.row
        /\ editor'.typed = editor.typed
    BY <2>1 DEF EditorSound
  <2>4. TypedForRow' /\ Waited(handler[h])'
    BY <2>2, <2>3 DEF TypedForRow, Waited
  <2>5. \A g \in Handlers : g # h => ~Saves(handler'[g])
    BY <1>2, <2>1, <2>2
  <2>. QED
    BY <2>4, <2>5, SavesAfresh
<1>9. ASSUME NEW h \in Handlers, ServerOverride(h) \/ ServerRefuses(h) \/ ServerRead(h) \/ Lose(h)
      PROVE  TypedForRow' /\ OneSaves'
  <2>1. handler' = [handler EXCEPT ![h] = handler'[h]] /\ UNCHANGED editor
    BY <1>9 DEF ServerOverride, ServerRefuses, ServerRead, Lose
  <2>2. PICK x : handler' = [handler EXCEPT ![h] = x]
    BY <2>1
  <2>3. x = handler'[h] /\ handler[h] \in HandlerState
    BY <2>2
  <2>4. \/ x = Idle
        \/ /\ x.row = handler[h].row
           /\ \/ handler[h].step \in {"sent", "answered"} /\ x.step = "answered"
              \/ handler[h].step = "fetch" /\ x.step = "fetched"
    <3>1. CASE ServerOverride(h)
      BY <2>3, <3>1 DEF ServerOverride, HandlerState
    <3>2. CASE ServerRefuses(h)
      BY <2>3, <3>2 DEF ServerRefuses, HandlerState
    <3>3. CASE ServerRead(h)
      BY <2>3, <3>3 DEF ServerRead, HandlerState
    <3>4. CASE Lose(h)
      BY <2>3, <3>4 DEF Lose, HandlerState
    <3>. QED
      BY <1>9, <3>1, <3>2, <3>3, <3>4
  <2>5. Saves(x) => /\ Saves(handler[h]) /\ x.row = handler[h].row
                    /\ x.step \in {"sent", "answered"} \/ handler[h].step \notin {"sent", "answered"}
    BY <2>4, IdleSavesNot DEF Saves
  <2>6. Steady(editor')
    BY <2>1 DEF Steady
  <2>. QED
    BY <2>2, <2>5, <2>6, HandlerMovesOn
<1>10. ASSUME NEW h \in Handlers, OverrideSaved(h) PROVE TypedForRow' /\ OneSaves'
  <2>1. /\ handler[h].step = "answered" /\ handler' = [handler EXCEPT ![h] = Fetching(handler[h].row)]
        /\ editor' = closeOverride
    BY <1>10 DEF OverrideSaved
  <2>2. editor'.value = None /\ editor'.saving = editor.saving
    BY <2>1 DEF closeOverride, EditorSound
  <2>3. Fetching(handler[h].row).row = handler[h].row /\ Saves(handler[h])
    BY <2>1 DEF Fetching, Idle, Saves
  <2>4. Steady(editor')
    BY <2>2 DEF Steady
  <2>. QED
    BY <2>1, <2>2, <2>3, <2>4, HandlerMovesOn
<1>11. ASSUME NEW h \in Handlers, Saves(handler[h]), handler' = [handler EXCEPT ![h] = Idle],
              editor'.value = editor.value, editor'.row = editor.row, editor'.typed = editor.typed
       PROVE  TypedForRow' /\ OneSaves'
  <2>1. handler'[h] = Idle /\ \A g \in Handlers : g # h => handler'[g] = handler[g]
    BY <1>11
  <2>2. \A g \in Handlers : ~Saves(handler'[g])
    <3>1. \A g \in Handlers : g # h => ~Saves(handler[g])
      BY <1>11 DEF OneSaves
    <3>. QED
      BY <2>1, <3>1, IdleSavesNot
  <2>3. TypedForRow'
    BY <1>11 DEF TypedForRow
  <2>. QED
    BY <2>2, <2>3, SavesAfresh
<1>12. ASSUME NEW h \in Handlers, OverrideFailed(h) PROVE TypedForRow' /\ OneSaves'
  <2>1. /\ handler[h].step = "answered" /\ handler' = [handler EXCEPT ![h] = Idle]
        /\ editor' = [editor EXCEPT !.error = TRUE, !.saving = FALSE]
    BY <1>12 DEF OverrideFailed, AfterFailure
  <2>2. editor'.value = editor.value /\ editor'.row = editor.row /\ editor'.typed = editor.typed
    BY <2>1 DEF EditorSound
  <2>. QED
    BY <1>11, <2>1, <2>2 DEF Saves
<1>13. ASSUME NEW h \in Handlers, Revalidate(h) PROVE TypedForRow' /\ OneSaves'
  <2>1. handler' = [handler EXCEPT ![h] = Fetching(None)] /\ UNCHANGED editor
    BY <1>13 DEF Revalidate
  <2>2. Steady(editor')
    BY <2>1 DEF Steady
  <2>. QED
    BY <2>1, <2>2, IdleSavesNot, HandlerMovesOn
<1>14. ASSUME NEW h \in Handlers, PortfolioArrives(h) PROVE TypedForRow' /\ OneSaves'
  <2>1. /\ handler[h].step = "fetched" /\ handler' = [handler EXCEPT ![h] = Idle]
        /\ editor' = IF handler[h].row = None THEN editor ELSE [editor EXCEPT !.saving = FALSE]
    BY <1>14 DEF PortfolioArrives
  <2>2. CASE handler[h].row = None
    <3>1. Steady(editor')
      BY <2>1, <2>2 DEF Steady
    <3>. QED
      BY <2>1, <3>1, IdleSavesNot, HandlerMovesOn
  <2>3. CASE handler[h].row # None
    <3>1. editor'.value = editor.value /\ editor'.row = editor.row /\ editor'.typed = editor.typed
      BY <2>1, <2>3 DEF EditorSound
    <3>. QED
      BY <1>11, <2>1, <2>3, <3>1 DEF Saves
  <2>. QED
    BY <2>2, <2>3
<1>15. CASE Reload
  <2>1. editor' = Closed /\ handler' = [h \in Handlers |-> IF handler[h].step = "sent"
                     THEN [handler[h] EXCEPT !.step = "orphan"] ELSE Idle]
    BY <1>15 DEF Reload
  <2>2. TypedForRow'
    BY <2>1 DEF TypedForRow, Closed
  <2>3. ASSUME NEW h \in Handlers PROVE ~Saves(handler'[h])
    <3>1. handler'[h] = Idle \/ handler'[h].step = "orphan"
      BY <2>1 DEF HandlerState
    <3>. QED
      BY <3>1, IdleSavesNot DEF Saves
  <2>. QED
    BY <2>2, <2>3, SavesAfresh DEF OneSaves, Saves
<1>16. \/ UNCHANGED <<handler, editor>> \/ Escape \/ RefuseOverride \/ Reload
       \/ \E r \in Rows : openOverride(r)
       \/ \E v \in Entered : Type(v)
       \/ \E h \in Handlers : \/ saveOverride(h) \/ Revalidate(h) \/ OverrideSaved(h) \/ OverrideFailed(h)
                              \/ PortfolioArrives(h)
                              \/ ServerOverride(h) \/ ServerRefuses(h) \/ ServerRead(h) \/ Lose(h)
  BY DEF Next, HandlerStep, handleSort, RefreshPrice, Clock, vars
<1>. QED
  BY <1>3, <1>4, <1>5, <1>6, <1>7, <1>8, <1>9, <1>10, <1>12, <1>13, <1>14, <1>15, <1>16

EditorInv == OverridesSound /\ TypedForRow /\ OneSaves /\ reloads \in Nat

LEMMA InitEditor == Init => EditorInv
BY InitSound, InitOneSaves DEF EditorInv, Init

LEMMA StepEditor == EditorInv /\ [Next]_vars => EditorInv'
<1>1. ASSUME reloads \in Nat, [Next]_vars PROVE reloads' \in Nat
  <2>1. reloads' = reloads \/ reloads' = reloads + 1
    BY <1>1, Zenon DEF Next, HandlerStep, handleSort, openOverride, RefreshPrice, Type, Escape, RefuseOverride,
                       saveOverride, OverrideSaved, OverrideFailed, Revalidate, PortfolioArrives,
                       ServerOverride, ServerRefuses, ServerRead, Lose, Reload, Clock, bounds, vars
  <2>. QED
    BY <1>1, <2>1
<1>. QED
  BY <1>1, StepSound, EditorSteps DEF EditorInv

\* A handler begins to send in saveOverride alone.
LEMMA SendsTyped ==
    ASSUME EditorInv, [Next]_vars, NEW h \in Handlers, handler[h] = Idle, handler'[h].step = "sent"
    PROVE  handler'[h].row = editor.typed
<1>1. handler \in [Handlers -> HandlerState] /\ Idle.step = "idle"
  BY IdleTyped DEF EditorInv, OverridesSound, Types
<1>2. ASSUME NEW g \in Handlers, NEW x, handler' = [handler EXCEPT ![g] = x], x.step # "sent" PROVE FALSE
  BY <1>1, <1>2
<1>3. handler' # handler
  BY <1>1
<1>4. ASSUME NEW g \in Handlers, HandlerStep(g) \/ Lose(g) PROVE FALSE
  <2>1. handler[g].step \in {"sent", "orphan", "answered", "fetch", "fetched"}
    BY <1>4 DEF HandlerStep, Lose, ServerOverride, ServerRefuses, ServerRead, OverrideSaved,
                OverrideFailed, PortfolioArrives
  <2>2. g # h
    BY <1>1, <2>1
  <2>3. handler'[h] = handler[h]
    BY <1>1, <1>4, <2>2 DEF HandlerStep, Lose, ServerOverride, ServerRefuses, ServerRead, OverrideSaved,
                OverrideFailed, PortfolioArrives
  <2>. QED
    BY <1>1, <2>3
<1>5. ASSUME NEW g \in Handlers, Revalidate(g) PROVE FALSE
  BY <1>2, <1>5 DEF Revalidate, Fetching, Idle
<1>6. ~Reload
  BY <1>1 DEF Reload
<1>7. PICK g \in Handlers : saveOverride(g)
  BY <1>3, <1>4, <1>5, <1>6, Zenon DEF Next, handleSort, openOverride, RefreshPrice, Type, Escape, RefuseOverride,
                                Clock, vars
<1>8. handler' = [handler EXCEPT ![g] = Sending(editor.row, editor.value)] /\ editor.value # None
  BY <1>7 DEF saveOverride, Invalid
<1>9. g = h /\ handler'[h].row = editor.row
  BY <1>1, <1>8 DEF Sending, Idle
<1>. QED
  BY <1>8, <1>9 DEF EditorInv, TypedForRow

\* The editor is emptied by Escape, which the user presses in an input that
\* is enabled, and by the answer of the override it waits for.
LEMMA EmptiedByUserOrAnswer ==
    ASSUME EditorInv, [Next]_vars, editor.value # None, editor'.value = None, editor'.row = None,
           reloads' = reloads, editor.saving
    PROVE  \E h \in Handlers : handler[h].step = "answered" /\ handler[h].row = editor.row
<1>2. EditorSound /\ handler \in [Handlers -> HandlerState] /\ None \notin Rows
  BY DashboardAssumption DEF EditorInv, OverridesSound, Types
<1>3. editor'.value # editor.value
  OBVIOUS
<1>4. ~(\E r \in Rows : openOverride(r)) /\ ~(\E v \in Entered : Type(v)) /\ ~Escape
  <2>1. ASSUME NEW r \in Rows, openOverride(r) PROVE FALSE
    <3>1. editor'.row = r /\ r # None
      BY <1>2, <2>1 DEF openOverride, Opened, EditorSound
    <3>. QED
      BY <3>1
  <2>2. ASSUME NEW v \in Entered, Type(v) PROVE FALSE
    BY <2>2 DEF Type, InputEnabled
  <2>3. ~Escape
    BY DEF Escape, InputEnabled
  <2>. QED
    BY <2>1, <2>2, <2>3
<1>5. ~RefuseOverride /\ ~(\E h \in Handlers : saveOverride(h) \/ OverrideFailed(h) \/ PortfolioArrives(h))
  BY <1>2, <1>3 DEF RefuseOverride, saveOverride, OverrideFailed, AfterFailure, PortfolioArrives, EditorSound
<1>6. ~Reload
  BY DEF Reload, EditorInv
<1>7. PICK h \in Handlers : OverrideSaved(h)
  BY <1>3, <1>4, <1>5, <1>6, Zenon DEF Next, HandlerStep, handleSort, RefreshPrice, Revalidate, ServerOverride,
                                       ServerRefuses, ServerRead, Lose, Clock, vars
<1>8. handler[h].step = "answered" /\ Waited(handler[h])
  BY <1>7 DEF OverrideSaved, EditorInv, OneSaves, Saves
<1>. QED
  BY <1>8 DEF Waited

\* A price goes to the server for the row whose badge was open while it was
\* typed: openOverride empties the input, so nothing that was typed for one
\* row is sent for another (overrideCode, overrideValue and saveOverride,
\* app/dashboard/page.tsx).
THEOREM PricesGoToTheirRow == Spec => SentForItsRow
<1>1. EditorInv /\ [Next]_vars =>
        [\A h \in Handlers : handler[h] = Idle /\ handler'[h].step = "sent" => handler'[h].row = editor.typed]_vars
  BY SendsTyped
<1>. QED
  BY <1>1, InitEditor, StepEditor, PTL DEF Spec, SentForItsRow

\* An answer that closes the editor while it is used is the answer it waits
\* for: while an override is saved the input is disabled, the badge of another
\* row empties it, and only one override is under way (overrideSaving and the
\* handler of saveOverride, app/dashboard/page.tsx).
THEOREM TypedTextIsKept == Spec => TypedIsKept
<1>1. EditorInv /\ [Next]_vars =>
        [editor.value # None /\ editor'.value = None /\ editor'.row = None /\ reloads' = reloads =>
           \/ ~editor.saving
           \/ \E h \in Handlers : handler[h].step = "answered" /\ handler[h].row = editor.row]_vars
  BY EmptiedByUserOrAnswer
<1>. QED
  BY <1>1, InitEditor, StepEditor, PTL DEF Spec, TypedIsKept

-----------------------------------------------------------------------------
(* The table: rows without a price *)

\* What SWR's copy is, and what the server has read for it.
TableSound ==
    /\ sort \in Sort /\ cache \in {None} \cup Portfolio
    /\ \A h \in Handlers : handler[h].step = "fetched" => handler[h].data \in {None} \cup Portfolio

LEMMA InitTable == Init => TableSound
BY IdleTyped DEF Init, TableSound, DEFAULT_SORT, Sort, Keys

LEMMA StepTable ==
    ASSUME OverridesSound, TableSound, [Next]_vars
    PROVE  TableSound'
<1>1. server \in Portfolio /\ handler \in [Handlers -> HandlerState]
  BY DEF OverridesSound, Types
<1>2. sort' \in Sort
  <2>1. \A s \in Sort : s.key \in Keys /\ s.dir \in {1, -1}
    BY DEF Sort
  <2>2. CASE \E key \in Keys : handleSort(key)
    <3>1. PICK key \in Keys : handleSort(key)
      BY <2>2
    <3>2. sort.dir \in {1, -1}
      BY <2>1 DEF TableSound
    <3>3. -sort.dir \in {1, -1}
      BY <3>2
    <3>4. sort' = [key |-> key, dir |-> -sort.dir] \/ sort' = [key |-> key, dir |-> 1]
          \/ sort' = [key |-> key, dir |-> -1]
      BY <3>1 DEF handleSort
    <3>. QED
      BY <3>3, <3>4 DEF Sort
  <2>3. CASE ~(\E key \in Keys : handleSort(key))
    <3>1. UNCHANGED sort
      BY <2>3, Zenon DEF Next, HandlerStep, openOverride, RefreshPrice, Type, Escape, RefuseOverride, saveOverride,
                  OverrideSaved, OverrideFailed, Revalidate, PortfolioArrives, ServerOverride, ServerRefuses,
                  ServerRead, Lose, Reload, Clock, page, vars
    <3>. QED
      BY <3>1 DEF TableSound
  <2>. QED
    BY <2>2, <2>3
<1>3. cache' \in {None} \cup Portfolio
  <2>1. CASE Reload
    BY <2>1 DEF Reload
  <2>2. ASSUME NEW h \in Handlers, PortfolioArrives(h) PROVE cache' \in {None} \cup Portfolio
    BY <2>2 DEF PortfolioArrives, Applies, TableSound
  <2>3. CASE ~Reload /\ ~\E h \in Handlers : PortfolioArrives(h)
    <3>1. UNCHANGED cache
      BY <2>3, Zenon DEF Next, HandlerStep, handleSort, openOverride, RefreshPrice, Type, Escape, RefuseOverride,
                  saveOverride, OverrideSaved, OverrideFailed, Revalidate, ServerOverride, ServerRefuses,
                  ServerRead, Lose, Clock, page, vars
    <3>. QED
      BY <3>1 DEF TableSound
  <2>. QED
    BY <2>1, <2>2, <2>3
<1>4. ASSUME NEW h \in Handlers, handler'[h].step = "fetched"
      PROVE  handler'[h].data \in {None} \cup Portfolio
  <2>1. CASE handler'[h] = handler[h]
    BY <1>4, <2>1 DEF TableSound
  <2>2. ASSUME NEW g \in Handlers, NEW x, handler' = [handler EXCEPT ![g] = x],
               x.step = "fetched" => x.data \in {None} \cup Portfolio
        PROVE  handler'[h].data \in {None} \cup Portfolio
    BY <1>1, <1>4, <2>2 DEF TableSound
  <2>3. \A r : Fetching(r).step = "fetch" /\ Idle.step = "idle"
    BY DEF Fetching, Idle
  <2>4. ASSUME NEW g \in Handlers,
               saveOverride(g) \/ OverrideSaved(g) \/ OverrideFailed(g) \/ Revalidate(g) \/ PortfolioArrives(g)
        PROVE  handler'[h].data \in {None} \cup Portfolio
    <3>1. \A r, p : Sending(r, p).step = "sent"
      BY DEF Sending, Idle
    <3>2. \/ handler' = [handler EXCEPT ![g] = Sending(editor.row, editor.value)]
          \/ handler' = [handler EXCEPT ![g] = Fetching(handler[g].row)]
          \/ handler' = [handler EXCEPT ![g] = Fetching(None)]
          \/ handler' = [handler EXCEPT ![g] = Idle]
      BY <2>4 DEF saveOverride, OverrideSaved, OverrideFailed, Revalidate, PortfolioArrives
    <3>. QED
      BY <2>2, <2>3, <3>1, <3>2
  <2>5. ASSUME NEW g \in Handlers, ServerOverride(g) \/ ServerRefuses(g) \/ ServerRead(g) \/ Lose(g)
        PROVE  handler'[h].data \in {None} \cup Portfolio
    <3>1. handler[g] \in HandlerState /\ \A k \in Handlers : k # g => handler'[k] = handler[k]
      BY <1>1, <2>5 DEF ServerOverride, ServerRefuses, ServerRead, Lose
    <3>2. CASE ServerOverride(g) \/ ServerRefuses(g)
      <4>1. PICK x : handler' = [handler EXCEPT ![g] = x]
        BY <3>2 DEF ServerOverride, ServerRefuses
      <4>2. x = handler'[g]
        BY <1>1, <4>1
      <4>3. handler'[g] = Idle \/ handler'[g].step = "answered"
        <5>1. CASE ServerOverride(g)
          BY <1>1, <3>1, <5>1 DEF ServerOverride, HandlerState
        <5>2. CASE ServerRefuses(g)
          BY <1>1, <3>1, <5>2 DEF ServerRefuses, HandlerState
        <5>. QED
          BY <3>2, <5>1, <5>2
      <4>. QED
        BY <2>2, <2>3, <4>1, <4>2, <4>3
    <3>3. CASE ServerRead(g)
      BY <1>1, <1>4, <2>1, <3>1, <3>3 DEF ServerRead, HandlerState
    <3>4. CASE Lose(g)
      BY <1>1, <1>4, <2>1, <3>1, <3>4 DEF Lose, HandlerState
    <3>. QED
      BY <2>5, <3>2, <3>3, <3>4
  <2>6. CASE Reload
    <3>1. handler'[h] = Idle \/ handler'[h].step = "orphan"
      BY <1>1, <2>6 DEF Reload, HandlerState
    <3>. QED
      BY <1>4, <2>3, <3>1
  <2>7. \/ UNCHANGED handler \/ Reload
        \/ \E g \in Handlers : \/ saveOverride(g) \/ Revalidate(g) \/ OverrideSaved(g) \/ OverrideFailed(g)
                               \/ PortfolioArrives(g)
                               \/ ServerOverride(g) \/ ServerRefuses(g) \/ ServerRead(g) \/ Lose(g)
    BY Zenon DEF Next, HandlerStep, handleSort, openOverride, RefreshPrice, Type, Escape, RefuseOverride, Clock, vars
  <2>. QED
    BY <2>1, <2>4, <2>5, <2>6, <2>7
<1>. QED
  BY <1>2, <1>3, <1>4 DEF TableSound

\* Whatever is above a row with a price is above every row without one, and
\* so is the row itself.
LEMMA PricedAbove ==
    ASSUME TableSound, cache # None, sort.key = "price",
           NEW r \in Rows, NEW q \in Rows, cache[r].price # None, cache[q].price = None
    PROVE  /\ Above(r, q) /\ ~Above(r, r)
           /\ \A p \in Rows : Above(p, r) => Above(p, q)
<1>1. /\ \A p \in Rows : cache[p].price \in Nat \cup {None}
      /\ Served \in [Rows -> Nat] /\ sort.dir \in {1, -1}
  BY DashboardAssumption DEF TableSound, Portfolio, Price, Sort
<1>2. \A p \in Rows : sortValue(p) = cache[p].price
  BY DEF sortValue
<1>3. \A p \in Rows : cache[p].price # None => compareRows(p, q) = -1
  BY <1>2 DEF compareRows, compare
<1>4. \A p \in Rows : cache[p].price = None => compareRows(p, r) = 1
  BY <1>2 DEF compareRows, compare
<1>5. compareRows(r, r) = 0
  <2>1. compareRows(r, r) = sort.dir * Sign(cache[r].price, cache[r].price)
    BY <1>2 DEF compareRows, compare
  <2>2. Sign(cache[r].price, cache[r].price) = 0
    BY <1>1 DEF Sign
  <2>. QED
    BY <1>1, <2>1, <2>2
<1>6. Above(r, q)
  BY <1>3 DEF Above
<1>7. ~Above(r, r)
  BY <1>1, <1>5 DEF Above
<1>8. ASSUME NEW p \in Rows, Above(p, r) PROVE Above(p, q)
  <2>1. cache[p].price # None
    BY <1>4, <1>8 DEF Above
  <2>. QED
    BY <1>3, <2>1 DEF Above
<1>. QED
  BY <1>6, <1>7, <1>8

LEMMA TableOrdered == TableSound => UnpricedLast
<1>. SUFFICES ASSUME TableSound, cache # None, sort.key = "price",
                     NEW r \in Rows, NEW q \in Rows, cache[r].price # None, cache[q].price = None
              PROVE  Line(r) < Line(q)
  BY DEF UnpricedLast
<1>. DEFINE A == {p \in Rows : Above(p, r)}
            B == {p \in Rows : Above(p, q)}
<1>1. A \subseteq B /\ r \in B /\ r \notin A
  BY PricedAbove
<1>2. IsFiniteSet(B)
  BY DashboardAssumption, FS_Subset
<1>3. Line(r) = 1 + Cardinality(A) /\ Line(q) = 1 + Cardinality(B)
  BY DEF Line
<1>. HIDE DEF A, B
<1>4. A \in SUBSET B /\ A # B
  BY <1>1
<1>5. IsFiniteSet(A) /\ Cardinality(A) <= Cardinality(B) /\ Cardinality(A) # Cardinality(B)
  BY <1>2, <1>4, FS_Subset
<1>6. Cardinality(A) \in Nat /\ Cardinality(B) \in Nat
  BY <1>2, <1>5, FS_CardinalityType
<1>. QED
  BY <1>3, <1>5, <1>6

\* A row without a price is shown below every row with one, for every order of
\* the answer, whichever way the column is sorted and whatever prices come and
\* go (compareRows and the stable sort of app/dashboard/page.tsx).
THEOREM RowsWithoutPriceAreLast == Spec => []UnpricedLast
<1>1. Init => OverridesSound /\ TableSound
  BY InitSound, InitTable
<1>2. OverridesSound /\ TableSound /\ [Next]_vars => (OverridesSound /\ TableSound)'
  BY StepSound, StepTable
<1>. QED
  BY <1>1, <1>2, TableOrdered, PTL DEF Spec
=============================================================================
