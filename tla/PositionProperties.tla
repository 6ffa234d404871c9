------------------------- MODULE PositionProperties -------------------------
(* What the position page promises. *)
EXTENDS PositionPage

Forms == [shares : Nat, base : Nat, version : Nat, conflict : BOOLEAN,
          submitting : BOOLEAN, refreshing : BOOLEAN]
HandlerStates ==
    [op : {"idle", "save", "refresh", "delete", "revalidate"}, row : Entities,
     shares : Nat, base : Nat, version : Nat, own : BOOLEAN, step : Steps,
     outcome : {"none", "ok", "conflict", "refused", "lost"}, data : Snapshot \cup {None}]

\* The type invariant.
TypeOK ==
    /\ server \in Snapshot /\ cache \in Snapshot
    /\ latest \in Handlers \cup {None} /\ retry \in BOOLEAN
    /\ editing \in [Kinds -> Rows \cup {None}]
    /\ deleting \in [ConfirmKinds -> Entities \cup {None}]
    /\ form \in [Kinds -> Forms] /\ confirming \in [ConfirmKinds -> BOOLEAN]
    /\ handler \in [Handlers -> HandlerStates]
    /\ told \in [Rows -> Nat] /\ onPage \in BOOLEAN /\ faults \in Nat

\* A save the server accepts replaces exactly what its dialog's fields were
\* loaded with: whatever revalidations, refreshes, cancelled dialogs and edits
\* of other sessions came in between, no edit is overwritten unseen.
NoLostUpdate ==
    [][\A t \in Handlers :
         handler[t].step = "sent" /\ handler'[t].outcome = "ok" /\ handler[t].op = "save" =>
           server[handler[t].row].shares = handler[t].base]_vars

\* The page never shows an older state of a row after a newer one, and never
\* brings a deleted row back, in whatever order the answers to overlapping
\* requests for the position come.
NoOlder(c, d) ==
    \A e \in Entities : c[e].version <= d[e].version /\ (d[e].live => c[e].live)
CacheNeverGoesBack == [][NoOlder(cache, cache')]_vars

\* A button is disabled as "Saving", "Refreshing" or "Deleting" only while a
\* handler of that very dialog is under way, which will enable it again.
BusyHasHandler ==
    /\ \A k \in Kinds : form[k].submitting =>
         \E t \in Handlers : handler[t].own /\ handler[t].op = "save" /\ handler[t].row = editing[k]
    /\ \A k \in Kinds : form[k].refreshing =>
         \E t \in Handlers : handler[t].own /\ handler[t].op = "refresh" /\ handler[t].row = editing[k]
    /\ \A k \in ConfirmKinds : confirming[k] =>
         \E t \in Handlers : handler[t].own /\ handler[t].op = "delete" /\ KindOf(handler[t].row) = k

\* A save the page has been told of is shown, or will be: then the newest
\* request for the position will bring it, or SWR is about to try again.
\* Requests that supersede each other and requests that fail do not lose it.
WillBring(t, r) ==
    \/ handler[t].step = "fetch" \/ handler[t].data = None
    \/ handler[t].data[r].version >= told[r]
SavesAreShown ==
    onPage => \A r \in Rows :
        \/ cache[r].version >= told[r] \/ retry
        \/ latest # None /\ WillBring(latest, r)
=============================================================================
