--------------------------- MODULE JournaledTable ---------------------------
(***************************************************************************)
(* What the portfolio's handlers promise of one table and its audit log: a *)
(* row and the event that tells of it are written together, once, and an   *)
(* edit logs what the row really held.  Several requests may read, wait    *)
(* and write, but each write is one of these four.                         *)
(***************************************************************************)
EXTENDS Integers, Sequences

CONSTANTS
    Id,             \* keys of the rows
    Owner,          \* keys of the positions they belong to
    Content,        \* the terms of a row
    None,
    Created, Updated, Removed,   \* the actions of the log's events
    Carried(_, _)   \* what an event of an action tells of a row's terms

VARIABLES table, log

vars == <<table, log>>

Stored == {i \in Id : table[i] # None}

Tell(i, action, old, new) ==
    log' = [log EXCEPT ![i] = Append(@, [action |-> action, old |-> old, new |-> new])]

Init ==
    /\ table = [i \in Id |-> None]
    /\ log = [i \in Id |-> <<>>]

Create(i, owner, terms) ==
    /\ i \notin Stored
    /\ table' = [table EXCEPT ![i] = [position |-> owner, terms |-> terms,
                                      version |-> 1, deleted |-> FALSE]]
    /\ Tell(i, Created, None, Carried(Created, terms))

\* The event's old terms are those the row holds at that very moment, and its
\* version counts the edits.
Edit(i, terms) ==
    /\ i \in Stored
    /\ table' = [table EXCEPT ![i].terms = terms, ![i].version = @ + 1]
    /\ Tell(i, Updated, Carried(Updated, table[i].terms), Carried(Updated, terms))

\* What a deletion tells of the row may be out of date: it was read earlier.
Remove(i, seen) ==
    /\ i \in Stored
    /\ table' = [table EXCEPT ![i].deleted = TRUE]
    /\ Tell(i, Removed, Carried(Removed, seen), None)

\* Rows that go with the position they belong to leave no event of their own.
RemoveAll(owner, S) ==
    /\ \A i \in S : table[i].position = owner
    /\ table' = [i \in Id |-> IF i \in S THEN [table[i] EXCEPT !.deleted = TRUE]
                                         ELSE table[i]]
    /\ UNCHANGED log

Next ==
    \/ \E owner \in Owner, S \in SUBSET Stored : RemoveAll(owner, S)
    \/ \E i \in Id, terms \in Content :
         \/ \E owner \in Owner : Create(i, owner, terms)
         \/ Edit(i, terms)
         \/ Remove(i, terms)

Spec == Init /\ [][Next]_vars
=============================================================================
