-------------------------- MODULE PriceProperties --------------------------
(***************************************************************************)
(* What PriceRefresh must guarantee.                                       *)
(***************************************************************************)
EXTENDS PriceRefresh

-----------------------------------------------------------------------------
(* The lock *)

\* A run in progress keeps every other run out, from the moment it has taken
\* the lock until it releases it (try_acquire_price_refresh_lock).
Working == {r \in Runs : run[r].at \in InCharge}

OneRunAtATime == \A r, q \in Working : r = q

\* The one way out of it: a run that was cancelled has released the lock, and
\* another has taken it before main releases it a second time.
SecondReleaseApart == (\E r \in Runs : run[r].at = "releasing_again") => Working = {}

\* HIGH-R-004: whatever crashes, fails or is cancelled, two runs work at the
\* same time only after such a second release.
LockExcludes == []SecondReleaseApart => []OneRunAtATime

\* The inductive invariant behind it: the run in charge wrote the lock and
\* is not older than the timeout, and nobody has asked later than now.
InChargeIsFresh ==
    /\ \A r \in Runs : run[r].asked <= now
    /\ \A r \in Runs : run[r].at \in Asking => run[r].asked = now
    /\ \A r \in Working : lock = run[r].asked /\ now <= run[r].asked + Timeout
    /\ OneRunAtATime

\* Runs that have taken the lock: those that crashed may have.
HasTaken(r) ==
    run[r].at \in InCharge \cup {"releasing_again", "done", "failed", "crashed"}

\* A lock that nobody released, because its run was killed, cancelled inside
\* a statement or ended by a failed flush, blocks for Ttl hours and no longer:
\* a run on a trading day is skipped only if another has taken the lock at
\* most that long before (try_acquire_price_refresh_lock, run_price_refresh).
SkipIsJustified ==
    [][\A r \in Runs :
          run[r].at \in Asking /\ run'[r].at = "skipped" =>
             \E q \in Runs \ {r} :
                HasTaken(q) /\ run[r].asked <= run[q].asked + Ttl]_vars

\* Every run that starts ends, although the provider may never answer.
RunsEnd == \A r \in Runs : (run[r].at \in Asking \cup InCharge) ~> (run[r].at \in Ended)

-----------------------------------------------------------------------------
(* The prices *)

\* The inductive invariant behind TypeOK: what a session is about to write
\* can be written.  An UPDATE has a row to change, an INSERT sets every
\* column, and a stock that is written has a fetched price.
Complete(w) == w.insert => w.set \in Snapshot

SoundSession(q, d, snaps) ==
    /\ \A s \in q.todo : q.fetched[s] # None
    /\ q.at = "looking_up" =>
         /\ q.current \in q.todo
         /\ q.loaded # None => snaps[<<q.current, d>>] # None
    /\ \A s \in Stocks : q.writes[s] # None =>
         Complete(q.writes[s]) /\ (q.writes[s].insert \/ snaps[<<s, d>>] # None)
    /\ \A s \in Stocks : s \in q.flushed \/ s = q.pending => q.writes[s] # None

SoundOverride(o, snaps) ==
    o.at = "writing" /\ o.loaded # None => snaps[o.row] # None

SoundSessions ==
    /\ TypeOK
    /\ \A r \in Runs : SoundSession(run[r], Today(r), snapshots)
    /\ \A u \in Users : SoundOverride(override[u], snapshots)

\* What changes a row of price_snapshots: the transaction of one override,
\* or the commit of a run, which stores every price the run has accepted (a
\* price equal to the one the session loaded is not in its UPDATE).
ByOverride(row) ==
    \E u \in Users :
        override[u].at = "writing" /\ override[u].row = row /\ override'[u].at = "answered"

ByCommitOf(r, row) ==
    /\ row[2] = Today(r)
    /\ run[r].at = "storing" /\ run'[r].at = "releasing"
    /\ \A s \in Stocks :
         run[r].writes[s] # None /\ run[r].writes[s].set.price # None =>
            snapshots'[<<s, Today(r)>>].price = run[r].fetched[s]

\* A run stores all it has accepted or nothing: its rows appear together at
\* its commit, and a run that fails, is cancelled or killed leaves none.
AllOrNothing ==
    [][\A row \in DOMAIN snapshots :
          snapshots'[row] # snapshots[row] =>
             ByOverride(row) \/ \E r \in Runs : ByCommitOf(r, row)]_vars
=============================================================================
