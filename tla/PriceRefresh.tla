---------------------------- MODULE PriceRefresh ----------------------------
(***************************************************************************)
(* The daily price refresh (scripts/refresh_prices.py, pricing/service.py) *)
(* with its lock in system_config (admin/service.py), and the manual price *)
(* overrides that write the same price_snapshots rows.                     *)
(*                                                                         *)
(* A run is one execution of the script; it is started once.  Time is      *)
(* counted in hours.  Only fetching prices over the network takes hours:   *)
(* the clock stands still while a run talks to the database.               *)
(*                                                                         *)
(* A session writes a row at its next SELECT or COMMIT (autoflush); the    *)
(* row, or the unique key of an inserted one, then stays locked until the  *)
(* commit.  An ORM UPDATE sets the columns whose values differ from those  *)
(* the session loaded.                                                     *)
(***************************************************************************)
EXTENDS Integers, FiniteSets

CONSTANTS
    Runs, Users,       \* executions of the script, override requests
    Schedule,          \* the day on which a run is started
    Stocks,            \* stocks with active lots
    AutoPrices,        \* prices the provider may report
    ManualPrices,      \* prices a user may enter
    OverrideDays,      \* trading dates a user may enter
    Holidays,
    MaxPct,            \* price_deviation_max_pct
    Ttl, Timeout,      \* in hours; 2 and 1 in the code
    HoursPerDay,
    MaxTime,           \* bound of the instance on the clock
    Faults,            \* which of "timeout", "crash" may happen
    None, NoRow, Free

Prices == AutoPrices \cup ManualPrices
Days == Nat
Snapshot == [price : Prices, source : {"automated", "manual"}]

ASSUME TimeAssumption ==
    /\ Ttl \in Nat /\ Timeout \in Nat /\ Timeout <= Ttl
    /\ HoursPerDay \in Nat \ {0} /\ MaxTime \in Nat
ASSUME LockAssumption == NoRow \notin Nat /\ Free \notin Nat /\ NoRow # Free
ASSUME ScheduleAssumption ==
    Schedule \in [Runs -> Nat] /\ OverrideDays \subseteq Nat

VARIABLES
    now,         \* the clock
    lock,        \* system_config.price_refresh_lock: NoRow, Free (NULL) or a time
    run,         \* what each run is doing
    snapshots,   \* price_snapshots: (stock, day) -> row, for the days in play
    override     \* what each override request is doing

vars == <<now, lock, run, snapshots, override>>

DaysInPlay == OverrideDays \cup {Schedule[r] : r \in Runs}

-----------------------------------------------------------------------------
(* Changes of a row *)

\* What an UPDATE sets: None for a column whose new value equals the loaded one.
Changed(new, loaded) == IF new = loaded THEN None ELSE new

NetUpdate(loaded, new) ==
    [price |-> Changed(new.price, loaded.price),
     source |-> Changed(new.source, loaded.source)]

\* An INSERT sets both columns.
Columns == [price : Prices \cup {None}, source : {"automated", "manual", None}]
Write == [insert : BOOLEAN, set : Columns]

ASSUME PriceAssumption ==
    /\ AutoPrices \subseteq Nat \ {0} /\ ManualPrices \subseteq Nat \ {0}
    /\ None \notin Prices /\ None \notin {"automated", "manual"} /\ None \notin Stocks
    /\ None \notin Snapshot /\ None \notin Write

WriteOf(loaded, new) ==
    [insert |-> loaded = None,
     set |-> IF loaded = None THEN new ELSE NetUpdate(loaded, new)]

Either(set, old) == IF set = None THEN old ELSE set

Written(row, w) ==
    IF w.insert THEN w.set
    ELSE [price |-> Either(w.set.price, row.price),
          source |-> Either(w.set.source, row.source)]

\* _latest_snapshot_price: the row with the greatest trading date.
DaysOf(s) == {d \in DaysInPlay : snapshots[<<s, d>>] # None}
Latest(s) == CHOOSE d \in DaysOf(s) : \A e \in DaysOf(s) : e <= d

Difference(p, q) == IF p >= q THEN p - q ELSE q - p

\* _deviation_pct against the configured maximum.
WithinLimit(new, old) == 100 * Difference(new, old) <= MaxPct * old

Accepts(s, price) == DaysOf(s) # {} => WithinLimit(price, snapshots[<<s, Latest(s)>>].price)

-----------------------------------------------------------------------------
(* Runs.  "writes" are the changes the session has made, "flushed" the     *)
(* stocks whose rows it has written and locked, "pending" the one it has   *)
(* still to flush; "loaded" is today's row if the deviation check loaded   *)
(* it.                                                                     *)

InCharge == {"fetching", "storing", "looking_up", "releasing"}
Asking == {"asking", "rereading", "inserting"}
Ended == {"skipped", "done", "failed", "crashed"}
Steps == {"waiting", "releasing_again"} \cup Asking \cup InCharge \cup Ended

Run == [at : Steps, asked : Nat, fetched : [Stocks -> AutoPrices \cup {None}],
        todo : SUBSET Stocks, current : Stocks \cup {None},
        loaded : Snapshot \cup {None}, writes : [Stocks -> Write \cup {None}],
        pending : Stocks \cup {None}, flushed : SUBSET Stocks, timed : BOOLEAN]

Waiting ==
    [at |-> "waiting", asked |-> 0, fetched |-> [s \in Stocks |-> None],
     todo |-> {}, current |-> None, loaded |-> None,
     writes |-> [s \in Stocks |-> None], pending |-> None, flushed |-> {},
     timed |-> FALSE]

\* A run that ends keeps only how it ended and when it asked for the lock.
EndedAs(r, at) == [Waiting EXCEPT !.at = at, !.asked = run[r].asked]
End(r, at) == run' = [run EXCEPT ![r] = EndedAs(r, at)]
Goto(r, at) == run' = [run EXCEPT ![r].at = at]

Day(t) == t \div HoursPerDay
Today(r) == Schedule[r]
TimeIsUp(r) == now >= run[r].asked + Timeout

\* Rows locked by other runs.
LockedBy(r) == {<<s, Today(r)>> : s \in run[r].flushed}
Locked(row) == \E r \in Runs : row \in LockedBy(r)

-----------------------------------------------------------------------------
TypeOK ==
    /\ now \in Nat
    /\ lock \in {NoRow, Free} \cup Nat
    /\ run \in [Runs -> Run]
    /\ snapshots \in [Stocks \X DaysInPlay -> Snapshot \cup {None}]
    /\ override \in [Users -> [at : {"idle", "answered"}] \cup
          [at : {"writing"}, row : Stocks \X OverrideDays,
           loaded : Snapshot \cup {None}, price : ManualPrices]]

\* The migration seeds the lock row; a database made without it has none.
Init ==
    /\ now = 0
    /\ lock \in {NoRow, Free}
    /\ run = [r \in Runs |-> Waiting]
    /\ snapshots = [row \in Stocks \X DaysInPlay |-> None]
    /\ override = [u \in Users |-> [at |-> "idle"]]

\* The clock moves while every run under way is fetching, and not past the
\* moment at which wait_for cancels it.
Tick ==
    /\ now < MaxTime
    /\ \A r \in Runs :
         \/ run[r].at \in {"waiting"} \cup Ended
         \/ run[r].at = "fetching" /\ ~TimeIsUp(r)
    /\ now' = now + 1
    /\ UNCHANGED <<lock, run, snapshots, override>>

-----------------------------------------------------------------------------
(* The lock *)

\* Bound of the instance: a run starts when it can still time out.
Start(r) ==
    /\ run[r].at = "waiting"
    /\ Day(now) = Schedule[r] /\ now + Timeout <= MaxTime
    /\ run' = [run EXCEPT ![r].at = IF Day(now) \in Holidays THEN "skipped" ELSE "asking",
                          ![r].asked = now]
    /\ UNCHANGED <<now, lock, snapshots, override>>

\* try_acquire_price_refresh_lock: one atomic UPDATE of a free or stale lock.
AlwaysAvailable(t) == lock # NoRow

NeverStale(t) == lock = Free

Available(t) == lock = Free \/ (lock \in Nat /\ lock < t - Ttl)

TakeLock(r) ==
    /\ run[r].at = "asking"
    /\ \/ /\ Available(run[r].asked)
          /\ lock' = run[r].asked
          /\ Goto(r, "fetching")
       \/ ~Available(run[r].asked) /\ Goto(r, "rereading") /\ UNCHANGED lock
    /\ UNCHANGED <<now, snapshots, override>>

\* get_system_config answers None for a missing row and for NULL alike.
RereadLock(r) ==
    /\ run[r].at = "rereading"
    /\ \/ lock \in {NoRow, Free} /\ Goto(r, "inserting")
       \/ lock \in Nat /\ End(r, "skipped")
    /\ UNCHANGED <<now, lock, snapshots, override>>

\* The primary key refuses a second row.
InsertLock(r) ==
    /\ run[r].at = "inserting"
    /\ \/ lock = NoRow /\ lock' = run[r].asked /\ Goto(r, "fetching")
       \/ lock # NoRow /\ End(r, "skipped") /\ UNCHANGED lock
    /\ UNCHANGED <<now, snapshots, override>>

\* release_price_refresh_lock: whoever holds it.
Released == IF lock = NoRow THEN NoRow ELSE Free

Release(r) ==
    /\ run[r].at = "releasing"
    /\ lock' = Released
    /\ IF run[r].timed THEN Goto(r, "releasing_again") ELSE End(r, "done")
    /\ UNCHANGED <<now, snapshots, override>>

\* main's own release, after wait_for has raised TimeoutError.
ReleaseAgain(r) ==
    /\ run[r].at = "releasing_again"
    /\ lock' = Released
    /\ End(r, "done")
    /\ UNCHANGED <<now, snapshots, override>>

-----------------------------------------------------------------------------
(* Fetching and storing *)

\* _fetch_all: a price, or None when every attempt has failed.
Fetch(r) ==
    /\ run[r].at = "fetching"
    /\ \E fetched \in [Stocks -> AutoPrices \cup {None}] :
         run' = [run EXCEPT ![r].at = "storing", ![r].fetched = fetched,
                            ![r].todo = {s \in Stocks : fetched[s] # None}]
    /\ UNCHANGED <<now, lock, snapshots, override>>

\* The deviation guard of one stock.
CheckPrice(r) ==
    /\ run[r].at = "storing" /\ run[r].pending = None
    /\ \E s \in run[r].todo :
         \/ /\ Accepts(s, run[r].fetched[s])
            /\ run' = [run EXCEPT ![r].at = "looking_up", ![r].current = s,
                          ![r].loaded = IF DaysOf(s) # {} /\ Latest(s) = Today(r)
                                        THEN snapshots[<<s, Today(r)>>] ELSE None]
         \/ /\ ~Accepts(s, run[r].fetched[s])
            /\ run' = [run EXCEPT ![r].todo = @ \ {s}]
    /\ UNCHANGED <<now, lock, snapshots, override>>

\* _upsert_snapshot: a row the session has loaded before keeps its loaded values.
LookUp(r) ==
    /\ run[r].at = "looking_up"
    /\ LET s == run[r].current
           loaded == IF run[r].loaded # None THEN run[r].loaded
                     ELSE snapshots[<<s, Today(r)>>]
           new == [price |-> run[r].fetched[s], source |-> "automated"]
       IN  run' = [run EXCEPT ![r].at = "storing", ![r].current = None,
                              ![r].loaded = None, ![r].todo = @ \ {s},
                              ![r].writes = [@ EXCEPT ![s] = WriteOf(loaded, new)],
                              ![r].pending = s]
    /\ UNCHANGED <<now, lock, snapshots, override>>

\* The write reaches the database.  An insert on a key that has been taken
\* raises IntegrityError; the session then refuses the release in finally,
\* and the script ends.
FlushAndCommit(r) ==
    /\ run[r].at = "storing" /\ run[r].pending # None
    /\ LET s == run[r].pending
           taken == run[r].writes[s].insert /\ snapshots[<<s, Today(r)>>] # None
       IN  /\ ~Locked(<<s, Today(r)>>)
           /\ \/ taken /\ End(r, "failed") /\ UNCHANGED snapshots
              \/ /\ ~taken
                 /\ run' = [run EXCEPT ![r].pending = None]
                 /\ snapshots' = [snapshots EXCEPT ![<<s, Today(r)>>] =
                                     Written(@, run[r].writes[s])]
    /\ UNCHANGED <<now, lock, override>>

Flush(r) ==
    /\ run[r].at = "storing" /\ run[r].pending # None
    /\ LET s == run[r].pending
           taken == run[r].writes[s].insert /\ snapshots[<<s, Today(r)>>] # None
       IN  /\ ~Locked(<<s, Today(r)>>)
           /\ \/ taken /\ End(r, "failed")
              \/ /\ ~taken
                 /\ run' = [run EXCEPT ![r].pending = None, ![r].flushed = @ \cup {s}]
    /\ UNCHANGED <<now, lock, snapshots, override>>

\* Two runs that wait for each other's rows: Postgres aborts one.
Deadlocked(r) ==
    /\ run[r].at = "storing" /\ run[r].pending # None
    /\ \E o \in Runs \ {r} :
         /\ <<run[r].pending, Today(r)>> \in LockedBy(o)
         /\ run[o].pending # None /\ <<run[o].pending, Today(o)>> \in LockedBy(r)
    /\ End(r, "failed")
    /\ UNCHANGED <<now, lock, snapshots, override>>

CommitPrices(r) ==
    /\ run[r].at = "storing" /\ run[r].todo = {} /\ run[r].pending = None
    /\ snapshots' = [row \in DOMAIN snapshots |->
          IF row \in LockedBy(r) THEN Written(snapshots[row], run[r].writes[row[1]])
          ELSE snapshots[row]]
    /\ run' = [run EXCEPT ![r] = EndedAs(r, "releasing")]
    /\ UNCHANGED <<now, lock, override>>

\* wait_for cancels the run: between statements the release in finally works,
\* inside one the connection is invalidated and the release raises.
NeverUp(r) == FALSE

CancelNow(r) == TimeIsUp(r)

TimeOut(r) ==
    /\ "timeout" \in Faults /\ CancelNow(r)
    /\ \/ /\ run[r].at = "fetching"
          /\ run' = [run EXCEPT ![r].at = "releasing", ![r].timed = TRUE]
       \/ /\ run[r].at \in {"storing", "looking_up", "releasing"} /\ ~run[r].timed
          /\ End(r, "failed")
    /\ UNCHANGED <<now, lock, snapshots, override>>

\* The process is killed.
Crash(r) ==
    /\ "crash" \in Faults
    /\ run[r].at \in Asking \cup InCharge \cup {"releasing_again"}
    /\ End(r, "crashed")
    /\ UNCHANGED <<now, lock, snapshots, override>>

-----------------------------------------------------------------------------
(* create_manual_price_override: a SELECT, then one row and its audit      *)
(* event in one transaction.                                               *)

OverrideRead(u) ==
    /\ override[u].at = "idle"
    /\ \E row \in Stocks \X OverrideDays, price \in ManualPrices :
         override' = [override EXCEPT ![u] =
            [at |-> "writing", row |-> row, loaded |-> snapshots[row], price |-> price]]
    /\ UNCHANGED <<now, lock, run, snapshots>>

OverrideWrite(u) ==
    /\ override[u].at = "writing"
    /\ LET row == override[u].row
           w == WriteOf(override[u].loaded,
                        [price |-> override[u].price, source |-> "manual"])
           taken == w.insert /\ snapshots[row] # None
       IN  /\ ~Locked(row)
           /\ \/ ~taken /\ snapshots' = [snapshots EXCEPT ![row] = Written(@, w)]
              \/ taken /\ UNCHANGED snapshots
    /\ override' = [override EXCEPT ![u] = [at |-> "answered"]]
    /\ UNCHANGED <<now, lock, run>>

-----------------------------------------------------------------------------
RunStep(r) ==
    \/ TakeLock(r) \/ RereadLock(r) \/ InsertLock(r)
    \/ CheckPrice(r) \/ LookUp(r) \/ Flush(r) \/ Deadlocked(r) \/ CommitPrices(r)
    \/ Release(r) \/ ReleaseAgain(r) \/ TimeOut(r)

Next ==
    \/ Tick
    \/ \E r \in Runs : Start(r) \/ Fetch(r) \/ Crash(r) \/ RunStep(r)
    \/ \E u \in Users : OverrideRead(u) \/ OverrideWrite(u)

Spec == Init /\ [][Next]_vars

\* Nobody promises that a provider answers: Fetch is not fair.
FairSpec == Spec /\ WF_vars(Tick) /\ \A r \in Runs : WF_vars(RunStep(r))
=============================================================================
