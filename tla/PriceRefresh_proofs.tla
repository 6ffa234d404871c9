------------------------ MODULE PriceRefresh_proofs ------------------------
(***************************************************************************)
(* Theorems about the price refresh: types; mutual exclusion of runs, as   *)
(* long as no second release comes too late; how long a lock that nobody   *)
(* released keeps runs out; the row locks of the sessions and the          *)
(* atomicity of a run.                                                     *)
(***************************************************************************)
EXTENDS PriceProperties, TLAPS

USE DEF Steps, InCharge, Asking, Ended

-----------------------------------------------------------------------------
(* Types *)

\* What a run holds between two runs of the script is well typed.
LEMMA EndedTyped ==
    ASSUME TypeOK, NEW r \in Runs, NEW at \in Steps
    PROVE  EndedAs(r, at) \in Run /\ EndedAs(r, at).at = at
           /\ EndedAs(r, at).asked = run[r].asked /\ ~EndedAs(r, at).timed
<1>1. run[r] \in Run
  BY DEF TypeOK
<1>2. [s \in Stocks |-> None] \in [Stocks -> AutoPrices \cup {None}]
  OBVIOUS
<1>3. [s \in Stocks |-> None] \in [Stocks -> Write \cup {None}]
  OBVIOUS
<1>4. run[r].asked \in Nat
  BY <1>1 DEF Run
<1>. QED
  BY <1>2, <1>3, <1>4 DEF EndedAs, Waiting, Run

\* What the session writes has the columns of a snapshot, and writing them
\* into a row gives a snapshot.
LEMMA WriteTyped ==
    ASSUME NEW loaded \in Snapshot \cup {None}, NEW new \in Snapshot
    PROVE  WriteOf(loaded, new) \in Write
<1>1. CASE loaded = None
  <2>1. new \in Columns
    BY DEF Snapshot, Columns
  <2>. QED
    BY <1>1, <2>1 DEF WriteOf, Write
<1>2. CASE loaded # None
  <2>1. NetUpdate(loaded, new) \in Columns
    BY <1>2 DEF NetUpdate, Changed, Snapshot, Columns
  <2>. QED
    BY <1>2, <2>1 DEF WriteOf, Write
<1>. QED
  BY <1>1, <1>2

LEMMA WriteComplete ==
    ASSUME NEW loaded \in Snapshot \cup {None}, NEW new \in Snapshot
    PROVE  Complete(WriteOf(loaded, new))
  BY DEF Complete, WriteOf

LEMMA WrittenTyped ==
    ASSUME NEW w \in Write, Complete(w), NEW row \in Snapshot \cup {None},
           row = None => w.insert
    PROVE  Written(row, w) \in Snapshot
<1>1. CASE w.insert
  BY <1>1 DEF Written, Complete
<1>2. CASE ~w.insert
  <2>1. row \in Snapshot /\ w.set \in Columns
    BY <1>2 DEF Write
  <2>2. /\ row.price \in Prices /\ row.source \in {"automated", "manual"}
        /\ w.set.price \in Prices \cup {None}
        /\ w.set.source \in {"automated", "manual", None}
    BY <2>1 DEF Snapshot, Columns
  <2>3. Either(w.set.price, row.price) \in Prices
    BY <2>2 DEF Either
  <2>4. Either(w.set.source, row.source) \in {"automated", "manual"}
    BY <2>2 DEF Either
  <2>. QED
    BY <1>2, <2>3, <2>4 DEF Written, Snapshot
<1>. QED
  BY <1>1, <1>2 DEF Write

-----------------------------------------------------------------------------
(* A step of one run *)

LEMMA EndedSound ==
    ASSUME SoundSessions, NEW r \in Runs, NEW at \in Steps, at # "looking_up"
    PROVE  EndedAs(r, at) \in Run /\ SoundSession(EndedAs(r, at), Today(r), snapshots)
<1>1. TypeOK
  BY DEF SoundSessions
<1>2. EndedAs(r, at) \in Run /\ EndedAs(r, at).at = at
  BY <1>1, EndedTyped
<1>3. /\ EndedAs(r, at).todo = {} /\ EndedAs(r, at).flushed = {}
      /\ EndedAs(r, at).writes = [s \in Stocks |-> None]
      /\ EndedAs(r, at).pending = None
  BY DEF EndedAs, Waiting
<1>4. None \notin Stocks
  BY PriceAssumption
<1>. QED
  BY <1>2, <1>3, <1>4 DEF SoundSession

\* A run that only moves on keeps a sound session.
LEMMA MovedSound ==
    ASSUME SoundSessions, NEW r \in Runs, NEW at \in Steps, at # "looking_up"
    PROVE  /\ [run[r] EXCEPT !.at = at] \in Run
           /\ SoundSession([run[r] EXCEPT !.at = at], Today(r), snapshots)
<1>1. run[r] \in Run /\ SoundSession(run[r], Today(r), snapshots)
  BY DEF SoundSessions, TypeOK
<1>2. [run[r] EXCEPT !.at = at] \in Run
  BY <1>1 DEF Run
<1>3. SoundSession([run[r] EXCEPT !.at = at], Today(r), snapshots)
  BY <1>1 DEF SoundSession, Run
<1>. QED
  BY <1>2, <1>3

LEMMA RunStepSound ==
    ASSUME SoundSessions, NEW r \in Runs, NEW q \in Run,
           SoundSession(q, Today(r), snapshots), run' = [run EXCEPT ![r] = q],
           lock' \in {NoRow, Free} \cup Nat, UNCHANGED <<now, snapshots, override>>
    PROVE  SoundSessions'
<1>1. TypeOK'
  BY DEF SoundSessions, TypeOK
<1>2. ASSUME NEW o \in Runs PROVE SoundSession(run[o], Today(o), snapshots)'
  BY DEF SoundSessions, TypeOK, Today
<1>3. ASSUME NEW u \in Users PROVE SoundOverride(override[u], snapshots)'
  BY DEF SoundSessions
<1>. QED
  BY <1>1, <1>2, <1>3 DEF SoundSessions

-----------------------------------------------------------------------------
(* The actions that write no price *)

LEMMA StartSound ==
    ASSUME SoundSessions, NEW r \in Runs, Start(r) PROVE SoundSessions'
<1> DEFINE at == IF Day(now) \in Holidays THEN "skipped" ELSE "asking"
           q == [run[r] EXCEPT !.at = at, !.asked = now]
<1>1. /\ run[r] \in Run /\ now \in Nat /\ lock \in {NoRow, Free} \cup Nat
      /\ SoundSession(run[r], Today(r), snapshots)
  BY DEF SoundSessions, TypeOK
<1>2. q \in Run /\ SoundSession(q, Today(r), snapshots)
  <2>1. at \in Steps /\ at # "storing" /\ at # "looking_up" /\ at # "releasing"
    BY DEF Steps, Asking, Ended
  <2> HIDE DEF at
  <2>2. q \in Run
    BY <1>1, <2>1 DEF Run
  <2>3. /\ q.at = at /\ q.writes = run[r].writes /\ q.flushed = run[r].flushed /\ q.todo = run[r].todo
        /\ q.pending = run[r].pending /\ q.fetched = run[r].fetched /\ q.current = run[r].current
        /\ q.loaded = run[r].loaded
    BY <1>1 DEF Run
  <2> HIDE DEF q
  <2>4. SoundSession(q, Today(r), snapshots)
    BY <1>1, <2>1, <2>3 DEF SoundSession
  <2>. QED
    BY <2>2, <2>4 DEF q
<1>3. run' = [run EXCEPT ![r] = q]
  BY <1>1 DEF Start, SoundSessions, TypeOK
<1>. QED
  BY <1>1, <1>2, <1>3, RunStepSound DEF Start

LEMMA GotoSound ==
    ASSUME SoundSessions, NEW r \in Runs, NEW at \in Steps, at # "looking_up",
           Goto(r, at), lock' \in {NoRow, Free} \cup Nat,
           UNCHANGED <<now, snapshots, override>>
    PROVE  SoundSessions'
<1> DEFINE q == [run[r] EXCEPT !.at = at]
<1>1. q \in Run /\ SoundSession(q, Today(r), snapshots)
  BY MovedSound
<1>2. run' = [run EXCEPT ![r] = q]
  BY DEF Goto, SoundSessions, TypeOK
<1>. QED
  BY <1>1, <1>2, RunStepSound

LEMMA EndSound ==
    ASSUME SoundSessions, NEW r \in Runs, NEW at \in Steps, at # "looking_up",
           End(r, at), lock' \in {NoRow, Free} \cup Nat,
           UNCHANGED <<now, snapshots, override>>
    PROVE  SoundSessions'
<1>1. EndedAs(r, at) \in Run /\ SoundSession(EndedAs(r, at), Today(r), snapshots)
  BY EndedSound
<1>. QED
  BY <1>1, RunStepSound DEF End

LEMMA LockTyped ==
    ASSUME SoundSessions, NEW r \in Runs
    PROVE  /\ lock \in {NoRow, Free} \cup Nat /\ run[r].asked \in Nat
           /\ Released \in {NoRow, Free} \cup Nat
  BY DEF SoundSessions, TypeOK, Run, Released

LEMMA LockStepsSound ==
    ASSUME SoundSessions, NEW r \in Runs,
           TakeLock(r) \/ RereadLock(r) \/ InsertLock(r) \/ Release(r) \/ ReleaseAgain(r)
    PROVE  SoundSessions'
<1>0. /\ lock \in {NoRow, Free} \cup Nat /\ run[r].asked \in Nat
      /\ Released \in {NoRow, Free} \cup Nat
  BY LockTyped
<1>1. CASE TakeLock(r)
  <2>1. Goto(r, "fetching") \/ Goto(r, "rereading")
    BY <1>1 DEF TakeLock
  <2>. QED
    BY <1>0, <1>1, <2>1, GotoSound DEF TakeLock
<1>2. CASE RereadLock(r)
  BY <1>0, <1>2, GotoSound, EndSound DEF RereadLock
<1>3. CASE InsertLock(r)
  BY <1>0, <1>3, GotoSound, EndSound DEF InsertLock
<1>4. CASE Release(r)
  BY <1>0, <1>4, GotoSound, EndSound DEF Release
<1>5. CASE ReleaseAgain(r)
  BY <1>0, <1>5, EndSound DEF ReleaseAgain
<1>. QED
  BY <1>1, <1>2, <1>3, <1>4, <1>5

LEMMA FetchSound ==
    ASSUME SoundSessions, NEW r \in Runs, Fetch(r) PROVE SoundSessions'
<1>1. PICK fetched \in [Stocks -> AutoPrices \cup {None}] :
         run' = [run EXCEPT ![r].at = "storing", ![r].fetched = fetched,
                            ![r].todo = {s \in Stocks : fetched[s] # None}]
  BY Zenon DEF Fetch
<1> DEFINE q == [run[r] EXCEPT !.at = "storing", !.fetched = fetched,
                               !.todo = {s \in Stocks : fetched[s] # None}]
<1>2. run[r] \in Run /\ SoundSession(run[r], Today(r), snapshots)
  BY DEF SoundSessions, TypeOK
<1>3. q \in Run
  BY <1>2, Zenon DEF Run
<1>4. /\ q.at = "storing" /\ q.fetched = fetched
      /\ q.todo = {s \in Stocks : fetched[s] # None}
      /\ q.writes = run[r].writes /\ q.flushed = run[r].flushed
      /\ q.pending = run[r].pending
  BY <1>2 DEF Run
<1>5. SoundSession(q, Today(r), snapshots)
  BY <1>2, <1>4 DEF SoundSession
<1>6. run' = [run EXCEPT ![r] = q]
  BY <1>1 DEF SoundSessions, TypeOK
<1>7. lock' \in {NoRow, Free} \cup Nat /\ UNCHANGED <<now, snapshots, override>>
  BY LockTyped DEF Fetch
<1> HIDE DEF q
<1>. QED
  BY <1>3, <1>5, <1>6, <1>7, RunStepSound

LEMMA TimeOutSound ==
    ASSUME SoundSessions, NEW r \in Runs, TimeOut(r) PROVE SoundSessions'
<1>1. run[r] \in Run /\ SoundSession(run[r], Today(r), snapshots)
  BY DEF SoundSessions, TypeOK
<1>2. CASE End(r, "failed")
  BY <1>2, LockTyped, EndSound DEF TimeOut
<1>3. CASE run' = [run EXCEPT ![r].at = "releasing", ![r].timed = TRUE]
  <2> DEFINE q == [run[r] EXCEPT !.at = "releasing", !.timed = TRUE]
  <2>1. q \in Run
    BY <1>1 DEF Run
  <2>2. SoundSession(q, Today(r), snapshots)
    BY <1>1 DEF SoundSession, Run
  <2>3. run' = [run EXCEPT ![r] = q]
    BY <1>3 DEF SoundSessions, TypeOK
  <2>. QED
    BY <2>1, <2>2, <2>3, LockTyped, RunStepSound DEF TimeOut
<1>. QED
  BY <1>2, <1>3 DEF TimeOut

LEMMA CheckPriceSound ==
    ASSUME SoundSessions, NEW r \in Runs, CheckPrice(r) PROVE SoundSessions'
<1>1. run[r] \in Run /\ SoundSession(run[r], Today(r), snapshots)
      /\ snapshots \in [Stocks \X DaysInPlay -> Snapshot \cup {None}]
  BY DEF SoundSessions, TypeOK
<1>2. PICK s \in run[r].todo :
         \/ run' = [run EXCEPT ![r].at = "looking_up", ![r].current = s,
                          ![r].loaded = IF DaysOf(s) # {} /\ Latest(s) = Today(r)
                                        THEN snapshots[<<s, Today(r)>>] ELSE None]
         \/ run' = [run EXCEPT ![r].todo = @ \ {s}]
  BY Zenon DEF CheckPrice
<1>3. s \in Stocks /\ Today(r) \in DaysInPlay
  BY <1>1 DEF Run, Today, DaysInPlay
<1>4. CASE run' = [run EXCEPT ![r].todo = @ \ {s}]
  <2> DEFINE q == [run[r] EXCEPT !.todo = @ \ {s}]
  <2>1. q \in Run
    BY <1>1 DEF Run
  <2>2. run[r].at = "storing"
    BY DEF CheckPrice
  <2>3. SoundSession(q, Today(r), snapshots)
    BY <1>1, <2>2 DEF SoundSession, Run
  <2>4. run' = [run EXCEPT ![r] = q]
    BY <1>4 DEF SoundSessions, TypeOK
  <2>. QED
    BY <2>1, <2>3, <2>4, LockTyped, RunStepSound DEF CheckPrice
<1>5. CASE run' = [run EXCEPT ![r].at = "looking_up", ![r].current = s,
                          ![r].loaded = IF DaysOf(s) # {} /\ Latest(s) = Today(r)
                                        THEN snapshots[<<s, Today(r)>>] ELSE None]
  <2> DEFINE loaded == IF DaysOf(s) # {} /\ Latest(s) = Today(r)
                       THEN snapshots[<<s, Today(r)>>] ELSE None
             q == [run[r] EXCEPT !.at = "looking_up", !.current = s, !.loaded = loaded]
  <2>1. loaded \in Snapshot \cup {None} /\ (loaded # None => snapshots[<<s, Today(r)>>] # None)
    BY <1>1, <1>3
  <2>2. q = [run[r] EXCEPT !.at = "looking_up", !.current = s, !.loaded = loaded]
    OBVIOUS
  <2>3. run' = [run EXCEPT ![r] = q]
    BY <1>5 DEF SoundSessions, TypeOK
  <2> HIDE DEF loaded
  <2>4. q \in Run
    BY <1>1, <1>3, <2>1 DEF Run
  <2>5. SoundSession(q, Today(r), snapshots)
    BY <1>1, <1>2, <2>1 DEF SoundSession, Run
  <2>. QED
    BY <2>3, <2>4, <2>5, LockTyped, RunStepSound DEF CheckPrice
<1>. QED
  BY <1>2, <1>4, <1>5

-----------------------------------------------------------------------------
(* The actions that write prices *)

LEMMA LookUpSound ==
    ASSUME SoundSessions, NEW r \in Runs, LookUp(r) PROVE SoundSessions'
<1> DEFINE s == run[r].current
           loaded == IF run[r].loaded # None THEN run[r].loaded
                     ELSE snapshots[<<s, Today(r)>>]
           new == [price |-> run[r].fetched[s], source |-> "automated"]
           w == WriteOf(loaded, new)
           writes == [run[r].writes EXCEPT ![s] = w]
           q == [run[r] EXCEPT !.at = "storing", !.current = None, !.loaded = None,
                               !.todo = @ \ {s}, !.writes = writes, !.pending = s]
<1>1. run[r] \in Run /\ SoundSession(run[r], Today(r), snapshots)
      /\ snapshots \in [Stocks \X DaysInPlay -> Snapshot \cup {None}]
  BY DEF SoundSessions, TypeOK
<1>2. run[r].at = "looking_up"
  BY DEF LookUp
<1>3. s \in run[r].todo /\ s \in Stocks /\ Today(r) \in DaysInPlay
  BY <1>1, <1>2 DEF SoundSession, Run, Today, DaysInPlay
<1>4. loaded \in Snapshot \cup {None} /\ (loaded # None => snapshots[<<s, Today(r)>>] # None)
  BY <1>1, <1>2, <1>3 DEF SoundSession, Run
<1>5. new \in Snapshot
  <2>1. run[r].fetched[s] \in AutoPrices
    BY <1>1, <1>3 DEF SoundSession, Run
  <2>. QED
    BY <2>1 DEF Snapshot, Prices
<1>6. w \in Write /\ Complete(w) /\ (w.insert \/ snapshots[<<s, Today(r)>>] # None)
  <2>1. w.insert <=> loaded = None
    BY DEF WriteOf
  <2> HIDE DEF loaded, new
  <2>. QED
    BY <1>4, <1>5, <2>1, WriteTyped, WriteComplete
<1>7. run' = [run EXCEPT ![r] = q]
  <2>1. run' = [run EXCEPT ![r].at = "storing", ![r].current = None,
                           ![r].loaded = None, ![r].todo = @ \ {s},
                           ![r].writes = writes, ![r].pending = s]
    BY DEF LookUp
  <2> HIDE DEF s, writes
  <2>2. run \in [Runs -> Run]
    BY DEF SoundSessions, TypeOK
  <2>. QED
    BY <2>1, <2>2
<1>9. writes \in [Stocks -> Write \cup {None}] /\ writes[s] = w
      /\ \A t \in Stocks \ {s} : writes[t] = run[r].writes[t]
  <2> HIDE DEF w, s
  <2>. QED
    BY <1>1, <1>3, <1>6 DEF Run
<1> HIDE DEF writes, w, s
<1>10. q \in Run
  BY <1>1, <1>3, <1>9 DEF Run
<1>11. /\ q.at = "storing" /\ q.fetched = run[r].fetched
       /\ q.todo = run[r].todo \ {s} /\ q.writes = writes /\ q.pending = s
       /\ q.flushed = run[r].flushed
  BY <1>1 DEF Run
<1>12. w # None
  BY <1>6, PriceAssumption
<1>13. SoundSession(q, Today(r), snapshots)
  <2> HIDE DEF q
  <2>. QED
    BY <1>1, <1>3, <1>6, <1>9, <1>11, <1>12 DEF SoundSession
<1> HIDE DEF q
<1>. QED
  BY <1>7, <1>10, <1>13, LockTyped, RunStepSound DEF LookUp

LEMMA FlushSound ==
    ASSUME SoundSessions, NEW r \in Runs, Flush(r) PROVE SoundSessions'
<1> DEFINE q == [run[r] EXCEPT !.pending = None, !.flushed = @ \cup {run[r].pending}]
<1>1. run[r] \in Run /\ SoundSession(run[r], Today(r), snapshots) /\ run \in [Runs -> Run]
  BY DEF SoundSessions, TypeOK
<1>2. CASE End(r, "failed")
  BY <1>2, LockTyped, EndSound DEF Flush
<1>3. CASE run' = [run EXCEPT ![r].pending = None, ![r].flushed = @ \cup {run[r].pending}]
  <2>1. run' = [run EXCEPT ![r] = q]
    BY <1>1, <1>3
  <2>2. run[r].pending \in Stocks /\ run[r].at = "storing"
    BY <1>1 DEF Flush, Run
  <2>3. q \in Run
    BY <1>1, <2>2 DEF Run
  <2>4. /\ q.at = "storing" /\ q.fetched = run[r].fetched /\ q.todo = run[r].todo
        /\ q.writes = run[r].writes /\ q.pending = None
        /\ q.flushed = run[r].flushed \cup {run[r].pending}
    BY <1>1, <2>2 DEF Run
  <2> HIDE DEF q
  <2>5. SoundSession(q, Today(r), snapshots)
    BY <1>1, <2>2, <2>4, PriceAssumption DEF SoundSession
  <2>. QED
    BY <2>1, <2>3, <2>5, LockTyped, RunStepSound DEF Flush
<1>. QED
  BY <1>2, <1>3 DEF Flush

\* Rows that appear or change, and never disappear, disturb no session.
LEMMA RowsSound ==
    ASSUME SoundSessions, run' \in [Runs -> Run],
           snapshots' \in [Stocks \X DaysInPlay -> Snapshot \cup {None}],
           \A row \in Stocks \X DaysInPlay : snapshots[row] # None => snapshots'[row] # None,
           \A r \in Runs : SoundSession(run'[r], Today(r), snapshots),
           \A u \in Users : override'[u] = override[u] \/ override'[u] = [at |-> "answered"],
           DOMAIN override' = Users, override' = [u \in Users |-> override'[u]],
           UNCHANGED <<now, lock>>
    PROVE  SoundSessions'
<1>1. override' \in [Users -> [at : {"idle", "answered"}] \cup
          [at : {"writing"}, row : Stocks \X OverrideDays,
           loaded : Snapshot \cup {None}, price : ManualPrices]]
  <2>1. override \in [Users -> [at : {"idle", "answered"}] \cup
          [at : {"writing"}, row : Stocks \X OverrideDays,
           loaded : Snapshot \cup {None}, price : ManualPrices]]
    BY DEF SoundSessions, TypeOK
  <2>2. ASSUME NEW u \in Users
        PROVE  override'[u] \in [at : {"idle", "answered"}] \cup
          [at : {"writing"}, row : Stocks \X OverrideDays,
           loaded : Snapshot \cup {None}, price : ManualPrices]
    BY <2>1
  <2>. QED
    BY <2>2
<1>2. TypeOK'
  BY <1>1 DEF SoundSessions, TypeOK
<1>3. ASSUME NEW r \in Runs PROVE SoundSession(run'[r], Today(r), snapshots')
  <2>1. Today(r) \in DaysInPlay
    BY DEF Today, DaysInPlay
  <2>2. run'[r] \in Run /\ SoundSession(run'[r], Today(r), snapshots)
    OBVIOUS
  <2>3. run'[r].at = "looking_up" => run'[r].current \in Stocks
    BY <2>2 DEF SoundSession, Run
  <2>4. \A s \in Stocks : snapshots[<<s, Today(r)>>] # None => snapshots'[<<s, Today(r)>>] # None
    BY <2>1
  <2>. QED
    BY <2>2, <2>3, <2>4 DEF SoundSession
<1>4. ASSUME NEW u \in Users PROVE SoundOverride(override'[u], snapshots')
  <2>1. CASE override'[u] = [at |-> "answered"]
    BY <2>1 DEF SoundOverride
  <2>2. CASE override'[u] = override[u]
    <3>1. SoundOverride(override[u], snapshots)
      BY DEF SoundSessions
    <3>2. override[u].at = "writing" => override[u].row \in Stocks \X DaysInPlay
      BY DEF SoundSessions, TypeOK, DaysInPlay
    <3>. QED
      BY <2>2, <3>1, <3>2 DEF SoundOverride
  <2>. QED
    BY <2>1, <2>2
<1>. QED
  BY <1>2, <1>3, <1>4 DEF SoundSessions, Today

LEMMA CommitSound ==
    ASSUME SoundSessions, NEW r \in Runs, CommitPrices(r) PROVE SoundSessions'
<1> USE DEF LockedBy
<1>1. run[r] \in Run /\ SoundSession(run[r], Today(r), snapshots) /\ run \in [Runs -> Run]
      /\ snapshots \in [Stocks \X DaysInPlay -> Snapshot \cup {None}]
  BY DEF SoundSessions, TypeOK
<1>2. ASSUME NEW row \in Stocks \X DaysInPlay, row \in LockedBy(r)
      PROVE  Written(snapshots[row], run[r].writes[row[1]]) \in Snapshot
  <2>1. PICK s \in run[r].flushed : row = <<s, Today(r)>>
    BY <1>2
  <2>2. s \in Stocks /\ row[1] = s
    BY <1>1, <2>1 DEF Run
  <2>3. /\ run[r].writes[s] \in Write /\ Complete(run[r].writes[s])
        /\ run[r].writes[s].insert \/ snapshots[row] # None
    BY <1>1, <2>1, <2>2 DEF SoundSession, Run
  <2>4. snapshots[row] \in Snapshot \cup {None}
    BY <1>1
  <2>. QED
    BY <2>2, <2>3, <2>4, WrittenTyped
<1>3. ASSUME NEW row \in Stocks \X DaysInPlay
      PROVE  /\ snapshots'[row] \in Snapshot \cup {None}
             /\ snapshots[row] # None => snapshots'[row] # None
  <2>1. snapshots'[row] = IF row \in LockedBy(r)
                          THEN Written(snapshots[row], run[r].writes[row[1]])
                          ELSE snapshots[row]
    BY <1>1 DEF CommitPrices
  <2>. QED
    BY <1>1, <1>2, <2>1, PriceAssumption
<1>4. snapshots' \in [Stocks \X DaysInPlay -> Snapshot \cup {None}]
  BY <1>1, <1>3 DEF CommitPrices
<1>5. EndedAs(r, "releasing") \in Run
      /\ SoundSession(EndedAs(r, "releasing"), Today(r), snapshots)
  BY EndedSound
<1>6. run' = [run EXCEPT ![r] = EndedAs(r, "releasing")]
  BY DEF CommitPrices
<1>7. run' \in [Runs -> Run]
  BY <1>1, <1>5, <1>6
<1>8. ASSUME NEW o \in Runs PROVE SoundSession(run'[o], Today(o), snapshots)
  BY <1>1, <1>5, <1>6 DEF SoundSessions
<1>9. UNCHANGED <<now, lock, override>> /\ DOMAIN override = Users
      /\ override = [u \in Users |-> override[u]]
  BY DEF CommitPrices, SoundSessions, TypeOK
<1>. QED
  BY <1>3, <1>4, <1>7, <1>8, <1>9, RowsSound

LEMMA OverrideReadSound ==
    ASSUME SoundSessions, NEW u \in Users, OverrideRead(u) PROVE SoundSessions'
<1>1. PICK row \in Stocks \X OverrideDays, price \in ManualPrices :
         override' = [override EXCEPT ![u] =
            [at |-> "writing", row |-> row, loaded |-> snapshots[row], price |-> price]]
  BY DEF OverrideRead
<1> DEFINE o == [at |-> "writing", row |-> row, loaded |-> snapshots[row], price |-> price]
           O == [at : {"idle", "answered"}] \cup [at : {"writing"}, row : Stocks \X OverrideDays,
                   loaded : Snapshot \cup {None}, price : ManualPrices]
<1>2. snapshots[row] \in Snapshot \cup {None}
  BY DEF SoundSessions, TypeOK, DaysInPlay
<1>3. o \in O /\ SoundOverride(o, snapshots)
  BY <1>2 DEF SoundOverride
<1>4. override \in [Users -> O]
  BY DEF SoundSessions, TypeOK
<1> HIDE DEF o
<1>5. override' \in [Users -> O] /\ \A v \in Users : override'[v] = o \/ override'[v] = override[v]
  BY <1>1, <1>3, <1>4 DEF o
<1>6. UNCHANGED <<now, lock, run, snapshots>>
  BY DEF OverrideRead
<1>7. TypeOK'
  BY <1>5, <1>6 DEF SoundSessions, TypeOK
<1>8. \A v \in Users : SoundOverride(override'[v], snapshots')
  BY <1>3, <1>5, <1>6 DEF SoundSessions
<1>. QED
  BY <1>6, <1>7, <1>8 DEF SoundSessions, Today

LEMMA OverrideWriteSound ==
    ASSUME SoundSessions, NEW u \in Users, OverrideWrite(u) PROVE SoundSessions'
<1> DEFINE row == override[u].row
           new == [price |-> override[u].price, source |-> "manual"]
           w == WriteOf(override[u].loaded, new)
<1>1. /\ snapshots \in [Stocks \X DaysInPlay -> Snapshot \cup {None}]
      /\ run \in [Runs -> Run] /\ SoundOverride(override[u], snapshots)
      /\ override[u] \in [at : {"writing"}, row : Stocks \X OverrideDays,
                          loaded : Snapshot \cup {None}, price : ManualPrices]
  BY DEF SoundSessions, TypeOK, OverrideWrite
<1>2. row \in Stocks \X DaysInPlay /\ new \in Snapshot
  BY <1>1 DEF DaysInPlay, Snapshot, Prices
<1>3. w \in Write /\ Complete(w) /\ (w.insert \/ snapshots[row] # None)
  <2>1. w.insert <=> override[u].loaded = None
    BY DEF WriteOf
  <2>2. override[u].loaded \in Snapshot \cup {None}
    BY <1>1
  <2>3. w \in Write /\ Complete(w)
    BY <1>2, <2>2, WriteTyped, WriteComplete
  <2>. QED
    BY <1>1, <2>1, <2>3 DEF SoundOverride
<1>4. snapshots' = snapshots \/ snapshots' = [snapshots EXCEPT ![row] = Written(@, w)]
  BY DEF OverrideWrite
<1>5. Written(snapshots[row], w) \in Snapshot
  <2>1. snapshots[row] \in Snapshot \cup {None}
    BY <1>1, <1>2
  <2> HIDE DEF w, row
  <2>. QED
    BY <1>3, <2>1, WrittenTyped
<1>6. override' = [override EXCEPT ![u] = [at |-> "answered"]] /\ UNCHANGED <<now, lock, run>>
  BY DEF OverrideWrite
<1>7. /\ snapshots' \in [Stocks \X DaysInPlay -> Snapshot \cup {None}]
      /\ \A x \in Stocks \X DaysInPlay : snapshots[x] # None => snapshots'[x] # None
  <2> HIDE DEF w, row
  <2>. QED
    BY <1>1, <1>2, <1>4, <1>5, PriceAssumption
<1>8. \A r \in Runs : SoundSession(run'[r], Today(r), snapshots)
  BY <1>6 DEF SoundSessions
<1>9. /\ \A v \in Users : override'[v] = override[v] \/ override'[v] = [at |-> "answered"]
      /\ DOMAIN override' = Users /\ override' = [v \in Users |-> override'[v]]
  BY <1>6 DEF SoundSessions, TypeOK
<1>. QED
  BY <1>1, <1>6, <1>7, <1>8, <1>9, RowsSound

-----------------------------------------------------------------------------
(* The specification *)

LEMMA InitSound == Init => SoundSessions
<1> SUFFICES ASSUME Init PROVE SoundSessions
  OBVIOUS
<1>1. [s \in Stocks |-> None] \in [Stocks -> AutoPrices \cup {None}]
      /\ [s \in Stocks |-> None] \in [Stocks -> Write \cup {None}]
  OBVIOUS
<1>2. Waiting \in Run
  BY <1>1 DEF Waiting, Run
<1>3. SoundSession(Waiting, 0, snapshots) /\ \A d : SoundSession(Waiting, d, snapshots)
  BY PriceAssumption DEF SoundSession, Waiting
<1>4. TypeOK
  BY <1>2 DEF Init, TypeOK
<1>5. \A u \in Users : SoundOverride(override[u], snapshots)
  BY DEF Init, SoundOverride
<1>. QED
  BY <1>3, <1>4, <1>5 DEF Init, SoundSessions

\* One step per action of Next.
LEMMA NextSound == SoundSessions /\ [Next]_vars => SoundSessions'
<1> SUFFICES ASSUME SoundSessions, [Next]_vars PROVE SoundSessions'
  OBVIOUS
<1>1. CASE Tick
  BY <1>1 DEF Tick, SoundSessions, TypeOK, Today
<1>2. ASSUME NEW r \in Runs, Start(r) \/ Fetch(r) \/ TimeOut(r) PROVE SoundSessions'
  BY <1>2, StartSound, FetchSound, TimeOutSound
<1>3. ASSUME NEW r \in Runs,
             TakeLock(r) \/ RereadLock(r) \/ InsertLock(r) \/ Release(r) \/ ReleaseAgain(r)
      PROVE  SoundSessions'
  BY <1>3, LockStepsSound
<1>4. ASSUME NEW r \in Runs, Crash(r) \/ Deadlocked(r) PROVE SoundSessions'
  BY <1>4, LockTyped, EndSound DEF Crash, Deadlocked
<1>5. ASSUME NEW r \in Runs, CheckPrice(r) \/ LookUp(r) \/ Flush(r) \/ CommitPrices(r)
      PROVE  SoundSessions'
  BY <1>5, CheckPriceSound, LookUpSound, FlushSound, CommitSound
<1>6. ASSUME NEW u \in Users, OverrideRead(u) \/ OverrideWrite(u) PROVE SoundSessions'
  BY <1>6, OverrideReadSound, OverrideWriteSound
<1>7. CASE UNCHANGED vars
  BY <1>7 DEF vars, SoundSessions, TypeOK, Today
<1>. QED
  BY <1>1, <1>2, <1>3, <1>4, <1>5, <1>6, <1>7 DEF Next, RunStep

\* Whatever runs and users interleave, crash or time out, the stored rows are
\* well typed and every session can write what it is about to write.
THEOREM SessionsAreSound == Spec => []SoundSessions
  BY InitSound, NextSound, PTL DEF Spec

\* The types of the variables.
THEOREM TypesAreOK == Spec => []TypeOK
<1>1. SoundSessions => TypeOK
  BY DEF SoundSessions
<1>. QED
  BY <1>1, SessionsAreSound, PTL

-----------------------------------------------------------------------------
(* Mutual exclusion.  A run in charge is at most Timeout old, so the lock  *)
(* it wrote is at most Ttl old, and nobody who asks finds it stale.        *)

\* What an invocation of one run leaves alone.
LEMMA OthersStay ==
    ASSUME TypeOK, NEW r \in Runs, NEW q, run' = [run EXCEPT ![r] = q]
    PROVE  run'[r] = q /\ \A o \in Runs \ {r} : run'[o] = run[o]
  BY DEF TypeOK

\* The loop over the prices keeps its run in charge.
LEMMA LoopStaysIn ==
    ASSUME TypeOK, NEW r \in Runs, CheckPrice(r) \/ LookUp(r)
    PROVE  \E q : /\ run' = [run EXCEPT ![r] = q] /\ q.at \in {"storing", "looking_up"}
                  /\ q.asked = run[r].asked /\ q.timed = run[r].timed
<1>0. run \in [Runs -> Run] /\ run[r] \in Run
  BY DEF TypeOK
<1>1. CASE CheckPrice(r)
  <2>1. PICK s, loaded :
          \/ run' = [run EXCEPT ![r].at = "looking_up", ![r].current = s, ![r].loaded = loaded]
          \/ run' = [run EXCEPT ![r].todo = @ \ {s}]
    BY <1>1, Zenon DEF CheckPrice
  <2> DEFINE q1 == [run[r] EXCEPT !.at = "looking_up", !.current = s, !.loaded = loaded]
             q2 == [run[r] EXCEPT !.todo = @ \ {s}]
  <2>2. run' = [run EXCEPT ![r] = q1] \/ run' = [run EXCEPT ![r] = q2]
    BY <1>0, <2>1
  <2>3. q1.at = "looking_up" /\ q1.asked = run[r].asked /\ q1.timed = run[r].timed
    BY <1>0 DEF Run
  <2>4. q2.at = "storing" /\ q2.asked = run[r].asked /\ q2.timed = run[r].timed
    BY <1>0, <1>1, Zenon DEF Run, CheckPrice
  <2> HIDE DEF q1, q2
  <2>. QED
    BY <2>2, <2>3, <2>4
<1>2. CASE LookUp(r)
  <2> DEFINE s == run[r].current
             loaded == IF run[r].loaded # None THEN run[r].loaded
                       ELSE snapshots[<<s, Today(r)>>]
             new == [price |-> run[r].fetched[s], source |-> "automated"]
             writes == [run[r].writes EXCEPT ![s] = WriteOf(loaded, new)]
             q == [run[r] EXCEPT !.at = "storing", !.current = None, !.loaded = None,
                                 !.todo = @ \ {s}, !.writes = writes, !.pending = s]
  <2>1. run' = [run EXCEPT ![r].at = "storing", ![r].current = None,
                           ![r].loaded = None, ![r].todo = @ \ {s},
                           ![r].writes = writes, ![r].pending = s]
    BY <1>2 DEF LookUp
  <2> HIDE DEF s, writes
  <2>2. run' = [run EXCEPT ![r] = q]
    BY <1>0, <2>1
  <2>3. q.at = "storing" /\ q.asked = run[r].asked /\ q.timed = run[r].timed
    BY <1>0 DEF Run
  <2> HIDE DEF q
  <2>. QED
    BY <2>2, <2>3
<1>. QED
  BY <1>1, <1>2
\* The ways in which a run that has started may move.
Takes(r, q) ==
    /\ run[r].at \in Asking /\ q.at = "fetching"
    /\ Available(run[r].asked) \/ lock = NoRow
    /\ lock' = run[r].asked

Stays(r, q) ==
    /\ \/ run[r].at \in Asking /\ q.at \in Asking
       \/ run[r].at \in InCharge /\ q.at \in InCharge
    /\ lock' = lock

GivesUp(r, q) ==
    run[r].at \in Asking /\ q.at \in {"skipped", "crashed"} /\ lock' = lock

Leaves(r, q) ==
    /\ run[r].at \in InCharge
    /\ q.at \in {"releasing_again", "done", "failed", "crashed"}
    /\ lock' \in {lock, Released}

LeavesAgain(r, q) ==
    /\ run[r].at = "releasing_again" /\ q.at \in {"done", "crashed"}
    /\ lock' \in {lock, Released}

Moves(r, q) ==
    \/ Takes(r, q) \/ Stays(r, q) \/ GivesUp(r, q) \/ Leaves(r, q) \/ LeavesAgain(r, q)

\* Every step of a run is one of these moves.
LEMMA RunMoves ==
    ASSUME TypeOK, NEW r \in Runs, Fetch(r) \/ Crash(r) \/ RunStep(r)
    PROVE  /\ now' = now
           /\ \E q : /\ run' = [run EXCEPT ![r] = q] /\ q.asked = run[r].asked
                     /\ Moves(r, q)
<1> USE DEF Moves
<1>0. run \in [Runs -> Run] /\ run[r] \in Run
  BY DEF TypeOK
<1>2. ASSUME NEW at, run' = [run EXCEPT ![r] = EndedAs(r, at)]
      PROVE  \E q : run' = [run EXCEPT ![r] = q] /\ q.asked = run[r].asked /\ q.at = at
  <2>1. EndedAs(r, at).at = at /\ EndedAs(r, at).asked = run[r].asked
    BY DEF EndedAs, Waiting
  <2>. QED
    BY <1>2, <2>1
<1>3. ASSUME NEW at, Goto(r, at)
      PROVE  \E q : run' = [run EXCEPT ![r] = q] /\ q.asked = run[r].asked /\ q.at = at
  <2> DEFINE q == [run[r] EXCEPT !.at = at]
  <2>1. run' = [run EXCEPT ![r] = q] /\ q.asked = run[r].asked /\ q.at = at
    BY <1>0, <1>3 DEF Goto, Run
  <2> HIDE DEF q
  <2>. QED
    BY <2>1
<1>4. CASE TakeLock(r)
  <2>0. run[r].at = "asking" /\ now' = now
    BY <1>4 DEF TakeLock
  <2>1. CASE Available(run[r].asked) /\ lock' = run[r].asked /\ Goto(r, "fetching")
    <3>1. PICK q : run' = [run EXCEPT ![r] = q] /\ q.asked = run[r].asked /\ q.at = "fetching"
      BY <1>3, <2>1
    <3>2. Takes(r, q)
      BY <2>0, <2>1, <3>1 DEF Takes
    <3>. QED
      BY <2>0, <3>1, <3>2
  <2>2. CASE Goto(r, "rereading") /\ UNCHANGED lock
    <3>1. PICK q : run' = [run EXCEPT ![r] = q] /\ q.asked = run[r].asked /\ q.at = "rereading"
      BY <1>3, <2>2
    <3>2. Stays(r, q)
      BY <2>0, <2>2, <3>1 DEF Stays
    <3>. QED
      BY <2>0, <3>1, <3>2
  <2>. QED
    BY <1>4, <2>1, <2>2 DEF TakeLock
<1>5. CASE RereadLock(r) \/ InsertLock(r)
  <2>0. run[r].at \in Asking /\ now' = now
    BY <1>5 DEF RereadLock, InsertLock
  <2>1. CASE lock = NoRow /\ lock' = run[r].asked /\ Goto(r, "fetching")
    <3>1. PICK q : run' = [run EXCEPT ![r] = q] /\ q.asked = run[r].asked /\ q.at = "fetching"
      BY <1>3, <2>1
    <3>2. Takes(r, q)
      BY <2>0, <2>1, <3>1 DEF Takes
    <3>. QED
      BY <2>0, <3>1, <3>2
  <2>2. CASE Goto(r, "inserting") /\ UNCHANGED lock
    <3>1. PICK q : run' = [run EXCEPT ![r] = q] /\ q.asked = run[r].asked /\ q.at = "inserting"
      BY <1>3, <2>2
    <3>2. Stays(r, q)
      BY <2>0, <2>2, <3>1 DEF Stays
    <3>. QED
      BY <2>0, <3>1, <3>2
  <2>3. CASE End(r, "skipped") /\ UNCHANGED lock
    <3>1. PICK q : run' = [run EXCEPT ![r] = q] /\ q.asked = run[r].asked /\ q.at = "skipped"
      BY <1>2, <2>3 DEF End
    <3>2. GivesUp(r, q)
      BY <2>0, <2>3, <3>1 DEF GivesUp
    <3>. QED
      BY <2>0, <3>1, <3>2
  <2>. QED
    BY <1>5, <2>1, <2>2, <2>3 DEF RereadLock, InsertLock
<1>6. CASE Fetch(r)
  <2>0. run[r].at = "fetching" /\ now' = now /\ lock' = lock
    BY <1>6, Zenon DEF Fetch
  <2>1. PICK fetched :
          run' = [run EXCEPT ![r].at = "storing", ![r].fetched = fetched,
                             ![r].todo = {s \in Stocks : fetched[s] # None}]
    BY <1>6, Zenon DEF Fetch
  <2> DEFINE q == [run[r] EXCEPT !.at = "storing", !.fetched = fetched,
                                 !.todo = {s \in Stocks : fetched[s] # None}]
  <2>2. run' = [run EXCEPT ![r] = q] /\ q.asked = run[r].asked /\ q.at = "storing"
    BY <1>0, <2>1 DEF Run
  <2> HIDE DEF q
  <2>3. Stays(r, q)
    BY <2>0, <2>2 DEF Stays
  <2>. QED
    BY <2>0, <2>2, <2>3
<1>7. CASE CheckPrice(r) \/ LookUp(r)
  <2>0. run[r].at \in {"storing", "looking_up"} /\ now' = now /\ lock' = lock
    BY <1>7, Zenon DEF CheckPrice, LookUp
  <2>1. PICK q : /\ run' = [run EXCEPT ![r] = q] /\ q.at \in {"storing", "looking_up"}
                 /\ q.asked = run[r].asked
    BY <1>7, LoopStaysIn
  <2>2. Stays(r, q)
    BY <2>0, <2>1 DEF Stays
  <2>. QED
    BY <2>0, <2>1, <2>2
<1>8. CASE Flush(r)
  <2>0. run[r].at = "storing" /\ now' = now /\ lock' = lock
    BY <1>8 DEF Flush
  <2>1. CASE run' = [run EXCEPT ![r].pending = None, ![r].flushed = @ \cup {run[r].pending}]
    <3> DEFINE q == [run[r] EXCEPT !.pending = None, !.flushed = @ \cup {run[r].pending}]
    <3>1. run' = [run EXCEPT ![r] = q] /\ q.asked = run[r].asked /\ q.at = run[r].at
      BY <1>0, <2>1 DEF Run
    <3> HIDE DEF q
    <3>2. Stays(r, q)
      BY <2>0, <3>1 DEF Stays
    <3>. QED
      BY <2>0, <3>1, <3>2
  <2>2. CASE End(r, "failed")
    <3>1. PICK q : run' = [run EXCEPT ![r] = q] /\ q.asked = run[r].asked /\ q.at = "failed"
      BY <1>2, <2>2 DEF End
    <3>2. Leaves(r, q)
      BY <2>0, <3>1 DEF Leaves
    <3>. QED
      BY <2>0, <3>1, <3>2
  <2>. QED
    BY <1>8, <2>1, <2>2 DEF Flush
<1>9. CASE CommitPrices(r)
  <2>0. run[r].at = "storing" /\ now' = now /\ lock' = lock
    BY <1>9 DEF CommitPrices
  <2>1. PICK q : run' = [run EXCEPT ![r] = q] /\ q.asked = run[r].asked /\ q.at = "releasing"
    BY <1>2, <1>9 DEF CommitPrices
  <2>2. Stays(r, q)
    BY <2>0, <2>1 DEF Stays
  <2>. QED
    BY <2>0, <2>1, <2>2
<1>10. CASE Deadlocked(r) \/ Crash(r)
  <2>1. PICK at \in {"failed", "crashed"} :
          /\ End(r, at) /\ now' = now /\ lock' = lock
          /\ \/ at = "failed" /\ run[r].at \in InCharge
             \/ at = "crashed" /\ run[r].at \in Asking \cup InCharge \cup {"releasing_again"}
    BY <1>10 DEF Deadlocked, Crash
  <2>2. PICK q : run' = [run EXCEPT ![r] = q] /\ q.asked = run[r].asked /\ q.at = at
    BY <1>2, <2>1 DEF End
  <2>3. GivesUp(r, q) \/ Leaves(r, q) \/ LeavesAgain(r, q)
    BY <2>1, <2>2 DEF GivesUp, Leaves, LeavesAgain
  <2>. QED
    BY <2>1, <2>2, <2>3
<1>11. CASE Release(r) \/ ReleaseAgain(r)
  <2>1. PICK at \in {"releasing_again", "done"} :
          /\ Goto(r, at) \/ End(r, at)
          /\ now' = now /\ lock' = Released
          /\ run[r].at = "releasing" \/ (run[r].at = "releasing_again" /\ at = "done")
    BY <1>11 DEF Release, ReleaseAgain
  <2>2. PICK q : run' = [run EXCEPT ![r] = q] /\ q.asked = run[r].asked /\ q.at = at
    BY <1>2, <1>3, <2>1 DEF End
  <2>3. Leaves(r, q) \/ LeavesAgain(r, q)
    BY <2>1, <2>2 DEF Leaves, LeavesAgain
  <2>. QED
    BY <2>1, <2>2, <2>3
<1>12. CASE TimeOut(r)
  <2>0. run[r].at \in InCharge /\ now' = now /\ lock' = lock
    BY <1>12 DEF TimeOut
  <2>1. CASE End(r, "failed")
    <3>1. PICK q : run' = [run EXCEPT ![r] = q] /\ q.asked = run[r].asked /\ q.at = "failed"
      BY <1>2, <2>1 DEF End
    <3>2. Leaves(r, q)
      BY <2>0, <3>1 DEF Leaves
    <3>. QED
      BY <2>0, <3>1, <3>2
  <2>2. CASE run' = [run EXCEPT ![r].at = "releasing", ![r].timed = TRUE]
    <3> DEFINE q == [run[r] EXCEPT !.at = "releasing", !.timed = TRUE]
    <3>1. run' = [run EXCEPT ![r] = q] /\ q.asked = run[r].asked /\ q.at = "releasing"
      BY <1>0, <2>2 DEF Run
    <3> HIDE DEF q
    <3>2. Stays(r, q)
      BY <2>0, <3>1 DEF Stays
    <3>. QED
      BY <2>0, <3>1, <3>2
  <2>. QED
    BY <1>12, <2>1, <2>2 DEF TimeOut
<1>. QED
  BY <1>4, <1>5, <1>6, <1>7, <1>8, <1>9, <1>10, <1>11, <1>12 DEF RunStep

\* Nobody has asked later than now, and who is still asking asks now.
AskedInTime ==
    \A r \in Runs : run[r].asked <= now /\ (run[r].at \in Asking => run[r].asked = now)

\* Time passes only while nobody asks and every run in charge may still be
\* answered.
LEMMA TickWaits ==
    ASSUME TypeOK, Tick, NEW r \in Runs
    PROVE  /\ run[r].at \notin Asking
           /\ run[r].at \in InCharge => now + 1 <= run[r].asked + Timeout
<1>1. now \in Nat /\ run[r] \in Run /\ run[r].asked \in Nat
  BY DEF TypeOK, Run
<1>2. run[r].at \in {"waiting"} \cup Ended \/ (run[r].at = "fetching" /\ ~TimeIsUp(r))
  BY DEF Tick
<1>. QED
  BY <1>1, <1>2, TimeAssumption DEF TimeIsUp

LEMMA StartAsks ==
    ASSUME TypeOK, NEW r \in Runs, Start(r)
    PROVE  /\ run[r].at = "waiting" /\ run'[r].at \in {"skipped", "asking"}
           /\ run'[r].asked = now /\ now' = now /\ lock' = lock
           /\ \A o \in Runs \ {r} : run'[o] = run[o]
<1> DEFINE at == IF Day(now) \in Holidays THEN "skipped" ELSE "asking"
<1>1. /\ run'[r] = [run[r] EXCEPT !.at = at, !.asked = now]
      /\ \A o \in Runs \ {r} : run'[o] = run[o]
      /\ run[r].at = "waiting" /\ now' = now /\ lock' = lock
  BY DEF Start, TypeOK
<1>. QED
  BY <1>1 DEF TypeOK, Run

\* The steps of the specification, as the lock sees them.
LEMMA LockSteps ==
    ASSUME TypeOK, [Next]_vars
    PROVE  \/ UNCHANGED <<now, lock, run>>
           \/ Tick
           \/ \E r \in Runs : Start(r)
           \/ \E r \in Runs : Fetch(r) \/ Crash(r) \/ RunStep(r)
<1>1. \A u \in Users : OverrideRead(u) \/ OverrideWrite(u) => UNCHANGED <<now, lock, run>>
  BY DEF OverrideRead, OverrideWrite
<1>2. UNCHANGED vars => UNCHANGED <<now, lock, run>>
  BY DEF vars
<1>. QED
  BY <1>1, <1>2 DEF Next

LEMMA NextAsks ==
    ASSUME TypeOK, AskedInTime, [Next]_vars PROVE AskedInTime'
<1>0. now \in Nat /\ \A r \in Runs : run[r].asked \in Nat
  BY DEF TypeOK, Run
<1>1. CASE UNCHANGED <<now, lock, run>>
  BY <1>1 DEF AskedInTime
<1>2. CASE Tick
  <2>1. now' = now + 1 /\ run' = run
    BY <1>2 DEF Tick
  <2>2. \A r \in Runs : run[r].at \notin Asking
    BY <1>2, TickWaits
  <2>. QED
    BY <1>0, <2>1, <2>2 DEF AskedInTime
<1>3. ASSUME NEW r \in Runs, Start(r) PROVE AskedInTime'
  <2>1. /\ run'[r].asked = now /\ now' = now
        /\ \A o \in Runs \ {r} : run'[o] = run[o]
    BY <1>3, StartAsks
  <2>. QED
    BY <1>0, <2>1 DEF AskedInTime
<1>4. ASSUME NEW r \in Runs, Fetch(r) \/ Crash(r) \/ RunStep(r) PROVE AskedInTime'
  <2>1. PICK q : /\ run' = [run EXCEPT ![r] = q] /\ q.asked = run[r].asked /\ Moves(r, q)
                 /\ now' = now
    BY <1>4, RunMoves
  <2>2. run'[r] = q /\ \A o \in Runs \ {r} : run'[o] = run[o]
    BY <2>1, OthersStay
  <2>3. q.at \in Asking => run[r].at \in Asking
    BY <2>1 DEF Moves, Takes, Stays, GivesUp, Leaves, LeavesAgain
  <2>. QED
    BY <2>1, <2>2, <2>3 DEF AskedInTime
<1>. QED
  BY <1>1, <1>2, <1>3, <1>4, LockSteps

LEMMA InitAsks == Init => AskedInTime
  BY DEF Init, AskedInTime, Waiting

\* No run in charge: the lock may be taken.
LEMMA NobodyInCharge ==
    ASSUME TypeOK, InChargeIsFresh, NEW r \in Runs,
           Available(run[r].asked) \/ lock = NoRow
    PROVE  Working = {}
<1> SUFFICES ASSUME NEW q \in Working PROVE FALSE
  OBVIOUS
<1>1. /\ q \in Runs /\ lock = run[q].asked /\ now <= run[q].asked + Timeout
      /\ run[r].asked <= now
  BY DEF InChargeIsFresh, Working
<1>2. run[q].asked \in Nat /\ run[r].asked \in Nat /\ now \in Nat
  BY <1>1 DEF TypeOK, Run
<1>3. lock < run[r].asked - Ttl
  BY <1>1, <1>2, LockAssumption DEF Available
<1>. QED
  BY <1>1, <1>2, <1>3, TimeAssumption

\* A move of a run, when nobody works as a run releases the lock again.
LEMMA MoveFresh ==
    ASSUME TypeOK, SecondReleaseApart, InChargeIsFresh, NEW r \in Runs, NEW q,
           run' = [run EXCEPT ![r] = q], q.asked = run[r].asked, Moves(r, q),
           now' = now
    PROVE  /\ \A o \in Working' : lock' = run'[o].asked /\ now' <= run'[o].asked + Timeout
           /\ OneRunAtATime'
<1>0. run'[r] = q /\ \A o \in Runs \ {r} : run'[o] = run[o]
  BY OthersStay
<1>1. /\ \A o \in Runs : run'[o].asked = run[o].asked
      /\ \A o \in Working : o \in Runs /\ lock = run[o].asked /\ now <= run[o].asked + Timeout
      /\ \A o, p \in Working : o = p
  BY <1>0 DEF InChargeIsFresh, Working, OneRunAtATime
<1>2. CASE Takes(r, q)
  <2>1. Working = {}
    BY <1>2, NobodyInCharge DEF Takes
  <2>2. Working' = {r}
    BY <1>0, <1>2, <2>1 DEF Working, Takes
  <2>3. run[r].asked = now /\ now \in Nat
    BY <1>2 DEF InChargeIsFresh, Takes, TypeOK
  <2>. QED
    BY <1>1, <1>2, <2>2, <2>3, TimeAssumption DEF Takes, OneRunAtATime
<1>3. CASE Stays(r, q) \/ GivesUp(r, q)
  <2>1. Working' \subseteq Working
    BY <1>0, <1>3 DEF Working, Stays, GivesUp
  <2>2. lock' = lock
    BY <1>3 DEF Stays, GivesUp
  <2>. QED
    BY <1>1, <2>1, <2>2 DEF OneRunAtATime
<1>4. CASE Leaves(r, q)
  <2>1. Working' \subseteq Working \ {r} /\ r \in Working
    BY <1>0, <1>4 DEF Working, Leaves
  <2>2. Working' = {}
    BY <1>1, <2>1
  <2>. QED
    BY <2>2 DEF OneRunAtATime
<1>5. CASE LeavesAgain(r, q)
  <2>1. Working = {}
    BY <1>5 DEF LeavesAgain, SecondReleaseApart
  <2>2. Working' \subseteq Working
    BY <1>0, <1>5 DEF Working, LeavesAgain
  <2>3. Working' = {}
    BY <2>1, <2>2
  <2>. QED
    BY <2>3 DEF OneRunAtATime
<1>. QED
  BY <1>2, <1>3, <1>4, <1>5 DEF Moves

LEMMA NextFresh ==
    ASSUME TypeOK, SecondReleaseApart, InChargeIsFresh, AskedInTime', [Next]_vars
    PROVE  InChargeIsFresh'
<1>0. now \in Nat /\ \A r \in Runs : run[r].asked \in Nat
  BY DEF TypeOK, Run
<1>1. SUFFICES /\ \A o \in Working' : lock' = run'[o].asked /\ now' <= run'[o].asked + Timeout
               /\ OneRunAtATime'
  BY DEF InChargeIsFresh, AskedInTime
<1>2. CASE UNCHANGED <<now, lock, run>>
  <2>1. Working' = Working
    BY <1>2 DEF Working
  <2>. QED
    BY <1>2, <2>1 DEF InChargeIsFresh, OneRunAtATime
<1>3. CASE Tick
  <2>1. now' = now + 1 /\ run' = run /\ lock' = lock
    BY <1>3 DEF Tick
  <2>2. Working' = Working
    BY <2>1 DEF Working
  <2>3. \A o \in Working : o \in Runs /\ run[o].at \in InCharge
    BY DEF Working
  <2>4. \A o \in Working : now + 1 <= run[o].asked + Timeout
    BY <1>3, <2>3, TickWaits
  <2>. QED
    BY <2>1, <2>2, <2>4 DEF InChargeIsFresh, OneRunAtATime
<1>4. ASSUME NEW r \in Runs, Start(r)
      PROVE  /\ \A o \in Working' : lock' = run'[o].asked /\ now' <= run'[o].asked + Timeout
             /\ OneRunAtATime'
  <2>1. /\ run[r].at = "waiting" /\ run'[r].at \in {"skipped", "asking"}
        /\ now' = now /\ lock' = lock /\ \A o \in Runs \ {r} : run'[o] = run[o]
    BY <1>4, StartAsks
  <2>2. Working' = Working /\ r \notin Working
    BY <2>1 DEF Working
  <2>3. \A o \in Working : o \in Runs \ {r}
    BY <2>2 DEF Working
  <2>. QED
    BY <2>1, <2>2, <2>3 DEF InChargeIsFresh, OneRunAtATime
<1>5. ASSUME NEW r \in Runs, Fetch(r) \/ Crash(r) \/ RunStep(r)
      PROVE  /\ \A o \in Working' : lock' = run'[o].asked /\ now' <= run'[o].asked + Timeout
             /\ OneRunAtATime'
  <2>1. PICK q : /\ run' = [run EXCEPT ![r] = q] /\ q.asked = run[r].asked /\ Moves(r, q)
                 /\ now' = now
    BY <1>5, RunMoves
  <2>. QED
    BY <2>1, MoveFresh
<1>. QED
  BY <1>2, <1>3, <1>4, <1>5, LockSteps

LEMMA InitFresh == Init => InChargeIsFresh
<1> SUFFICES ASSUME Init PROVE InChargeIsFresh
  OBVIOUS
<1>1. \A r \in Runs : run[r].at = "waiting" /\ run[r].asked = 0
  BY DEF Init, Waiting
<1>2. Working = {}
  BY <1>1 DEF Working
<1>. QED
  BY <1>1, <1>2 DEF Init, InChargeIsFresh, OneRunAtATime

LEMMA AlwaysAskedInTime == Spec => []AskedInTime
  BY InitAsks, NextAsks, TypesAreOK, PTL DEF Spec

\* The invariant behind mutual exclusion, for any number of runs, any lock
\* lifetime and any timeout within it, whatever crashes, fails or is
\* cancelled: a run in charge wrote the lock and is not older than the
\* timeout, until a second release comes while another run is in charge.
THEOREM InChargeStaysFresh == Spec /\ []SecondReleaseApart => []InChargeIsFresh
<1>1. TypeOK /\ SecondReleaseApart /\ InChargeIsFresh /\ AskedInTime' /\ [Next]_vars
      => InChargeIsFresh'
  BY NextFresh
<1>. QED
  BY <1>1, InitFresh, TypesAreOK, AlwaysAskedInTime, PTL DEF Spec

\* HIGH-R-004: two runs never fetch and store prices at the same time, unless
\* the second release of a cancelled run has come too late.
THEOREM RunsExclude == Spec => LockExcludes
<1>1. InChargeIsFresh => OneRunAtATime
  BY DEF InChargeIsFresh
<1>2. Spec /\ []SecondReleaseApart => []OneRunAtATime
  BY <1>1, InChargeStaysFresh, PTL
<1>. QED
  BY <1>2, PTL DEF LockExcludes

-----------------------------------------------------------------------------
(* Whom the lock keeps out.  A time in the lock row is that of a run that  *)
(* has taken it, and a refused run was refused for one.                    *)

Blocked(r) ==
    \E q \in Runs \ {r} : HasTaken(q) /\ run[r].asked <= run[q].asked + Ttl

LockHasTaker ==
    /\ lock \in Nat => \E q \in Runs : HasTaken(q) /\ run[q].asked = lock
    /\ \A r \in Runs : run[r].at \in {"rereading", "inserting"} => lock = NoRow \/ Blocked(r)

\* Who has taken the lock stays one who has.
LEMMA TakenStays ==
    ASSUME TypeOK, NEW r \in Runs, NEW q,
           run' = [run EXCEPT ![r] = q], q.asked = run[r].asked, Moves(r, q)
    PROVE  \A o \in Runs : /\ HasTaken(o) => HasTaken(o)'
                           /\ run'[o].asked = run[o].asked
<1>1. run'[r] = q /\ \A o \in Runs \ {r} : run'[o] = run[o]
  BY OthersStay
<1>2. HasTaken(r) => HasTaken(r)'
  BY <1>1 DEF HasTaken, Moves, Takes, Stays, GivesUp, Leaves, LeavesAgain
<1>. QED
  BY <1>1, <1>2 DEF HasTaken

\* Who refuses a run, as it is refused.
LEMMA RefusedIsBlocked ==
    ASSUME TypeOK, LockHasTaker, NEW r \in Runs, run[r].at = "asking",
           ~Available(run[r].asked)
    PROVE  lock = NoRow \/ Blocked(r)
<1>1. run[r].asked \in Nat /\ lock \in {NoRow, Free} \cup Nat
  BY DEF TypeOK, Run
<1>2. CASE lock \in Nat
  <2>1. PICK q \in Runs : HasTaken(q) /\ run[q].asked = lock
    BY <1>2 DEF LockHasTaker
  <2>2. q # r
    BY <2>1 DEF HasTaken
  <2>3. run[r].asked <= lock + Ttl
    BY <1>1, <1>2, TimeAssumption DEF Available
  <2>. QED
    BY <2>1, <2>2, <2>3 DEF Blocked
<1>. QED
  BY <1>1, <1>2 DEF Available

LEMMA MoveHasTaker ==
    ASSUME TypeOK, AskedInTime, LockHasTaker, NEW r \in Runs,
           Fetch(r) \/ Crash(r) \/ RunStep(r)
    PROVE  LockHasTaker'
<1>1. PICK q : run' = [run EXCEPT ![r] = q] /\ q.asked = run[r].asked /\ Moves(r, q)
  BY RunMoves
<1>2. run'[r] = q /\ \A o \in Runs \ {r} : run'[o] = run[o]
  BY <1>1, OthersStay
<1>3. \A o \in Runs : (HasTaken(o) => HasTaken(o)') /\ run'[o].asked = run[o].asked
  BY <1>1, TakenStays
<1>4. \/ Takes(r, q)
      \/ lock' = lock \/ (lock' = Released /\ run[r].at \notin Asking)
  BY <1>1 DEF Moves, Takes, Stays, GivesUp, Leaves, LeavesAgain
<1>5. lock' \in Nat => \E o \in Runs : HasTaken(o)' /\ run'[o].asked = lock'
  <2>1. CASE Takes(r, q)
    BY <1>2, <1>3, <2>1 DEF Takes, HasTaken
  <2>2. CASE lock' = lock
    BY <1>3, <2>2 DEF LockHasTaker
  <2>3. CASE lock' = Released
    BY <2>3, LockAssumption DEF Released
  <2>. QED
    BY <1>4, <2>1, <2>2, <2>3
<1>6. \A o \in Runs : Blocked(o) => Blocked(o)'
  BY <1>3 DEF Blocked
<1>7. ASSUME NEW o \in Runs, run'[o].at \in {"rereading", "inserting"}
      PROVE  lock' = NoRow \/ Blocked(o)'
  <2>1. CASE o # r
    <3>1. lock = NoRow \/ Blocked(o)
      BY <1>2, <1>7, <2>1 DEF LockHasTaker
    <3>2. CASE Takes(r, q)
      <4>1. run[o].at \in Asking /\ run[r].at \in Asking
        BY <1>2, <1>7, <2>1, <3>2 DEF Takes
      <4>2. run[o].asked = now /\ run[r].asked = now /\ now \in Nat
        BY <4>1 DEF AskedInTime, TypeOK
      <4>3. HasTaken(r)'
        BY <1>2, <3>2 DEF HasTaken, Takes
      <4>4. run'[o].asked <= run'[r].asked + Ttl
        BY <1>3, <4>2, TimeAssumption
      <4>. QED
        BY <2>1, <4>3, <4>4 DEF Blocked
    <3>3. CASE lock' = lock \/ lock' = Released
      BY <1>6, <3>1, <3>3 DEF Released
    <3>. QED
      BY <1>4, <3>2, <3>3
  <2>2. CASE o = r
    <3>1. run[r].at \in Asking /\ lock' = lock
      BY <1>1, <1>2, <1>7, <2>2 DEF Moves, Takes, Stays, GivesUp, Leaves, LeavesAgain
    <3>2. CASE run[r].at = "asking"
      <4>1. TakeLock(r) \/ Crash(r)
        BY <3>2, Zenon DEF RunStep, Fetch, TakeLock, RereadLock, InsertLock, CheckPrice,
           LookUp, Flush, Deadlocked, CommitPrices, Release, ReleaseAgain, TimeOut
      <4>2. ~Crash(r)
        BY <1>7, <2>2, EndedTyped DEF Crash, End, TypeOK
      <4>3. ~(Goto(r, "fetching"))
        BY <1>7, <2>2 DEF Goto, TypeOK, Run
      <4>4. ~Available(run[r].asked)
        BY <4>1, <4>2, <4>3 DEF TakeLock
      <4>. QED
        BY <1>6, <2>2, <3>1, <3>2, <4>4, RefusedIsBlocked
    <3>3. CASE run[r].at \in {"rereading", "inserting"}
      BY <1>6, <2>2, <3>1, <3>3 DEF LockHasTaker
    <3>. QED
      BY <3>1, <3>2, <3>3
  <2>. QED
    BY <2>1, <2>2
<1>. QED
  BY <1>5, <1>7 DEF LockHasTaker

LEMMA NextHasTaker ==
    ASSUME TypeOK, AskedInTime, LockHasTaker, [Next]_vars PROVE LockHasTaker'
<1>1. CASE UNCHANGED <<lock, run>>
  BY <1>1 DEF LockHasTaker, Blocked, HasTaken
<1>2. ASSUME NEW r \in Runs, Start(r) PROVE LockHasTaker'
  <2>1. /\ run[r].at = "waiting" /\ run'[r].at \in {"skipped", "asking"} /\ lock' = lock
        /\ \A o \in Runs \ {r} : run'[o] = run[o]
    BY <1>2, StartAsks
  <2>2. \A o \in Runs : HasTaken(o) => HasTaken(o)' /\ run'[o].asked = run[o].asked
    BY <2>1 DEF HasTaken
  <2>3. ASSUME NEW o \in Runs \ {r}, Blocked(o) PROVE Blocked(o)'
    BY <2>1, <2>2, <2>3 DEF Blocked
  <2>. QED
    BY <2>1, <2>2, <2>3 DEF LockHasTaker
<1>3. Tick => UNCHANGED <<lock, run>>
  BY DEF Tick
<1>. QED
  BY <1>1, <1>2, <1>3, MoveHasTaker, LockSteps

LEMMA InitHasTaker == Init => LockHasTaker
<1> SUFFICES ASSUME Init PROVE LockHasTaker
  OBVIOUS
<1>1. \A r \in Runs : run[r].at = "waiting"
  BY DEF Init, Waiting
<1>. QED
  BY <1>1, LockAssumption DEF Init, LockHasTaker

\* A run that is skipped in a step had been refused: it meets a time when it
\* reads the lock again, or a row when it inserts its own.
LEMMA SkipStep ==
    ASSUME TypeOK, LockHasTaker, Next, NEW r \in Runs,
           run[r].at \in Asking, run'[r].at = "skipped"
    PROVE  Blocked(r)
<1>1. PICK o \in Runs : Fetch(o) \/ Crash(o) \/ RunStep(o)
  <2>1. ~Tick /\ ~UNCHANGED <<now, lock, run>>
    BY DEF Tick
  <2>2. \A o \in Runs : ~Start(o)
    BY StartAsks
  <2>. QED
    BY <2>1, <2>2, LockSteps
<1>2. o = r
  <2>1. PICK q : run' = [run EXCEPT ![o] = q]
    BY <1>1, RunMoves
  <2>. QED
    BY <2>1, OthersStay
<1>3. TakeLock(r) \/ RereadLock(r) \/ InsertLock(r) \/ Crash(r)
  BY <1>1, <1>2, Zenon DEF RunStep, Fetch, CheckPrice, LookUp, Flush, Deadlocked,
     CommitPrices, Release, ReleaseAgain, TimeOut
<1>4. ~Crash(r) /\ ~TakeLock(r)
  <2>1. \A at : Goto(r, at) => run'[r].at = at
    BY DEF Goto, TypeOK, Run
  <2>2. End(r, "crashed") => run'[r].at = "crashed"
    BY EndedTyped DEF End, TypeOK
  <2>. QED
    BY <2>1, <2>2 DEF Crash, TakeLock
<1>5. RereadLock(r) => run[r].at = "rereading" /\ lock \in Nat
  <2>1. Goto(r, "inserting") => run'[r].at = "inserting"
    BY DEF Goto, TypeOK, Run
  <2>. QED
    BY <2>1 DEF RereadLock
<1>6. InsertLock(r) => run[r].at = "inserting" /\ lock # NoRow
  <2>1. Goto(r, "fetching") => run'[r].at = "fetching"
    BY DEF Goto, TypeOK, Run
  <2>. QED
    BY <2>1 DEF InsertLock
<1>. QED
  BY <1>3, <1>4, <1>5, <1>6, LockAssumption DEF LockHasTaker

\* HIGH-R-004: a lock that was left behind keeps runs out for Ttl hours and no
\* longer, whatever crashes, fails, is cancelled or overlaps: who is skipped
\* finds another run that has taken the lock since.
THEOREM LeftLocksExpire == Spec => SkipIsJustified
<1>1. Spec => []LockHasTaker
  <2>1. TypeOK /\ AskedInTime /\ LockHasTaker /\ [Next]_vars => LockHasTaker'
    BY NextHasTaker
  <2>. QED
    BY <2>1, InitHasTaker, TypesAreOK, AlwaysAskedInTime, PTL DEF Spec
<1>2. TypeOK /\ LockHasTaker /\ [Next]_vars =>
         [\A r \in Runs :
             run[r].at \in Asking /\ run'[r].at = "skipped" =>
                \E q \in Runs \ {r} :
                   HasTaken(q) /\ run[r].asked <= run[q].asked + Ttl]_vars
  BY SkipStep DEF Blocked
<1>. QED
  BY <1>1, <1>2, TypesAreOK, PTL DEF Spec, SkipIsJustified

-----------------------------------------------------------------------------
(* The row locks of the sessions, whatever is cancelled, killed or late    *)

Storing == {"storing", "looking_up"}

\* No row is locked by two runs.
RowsHaveOneWriter ==
    \A r, o \in Runs : r # o => LockedBy(r) \cap LockedBy(o) = {}

\* A row that a run has written and locked changes at that run's commit only,
\* and stays locked until the run commits, fails or is killed.
LeftToItsWriter(r) ==
    \A row \in LockedBy(r) :
        /\ snapshots'[row] # snapshots[row] => CommitPrices(r)
        /\ run'[r].at \in Storing => row \in LockedBy(r)'

WrittenRowsWait == [][\A r \in Runs : LeftToItsWriter(r)]_vars

\* A run that is about to write a row finds it unlocked.
NoRunWaits ==
    \A r \in Runs : run[r].pending # None => ~Locked(<<run[r].pending, Today(r)>>)

\* A session writes each stock once, and holds rows only while it stores.
WritesEachOnce(q) ==
    /\ q.at \notin Storing => q.pending = None /\ q.flushed = {}
    /\ q.at = "looking_up" => q.pending = None /\ q.current \in q.todo
    /\ q.todo \cap q.flushed = {} /\ q.pending \notin q.todo \cup q.flushed

LocksSound ==
    /\ \A r \in Runs : WritesEachOnce(run[r])
    /\ RowsHaveOneWriter

\* What a run's step may do to its session: it takes no row, forgets them all,
\* or writes the pending one.
LEMMA SessionStep ==
    ASSUME TypeOK, NEW r \in Runs, WritesEachOnce(run[r]), Start(r) \/ Fetch(r) \/ Crash(r) \/ RunStep(r)
    PROVE  /\ WritesEachOnce(run'[r])
           /\ \/ run'[r].flushed = {}
              \/ run'[r].flushed = run[r].flushed
              \/ /\ run'[r].flushed = run[r].flushed \cup {run[r].pending}
                 /\ ~Locked(<<run[r].pending, Today(r)>>)
           /\ run'[r].at \in Storing => run[r].flushed \subseteq run'[r].flushed
           /\ \A o \in Runs \ {r} : run'[o] = run[o]
<1>. DEFINE Good(q) == /\ WritesEachOnce(q)
                       /\ \/ q.flushed = {}
                          \/ q.flushed = run[r].flushed
                          \/ /\ q.flushed = run[r].flushed \cup {run[r].pending}
                             /\ ~Locked(<<run[r].pending, Today(r)>>)
                       /\ q.at \in Storing => run[r].flushed \subseteq q.flushed
<1>1. run \in [Runs -> Run] /\ run[r] \in Run
  BY DEF TypeOK
<1>2. None \notin Stocks /\ run[r].todo \subseteq Stocks
  BY <1>1, PriceAssumption DEF Run
<1>3. ASSUME NEW q, run' = [run EXCEPT ![r] = q], Good(q)
      PROVE  Good(run'[r]) /\ \A o \in Runs \ {r} : run'[o] = run[o]
  <2>1. run'[r] = q /\ \A o \in Runs \ {r} : run'[o] = run[o]
    BY <1>3, OthersStay
  <2>. QED
    BY <1>3, <2>1
<1>4. ASSUME NEW at, at \notin Storing, End(r, at)
      PROVE  Good(run'[r]) /\ \A o \in Runs \ {r} : run'[o] = run[o]
  <2>. DEFINE q == EndedAs(r, at)
  <2>1. /\ q.at = at /\ q.pending = None /\ q.flushed = {} /\ q.todo = {}
    BY DEF EndedAs, Waiting
  <2>2. run' = [run EXCEPT ![r] = q]
    BY <1>4 DEF End
  <2>. HIDE DEF q
  <2>3. Good(q)
    BY <1>4, <2>1 DEF WritesEachOnce, Storing
  <2>. QED
    BY <1>3, <2>2, <2>3
\* A step from outside the loop over the prices, to outside or to its start.
<1>5. ASSUME NEW q, run' = [run EXCEPT ![r] = q], run[r].at \notin Storing,
             q.at \notin {"looking_up"}, q.pending = run[r].pending, q.flushed = run[r].flushed,
             q.todo = run[r].todo \/ q.todo \subseteq Stocks
      PROVE  Good(run'[r]) /\ \A o \in Runs \ {r} : run'[o] = run[o]
  <2>1. q.pending = None /\ q.flushed = {} /\ run[r].flushed = {}
    BY <1>5 DEF WritesEachOnce
  <2>2. q.pending \notin q.todo
    BY <1>2, <1>5, <2>1
  <2>3. Good(q)
    BY <1>5, <2>1, <2>2 DEF WritesEachOnce
  <2>. QED
    BY <1>3, <1>5, <2>3
<1>6. ASSUME NEW at, at \notin Storing, Goto(r, at), run[r].at \notin Storing
      PROVE  Good(run'[r]) /\ \A o \in Runs \ {r} : run'[o] = run[o]
  <2>. DEFINE q == [run[r] EXCEPT !.at = at]
  <2>1. /\ run' = [run EXCEPT ![r] = q]
        /\ q.at = at /\ q.pending = run[r].pending /\ q.flushed = run[r].flushed
        /\ q.todo = run[r].todo
    BY <1>1, <1>6 DEF Goto, Run
  <2>. HIDE DEF q
  <2>. QED
    BY <1>5, <1>6, <2>1 DEF Storing
<1>. HIDE DEF Good
<1>7. CASE TakeLock(r) \/ RereadLock(r) \/ InsertLock(r) \/ Release(r)
  <2>1. \/ \E at : at \notin Storing /\ End(r, at)
        \/ \E at : at \notin Storing /\ Goto(r, at) /\ run[r].at \notin Storing
    BY <1>7 DEF TakeLock, RereadLock, InsertLock, Release, Storing
  <2>. QED
    BY <1>4, <1>6, <2>1 DEF Good
<1>8. CASE ReleaseAgain(r) \/ Crash(r) \/ Deadlocked(r)
  <2>1. \E at : at \notin Storing /\ End(r, at)
    BY <1>8 DEF ReleaseAgain, Crash, Deadlocked, Storing
  <2>. QED
    BY <1>4, <2>1 DEF Good
<1>9. CASE Start(r)
  <2>. DEFINE at == IF Day(now) \in Holidays THEN "skipped" ELSE "asking"
  <2>1. /\ at \notin Storing /\ run' = [run EXCEPT ![r].at = at, ![r].asked = now]
        /\ run[r].at \notin Storing
    BY <1>9 DEF Start, Storing
  <2>. HIDE DEF at
  <2>. DEFINE q == [run[r] EXCEPT !.at = at, !.asked = now]
  <2>2. /\ run' = [run EXCEPT ![r] = q]
        /\ q.at = at /\ q.pending = run[r].pending /\ q.flushed = run[r].flushed
        /\ q.todo = run[r].todo
    BY <1>1, <2>1 DEF Run
  <2>. HIDE DEF q
  <2>. QED
    BY <1>5, <2>1, <2>2 DEF Good, Storing
<1>10. CASE Fetch(r)
  <2>0. PICK fetched :
          /\ run' = [run EXCEPT ![r].at = "storing", ![r].fetched = fetched,
                                ![r].todo = {s \in Stocks : fetched[s] # None}]
          /\ run[r].at = "fetching"
    BY <1>10, Zenon DEF Fetch
  <2>. DEFINE todo == {s \in Stocks : fetched[s] # None}
  <2>1. /\ run' = [run EXCEPT ![r].at = "storing", ![r].fetched = fetched, ![r].todo = todo]
        /\ todo \subseteq Stocks /\ run[r].at \notin Storing
    BY <2>0 DEF Storing
  <2>. HIDE DEF todo
  <2>. DEFINE q == [run[r] EXCEPT !.at = "storing", !.fetched = fetched, !.todo = todo]
  <2>2. /\ run' = [run EXCEPT ![r] = q]
        /\ q.at = "storing" /\ q.pending = run[r].pending /\ q.flushed = run[r].flushed
        /\ q.todo = todo
    BY <1>1, <2>1 DEF Run
  <2>. HIDE DEF q
  <2>. QED
    BY <1>5, <2>1, <2>2 DEF Good
<1>11. CASE CheckPrice(r)
  <2>1. PICK s \in run[r].todo :
          \/ \E loaded : run' = [run EXCEPT ![r].at = "looking_up", ![r].current = s, ![r].loaded = loaded]
          \/ run' = [run EXCEPT ![r].todo = @ \ {s}]
    BY <1>11, Zenon DEF CheckPrice
  <2>2. run[r].at = "storing" /\ run[r].pending = None
    BY <1>11 DEF CheckPrice
  <2>3. ASSUME NEW loaded,
               run' = [run EXCEPT ![r].at = "looking_up", ![r].current = s, ![r].loaded = loaded]
        PROVE  Good(run'[r]) /\ \A o \in Runs \ {r} : run'[o] = run[o]
    <3>. DEFINE q == [run[r] EXCEPT !.at = "looking_up", !.current = s, !.loaded = loaded]
    <3>1. run' = [run EXCEPT ![r] = q]
      BY <1>1, <2>3, Zenon
    <3>2. /\ q.at = "looking_up" /\ q.pending = None /\ q.flushed = run[r].flushed
          /\ q.todo = run[r].todo /\ q.current = s
      BY <1>1, <2>2 DEF Run
    <3>. HIDE DEF q
    <3>3. Good(q)
      BY <2>2, <3>2 DEF Good, WritesEachOnce, Storing
    <3>. QED
      BY <1>3, <3>1, <3>3 DEF Good
  <2>4. ASSUME run' = [run EXCEPT ![r].todo = @ \ {s}]
        PROVE  Good(run'[r]) /\ \A o \in Runs \ {r} : run'[o] = run[o]
    <3>. DEFINE q == [run[r] EXCEPT !.todo = @ \ {s}]
    <3>1. /\ run' = [run EXCEPT ![r] = q]
          /\ q.at = "storing" /\ q.pending = None /\ q.flushed = run[r].flushed
          /\ q.todo = run[r].todo \ {s}
      BY <1>1, <2>2, <2>4 DEF Run
    <3>. HIDE DEF q
    <3>2. Good(q)
      BY <2>2, <3>1 DEF Good, WritesEachOnce, Storing
    <3>. QED
      BY <1>3, <3>1, <3>2 DEF Good
  <2>. QED
    BY <2>1, <2>3, <2>4 DEF Good
<1>12. CASE LookUp(r)
  <2>. DEFINE s == run[r].current
  <2>1. PICK w :
          run' = [run EXCEPT ![r].at = "storing", ![r].current = None, ![r].loaded = None,
                             ![r].todo = @ \ {s}, ![r].writes = w, ![r].pending = s]
    <3>1. \E w, v : run' = [run EXCEPT ![r].at = "storing", ![r].current = None,
                                       ![r].loaded = None, ![r].todo = @ \ {s},
                                       ![r].writes = [@ EXCEPT ![s] = w], ![r].pending = s]
      BY <1>12, Zenon DEF LookUp
    <3>. QED
      BY <1>1, <3>1, Zenon
  <2>2. run[r].at = "looking_up"
    BY <1>12 DEF LookUp
  <2>3. s \in run[r].todo
    BY <2>2 DEF WritesEachOnce
  <2>. DEFINE q == [run[r] EXCEPT !.at = "storing", !.current = None, !.loaded = None,
                                  !.todo = @ \ {s}, !.writes = w, !.pending = s]
  <2>4. /\ run' = [run EXCEPT ![r] = q]
        /\ q.at = "storing" /\ q.pending = s /\ q.flushed = run[r].flushed
        /\ q.todo = run[r].todo \ {s}
    BY <1>1, <2>1 DEF Run
  <2>. HIDE DEF q
  <2>5. Good(q)
    BY <2>2, <2>3, <2>4 DEF Good, WritesEachOnce, Storing
  <2>. QED
    BY <1>3, <2>4, <2>5 DEF Good
<1>13. CASE Flush(r)
  <2>1. CASE End(r, "failed")
    BY <1>4, <2>1 DEF Good, Storing
  <2>2. CASE run' = [run EXCEPT ![r].pending = None, ![r].flushed = @ \cup {run[r].pending}]
    <3>. DEFINE q == [run[r] EXCEPT !.pending = None, !.flushed = @ \cup {run[r].pending}]
    <3>1. /\ run[r].at = "storing" /\ run[r].pending # None
          /\ ~Locked(<<run[r].pending, Today(r)>>)
      BY <1>13, Zenon DEF Flush
    <3>2. /\ run' = [run EXCEPT ![r] = q]
          /\ q.at = "storing" /\ q.pending = None /\ q.todo = run[r].todo
          /\ q.flushed = run[r].flushed \cup {run[r].pending}
      BY <1>1, <2>2, <3>1 DEF Run
    <3>3. run[r].flushed \subseteq Stocks
      BY <1>1 DEF Run
    <3>. HIDE DEF q
    <3>4. WritesEachOnce(q)
      BY <1>2, <3>1, <3>2, <3>3 DEF WritesEachOnce, Storing
    <3>5. Good(q)
      BY <3>1, <3>2, <3>4 DEF Good
    <3>. QED
      BY <1>3, <3>2, <3>5 DEF Good
  <2>. QED
    BY <1>13, <2>1, <2>2, Zenon DEF Flush
<1>14. CASE CommitPrices(r)
  <2>1. End(r, "releasing")
    BY <1>14, Zenon DEF CommitPrices, End
  <2>. QED
    BY <1>4, <2>1 DEF Good, Storing
<1>15. CASE TimeOut(r)
  <2>1. CASE End(r, "failed")
    BY <1>4, <2>1 DEF Good, Storing
  <2>2. CASE /\ run[r].at = "fetching"
             /\ run' = [run EXCEPT ![r].at = "releasing", ![r].timed = TRUE]
    <3>. DEFINE q == [run[r] EXCEPT !.at = "releasing", !.timed = TRUE]
    <3>1. /\ run' = [run EXCEPT ![r] = q]
          /\ q.at = "releasing" /\ q.pending = run[r].pending /\ q.flushed = run[r].flushed
          /\ q.todo = run[r].todo
      BY <1>1, <2>2 DEF Run
    <3>. HIDE DEF q
    <3>. QED
      BY <1>5, <2>2, <3>1 DEF Good, Storing
  <2>. QED
    BY <1>15, <2>1, <2>2 DEF TimeOut
<1>. QED
  BY <1>7, <1>8, <1>9, <1>10, <1>11, <1>12, <1>13, <1>14, <1>15, Zenon DEF RunStep, Good

\* What the invariant rests on: a row is locked when nobody has locked it.
LEMMA StepKeepsLocks ==
    ASSUME TypeOK, LocksSound, [Next]_vars PROVE LocksSound'
<1>1. CASE UNCHANGED run
  BY <1>1 DEF LocksSound, WritesEachOnce, RowsHaveOneWriter, LockedBy, Today
<1>2. ASSUME NEW r \in Runs, Start(r) \/ Fetch(r) \/ Crash(r) \/ RunStep(r)
      PROVE  LocksSound'
  <2>1. WritesEachOnce(run[r])
    BY DEF LocksSound
  <2>2. /\ WritesEachOnce(run'[r])
        /\ \/ run'[r].flushed = {}
           \/ run'[r].flushed = run[r].flushed
           \/ /\ run'[r].flushed = run[r].flushed \cup {run[r].pending}
              /\ ~Locked(<<run[r].pending, Today(r)>>)
        /\ \A o \in Runs \ {r} : run'[o] = run[o]
    BY <1>2, <2>1, SessionStep
  <2>3. \A o \in Runs : WritesEachOnce(run'[o])
    BY <2>2 DEF LocksSound
  <2>4. \A o \in Runs \ {r} : LockedBy(o)' = LockedBy(o)
    BY <2>2 DEF LockedBy, Today
  <2>5. ASSUME NEW o \in Runs \ {r} PROVE LockedBy(r)' \cap LockedBy(o) = {}
    <3>1. LockedBy(r) \cap LockedBy(o) = {}
      BY DEF LocksSound, RowsHaveOneWriter
    <3>2. LockedBy(r)' \subseteq LockedBy(r) \cup {<<run[r].pending, Today(r)>>}
      BY <2>2 DEF LockedBy, Today
    <3>3. CASE run'[r].flushed = {} \/ run'[r].flushed = run[r].flushed
      <4>1. LockedBy(r)' \subseteq LockedBy(r)
        BY <3>3 DEF LockedBy, Today
      <4>. QED
        BY <3>1, <4>1
    <3>4. CASE ~Locked(<<run[r].pending, Today(r)>>)
      <4>1. <<run[r].pending, Today(r)>> \notin LockedBy(o)
        BY <3>4 DEF Locked
      <4>. QED
        BY <3>1, <3>2, <4>1
    <3>. QED
      BY <2>2, <3>3, <3>4
  <2>6. ASSUME NEW p \in Runs, NEW o \in Runs, p # o
        PROVE  LockedBy(p)' \cap LockedBy(o)' = {}
    <3>1. CASE p = r
      BY <2>4, <2>5, <2>6, <3>1
    <3>2. CASE o = r
      BY <2>4, <2>5, <2>6, <3>2
    <3>3. CASE p # r /\ o # r
      BY <2>4, <2>6, <3>3 DEF LocksSound, RowsHaveOneWriter
    <3>. QED
      BY <3>1, <3>2, <3>3
  <2>. QED
    BY <2>3, <2>6 DEF LocksSound, RowsHaveOneWriter
<1>3. \/ UNCHANGED run
      \/ \E r \in Runs : Start(r) \/ Fetch(r) \/ Crash(r) \/ RunStep(r)
  BY Zenon DEF Next, Tick, OverrideRead, OverrideWrite, vars
<1>. QED
  BY <1>1, <1>2, <1>3, Zenon

LEMMA LocksStaySound == Spec => [](TypeOK /\ LocksSound)
<1>1. Init => LocksSound
  <2>1. ASSUME Init PROVE \A r \in Runs : run[r].at = "waiting" /\ run[r].pending = None
                            /\ run[r].flushed = {} /\ run[r].todo = {}
    BY <2>1 DEF Init, Waiting
  <2>2. ASSUME Init PROVE LocksSound
    BY <2>1, <2>2 DEF LocksSound, WritesEachOnce, RowsHaveOneWriter, LockedBy, Storing
  <2>. QED
    BY <2>2
<1>. QED
  BY <1>1, StepKeepsLocks, TypesAreOK, PTL DEF Spec

\* Whatever runs overlap, after a timeout or with a stale lock, a row of
\* price_snapshots is in the uncommitted writes of one session at most
\* (_upsert_snapshot's flush, which takes the row lock until the commit).
THEOREM OneWriterPerRow == Spec => []RowsHaveOneWriter
<1>1. LocksSound => RowsHaveOneWriter
  BY DEF LocksSound
<1>. QED
  BY <1>1, LocksStaySound, PTL

\* Who changes a row of price_snapshots.
LEMMA RowChanges ==
    ASSUME Next
    PROVE  \/ UNCHANGED snapshots \/ \E o \in Runs : CommitPrices(o)
           \/ \E u \in Users : OverrideWrite(u)
<1>1. ASSUME NEW o \in Runs, RunStep(o) PROVE UNCHANGED snapshots \/ CommitPrices(o)
  <2>1. TakeLock(o) \/ RereadLock(o) \/ InsertLock(o) => UNCHANGED snapshots
    BY Zenon DEF TakeLock, RereadLock, InsertLock
  <2>2. CheckPrice(o) \/ LookUp(o) \/ Flush(o) \/ Deadlocked(o) => UNCHANGED snapshots
    BY Zenon DEF CheckPrice, LookUp, Flush, Deadlocked
  <2>3. Release(o) \/ ReleaseAgain(o) \/ TimeOut(o) => UNCHANGED snapshots
    BY Zenon DEF Release, ReleaseAgain, TimeOut
  <2>. QED
    BY <1>1, <2>1, <2>2, <2>3, Zenon DEF RunStep
<1>2. \A o \in Runs : Start(o) \/ Fetch(o) \/ Crash(o) => UNCHANGED snapshots
  BY Zenon DEF Start, Fetch, Crash
<1>3. Tick \/ (\E u \in Users : OverrideRead(u)) => UNCHANGED snapshots
  BY Zenon DEF Tick, OverrideRead
<1>. QED
  BY <1>1, <1>2, <1>3, Zenon DEF Next

\* A step of another actor changes no row that run r has locked: an override
\* waits for the row, and another run has written other rows.
LEMMA StepLeavesRows ==
    ASSUME TypeOK, LocksSound, Next, NEW r \in Runs PROVE LeftToItsWriter(r)
<1>. SUFFICES ASSUME NEW k \in LockedBy(r)
              PROVE  /\ snapshots'[k] # snapshots[k] => CommitPrices(r)
                     /\ run'[r].at \in Storing => k \in LockedBy(r)'
  BY DEF LeftToItsWriter
<1>1. PICK s \in run[r].flushed : k = <<s, Today(r)>>
  BY DEF LockedBy
<1>0. k \in DOMAIN snapshots
  BY <1>1 DEF TypeOK, Run, Today, DaysInPlay
<1>2. ASSUME run'[r].at \in Storing PROVE k \in LockedBy(r)'
  <2>1. run[r].flushed \subseteq run'[r].flushed
    <3>1. CASE UNCHANGED run
      BY <3>1
    <3>2. CASE \E o \in Runs : Start(o) \/ Fetch(o) \/ Crash(o) \/ RunStep(o)
      <4>1. PICK o \in Runs : Start(o) \/ Fetch(o) \/ Crash(o) \/ RunStep(o)
        BY <3>2
      <4>2. WritesEachOnce(run[o])
        BY DEF LocksSound
      <4>3. /\ run'[o].at \in Storing => run[o].flushed \subseteq run'[o].flushed
            /\ \A p \in Runs \ {o} : run'[p] = run[p]
        BY <4>1, <4>2, SessionStep
      <4>. QED
        BY <1>2, <4>3
    <3>. QED
      BY <3>1, <3>2, Zenon DEF Next, Tick, OverrideRead, OverrideWrite
  <2>. QED
    BY <1>1, <2>1 DEF LockedBy, Today
<1>3. ASSUME NEW o \in Runs, o # r, CommitPrices(o) PROVE snapshots'[k] = snapshots[k]
  <2>1. k \notin LockedBy(o)
    BY <1>3 DEF LocksSound, RowsHaveOneWriter
  <2>2. snapshots' = [row \in DOMAIN snapshots |->
            IF row \in LockedBy(o) THEN Written(snapshots[row], run[o].writes[row[1]])
            ELSE snapshots[row]]
    BY <1>3 DEF CommitPrices
  <2>. QED
    BY <1>0, <2>1, <2>2
<1>4. ASSUME NEW u \in Users, OverrideWrite(u) PROVE snapshots'[k] = snapshots[k]
  <2>1. Locked(k)
    BY DEF Locked
  <2>2. k # override[u].row
    BY <1>4, <2>1 DEF OverrideWrite
  <2>3. PICK row, new :
          /\ row = override[u].row
          /\ snapshots' = snapshots \/ snapshots' = [snapshots EXCEPT ![row] = new]
    BY <1>4 DEF OverrideWrite
  <2>. QED
    BY <1>0, <2>2, <2>3
<1>5. \/ UNCHANGED snapshots \/ \E o \in Runs : CommitPrices(o)
      \/ \E u \in Users : OverrideWrite(u)
  BY RowChanges
<1>. QED
  BY <1>2, <1>3, <1>4, <1>5

\* What a session has written but not committed is left alone by overrides and
\* by other runs until the session commits, fails or is killed, whatever runs
\* overlap (run_price_refresh stores everything in one transaction).
THEOREM LockedPricesAreLeftAlone == Spec => WrittenRowsWait
<1>1. TypeOK /\ LocksSound /\ [Next]_vars => [\A r \in Runs : LeftToItsWriter(r)]_vars
  BY StepLeavesRows
<1>. QED
  BY <1>1, LocksStaySound, PTL DEF Spec, WrittenRowsWait

\* The lock of HIGH-R-004 spares the sessions from one another: until a second
\* release comes too late, no run waits for a row, so no two can wait for each
\* other and Postgres has no deadlock to break.
THEOREM RunsNeverWait == Spec /\ []SecondReleaseApart => []NoRunWaits
<1>1. ASSUME TypeOK, LocksSound, InChargeIsFresh PROVE NoRunWaits
  <2>1. SUFFICES ASSUME NEW r \in Runs, run[r].pending # None, NEW o \in Runs,
                        <<run[r].pending, Today(r)>> \in LockedBy(o)
                 PROVE  FALSE
    BY DEF NoRunWaits, Locked
  <2>2. run[r].pending \in run[o].flushed
    BY <2>1 DEF LockedBy
  <2>3. WritesEachOnce(run[r]) /\ WritesEachOnce(run[o])
    BY <1>1 DEF LocksSound
  <2>4. run[r].at \in Storing /\ run[o].at \in Storing
    BY <2>1, <2>2, <2>3 DEF WritesEachOnce
  <2>5. r = o
    BY <1>1, <2>4 DEF InChargeIsFresh, OneRunAtATime, Working, InCharge, Storing
  <2>. QED
    BY <2>2, <2>3, <2>5 DEF WritesEachOnce
<1>. QED
  BY <1>1, LocksStaySound, InChargeStaysFresh, PTL

-----------------------------------------------------------------------------
(* All or nothing.  Every change of a session is flushed or about to be,   *)
(* and sets what the run has fetched.                                      *)

WritesSound(q) ==
    /\ q.at \notin Storing => \A s \in Stocks : q.writes[s] = None
    /\ \A s \in Stocks : q.writes[s] # None =>
         /\ s \in q.flushed \/ s = q.pending
         /\ q.writes[s].set.price \in {None, q.fetched[s]}

\* What a session writes of a price is the price, or nothing if it is there.
LEMMA WritesPrice ==
    ASSUME NEW loaded, NEW price
    PROVE  WriteOf(loaded, [price |-> price, source |-> "automated"]).set.price \in {None, price}
  BY DEF WriteOf, NetUpdate, Changed

LEMMA WritesStep ==
    ASSUME TypeOK, NEW r \in Runs, WritesEachOnce(run[r]), WritesSound(run[r]),
           Start(r) \/ Fetch(r) \/ Crash(r) \/ RunStep(r)
    PROVE  WritesSound(run'[r])
<1>1. run \in [Runs -> Run] /\ run[r] \in Run
  BY DEF TypeOK
<1>2. ASSUME NEW q, run' = [run EXCEPT ![r] = q], WritesSound(q) PROVE WritesSound(run'[r])
  BY <1>2, OthersStay
<1>3. ASSUME NEW at, run' = [run EXCEPT ![r] = EndedAs(r, at)] PROVE WritesSound(run'[r])
  <2>1. \A s \in Stocks : EndedAs(r, at).writes[s] = None
    BY DEF EndedAs, Waiting
  <2>. HIDE DEF EndedAs
  <2>2. WritesSound(EndedAs(r, at))
    BY <2>1 DEF WritesSound
  <2>. QED
    BY <1>2, <1>3, <2>2
\* A step from outside the loop over the prices.
<1>4. ASSUME NEW q, run' = [run EXCEPT ![r] = q], run[r].at \notin Storing,
             q.writes = run[r].writes
      PROVE  WritesSound(run'[r])
  <2>1. WritesSound(q)
    BY <1>4 DEF WritesSound
  <2>. QED
    BY <1>2, <1>4, <2>1
<1>5. ASSUME NEW at, Goto(r, at), run[r].at \notin Storing PROVE WritesSound(run'[r])
  <2>. DEFINE q == [run[r] EXCEPT !.at = at]
  <2>1. run' = [run EXCEPT ![r] = q] /\ q.writes = run[r].writes
    BY <1>1, <1>5 DEF Goto, Run
  <2>. HIDE DEF q
  <2>. QED
    BY <1>4, <1>5, <2>1
<1>6. CASE TakeLock(r) \/ RereadLock(r) \/ InsertLock(r) \/ Release(r)
  <2>1. \/ \E at : End(r, at)
        \/ \E at : Goto(r, at) /\ run[r].at \notin Storing
    BY <1>6 DEF TakeLock, RereadLock, InsertLock, Release, Storing
  <2>. QED
    BY <1>3, <1>5, <2>1 DEF End
<1>7. CASE ReleaseAgain(r) \/ Crash(r) \/ Deadlocked(r) \/ CommitPrices(r)
  <2>1. \E at : run' = [run EXCEPT ![r] = EndedAs(r, at)]
    BY <1>7, Zenon DEF ReleaseAgain, Crash, Deadlocked, CommitPrices, End
  <2>. QED
    BY <1>3, <2>1
<1>8. CASE Start(r)
  <2>. DEFINE at == IF Day(now) \in Holidays THEN "skipped" ELSE "asking"
  <2>1. run' = [run EXCEPT ![r].at = at, ![r].asked = now] /\ run[r].at \notin Storing
    BY <1>8 DEF Start, Storing
  <2>. HIDE DEF at
  <2>. DEFINE q == [run[r] EXCEPT !.at = at, !.asked = now]
  <2>2. run' = [run EXCEPT ![r] = q] /\ q.writes = run[r].writes
    BY <1>1, <2>1 DEF Run
  <2>. HIDE DEF q
  <2>. QED
    BY <1>4, <2>1, <2>2
<1>9. CASE Fetch(r)
  <2>1. PICK fetched :
          /\ run' = [run EXCEPT ![r].at = "storing", ![r].fetched = fetched,
                                ![r].todo = {s \in Stocks : fetched[s] # None}]
          /\ run[r].at = "fetching"
    BY <1>9, Zenon DEF Fetch
  <2>. DEFINE todo == {s \in Stocks : fetched[s] # None}
              q == [run[r] EXCEPT !.at = "storing", !.fetched = fetched, !.todo = todo]
  <2>. HIDE DEF todo
  <2>2. run' = [run EXCEPT ![r] = q] /\ q.writes = run[r].writes
    BY <1>1, <2>1 DEF Run, todo
  <2>. HIDE DEF q
  <2>. QED
    BY <1>4, <2>1, <2>2 DEF Storing
<1>10. CASE CheckPrice(r)
  <2>1. PICK s, loaded :
          \/ run' = [run EXCEPT ![r].at = "looking_up", ![r].current = s, ![r].loaded = loaded]
          \/ run' = [run EXCEPT ![r].todo = @ \ {s}]
    BY <1>10, Zenon DEF CheckPrice
  <2>2. run[r].at = "storing"
    BY <1>10 DEF CheckPrice
  <2>. DEFINE q1 == [run[r] EXCEPT !.at = "looking_up", !.current = s, !.loaded = loaded]
              q2 == [run[r] EXCEPT !.todo = @ \ {s}]
  <2>3. run' = [run EXCEPT ![r] = q1] \/ run' = [run EXCEPT ![r] = q2]
    BY <1>1, <2>1
  <2>4. /\ q1.at = "looking_up" /\ q1.writes = run[r].writes /\ q1.flushed = run[r].flushed
        /\ q1.pending = run[r].pending /\ q1.fetched = run[r].fetched
    BY <1>1 DEF Run
  <2>5. /\ q2.at = run[r].at /\ q2.writes = run[r].writes /\ q2.flushed = run[r].flushed
        /\ q2.pending = run[r].pending /\ q2.fetched = run[r].fetched
    BY <1>1 DEF Run
  <2>. HIDE DEF q1, q2
  <2>6. WritesSound(q1) /\ WritesSound(q2)
    BY <2>2, <2>4, <2>5 DEF WritesSound, Storing
  <2>. QED
    BY <1>2, <2>3, <2>6
<1>11. CASE LookUp(r)
  <2>. DEFINE s == run[r].current
              loaded == IF run[r].loaded # None THEN run[r].loaded
                        ELSE snapshots[<<s, Today(r)>>]
              w == WriteOf(loaded, [price |-> run[r].fetched[s], source |-> "automated"])
              writes == [run[r].writes EXCEPT ![s] = w]
              q == [run[r] EXCEPT !.at = "storing", !.current = None, !.loaded = None,
                                  !.todo = @ \ {s}, !.writes = writes, !.pending = s]
  <2>1. run' = [run EXCEPT ![r].at = "storing", ![r].current = None, ![r].loaded = None,
                           ![r].todo = @ \ {s}, ![r].writes = writes, ![r].pending = s]
    BY <1>1, <1>11 DEF LookUp
  <2>2. run[r].at = "looking_up" /\ run[r].pending = None /\ None \notin Stocks
    BY <1>11, PriceAssumption DEF LookUp, WritesEachOnce
  <2>3. w.set.price \in {None, run[r].fetched[s]}
    BY WritesPrice
  <2>. HIDE DEF s, w
  <2>4. \A k \in Stocks : writes[k] # None =>
          (k = s /\ writes[k] = w) \/ (k # s /\ writes[k] = run[r].writes[k])
    BY <1>1 DEF Run
  <2>. HIDE DEF writes
  <2>5. /\ run' = [run EXCEPT ![r] = q]
        /\ q.at = "storing" /\ q.pending = s /\ q.flushed = run[r].flushed
        /\ q.writes = writes /\ q.fetched = run[r].fetched
    BY <1>1, <2>1 DEF Run
  <2>. HIDE DEF q
  <2>6. WritesSound(q)
    BY <2>2, <2>3, <2>4, <2>5 DEF WritesSound, Storing
  <2>. QED
    BY <1>2, <2>5, <2>6
<1>12. CASE Flush(r)
  <2>1. CASE End(r, "failed")
    BY <1>3, <2>1 DEF End
  <2>2. CASE run' = [run EXCEPT ![r].pending = None, ![r].flushed = @ \cup {run[r].pending}]
    <3>. DEFINE q == [run[r] EXCEPT !.pending = None, !.flushed = @ \cup {run[r].pending}]
    <3>1. run[r].at = "storing"
      BY <1>12 DEF Flush
    <3>2. /\ run' = [run EXCEPT ![r] = q]
          /\ q.at = "storing" /\ q.writes = run[r].writes /\ q.fetched = run[r].fetched
          /\ q.flushed = run[r].flushed \cup {run[r].pending}
      BY <1>1, <2>2, <3>1 DEF Run
    <3>. HIDE DEF q
    <3>3. WritesSound(q)
      BY <3>1, <3>2 DEF WritesSound, Storing
    <3>. QED
      BY <1>2, <3>2, <3>3
  <2>. QED
    BY <1>12, <2>1, <2>2, Zenon DEF Flush
<1>13. CASE TimeOut(r)
  <2>1. CASE End(r, "failed")
    BY <1>3, <2>1 DEF End
  <2>2. CASE /\ run[r].at = "fetching"
             /\ run' = [run EXCEPT ![r].at = "releasing", ![r].timed = TRUE]
    <3>. DEFINE q == [run[r] EXCEPT !.at = "releasing", !.timed = TRUE]
    <3>1. run' = [run EXCEPT ![r] = q] /\ q.writes = run[r].writes
      BY <1>1, <2>2 DEF Run
    <3>. HIDE DEF q
    <3>. QED
      BY <1>4, <2>2, <3>1 DEF Storing
  <2>. QED
    BY <1>13, <2>1, <2>2 DEF TimeOut
<1>. QED
  BY <1>6, <1>7, <1>8, <1>9, <1>10, <1>11, <1>12, <1>13, Zenon DEF RunStep

AllWritesSound == \A r \in Runs : WritesSound(run[r])

LEMMA WritesStaySound == Spec => []AllWritesSound
<1>1. Init => AllWritesSound
  BY DEF Init, Waiting, AllWritesSound, WritesSound
<1>2. ASSUME TypeOK, LocksSound, AllWritesSound, [Next]_vars PROVE AllWritesSound'
  <2>1. CASE UNCHANGED run
    BY <1>2, <2>1 DEF AllWritesSound, WritesSound
  <2>2. ASSUME NEW r \in Runs, Start(r) \/ Fetch(r) \/ Crash(r) \/ RunStep(r)
        PROVE  AllWritesSound'
    <3>1. WritesEachOnce(run[r]) /\ WritesSound(run[r])
      BY <1>2 DEF LocksSound, AllWritesSound
    <3>2. WritesSound(run'[r])
      BY <1>2, <2>2, <3>1, WritesStep
    <3>3. \A o \in Runs \ {r} : run'[o] = run[o]
      BY <1>2, <2>2, <3>1, SessionStep
    <3>. QED
      BY <1>2, <3>2, <3>3 DEF AllWritesSound
  <2>3. \/ UNCHANGED run
        \/ \E r \in Runs : Start(r) \/ Fetch(r) \/ Crash(r) \/ RunStep(r)
    BY <1>2, Zenon DEF Next, Tick, OverrideRead, OverrideWrite, vars
  <2>. QED
    BY <2>1, <2>2, <2>3, Zenon
<1>. QED
  BY <1>1, <1>2, LocksStaySound, PTL DEF Spec

\* The commit of a run stores every price the run has accepted.
LEMMA CommitStoresAll ==
    ASSUME TypeOK, AllWritesSound, NEW r \in Runs, CommitPrices(r),
           NEW row \in DOMAIN snapshots, snapshots'[row] # snapshots[row]
    PROVE  ByCommitOf(r, row)
<1>1. /\ run[r].at = "storing" /\ run[r].pending = None /\ run[r] \in Run
      /\ snapshots \in [Stocks \X DaysInPlay -> Snapshot \cup {None}]
      /\ WritesSound(run[r]) /\ None \notin Stocks
  BY PriceAssumption DEF CommitPrices, TypeOK, AllWritesSound
<1>2. \A k \in DOMAIN snapshots :
        snapshots'[k] = IF k \in LockedBy(r) THEN Written(snapshots[k], run[r].writes[k[1]])
                        ELSE snapshots[k]
  BY DEF CommitPrices
<1>3. row[2] = Today(r)
  BY <1>2 DEF LockedBy
<1>4. run'[r].at = "releasing"
  BY EndedTyped DEF CommitPrices, TypeOK
<1>5. ASSUME NEW s \in Stocks, run[r].writes[s] # None, run[r].writes[s].set.price # None
      PROVE  snapshots'[<<s, Today(r)>>].price = run[r].fetched[s]
  <2>. DEFINE k == <<s, Today(r)>>
              w == run[r].writes[s]
  <2>1. s \in run[r].flushed /\ w.set.price = run[r].fetched[s]
    BY <1>1, <1>5 DEF WritesSound
  <2>2. k \in LockedBy(r) /\ k \in DOMAIN snapshots /\ k[1] = s
    BY <1>1, <2>1 DEF LockedBy, DaysInPlay, Today
  <2>3. snapshots'[k] = Written(snapshots[k], w)
    BY <1>2, <2>2
  <2>4. Written(snapshots[k], w).price = w.set.price
    BY <1>5 DEF Written, Either
  <2>. QED
    BY <2>1, <2>3, <2>4
<1>. QED
  BY <1>1, <1>3, <1>4, <1>5 DEF ByCommitOf

\* A run stores all it has accepted or nothing, whatever crashes, fails, is
\* cancelled or overlaps (run_price_refresh commits once).
THEOREM RefreshIsAllOrNothing == Spec => AllOrNothing
<1>1. ASSUME TypeOK, AllWritesSound, Next, NEW row \in DOMAIN snapshots,
             snapshots'[row] # snapshots[row]
      PROVE  ByOverride(row) \/ \E r \in Runs : ByCommitOf(r, row)
  <2>1. CASE \E r \in Runs : CommitPrices(r)
    BY <1>1, <2>1, CommitStoresAll
  <2>2. ASSUME NEW u \in Users, OverrideWrite(u) PROVE ByOverride(row)
    <3>1. /\ override[u].at = "writing" /\ override' = [override EXCEPT ![u] = [at |-> "answered"]]
      BY <2>2 DEF OverrideWrite
    <3>2. override'[u].at = "answered"
      BY <1>1, <3>1 DEF TypeOK
    <3>3. PICK new : snapshots' = snapshots \/ snapshots' = [snapshots EXCEPT ![override[u].row] = new]
      BY <2>2 DEF OverrideWrite
    <3>4. override[u].row = row
      BY <1>1, <3>3
    <3>. QED
      BY <3>1, <3>2, <3>4 DEF ByOverride
  <2>. QED
    BY <1>1, <2>1, <2>2, RowChanges
<1>2. TypeOK /\ AllWritesSound /\ [Next]_vars =>
        [\A row \in DOMAIN snapshots :
            snapshots'[row] # snapshots[row] =>
               ByOverride(row) \/ \E r \in Runs : ByCommitOf(r, row)]_vars
  BY <1>1
<1>. QED
  BY <1>2, TypesAreOK, WritesStaySound, PTL DEF Spec, AllOrNothing
=============================================================================
