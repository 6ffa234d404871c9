---------------------------- MODULE LoginLockout ----------------------------
(***************************************************************************)
(* The lockout of an address after failed log-ins: LoginLockoutTracker,    *)
(* the log-in handler around it, cut where it awaits, and the log-in forms *)
(* of several browsers behind that address with their countdowns.          *)
(*                                                                         *)
(* Time is counted in halves of a second, so that what Retry-After rounds  *)
(* to seconds can be told from what it was.  The browsers' clocks measure  *)
(* the same durations as the server's.  "log", "told" (the end of the lock *)
(* a form was refused for) and "caused" (of the lock its failure set) are  *)
(* history.                                                                *)
(***************************************************************************)
EXTENDS Integers, FiniteSets, Sequences

CONSTANTS
    Forms,
    FAILURE_THRESHOLD, WINDOW, LOCKOUT,
    Verification,   \* the longest an attempt is under way in the handler
    LimitRetry,     \* the Retry-After of a rate limit, in seconds
    MaxTime,        \* bound of the instance on the clock
    MaxAttempts,    \* bound of the instance on submitted forms
    None

\* LOCKOUT_SECONDS is not below WINDOW_SECONDS: when a lock ends, the failures
\* that set it have left the window.  Ten minutes are longer than an attempt takes.
ASSUME LockoutAssumption ==
    /\ FAILURE_THRESHOLD \in Nat \ {0} /\ LimitRetry \in Nat \ {0}
    /\ WINDOW \in Nat \ {0} /\ LOCKOUT \in Nat /\ WINDOW <= LOCKOUT
    /\ Verification \in Nat /\ Verification < LOCKOUT
    /\ MaxTime \in Nat /\ MaxAttempts \in Nat /\ None \notin Nat

VARIABLES
    now,
    failures,       \* _failure_times of the address, as numbers of entries of log
    lock,           \* _locked_until of the address
    form,
    exposed,        \* may the page read Retry-After, as on the API's own origin?
    attempts,
    log             \* each failure since a success or a restart: its time, and
                    \* the lock it found

vars == <<now, failures, lock, form, exposed, attempts, log>>

NewForm == [at |-> "idle", outcome |-> "none", since |-> None, retry |-> None,
            until |-> None, seconds |-> 0, tick |-> None, told |-> None, caused |-> None]

Init ==
    /\ now = 0 /\ failures = {} /\ lock = None /\ log = <<>>
    /\ form = [f \in Forms |-> NewForm]
    /\ exposed \in BOOLEAN /\ attempts = 0

-----------------------------------------------------------------------------
(* LoginLockoutTracker *)

\* Mutant: the seconds left are cut.
RemainingCut == (lock - now) \div 2

Remaining == (lock - now) \div 2 + 1

\* Mutants: the failure that reaches the threshold does not lock; failures
\* are never too old to count.
LocksLate(n) == n > FAILURE_THRESHOLD
CountsAll == failures \cup {Len(log) + 1}

Locks(n) == n >= FAILURE_THRESHOLD
Counted == {i \in failures : log[i].at >= now - WINDOW} \cup {Len(log) + 1}

record_failure ==
    /\ failures' = Counted
    /\ lock' = IF Locks(Cardinality(Counted)) THEN now + LOCKOUT ELSE lock
    /\ log' = Append(log, [at |-> now, found |-> lock])

record_success == failures' = {} /\ lock' = None /\ log' = <<>>

-----------------------------------------------------------------------------
(* The log-in handler *)

Answered(g, outcome, retry) ==
    [g EXCEPT !.at = "answered", !.outcome = outcome, !.since = None, !.retry = retry]
Answer(f, outcome) == form' = [form EXCEPT ![f] = Answered(@, outcome, None)]

\* The limiter in front of the handler, which counts by itself.
RateLimit(f) ==
    /\ form[f].at = "sent"
    /\ form' = [form EXCEPT ![f] = Answered(@, "rate_limit_exceeded", LimitRetry)]
    /\ UNCHANGED <<now, failures, lock, exposed, attempts, log>>

\* seconds_until_unlocked, asked before the password is verified.
Check(f) ==
    /\ form[f].at = "sent"
    /\ IF lock # None /\ lock > now
         THEN /\ form' = [form EXCEPT ![f] = [Answered(@, "account_locked", Remaining)
                                                EXCEPT !.told = lock]]
              /\ UNCHANGED <<failures, lock>>
         ELSE /\ form' = [form EXCEPT ![f].at = "verifying", ![f].since = now]
              /\ failures' = IF lock = None THEN failures ELSE {}
              /\ lock' = None
    /\ UNCHANGED <<now, exposed, attempts, log>>

WrongPassword(f) ==
    /\ form[f].at = "verifying"
    /\ record_failure
    /\ form' = [form EXCEPT ![f] = [Answered(@, "invalid_credentials", None) EXCEPT !.caused = lock']]
    /\ UNCHANGED <<now, exposed, attempts>>

RightPassword(f) ==
    /\ form[f].at = "verifying"
    /\ record_success /\ Answer(f, "ok")
    /\ UNCHANGED <<now, exposed, attempts>>

\* The request, the answer or the database fails: nothing is counted.
Fail(f) ==
    /\ form[f].at \in {"sent", "verifying"} /\ Answer(f, "error")
    /\ UNCHANGED <<now, failures, lock, exposed, attempts, log>>

\* The tracker lives in the process.
Restart ==
    /\ failures # {} /\ failures' = {} /\ lock' = None /\ log' = <<>>
    /\ form' = [f \in Forms |-> IF form[f].at \in {"sent", "verifying"}
                                  THEN Answered(form[f], "error", None) ELSE form[f]]
    /\ UNCHANGED <<now, exposed, attempts>>

-----------------------------------------------------------------------------
(* The form *)

Locked(f) == form[f].until # None /\ form[f].seconds > 0

Submit(f) ==
    /\ form[f].at = "idle" /\ ~Locked(f)
    /\ attempts < MaxAttempts /\ attempts' = attempts + 1
    /\ form' = [form EXCEPT ![f].at = "sent", ![f].told = None, ![f].caused = None]
    /\ UNCHANGED <<now, failures, lock, exposed, log>>

LOCKOUT_CODES == {"account_locked", "rate_limit_exceeded"}

SecondsTo(until) == IF until <= now THEN 0 ELSE (until - now + 1) \div 2

\* tick() of a countdown to `until`, and when the interval calls it again.
Ticked(g, until) ==
    [g EXCEPT !.seconds = SecondsTo(until), !.until = IF SecondsTo(until) = 0 THEN None ELSE until,
              !.tick = IF SecondsTo(until) = 0 THEN None ELSE now + 2]

\* A form that is let in is left for the page behind it.
Receive(f) ==
    LET answered == [form[f] EXCEPT !.at = "idle", !.outcome = "none", !.retry = None]
        retry == IF exposed THEN form[f].retry ELSE None
    IN  /\ form[f].at = "answered"
        /\ form' = [form EXCEPT ![f] =
             CASE form[f].outcome = "ok" -> NewForm
               [] form[f].outcome \in LOCKOUT_CODES /\ retry \notin {None, 0} ->
                    Ticked(answered, now + 2 * retry)
               [] OTHER -> answered]
        /\ UNCHANGED <<now, failures, lock, exposed, attempts, log>>

\* The interval's call, a second after the one before or later.
Tick(f) ==
    /\ form[f].tick # None /\ form[f].tick <= now
    /\ form' = [form EXCEPT ![f] = Ticked(@, form[f].until)]
    /\ UNCHANGED <<now, failures, lock, exposed, attempts, log>>

Clock ==
    /\ now < MaxTime /\ now' = now + 1
    /\ \A f \in Forms : form[f].at = "verifying" => now < form[f].since + Verification
    /\ UNCHANGED <<failures, lock, form, exposed, attempts, log>>

Next ==
    \/ \E f \in Forms :
         \/ Submit(f) \/ RateLimit(f) \/ Check(f) \/ WrongPassword(f) \/ RightPassword(f)
         \/ Fail(f) \/ Receive(f) \/ Tick(f)
    \/ Restart \/ Clock

Spec == Init /\ [][Next]_vars

-----------------------------------------------------------------------------
(* Properties *)

TypeOK ==
    /\ now \in Nat /\ lock \in Nat \cup {None} /\ exposed \in BOOLEAN /\ attempts \in Nat
    /\ log \in Seq([at : Nat, found : Nat \cup {None}]) /\ failures \subseteq DOMAIN log
    /\ \A f \in Forms : form[f].at \in {"idle", "sent", "verifying", "answered"}

\* Was the address not locked when the j-th failure was counted?
Open(j) == log[j].found = None \/ log[j].found <= log[j].at

\* Failures of the window that ends with the i-th.  One that an overlapping
\* attempt adds to a lock is not among them: the end of the lock forgets it,
\* although it may be younger than the window.
InWindow(i) == {j \in 1..i : Open(j) /\ log[j].at > log[i].at - WINDOW}
Reaches(i) == Cardinality(InWindow(i)) >= FAILURE_THRESHOLD

\* Failures that reach the threshold in a window lock the address for the
\* whole of LOCKOUT_SECONDS after the last of them, although attempts that
\* overlap are checked before the failures they follow are counted
\* (lockout.py: "locks further login attempts from that IP for 10 minutes").
FailuresLock ==
    \A i \in DOMAIN log : Reaches(i) /\ now < log[i].at + LOCKOUT =>
        lock # None /\ lock >= log[i].at + LOCKOUT

\* An address is locked only by as many failures as the threshold says, none
\* older than the window, and not by those before a success.
LockIsEarned ==
    lock # None => \E i \in DOMAIN log :
        /\ lock = log[i].at + LOCKOUT
        /\ Cardinality({j \in 1..i : log[j].at >= log[i].at - WINDOW}) >= FAILURE_THRESHOLD

\* A form that was refused as locked, and was told how long, does not let its
\* user try again before that lock has ended.
CountdownCoversLock ==
    \A f \in Forms :
        exposed /\ form[f].at = "idle" /\ form[f].told # None /\ ~Locked(f) =>
            form[f].told <= now

\* What user-stories.md says of the log-in form: "after the 5th failure within
\* 10 minutes, the form is disabled with the lockout message and a visible
\* countdown".
FormDisabledByLastFailure ==
    \A f \in Forms :
        form[f].at = "idle" /\ lock # None /\ form[f].caused = lock /\ lock > now => Locked(f)
=============================================================================
