------------------------ MODULE LoginLockout_proofs ------------------------
(***************************************************************************)
(* The countdown of a log-in form covers the lock it was told of, failures *)
(* that reach the threshold lock, and only they do: for every number of    *)
(* forms, every threshold, window and rounding to halves of a second.      *)
(***************************************************************************)
EXTENDS LoginLockout, FiniteSetTheorems, TLAPS

Times == Nat \cup {None}
Outcomes == {"none", "ok", "error", "account_locked", "rate_limit_exceeded", "invalid_credentials"}

FormState == [at : {"idle", "sent", "verifying", "answered"}, outcome : Outcomes,
              since : Times, retry : Times, until : Times, seconds : Nat,
              tick : Times, told : Times, caused : Times]

Types ==
    /\ now \in Nat /\ lock \in Times
    /\ form \in [Forms -> FormState]

\* A countdown that runs has an end, and its next call.
Counts(g) ==
    /\ g.tick # None => g.until # None
    /\ g.until # None => g.seconds > 0

\* A form is told of a lock by the answer account_locked, whose seconds reach
\* the end of the lock; once it has read them it counts down to an end that
\* is no earlier, unless the lock has ended.
Covers(g, t, readable) ==
    g.told # None =>
      /\ g.at \in {"idle", "answered"}
      /\ g.at = "answered" =>
           /\ g.outcome = "account_locked"
           /\ g.retry \in Nat \ {0} /\ t + 2 * g.retry >= g.told
      /\ g.at = "idle" /\ readable => (g.until # None /\ g.until >= g.told) \/ g.told <= t

\* The inductive invariant of CountdownCoversLock.
CountdownSound ==
    /\ Types
    /\ \A f \in Forms : Counts(form[f]) /\ Covers(form[f], now, exposed)

-----------------------------------------------------------------------------
(* Rounding *)

\* The seconds of Retry-After reach the end of the lock.
LEMMA RemainingReaches ==
    ASSUME NEW l \in Nat, NEW t \in Nat, l > t
    PROVE  /\ (l - t) \div 2 + 1 \in Nat \ {0}
           /\ t + 2 * ((l - t) \div 2 + 1) >= l
BY SMTT(60)

\* A countdown ends when its time has come, not before.
LEMMA SecondsReach ==
    ASSUME now \in Nat, NEW until \in Nat
    PROVE  /\ SecondsTo(until) \in Nat
           /\ SecondsTo(until) = 0 => until <= now
<1>1. CASE until <= now
  BY <1>1 DEF SecondsTo
<1>2. CASE until > now
  <2>1. (until - now + 1) \div 2 \in Nat \ {0}
    BY <1>2, SMTT(60)
  <2>. QED
    BY <1>2, <2>1 DEF SecondsTo
<1>. QED
  BY <1>1, <1>2

\* A call of tick() keeps a form well typed and its countdown sound.
LEMMA TickedSound ==
    ASSUME now \in Nat, NEW g \in FormState, NEW until \in Nat
    PROVE  /\ Ticked(g, until) \in FormState
           /\ Counts(Ticked(g, until))
           /\ Ticked(g, until).until = IF SecondsTo(until) = 0 THEN None ELSE until
           /\ Ticked(g, until).told = g.told /\ Ticked(g, until).at = g.at
           /\ Ticked(g, until).outcome = g.outcome /\ Ticked(g, until).retry = g.retry
<1>1. SecondsTo(until) \in Nat
  BY SecondsReach
<1>2. None \notin Nat
  BY LockoutAssumption
<1>. DEFINE s == SecondsTo(until)
<1>3. s \in Nat
  BY <1>1
<1>. HIDE DEF s
<1>4. Ticked(g, until) =
        [g EXCEPT !.seconds = s, !.until = IF s = 0 THEN None ELSE until,
                  !.tick = IF s = 0 THEN None ELSE now + 2]
  BY DEF Ticked, s
<1>. DEFINE a == Ticked(g, until)
<1>5. /\ a.at = g.at /\ a.outcome = g.outcome /\ a.since = g.since /\ a.retry = g.retry
      /\ a.told = g.told /\ a.caused = g.caused /\ a.seconds = s
      /\ a.until = (IF s = 0 THEN None ELSE until) /\ a.tick = (IF s = 0 THEN None ELSE now + 2)
  BY <1>4 DEF FormState
<1>6. a \in FormState
  <2>1. (IF s = 0 THEN None ELSE until) \in Times /\ (IF s = 0 THEN None ELSE now + 2) \in Times
    BY DEF Times
  <2>. QED
    BY <1>3, <1>4, <2>1 DEF FormState
<1>7. Counts(a)
  BY <1>2, <1>3, <1>5 DEF Counts
<1>. QED
  BY <1>5, <1>6, <1>7 DEF s

-----------------------------------------------------------------------------
(* Steps *)

\* What an answer other than account_locked does to a form that was told of
\* no lock.
LEMMA AnsweredSound ==
    ASSUME NEW g \in FormState, Counts(g), g.told = None,
           NEW outcome \in Outcomes, NEW retry \in Times
    PROVE  /\ Answered(g, outcome, retry) \in FormState
           /\ Answered(g, outcome, retry).told = None
           /\ Counts(Answered(g, outcome, retry))
<1>. DEFINE a == Answered(g, outcome, retry)
<1>1. a \in FormState
  <2>1. None \in Times
    BY DEF Times
  <2>. QED
    BY <2>1 DEF Answered, FormState
<1>2. a.told = g.told /\ a.tick = g.tick /\ a.until = g.until /\ a.seconds = g.seconds
  BY DEF Answered, FormState
<1>. QED
  BY <1>1, <1>2 DEF Counts

\* It suffices to look at the form a step changes.
LEMMA OneForm ==
    ASSUME CountdownSound, UNCHANGED <<now, exposed>>, lock' \in Times,
           NEW f \in Forms, form' = [form EXCEPT ![f] = form'[f]],
           form'[f] \in FormState, Counts(form'[f]), Covers(form'[f], now', exposed')
    PROVE  CountdownSound'
<1>1. Types'
  BY DEF CountdownSound, Types
<1>2. ASSUME NEW h \in Forms
      PROVE  Counts(form'[h]) /\ Covers(form'[h], now', exposed')
  <2>1. CASE h = f
    BY <2>1
  <2>2. CASE h # f
    <3>1. form'[h] = form[h]
      BY <2>2 DEF CountdownSound, Types
    <3>2. Counts(form[h]) /\ Covers(form[h], now, exposed)
      BY DEF CountdownSound
    <3>. QED
      BY <3>1, <3>2 DEF Covers, Counts
  <2>. QED
    BY <2>1, <2>2
<1>. QED
  BY <1>1, <1>2 DEF CountdownSound, Covers, Counts

LEMMA NewFormSound == NewForm \in FormState /\ Counts(NewForm) /\ NewForm.told = None
BY DEF NewForm, FormState, Times, Outcomes, Counts

LEMMA InitSound == Init => CountdownSound
<1>. SUFFICES ASSUME Init PROVE CountdownSound
  OBVIOUS
<1>1. NewForm \in FormState /\ Counts(NewForm) /\ NewForm.told = None
  BY NewFormSound
<1>2. \A f \in Forms : form[f] = NewForm
  BY DEF Init
<1>3. Types
  BY <1>1 DEF Init, Types, Times
<1>. QED
  BY <1>1, <1>2, <1>3 DEF CountdownSound, Covers

LEMMA StepSound == CountdownSound /\ [Next]_vars => CountdownSound'
<1>. SUFFICES ASSUME CountdownSound, [Next]_vars PROVE CountdownSound'
  OBVIOUS
<1>1. /\ now \in Nat /\ lock \in Times /\ None \notin Nat
      /\ \A f \in Forms : form[f] \in FormState /\ Counts(form[f]) /\ Covers(form[f], now, exposed)
  BY LockoutAssumption DEF CountdownSound, Types
<1>2. LimitRetry \in Times /\ None \in Times /\ LOCKOUT \in Nat
  BY LockoutAssumption DEF Times
<1>. {"ok", "error", "rate_limit_exceeded", "account_locked", "invalid_credentials"} \subseteq Outcomes
  BY DEF Outcomes
<1>3. ASSUME NEW f \in Forms, Submit(f)
      PROVE  CountdownSound'
  <2>1. form' = [form EXCEPT ![f] = form'[f]]
    BY <1>3 DEF Submit, CountdownSound, Types
  <2>2. form'[f] = [form[f] EXCEPT !.at = "sent", !.told = None, !.caused = None]
    BY <1>3 DEF Submit, CountdownSound, Types
  <2>3. form'[f] \in FormState /\ Counts(form'[f]) /\ form'[f].told = None
    <3>1. None \in Times
      BY DEF Times
    <3>2. form'[f] \in FormState /\ form'[f].told = None
      BY <1>1, <2>2, <3>1 DEF FormState
    <3>3. /\ form'[f].tick = form[f].tick /\ form'[f].until = form[f].until
          /\ form'[f].seconds = form[f].seconds
      BY <1>1, <2>2 DEF FormState
    <3>. QED
      BY <1>1, <3>2, <3>3 DEF Counts
  <2>. QED
    BY <1>1, <1>3, <2>1, <2>3, OneForm DEF Submit, Covers
<1>4. ASSUME NEW f \in Forms, RateLimit(f)
      PROVE  CountdownSound'
  <2>1. form' = [form EXCEPT ![f] = form'[f]]
    BY <1>4 DEF RateLimit, CountdownSound, Types
  <2>2. form'[f] = Answered(form[f], "rate_limit_exceeded", LimitRetry)
    BY <1>4 DEF RateLimit, CountdownSound, Types
  <2>3. form[f].told = None
    BY <1>1, <1>4 DEF RateLimit, Covers
  <2>4. form'[f] \in FormState /\ Counts(form'[f]) /\ form'[f].told = None
    <3>1. /\ Answered(form[f], "rate_limit_exceeded", LimitRetry) \in FormState
          /\ Answered(form[f], "rate_limit_exceeded", LimitRetry).told = None
          /\ Counts(Answered(form[f], "rate_limit_exceeded", LimitRetry))
      BY <1>1, <1>2, <2>3, AnsweredSound
    <3>. QED
      BY <2>2, <3>1 DEF Counts
  <2>. QED
    BY <1>1, <1>4, <2>1, <2>4, OneForm DEF RateLimit, Covers
<1>5. ASSUME NEW f \in Forms, Check(f)
      PROVE  CountdownSound'
  <2>1. form' = [form EXCEPT ![f] = form'[f]]
    BY <1>5 DEF Check, CountdownSound, Types
  <2>2. form[f].told = None
    BY <1>1, <1>5 DEF Check, Covers
  <2>3. CASE lock # None /\ lock > now
    <3>1. Remaining \in Nat \ {0} /\ now + 2 * Remaining >= lock
      BY <1>1, <2>3, RemainingReaches DEF Remaining, Times
    <3>2. Answered(form[f], "account_locked", Remaining) \in FormState
          /\ Counts(Answered(form[f], "account_locked", Remaining))
      BY <1>1, <2>2, <3>1, AnsweredSound DEF Times, Outcomes
    <3>3. form'[f] = [Answered(form[f], "account_locked", Remaining) EXCEPT !.told = lock]
      BY <1>5, <2>3 DEF Check, CountdownSound, Types
    <3>4. form'[f] \in FormState /\ Counts(form'[f])
      BY <1>1, <3>2, <3>3 DEF FormState, Counts
    <3>5. /\ form'[f].at = "answered" /\ form'[f].outcome = "account_locked"
          /\ form'[f].retry = Remaining /\ form'[f].told = lock
      BY <1>1, <3>3 DEF Answered, FormState
    <3>6. UNCHANGED <<now, exposed, lock>>
      BY <1>5, <2>3 DEF Check
    <3>7. Covers(form'[f], now', exposed')
      BY <3>1, <3>5, <3>6 DEF Covers
    <3>. QED
      BY <1>1, <2>1, <3>4, <3>6, <3>7, OneForm
  <2>4. CASE ~(lock # None /\ lock > now)
    <3>1. form'[f] = [form[f] EXCEPT !.at = "verifying", !.since = now]
      BY <1>5, <2>4 DEF Check, CountdownSound, Types
    <3>2. form'[f] \in FormState /\ Counts(form'[f]) /\ form'[f].told = None
      <4>1. now \in Times
        BY <1>1 DEF Times
      <4>2. form'[f] \in FormState
        BY <1>1, <3>1, <4>1 DEF FormState
      <4>3. /\ form'[f].told = form[f].told /\ form'[f].tick = form[f].tick
            /\ form'[f].until = form[f].until /\ form'[f].seconds = form[f].seconds
        BY <1>1, <3>1 DEF FormState
      <4>. QED
        BY <1>1, <2>2, <4>2, <4>3 DEF Counts
    <3>3. UNCHANGED <<now, exposed>> /\ lock' \in Times
      BY <1>2, <1>5, <2>4 DEF Check
    <3>. QED
      BY <2>1, <3>2, <3>3, OneForm DEF Covers
  <2>. QED
    BY <2>3, <2>4
<1>6. ASSUME NEW f \in Forms, WrongPassword(f)
      PROVE  CountdownSound'
  <2>1. form' = [form EXCEPT ![f] = form'[f]]
    BY <1>6 DEF WrongPassword, CountdownSound, Types
  <2>2. form[f].told = None
    BY <1>1, <1>6 DEF WrongPassword, Covers
  <2>3. lock' \in Times
    BY <1>1, <1>2, <1>6 DEF WrongPassword, record_failure, Times
  <2>4. form'[f] = [Answered(form[f], "invalid_credentials", None) EXCEPT !.caused = lock']
    BY <1>6 DEF WrongPassword, CountdownSound, Types
  <2>5. /\ Answered(form[f], "invalid_credentials", None) \in FormState
        /\ Answered(form[f], "invalid_credentials", None).told = None
        /\ Counts(Answered(form[f], "invalid_credentials", None))
    BY <1>1, <1>2, <2>2, AnsweredSound DEF Outcomes
  <2>6. form'[f] \in FormState /\ Counts(form'[f]) /\ form'[f].told = None
    BY <2>3, <2>4, <2>5 DEF FormState, Counts
  <2>. QED
    BY <1>6, <2>1, <2>3, <2>6, OneForm DEF WrongPassword, Covers
<1>7. ASSUME NEW f \in Forms, RightPassword(f) \/ Fail(f)
      PROVE  CountdownSound'
  <2>1. PICK outcome \in {"ok", "error"} :
          form' = [form EXCEPT ![f] = Answered(form[f], outcome, None)]
    BY <1>7 DEF RightPassword, Fail, Answer
  <2>2. form[f].told = None
    BY <1>1, <1>7 DEF RightPassword, Fail, Covers
  <2>3. form'[f] = Answered(form[f], outcome, None) /\ form' = [form EXCEPT ![f] = form'[f]]
    BY <2>1 DEF CountdownSound, Types
  <2>4. form'[f] \in FormState /\ Counts(form'[f]) /\ form'[f].told = None
    <3>1. /\ Answered(form[f], outcome, None) \in FormState
          /\ Answered(form[f], outcome, None).told = None
          /\ Counts(Answered(form[f], outcome, None))
      BY <1>1, <1>2, <2>2, AnsweredSound
    <3>. QED
      BY <2>3, <3>1 DEF Counts
  <2>5. UNCHANGED <<now, exposed>> /\ lock' \in Times
    BY <1>1, <1>2, <1>7 DEF RightPassword, record_success, Fail
  <2>. QED
    BY <2>3, <2>4, <2>5, OneForm DEF Covers
<1>8. ASSUME NEW f \in Forms, Receive(f)
      PROVE  CountdownSound'
  <2>. DEFINE answered == [form[f] EXCEPT !.at = "idle", !.outcome = "none", !.retry = None]
              retry == IF exposed THEN form[f].retry ELSE None
  <2>1. /\ form[f].at = "answered" /\ UNCHANGED <<now, lock, exposed>>
        /\ form' = [form EXCEPT ![f] = form'[f]]
        /\ form'[f] = CASE form[f].outcome = "ok" -> NewForm
                        [] form[f].outcome \in LOCKOUT_CODES /\ retry \notin {None, 0} ->
                             Ticked(answered, now + 2 * retry)
                        [] OTHER -> answered
    BY <1>8 DEF Receive, CountdownSound, Types
  <2>2. /\ answered \in FormState /\ Counts(answered)
        /\ answered.at = "idle" /\ answered.told = form[f].told
    <3>1. None \in Times /\ "none" \in Outcomes
      BY DEF Times, Outcomes
    <3>2. /\ answered \in FormState /\ answered.at = "idle" /\ answered.told = form[f].told
          /\ answered.tick = form[f].tick /\ answered.until = form[f].until
          /\ answered.seconds = form[f].seconds
      BY <1>1, <3>1 DEF FormState
    <3>. QED
      BY <1>1, <3>2 DEF Counts
  <2>3. retry \in Times
    BY <1>1, <1>2 DEF FormState
  <2>. HIDE DEF answered
  <2>4. CASE form[f].outcome = "ok"
    <3>1. form'[f] = NewForm
      BY <2>1, <2>4 DEF LOCKOUT_CODES
    <3>2. form'[f] \in FormState /\ Counts(form'[f])
      BY <3>1, NewFormSound DEF Counts
    <3>3. form'[f].told = None
      BY <3>1, NewFormSound
    <3>. QED
      BY <1>1, <2>1, <3>2, <3>3, OneForm DEF Covers
  <2>5. CASE form[f].outcome \in LOCKOUT_CODES /\ retry \notin {None, 0}
    <3>. PICK end : end = now + 2 * retry
      OBVIOUS
    <3>1. retry \in Nat \ {0} /\ end \in Nat
      BY <1>1, <2>3, <2>5 DEF Times
    <3>2. form'[f] = Ticked(answered, end)
      BY <2>1, <2>5 DEF LOCKOUT_CODES
    <3>3. form[f].told # None /\ exposed => end >= form[f].told
      BY <1>1, <2>1 DEF Covers, retry
    <3>4. end > now
      BY <1>1, <3>1
    <3>. HIDE DEF retry
    <3>. DEFINE g == form'[f]
    <3>5. /\ g \in FormState /\ Counts(g) /\ g.at = "idle" /\ g.told = form[f].told
          /\ g.until = IF SecondsTo(end) = 0 THEN None ELSE end
      <4>1. /\ Ticked(answered, end) \in FormState /\ Counts(Ticked(answered, end))
            /\ Ticked(answered, end).at = "idle" /\ Ticked(answered, end).told = form[f].told
            /\ Ticked(answered, end).until = IF SecondsTo(end) = 0 THEN None ELSE end
        BY <1>1, <2>2, <3>1, TickedSound, Zenon
      <4>. QED
        BY <3>2, <4>1, Zenon
    <3>6. SecondsTo(end) # 0
      BY <1>1, <3>1, <3>4, SecondsReach
    <3>7. g.until = end /\ end # None
      BY <1>1, <3>1, <3>5, <3>6
    <3>8. Covers(g, now, exposed)
      BY <3>3, <3>5, <3>7 DEF Covers
    <3>. QED
      BY <1>1, <2>1, <3>5, <3>8, OneForm
  <2>6. CASE form[f].outcome # "ok" /\ ~(form[f].outcome \in LOCKOUT_CODES /\ retry \notin {None, 0})
    <3>1. form'[f] = answered
      BY <2>1, <2>6
    <3>2. form[f].told # None => ~exposed
      BY <1>1, <2>1, <2>6 DEF Covers, LOCKOUT_CODES
    <3>3. Covers(answered, now, exposed)
      BY <2>2, <3>2 DEF Covers
    <3>. QED
      BY <1>1, <2>1, <2>2, <3>1, <3>3, OneForm
  <2>. QED
    BY <2>4, <2>5, <2>6
<1>9. ASSUME NEW f \in Forms, Tick(f)
      PROVE  CountdownSound'
  <2>. DEFINE until == form[f].until
  <2>1. until \in Nat
    BY <1>1, <1>9 DEF Tick, FormState, Times, Counts
  <2>2. form'[f] = Ticked(form[f], until) /\ form' = [form EXCEPT ![f] = form'[f]]
    BY <1>9 DEF Tick, CountdownSound, Types
  <2>3. UNCHANGED <<now, lock, exposed>>
    BY <1>9 DEF Tick
  <2>. HIDE DEF until
  <2>4. /\ form'[f] \in FormState /\ Counts(form'[f])
        /\ form'[f].until = IF SecondsTo(until) = 0 THEN None ELSE until
        /\ form'[f].told = form[f].told /\ form'[f].at = form[f].at
        /\ form'[f].outcome = form[f].outcome /\ form'[f].retry = form[f].retry
    <3>1. /\ Ticked(form[f], until) \in FormState /\ Counts(Ticked(form[f], until))
          /\ Ticked(form[f], until).until = IF SecondsTo(until) = 0 THEN None ELSE until
          /\ Ticked(form[f], until).told = form[f].told /\ Ticked(form[f], until).at = form[f].at
          /\ Ticked(form[f], until).outcome = form[f].outcome
          /\ Ticked(form[f], until).retry = form[f].retry
      BY <1>1, <2>1, TickedSound, Zenon
    <3>. QED
      BY <2>2, <3>1, Zenon
  <2>5. SecondsTo(until) = 0 => until <= now
    BY <1>1, <2>1, SecondsReach
  <2>6. form[f].told \in Times
    BY <1>1 DEF FormState
  <2>7. Covers(form'[f], now, exposed)
    <3>1. Covers(form[f], now, exposed) /\ form[f].until = until /\ None \notin Nat
      BY <1>1 DEF until
    <3>2. CASE SecondsTo(until) = 0
      <4>1. form'[f].until = None /\ until <= now
        BY <2>4, <2>5, <3>2
      <4>2. form[f].told # None /\ form[f].at = "idle" /\ exposed => form[f].told <= now
        BY <1>1, <2>1, <2>6, <3>1, <4>1 DEF Covers, Times
      <4>. QED
        BY <2>4, <3>1, <4>2 DEF Covers
    <3>3. CASE SecondsTo(until) # 0
      <4>1. form'[f].until = form[f].until
        BY <2>4, <3>1, <3>3
      <4>. QED
        BY <2>4, <3>1, <4>1 DEF Covers
    <3>. QED
      BY <3>2, <3>3
  <2>. QED
    BY <1>1, <2>2, <2>3, <2>4, <2>7, OneForm
<1>10. CASE Restart
  <2>1. ASSUME NEW f \in Forms
        PROVE  /\ form'[f] \in FormState /\ Counts(form'[f])
               /\ Covers(form'[f], now, exposed)
    <3>1. form'[f] = IF form[f].at \in {"sent", "verifying"}
                       THEN Answered(form[f], "error", None) ELSE form[f]
      BY <1>10 DEF Restart
    <3>2. CASE form[f].at \in {"sent", "verifying"}
      <4>1. form[f].told = None
        BY <1>1, <3>2 DEF Covers
      <4>2. form'[f] \in FormState /\ Counts(form'[f]) /\ form'[f].told = None
        <5>1. /\ Answered(form[f], "error", None) \in FormState
              /\ Answered(form[f], "error", None).told = None
              /\ Counts(Answered(form[f], "error", None))
          BY <1>1, <1>2, <4>1, AnsweredSound
        <5>. QED
          BY <3>1, <3>2, <5>1 DEF Counts
      <4>. QED
        BY <4>2 DEF Covers
    <3>. QED
      BY <1>1, <3>1, <3>2
  <2>2. UNCHANGED <<now, exposed>> /\ lock' = None
    BY <1>10 DEF Restart
  <2>3. form' \in [Forms -> FormState]
    <3>. DEFINE F(f) == IF form[f].at \in {"sent", "verifying"}
                          THEN Answered(form[f], "error", None) ELSE form[f]
    <3>1. form' = [f \in Forms |-> F(f)]
      BY <1>10 DEF Restart
    <3>2. \A f \in Forms : F(f) \in FormState
      BY <2>1, <3>1
    <3>. QED
      BY <3>1, <3>2
  <2>. QED
    BY <1>1, <1>2, <2>1, <2>2, <2>3 DEF CountdownSound, Types
<1>11. CASE Clock
  <2>1. now' = now + 1 /\ UNCHANGED <<lock, form, exposed>>
    BY <1>11 DEF Clock
  <2>2. ASSUME NEW f \in Forms
        PROVE  Counts(form[f]) /\ Covers(form[f], now + 1, exposed)
    <3>1. form[f].told \in Times
      BY <1>1 DEF FormState
    <3>. QED
      BY <1>1, <3>1 DEF Covers, Times
  <2>. QED
    BY <1>1, <2>1, <2>2 DEF CountdownSound, Types
<1>12. CASE UNCHANGED vars
  BY <1>12 DEF vars, CountdownSound, Types, Covers, Counts
<1>. QED
  BY <1>3, <1>4, <1>5, <1>6, <1>7, <1>8, <1>9, <1>10, <1>11, <1>12 DEF Next
-----------------------------------------------------------------------------
(* The theorem *)

LEMMA SoundCovers == CountdownSound => CountdownCoversLock
<1>. SUFFICES ASSUME CountdownSound, NEW f \in Forms,
                     exposed, form[f].at = "idle", form[f].told # None, ~Locked(f)
              PROVE  form[f].told <= now
  BY DEF CountdownCoversLock
<1>1. Counts(form[f]) /\ Covers(form[f], now, exposed)
  BY DEF CountdownSound
<1>. QED
  BY <1>1 DEF Counts, Covers, Locked

\* A form that was told how long its address is locked does not let its user
\* try again before (LoginForm, seconds_until_unlocked).
THEOREM CountdownSuffices == Spec => []CountdownCoversLock
<1>1. Spec => []CountdownSound
  BY InitSound, StepSound, PTL DEF Spec
<1>. QED
  BY <1>1, SoundCovers, PTL

-----------------------------------------------------------------------------
(* The lock *)

Failures == [at : Nat, found : Times]

\* An attempt is verified while the lock it was checked against is unset, or
\* was set since: it ends before any such lock does.
Verified(g, t, l) ==
    g.at = "verifying" =>
      /\ g.since \in Nat /\ g.since <= t /\ t <= g.since + Verification
      /\ l # None => l >= g.since + LOCKOUT

AttemptsSound == CountdownSound /\ \A f \in Forms : Verified(form[f], now, lock)

\* Failures that _failure_times no longer has have left the window, or were
\* added to a lock.
Remembered ==
    \A i \in DOMAIN log :
        i \in failures \/ log[i].found # None \/ log[i].at <= now - WINDOW

\* A lock is as long as the failures before it ask for.
LockCovers ==
    lock # None => \A i \in DOMAIN log : log[i].found # None \/ log[i].at + LOCKOUT <= lock

\* The inductive invariant of FailuresLock and LockIsEarned.
LockoutSound ==
    /\ now \in Nat /\ lock \in Times
    /\ log \in Seq(Failures) /\ failures \subseteq DOMAIN log
    /\ \A i \in DOMAIN log :
         log[i].at <= now /\ (log[i].found # None => log[i].found > log[i].at)
    /\ Remembered /\ LockCovers /\ FailuresLock /\ LockIsEarned

LEMMA AttemptMoves ==
    ASSUME AttemptsSound, CountdownSound', UNCHANGED now, lock' \in {lock, None, now + LOCKOUT},
           NEW f \in Forms, NEW h, form' = [form EXCEPT ![f] = h],
           h.at = "verifying" => Verified(h, now, lock')
    PROVE  AttemptsSound'
<1>1. now \in Nat /\ LOCKOUT \in Nat /\ form \in [Forms -> FormState]
  BY LockoutAssumption DEF AttemptsSound, CountdownSound, Types
<1>2. form'[f] = h /\ \A g \in Forms : g # f => form'[g] = form[g]
  BY <1>1
<1>3. ASSUME NEW g \in Forms PROVE Verified(form'[g], now, lock')
  <2>1. CASE g = f
    BY <1>2, <2>1 DEF Verified
  <2>2. CASE g # f
    <3>1. Verified(form[g], now, lock)
      BY DEF AttemptsSound
    <3>. QED
      BY <1>1, <1>2, <2>2, <3>1 DEF Verified
  <2>. QED
    BY <2>1, <2>2
<1>. QED
  BY <1>3 DEF AttemptsSound, Verified

LEMMA InitAttempts == Init => AttemptsSound
<1>. SUFFICES ASSUME Init PROVE AttemptsSound
  OBVIOUS
<1>1. \A f \in Forms : form[f].at = "idle"
  BY DEF Init, NewForm
<1>. QED
  BY <1>1, InitSound DEF AttemptsSound, Verified

LEMMA StepAttempts == AttemptsSound /\ [Next]_vars => AttemptsSound'
<1>. SUFFICES ASSUME AttemptsSound, [Next]_vars PROVE AttemptsSound'
  OBVIOUS
<1>1. CountdownSound'
  BY StepSound DEF AttemptsSound
<1>2. /\ now \in Nat /\ Verification \in Nat /\ LOCKOUT \in Nat
      /\ \A f \in Forms : form[f] \in FormState /\ Verified(form[f], now, lock)
  BY LockoutAssumption DEF AttemptsSound, CountdownSound, Types
<1>3. ASSUME NEW f \in Forms, Submit(f)
      PROVE  AttemptsSound'
  <2>. PICK h : h = [form[f] EXCEPT !.at = "sent", !.told = None, !.caused = None]
    OBVIOUS
  <2>1. h.at = "sent" /\ form' = [form EXCEPT ![f] = h] /\ UNCHANGED <<now, lock>>
    BY <1>2, <1>3 DEF Submit, FormState
  <2>. QED
    BY <1>1, <2>1, AttemptMoves
<1>4. ASSUME NEW f \in Forms, RateLimit(f) \/ Fail(f) \/ RightPassword(f)
      PROVE  AttemptsSound'
  <2>. PICK outcome, retry :
         /\ form' = [form EXCEPT ![f] = Answered(form[f], outcome, retry)]
         /\ UNCHANGED now /\ lock' \in {lock, None}
    BY <1>4 DEF RateLimit, Fail, RightPassword, Answer, record_success
  <2>1. Answered(form[f], outcome, retry).at = "answered"
    BY <1>2 DEF Answered, FormState
  <2>. QED
    BY <1>1, <2>1, AttemptMoves
<1>5. ASSUME NEW f \in Forms, Check(f)
      PROVE  AttemptsSound'
  <2>1. CASE lock # None /\ lock > now
    <3>. PICK h : h = [Answered(form[f], "account_locked", Remaining) EXCEPT !.told = lock]
      OBVIOUS
    <3>1. h.at = "answered"
      BY <1>2 DEF Answered, FormState
    <3>2. form' = [form EXCEPT ![f] = h] /\ UNCHANGED <<now, lock>>
      BY <1>5, <2>1 DEF Check
    <3>. QED
      BY <1>1, <3>1, <3>2, AttemptMoves
  <2>2. CASE ~(lock # None /\ lock > now)
    <3>. PICK h : h = [form[f] EXCEPT !.at = "verifying", !.since = now]
      OBVIOUS
    <3>1. /\ h.since = now /\ form' = [form EXCEPT ![f] = h]
          /\ UNCHANGED now /\ lock' = None
      BY <1>2, <1>5, <2>2 DEF Check, FormState
    <3>2. Verified(h, now, None)
      BY <1>2, <3>1 DEF Verified
    <3>. QED
      BY <1>1, <3>1, <3>2, AttemptMoves
  <2>. QED
    BY <2>1, <2>2
<1>6. ASSUME NEW f \in Forms, WrongPassword(f)
      PROVE  AttemptsSound'
  <2>. PICK h : h = [Answered(form[f], "invalid_credentials", None) EXCEPT !.caused = lock']
    OBVIOUS
  <2>1. h.at = "answered"
    BY <1>2 DEF Answered, FormState
  <2>2. /\ form' = [form EXCEPT ![f] = h] /\ UNCHANGED now
        /\ lock' \in {lock, None, now + LOCKOUT}
    BY <1>6 DEF WrongPassword, record_failure
  <2>. QED
    BY <1>1, <2>1, <2>2, AttemptMoves
<1>7. ASSUME NEW f \in Forms, Receive(f)
      PROVE  AttemptsSound'
  <2>. PICK h : h = form'[f]
    OBVIOUS
  <2>1. form' = [form EXCEPT ![f] = h] /\ UNCHANGED <<now, lock>>
    BY <1>7 DEF Receive, AttemptsSound, CountdownSound, Types
  <2>2. h.at = "idle"
    <3>. DEFINE a == [form[f] EXCEPT !.at = "idle", !.outcome = "none", !.retry = None]
    <3>1. a.at = "idle" /\ DOMAIN a = DOMAIN NewForm
      BY <1>2 DEF FormState, NewForm
    <3>2. ASSUME NEW until PROVE Ticked(a, until).at = "idle"
      BY <3>1 DEF Ticked, NewForm
    <3>3. NewForm.at = "idle"
      BY DEF NewForm
    <3>. DEFINE retry == IF exposed THEN form[f].retry ELSE None
    <3>4. h = CASE form[f].outcome = "ok" -> NewForm
                [] form[f].outcome \in LOCKOUT_CODES /\ retry \notin {None, 0} ->
                     Ticked(a, now + 2 * retry)
                [] OTHER -> a
      BY <1>7 DEF Receive, AttemptsSound, CountdownSound, Types
    <3>. HIDE DEF a, retry
    <3>5. h = NewForm \/ h = Ticked(a, now + 2 * retry) \/ h = a
      BY <3>4 DEF LOCKOUT_CODES
    <3>. QED
      BY <3>1, <3>2, <3>3, <3>5
  <2>. QED
    BY <1>1, <2>1, <2>2, AttemptMoves
<1>8. ASSUME NEW f \in Forms, Tick(f)
      PROVE  AttemptsSound'
  <2>. PICK h : h = Ticked(form[f], form[f].until)
    OBVIOUS
  <2>1. form' = [form EXCEPT ![f] = h] /\ UNCHANGED <<now, lock>>
    BY <1>8 DEF Tick
  <2>2. h.at = form[f].at /\ h.since = form[f].since
    BY <1>2 DEF Ticked, FormState
  <2>3. Verified(h, now, lock)
    BY <1>2, <2>2 DEF Verified
  <2>. QED
    BY <1>1, <2>1, <2>3, AttemptMoves
<1>9. CASE Restart
  <2>1. ASSUME NEW f \in Forms PROVE form'[f].at # "verifying"
    BY <1>2, <1>9, Zenon DEF Restart, Answered, FormState
  <2>. QED
    BY <1>1, <2>1 DEF AttemptsSound, Verified
<1>10. CASE Clock
  <2>1. /\ now' = now + 1 /\ UNCHANGED <<form, lock>>
        /\ \A f \in Forms : form[f].at = "verifying" => now < form[f].since + Verification
    BY <1>10 DEF Clock
  <2>2. \A f \in Forms : Verified(form[f], now + 1, lock)
    BY <1>2, <2>1 DEF Verified
  <2>. QED
    BY <1>1, <2>1, <2>2 DEF AttemptsSound
<1>11. CASE UNCHANGED vars
  BY <1>1, <1>11 DEF AttemptsSound, Verified, vars
<1>. QED
  BY <1>3, <1>4, <1>5, <1>6, <1>7, <1>8, <1>9, <1>10, <1>11 DEF Next

LEMMA LogTyped ==
    ASSUME LockoutSound
    PROVE  /\ Len(log) \in Nat /\ DOMAIN log = 1..Len(log)
           /\ \A i \in DOMAIN log : log[i].at \in Nat /\ log[i].found \in Times
<1>1. log \in Seq(Failures)
  BY DEF LockoutSound
<1>2. Len(log) \in Nat /\ DOMAIN log = 1..Len(log) /\ \A i \in 1..Len(log) : log[i] \in Failures
  BY <1>1
<1>. QED
  BY <1>2 DEF Failures

LEMMA InitLockout == Init => LockoutSound
<1>. SUFFICES ASSUME Init PROVE LockoutSound
  OBVIOUS
<1>1. DOMAIN log = {} /\ log \in Seq(Failures)
  BY DEF Init
<1>2. now \in Nat /\ lock = None /\ failures = {}
  BY DEF Init
<1>. QED
  BY <1>1, <1>2 DEF LockoutSound, Remembered, LockCovers, FailuresLock, LockIsEarned, Times

\* Time passes, or the lock is what it was.
LEMMA LockStays ==
    ASSUME LockoutSound, UNCHANGED <<log, failures, lock>>, now' \in Nat, now <= now'
    PROVE  LockoutSound'
<1>1. /\ now \in Nat /\ WINDOW \in Nat /\ LOCKOUT \in Nat
      /\ \A i \in DOMAIN log : log[i].at \in Nat
  BY LockoutAssumption, LogTyped DEF LockoutSound
<1>2. Remembered' /\ \A i \in DOMAIN log : log[i].at <= now'
  BY <1>1 DEF LockoutSound, Remembered
<1>3. LockCovers' /\ LockIsEarned'
  BY DEF LockoutSound, LockCovers, LockIsEarned
<1>4. FailuresLock'
  BY <1>1 DEF LockoutSound, FailuresLock, Reaches, InWindow, Open
<1>. QED
  BY <1>2, <1>3, <1>4 DEF LockoutSound

\* A success or a restart forgets all.
LEMMA LockForgotten ==
    ASSUME LockoutSound, UNCHANGED now, failures' = {}, lock' = None, log' = <<>>
    PROVE  LockoutSound'
<1>1. DOMAIN log' = {} /\ log' \in Seq(Failures)
  OBVIOUS
<1>. QED
  BY <1>1 DEF LockoutSound, Remembered, LockCovers, FailuresLock, LockIsEarned, Times

\* The end of a lock forgets what has left the window, or was added to it.
LEMMA LockEnds ==
    ASSUME LockoutSound, UNCHANGED <<now, log>>, lock' = None,
           \/ lock = None /\ failures' = failures
           \/ lock # None /\ lock <= now /\ failures' = {}
    PROVE  LockoutSound'
<1>1. /\ now \in Nat /\ WINDOW \in Nat /\ LOCKOUT \in Nat /\ WINDOW <= LOCKOUT
      /\ None \notin Nat /\ \A i \in DOMAIN log : log[i].at \in Nat
  BY LockoutAssumption, LogTyped DEF LockoutSound
<1>2. CASE lock = None
  BY <1>1, <1>2, LockStays
<1>3. CASE lock # None /\ lock <= now /\ failures' = {}
  <2>1. lock \in Nat
    BY <1>3 DEF LockoutSound, Times
  <2>2. \A i \in DOMAIN log : log[i].found # None \/ log[i].at <= now - WINDOW
    BY <1>1, <1>3, <2>1 DEF LockoutSound, LockCovers
  <2>3. Remembered'
    BY <2>2 DEF Remembered
  <2>4. \A i \in DOMAIN log : Reaches(i) => ~(now < log[i].at + LOCKOUT)
    BY <1>1, <1>3, <2>1 DEF LockoutSound, FailuresLock
  <2>5. FailuresLock'
    BY <2>4 DEF FailuresLock, Reaches, InWindow, Open
  <2>. QED
    BY <1>3, <2>3, <2>5 DEF LockoutSound, LockCovers, LockIsEarned, Times
<1>. QED
  BY <1>2, <1>3

LEMMA FailureLocks ==
    ASSUME LockoutSound, UNCHANGED now, record_failure, lock # None => lock > now
    PROVE  LockoutSound'
<1>. PICK n, k : n = Len(log) /\ k = Cardinality(Counted)
  OBVIOUS
<1>1. /\ now \in Nat /\ WINDOW \in Nat /\ LOCKOUT \in Nat /\ FAILURE_THRESHOLD \in Nat
      /\ lock \in Times /\ None \notin Nat
  BY LockoutAssumption DEF LockoutSound
<1>2. /\ n \in Nat /\ DOMAIN log = 1..n /\ failures \subseteq 1..n
      /\ \A i \in 1..n : log[i].at \in Nat /\ log[i].at <= now
  BY LogTyped DEF LockoutSound
<1>3. /\ log' \in Seq(Failures) /\ DOMAIN log' = 1..(n + 1)
      /\ log'[n + 1].at = now /\ \A i \in 1..n : log'[i] = log[i]
      /\ log'[n + 1].found = lock
  <2>. PICK e : e = [at |-> now, found |-> lock]
    OBVIOUS
  <2>1. e \in Failures /\ e.at = now /\ e.found = lock
    BY <1>1 DEF Failures
  <2>2. log' = Append(log, e) /\ log \in Seq(Failures)
    BY DEF record_failure, LockoutSound
  <2>. QED
    BY <2>1, <2>2
<1>4. \A i \in 1..(n + 1) :
         /\ log'[i].at \in Nat /\ log'[i].at <= now
         /\ log'[i].found # None => log'[i].found \in Nat /\ log'[i].found > log'[i].at
  <2>1. ASSUME NEW i \in 1..n
        PROVE  /\ log'[i].at \in Nat /\ log'[i].at <= now
               /\ log'[i].found # None => log'[i].found \in Nat /\ log'[i].found > log'[i].at
    BY <1>2, <1>3, LogTyped DEF LockoutSound, Times
  <2>2. lock # None => lock \in Nat /\ lock > now
    BY <1>1 DEF Times
  <2>. QED
    BY <1>1, <1>2, <1>3, <2>1, <2>2
<1>5. /\ failures' = {i \in failures : log[i].at >= now - WINDOW} \cup {n + 1}
      /\ k = Cardinality(failures')
      /\ \A j : j \in failures' <=> (j \in failures /\ log[j].at >= now - WINDOW) \/ j = n + 1
  BY DEF record_failure, Counted
<1>6. IsFiniteSet(failures') /\ k \in Nat /\ failures' \subseteq 1..(n + 1)
  <2>1. failures' \in SUBSET (1..(n + 1))
    <3>1. \A j \in failures' : j \in 1..(n + 1)
      BY <1>2, <1>5
    <3>. QED
      BY <3>1
  <2>2. IsFiniteSet(1..(n + 1))
    BY <1>2, FS_Interval
  <2>3. IsFiniteSet(failures')
    BY <2>1, <2>2, FS_Subset
  <2>. QED
    BY <1>5, <2>1, <2>3, FS_CardinalityType
<1>7. lock' = IF k >= FAILURE_THRESHOLD THEN now + LOCKOUT ELSE lock
  BY DEF record_failure, Locks
<1>8. Remembered'
  BY <1>1, <1>2, <1>3, <1>5 DEF LockoutSound, Remembered
<1>9. LockCovers'
  <2>1. CASE k >= FAILURE_THRESHOLD
    BY <1>1, <1>2, <1>3, <1>7, <2>1 DEF LockCovers
  <2>2. CASE ~(k >= FAILURE_THRESHOLD)
    BY <1>2, <1>3, <1>7, <2>2 DEF LockoutSound, LockCovers
  <2>. QED
    BY <2>1, <2>2
<1>10. FailuresLock'
  <2>. SUFFICES ASSUME NEW i \in 1..(n + 1), Reaches(i)', now < log'[i].at + LOCKOUT
                PROVE  lock' # None /\ lock' >= log'[i].at + LOCKOUT
    BY <1>3 DEF FailuresLock
  <2>1. CASE i \in 1..n
    <3>1. \A j \in 1..i : log'[j] = log[j]
      BY <1>2, <1>3, <2>1
    <3>2. InWindow(i)' = InWindow(i)
      BY <1>2, <2>1, <3>1 DEF InWindow, Open
    <3>3. Reaches(i)
      BY <3>2 DEF Reaches
    <3>4. lock # None /\ lock >= log[i].at + LOCKOUT
      BY <1>2, <1>3, <2>1, <3>3 DEF LockoutSound, FailuresLock
    <3>. QED
      BY <1>1, <1>2, <1>3, <1>7, <2>1, <3>4
  <2>2. CASE i = n + 1
    <3>1. InWindow(i)' \subseteq failures'
      <4>1. ASSUME NEW j \in 1..(n + 1), log'[j].found = None, log'[j].at > now - WINDOW
            PROVE  j \in failures'
        <5>1. CASE j \in 1..n
          <6>1. log'[j] = log[j] /\ log[j].at \in Nat
            BY <1>2, <1>3, <5>1
          <6>2. j \in failures
            BY <1>1, <1>2, <4>1, <5>1, <6>1 DEF LockoutSound, Remembered
          <6>. QED
            BY <1>1, <1>5, <4>1, <6>1, <6>2
        <5>2. CASE j = n + 1
          BY <1>5, <5>2
        <5>. QED
          BY <1>2, <5>1, <5>2
      <4>2. ASSUME NEW j \in InWindow(i)'
            PROVE  j \in 1..(n + 1) /\ log'[j].found = None /\ log'[j].at > now - WINDOW
        <5>1. j \in 1..(n + 1) /\ Open(j)' /\ log'[j].at > now - WINDOW
          BY <1>2, <1>3, <2>2, <4>2 DEF InWindow
        <5>. QED
          BY <1>4, <5>1 DEF Open
      <4>. QED
        BY <4>1, <4>2
    <3>2. /\ Cardinality(InWindow(i)') <= Cardinality(failures')
          /\ Cardinality(InWindow(i)') \in Nat
      BY <1>6, <3>1, FS_Subset, FS_CardinalityType
    <3>3. k >= FAILURE_THRESHOLD
      BY <1>1, <1>5, <1>6, <3>2 DEF Reaches
    <3>. QED
      BY <1>1, <1>3, <1>7, <2>2, <3>3
  <2>. QED
    BY <1>2, <2>1, <2>2
<1>11. LockIsEarned'
  <2>1. CASE k >= FAILURE_THRESHOLD
    <3>. DEFINE T == {j \in 1..(n + 1) : log'[j].at >= log'[n + 1].at - WINDOW}
    <3>1. failures' \subseteq T
      <4>1. ASSUME NEW j \in failures' PROVE j \in T
        BY <1>1, <1>2, <1>3, <1>5, <1>6
      <4>. QED
        BY <4>1
    <3>2. IsFiniteSet(T)
      <4>1. IsFiniteSet(1..(n + 1)) /\ T \in SUBSET (1..(n + 1))
        BY <1>2, FS_Interval
      <4>. QED
        BY <4>1, FS_Subset
    <3>3. Cardinality(failures') <= Cardinality(T) /\ Cardinality(T) \in Nat
      BY <3>1, <3>2, FS_Subset, FS_CardinalityType
    <3>4. Cardinality(T) >= FAILURE_THRESHOLD
      BY <1>1, <1>5, <1>6, <2>1, <3>3
    <3>. HIDE DEF T
    <3>5. n + 1 \in DOMAIN log' /\ lock' = log'[n + 1].at + LOCKOUT
      BY <1>2, <1>3, <1>7, <2>1
    <3>. QED
      BY <3>4, <3>5 DEF LockIsEarned, T
  <2>2. CASE ~(k >= FAILURE_THRESHOLD)
    <3>. SUFFICES ASSUME lock # None PROVE LockIsEarned'
      BY <1>7, <2>2 DEF LockIsEarned
    <3>1. PICK i \in 1..n :
            /\ lock = log[i].at + LOCKOUT
            /\ Cardinality({j \in 1..i : log[j].at >= log[i].at - WINDOW}) >= FAILURE_THRESHOLD
      BY <1>2 DEF LockoutSound, LockIsEarned
    <3>2. {j \in 1..i : log'[j].at >= log'[i].at - WINDOW}
            = {j \in 1..i : log[j].at >= log[i].at - WINDOW}
      BY <1>2, <1>3
    <3>3. i \in DOMAIN log' /\ lock' = log'[i].at + LOCKOUT
      BY <1>2, <1>3, <1>7, <2>2, <3>1
    <3>4. Cardinality({j \in 1..i : log'[j].at >= log'[i].at - WINDOW}) >= FAILURE_THRESHOLD
      BY <3>1, <3>2
    <3>. QED
      BY <3>3, <3>4 DEF LockIsEarned
  <2>. QED
    BY <2>1, <2>2
<1>. QED
  BY <1>1, <1>3, <1>4, <1>6, <1>7, <1>8, <1>9, <1>10, <1>11 DEF LockoutSound, Times

LEMMA StepLockout == AttemptsSound /\ LockoutSound /\ [Next]_vars => LockoutSound'
<1>. SUFFICES ASSUME AttemptsSound, LockoutSound, [Next]_vars PROVE LockoutSound'
  OBVIOUS
<1>1. now \in Nat
  BY DEF LockoutSound
<1>2. ASSUME NEW f \in Forms, Submit(f) \/ RateLimit(f) \/ Fail(f) \/ Receive(f) \/ Tick(f)
      PROVE  LockoutSound'
  <2>1. UNCHANGED <<now, log, failures, lock>>
    BY <1>2 DEF Submit, RateLimit, Fail, Receive, Tick
  <2>. QED
    BY <1>1, <2>1, LockStays
<1>3. ASSUME NEW f \in Forms, Check(f)
      PROVE  LockoutSound'
  <2>1. CASE lock # None /\ lock > now
    <3>1. UNCHANGED <<now, log, failures, lock>>
      BY <1>3, <2>1 DEF Check
    <3>. QED
      BY <1>1, <3>1, LockStays
  <2>2. CASE ~(lock # None /\ lock > now)
    <3>1. /\ UNCHANGED <<now, log>> /\ lock' = None
          /\ failures' = IF lock = None THEN failures ELSE {}
      BY <1>3, <2>2 DEF Check
    <3>2. lock = None \/ (lock \in Nat /\ lock <= now)
      BY <1>1, <2>2 DEF LockoutSound, Times
    <3>. QED
      BY <1>1, <3>1, <3>2, LockEnds
  <2>. QED
    BY <2>1, <2>2
<1>4. ASSUME NEW f \in Forms, WrongPassword(f)
      PROVE  LockoutSound'
  <2>1. lock # None => lock > now
    <3>1. form[f].at = "verifying" /\ Verified(form[f], now, lock)
      BY <1>4 DEF WrongPassword, AttemptsSound
    <3>2. lock \in Times /\ Verification \in Nat /\ LOCKOUT \in Nat /\ Verification < LOCKOUT
      BY LockoutAssumption DEF LockoutSound
    <3>. QED
      BY <1>1, <3>1, <3>2 DEF Verified, Times
  <2>. QED
    BY <1>4, <2>1, FailureLocks DEF WrongPassword
<1>5. ASSUME NEW f \in Forms, RightPassword(f)
      PROVE  LockoutSound'
  BY <1>5, LockForgotten DEF RightPassword, record_success
<1>6. CASE Restart
  BY <1>6, LockForgotten DEF Restart
<1>7. CASE Clock \/ UNCHANGED vars
  <2>1. UNCHANGED <<log, failures, lock>> /\ now' \in Nat /\ now <= now'
    BY <1>1, <1>7 DEF Clock, vars
  <2>. QED
    BY <2>1, LockStays
<1>. QED
  BY <1>2, <1>3, <1>4, <1>5, <1>6, <1>7 DEF Next

LEMMA LockoutInvariant == Spec => []LockoutSound
<1>1. Spec => []AttemptsSound
  BY InitAttempts, StepAttempts, PTL DEF Spec
<1>. QED
  BY <1>1, InitLockout, StepLockout, PTL DEF Spec

\* Failures that reach the threshold within the window lock the address for
\* LOCKOUT_SECONDS (record_failure), whatever a lock's end and the window have
\* made _failure_times forget.
THEOREM FailuresDoLock == Spec => []FailuresLock
<1>1. LockoutSound => FailuresLock
  BY DEF LockoutSound
<1>. QED
  BY <1>1, LockoutInvariant, PTL

\* No address is locked by fewer failures than the threshold, or by old ones
\* (record_failure, record_success).
THEOREM LocksAreEarned == Spec => []LockIsEarned
<1>1. LockoutSound => LockIsEarned
  BY DEF LockoutSound
<1>. QED
  BY <1>1, LockoutInvariant, PTL
=============================================================================
