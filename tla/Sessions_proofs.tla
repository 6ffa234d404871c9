-------------------------- MODULE Sessions_proofs --------------------------
(***************************************************************************)
(* For every number of tabs and calls: a tab keeps its session alive, ends *)
(* its loading, and is sent away as expired only if it was signed in.      *)
(* Revocation is final as long as no two requests that revoke are between  *)
(* their read of the version and their commit: each of them adds one to    *)
(* the version it has read, and that is still the account's version.       *)
(***************************************************************************)
EXTENDS Sessions, TLAPS

Versions == Nat \cup {None}
Cookies == {None} \cup [version : Nat, expires : Nat]
CallState == [at : {"idle", "sent", "checked", "running", "answered"},
              kind : {"none", "boot", "silent", "page", "login", "register", "reset", "logout"},
              tab : Tabs \cup {None}, cookie : Cookies, read : Versions,
              outcome : {"none", "ok", "dead", "refused", "lost"}, token : Cookies]

Types ==
    /\ now \in Nat /\ version \in Versions
    /\ jar \in Cookies /\ call \in [Calls -> CallState]
    /\ issued \subseteq Nat /\ dead \subseteq Nat

Revoking(c) == Running(c, Revokers)

\* An account that is sent a link, logged in to or revoked is registered.
Known ==
    /\ link = "unused" => version # None
    /\ \A c \in Calls : Running(c, {"login"}) \/ call[c].at = "checked" => version # None

\* A revocation under way has read the version that still is.
Current == \A c \in Calls : Revoking(c) => version # None /\ call[c].read = version

\* What was issued is no newer than the version, what was revoked is older.
Ordered ==
    /\ \A i \in issued : version # None /\ i <= version
    /\ \A d \in dead : version # None /\ d < version

\* The inductive invariant of RevocationIsFinal.
RevocationSound == Types /\ Known /\ Current /\ Ordered /\ RevocationsApart

\* What holds of the server although revocations may overlap.
Reads == \A c \in Calls : Revoking(c) => call[c].read \in Nat
Typed == Types /\ Known /\ Reads

LEMMA SoundTyped == RevocationSound => Typed
BY DEF RevocationSound, Typed, Current, Reads, Types, Versions

-----------------------------------------------------------------------------
(* Steps that revoke nothing *)

\* No call starts to run; those that run are as before.
Quiet ==
    \A c \in Calls :
        /\ call'[c].at = "running" =>
             /\ call[c].at = "running"
             /\ call'[c].kind = call[c].kind /\ call'[c].read = call[c].read
        /\ call'[c].at = "checked" => call[c].at = "checked" \/ version # None

\* The sessions issued are of the current version.
IssuesCurrent ==
    \/ UNCHANGED issued
    \/ version # None /\ issued' = issued \cup {version}

QuietMove ==
    /\ Quiet /\ IssuesCurrent /\ UNCHANGED <<version, dead>>
    /\ now' \in Nat /\ jar' \in Cookies /\ call' \in [Calls -> CallState]
    /\ link' = "unused" => version # None

LEMMA QuietTyped ==
    ASSUME Typed, QuietMove
    PROVE  Typed'
<1>1. version \in Versions
  BY DEF Typed, Types
<1>2. Types'
  BY <1>1 DEF Typed, Types, QuietMove, IssuesCurrent, Versions
<1>3. Known'
  BY DEF Typed, Known, QuietMove, Quiet, Running
<1>4. Reads'
  BY DEF Typed, Reads, QuietMove, Quiet, Revoking, Running
<1>. QED
  BY <1>2, <1>3, <1>4 DEF Typed

LEMMA QuietStep ==
    ASSUME RevocationSound, QuietMove
    PROVE  RevocationSound'
<1>. USE DEF QuietMove
<1>1. version \in Versions
  BY DEF RevocationSound, Types
<1>2. Types'
  BY <1>1 DEF RevocationSound, Types, IssuesCurrent, Versions
<1>3. Known'
  BY DEF RevocationSound, Known, Quiet, Running
<1>4. Current'
  BY DEF RevocationSound, Current, Quiet, Revoking, Running
<1>5. RevocationsApart'
  BY DEF RevocationSound, RevocationsApart, Quiet, Running
<1>6. Ordered'
  <2>1. \A i \in issued' : version # None /\ i <= version
    BY <1>1 DEF RevocationSound, Ordered, IssuesCurrent, Versions
  <2>. QED
    BY <2>1 DEF RevocationSound, Ordered
<1>. QED
  BY <1>2, <1>3, <1>4, <1>5, <1>6 DEF RevocationSound

\* A call that is answered, sent or done does not run.
LEMMA OneCall ==
    ASSUME Types, NEW c \in Calls, NEW q \in CallState, q.at # "running",
           q.at = "checked" => version # None,
           call' = [call EXCEPT ![c] = q]
    PROVE  Quiet /\ call' \in [Calls -> CallState]
BY DEF Types, Quiet

LEMMA IdleTyped == Idle \in CallState /\ Idle.at = "idle"
BY DEF Idle, CallState, Versions, Cookies

LEMMA SentTyped ==
    ASSUME Types, NEW t \in Tabs,
           NEW kind \in {"boot", "silent", "page", "login", "register", "reset", "logout"}
    PROVE  Sent(t, kind) \in CallState /\ Sent(t, kind).at = "sent"
<1>1. jar \in Cookies
  BY DEF Types
<1>. QED
  BY <1>1 DEF Sent, Idle, CallState, Versions, Cookies

LEMMA AnswerQuiet ==
    ASSUME Types, NEW c \in Calls, NEW token \in Cookies,
           NEW outcome \in {"ok", "dead", "refused", "lost"}, Answer(c, outcome, token)
    PROVE  Quiet /\ call' \in [Calls -> CallState]
<1>. DEFINE q == [call[c] EXCEPT !.at = "answered", !.cookie = None, !.read = None,
                                !.outcome = outcome, !.token = token]
<1>1. call[c] \in CallState
  BY DEF Types
<1>2. q \in CallState
  BY <1>1 DEF CallState, Versions, Cookies
<1>3. q.at = "answered"
  BY <1>1 DEF CallState
<1>4. call' = [call EXCEPT ![c] = q]
  BY DEF Answer
<1>. HIDE DEF q
<1>. QED
  BY <1>2, <1>3, <1>4, OneCall

LEMMA SessionTyped ==
    ASSUME Types, NEW v \in Nat
    PROVE  Session(v) \in Cookies
BY SessionAssumption DEF Types, Session, Cookies

LEMMA DoneQuiet ==
    ASSUME Types, NEW c \in Calls, Done(c)
    PROVE  Quiet /\ call' \in [Calls -> CallState]
BY IdleTyped, OneCall DEF Done

\* Calls of a page that is left, and the one its next load sends.
LEMMA OrphanedQuiet ==
    ASSUME Types, NEW c \in Calls, NEW t \in Tabs,
           call' = [Orphaned(t) EXCEPT ![c] = Sent(t, "boot")]
    PROVE  Quiet /\ call' \in [Calls -> CallState]
<1>1. Sent(t, "boot") \in CallState /\ Sent(t, "boot").at = "sent"
  BY SentTyped
<1>2. ASSUME NEW d \in Calls
      PROVE  /\ Orphaned(t)[d] \in CallState
             /\ Orphaned(t)[d].at = call[d].at /\ Orphaned(t)[d].kind = call[d].kind
             /\ Orphaned(t)[d].read = call[d].read
  <2>1. call[d] \in CallState
    BY DEF Types
  <2>. QED
    BY <2>1 DEF Orphaned, CallState
<1>3. Orphaned(t) \in [Calls -> CallState]
  BY <1>2 DEF Orphaned
<1>. QED
  BY <1>1, <1>2, <1>3 DEF Quiet

LEMMA CookieTyped ==
    ASSUME Types, NEW c \in Calls, SetCookie(c)
    PROVE  jar' \in Cookies
<1>1. call[c].token \in Cookies
  BY DEF Types, CallState
<1>2. jar \in Cookies /\ None \in Cookies
  BY DEF Types, Cookies
<1>. QED
  BY <1>1, <1>2 DEF SetCookie

-----------------------------------------------------------------------------
(* Steps of the tabs *)

LEMMA RequestQuiet ==
    ASSUME Types, NEW t \in Tabs,
           NEW kind \in {"boot", "silent", "page", "login", "register", "reset", "logout"},
           Request(t, kind)
    PROVE  Quiet /\ call' \in [Calls -> CallState] /\ UNCHANGED <<now, server, jar>>
<1>1. PICK c \in Calls : call' = [call EXCEPT ![c] = Sent(t, kind)]
  BY DEF Request
<1>2. Sent(t, kind) \in CallState /\ Sent(t, kind).at = "sent"
  BY SentTyped
<1>. QED
  BY <1>1, <1>2, OneCall DEF Request

LEMMA TabSteps ==
    ASSUME Typed, NEW t \in Tabs, TabStep(t)
    PROVE  QuietMove
<1>1. Types /\ (link = "unused" => version # None) /\ now \in Nat /\ jar \in Cookies
  BY DEF Typed, Known, Types
<1>2. CASE \E kind \in {"page", "login", "register", "reset", "logout"} : Request(t, kind)
  <2>1. Quiet /\ call' \in [Calls -> CallState] /\ UNCHANGED <<now, server, jar>>
    BY <1>1, <1>2, RequestQuiet
  <2>. QED
    BY <1>1, <2>1 DEF QuietMove, server, IssuesCurrent
<1>3. CASE UNCHANGED <<now, server, jar, call>>
  <2>1. Quiet /\ call' \in [Calls -> CallState]
    BY <1>1, <1>3 DEF Quiet, Types
  <2>. QED
    BY <1>1, <1>3, <2>1 DEF QuietMove, server, IssuesCurrent
<1>4. ASSUME NEW page \in Pages, Load(t, page)
      PROVE  QuietMove
  <2>1. PICK c \in Calls : call' = [Orphaned(t) EXCEPT ![c] = Sent(t, "boot")]
    BY <1>4 DEF Load
  <2>2. Quiet /\ call' \in [Calls -> CallState]
    BY <1>1, <2>1, OrphanedQuiet
  <2>3. UNCHANGED <<now, server, jar>>
    BY <1>4 DEF Load
  <2>. QED
    BY <1>1, <2>2, <2>3 DEF QuietMove, server, IssuesCurrent
<1>5. CASE maybeRefresh(t)
  <2>1. CASE Due(t)
    <3>1. Quiet /\ call' \in [Calls -> CallState] /\ UNCHANGED <<now, server, jar>>
      BY <1>1, <1>5, <2>1, RequestQuiet DEF maybeRefresh
    <3>. QED
      BY <1>1, <3>1 DEF QuietMove, server, IssuesCurrent
  <2>. QED
    BY <1>3, <1>5, <2>1 DEF maybeRefresh
<1>6. ASSUME NEW page \in Pages, Follow(t, page) PROVE QuietMove
  BY <1>3, <1>6 DEF Follow
<1>7. CASE AuthGate(t)
  BY <1>3, <1>7 DEF AuthGate
<1>8. CASE FetchPage(t) \/ SubmitLogin(t) \/ SubmitRegistration(t) \/ SubmitReset(t) \/ LogOut(t)
  BY <1>2, <1>8 DEF FetchPage, SubmitLogin, SubmitRegistration, SubmitReset, LogOut
<1>. QED
  BY <1>4, <1>5, <1>6, <1>7, <1>8 DEF TabStep

-----------------------------------------------------------------------------
(* Steps of the server *)

\* The cookie of a live session has the account's version.
LEMMA LiveIsKnown ==
    ASSUME Types, NEW s \in Cookies, Live(s)
    PROVE  version \in Nat /\ version # None
BY SessionAssumption DEF Types, Live, Cookies, Versions

\* A call that starts to run; one that revokes finds the account.
StartsToRun(c) ==
    /\ Run(c) /\ call[c].at \in {"sent", "checked"} /\ UNCHANGED <<now, server, jar>>
    /\ call[c].kind \in Revokers \cup {"login"} => version # None

LEMMA RunTyped ==
    ASSUME Typed, NEW c \in Calls, StartsToRun(c)
    PROVE  Typed'
<1>. DEFINE q == [call[c] EXCEPT !.at = "running", !.cookie = None, !.read = version]
<1>1. call[c] \in CallState /\ version \in Versions
  BY DEF Typed, Types
<1>2. q \in CallState /\ q.at = "running" /\ q.kind = call[c].kind /\ q.read = version
  BY <1>1 DEF CallState, Cookies
<1>3. call' = [call EXCEPT ![c] = q]
  BY DEF StartsToRun, Run
<1>. HIDE DEF q
<1>4. \A d \in Calls : call'[d] = IF d = c THEN q ELSE call[d]
  BY <1>3 DEF Typed, Types
<1>5. Types'
  BY <1>2, <1>3 DEF Typed, Types, StartsToRun, server
<1>6. Known'
  BY <1>2, <1>4 DEF Typed, Known, Running, StartsToRun, server
<1>7. Reads'
  BY <1>1, <1>2, <1>4 DEF Typed, Reads, Revoking, Running, StartsToRun, Versions
<1>. QED
  BY <1>5, <1>6, <1>7 DEF Typed

LEMMA RunStep ==
    ASSUME RevocationSound, NEW c \in Calls, StartsToRun(c), RevocationsApart'
    PROVE  RevocationSound'
<1>. USE DEF StartsToRun
<1>. DEFINE q == [call[c] EXCEPT !.at = "running", !.cookie = None, !.read = version]
<1>1. call[c] \in CallState /\ version \in Versions
  BY DEF RevocationSound, Types
<1>2. q \in CallState /\ q.at = "running" /\ q.kind = call[c].kind /\ q.read = version
  BY <1>1 DEF CallState, Cookies
<1>3. call' = [call EXCEPT ![c] = q]
  BY DEF Run
<1>. HIDE DEF q
<1>4. \A d \in Calls : call'[d] = IF d = c THEN q ELSE call[d]
  BY <1>3 DEF RevocationSound, Types
<1>5. Types'
  BY <1>2, <1>3 DEF RevocationSound, Types, server
<1>6. Known'
  BY <1>2, <1>4 DEF RevocationSound, Known, Running, server
<1>7. Current'
  BY <1>2, <1>4 DEF RevocationSound, Current, Revoking, Running, server
<1>8. Ordered'
  BY DEF RevocationSound, Ordered, server
<1>. QED
  BY <1>5, <1>6, <1>7, <1>8 DEF RevocationSound

LEMMA CommitTyped ==
    ASSUME Typed, NEW c \in Calls, CommitRevocation(c)
    PROVE  Typed'
<1>1. version' \in Nat /\ version' # None
  BY SessionAssumption DEF Typed, Reads, Revoking, CommitRevocation, Bumped
<1>2. Quiet /\ call' \in [Calls -> CallState]
  BY AnswerQuiet DEF Typed, CommitRevocation, Cookies
<1>3. Types'
  BY <1>1, <1>2 DEF Typed, Types, CommitRevocation, Versions
<1>4. Known'
  BY <1>1 DEF Known
<1>5. Reads'
  BY <1>2 DEF Typed, Reads, Quiet, Revoking, Running
<1>. QED
  BY <1>3, <1>4, <1>5 DEF Typed

\* The one revocation under way counts up the version it has read, which no
\* session issued so far has passed.
LEMMA CommitStep ==
    ASSUME RevocationSound, NEW c \in Calls, CommitRevocation(c)
    PROVE  RevocationSound'
<1>1. version \in Nat /\ version' = version + 1 /\ version' \in Nat /\ version' # None
  BY SessionAssumption
     DEF RevocationSound, Types, Current, Revoking, CommitRevocation, Bumped, Versions
<1>2. Quiet /\ call' \in [Calls -> CallState]
  BY AnswerQuiet DEF RevocationSound, CommitRevocation, Cookies
<1>3. call'[c].at = "answered"
  BY DEF CommitRevocation, Answer, RevocationSound, Types, CallState
<1>4. Types'
  BY <1>1, <1>2 DEF RevocationSound, Types, CommitRevocation, Versions
<1>5. ASSUME NEW d \in Calls PROVE ~Revoking(d)'
  <2>1. CASE d = c
    BY <1>3, <2>1 DEF Revoking, Running
  <2>2. CASE d # c
    <3>1. Revoking(c)
      BY DEF CommitRevocation, Revoking
    <3>2. ~Revoking(d)
      BY <2>2, <3>1 DEF RevocationSound, RevocationsApart, Revoking
    <3>. QED
      BY <1>2, <3>2 DEF Quiet, Revoking, Running
  <2>. QED
    BY <2>1, <2>2
<1>6. Ordered'
  <2>1. issued' = issued /\ dead' = dead \cup issued
    BY DEF CommitRevocation
  <2>2. \A i \in issued \cup dead : i \in Nat /\ i <= version
    BY <1>1 DEF RevocationSound, Types, Ordered
  <2>. QED
    BY <1>1, <2>1, <2>2 DEF Ordered
<1>7. Known'
  BY <1>1 DEF Known
<1>8. Current' /\ RevocationsApart'
  BY <1>5 DEF Current, RevocationsApart, Revoking
<1>. QED
  BY <1>4, <1>6, <1>7, <1>8 DEF RevocationSound

\* The first user; nothing of the account ran before.
FirstUser(c) == InsertUser(c) /\ version = None

LEMMA InsertQuiet ==
    ASSUME Types, NEW c \in Calls, FirstUser(c)
    PROVE  /\ version' = 0 /\ issued' = issued \cup {0} /\ dead' = dead
           /\ Quiet /\ Types' /\ None # 0
<1>1. None # 0
  BY SessionAssumption
<1>2. version' = 0 /\ issued' = issued \cup {0} /\ Answer(c, "ok", Session(0))
      /\ UNCHANGED <<now, link, jar, dead>>
  BY DEF FirstUser, InsertUser, Issue
<1>3. Quiet /\ call' \in [Calls -> CallState]
  BY <1>2, SessionTyped, AnswerQuiet
<1>4. Types'
  BY <1>2, <1>3 DEF Types, Versions
<1>. QED
  BY <1>1, <1>2, <1>3, <1>4

LEMMA InsertTyped ==
    ASSUME Typed, NEW c \in Calls, FirstUser(c)
    PROVE  Typed'
<1>1. Types' /\ version' # None /\ Quiet
  BY InsertQuiet DEF Typed
<1>2. Known' /\ Reads'
  BY <1>1 DEF Typed, Known, Reads, Quiet, Revoking, Running
<1>. QED
  BY <1>1, <1>2 DEF Typed

LEMMA InsertStep ==
    ASSUME RevocationSound, NEW c \in Calls, FirstUser(c)
    PROVE  RevocationSound'
<1>1. /\ version' = 0 /\ issued' = issued \cup {0} /\ dead' = dead
      /\ Quiet /\ Types' /\ None # 0 /\ version = None
  BY InsertQuiet DEF RevocationSound, FirstUser
<1>2. \A d \in Calls : ~Revoking(d)'
  BY <1>1 DEF RevocationSound, Current, Quiet, Revoking, Running
<1>3. issued = {} /\ dead = {}
  BY <1>1 DEF RevocationSound, Ordered
<1>. QED
  BY <1>1, <1>2, <1>3 DEF RevocationSound, Known, Current, RevocationsApart, Revoking, Ordered

LEMMA ServerSteps ==
    ASSUME Typed, NEW c \in Calls, ServerStep(c)
    PROVE  QuietMove \/ StartsToRun(c) \/ CommitRevocation(c) \/ FirstUser(c)
<1>1. Types /\ (link = "unused" => version # None) /\ now \in Nat /\ jar \in Cookies
      /\ version \in Versions /\ None \in Cookies /\ call[c].cookie \in Cookies
  BY DEF Typed, Known, Types, Cookies, CallState
<1>2. ASSUME NEW outcome \in {"ok", "dead", "refused"}, Answer(c, outcome, None),
             UNCHANGED <<now, server, jar>>
      PROVE  QuietMove
  <2>1. Quiet /\ call' \in [Calls -> CallState]
    BY <1>1, <1>2, AnswerQuiet
  <2>. QED
    BY <1>1, <1>2, <2>1 DEF QuietMove, server, IssuesCurrent
<1>3. ASSUME version # None, Issue(c, version), UNCHANGED <<now, version, link, jar, dead>>
      PROVE  QuietMove
  <2>1. version \in Nat
    BY <1>1, <1>3 DEF Versions
  <2>2. Quiet /\ call' \in [Calls -> CallState]
    BY <1>1, <1>3, <2>1, SessionTyped, AnswerQuiet DEF Issue
  <2>. QED
    BY <1>1, <1>3, <2>2 DEF QuietMove, IssuesCurrent, Issue
<1>4. CASE refresh(c)
  BY <1>1, <1>2, <1>3, <1>4, LiveIsKnown DEF refresh, server
<1>5. CASE ServePage(c)
  BY <1>2, <1>5 DEF ServePage
<1>6. CASE LogoutRead(c)
  <2>1. CASE Live(call[c].cookie)
    <3>1. Run(c)
      BY <1>6, <2>1 DEF LogoutRead
    <3>2. version # None
      BY <1>1, <2>1, LiveIsKnown
    <3>. QED
      BY <1>6, <3>1, <3>2 DEF StartsToRun, LogoutRead, Received
  <2>. QED
    BY <1>2, <1>6, <2>1 DEF LogoutRead
<1>7. CASE ConsumeLink(c)
  <2>1. CASE link = "unused"
    <3>. DEFINE q == [call[c] EXCEPT !.at = "checked", !.cookie = None]
    <3>1. call[c] \in CallState
      BY <1>1 DEF Types
    <3>2. q \in CallState /\ q.at = "checked"
      BY <3>1 DEF CallState, Cookies
    <3>3. call' = [call EXCEPT ![c] = q]
      BY <1>1, <1>7, <2>1 DEF ConsumeLink, Types
    <3>. HIDE DEF q
    <3>4. Quiet /\ call' \in [Calls -> CallState]
      BY <1>1, <2>1, <3>2, <3>3, OneCall
    <3>. QED
      BY <1>1, <1>7, <3>4 DEF QuietMove, ConsumeLink, server, IssuesCurrent
  <2>. QED
    BY <1>2, <1>7, <2>1 DEF ConsumeLink
<1>12. CASE MarkUsed(c)
  BY <1>12 DEF MarkUsed, StartsToRun, Typed, Known
<1>8. CASE VerifyPassword(c)
  <2>1. CASE Run(c)
    <3>1. version # None \/ Answer(c, "refused", None)
      BY <1>8 DEF VerifyPassword
    <3>. QED
      BY <1>2, <1>8, <2>1, <3>1 DEF StartsToRun, VerifyPassword, Received, Revokers
  <2>. QED
    BY <1>2, <1>8, <2>1 DEF VerifyPassword
<1>9. CASE IssueToLogin(c)
  <2>1. version # None
    BY <1>9 DEF IssueToLogin, Typed, Known
  <2>. QED
    BY <1>3, <1>9, <2>1 DEF IssueToLogin
<1>10. CASE CheckEmail(c)
  <2>1. CASE Run(c)
    BY <1>10, <2>1 DEF StartsToRun, CheckEmail, Received, Revokers
  <2>. QED
    BY <1>2, <1>10, <2>1 DEF CheckEmail
<1>11. CASE InsertUser(c)
  <2>1. CASE version # None
    <3>1. Answer(c, "refused", None) /\ UNCHANGED <<now, server, jar>>
      BY <1>11, <2>1 DEF InsertUser, server
    <3>. QED
      BY <1>2, <3>1
  <2>. QED
    BY <1>11, <2>1 DEF FirstUser
<1>. QED
  BY <1>4, <1>5, <1>6, <1>7, <1>8, <1>9, <1>10, <1>11, <1>12 DEF ServerStep

-----------------------------------------------------------------------------
(* Answers that arrive, or are lost *)

LEMMA ArrivalMoves ==
    ASSUME NEW c \in Calls, Arrival(c) \/ Lose(c)
    PROVE  UNCHANGED <<now, server>> /\ (UNCHANGED jar \/ SetCookie(c))
<1>1. CASE SessionApplied(c)
  BY <1>1 DEF SessionApplied
<1>2. CASE SignedIn(c)
  BY <1>2 DEF SignedIn
<1>3. CASE FormRefused(c)
  BY <1>3 DEF FormRefused
<1>4. CASE BootFailed(c)
  BY <1>4 DEF BootFailed
<1>5. CASE SilentFailed(c)
  BY <1>5 DEF SilentFailed
<1>6. CASE PageAnswered(c)
  BY <1>6 DEF PageAnswered
<1>7. CASE LoggedOut(c)
  BY <1>7 DEF LoggedOut
<1>8. CASE ArrivesTooLate(c)
  BY <1>8 DEF ArrivesTooLate
<1>9. CASE Lose(c)
  BY <1>9 DEF Lose
<1>. QED
  BY <1>1, <1>2, <1>3, <1>4, <1>5, <1>6, <1>7, <1>8, <1>9 DEF Arrival

LEMMA Arrivals ==
    ASSUME Typed, NEW c \in Calls, Arrival(c) \/ Lose(c)
    PROVE  QuietMove
<1>1. Types /\ (link = "unused" => version # None) /\ now \in Nat /\ jar \in Cookies
      /\ None \in Cookies /\ call[c].tab \in Tabs \cup {None}
  <2>1. Types /\ (link = "unused" => version # None)
    BY DEF Typed, Known
  <2>2. now \in Nat /\ jar \in Cookies /\ call[c] \in CallState
    BY <2>1 DEF Types
  <2>3. call[c].tab \in Tabs \cup {None}
    BY <2>2 DEF CallState
  <2>. QED
    BY <2>1, <2>2, <2>3 DEF Cookies
<1>2. UNCHANGED <<now, server>>
  BY ArrivalMoves
<1>3. jar' \in Cookies
  BY <1>1, ArrivalMoves, CookieTyped
<1>4. ASSUME SessionExpired(c), call[c].tab # None
      PROVE  Quiet /\ call' \in [Calls -> CallState]
  BY <1>1, <1>4, OrphanedQuiet DEF SessionExpired, Owner
<1>5. Done(c) => Quiet /\ call' \in [Calls -> CallState]
  BY <1>1, DoneQuiet
<1>6. Quiet /\ call' \in [Calls -> CallState]
  <2>1. CASE Lose(c)
    BY <1>1, <2>1, AnswerQuiet DEF Lose
  <2>2. CASE SessionApplied(c) \/ SignedIn(c) \/ FormRefused(c) \/ BootFailed(c)
              \/ LoggedOut(c) \/ ArrivesTooLate(c)
    BY <1>5, <2>2, Zenon DEF SessionApplied, SignedIn, FormRefused, BootFailed, AfterBootFailure,
                             Unauthenticated, LoggedOut, ArrivesTooLate
  <2>3. CASE PageAnswered(c)
    BY <1>4, <1>5, <2>3, Zenon DEF PageAnswered, Answered
  <2>4. CASE SilentFailed(c)
    <3>1. call[c].tab # None /\ (Done(c) \/ SessionExpired(c))
      BY <2>4 DEF SilentFailed, Answered, SignOut
    <3>. QED
      BY <1>4, <1>5, <3>1
  <2>. QED
    BY <2>1, <2>2, <2>3, <2>4 DEF Arrival
<1>. QED
  BY <1>1, <1>2, <1>3, <1>6 DEF QuietMove, server, IssuesCurrent

-----------------------------------------------------------------------------
(* The theorem *)

LEMMA InitSound == Init => RevocationSound
<1>. SUFFICES ASSUME Init PROVE RevocationSound
  OBVIOUS
<1>1. Types
  <2>1. Idle \in CallState
    BY IdleTyped
  <2>2. jar \in Cookies
    BY SessionAssumption DEF Init, Session, Cookies
  <2>. QED
    BY <2>1, <2>2 DEF Init, Types, Versions
<1>2. Known /\ Current /\ RevocationsApart
  BY IdleTyped DEF Init, Known, Current, RevocationsApart, Revoking, Running
<1>3. Ordered
  BY SessionAssumption DEF Init, Ordered
<1>. QED
  BY <1>1, <1>2, <1>3 DEF RevocationSound

\* What a step does to the server's side of the sessions.
LEMMA Steps ==
    ASSUME Typed, [Next]_vars
    PROVE  QuietMove \/ \E c \in Calls : StartsToRun(c) \/ CommitRevocation(c) \/ FirstUser(c)
<1>1. Types /\ (link = "unused" => version # None) /\ now \in Nat /\ jar \in Cookies
      /\ call \in [Calls -> CallState]
  BY DEF Typed, Known, Types
<1>2. CASE request_password_reset
  <2>1. UNCHANGED <<now, version, jar, issued, dead>> /\ version # None
    BY <1>2 DEF request_password_reset
  <2>2. ASSUME NEW c \in Calls
        PROVE  /\ call'[c] \in CallState
               /\ call'[c] = call[c] \/ call'[c].at = "answered"
    <3>. DEFINE q == [call[c] EXCEPT !.at = "answered", !.outcome = "refused"]
    <3>1. call[c] \in CallState /\ q \in CallState /\ q.at = "answered"
      BY <1>1 DEF CallState
    <3>2. call'[c] = q \/ call'[c] = call[c]
      BY <1>2 DEF request_password_reset
    <3>. QED
      BY <3>1, <3>2
  <2>3. Quiet
    BY <2>2 DEF Quiet
  <2>4. call' \in [Calls -> CallState]
    BY <1>2, <2>2 DEF request_password_reset
  <2>. QED
    BY <1>1, <2>1, <2>3, <2>4 DEF QuietMove, IssuesCurrent
<1>3. CASE Tick
  <2>1. Quiet /\ UNCHANGED <<version, link, jar, call, issued, dead>> /\ now' \in Nat
    BY <1>1, <1>3 DEF Tick, Quiet, server
  <2>. QED
    BY <1>1, <2>1 DEF QuietMove, IssuesCurrent
<1>4. CASE UNCHANGED vars
  <2>1. Quiet /\ UNCHANGED <<now, version, link, jar, call, issued, dead>>
    BY <1>4 DEF vars, Quiet
  <2>. QED
    BY <1>1, <2>1 DEF QuietMove, IssuesCurrent
<1>. QED
  BY <1>2, <1>3, <1>4, TabSteps, ServerSteps, Arrivals DEF Next

LEMMA StepTyped == Typed /\ [Next]_vars => Typed'
BY Steps, QuietTyped, RunTyped, CommitTyped, InsertTyped

LEMMA StepSound == RevocationSound /\ RevocationsApart' /\ [Next]_vars => RevocationSound'
BY Steps, SoundTyped, QuietStep, RunStep, CommitStep, InsertStep

\* A session that was revoked is never valid again, as long as the requests
\* that revoke (logout_user, reset_password) do not overlap between their
\* read of the version and their commit.  Nothing in the code keeps them
\* apart: it is the one way in which revocation fails.
THEOREM RevokedForGood == Spec /\ []RevocationsApart => []RevocationIsFinal
<1>1. RevocationSound => RevocationIsFinal
  BY DEF RevocationSound, Types, Ordered, Versions, RevocationIsFinal
<1>2. RevocationSound /\ RevocationsApart' /\ [Next]_vars => RevocationSound'
  BY StepSound
<1>3. Spec /\ []RevocationsApart => []RevocationSound
  BY <1>2, InitSound, PTL DEF Spec
<1>. QED
  BY <1>1, <1>3, PTL

-----------------------------------------------------------------------------
(* The tabs: what one tab shows, and the calls it waits for *)

Fields == {"page", "status", "expiresAt", "checked", "notice", "entered"}

\* A tab's session lasts for as many checks, less one for each lost request.
Margin == IF Life < Threshold THEN Life ELSE Threshold

Refreshing(x, t) == x.tab = t /\ x.kind = "silent" /\ x.outcome # "lost"

\* Of tab t, which is T, when the calls are C, the time is n and f requests
\* were lost: one that was signed in is marked so, one that is loading has
\* asked for the session, and one that has made its check has time left for
\* the next, or a refresh under way.
EarnedOK(T, C, t) ==
    /\ T.status = "authenticated" => T.entered = TRUE
    /\ \A c \in Calls : C[c].tab = t /\ C[c].kind \in {"silent", "page"} => T.entered = TRUE
AwaitedOK(T, C, t) ==
    T.status = "loading" => \E c \in Calls : C[c].tab = t /\ C[c].kind = "boot"
RenewedOK(T, C, t, n, f) ==
    T.status = "authenticated" =>
        /\ T.expiresAt \in Nat /\ T.expiresAt <= n + Life /\ T.expiresAt + 1 + f >= n + Margin
        /\ \/ T.checked = FALSE
           \/ \E c \in Calls : Refreshing(C[c], t)
           \/ T.expiresAt + f >= n + Margin
TabOK(T, C, t, n, f) == EarnedOK(T, C, t) /\ AwaitedOK(T, C, t) /\ RenewedOK(T, C, t, n, f)

\* A session that is on its way to the browser was issued since the last check.
TokenOK(x, n) ==
    /\ x.token # None => x.token.expires = n + Life
    /\ x.outcome = "ok" /\ x.kind \in {"boot", "silent", "login", "register"} => x.token # None

\* The cookie lasts as long as any tab thinks that it does.
JarOK ==
    jar # None =>
        /\ jar.expires <= now + Life
        /\ \A t \in Tabs : tab[t].status = "authenticated" => tab[t].expiresAt <= jar.expires

\* The inductive invariant of the tabs.
TabsSound ==
    /\ DOMAIN tab = Tabs /\ \A t \in Tabs : DOMAIN tab[t] = Fields
    /\ faults \in Nat /\ faults <= MaxFaults
    /\ \A t \in Tabs : TabOK(tab[t], call, t, now, faults)
    /\ \A c \in Calls : TokenOK(call[c], now)
    /\ JarOK

-----------------------------------------------------------------------------
(* What keeps one tab sound *)

\* A call that is tab t's before or after a step is its before and after.
Same(x, y, t, lost) ==
    x.tab = t \/ y.tab = t =>
        /\ y.tab = x.tab /\ y.kind = x.kind
        /\ y.outcome = "lost" => x.outcome = "lost" \/ lost = TRUE

Alike(T, U) ==
    U.status = T.status /\ U.expiresAt = T.expiresAt /\ U.checked = T.checked /\ U.entered = T.entered

LEMMA TabKept ==
    ASSUME NEW T, NEW U, NEW C, NEW D, NEW t, NEW n \in Nat, NEW f \in Nat, NEW g \in {f, f + 1},
           TabOK(T, C, t, n, f), Alike(T, U), \A c \in Calls : Same(C[c], D[c], t, g = f + 1)
    PROVE  TabOK(U, D, t, n, g)
<1>1. EarnedOK(U, D, t)
  BY DEF TabOK, EarnedOK, Alike, Same
<1>2. AwaitedOK(U, D, t)
  BY DEF TabOK, AwaitedOK, Alike, Same
<1>3. RenewedOK(U, D, t, n, g)
  <2>. SUFFICES ASSUME U.status = "authenticated"
                PROVE  /\ U.expiresAt \in Nat /\ U.expiresAt <= n + Life /\ U.expiresAt + 1 + g >= n + Margin
                       /\ \/ U.checked = FALSE
                          \/ \E c \in Calls : Refreshing(D[c], t)
                          \/ U.expiresAt + g >= n + Margin
    BY DEF RenewedOK
  <2>1. Margin \in Nat /\ Life \in Nat
    BY SessionAssumption DEF Margin
  <2>2. /\ T.expiresAt \in Nat /\ T.expiresAt <= n + Life /\ T.expiresAt + 1 + f >= n + Margin
        /\ \/ T.checked = FALSE
           \/ \E c \in Calls : Refreshing(C[c], t)
           \/ T.expiresAt + f >= n + Margin
    BY DEF TabOK, RenewedOK, Alike
  <2>3. U.expiresAt \in Nat /\ U.expiresAt <= n + Life /\ U.expiresAt + 1 + g >= n + Margin
    BY <2>1, <2>2 DEF Alike
  <2>4. CASE T.checked = FALSE
    BY <2>3, <2>4 DEF Alike
  <2>5. CASE T.expiresAt + f >= n + Margin
    BY <2>1, <2>2, <2>3, <2>5 DEF Alike
  <2>6. ASSUME NEW c \in Calls, Refreshing(C[c], t), g = f
        PROVE  Refreshing(D[c], t)
    <3>1. (g = f + 1) = FALSE
      BY <2>6
    <3>. QED
      BY <2>6, <3>1 DEF Refreshing, Same
  <2>7. CASE g = f + 1
    BY <2>1, <2>2, <2>3, <2>7 DEF Alike
  <2>. QED
    BY <2>2, <2>3, <2>4, <2>5, <2>6, <2>7
<1>. QED
  BY <1>1, <1>2, <1>3 DEF TabOK

\* A request of the tab is sent; with a refresh the check is made.
LEMMA TabAsks ==
    ASSUME NEW T, NEW U, NEW C, NEW D, NEW t, NEW n, NEW f, NEW c \in Calls,
           TabOK(T, C, t, n, f), C[c].tab # t, \A d \in Calls : d # c => D[d] = C[d],
           D[c].tab = t, D[c].outcome = "none",
           D[c].kind \in {"silent", "page"} => T.status = "authenticated",
           \/ Alike(T, U)
           \/ /\ D[c].kind = "silent"
              /\ U.status = T.status /\ U.expiresAt = T.expiresAt /\ U.entered = T.entered
    PROVE  TabOK(U, D, t, n, f)
<1>1. U.status = T.status /\ U.expiresAt = T.expiresAt /\ U.entered = T.entered
  BY DEF Alike
<1>2. EarnedOK(U, D, t)
  BY <1>1 DEF TabOK, EarnedOK
<1>3. AwaitedOK(U, D, t)
  BY <1>1 DEF TabOK, AwaitedOK
<1>4. \A d \in Calls : Refreshing(C[d], t) => Refreshing(D[d], t)
  BY DEF Refreshing
<1>5. D[c].kind = "silent" => Refreshing(D[c], t)
  BY DEF Refreshing
<1>6. RenewedOK(U, D, t, n, f)
  BY <1>1, <1>4, <1>5 DEF TabOK, RenewedOK, Alike
<1>. QED
  BY <1>2, <1>3, <1>6 DEF TabOK

\* The check finds that the session need not be renewed.
LEMMA TabChecks ==
    ASSUME NEW T, NEW U, NEW C, NEW t, NEW n \in Nat, NEW f \in Nat, TabOK(T, C, t, n, f),
           ~(T.expiresAt - n < Threshold), T.status = "authenticated",
           U.status = T.status, U.expiresAt = T.expiresAt, U.entered = T.entered
    PROVE  TabOK(U, C, t, n, f)
<1>1. EarnedOK(U, C, t) /\ AwaitedOK(U, C, t)
  BY DEF TabOK, EarnedOK, AwaitedOK
<1>2. Margin \in Nat /\ Life \in Nat /\ Threshold \in Nat /\ Margin <= Threshold
  BY SessionAssumption DEF Margin
<1>3. T.expiresAt \in Nat /\ T.expiresAt <= n + Life /\ T.expiresAt + 1 + f >= n + Margin
  BY DEF TabOK, RenewedOK
<1>4. T.expiresAt + f >= n + Margin
  BY <1>2, <1>3
<1>5. RenewedOK(U, C, t, n, f)
  BY <1>3, <1>4 DEF RenewedOK
<1>. QED
  BY <1>1, <1>5 DEF TabOK

\* A session arrives.
LEMMA TabEnters ==
    ASSUME NEW U, NEW D, NEW t, NEW n \in Nat, NEW f \in Nat,
           U.status = "authenticated", U.expiresAt = n + Life, U.entered = TRUE
    PROVE  TabOK(U, D, t, n, f)
<1>1. Margin \in Nat /\ Life \in Nat /\ Margin <= Life
  BY SessionAssumption DEF Margin
<1>2. U.expiresAt \in Nat /\ U.expiresAt <= n + Life /\ U.expiresAt + f >= n + Margin
      /\ U.expiresAt + 1 + f >= n + Margin
  BY <1>1
<1>. QED
  BY <1>2 DEF TabOK, EarnedOK, AwaitedOK, RenewedOK

\* The tab is signed out.
LEMMA TabLeaves ==
    ASSUME NEW T, NEW U, NEW C, NEW D, NEW t, NEW n, NEW f, TabOK(T, C, t, n, f),
           U.status = "unauthenticated", U.entered = T.entered,
           \A d \in Calls : D[d].tab = t => C[d].tab = t /\ D[d].kind = C[d].kind
    PROVE  TabOK(U, D, t, n, f)
BY DEF TabOK, EarnedOK, AwaitedOK, RenewedOK

\* An answer that changes nothing of the tab.
LEMMA TabDrops ==
    ASSUME NEW T, NEW C, NEW D, NEW t, NEW n, NEW f, NEW c \in Calls, TabOK(T, C, t, n, f),
           C[c].kind # "boot", ~Refreshing(C[c], t), D[c].tab # t, \A d \in Calls : d # c => D[d] = C[d]
    PROVE  TabOK(T, D, t, n, f)
<1>1. EarnedOK(T, D, t)
  BY DEF TabOK, EarnedOK
<1>2. AwaitedOK(T, D, t)
  BY DEF TabOK, AwaitedOK
<1>3. RenewedOK(T, D, t, n, f)
  BY DEF TabOK, RenewedOK
<1>. QED
  BY <1>1, <1>2, <1>3 DEF TabOK

-----------------------------------------------------------------------------
(* What keeps all tabs sound *)

\* What is stored as the cookie is new, or was there, or there is none; a tab
\* is signed in anew only with a new one.
JarStep ==
    \/ jar' = None
    \/ jar'.expires = now + Life
    \/ jar' = jar /\ \A t \in Tabs : tab'[t].status = "authenticated" =>
                        tab[t].status = "authenticated" /\ tab'[t].expiresAt = tab[t].expiresAt

LEMMA JarKept ==
    ASSUME TabsSound, JarStep, now \in Nat, now' = now,
           \A t \in Tabs : TabOK(tab'[t], call', t, now, faults')
    PROVE  JarOK'
<1>1. \A t \in Tabs : tab'[t].status = "authenticated" =>
                        tab'[t].expiresAt \in Nat /\ tab'[t].expiresAt <= now + Life
  BY DEF TabOK, RenewedOK
<1>2. Life \in Nat
  BY SessionAssumption
<1>3. CASE jar' = None
  BY <1>3 DEF JarOK
<1>4. CASE jar'.expires = now + Life
  BY <1>1, <1>2, <1>4 DEF JarOK
<1>5. CASE jar' = jar /\ \A t \in Tabs : tab'[t].status = "authenticated" =>
                        tab[t].status = "authenticated" /\ tab'[t].expiresAt = tab[t].expiresAt
  BY <1>5 DEF TabsSound, JarOK
<1>. QED
  BY <1>3, <1>4, <1>5 DEF JarStep

\* A step of one tab, or of a call of it.
LEMMA OneTab ==
    ASSUME TabsSound, now \in Nat, NEW u \in Tabs, UNCHANGED <<now, faults>>,
           DOMAIN tab' = Tabs, DOMAIN tab'[u] = Fields, \A t \in Tabs : t # u => tab'[t] = tab[t],
           TabOK(tab'[u], call', u, now, faults),
           \A c \in Calls, t \in Tabs : t # u => Same(call[c], call'[c], t, FALSE),
           \A c \in Calls : TokenOK(call'[c], now), JarStep
    PROVE  TabsSound'
<1>1. ASSUME NEW t \in Tabs PROVE TabOK(tab'[t], call', t, now, faults')
  <2>1. CASE t # u
    <3>1. faults \in Nat /\ TabOK(tab[t], call, t, now, faults) /\ (faults = faults + 1) = FALSE
      BY DEF TabsSound
    <3>2. Alike(tab[t], tab'[t])
      BY <2>1 DEF Alike
    <3>3. \A c \in Calls : Same(call[c], call'[c], t, faults = faults + 1)
      BY <2>1, <3>1
    <3>. QED
      BY <3>1, <3>2, <3>3, TabKept
  <2>. QED
    BY <2>1
<1>2. JarOK'
  BY <1>1, JarKept
<1>3. \A t \in Tabs : DOMAIN tab'[t] = Fields
  BY DEF TabsSound
<1>. QED
  BY <1>1, <1>2, <1>3 DEF TabsSound

\* A step of a call alone.
LEMMA NoTab ==
    ASSUME TabsSound, now \in Nat, UNCHANGED <<now, tab>>, faults' \in {faults, faults + 1},
           faults' <= MaxFaults,
           \A c \in Calls, t \in Tabs : Same(call[c], call'[c], t, faults' = faults + 1),
           \A c \in Calls : TokenOK(call'[c], now), JarStep
    PROVE  TabsSound'
<1>1. ASSUME NEW t \in Tabs PROVE TabOK(tab'[t], call', t, now, faults')
  <2>1. faults \in Nat /\ TabOK(tab[t], call, t, now, faults)
    BY DEF TabsSound
  <2>2. Alike(tab[t], tab'[t])
    BY DEF Alike
  <2>. QED
    BY <2>1, <2>2, TabKept
<1>2. JarOK'
  BY <1>1, JarKept
<1>3. DOMAIN tab' = Tabs /\ faults' \in Nat /\ \A t \in Tabs : DOMAIN tab'[t] = Fields
  BY DEF TabsSound
<1>. QED
  BY <1>1, <1>2, <1>3 DEF TabsSound

-----------------------------------------------------------------------------
(* The calls *)

OthersKept(c) == \A d \in Calls : d # c => call'[d] = call[d]

LEMMA SessionExpires ==
    ASSUME Types, NEW v \in Nat
    PROVE  Session(v) # None /\ Session(v).expires = now + Life
<1>1. now \in Nat /\ Life \in Nat
  BY SessionAssumption DEF Types
<1>2. Session(v) \in [version : Nat, expires : Nat]
  BY <1>1 DEF Session
<1>. QED
  BY <1>2, SessionAssumption DEF Session

LEMMA Answering ==
    ASSUME Types, NEW c \in Calls, NEW outcome, NEW token, Answer(c, outcome, token)
    PROVE  /\ OthersKept(c) /\ call'[c].tab = call[c].tab /\ call'[c].kind = call[c].kind
           /\ call'[c].outcome = outcome /\ call'[c].token = token
<1>1. call \in [Calls -> CallState] /\ call[c] \in CallState
  BY DEF Types
<1>. QED
  BY <1>1 DEF Answer, OthersKept, CallState

LEMMA Sending ==
    ASSUME Types, NEW c \in Calls, NEW t \in Tabs, NEW kind,
           call[c] = Idle, call' = [call EXCEPT ![c] = Sent(t, kind)]
    PROVE  /\ OthersKept(c) /\ call[c].tab = None /\ call'[c].tab = t /\ call'[c].kind = kind
           /\ call'[c].outcome = "none" /\ call'[c].token = None
BY DEF Types, OthersKept, Sent, Idle

LEMMA Doing ==
    ASSUME Types, NEW c \in Calls, Done(c)
    PROVE  OthersKept(c) /\ call'[c].tab = None /\ call'[c].token = None /\ call'[c].outcome = "none"
BY DEF Types, Done, OthersKept, Idle

Boots(c, u) ==
    /\ call'[c].tab = u /\ call'[c].kind = "boot"
    /\ call'[c].outcome = "none" /\ call'[c].token = None

Abandoned(d, u) ==
    /\ call'[d].tab # u /\ call'[d].token = call[d].token
    /\ call'[d].outcome = call[d].outcome /\ call'[d].kind = call[d].kind

LEMMA Loading ==
    ASSUME Types, NEW c \in Calls, NEW u \in Tabs, call[c].tab \in {u, None},
           call' = [Orphaned(u) EXCEPT ![c] = Sent(u, "boot")]
    PROVE  /\ Boots(c, u)
           /\ \A d \in Calls : d # c => Abandoned(d, u)
           /\ \A d \in Calls, t \in Tabs : t # u => Same(call[d], call'[d], t, FALSE)
<1>1. call \in [Calls -> CallState] /\ None \notin Tabs
  BY SessionAssumption DEF Types
<1>2. /\ call'[c] = Sent(u, "boot")
      /\ \A d \in Calls : d # c =>
           call'[d] = IF call[d].tab = u THEN [call[d] EXCEPT !.tab = None] ELSE call[d]
  BY <1>1 DEF Orphaned
<1>3. call'[c].tab = u /\ call'[c].kind = "boot" /\ call'[c].outcome = "none" /\ call'[c].token = None
  <2>1. /\ Sent(u, "boot").tab = u /\ Sent(u, "boot").kind = "boot"
        /\ Sent(u, "boot").outcome = "none" /\ Sent(u, "boot").token = None
    BY DEF Sent, Idle
  <2>. QED
    BY <1>2, <2>1
<1>4. ASSUME NEW d \in Calls, d # c
      PROVE  /\ call'[d].tab = IF call[d].tab = u THEN None ELSE call[d].tab
             /\ call'[d].token = call[d].token /\ call'[d].outcome = call[d].outcome
             /\ call'[d].kind = call[d].kind
  <2>1. call[d] \in CallState
    BY <1>1
  <2>2. call'[d] = IF call[d].tab = u THEN [call[d] EXCEPT !.tab = None] ELSE call[d]
    BY <1>2, <1>4
  <2>3. CASE call[d].tab = u
    <3>1. call'[d] = [call[d] EXCEPT !.tab = None]
      BY <2>2, <2>3
    <3>. QED
      BY <2>1, <2>3, <3>1 DEF CallState
  <2>. QED
    BY <2>2, <2>3
<1>5. ASSUME NEW d \in Calls, NEW t \in Tabs, t # u PROVE Same(call[d], call'[d], t, FALSE)
  <2>1. CASE d = c
    BY <1>1, <1>3, <1>5, <2>1 DEF Same
  <2>2. CASE d # c
    <3>1. call'[d].tab = IF call[d].tab = u THEN None ELSE call[d].tab
      BY <1>4, <2>2
    <3>2. call'[d].kind = call[d].kind /\ call'[d].outcome = call[d].outcome
      BY <1>4, <2>2
    <3>. QED
      BY <1>1, <1>5, <3>1, <3>2 DEF Same
  <2>. QED
    BY <2>1, <2>2
<1>6. ASSUME NEW d \in Calls, d # c
      PROVE  Abandoned(d, u)
  <2>1. call'[d].tab = IF call[d].tab = u THEN None ELSE call[d].tab
    BY <1>4, <1>6
  <2>. QED
    BY <1>1, <1>4, <1>6, <2>1 DEF Abandoned
<1>7. Boots(c, u)
  BY <1>3 DEF Boots
<1>. QED
  BY <1>5, <1>6, <1>7

\* When one call changes, what it was and what it is decide for every tab.
LEMMA OneSame ==
    ASSUME NEW c \in Calls, NEW t, NEW lost, OthersKept(c), Same(call[c], call'[c], t, lost)
    PROVE  \A d \in Calls : Same(call[d], call'[d], t, lost)
BY DEF OthersKept, Same

LEMMA OneToken ==
    ASSUME TabsSound, NEW c \in Calls, OthersKept(c), TokenOK(call'[c], now)
    PROVE  \A d \in Calls : TokenOK(call'[d], now)
BY DEF OthersKept, TabsSound

-----------------------------------------------------------------------------
(* Every step keeps the tabs sound *)

\* A call goes on: the server serves it, or what it is about is lost.
LEMMA CallGoesOn ==
    ASSUME TabsSound, now \in Nat, NEW c \in Calls, UNCHANGED <<now, tab, jar>>,
           faults' \in {faults, faults + 1}, faults' <= MaxFaults, OthersKept(c),
           call'[c].tab = call[c].tab, call'[c].kind = call[c].kind,
           call'[c].outcome = "lost" => call[c].outcome = "lost" \/ faults' = faults + 1,
           TokenOK(call'[c], now)
    PROVE  TabsSound'
<1>1. ASSUME NEW t \in Tabs PROVE \A d \in Calls : Same(call[d], call'[d], t, faults' = faults + 1)
  <2>1. Same(call[c], call'[c], t, faults' = faults + 1)
    BY DEF Same
  <2>. QED
    BY <2>1, OneSame
<1>2. \A d \in Calls : TokenOK(call'[d], now)
  BY OneToken
<1>3. JarStep
  BY DEF JarStep
<1>. QED
  BY <1>1, <1>2, <1>3, NoTab

LEMMA ServerKeepsTabs ==
    ASSUME Typed, TabsSound, NEW c \in Calls, ServerStep(c)
    PROVE  TabsSound'
<1>1. /\ Types /\ now \in Nat /\ TokenOK(call[c], now) /\ faults \in Nat /\ faults <= MaxFaults
      /\ version \in Versions /\ call[c] \in CallState
  BY DEF Typed, Types, TabsSound
<1>2. UNCHANGED <<now, tab, jar, faults>>
  BY DEF ServerStep, refresh, ServePage, LogoutRead, ConsumeLink, MarkUsed, CommitRevocation,
         VerifyPassword, IssueToLogin, CheckEmail, InsertUser, bounds
<1>3. ASSUME NEW outcome \in {"ok", "dead", "refused"}, Answer(c, outcome, None),
             outcome = "ok" => call[c].kind \notin {"boot", "silent", "login", "register"}
      PROVE  TabsSound'
  <2>1. /\ OthersKept(c) /\ call'[c].tab = call[c].tab /\ call'[c].kind = call[c].kind
        /\ call'[c].outcome = outcome /\ call'[c].token = None
    BY <1>1, <1>3, Answering
  <2>2. TokenOK(call'[c], now)
    BY <1>3, <2>1 DEF TokenOK
  <2>. QED
    BY <1>1, <1>2, <2>1, <2>2, CallGoesOn
<1>4. ASSUME NEW v \in Nat, Issue(c, v) PROVE TabsSound'
  <2>1. /\ OthersKept(c) /\ call'[c].tab = call[c].tab /\ call'[c].kind = call[c].kind
        /\ call'[c].outcome = "ok" /\ call'[c].token = Session(v)
    BY <1>1, <1>4, Answering DEF Issue
  <2>2. TokenOK(call'[c], now)
    BY <1>1, <2>1, SessionExpires DEF TokenOK
  <2>. QED
    BY <1>1, <1>2, <2>1, <2>2, CallGoesOn
<1>5. CASE Run(c)
  <2>1. call'[c] = [call[c] EXCEPT !.at = "running", !.cookie = None, !.read = version] /\ OthersKept(c)
    BY <1>1, <1>5 DEF Run, Types, OthersKept
  <2>2. /\ call'[c].tab = call[c].tab /\ call'[c].kind = call[c].kind
        /\ call'[c].outcome = call[c].outcome /\ call'[c].token = call[c].token
    BY <1>1, <2>1 DEF CallState
  <2>3. TokenOK(call'[c], now)
    BY <1>1, <2>2 DEF TokenOK
  <2>. QED
    BY <1>1, <1>2, <2>1, <2>2, <2>3, CallGoesOn
<1>6. version # None => version \in Nat
  BY <1>1 DEF Versions
<1>7. Live(call[c].cookie) => version \in Nat
  <2>1. call[c].cookie \in Cookies
    BY <1>1 DEF CallState
  <2>. QED
    BY <1>1, <2>1, LiveIsKnown
<1>8. CASE refresh(c)
  BY <1>3, <1>4, <1>7, <1>8 DEF refresh
<1>9. CASE ServePage(c)
  BY <1>3, <1>9 DEF ServePage, Received
<1>10. CASE LogoutRead(c) \/ MarkUsed(c) \/ VerifyPassword(c) \/ CheckEmail(c)
  BY <1>3, <1>5, <1>10 DEF LogoutRead, MarkUsed, VerifyPassword, CheckEmail
<1>14. CASE ConsumeLink(c)
  <2>1. CASE link = "unused"
    <3>1. call'[c] = [call[c] EXCEPT !.at = "checked", !.cookie = None] /\ OthersKept(c)
      BY <1>1, <1>14, <2>1 DEF ConsumeLink, Types, OthersKept
    <3>2. /\ call'[c].tab = call[c].tab /\ call'[c].kind = call[c].kind
          /\ call'[c].outcome = call[c].outcome /\ call'[c].token = call[c].token
      BY <1>1, <3>1 DEF CallState
    <3>3. TokenOK(call'[c], now)
      BY <1>1, <3>2 DEF TokenOK
    <3>. QED
      BY <1>1, <1>2, <3>1, <3>2, <3>3, CallGoesOn
  <2>. QED
    BY <1>3, <1>14, <2>1 DEF ConsumeLink
<1>11. CASE CommitRevocation(c)
  BY <1>3, <1>11 DEF CommitRevocation, Running, Revokers
<1>12. CASE IssueToLogin(c)
  BY <1>4, <1>6, <1>12 DEF IssueToLogin, Typed, Known
<1>13. CASE InsertUser(c)
  BY <1>3, <1>4, <1>13 DEF InsertUser
<1>. QED
  BY <1>8, <1>9, <1>10, <1>11, <1>12, <1>13, <1>14 DEF ServerStep

\* A new link refuses the resets that have read the old one's row.
LEMMA LinkKeepsTabs ==
    ASSUME Typed, TabsSound, request_password_reset
    PROVE  TabsSound'
<1>1. Types /\ now \in Nat /\ faults \in Nat /\ faults <= MaxFaults
  BY DEF Typed, Types, TabsSound
<1>2. UNCHANGED <<now, tab, jar, faults>>
  BY DEF request_password_reset
<1>3. ASSUME NEW c \in Calls
      PROVE  /\ call'[c].tab = call[c].tab /\ call'[c].kind = call[c].kind
             /\ call'[c].token = call[c].token
             /\ call'[c].outcome = call[c].outcome \/ call'[c].outcome = "refused"
  <2>1. call[c] \in CallState
    BY <1>1 DEF Types
  <2>2. \/ call'[c] = [call[c] EXCEPT !.at = "answered", !.outcome = "refused"]
        \/ call'[c] = call[c]
    BY DEF request_password_reset
  <2>. QED
    BY <2>1, <2>2 DEF CallState
<1>4. \A c \in Calls, t \in Tabs : Same(call[c], call'[c], t, faults' = faults + 1)
  BY <1>3 DEF Same
<1>5. \A c \in Calls : TokenOK(call'[c], now)
  BY <1>3 DEF TokenOK, TabsSound
<1>6. JarStep
  BY <1>2 DEF JarStep
<1>. QED
  BY <1>1, <1>2, <1>4, <1>5, <1>6, NoTab

LEMMA LossKeepsTabs ==
    ASSUME Typed, TabsSound, NEW c \in Calls, Lose(c)
    PROVE  TabsSound'
<1>1. Types /\ now \in Nat /\ faults \in Nat /\ MaxFaults \in Nat
  BY SessionAssumption DEF Typed, Types, TabsSound
<1>2. UNCHANGED <<now, tab, jar>> /\ faults' = faults + 1 /\ faults' <= MaxFaults
  BY <1>1 DEF Lose
<1>3. /\ OthersKept(c) /\ call'[c].tab = call[c].tab /\ call'[c].kind = call[c].kind
      /\ call'[c].outcome = "lost" /\ call'[c].token = None
  BY <1>1, Answering DEF Lose
<1>4. TokenOK(call'[c], now)
  BY <1>3 DEF TokenOK
<1>. QED
  BY <1>1, <1>2, <1>3, <1>4, CallGoesOn

LEMMA CookieStored ==
    ASSUME NEW c \in Calls, TokenOK(call[c], now), SetCookie(c)
    PROVE  jar' = None \/ jar'.expires = now + Life \/ jar' = jar
BY DEF SetCookie, TokenOK

\* A call is done: it was tab u's, or nobody's.
LEMMA CallDone ==
    ASSUME Typed, TabsSound, NEW c \in Calls, NEW u \in Tabs, Done(c), call[c].tab \in {u, None},
           UNCHANGED <<now, faults>>, DOMAIN tab' = Tabs, DOMAIN tab'[u] = Fields,
           \A t \in Tabs : t # u => tab'[t] = tab[t],
           TabOK(tab'[u], call', u, now, faults), JarStep
    PROVE  TabsSound'
<1>1. Types /\ now \in Nat /\ None \notin Tabs
  BY SessionAssumption DEF Typed, Types
<1>2. OthersKept(c) /\ call'[c].tab = None /\ call'[c].token = None /\ call'[c].outcome = "none"
  BY <1>1, Doing
<1>3. ASSUME NEW t \in Tabs, t # u PROVE \A d \in Calls : Same(call[d], call'[d], t, FALSE)
  <2>1. Same(call[c], call'[c], t, FALSE)
    BY <1>1, <1>2, <1>3 DEF Same
  <2>. QED
    BY <1>2, <2>1, OneSame
<1>4. \A d \in Calls : TokenOK(call'[d], now)
  <2>1. TokenOK(call'[c], now)
    BY <1>2 DEF TokenOK
  <2>. QED
    BY <1>2, <2>1, OneToken
<1>. QED
  BY <1>1, <1>3, <1>4, OneTab

\* The browser loads the page of tab u, and the page asks for the session.
LEMMA PageLoads ==
    ASSUME Typed, TabsSound, NEW c \in Calls, NEW u \in Tabs, call[c].tab \in {u, None},
           NEW page, NEW notice, tab' = [tab EXCEPT ![u] = Fresh(page, notice)],
           call' = [Orphaned(u) EXCEPT ![c] = Sent(u, "boot")], UNCHANGED <<now, jar, faults>>
    PROVE  TabsSound'
<1>1. Types /\ now \in Nat
  BY DEF Typed, Types
<1>2. DOMAIN tab' = Tabs /\ tab'[u] = Fresh(page, notice) /\ \A t \in Tabs : t # u => tab'[t] = tab[t]
  BY DEF TabsSound
<1>3. DOMAIN Fresh(page, notice) = Fields /\ Fresh(page, notice).status = "loading"
  BY DEF Fresh, Fields
<1>4. /\ Boots(c, u) /\ \A d \in Calls : d # c => Abandoned(d, u)
      /\ \A d \in Calls, t \in Tabs : t # u => Same(call[d], call'[d], t, FALSE)
  BY <1>1, Loading
<1>5. TabOK(tab'[u], call', u, now, faults)
  <2>1. tab'[u].status = "loading"
    BY <1>2, <1>3
  <2>2. call'[c].tab = u /\ call'[c].kind = "boot" /\ \A d \in Calls : d # c => call'[d].tab # u
    BY <1>4 DEF Boots, Abandoned
  <2>. QED
    BY <2>1, <2>2 DEF TabOK, EarnedOK, AwaitedOK, RenewedOK
<1>6. ASSUME NEW d \in Calls PROVE TokenOK(call'[d], now)
  <2>1. CASE d = c
    BY <1>4, <2>1 DEF Boots, TokenOK
  <2>2. CASE d # c
    <3>1. Abandoned(d, u) /\ TokenOK(call[d], now)
      BY <1>4, <2>2 DEF TabsSound
    <3>. QED
      BY <3>1 DEF Abandoned, TokenOK
  <2>. QED
    BY <2>1, <2>2
<1>7. JarStep
  BY <1>2, <1>3 DEF JarStep
<1>8. DOMAIN tab' = Tabs /\ DOMAIN tab'[u] = Fields
  BY <1>2, <1>3
<1>. QED
  BY <1>1, <1>2, <1>4, <1>5, <1>6, <1>7, <1>8, OneTab

\* A logout signs the tab out and takes no notice of its own.
LeavesFor(u, page) ==
    tab' = [tab EXCEPT ![u].page = page, ![u].status = "unauthenticated",
                       ![u].expiresAt = None, ![u].notice = @ /\ page = tab[u].page]

LEMMA TabSignedOut ==
    ASSUME DOMAIN tab = Tabs, NEW u \in Tabs, DOMAIN tab[u] = Fields, NEW page, LeavesFor(u, page)
    PROVE  /\ DOMAIN tab' = Tabs /\ \A t \in Tabs : t # u => tab'[t] = tab[t]
           /\ DOMAIN tab'[u] = Fields /\ tab'[u].status = "unauthenticated"
           /\ tab'[u].entered = tab[u].entered /\ (tab'[u].notice => tab[u].notice)
<1>1. DOMAIN tab' = Tabs /\ \A t \in Tabs : t # u => tab'[t] = tab[t]
  BY DEF LeavesFor
<1>2. DOMAIN tab'[u] = Fields
  BY DEF Fields, LeavesFor
<1>3. tab'[u].status = "unauthenticated"
  BY DEF Fields, LeavesFor
<1>4. tab'[u].entered = tab[u].entered
  BY DEF Fields, LeavesFor
<1>5. tab'[u].notice => tab[u].notice
  BY DEF Fields, LeavesFor
<1>. QED
  BY <1>1, <1>2, <1>3, <1>4, <1>5

LEMMA ArrivalKeepsTabs ==
    ASSUME Typed, TabsSound, NEW c \in Calls, Arrival(c), call[c].tab # None
    PROVE  TabsSound'
<1>. DEFINE u == call[c].tab
<1>1. /\ Types /\ now \in Nat /\ TokenOK(call[c], now) /\ call[c] \in CallState
      /\ u \in Tabs /\ faults \in Nat /\ DOMAIN tab = Tabs /\ DOMAIN tab[u] = Fields
  BY DEF Typed, Types, CallState, TabsSound
<1>2. TabOK(tab[u], call, u, now, faults)
  BY <1>1 DEF TabsSound
<1>3. UNCHANGED <<now, faults>>
  BY Zenon DEF Arrival, SessionApplied, SignedIn, FormRefused, BootFailed, SilentFailed, PageAnswered,
               LoggedOut, ArrivesTooLate, bounds
<1>4. Done(c) => OthersKept(c) /\ call'[c].tab = None
  BY <1>1, Doing
<1>. HIDE DEF u
<1>5. SetCookie(c) => jar' = None \/ jar'.expires = now + Life \/ jar' = jar
  BY <1>1, CookieStored
\* The tab is signed in with the session that has arrived.
<1>6. ASSUME SessionApplied(c) \/ SignedIn(c) PROVE TabsSound'
  <2>1. /\ Done(c) /\ SetCookie(c) /\ call[c].outcome = "ok"
        /\ call[c].kind \in {"boot", "silent", "login", "register"}
    BY <1>6 DEF SessionApplied, SignedIn, Answered
  <2>2. call[c].token # None /\ call[c].token.expires = now + Life
    BY <1>1, <2>1 DEF TokenOK
  <2>3. JarStep
    BY <2>1, <2>2 DEF SetCookie, JarStep
  <2>4. /\ DOMAIN tab' = Tabs /\ \A t \in Tabs : t # u => tab'[t] = tab[t]
        /\ DOMAIN tab'[u] = Fields /\ tab'[u].status = "authenticated"
        /\ tab'[u].expiresAt = call[c].token.expires /\ tab'[u].entered = TRUE
    <3>1. CASE SessionApplied(c)
      <4>1. tab' = [tab EXCEPT ![u].status = "authenticated", ![u].expiresAt = call[c].token.expires,
                               ![u].entered = TRUE]
        BY <3>1 DEF SessionApplied, applyAuthResponse, Owner, u
      <4>. QED
        BY <1>1, <4>1 DEF Fields
    <3>2. CASE SignedIn(c)
      <4>1. tab' = [tab EXCEPT ![u] =
               [@ EXCEPT !.page = "app", !.status = "authenticated", !.notice = FALSE,
                         !.expiresAt = call[c].token.expires, !.entered = TRUE]]
        BY <3>2 DEF SignedIn, Owner, u
      <4>. QED
        BY <1>1, <4>1 DEF Fields
    <3>. QED
      BY <1>6, <3>1, <3>2
  <2>5. TabOK(tab'[u], call', u, now, faults)
    BY <1>1, <2>2, <2>4, TabEnters
  <2>. QED
    BY <1>1, <1>3, <2>1, <2>3, <2>4, <2>5, CallDone DEF u
\* The tab is signed out.
<1>7. ASSUME Done(c), DOMAIN tab' = Tabs, \A t \in Tabs : t # u => tab'[t] = tab[t],
             DOMAIN tab'[u] = Fields, tab'[u].status = "unauthenticated",
             tab'[u].entered = tab[u].entered, SetCookie(c) \/ UNCHANGED jar
      PROVE  TabsSound'
  <2>1. JarStep
    BY <1>5, <1>7 DEF JarStep
  <2>2. \A d \in Calls : call'[d].tab = u => call[d].tab = u /\ call'[d].kind = call[d].kind
    BY <1>1, <1>4, <1>7, SessionAssumption DEF OthersKept
  <2>3. TabOK(tab'[u], call', u, now, faults)
    BY <1>2, <1>7, <2>2, TabLeaves
  <2>. QED
    BY <1>1, <1>3, <1>7, <2>1, <2>3, CallDone DEF u
\* The answer changes nothing of the tab.
<1>8. ASSUME Done(c), UNCHANGED <<tab, jar>>, call[c].kind # "boot",
             call[c].kind = "silent" => call[c].outcome = "lost"
      PROVE  TabsSound'
  <2>1. TabOK(tab[u], call', u, now, faults)
    BY <1>1, <1>2, <1>4, <1>8, SessionAssumption, TabDrops DEF Refreshing, OthersKept
  <2>2. JarStep
    BY <1>8 DEF JarStep
  <2>. QED
    BY <1>1, <1>3, <1>8, <2>1, <2>2, CallDone DEF u
\* The tab is sent to the login page.
<1>9. ASSUME SessionExpired(c), UNCHANGED jar PROVE TabsSound'
  BY <1>1, <1>3, <1>9, PageLoads DEF SessionExpired, Owner, u
<1>10. CASE FormRefused(c)
  <2>1. Done(c) /\ UNCHANGED <<tab, jar>> /\ call[c].kind \in {"login", "register", "reset"}
    BY <1>10 DEF FormRefused, Answered
  <2>. QED
    BY <1>8, <2>1
<1>11. CASE BootFailed(c)
  <2>1. Done(c) /\ UNCHANGED jar /\ tab' = [tab EXCEPT ![u].status = "unauthenticated"]
    BY <1>11 DEF BootFailed, AfterBootFailure, Unauthenticated, Owner, u
  <2>2. /\ DOMAIN tab' = Tabs /\ \A t \in Tabs : t # u => tab'[t] = tab[t]
        /\ DOMAIN tab'[u] = Fields /\ tab'[u].status = "unauthenticated"
        /\ tab'[u].entered = tab[u].entered
    BY <1>1, <2>1 DEF Fields
  <2>. QED
    BY <1>7, <2>1, <2>2
<1>12. CASE SilentFailed(c)
  <2>1. call[c].kind = "silent" /\ UNCHANGED jar
    BY <1>12 DEF SilentFailed, Answered
  <2>2. CASE call[c].outcome = "lost"
    BY <1>8, <1>12, <2>1, <2>2 DEF SilentFailed
  <2>3. CASE call[c].outcome # "lost" /\ SessionExpired(c)
    BY <1>9, <2>1, <2>3
  <2>4. CASE call[c].outcome # "lost" /\ SignOut(c)
    <3>1. Done(c) /\ tab' = [tab EXCEPT ![u].status = "unauthenticated", ![u].expiresAt = None]
      BY <2>4 DEF SignOut, Owner, u
    <3>2. /\ DOMAIN tab' = Tabs /\ \A t \in Tabs : t # u => tab'[t] = tab[t]
          /\ DOMAIN tab'[u] = Fields /\ tab'[u].status = "unauthenticated"
          /\ tab'[u].entered = tab[u].entered
      BY <1>1, <3>1 DEF Fields
    <3>. QED
      BY <1>7, <2>1, <3>1, <3>2
  <2>. QED
    BY <1>12, <2>2, <2>3, <2>4 DEF SilentFailed
<1>13. CASE PageAnswered(c)
  <2>1. call[c].kind = "page" /\ UNCHANGED jar /\ (SessionExpired(c) \/ (Done(c) /\ UNCHANGED tab))
    BY <1>13 DEF PageAnswered, Answered
  <2>. QED
    BY <1>8, <1>9, <2>1
<1>14. CASE LoggedOut(c)
  <2>1. PICK page \in AfterLogout(c) : LeavesFor(u, page)
    BY <1>14, Zenon DEF LoggedOut, Owner, LeavesFor, u
  <2>2. Done(c) /\ SetCookie(c)
    BY <1>14 DEF LoggedOut
  <2>3. /\ DOMAIN tab' = Tabs /\ \A t \in Tabs : t # u => tab'[t] = tab[t]
        /\ DOMAIN tab'[u] = Fields /\ tab'[u].status = "unauthenticated"
        /\ tab'[u].entered = tab[u].entered
    BY <1>1, <2>1, TabSignedOut
  <2>. QED
    BY <1>7, <2>2, <2>3
<1>15. ~ArrivesTooLate(c)
  BY DEF ArrivesTooLate
<1>. QED
  BY <1>6, <1>10, <1>11, <1>12, <1>13, <1>14, <1>15 DEF Arrival

\* The answer of a page that is gone.
LEMMA LateArrivalKeepsTabs ==
    ASSUME Typed, TabsSound, NEW c \in Calls, Arrival(c), call[c].tab = None
    PROVE  TabsSound'
<1>1. Types /\ now \in Nat /\ TokenOK(call[c], now) /\ None \notin Tabs /\ faults \in Nat /\ faults <= MaxFaults
  BY SessionAssumption DEF Typed, Types, TabsSound
<1>2. ArrivesTooLate(c)
  BY DEF Arrival, SessionApplied, SignedIn, FormRefused, BootFailed, SilentFailed, PageAnswered,
         LoggedOut, Answered
<1>3. Done(c) /\ UNCHANGED <<now, tab, faults>> /\ (SetCookie(c) \/ UNCHANGED jar)
  BY <1>2 DEF ArrivesTooLate, bounds
<1>4. OthersKept(c) /\ call'[c].tab = None /\ call'[c].token = None /\ call'[c].outcome = "none"
  BY <1>1, <1>3, Doing
<1>5. ASSUME NEW t \in Tabs PROVE \A d \in Calls : Same(call[d], call'[d], t, faults' = faults + 1)
  <2>1. Same(call[c], call'[c], t, faults' = faults + 1)
    BY <1>1, <1>4 DEF Same
  <2>. QED
    BY <1>4, <2>1, OneSame
<1>6. \A d \in Calls : TokenOK(call'[d], now)
  <2>1. TokenOK(call'[c], now)
    BY <1>4 DEF TokenOK
  <2>. QED
    BY <1>4, <2>1, OneToken
<1>7. JarStep
  BY <1>1, <1>3, CookieStored DEF JarStep
<1>. QED
  BY <1>1, <1>3, <1>5, <1>6, <1>7, NoTab

\* A request of tab u is sent by a call that is idle.
LEMMA RequestKeepsTabs ==
    ASSUME Typed, TabsSound, NEW u \in Tabs, NEW kind, Request(u, kind),
           kind \in {"silent", "page"} => tab[u].status = "authenticated",
           DOMAIN tab' = Tabs, DOMAIN tab'[u] = Fields, \A t \in Tabs : t # u => tab'[t] = tab[t],
           \/ Alike(tab[u], tab'[u])
           \/ /\ kind = "silent" /\ tab'[u].status = tab[u].status
              /\ tab'[u].expiresAt = tab[u].expiresAt /\ tab'[u].entered = tab[u].entered
    PROVE  TabsSound'
<1>1. Types /\ now \in Nat /\ None \notin Tabs /\ TabOK(tab[u], call, u, now, faults)
  BY SessionAssumption DEF Typed, Types, TabsSound
<1>2. UNCHANGED <<now, faults, jar>>
  BY DEF Request
<1>3. PICK c \in Calls : call[c] = Idle /\ call' = [call EXCEPT ![c] = Sent(u, kind)]
  BY DEF Request
<1>4. /\ OthersKept(c) /\ call[c].tab = None /\ call'[c].tab = u /\ call'[c].kind = kind
      /\ call'[c].outcome = "none" /\ call'[c].token = None
  BY <1>1, <1>3, Sending
<1>5. TabOK(tab'[u], call', u, now, faults)
  BY <1>1, <1>4, TabAsks DEF OthersKept
<1>6. ASSUME NEW t \in Tabs, t # u PROVE \A d \in Calls : Same(call[d], call'[d], t, FALSE)
  <2>1. Same(call[c], call'[c], t, FALSE)
    BY <1>1, <1>4, <1>6 DEF Same
  <2>. QED
    BY <1>4, <2>1, OneSame
<1>7. \A d \in Calls : TokenOK(call'[d], now)
  <2>1. TokenOK(call'[c], now)
    BY <1>4 DEF TokenOK
  <2>. QED
    BY <1>4, <2>1, OneToken
<1>8. tab'[u].status = tab[u].status /\ tab'[u].expiresAt = tab[u].expiresAt
  BY DEF Alike
<1>9. JarStep
  BY <1>2, <1>8 DEF JarStep
<1>. QED
  BY <1>1, <1>2, <1>5, <1>6, <1>7, <1>9, OneTab

\* Nothing but the tab's page, its notice and its check is changed.
LEMMA TabAlone ==
    ASSUME Typed, TabsSound, NEW u \in Tabs, UNCHANGED <<now, jar, call, faults>>,
           DOMAIN tab' = Tabs, DOMAIN tab'[u] = Fields, \A t \in Tabs : t # u => tab'[t] = tab[t],
           tab'[u].status = tab[u].status, tab'[u].expiresAt = tab[u].expiresAt,
           TabOK(tab'[u], call, u, now, faults)
    PROVE  TabsSound'
<1>1. now \in Nat
  BY DEF Typed, Types
<1>2. \A c \in Calls, t \in Tabs : t # u => Same(call[c], call'[c], t, FALSE)
  BY DEF Same
<1>3. \A c \in Calls : TokenOK(call'[c], now)
  BY DEF TabsSound
<1>4. JarStep
  BY DEF JarStep
<1>5. TabOK(tab'[u], call', u, now, faults)
  OBVIOUS
<1>. QED
  BY <1>1, <1>2, <1>3, <1>4, <1>5, OneTab

LEMMA UserKeepsTabs ==
    ASSUME Typed, TabsSound, NEW u \in Tabs, TabStep(u)
    PROVE  TabsSound'
<1>1. /\ Types /\ now \in Nat /\ faults \in Nat /\ DOMAIN tab = Tabs /\ DOMAIN tab[u] = Fields
      /\ TabOK(tab[u], call, u, now, faults)
  BY DEF Typed, Types, TabsSound
<1>2. ASSUME NEW page \in Pages, Load(u, page) PROVE TabsSound'
  <2>1. PICK c \in Calls : call[c] = Idle /\ call' = [Orphaned(u) EXCEPT ![c] = Sent(u, "boot")]
    BY <1>2 DEF Load
  <2>2. call[c].tab \in {u, None}
    BY <2>1 DEF Idle
  <2>3. tab' = [tab EXCEPT ![u] = Fresh(page, FALSE)] /\ UNCHANGED <<now, jar, faults>>
    BY <1>2 DEF Load
  <2>. QED
    BY <2>1, <2>2, <2>3, PageLoads
<1>3. ASSUME UNCHANGED <<now, jar, call, faults>>, DOMAIN tab' = Tabs, DOMAIN tab'[u] = Fields,
             \A t \in Tabs : t # u => tab'[t] = tab[t], Alike(tab[u], tab'[u])
      PROVE  TabsSound'
  <2>1. \A c \in Calls : Same(call[c], call[c], u, faults = faults + 1)
    BY DEF Same
  <2>2. TabOK(tab'[u], call, u, now, faults)
    BY <1>1, <1>3, <2>1, TabKept
  <2>. QED
    BY <1>3, <2>2, TabAlone DEF Alike
<1>4. ASSUME NEW page \in Pages, Follow(u, page) PROVE TabsSound'
  <2>1. tab' = [tab EXCEPT ![u].page = page, ![u].notice = FALSE] /\ UNCHANGED <<now, jar, call, faults>>
    BY <1>4 DEF Follow
  <2>2. /\ DOMAIN tab' = Tabs /\ \A t \in Tabs : t # u => tab'[t] = tab[t]
        /\ DOMAIN tab'[u] = Fields /\ Alike(tab[u], tab'[u])
    BY <1>1, <2>1 DEF Fields, Alike
  <2>. QED
    BY <1>3, <2>1, <2>2
<1>5. CASE AuthGate(u)
  <2>1. tab' = [tab EXCEPT ![u].page = "login"] /\ UNCHANGED <<now, jar, call, faults>>
    BY <1>5 DEF AuthGate, bounds
  <2>2. /\ DOMAIN tab' = Tabs /\ \A t \in Tabs : t # u => tab'[t] = tab[t]
        /\ DOMAIN tab'[u] = Fields /\ Alike(tab[u], tab'[u])
    BY <1>1, <2>1 DEF Fields, Alike
  <2>. QED
    BY <1>3, <2>1, <2>2
<1>6. CASE maybeRefresh(u)
  <2>1. tab[u].status = "authenticated" /\ tab' = [tab EXCEPT ![u].checked = TRUE]
    BY <1>6 DEF maybeRefresh
  <2>2. /\ DOMAIN tab' = Tabs /\ \A t \in Tabs : t # u => tab'[t] = tab[t]
        /\ DOMAIN tab'[u] = Fields /\ tab'[u].status = tab[u].status
        /\ tab'[u].expiresAt = tab[u].expiresAt /\ tab'[u].entered = tab[u].entered
    BY <1>1, <2>1 DEF Fields
  <2>3. CASE Due(u)
    BY <1>6, <2>1, <2>2, <2>3, RequestKeepsTabs DEF maybeRefresh
  <2>4. CASE ~Due(u)
    <3>1. UNCHANGED <<now, jar, call, faults>>
      BY <1>6, <2>4 DEF maybeRefresh
    <3>2. TabOK(tab'[u], call, u, now, faults)
      BY <1>1, <2>1, <2>2, <2>4, TabChecks DEF Due
    <3>. QED
      BY <2>2, <3>1, <3>2, TabAlone
  <2>. QED
    BY <2>3, <2>4
<1>7. CASE FetchPage(u) \/ SubmitLogin(u) \/ SubmitRegistration(u) \/ SubmitReset(u) \/ LogOut(u)
  <2>1. PICK kind \in {"page", "login", "register", "reset", "logout"} :
          Request(u, kind) /\ (kind = "page" => tab[u].status = "authenticated")
    BY <1>7 DEF FetchPage, SubmitLogin, SubmitRegistration, SubmitReset, LogOut
  <2>2. tab' = tab
    BY <1>7 DEF FetchPage, SubmitLogin, SubmitRegistration, SubmitReset, LogOut
  <2>3. DOMAIN tab' = Tabs /\ DOMAIN tab'[u] = Fields /\ Alike(tab[u], tab'[u])
    BY <1>1, <2>2 DEF Alike
  <2>. QED
    BY <2>1, <2>2, <2>3, RequestKeepsTabs
<1>. QED
  BY <1>2, <1>4, <1>5, <1>6, <1>7 DEF TabStep

\* Time passes when no call is under way and every tab has made its check.
LEMMA TickKeepsTabs ==
    ASSUME Typed, TabsSound, Tick
    PROVE  TabsSound'
<1>1. /\ now \in Nat /\ now' = now + 1 /\ UNCHANGED <<jar, call, faults>> /\ faults \in Nat
      /\ tab' = [t \in Tabs |-> [tab[t] EXCEPT !.checked = FALSE]] /\ DOMAIN tab = Tabs
      /\ Life \in Nat /\ None \notin Tabs
  BY SessionAssumption DEF Tick, bounds, Typed, Types, TabsSound
<1>2. \A c \in Calls : call[c].tab = None /\ call[c].token = None /\ call[c].outcome = "none"
  BY DEF Tick, Idle
<1>3. Margin \in Nat
  BY SessionAssumption DEF Margin
<1>4. ASSUME NEW t \in Tabs
      PROVE  /\ DOMAIN tab'[t] = Fields /\ tab'[t].checked = FALSE /\ tab'[t].status = tab[t].status
             /\ tab'[t].expiresAt = tab[t].expiresAt /\ tab'[t].entered = tab[t].entered
  <2>1. tab'[t] = [tab[t] EXCEPT !.checked = FALSE] /\ DOMAIN tab[t] = Fields
    BY <1>1 DEF TabsSound
  <2>. QED
    BY <2>1 DEF Fields
<1>5. ASSUME NEW t \in Tabs PROVE TabOK(tab'[t], call', t, now', faults')
  <2>1. TabOK(tab[t], call, t, now, faults)
    BY DEF TabsSound
  <2>2. EarnedOK(tab'[t], call', t) /\ AwaitedOK(tab'[t], call', t)
    BY <1>1, <1>4, <2>1 DEF TabOK, EarnedOK, AwaitedOK
  <2>3. ASSUME tab[t].status = "authenticated"
        PROVE  /\ tab[t].expiresAt \in Nat /\ tab[t].expiresAt <= now + Life
               /\ tab[t].expiresAt + faults >= now + Margin
    <3>1. tab[t].checked # FALSE
      BY <2>3 DEF Tick
    <3>2. ~\E c \in Calls : Refreshing(call[c], t)
      BY <1>1, <1>2 DEF Refreshing
    <3>. QED
      BY <2>1, <2>3, <3>1, <3>2 DEF TabOK, RenewedOK
  <2>4. RenewedOK(tab'[t], call', t, now', faults')
    <3>1. ASSUME tab[t].status = "authenticated"
          PROVE  /\ tab[t].expiresAt \in Nat /\ tab[t].expiresAt <= now + 1 + Life
                 /\ tab[t].expiresAt + 1 + faults >= now + 1 + Margin
      BY <1>1, <1>3, <2>3, <3>1
    <3>2. now' = now + 1 /\ faults' = faults
      BY <1>1
    <3>. QED
      BY <1>4, <3>1, <3>2 DEF RenewedOK
  <2>. QED
    BY <2>2, <2>4 DEF TabOK
<1>6. \A c \in Calls : TokenOK(call'[c], now')
  BY <1>1, <1>2 DEF TokenOK
<1>7. JarOK'
  <2>1. JarOK
    BY DEF TabsSound
  <2>2. jar # None => jar.expires \in Nat
    BY DEF Typed, Types, Cookies
  <2>3. jar # None => jar.expires <= now + 1 + Life
    BY <1>1, <2>1, <2>2 DEF JarOK
  <2>4. jar' = jar /\ now' = now + 1
    BY <1>1
  <2>. QED
    BY <1>4, <2>1, <2>3, <2>4 DEF JarOK
<1>. QED
  BY <1>1, <1>4, <1>5, <1>6, <1>7 DEF TabsSound

LEMMA InitTyped == Init => Typed
BY InitSound, SoundTyped

LEMMA InitTabs == Init => TabsSound
<1>. SUFFICES ASSUME Init PROVE TabsSound
  OBVIOUS
<1>1. /\ tab = [t \in Tabs |-> Closed] /\ faults = 0 /\ None \notin Tabs /\ MaxFaults \in Nat
      /\ now = 0 /\ Life \in Nat /\ \A c \in Calls : call[c] = Idle
  BY SessionAssumption DEF Init
<1>2. DOMAIN Closed = Fields /\ Closed.status = "closed"
  BY DEF Closed, Fields
<1>3. Idle.tab = None /\ Idle.kind = "none" /\ Idle.outcome = "none" /\ Idle.token = None
  BY DEF Idle
<1>4. \A t \in Tabs : TabOK(tab[t], call, t, now, faults)
  BY <1>1, <1>2, <1>3 DEF TabOK, EarnedOK, AwaitedOK, RenewedOK
<1>5. \A c \in Calls : TokenOK(call[c], now)
  BY <1>1, <1>3 DEF TokenOK
<1>6. JarOK
  BY <1>1, <1>2 DEF Init, JarOK, Session
<1>. QED
  BY <1>1, <1>2, <1>4, <1>5, <1>6 DEF TabsSound

LEMMA StepTabs ==
    ASSUME Typed, TabsSound, [Next]_vars
    PROVE  TabsSound'
<1>1. CASE UNCHANGED <<now, jar, tab, call, faults>>
  <2>1. now' = now /\ jar' = jar /\ tab' = tab /\ call' = call /\ faults' = faults
    BY <1>1
  <2>. QED
    BY <2>1 DEF TabsSound, JarOK
<1>2. UNCHANGED vars => UNCHANGED <<now, jar, tab, call, faults>>
  BY DEF vars
<1>3. CASE request_password_reset
  BY <1>3, LinkKeepsTabs
<1>. QED
  BY <1>1, <1>2, <1>3, UserKeepsTabs, ServerKeepsTabs, ArrivalKeepsTabs, LateArrivalKeepsTabs, LossKeepsTabs,
     TickKeepsTabs DEF Next

TabsInv == Typed /\ TabsSound

LEMMA TabsInvariant == Spec => []TabsInv
<1>1. Init => TabsInv
  BY InitTyped, InitTabs DEF TabsInv
<1>2. TabsInv /\ [Next]_vars => TabsInv'
  BY StepTyped, StepTabs DEF TabsInv
<1>. QED
  BY <1>1, <1>2, PTL DEF Spec

\* A page that shows "Loading" waits for the bootstrap call, whatever else its
\* tab, other tabs and the server do (AuthProvider's first effect and the
\* branches of apiFetch).
THEOREM LoadingEnds == Spec => []LoadingIsAwaited
<1>1. TabsInv => LoadingIsAwaited
  BY DEF TabsInv, TabsSound, TabOK, AwaitedOK, LoadingIsAwaited
<1>. QED
  BY <1>1, TabsInvariant, PTL

\* An open tab never lets its session expire, when fewer calls are lost than
\* there are checks within a session's life and within the threshold: a check
\* finds the session fresh enough for all checks that may yet fail, or renews
\* it (maybeRefresh, REFRESH_THRESHOLD_MS, and the cookie that all tabs share).
THEOREM SessionsAreKeptAlive ==
    ASSUME MaxFaults + 1 < Life, MaxFaults + 1 < Threshold
    PROVE  Spec => []KeptAlive
<1>1. ASSUME TabsInv, NEW t \in Tabs, tab[t].status = "authenticated", jar # None
      PROVE  jar.expires > now
  <2>1. /\ now \in Nat /\ jar.expires \in Nat /\ faults \in Nat /\ faults <= MaxFaults
    BY <1>1 DEF TabsInv, Typed, Types, Cookies, TabsSound
  <2>2. /\ tab[t].expiresAt \in Nat /\ tab[t].expiresAt <= jar.expires
        /\ tab[t].expiresAt + 1 + faults >= now + Margin
    BY <1>1 DEF TabsInv, TabsSound, TabOK, RenewedOK, JarOK
  <2>3. Margin \in Nat /\ MaxFaults \in Nat /\ MaxFaults + 1 < Margin
    BY SessionAssumption DEF Margin
  <2>. QED
    BY <2>1, <2>2, <2>3
<1>2. TabsInv => KeptAlive
  BY <1>1 DEF KeptAlive
<1>. QED
  BY <1>2, TabsInvariant, PTL

\* A notice appears when the page of a tab is replaced after a 401.
LEMMA NoticeIsEarned ==
    ASSUME TabsInv, [Next]_vars, NEW t \in Tabs, tab'[t].notice, ~tab[t].notice
    PROVE  tab[t].entered
<1>1. /\ DOMAIN tab = Tabs /\ \A u \in Tabs : DOMAIN tab[u] = Fields
      /\ \A u \in Tabs : EarnedOK(tab[u], call, u) /\ None \notin Tabs
      /\ \A c \in Calls : call[c].tab \in Tabs \cup {None}
  BY SessionAssumption DEF TabsInv, Typed, Types, CallState, TabsSound, TabOK
<1>2. tab' # tab
  OBVIOUS
<1>3. ASSUME NEW c \in Calls, SessionExpired(c), call[c].tab # None, call[c].kind \in {"silent", "page"}
      PROVE  tab[t].entered
  <2>1. tab' = [tab EXCEPT ![call[c].tab] = Fresh("login", TRUE)]
    BY <1>3 DEF SessionExpired, Owner
  <2>2. call[c].tab = t
    BY <1>1, <1>2, <1>3, <2>1
  <2>3. tab[t].entered = TRUE
    BY <1>1, <1>3, <2>2 DEF EarnedOK
  <2>. QED
    BY <2>3
<1>4. ASSUME NEW u \in Tabs, tab'[u].notice = tab[u].notice \/ ~tab'[u].notice,
             \A s \in Tabs : s # u => tab'[s] = tab[s]
      PROVE  FALSE
  <2>1. CASE t = u
    BY <1>4, <2>1
  <2>. QED
    BY <1>4, <2>1
<1>5. ASSUME NEW u \in Tabs, TabStep(u) PROVE FALSE
  <2>1. \A s \in Tabs : s # u => tab'[s] = tab[s]
    BY <1>1, <1>5 DEF TabStep, Load, Follow, AuthGate, maybeRefresh, FetchPage, SubmitLogin,
                      SubmitRegistration, SubmitReset, LogOut
  <2>2. tab'[u].notice = tab[u].notice \/ ~tab'[u].notice
    <3>1. CASE \E page \in Pages : Load(u, page)
      BY <1>1, <3>1 DEF Load, Fresh
    <3>2. CASE \E page \in Pages : Follow(u, page)
      BY <1>1, <3>2 DEF Follow, Fields
    <3>3. CASE AuthGate(u)
      BY <1>1, <3>3 DEF AuthGate, Fields
    <3>4. CASE maybeRefresh(u)
      BY <1>1, <3>4 DEF maybeRefresh, Fields
    <3>5. CASE FetchPage(u) \/ SubmitLogin(u) \/ SubmitRegistration(u) \/ SubmitReset(u) \/ LogOut(u)
      BY <3>5 DEF FetchPage, SubmitLogin, SubmitRegistration, SubmitReset, LogOut
    <3>. QED
      BY <1>5, <3>1, <3>2, <3>3, <3>4, <3>5 DEF TabStep
  <2>. QED
    BY <1>4, <2>1, <2>2
<1>6. ASSUME NEW c \in Calls, ServerStep(c) \/ Lose(c) PROVE FALSE
  BY <1>2, <1>6 DEF ServerStep, refresh, ServePage, LogoutRead, ConsumeLink, MarkUsed, CommitRevocation,
                    VerifyPassword, IssueToLogin, CheckEmail, InsertUser, Lose
<1>7. ASSUME NEW c \in Calls, call[c].tab # None,
             SessionApplied(c) \/ SignedIn(c) \/ BootFailed(c) \/ (SilentFailed(c) /\ SignOut(c)) \/ LoggedOut(c)
      PROVE  FALSE
  <2>. DEFINE u == call[c].tab
  <2>1. u \in Tabs
    BY <1>1, <1>7
  <2>. HIDE DEF u
  <2>2. CASE SessionApplied(c)
    <3>1. tab' = [tab EXCEPT ![u].status = "authenticated", ![u].expiresAt = call[c].token.expires,
                             ![u].entered = TRUE]
      BY <2>2 DEF SessionApplied, applyAuthResponse, Owner, u
    <3>2. tab'[u].notice = tab[u].notice /\ \A s \in Tabs : s # u => tab'[s] = tab[s]
      BY <1>1, <2>1, <3>1 DEF Fields
    <3>. QED
      BY <1>4, <2>1, <3>2
  <2>3. CASE SignedIn(c)
    <3>1. tab' = [tab EXCEPT ![u] =
             [@ EXCEPT !.page = "app", !.status = "authenticated", !.notice = FALSE,
                       !.expiresAt = call[c].token.expires, !.entered = TRUE]]
      BY <2>3 DEF SignedIn, Owner, u
    <3>2. ~tab'[u].notice /\ \A s \in Tabs : s # u => tab'[s] = tab[s]
      BY <1>1, <2>1, <3>1 DEF Fields
    <3>. QED
      BY <1>4, <2>1, <3>2
  <2>4. CASE BootFailed(c)
    <3>1. tab' = [tab EXCEPT ![u].status = "unauthenticated"]
      BY <2>4 DEF BootFailed, AfterBootFailure, Unauthenticated, Owner, u
    <3>2. tab'[u].notice = tab[u].notice /\ \A s \in Tabs : s # u => tab'[s] = tab[s]
      BY <1>1, <2>1, <3>1 DEF Fields
    <3>. QED
      BY <1>4, <2>1, <3>2
  <2>5. CASE SignOut(c)
    <3>1. tab' = [tab EXCEPT ![u].status = "unauthenticated", ![u].expiresAt = None]
      BY <2>5 DEF SignOut, Owner, u
    <3>2. tab'[u].notice = tab[u].notice /\ \A s \in Tabs : s # u => tab'[s] = tab[s]
      BY <1>1, <2>1, <3>1 DEF Fields
    <3>. QED
      BY <1>4, <2>1, <3>2
  <2>6. CASE LoggedOut(c)
    <3>1. PICK page \in AfterLogout(c) : LeavesFor(u, page)
      BY <2>6, Zenon DEF LoggedOut, Owner, LeavesFor, u
    <3>2. \A s \in Tabs : s # u => tab'[s] = tab[s]
      BY <1>1, <2>1, <3>1, TabSignedOut
    <3>3. tab'[u].notice => tab[u].notice
      BY <1>1, <2>1, <3>1, TabSignedOut
    <3>4. t = u
      BY <1>2, <3>2
    <3>. QED
      BY <3>3, <3>4
  <2>. QED
    BY <1>7, <2>2, <2>3, <2>4, <2>5, <2>6
<1>8. ASSUME Tick PROVE FALSE
  <2>1. tab'[t] = [tab[t] EXCEPT !.checked = FALSE]
    BY <1>8 DEF Tick
  <2>2. tab'[t].notice = tab[t].notice
    BY <1>1, <2>1 DEF Fields
  <2>. QED
    BY <2>2
<1>9. ~request_password_reset /\ ~UNCHANGED vars
  BY <1>2 DEF request_password_reset, vars
<1>10. PICK c \in Calls : Arrival(c)
  BY <1>5, <1>6, <1>8, <1>9 DEF Next
<1>11. call[c].tab # None /\ ~FormRefused(c)
  BY <1>2, <1>10, Zenon DEF Arrival, SessionApplied, SignedIn, FormRefused, BootFailed, SilentFailed,
                            PageAnswered, LoggedOut, ArrivesTooLate, Answered
<1>12. SilentFailed(c) \/ PageAnswered(c)
  BY <1>2, <1>7, <1>10, <1>11, Zenon DEF Arrival, ArrivesTooLate
<1>13. SessionExpired(c) /\ call[c].kind \in {"silent", "page"}
  <2>1. CASE SilentFailed(c)
    BY <1>2, <1>7, <1>11, <2>1 DEF SilentFailed, Answered
  <2>2. CASE PageAnswered(c)
    BY <1>2, <2>2 DEF PageAnswered, Answered
  <2>. QED
    BY <1>12, <2>1, <2>2
<1>. QED
  BY <1>3, <1>11, <1>13

\* Only a page that was signed in is sent away with the notice that the
\* session has expired: the calls whose 401 does so are sent by signed-in
\* pages alone (skipRedirect and onUnauthorized, api.ts and auth-context.tsx).
THEOREM NoticesAreEarned == Spec => ExpiredNoticeIsEarned
<1>1. TabsInv /\ [Next]_vars => [\A t \in Tabs : tab'[t].notice /\ ~tab[t].notice => tab[t].entered]_vars
  BY NoticeIsEarned
<1>. QED
  BY <1>1, TabsInvariant, PTL DEF ExpiredNoticeIsEarned, Spec
=============================================================================
