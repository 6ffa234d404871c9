------------------------------ MODULE Sessions ------------------------------
(***************************************************************************)
(* The sessions of one account in one browser: AuthProvider, AuthGate, the *)
(* log-in, registration and reset forms of several tabs, the cookie they   *)
(* share, and the server's handlers under /auth, cut at their awaits.      *)
(*                                                                         *)
(* A session is its token_version and its expiry.  Time advances by the    *)
(* quarter of an hour between two checks of a tab; every call is over by   *)
(* then.  "user" and "expiresAt" are set and cleared together, so a tab    *)
(* keeps expiresAt alone.  "entered", "issued" and "dead" are history.     *)
(***************************************************************************)
EXTENDS Integers, FiniteSets

CONSTANTS
    Tabs,
    Calls,          \* requests under way at once
    Life,           \* of a session, in checks: 7 days in the code
    Threshold,      \* REFRESH_THRESHOLD_MS, in checks: 24 hours in the code
    MaxTime,        \* bound of the instance on the clock
    MaxVersion,     \* bound of the instance on revocations
    MaxActs,        \* bound of the instance on what the users do
    MaxFaults,      \* bound of the instance on lost requests and answers
    None

ASSUME SessionAssumption ==
    /\ Life \in Nat \ {0} /\ Threshold \in Nat
    /\ MaxTime \in Nat /\ MaxVersion \in Nat /\ MaxActs \in Nat /\ MaxFaults \in Nat
    /\ None \notin Nat /\ None \notin Tabs /\ None \notin [version : Nat, expires : Nat]

VARIABLES
    now,
    version,     \* the account's token_version, None before it is registered
    link,        \* the reset link sent last: "none", "unused", "used" or "reused"
    jar,         \* the session cookie
    tab, call,
    acts, faults,
    issued,      \* versions of the sessions issued (history)
    dead         \* versions of the sessions revoked (history)

server == <<version, link, issued, dead>>
bounds == <<acts, faults>>
vars == <<now, version, link, jar, tab, call, acts, faults, issued, dead>>

Pages == {"public", "login", "app"}
Closed == [page |-> "closed", status |-> "closed", expiresAt |-> None,
           checked |-> FALSE, notice |-> FALSE, entered |-> FALSE]
Fresh(page, notice) == [page |-> page, status |-> "loading", expiresAt |-> None,
                        checked |-> FALSE, notice |-> notice, entered |-> FALSE]
Idle == [at |-> "idle", kind |-> "none", tab |-> None, cookie |-> None,
         read |-> None, outcome |-> "none", token |-> None]

Session(v) == [version |-> v, expires |-> now + Life]

\* get_current_user: the session is not expired and not revoked.
Live(s) == s # None /\ s.expires > now /\ s.version = version

Init ==
    /\ now = 0
    /\ version \in {None, 0} /\ link = "none"
    /\ jar \in {None} \cup (IF version = None THEN {} ELSE {Session(version)})
    /\ tab = [t \in Tabs |-> Closed] /\ call = [c \in Calls |-> Idle]
    /\ acts = 0 /\ faults = 0
    /\ issued = {version} \ {None} /\ dead = {}

-----------------------------------------------------------------------------
(* The tabs *)

Sent(t, kind) == [Idle EXCEPT !.at = "sent", !.kind = kind, !.tab = t, !.cookie = jar]

Act == acts < MaxActs /\ acts' = acts + 1

Request(t, kind) ==
    /\ \E c \in Calls : call[c] = Idle /\ call' = [call EXCEPT ![c] = Sent(t, kind)]
    /\ UNCHANGED <<now, server, jar, faults>>

\* The calls of a page that is left by the browser answer to no one.
Orphaned(t) ==
    [c \in Calls |-> IF call[c].tab = t THEN [call[c] EXCEPT !.tab = None] ELSE call[c]]

\* A page is opened or loaded again; AuthProvider asks for the session.
Load(t, page) ==
    /\ Act
    /\ tab' = [tab EXCEPT ![t] = Fresh(page, FALSE)]
    /\ \E c \in Calls :
         call[c] = Idle /\ call' = [Orphaned(t) EXCEPT ![c] = Sent(t, "boot")]
    /\ UNCHANGED <<now, server, jar, faults>>

\* A link of the app changes the page and keeps AuthProvider.
Follow(t, page) ==
    /\ Act /\ tab[t].page \notin {"closed", page}
    /\ tab' = [tab EXCEPT ![t].page = page, ![t].notice = FALSE]
    /\ UNCHANGED <<now, server, jar, call, faults>>

AuthGate(t) ==
    /\ tab[t].page = "app" /\ tab[t].status = "unauthenticated"
    /\ tab' = [tab EXCEPT ![t].page = "login"]
    /\ UNCHANGED <<now, server, jar, call, bounds>>

\* Mutant: a session is renewed when it has expired.
DueWhenExpired(t) == tab[t].expiresAt <= now

Due(t) == tab[t].expiresAt - now < Threshold

\* The check every quarter of an hour and on focus.
maybeRefresh(t) ==
    /\ tab[t].status = "authenticated" /\ (~tab[t].checked \/ Due(t))
    /\ tab' = [tab EXCEPT ![t].checked = TRUE]
    /\ IF Due(t) THEN Request(t, "silent") ELSE UNCHANGED <<now, server, jar, call, faults>>
    /\ UNCHANGED acts

\* A page behind the gate fetches its data.
FetchPage(t) ==
    /\ tab[t].page = "app" /\ tab[t].status = "authenticated"
    /\ Act /\ Request(t, "page") /\ UNCHANGED tab

Busy(t, kind) == \E c \in Calls : call[c].tab = t /\ call[c].kind = kind

SubmitLogin(t) ==
    /\ tab[t].page = "login" /\ ~Busy(t, "login")
    /\ Act /\ Request(t, "login") /\ UNCHANGED tab

SubmitRegistration(t) ==
    /\ tab[t].page = "public" /\ ~Busy(t, "register")
    /\ Act /\ Request(t, "register") /\ UNCHANGED tab

SubmitReset(t) ==
    /\ tab[t].page = "public" /\ link # "none" /\ ~Busy(t, "reset")
    /\ Act /\ Request(t, "reset") /\ UNCHANGED tab

\* The button is shown while there is a user, and is never disabled.
LogOut(t) ==
    /\ tab[t].page = "app" /\ tab[t].status = "authenticated"
    /\ Act /\ Request(t, "logout") /\ UNCHANGED tab

-----------------------------------------------------------------------------
(* The server *)

Answer(c, outcome, token) ==
    call' = [call EXCEPT ![c] = [@ EXCEPT !.at = "answered", !.cookie = None, !.read = None,
                                          !.outcome = outcome, !.token = token]]

Run(c) == call' = [call EXCEPT ![c] = [@ EXCEPT !.at = "running", !.cookie = None, !.read = version]]

Issue(c, v) == Answer(c, "ok", Session(v)) /\ issued' = issued \cup {v}

Received(c, kinds) == call[c].at = "sent" /\ call[c].kind \in kinds
Running(c, kinds) == call[c].at = "running" /\ call[c].kind \in kinds

Revokers == {"logout", "reset"}
MayRevoke == version < MaxVersion

refresh(c) ==
    /\ Received(c, {"boot", "silent"})
    /\ IF Live(call[c].cookie) THEN Issue(c, version)
                               ELSE Answer(c, "dead", None) /\ UNCHANGED issued
    /\ UNCHANGED <<now, version, link, jar, tab, bounds, dead>>

ServePage(c) ==
    /\ Received(c, {"page"})
    /\ Answer(c, IF Live(call[c].cookie) THEN "ok" ELSE "dead", None)
    /\ UNCHANGED <<now, server, jar, tab, bounds>>

\* get_current_user has read the version that logout_user adds one to.
LogoutRead(c) ==
    /\ Received(c, {"logout"})
    /\ IF Live(call[c].cookie) THEN MayRevoke /\ Run(c) ELSE Answer(c, "dead", None)
    /\ UNCHANGED <<now, server, jar, tab, bounds>>

\* _consume_pending_token reads the link without a lock.
ConsumeLink(c) ==
    /\ Received(c, {"reset"})
    /\ IF link = "unused" THEN call' = [call EXCEPT ![c].at = "checked", ![c].cookie = None]
                          ELSE Answer(c, "refused", None)
    /\ UNCHANGED <<now, server, jar, tab, bounds>>

\* The mark is written before the user is read, by the autoflush: it waits for
\* another reset that has written it, but does not look at it again.
MarkUsed(c) ==
    /\ call[c].at = "checked" /\ ~\E d \in Calls : Running(d, {"reset"})
    /\ MayRevoke /\ Run(c)
    /\ UNCHANGED <<now, server, jar, tab, bounds>>

Bumped(c) == call[c].read + 1

CommitRevocation(c) ==
    /\ Running(c, Revokers)
    /\ version' = Bumped(c)
    /\ dead' = dead \cup issued
    /\ link' = IF call[c].kind # "reset" THEN link
               ELSE IF link = "unused" THEN "used" ELSE "reused"
    /\ Answer(c, "ok", None)
    /\ UNCHANGED <<now, jar, tab, bounds, issued>>

\* The password is compared, perhaps with one that is no longer valid when
\* the session is issued.
VerifyPassword(c) ==
    /\ Received(c, {"login"})
    /\ Answer(c, "refused", None) \/ (version # None /\ Run(c))
    /\ UNCHANGED <<now, server, jar, tab, bounds>>

IssueToLogin(c) ==
    /\ Running(c, {"login"}) /\ Issue(c, version)
    /\ UNCHANGED <<now, version, link, jar, tab, bounds, dead>>

CheckEmail(c) ==
    /\ Received(c, {"register"})
    /\ IF version = None THEN Run(c) ELSE Answer(c, "refused", None)
    /\ UNCHANGED <<now, server, jar, tab, bounds>>

\* The unique column refuses the second of two registrations.
InsertUser(c) ==
    /\ Running(c, {"register"})
    /\ IF version = None THEN version' = 0 /\ Issue(c, 0)
                         ELSE Answer(c, "refused", None) /\ UNCHANGED <<version, issued>>
    /\ UNCHANGED <<now, link, jar, tab, bounds, dead>>

\* The account's owner asks for a link and gets it by e-mail.  The old link's
\* row is deleted once a reset that has marked it commits; one that has only
\* read it then finds no row to mark.
request_password_reset ==
    /\ Act /\ version # None /\ link # "unused" /\ link' = "unused"
    /\ ~\E c \in Calls : Running(c, {"reset"})
    /\ call' = [c \in Calls |->
          IF call[c].at = "checked"
            THEN [call[c] EXCEPT !.at = "answered", !.outcome = "refused"] ELSE call[c]]
    /\ UNCHANGED <<now, version, jar, tab, faults, issued, dead>>

Lose(c) ==
    /\ call[c].at \in {"sent", "answered"} /\ call[c].outcome # "lost"
    /\ faults < MaxFaults /\ faults' = faults + 1
    /\ Answer(c, "lost", None)
    /\ UNCHANGED <<now, server, jar, tab, acts>>

-----------------------------------------------------------------------------
(* Answers *)

Answered(c, kinds) == call[c].at = "answered" /\ call[c].kind \in kinds /\ call[c].tab # None
Owner(c) == call[c].tab
Done(c) == call' = [call EXCEPT ![c] = Idle]

\* fetch() stores the cookie of an answer before it resolves.
SetCookie(c) ==
    jar' = IF call[c].token # None THEN call[c].token
           ELSE IF call[c].kind = "logout" /\ call[c].outcome = "ok" THEN None ELSE jar

applyAuthResponse(c) ==
    tab' = [tab EXCEPT ![Owner(c)].status = "authenticated",
                       ![Owner(c)].expiresAt = call[c].token.expires,
                       ![Owner(c)].entered = TRUE]

SessionApplied(c) ==
    /\ Answered(c, {"boot", "silent"}) /\ call[c].outcome = "ok"
    /\ SetCookie(c) /\ applyAuthResponse(c) /\ Done(c)
    /\ UNCHANGED <<now, server, bounds>>

\* login() and register(), after which the form pushes an app page.
SignedIn(c) ==
    /\ Answered(c, {"login", "register"}) /\ call[c].outcome = "ok"
    /\ SetCookie(c) /\ Done(c)
    /\ tab' = [tab EXCEPT ![Owner(c)] =
         [@ EXCEPT !.page = "app", !.status = "authenticated", !.notice = FALSE,
                   !.expiresAt = call[c].token.expires, !.entered = TRUE]]
    /\ UNCHANGED <<now, server, bounds>>

FormRefused(c) ==
    /\ \/ Answered(c, {"login", "register"}) /\ call[c].outcome # "ok"
       \/ Answered(c, {"reset"})
    /\ Done(c)
    /\ UNCHANGED <<now, server, jar, tab, bounds>>

\* apiFetch: the browser loads the login page, whose AuthProvider asks again.
SessionExpired(c) ==
    /\ tab' = [tab EXCEPT ![Owner(c)] = Fresh("login", TRUE)]
    /\ call' = [Orphaned(Owner(c)) EXCEPT ![c] = Sent(Owner(c), "boot")]

SignOut(c) ==
    /\ tab' = [tab EXCEPT ![Owner(c)].status = "unauthenticated", ![Owner(c)].expiresAt = None]
    /\ Done(c)

\* The catch of the bootstrap call leaves user and expiresAt alone.
Unauthenticated(c) ==
    /\ tab' = [tab EXCEPT ![Owner(c)].status = "unauthenticated"]
    /\ Done(c)

\* Mutants: the bootstrap call redirects; or minds a 401 alone.
BootRedirects(c) ==
    IF call[c].outcome = "dead" /\ tab[Owner(c)].page # "login"
      THEN SessionExpired(c) ELSE Unauthenticated(c)
BootMinds401(c) ==
    IF call[c].outcome = "dead" THEN Unauthenticated(c) ELSE Done(c) /\ UNCHANGED tab

AfterBootFailure(c) == Unauthenticated(c)

BootFailed(c) ==
    /\ Answered(c, {"boot"}) /\ call[c].outcome # "ok"
    /\ AfterBootFailure(c)
    /\ UNCHANGED <<now, server, jar, bounds>>

SilentFailed(c) ==
    /\ Answered(c, {"silent"}) /\ call[c].outcome # "ok"
    /\ IF call[c].outcome = "lost" THEN Done(c) /\ UNCHANGED tab
       ELSE IF tab[Owner(c)].page # "login" THEN SessionExpired(c) ELSE SignOut(c)
    /\ UNCHANGED <<now, server, jar, bounds>>

PageAnswered(c) ==
    /\ Answered(c, {"page"})
    /\ IF call[c].outcome = "dead" /\ tab[Owner(c)].page # "login"
         THEN SessionExpired(c) ELSE Done(c) /\ UNCHANGED tab
    /\ UNCHANGED <<now, server, jar, bounds>>

\* Whatever the answer, this tab is signed out.  After a good one
\* handleLogout pushes "/", before or after the gate acts; after another it
\* throws, and the page is left to the gate.
AfterLogout(c) ==
    IF call[c].outcome = "ok"
      THEN {"public"} \cup (IF tab[Owner(c)].page = "app" THEN {"login"} ELSE {})
      ELSE {tab[Owner(c)].page}

LoggedOut(c) ==
    /\ Answered(c, {"logout"})
    /\ SetCookie(c) /\ Done(c)
    /\ \E page \in AfterLogout(c) :
         tab' = [tab EXCEPT ![Owner(c)].page = page, ![Owner(c)].status = "unauthenticated",
                            ![Owner(c)].expiresAt = None,
                            ![Owner(c)].notice = @ /\ page = tab[Owner(c)].page]
    /\ UNCHANGED <<now, server, bounds>>

\* The page is gone: the browser may have stored the cookie or not.
ArrivesTooLate(c) ==
    /\ call[c].at = "answered" /\ call[c].tab = None
    /\ SetCookie(c) \/ UNCHANGED jar
    /\ Done(c)
    /\ UNCHANGED <<now, server, tab, bounds>>

-----------------------------------------------------------------------------
\* A quarter of an hour later every open tab has made its check.
Tick ==
    /\ now < MaxTime /\ now' = now + 1
    /\ \A c \in Calls : call[c] = Idle
    /\ \A t \in Tabs : tab[t].status = "authenticated" => tab[t].checked
    /\ tab' = [t \in Tabs |-> [tab[t] EXCEPT !.checked = FALSE]]
    /\ UNCHANGED <<server, jar, call, bounds>>

TabStep(t) ==
    \/ \E page \in Pages : Load(t, page) \/ Follow(t, page)
    \/ AuthGate(t) \/ maybeRefresh(t) \/ FetchPage(t)
    \/ SubmitLogin(t) \/ SubmitRegistration(t) \/ SubmitReset(t) \/ LogOut(t)

ServerStep(c) ==
    \/ refresh(c) \/ ServePage(c) \/ LogoutRead(c)
    \/ ConsumeLink(c) \/ MarkUsed(c) \/ CommitRevocation(c)
    \/ VerifyPassword(c) \/ IssueToLogin(c) \/ CheckEmail(c) \/ InsertUser(c)

Arrival(c) ==
    \/ SessionApplied(c) \/ SignedIn(c) \/ FormRefused(c) \/ BootFailed(c)
    \/ SilentFailed(c) \/ PageAnswered(c) \/ LoggedOut(c) \/ ArrivesTooLate(c)

Next ==
    \/ \E t \in Tabs : TabStep(t)
    \/ \E c \in Calls : ServerStep(c) \/ Arrival(c) \/ Lose(c)
    \/ request_password_reset \/ Tick

Spec == Init /\ [][Next]_vars

-----------------------------------------------------------------------------
(* Properties *)

\* A session that a logout or a reset has revoked is never valid again
\* (logout_user: "invalidates every outstanding JWT"; reset_password).  Each
\* adds one to the version it has read, so it takes two that do not overlap.
RevocationIsFinal == version \notin dead

RevocationsApart ==
    \A c, d \in Calls : Running(c, Revokers) /\ Running(d, Revokers) => c = d

\* A reset link sets a password once (_consume_pending_token, the text of
\* ResetPasswordForm).
LinkWorksOnce == link # "reused"

\* Both are promised without a condition; only a state that breaks the two
\* refutes this.
SomeRevocationHolds == RevocationIsFinal \/ LinkWorksOnce

\* A tab that is open, awake and signed in never lets its session expire,
\* although a refresh may be lost (auth-context.tsx: "no realistic risk of
\* missing the window", "the next scheduled check will simply try again").
KeptAlive ==
    \A t \in Tabs : tab[t].status = "authenticated" /\ jar # None => jar.expires > now

\* Only a page that was signed in is sent away as "session expired": not a
\* visitor's (api.ts: a 401 of the bootstrap call "just means not logged in").
ExpiredNoticeIsEarned ==
    [][\A t \in Tabs : tab'[t].notice /\ ~tab[t].notice => tab[t].entered]_vars

\* A page that shows "Loading" waits for a call that will be answered: what
\* becomes of that call never leaves it waiting for none (AuthGate shows
\* nothing else, and offers no way out, while status is "loading").
LoadingIsAwaited ==
    \A t \in Tabs : tab[t].status = "loading" =>
        \E c \in Calls : call[c].tab = t /\ call[c].kind = "boot"
=============================================================================
