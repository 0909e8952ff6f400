----------------------------- MODULE Sessions -----------------------------
(***************************************************************************)
(* Accounts of the broker, their second factor and their sessions:         *)
(* AuthService and SessionGuard, called by several browsers at once.       *)
(*                                                                         *)
(* An e-mail address is the key of its users row.  A code of the second    *)
(* factor stands for the secret it is computed from: a code answers a      *)
(* secret exactly when the secret is in the owner's authenticator app.     *)
(* A session token is its row of sessions, which only the browser that     *)
(* was given it holds.                                                     *)
(*                                                                         *)
(* Every operation reads first and writes after an await, with nothing     *)
(* that spans the two; the guard's read is taken together with the         *)
(* operation's first one, which depends on no more of it than the user's   *)
(* identity and role, and these never change.                              *)
(***************************************************************************)
EXTENDS FiniteSets

CONSTANTS
    Users,       \* e-mail addresses
    Admin,       \* the one the seed creates, with a second factor
    Passwords,
    Secrets,     \* secrets that set-ups generate, each of them once
    SeedSecret,  \* the one the seed prints for the administrator
    SessionIds,  \* rows of sessions
    Browsers,    \* each with a cookie of its own and a request at a time
    Nobody, NoSecret, NoSession

ASSUME SessionsAssumption ==
    /\ Admin \in Users
    /\ Nobody \notin Users
    /\ SeedSecret \notin Secrets
    /\ NoSecret \notin Secrets \cup {SeedSecret}
    /\ NoSession \notin SessionIds

VARIABLES
    users,     \* users[u]: the row of an e-mail address
    app,       \* app[u]: the secrets in the user's authenticator app
    issued,    \* the secrets generated so far
    sessions,  \* the table of sessions
    browser,   \* browser[b]: its cookie, its page, the mfaToken it holds
    call,      \* call[b]: its request, between a read and a write
    raced      \* users with a set-up or enabling written after a later write

sessionVars == <<users, app, issued, sessions, browser, call, raced>>

---------------------------------------------------------------------------
(* Rows, browsers and requests in progress                                 *)

NoUser == [exists |-> FALSE]
User   == [exists : {TRUE}, password : Passwords, enabled : BOOLEAN,
           secret : Secrets \cup {SeedSecret, NoSecret}]

NoRow   == [state |-> "none"]
Session == [state : {"open", "expired", "revoked"}, user : Users,
            password : Passwords, mfa : BOOLEAN, endedBy : Users \cup {Nobody}]

Browser == [cookie : SessionIds \cup {NoSession},
            page : {"signin", "totp", "portal"}, challenge : Users \cup {Nobody}]

NoCall     == [pc |-> "none"]
Creating   == [pc : {"create"}, user : Users, password : Passwords]
Opening    == [pc : {"open"}, user : Users, password : Passwords, mfa : BOOLEAN]
Management == [pc : {"setup", "enable", "disable"}, user : Users, stale : BOOLEAN]
Call       == {NoCall} \cup Creating \cup Opening \cup Management

SessionsTypeOK ==
    /\ users \in [Users -> {NoUser} \cup User]
    /\ app \in [Users -> SUBSET (Secrets \cup {SeedSecret})]
    /\ issued \subseteq Secrets
    /\ sessions \in [SessionIds -> {NoRow} \cup Session]
    /\ browser \in [Browsers -> Browser]
    /\ call \in [Browsers -> Call]
    /\ raced \subseteq Users

(* The seed: an administrator with a second factor, and clients.           *)
SessionsInit ==
    /\ \E password \in [Users -> Passwords], clients \in SUBSET (Users \ {Admin}) :
          users = [u \in Users |->
                     IF u = Admin
                     THEN [exists |-> TRUE, password |-> password[u], enabled |-> TRUE,
                           secret |-> SeedSecret]
                     ELSE IF u \in clients
                     THEN [exists |-> TRUE, password |-> password[u], enabled |-> FALSE,
                           secret |-> NoSecret]
                     ELSE NoUser]
    /\ app = [u \in Users |-> IF u = Admin THEN {SeedSecret} ELSE {}]
    /\ issued = {}
    /\ sessions = [s \in SessionIds |-> NoRow]
    /\ browser = [b \in Browsers |->
                    [cookie |-> NoSession, page |-> "signin", challenge |-> Nobody]]
    /\ call = [b \in Browsers |-> NoCall]
    /\ raced = {}

Ready(b, page) == call[b] = NoCall /\ browser[b].page = page

(* SessionGuard: the cookie names a row that is open and not expired.      *)
SignedIn(b) ==
    /\ browser[b].cookie # NoSession
    /\ sessions[browser[b].cookie].state = "open"

UserOf(b) == sessions[browser[b].cookie].user

Managing(d, u) == call[d].pc \in {"setup", "enable", "disable"} /\ call[d].user = u

(* Requests under way for the user now write what they read before.        *)
Overtaken(b, u) ==
    [d \in Browsers |->
       IF d = b THEN NoCall
       ELSE IF Managing(d, u) THEN [call[d] EXCEPT !.stale = TRUE]
       ELSE call[d]]

---------------------------------------------------------------------------
(* Registration and sign-in                                                *)

(* register: no row has the address yet.                                   *)
Register(b, u, p) ==
    /\ Ready(b, "signin")
    /\ ~users[u].exists
    /\ call' = [call EXCEPT ![b] = [pc |-> "create", user |-> u, password |-> p]]
    /\ UNCHANGED <<users, app, issued, sessions, browser, raced>>

(* Variant: no unique index on users.email.                                *)
NeverTaken(u) == FALSE

EmailTaken(u) == users[u].exists

(* The row is inserted unless another registration was faster.             *)
CreateUser(b) ==
    /\ call[b].pc = "create"
    /\ LET u == call[b].user
           p == call[b].password
       IN  IF EmailTaken(u)
           THEN call' = [call EXCEPT ![b] = NoCall] /\ UNCHANGED users
           ELSE /\ users' = [users EXCEPT ![u] =
                      [exists |-> TRUE, password |-> p, enabled |-> FALSE,
                       secret |-> NoSecret]]
                /\ call' = [call EXCEPT ![b] =
                      [pc |-> "open", user |-> u, password |-> p, mfa |-> FALSE]]
    /\ UNCHANGED <<app, issued, sessions, browser, raced>>

(* The page keeps the mfaToken and asks for a code.                        *)
Challenged(b, u) == [browser EXCEPT ![b].page = "totp", ![b].challenge = u]

(* login, with the right password, of a user with a second factor: a token *)
(* signed for the second step comes back.                                  *)
LoginIsChallenged(b, u) ==
    /\ Ready(b, "signin")
    /\ users[u].exists
    /\ users[u].enabled
    /\ browser' = Challenged(b, u)
    /\ UNCHANGED <<users, app, issued, sessions, call, raced>>

LoginWithPassword(b, u) ==
    /\ Ready(b, "signin")
    /\ users[u].exists
    /\ ~users[u].enabled
    /\ call' = [call EXCEPT ![b] = [pc |-> "open", user |-> u,
                                    password |-> users[u].password, mfa |-> FALSE]]
    /\ UNCHANGED <<users, app, issued, sessions, browser, raced>>

(* authenticator.check: the code the user reads off his app.               *)
Answers(u, secret) == secret # NoSecret /\ secret \in app[u]

(* verifySignedToken: whom the token was signed for.  It is no use after   *)
(* its five minutes, when the step below is not taken, and may be used     *)
(* again before.                                                           *)
Subject(b) == browser[b].challenge

(* loginTotp.                                                              *)
LoginWithCode(b) ==
    LET u == Subject(b)
    IN  /\ Ready(b, "totp")
        /\ users[u].exists
        /\ users[u].enabled
        /\ Answers(u, users[u].secret)
        /\ call' = [call EXCEPT ![b] = [pc |-> "open", user |-> u,
                                        password |-> users[u].password, mfa |-> TRUE]]
        /\ UNCHANGED <<users, app, issued, sessions, browser, raced>>

BackToCredentials(b) ==
    /\ Ready(b, "totp")
    /\ browser' = [browser EXCEPT ![b].page = "signin"]
    /\ UNCHANGED <<users, app, issued, sessions, call, raced>>

(* The cookie is set and the page goes on to the portal.                   *)
Welcomed(b, s) == [browser EXCEPT ![b].cookie = s, ![b].page = "portal"]

(* createSession; its answer may not arrive.                               *)
CreateSession(b, s) ==
    /\ call[b].pc = "open"
    /\ sessions[s] = NoRow
    /\ sessions' = [sessions EXCEPT ![s] =
                      [state |-> "open", user |-> call[b].user,
                       password |-> call[b].password, mfa |-> call[b].mfa,
                       endedBy |-> Nobody]]
    /\ browser' \in {Welcomed(b, s), browser}
    /\ call' = [call EXCEPT ![b] = NoCall]
    /\ UNCHANGED <<users, app, issued, raced>>

---------------------------------------------------------------------------
(* The second factor                                                       *)

(* Variant: the request is kept for the session and not for its user.      *)
ManageBySession(b, pc) ==
    call' = [call EXCEPT ![b] = [pc |-> pc, user |-> browser[b].cookie, stale |-> FALSE]]

Manage(b, pc) ==
    call' = [call EXCEPT ![b] = [pc |-> pc, user |-> UserOf(b), stale |-> FALSE]]

(* Variant: an enabled factor may be set up again.                         *)
SetupAgain(u) == users[u].exists

CanSetUp(u) == ~users[u].enabled

ReadForSetup(b) ==
    /\ Ready(b, "portal")
    /\ SignedIn(b)
    /\ CanSetUp(UserOf(b))
    /\ Manage(b, "setup")
    /\ UNCHANGED <<users, app, issued, sessions, browser, raced>>

(* The dialog shows the new secret and the user scans it, unless the       *)
(* answer is lost or the dialog closed.                                    *)
Scanned(u, k) == {app, [app EXCEPT ![u] = @ \cup {k}]}

(* A new secret replaces the one in the row.                               *)
SetupTotp(b, k) ==
    /\ call[b].pc = "setup"
    /\ k \notin issued
    /\ LET u == call[b].user
       IN  /\ users' = [users EXCEPT ![u].secret = k]
           /\ issued' = issued \cup {k}
           /\ app' \in Scanned(u, k)
           /\ call' = Overtaken(b, u)
           /\ raced' = IF call[b].stale THEN raced \cup {u} ELSE raced
    /\ UNCHANGED <<sessions, browser>>

ReadForEnable(b) ==
    /\ Ready(b, "portal")
    /\ SignedIn(b)
    /\ Answers(UserOf(b), users[UserOf(b)].secret)
    /\ Manage(b, "enable")
    /\ UNCHANGED <<users, app, issued, sessions, browser, raced>>

(* Only totpEnabledAt is written: not the secret the code was checked for. *)
EnableTotp(b) ==
    /\ call[b].pc = "enable"
    /\ LET u == call[b].user
       IN  /\ users' = [users EXCEPT ![u].enabled = TRUE]
           /\ call' = Overtaken(b, u)
           /\ raced' = IF call[b].stale THEN raced \cup {u} ELSE raced
    /\ UNCHANGED <<app, issued, sessions, browser>>

(* Variant: staff may switch their second factor off.                      *)
AnyoneMayDisable(u) == users[u].exists

MayDisable(u) == u # Admin

ReadForDisable(b) ==
    /\ Ready(b, "portal")
    /\ SignedIn(b)
    /\ MayDisable(UserOf(b))
    /\ Answers(UserOf(b), users[UserOf(b)].secret)
    /\ Manage(b, "disable")
    /\ UNCHANGED <<users, app, issued, sessions, browser, raced>>

DisableTotp(b) ==
    /\ call[b].pc = "disable"
    /\ LET u == call[b].user
       IN  /\ users' = [users EXCEPT ![u].enabled = FALSE, ![u].secret = NoSecret]
           /\ call' = Overtaken(b, u)
    /\ UNCHANGED <<app, issued, sessions, browser, raced>>

---------------------------------------------------------------------------
(* Sessions                                                                *)

EndedBy(s, u) ==
    sessions' = [sessions EXCEPT ![s].state = "revoked", ![s].endedBy = u]

SignedOut(b) == [browser EXCEPT ![b].cookie = NoSession, ![b].page = "signin"]

(* Logout: the row is revoked by its token, or stays open if the database  *)
(* fails, which is not told; the cookie and the page go either way.        *)
Logout(b) ==
    /\ Ready(b, "portal")
    /\ SignedIn(b)
    /\ EndedBy(browser[b].cookie, UserOf(b)) \/ UNCHANGED sessions
    /\ browser' = SignedOut(b)
    /\ UNCHANGED <<users, app, issued, call, raced>>

(* Variant: the row is chosen by its id alone.                             *)
AnyRow(s, u) == sessions[s] # NoRow

OwnRow(s, u) == sessions[s] # NoRow /\ sessions[s].user = u

RevokeSession(b, s) ==
    /\ Ready(b, "portal")
    /\ SignedIn(b)
    /\ OwnRow(s, UserOf(b))
    /\ EndedBy(s, UserOf(b))
    /\ UNCHANGED <<users, app, issued, browser, call, raced>>

Expire(s) ==
    /\ sessions[s].state = "open"
    /\ sessions' = [sessions EXCEPT ![s].state = "expired"]
    /\ UNCHANGED <<users, app, issued, browser, call, raced>>

(* The portal asks who is signed in; without a session it leaves.          *)
LeavePortal(b) ==
    /\ Ready(b, "portal")
    /\ ~SignedIn(b)
    /\ browser' = [browser EXCEPT ![b].page = "signin"]
    /\ UNCHANGED <<users, app, issued, sessions, call, raced>>

(* A database call or the audit throws, or the process restarts (which     *)
(* ends every request: one after the other here).                          *)
CallFails(b) ==
    /\ call[b] # NoCall
    /\ call' = [call EXCEPT ![b] = NoCall]
    /\ UNCHANGED <<users, app, issued, sessions, browser, raced>>

SignInStep(b) ==
    \/ \E u \in Users : \/ \E p \in Passwords : Register(b, u, p)
                        \/ LoginIsChallenged(b, u)
                        \/ LoginWithPassword(b, u)
    \/ CreateUser(b)
    \/ LoginWithCode(b)
    \/ BackToCredentials(b)
    \/ \E s \in SessionIds : CreateSession(b, s)

FactorStep(b) ==
    \/ ReadForSetup(b)
    \/ \E k \in Secrets : SetupTotp(b, k)
    \/ ReadForEnable(b)
    \/ EnableTotp(b)
    \/ ReadForDisable(b)
    \/ DisableTotp(b)

SessionStep(b) ==
    \/ Logout(b)
    \/ \E s \in SessionIds : RevokeSession(b, s)
    \/ LeavePortal(b)
    \/ CallFails(b)

SessionsNext ==
    \/ \E b \in Browsers : SignInStep(b) \/ FactorStep(b) \/ SessionStep(b)
    \/ \E s \in SessionIds : Expire(s)

SessionsSpec == SessionsInit /\ [][SessionsNext]_sessionVars

---------------------------------------------------------------------------
(* Properties                                                              *)

(* A second factor that is switched on can be answered: its secret is in   *)
(* the user's app, so signing in is possible.  A set-up or an enabling     *)
(* that overlapped another management request of the same user is left     *)
(* out by name (raced): it writes from a row read before, and can enable a *)
(* secret nobody has seen, or none at all.                                 *)
FactorIsAnswerable ==
    \A u \in Users \ raced :
        users[u].exists /\ users[u].enabled => Answers(u, users[u].secret)

(* Staff must keep 2FA on (auth.service.ts:141): whatever is managed or    *)
(* registered in whatever order, no session of theirs, and none about to   *)
(* be opened, did without the code.                                        *)
StaffUseTheFactor ==
    /\ \A s \in SessionIds :
          sessions[s] # NoRow /\ sessions[s].user = Admin => sessions[s].mfa
    /\ \A b \in Browsers :
          call[b].pc = "open" /\ call[b].user = Admin => call[b].mfa

(* Of two registrations of an address at most one takes hold: every        *)
(* session of an account was opened by someone who gave the password the   *)
(* account has, so none was opened by a registration that lost.            *)
SessionsHaveThePassword ==
    \A s \in SessionIds :
        sessions[s] # NoRow =>
            /\ users[sessions[s].user].exists
            /\ sessions[s].password = users[sessions[s].user].password

(* A session is revoked by its owner: neither sign-out nor the device list *)
(* of another user ends it.                                                *)
OnlyTheOwnerRevokes ==
    \A s \in SessionIds :
        sessions[s].state = "revoked" => sessions[s].endedBy = sessions[s].user
============================================================================
