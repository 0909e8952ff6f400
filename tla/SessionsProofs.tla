--------------------------- MODULE SessionsProofs ---------------------------
(***************************************************************************)
(* Proofs about Sessions.  A request between its read and its write is     *)
(* described by what its read established and no other request can have    *)
(* undone (CallOK): the row it writes exists and has the password it was   *)
(* read with, a set-up and an enabling that nobody overtook still find the *)
(* second factor as they read it, and no request is about to switch the    *)
(* administrator's off or to open a session of his without a code.         *)
(***************************************************************************)
EXTENDS Sessions, TLAPS

CallOK(c) ==
    /\ c.pc = "open" => /\ users[c.user].exists
                        /\ c.password = users[c.user].password
                        /\ c.user = Admin => c.mfa
    /\ c.pc \in {"setup", "enable", "disable"} => users[c.user].exists
    /\ c.pc = "disable" => c.user # Admin
    /\ c.pc = "setup" /\ ~c.stale => ~users[c.user].enabled
    /\ c.pc = "enable" /\ ~c.stale => Answers(c.user, users[c.user].secret)

CallInv == \A b \in Browsers : CallOK(call[b])

AdminInv ==
    /\ users[Admin].exists
    /\ users[Admin].enabled
    /\ \A s \in SessionIds :
          sessions[s] # NoRow /\ sessions[s].user = Admin => sessions[s].mfa

(* The page of the second step holds a token of some user.                 *)
PageInv ==
    \A b \in Browsers : browser[b].page = "totp" => browser[b].challenge \in Users

SInv ==
    /\ SessionsTypeOK
    /\ PageInv
    /\ CallInv
    /\ AdminInv
    /\ FactorIsAnswerable
    /\ SessionsHaveThePassword
    /\ OnlyTheOwnerRevokes

---------------------------------------------------------------------------

(* What a request is, by the step it has reached.                          *)
LEMMA CallTypes ==
    ASSUME NEW c \in Call
    PROVE  /\ c.pc \in {"none", "create", "open", "setup", "enable", "disable"}
           /\ c.pc = "create" => c.user \in Users /\ c.password \in Passwords
           /\ c.pc = "open" => /\ c.user \in Users
                               /\ c.password \in Passwords
                               /\ c.mfa \in BOOLEAN
           /\ c.pc \in {"setup", "enable", "disable"} =>
                 /\ c \in Management
                 /\ c.user \in Users
                 /\ c.stale \in BOOLEAN
  BY DEF Call, NoCall, Creating, Opening, Management

(* A row of users that exists is a whole row.                              *)
LEMMA UserTypes ==
    ASSUME SessionsTypeOK, NEW u \in Users, users[u].exists
    PROVE  users[u] \in User
  <1>1. ~NoUser.exists
    BY DEF NoUser
  <1>2. users[u] # NoUser
    BY <1>1
  <1>3. QED
    BY <1>2 DEF SessionsTypeOK

(* The guard's answer: a cookie it accepts names a row, and its user is    *)
(* a user with a row of his own.                                           *)
LEMMA GuardFacts ==
    ASSUME SInv, NEW b \in Browsers, SignedIn(b)
    PROVE  /\ browser[b].cookie \in SessionIds
           /\ sessions[browser[b].cookie] # NoRow
           /\ UserOf(b) \in Users
           /\ users[UserOf(b)].exists
  <1>1. browser[b].cookie \in SessionIds
    BY DEF SInv, SessionsTypeOK, Browser, SignedIn
  <1>2. sessions[browser[b].cookie] # NoRow
    BY <1>1 DEF SignedIn, NoRow
  <1>3. sessions[browser[b].cookie] \in Session
    BY <1>1, <1>2 DEF SInv, SessionsTypeOK
  <1>4. UserOf(b) \in Users
    BY <1>3 DEF UserOf, Session
  <1>5. users[UserOf(b)].exists
    BY <1>1, <1>2 DEF SInv, SessionsHaveThePassword, UserOf
  <1>6. QED
    BY <1>1, <1>2, <1>4, <1>5

LEMMA SessionsInitInv == SessionsInit => SInv
  <1> SUFFICES ASSUME SessionsInit PROVE SInv
    OBVIOUS
  <1> USE SessionsAssumption
  <1>1. PICK password \in [Users -> Passwords], clients \in SUBSET (Users \ {Admin}) :
          users = [u \in Users |->
                     IF u = Admin
                     THEN [exists |-> TRUE, password |-> password[u], enabled |-> TRUE,
                           secret |-> SeedSecret]
                     ELSE IF u \in clients
                     THEN [exists |-> TRUE, password |-> password[u], enabled |-> FALSE,
                           secret |-> NoSecret]
                     ELSE NoUser]
    BY DEF SessionsInit
  <1>2. users \in [Users -> {NoUser} \cup User]
    BY <1>1 DEF User
  <1>3. SessionsTypeOK
    BY <1>2 DEF SessionsInit, SessionsTypeOK, Browser, Call
  <1>4. CallInv /\ PageInv
    BY DEF SessionsInit, CallInv, CallOK, NoCall, PageInv
  <1>5. users[Admin].exists /\ users[Admin].enabled /\ users[Admin].secret = SeedSecret
    BY <1>1
  <1>6. \A u \in Users \ {Admin} : users[u].exists => ~users[u].enabled
    BY <1>1 DEF NoUser
  <1>7. FactorIsAnswerable
    BY <1>5, <1>6 DEF SessionsInit, FactorIsAnswerable, Answers
  <1>8. AdminInv /\ SessionsHaveThePassword /\ OnlyTheOwnerRevokes
    BY <1>5 DEF SessionsInit, AdminInv, SessionsHaveThePassword, OnlyTheOwnerRevokes, NoRow
  <1>9. QED
    BY <1>3, <1>4, <1>7, <1>8 DEF SInv

(* A request begins, goes on, or ends, and nothing else happens.           *)
LEMMA CallChanges ==
    ASSUME SInv, NEW b \in Browsers, NEW c \in Call, CallOK(c),
           call' = [call EXCEPT ![b] = c],
           UNCHANGED <<users, app, issued, sessions, browser, raced>>
    PROVE  SInv'
  <1>1. SessionsTypeOK'
    BY DEF SInv, SessionsTypeOK
  <1>2. CallInv'
    <2> SUFFICES ASSUME NEW d \in Browsers PROVE CallOK(call[d])'
      BY DEF CallInv
    <2>1. call'[d] = IF d = b THEN c ELSE call[d]
      BY DEF SInv, SessionsTypeOK
    <2>2. CallOK(call[d])
      BY DEF SInv, CallInv
    <2>3. QED
      BY <2>1, <2>2 DEF CallOK, Answers
  <1>3. /\ PageInv' /\ AdminInv'
        /\ FactorIsAnswerable' /\ SessionsHaveThePassword' /\ OnlyTheOwnerRevokes'
    BY DEF SInv, PageInv, AdminInv, FactorIsAnswerable, Answers, SessionsHaveThePassword,
           OnlyTheOwnerRevokes
  <1>4. QED
    BY <1>1, <1>2, <1>3 DEF SInv

(* Only a page changes.                                                    *)
LEMMA PageChanges ==
    ASSUME SInv, browser' \in [Browsers -> Browser], PageInv',
           UNCHANGED <<users, app, issued, sessions, call, raced>>
    PROVE  SInv'
  <1>1. SessionsTypeOK'
    BY DEF SInv, SessionsTypeOK
  <1>2. QED
    BY <1>1 DEF SInv, CallInv, CallOK, AdminInv, FactorIsAnswerable, Answers,
                SessionsHaveThePassword, OnlyTheOwnerRevokes

(* A session ends, by its owner or by the clock.                           *)
LEMMA RowEnds ==
    ASSUME SInv, NEW s \in SessionIds, NEW row \in Session, sessions[s] # NoRow,
           row.user = sessions[s].user,
           row.password = sessions[s].password,
           row.mfa = sessions[s].mfa,
           row.state = "revoked" => row.endedBy = row.user,
           sessions' = [sessions EXCEPT ![s] = row],
           browser' \in [Browsers -> Browser], PageInv',
           UNCHANGED <<users, app, issued, call, raced>>
    PROVE  SInv'
  <1>1. SessionsTypeOK'
    BY DEF SInv, SessionsTypeOK
  <1>2. CallInv' /\ FactorIsAnswerable'
    BY DEF SInv, CallInv, CallOK, FactorIsAnswerable, Answers
  <1>3. \A t \in SessionIds : sessions'[t] = IF t = s THEN row ELSE sessions[t]
    BY DEF SInv, SessionsTypeOK
  <1>4. AdminInv'
    BY <1>3 DEF SInv, AdminInv
  <1>5. SessionsHaveThePassword'
    BY <1>3 DEF SInv, SessionsHaveThePassword
  <1>6. OnlyTheOwnerRevokes'
    BY <1>3 DEF SInv, OnlyTheOwnerRevokes
  <1>7. QED
    BY <1>1, <1>2, <1>4, <1>5, <1>6 DEF SInv

(* A request that manages the second factor writes the row of its user,    *)
(* whose other such requests are overtaken.                                *)
LEMMA FactorWritten ==
    ASSUME SInv, NEW b \in Browsers, NEW u \in Users, NEW row \in User,
           users[u].exists,
           row.password = users[u].password,
           u = Admin => row.enabled,
           users' = [users EXCEPT ![u] = row],
           call' = Overtaken(b, u),
           app' \in [Users -> SUBSET (Secrets \cup {SeedSecret})],
           \A v \in Users : app[v] \subseteq app'[v],
           issued' \subseteq Secrets,
           raced' \in {raced, raced \cup {u}},
           u \notin raced' /\ row.enabled => row.secret # NoSecret /\ row.secret \in app'[u],
           UNCHANGED <<sessions, browser>>
    PROVE  SInv'
  <1>1. \A v \in Users : users'[v] = IF v = u THEN row ELSE users[v]
    BY DEF SInv, SessionsTypeOK
  <1>2. row.exists = TRUE
    BY DEF User
  <1>3. \A d \in Browsers :
          call'[d] = IF d = b THEN NoCall
                     ELSE IF Managing(d, u) THEN [call[d] EXCEPT !.stale = TRUE]
                     ELSE call[d]
    BY DEF Overtaken
  <1>4. ASSUME NEW d \in Browsers, Managing(d, u)
        PROVE  /\ [call[d] EXCEPT !.stale = TRUE] \in Call
               /\ [call[d] EXCEPT !.stale = TRUE].pc = call[d].pc
               /\ [call[d] EXCEPT !.stale = TRUE].pc \in {"setup", "enable", "disable"}
               /\ [call[d] EXCEPT !.stale = TRUE].user = u
               /\ [call[d] EXCEPT !.stale = TRUE].stale
    <2>1. call[d] \in Management
      BY <1>4, CallTypes DEF Managing, SInv, SessionsTypeOK
    <2>2. [call[d] EXCEPT !.stale = TRUE] \in Management
      BY <2>1 DEF Management
    <2>3. QED
      BY <1>4, <2>1, <2>2 DEF Management, Call, Managing
  <1>5. SessionsTypeOK'
    <2>1. users' \in [Users -> {NoUser} \cup User]
      BY DEF SInv, SessionsTypeOK
    <2>2. call' \in [Browsers -> Call]
      <3>1. \A d \in Browsers : call'[d] \in Call
        BY <1>3, <1>4 DEF Call, SInv, SessionsTypeOK
      <3>2. QED
        BY <3>1 DEF Overtaken
    <2>3. QED
      BY <2>1, <2>2 DEF SInv, SessionsTypeOK
  <1>6. CallInv'
    <2> SUFFICES ASSUME NEW d \in Browsers PROVE CallOK(call[d])'
      BY DEF CallInv
    <2>1. CallOK(call[d]) /\ call[d] \in Call
      BY DEF SInv, CallInv, SessionsTypeOK
    <2>2. CASE d = b
      <3>1. NoCall.pc = "none"
        BY DEF NoCall
      <3>2. call'[d] = NoCall
        BY <1>3, <2>2
      <3>3. QED
        BY <3>1, <3>2 DEF CallOK
    <2>3. CASE d # b /\ Managing(d, u)
      <3> DEFINE c == [call[d] EXCEPT !.stale = TRUE]
      <3>1. /\ c.pc = call[d].pc
            /\ c.pc \in {"setup", "enable", "disable"}
            /\ c.user = u
            /\ c.stale
        BY <1>4, <2>3
      <3>2. call[d].user = u
        BY <2>3 DEF Managing
      <3>3. call'[d] = c
        BY <1>3, <2>3
      <3> HIDE DEF c
      <3>4. QED
        BY <1>1, <1>2, <2>1, <3>1, <3>2, <3>3 DEF CallOK
    <2>4. CASE d # b /\ ~Managing(d, u)
      <3>1. call'[d] = call[d]
        BY <1>3, <2>4
      <3>2. call[d].pc \in {"setup", "enable", "disable"} => call[d].user \in Users \ {u}
        BY <2>1, <2>4, CallTypes DEF Managing
      <3>3. call[d].pc = "open" => call[d].user \in Users
        BY <2>1, CallTypes
      <3>4. QED
        BY <1>1, <1>2, <2>1, <3>1, <3>2, <3>3 DEF CallOK, Answers
    <2>5. QED
      BY <2>2, <2>3, <2>4
  <1>7. AdminInv'
    BY <1>1, <1>2, SessionsAssumption DEF SInv, AdminInv
  <1>8. FactorIsAnswerable'
    BY <1>1 DEF SInv, FactorIsAnswerable, Answers
  <1>9. SessionsHaveThePassword'
    <2>1. \A s \in SessionIds : sessions[s] # NoRow => sessions[s].user \in Users
      BY DEF SInv, SessionsTypeOK, Session
    <2>2. QED
      BY <1>1, <1>2, <2>1 DEF SInv, SessionsHaveThePassword
  <1>10. OnlyTheOwnerRevokes' /\ PageInv'
    BY DEF SInv, OnlyTheOwnerRevokes, PageInv
  <1>11. QED
    BY <1>5, <1>6, <1>7, <1>8, <1>9, <1>10 DEF SInv

---------------------------------------------------------------------------
(* The steps                                                               *)

LEMMA SignInSteps ==
    ASSUME SInv, NEW b \in Browsers, SignInStep(b)
    PROVE  SInv'
  <1> USE SessionsAssumption
  <1>0. call[b] \in Call /\ CallOK(call[b])
    BY DEF SInv, SessionsTypeOK, CallInv
  <1>1. ASSUME NEW u \in Users, NEW p \in Passwords, Register(b, u, p) PROVE SInv'
    <2> DEFINE c == [pc |-> "create", user |-> u, password |-> p]
    <2>1. c \in Call /\ CallOK(c)
      BY DEF Call, Creating, CallOK
    <2>2. /\ call' = [call EXCEPT ![b] = c]
          /\ UNCHANGED <<users, app, issued, sessions, browser, raced>>
      BY <1>1 DEF Register
    <2> HIDE DEF c
    <2>3. QED
      BY <2>1, <2>2, CallChanges
  <1>2. ASSUME NEW u \in Users, LoginIsChallenged(b, u) PROVE SInv'
    <2>1. browser' \in [Browsers -> Browser]
      <3>1. [browser[b] EXCEPT !.page = "totp", !.challenge = u] \in Browser
        BY DEF SInv, SessionsTypeOK, Browser
      <3>2. browser' = [browser EXCEPT ![b] = [browser[b] EXCEPT !.page = "totp",
                                                                 !.challenge = u]]
        BY <1>2 DEF LoginIsChallenged, Challenged, SInv, SessionsTypeOK
      <3>3. QED
        BY <3>1, <3>2 DEF SInv, SessionsTypeOK
    <2>2. PageInv'
      BY <1>2 DEF LoginIsChallenged, Challenged, SInv, SessionsTypeOK, PageInv, Browser
    <2>3. QED
      BY <1>2, <2>1, <2>2, PageChanges DEF LoginIsChallenged
  <1>3. ASSUME NEW u \in Users, LoginWithPassword(b, u) PROVE SInv'
    <2> DEFINE c == [pc |-> "open", user |-> u, password |-> users[u].password, mfa |-> FALSE]
    <2>1. users[u] \in User /\ u # Admin
      BY <1>3, UserTypes DEF LoginWithPassword, SInv, AdminInv
    <2>2. c \in Call /\ CallOK(c)
      BY <1>3, <2>1 DEF LoginWithPassword, Call, Opening, CallOK, User
    <2>3. /\ call' = [call EXCEPT ![b] = c]
          /\ UNCHANGED <<users, app, issued, sessions, browser, raced>>
      BY <1>3 DEF LoginWithPassword
    <2> HIDE DEF c
    <2>4. QED
      BY <2>2, <2>3, CallChanges
  <1>4. CASE LoginWithCode(b)
    <2> DEFINE u == Subject(b)
               c == [pc |-> "open", user |-> u, password |-> users[u].password, mfa |-> TRUE]
    <2>1. u \in Users
      BY <1>4 DEF LoginWithCode, Subject, Ready, SInv, PageInv
    <2>2. users[u].exists /\ users[u] \in User
      BY <1>4, <2>1, UserTypes DEF LoginWithCode, SInv
    <2> HIDE DEF u
    <2>3. c \in Call /\ CallOK(c)
      BY <2>1, <2>2 DEF Call, Opening, CallOK, User
    <2>4. /\ call' = [call EXCEPT ![b] = c]
          /\ UNCHANGED <<users, app, issued, sessions, browser, raced>>
      BY <1>4 DEF LoginWithCode, u
    <2> HIDE DEF c
    <2>5. QED
      BY <2>3, <2>4, CallChanges
  <1>5. CASE BackToCredentials(b)
    <2>1. browser' \in [Browsers -> Browser] /\ PageInv'
      BY <1>5 DEF BackToCredentials, SInv, SessionsTypeOK, PageInv, Browser
    <2>2. QED
      BY <1>5, <2>1, PageChanges DEF BackToCredentials
  <1>6. CASE CreateUser(b)
    <2> DEFINE u == call[b].user
               p == call[b].password
               row == [exists |-> TRUE, password |-> p, enabled |-> FALSE, secret |-> NoSecret]
               c == [pc |-> "open", user |-> u, password |-> p, mfa |-> FALSE]
    <2>1. u \in Users /\ p \in Passwords
      BY <1>0, <1>6, CallTypes DEF CreateUser
    <2>2. CASE EmailTaken(u)
      <3>1. NoCall \in Call /\ CallOK(NoCall)
        BY DEF Call, CallOK, NoCall
      <3>2. /\ call' = [call EXCEPT ![b] = NoCall]
            /\ UNCHANGED <<users, app, issued, sessions, browser, raced>>
        BY <1>6, <2>2 DEF CreateUser
      <3>3. QED
        BY <3>1, <3>2, CallChanges
    <2>3. CASE ~EmailTaken(u)
      <3>1. /\ users' = [users EXCEPT ![u] = row]
            /\ call' = [call EXCEPT ![b] = c]
            /\ UNCHANGED <<app, issued, sessions, browser, raced>>
        BY <1>6, <2>3 DEF CreateUser
      <3>2. ~users[u].exists /\ u # Admin
        BY <2>3 DEF EmailTaken, SInv, AdminInv
      <3>3. row \in User /\ row.exists /\ row.password = p /\ ~row.enabled
        BY <2>1 DEF User
      <3>4. /\ c \in Call /\ c.pc = "open" /\ c.user = u
            /\ c.password = p
        BY <2>1 DEF Call, Opening
      <3> HIDE DEF u, p, row, c
      <3>5. \A v \in Users : users'[v] = IF v = u THEN row ELSE users[v]
        BY <2>1, <3>1 DEF SInv, SessionsTypeOK
      <3>6. SessionsTypeOK' /\ PageInv' /\ OnlyTheOwnerRevokes'
        BY <2>1, <3>1, <3>3, <3>4 DEF SInv, SessionsTypeOK, PageInv, OnlyTheOwnerRevokes
      <3>7. CallInv'
        <4> SUFFICES ASSUME NEW d \in Browsers PROVE CallOK(call[d])'
          BY DEF CallInv
        <4>1. call[d] \in Call /\ CallOK(call[d])
          BY DEF SInv, SessionsTypeOK, CallInv
        <4>2. CASE d = b
          <5>1. call'[d] = c
            BY <3>1, <4>2 DEF SInv, SessionsTypeOK
          <5>2. QED
            BY <2>1, <3>2, <3>3, <3>4, <3>5, <5>1 DEF CallOK
        <4>3. CASE d # b
          <5>1. call'[d] = call[d]
            BY <3>1, <4>3 DEF SInv, SessionsTypeOK
          <5>2. call[d].pc \in {"open", "setup", "enable", "disable"} =>
                   call[d].user \in Users \ {u}
            BY <3>2, <4>1, CallTypes DEF CallOK
          <5>3. QED
            BY <3>1, <3>5, <4>1, <5>1, <5>2 DEF CallOK, Answers
        <4>4. QED
          BY <4>2, <4>3
      <3>8. AdminInv'
        BY <3>1, <3>2, <3>5 DEF SInv, AdminInv
      <3>9. FactorIsAnswerable'
        BY <3>1, <3>3, <3>5 DEF SInv, FactorIsAnswerable, Answers
      <3>10. SessionsHaveThePassword'
        <4>1. \A s \in SessionIds : sessions[s] # NoRow => sessions[s].user \in Users
          BY DEF SInv, SessionsTypeOK, Session
        <4>2. QED
          BY <3>1, <3>2, <3>5, <4>1 DEF SInv, SessionsHaveThePassword
      <3>11. QED
        BY <3>6, <3>7, <3>8, <3>9, <3>10 DEF SInv
    <2>4. QED
      BY <2>2, <2>3
  <1>7. ASSUME NEW s \in SessionIds, CreateSession(b, s) PROVE SInv'
    <2> DEFINE row == [state |-> "open", user |-> call[b].user, password |-> call[b].password,
                       mfa |-> call[b].mfa, endedBy |-> Nobody]
    <2>1. /\ call[b].user \in Users
          /\ call[b].password \in Passwords
          /\ call[b].mfa \in BOOLEAN
          /\ users[call[b].user].exists
          /\ call[b].password = users[call[b].user].password
          /\ call[b].user = Admin => call[b].mfa
      BY <1>0, <1>7, CallTypes DEF CreateSession, CallOK
    <2>2. row \in Session
      BY <2>1 DEF Session
    <2>3. /\ row.user = call[b].user /\ row.password = call[b].password
          /\ row.mfa = call[b].mfa /\ row.state = "open"
      OBVIOUS
    <2>4. /\ sessions' = [sessions EXCEPT ![s] = row]
          /\ call' = [call EXCEPT ![b] = NoCall]
          /\ UNCHANGED <<users, app, issued, raced>>
      BY <1>7 DEF CreateSession
    <2> HIDE DEF row
    <2>5. browser' \in [Browsers -> Browser] /\ PageInv'
      <3>1. [browser[b] EXCEPT !.cookie = s, !.page = "portal"] \in Browser
        BY DEF SInv, SessionsTypeOK, Browser
      <3>2. [browser[b] EXCEPT !.cookie = s, !.page = "portal"].page = "portal"
        BY DEF SInv, SessionsTypeOK, Browser
      <3>3. Welcomed(b, s) = [browser EXCEPT ![b] =
                                [browser[b] EXCEPT !.cookie = s, !.page = "portal"]]
        BY DEF Welcomed, SInv, SessionsTypeOK
      <3>4. browser' \in {Welcomed(b, s), browser}
        BY <1>7 DEF CreateSession
      <3>5. QED
        BY <3>1, <3>2, <3>3, <3>4 DEF SInv, SessionsTypeOK, PageInv
    <2>6. SessionsTypeOK'
      <3>1. NoCall \in Call
        BY DEF Call
      <3>2. QED
        BY <2>2, <2>4, <2>5, <3>1 DEF SInv, SessionsTypeOK
    <2>7. CallInv'
      <3>1. NoCall.pc = "none"
        BY DEF NoCall
      <3>2. \A d \in Browsers : call'[d] = IF d = b THEN NoCall ELSE call[d]
        BY <2>4 DEF SInv, SessionsTypeOK
      <3>3. QED
        BY <2>4, <3>1, <3>2 DEF SInv, CallInv, CallOK, Answers
    <2>8. \A t \in SessionIds : sessions'[t] = IF t = s THEN row ELSE sessions[t]
      BY <2>4 DEF SInv, SessionsTypeOK
    <2>9. AdminInv'
      BY <2>1, <2>3, <2>4, <2>8 DEF SInv, AdminInv
    <2>10. FactorIsAnswerable'
      BY <2>4 DEF SInv, FactorIsAnswerable, Answers
    <2>11. SessionsHaveThePassword' /\ OnlyTheOwnerRevokes'
      BY <2>1, <2>3, <2>4, <2>8 DEF SInv, SessionsHaveThePassword, OnlyTheOwnerRevokes
    <2>12. QED
      BY <2>5, <2>6, <2>7, <2>9, <2>10, <2>11 DEF SInv
  <1>8. QED
    BY <1>1, <1>2, <1>3, <1>4, <1>5, <1>6, <1>7 DEF SignInStep

LEMMA FactorSteps ==
    ASSUME SInv, NEW b \in Browsers, FactorStep(b)
    PROVE  SInv'
  <1> USE SessionsAssumption
  <1>0. call[b] \in Call /\ CallOK(call[b])
    BY DEF SInv, SessionsTypeOK, CallInv
  <1>1. ASSUME NEW pc \in {"setup", "enable", "disable"},
               SignedIn(b),
               pc = "setup" => CanSetUp(UserOf(b)),
               pc = "enable" => Answers(UserOf(b), users[UserOf(b)].secret),
               pc = "disable" => MayDisable(UserOf(b)),
               Manage(b, pc),
               UNCHANGED <<users, app, issued, sessions, browser, raced>>
        PROVE  SInv'
    <2> DEFINE c == [pc |-> pc, user |-> UserOf(b), stale |-> FALSE]
    <2>1. UserOf(b) \in Users /\ users[UserOf(b)].exists
      BY <1>1, GuardFacts
    <2>2. c \in Call /\ c.pc = pc /\ c.user = UserOf(b)
      BY <1>1, <2>1 DEF Call, Management
    <2>3. call' = [call EXCEPT ![b] = c]
      BY <1>1 DEF Manage
    <2> HIDE DEF c
    <2>4. CallOK(c)
      BY <1>1, <2>1, <2>2 DEF CallOK, CanSetUp, MayDisable
    <2>5. QED
      BY <1>1, <2>2, <2>3, <2>4, CallChanges
  <1>2. ASSUME ReadForSetup(b) \/ ReadForEnable(b) \/ ReadForDisable(b) PROVE SInv'
    <2>1. CASE ReadForSetup(b)
      BY <1>1, <2>1 DEF ReadForSetup
    <2>2. CASE ReadForEnable(b)
      BY <1>1, <2>2 DEF ReadForEnable
    <2>3. CASE ReadForDisable(b)
      BY <1>1, <2>3 DEF ReadForDisable
    <2>4. QED
      BY <1>2, <2>1, <2>2, <2>3
  <1>3. ASSUME NEW k \in Secrets, SetupTotp(b, k) PROVE SInv'
    <2> DEFINE u == call[b].user
               row == [users[u] EXCEPT !.secret = k]
    <2>1. /\ call[b].pc = "setup"
          /\ users' = [users EXCEPT ![u].secret = k]
          /\ issued' = issued \cup {k}
          /\ app' \in {app, [app EXCEPT ![u] = @ \cup {k}]}
          /\ call' = Overtaken(b, u)
          /\ raced' = IF call[b].stale THEN raced \cup {u} ELSE raced
          /\ UNCHANGED <<sessions, browser>>
      BY <1>3 DEF SetupTotp, Scanned
    <2>2. u \in Users /\ users[u].exists /\ call[b].stale \in BOOLEAN
      BY <1>0, <2>1, CallTypes DEF CallOK
    <2>3. users[u] \in User
      BY <2>2, UserTypes DEF SInv
    <2>4. ~call[b].stale => ~users[u].enabled
      BY <1>0, <2>1 DEF CallOK
    <2> HIDE DEF u
    <2>5. /\ row \in User
          /\ row.password = users[u].password
          /\ row.enabled = users[u].enabled
      BY <2>3 DEF User
    <2>6. users' = [users EXCEPT ![u] = row]
      BY <2>1, <2>2 DEF SInv, SessionsTypeOK
    <2> HIDE DEF row
    <2>7. u = Admin => row.enabled
      BY <2>5 DEF SInv, AdminInv
    <2>8. /\ app' \in [Users -> SUBSET (Secrets \cup {SeedSecret})]
          /\ \A v \in Users : app[v] \subseteq app'[v]
          /\ issued' \subseteq Secrets
      BY <2>1, <2>2 DEF SInv, SessionsTypeOK
    <2>9. /\ raced' \in {raced, raced \cup {u}}
          /\ u \notin raced' => ~row.enabled
      BY <2>1, <2>4, <2>5
    <2>10. QED
      BY <2>1, <2>2, <2>5, <2>6, <2>7, <2>8, <2>9, FactorWritten
  <1>4. CASE EnableTotp(b)
    <2> DEFINE u == call[b].user
               row == [users[u] EXCEPT !.enabled = TRUE]
    <2>1. /\ call[b].pc = "enable"
          /\ users' = [users EXCEPT ![u].enabled = TRUE]
          /\ call' = Overtaken(b, u)
          /\ raced' = IF call[b].stale THEN raced \cup {u} ELSE raced
          /\ UNCHANGED <<app, issued, sessions, browser>>
      BY <1>4 DEF EnableTotp
    <2>2. u \in Users /\ users[u].exists /\ call[b].stale \in BOOLEAN
      BY <1>0, <2>1, CallTypes DEF CallOK
    <2>3. users[u] \in User
      BY <2>2, UserTypes DEF SInv
    <2>4. ~call[b].stale => users[u].secret # NoSecret /\ users[u].secret \in app[u]
      BY <1>0, <2>1 DEF CallOK, Answers
    <2> HIDE DEF u
    <2>5. /\ row \in User
          /\ row.password = users[u].password
          /\ row.enabled
          /\ row.secret = users[u].secret
      BY <2>3 DEF User
    <2>6. users' = [users EXCEPT ![u] = row]
      BY <2>1, <2>2 DEF SInv, SessionsTypeOK
    <2> HIDE DEF row
    <2>7. /\ app' \in [Users -> SUBSET (Secrets \cup {SeedSecret})]
          /\ \A v \in Users : app[v] \subseteq app'[v]
          /\ issued' \subseteq Secrets
      BY <2>1 DEF SInv, SessionsTypeOK
    <2>8. /\ raced' \in {raced, raced \cup {u}}
          /\ u \notin raced' => row.secret # NoSecret /\ row.secret \in app'[u]
      BY <2>1, <2>4, <2>5
    <2>9. QED
      BY <2>1, <2>2, <2>5, <2>6, <2>7, <2>8, FactorWritten
  <1>5. CASE DisableTotp(b)
    <2> DEFINE u == call[b].user
               row == [users[u] EXCEPT !.enabled = FALSE, !.secret = NoSecret]
    <2>1. /\ call[b].pc = "disable"
          /\ users' = [users EXCEPT ![u].enabled = FALSE, ![u].secret = NoSecret]
          /\ call' = Overtaken(b, u)
          /\ UNCHANGED <<app, issued, sessions, browser, raced>>
      BY <1>5 DEF DisableTotp
    <2>2. u \in Users /\ users[u].exists /\ u # Admin
      BY <1>0, <2>1, CallTypes DEF CallOK
    <2>3. users[u] \in User
      BY <2>2, UserTypes DEF SInv
    <2> HIDE DEF u
    <2>4. /\ row \in User
          /\ row.password = users[u].password
          /\ ~row.enabled
      BY <2>3 DEF User
    <2>5. users' = [users EXCEPT ![u] = row]
      BY <2>1, <2>2 DEF SInv, SessionsTypeOK
    <2> HIDE DEF row
    <2>6. /\ app' \in [Users -> SUBSET (Secrets \cup {SeedSecret})]
          /\ \A v \in Users : app[v] \subseteq app'[v]
          /\ issued' \subseteq Secrets
      BY <2>1 DEF SInv, SessionsTypeOK
    <2>7. QED
      BY <2>1, <2>2, <2>4, <2>5, <2>6, FactorWritten
  <1>6. QED
    BY <1>2, <1>3, <1>4, <1>5 DEF FactorStep

LEMMA SessionSteps ==
    ASSUME SInv, \/ \E b \in Browsers : SessionStep(b)
                 \/ \E s \in SessionIds : Expire(s)
    PROVE  SInv'
  <1>1. ASSUME NEW s \in SessionIds, sessions[s] # NoRow,
               EndedBy(s, sessions[s].user),
               browser' \in [Browsers -> Browser], PageInv',
               UNCHANGED <<users, app, issued, call, raced>>
        PROVE  SInv'
    <2> DEFINE row == [sessions[s] EXCEPT !.state = "revoked", !.endedBy = sessions[s].user]
    <2>1. sessions[s] \in Session
      BY <1>1 DEF SInv, SessionsTypeOK
    <2>2. /\ row \in Session
          /\ row.user = sessions[s].user /\ row.password = sessions[s].password
          /\ row.mfa = sessions[s].mfa /\ row.endedBy = row.user
      BY <2>1 DEF Session
    <2>3. sessions' = [sessions EXCEPT ![s] = row]
      BY <1>1 DEF EndedBy, SInv, SessionsTypeOK
    <2> HIDE DEF row
    <2>4. QED
      BY <1>1, <2>2, <2>3, RowEnds
  <1>2. ASSUME NEW b \in Browsers, Logout(b) PROVE SInv'
    <2>1. browser' \in [Browsers -> Browser] /\ PageInv'
      <3>1. [browser[b] EXCEPT !.cookie = NoSession, !.page = "signin"] \in Browser
        BY DEF SInv, SessionsTypeOK, Browser
      <3>2. [browser[b] EXCEPT !.cookie = NoSession, !.page = "signin"].page = "signin"
        BY DEF SInv, SessionsTypeOK, Browser
      <3>3. browser' = [browser EXCEPT ![b] =
                          [browser[b] EXCEPT !.cookie = NoSession, !.page = "signin"]]
        BY <1>2 DEF Logout, SignedOut, SInv, SessionsTypeOK
      <3>4. QED
        BY <3>1, <3>2, <3>3 DEF SInv, SessionsTypeOK, PageInv
    <2>2. /\ browser[b].cookie \in SessionIds
          /\ sessions[browser[b].cookie] # NoRow
      BY <1>2, GuardFacts DEF Logout
    <2>3. CASE EndedBy(browser[b].cookie, UserOf(b))
      BY <1>1, <1>2, <2>1, <2>2, <2>3 DEF Logout, UserOf
    <2>4. CASE UNCHANGED sessions
      BY <1>2, <2>1, <2>4, PageChanges DEF Logout
    <2>5. QED
      BY <1>2, <2>3, <2>4 DEF Logout
  <1>3. ASSUME NEW b \in Browsers, NEW s \in SessionIds, RevokeSession(b, s) PROVE SInv'
    <2>1. /\ sessions[s] # NoRow
          /\ EndedBy(s, sessions[s].user)
          /\ UNCHANGED <<users, app, issued, browser, call, raced>>
      BY <1>3 DEF RevokeSession, OwnRow
    <2>2. browser' \in [Browsers -> Browser] /\ PageInv'
      BY <2>1 DEF SInv, SessionsTypeOK, PageInv
    <2>3. QED
      BY <1>1, <2>1, <2>2
  <1>4. ASSUME NEW b \in Browsers, LeavePortal(b) PROVE SInv'
    <2>1. browser' \in [Browsers -> Browser] /\ PageInv'
      BY <1>4 DEF LeavePortal, SInv, SessionsTypeOK, PageInv, Browser
    <2>2. QED
      BY <1>4, <2>1, PageChanges DEF LeavePortal
  <1>5. ASSUME NEW b \in Browsers, CallFails(b) PROVE SInv'
    <2>1. NoCall \in Call /\ CallOK(NoCall)
      BY DEF Call, CallOK, NoCall
    <2>2. QED
      BY <1>5, <2>1, CallChanges DEF CallFails
  <1>6. ASSUME NEW s \in SessionIds, Expire(s) PROVE SInv'
    <2> DEFINE row == [sessions[s] EXCEPT !.state = "expired"]
    <2>1. sessions[s] # NoRow
      BY <1>6 DEF Expire, NoRow
    <2>2. sessions[s] \in Session
      BY <2>1 DEF SInv, SessionsTypeOK
    <2>3. /\ row \in Session
          /\ row.user = sessions[s].user /\ row.password = sessions[s].password
          /\ row.mfa = sessions[s].mfa /\ row.state # "revoked"
      BY <2>2 DEF Session
    <2>4. /\ sessions' = [sessions EXCEPT ![s] = row]
          /\ UNCHANGED <<users, app, issued, browser, call, raced>>
      BY <1>6 DEF Expire, SInv, SessionsTypeOK
    <2> HIDE DEF row
    <2>5. browser' \in [Browsers -> Browser] /\ PageInv'
      BY <2>4 DEF SInv, SessionsTypeOK, PageInv
    <2>6. QED
      BY <2>1, <2>3, <2>4, <2>5, RowEnds
  <1>7. QED
    BY <1>2, <1>3, <1>4, <1>5, <1>6 DEF SessionStep

LEMMA SessionsStutter == SInv /\ UNCHANGED sessionVars => SInv'
  BY DEF SInv, sessionVars, SessionsTypeOK, PageInv, CallInv, CallOK, AdminInv,
         FactorIsAnswerable, Answers, SessionsHaveThePassword, OnlyTheOwnerRevokes

LEMMA SessionsInvariant == SessionsSpec => []SInv
  <1>1. SInv /\ [SessionsNext]_sessionVars => SInv'
    <2>1. SInv /\ SessionsNext => SInv'
      BY SignInSteps, FactorSteps, SessionSteps DEF SessionsNext
    <2>2. QED
      BY <2>1, SessionsStutter
  <1>2. QED
    BY SessionsInitInv, <1>1, PTL DEF SessionsSpec

---------------------------------------------------------------------------

(* Type correctness of accounts, sessions, browsers and requests, for any  *)
(* number of them: every request of AuthService writes to a row that was   *)
(* there when the guard admitted it and still is.                          *)
THEOREM SessionTypesCorrect == SessionsSpec => []SessionsTypeOK
  <1>1. SInv => SessionsTypeOK
    BY DEF SInv
  <1>2. QED
    BY <1>1, SessionsInvariant, PTL

(* A second factor that is on can be answered, except after a set-up or    *)
(* enabling that overlapped another management request of the same user:   *)
(* that overlap is the only way enableTotp and setupTotp go wrong.         *)
THEOREM FactorCanBeAnswered == SessionsSpec => []FactorIsAnswerable
  <1>1. SInv => FactorIsAnswerable
    BY DEF SInv
  <1>2. QED
    BY <1>1, SessionsInvariant, PTL

(* No session of the seeded administrator is opened, or about to be,       *)
(* without the code: not even by a registration or a login that began      *)
(* beside requests that manage the factor.                                 *)
THEOREM StaffAlwaysUseTheFactor == SessionsSpec => []StaffUseTheFactor
  <1>1. SInv => StaffUseTheFactor
    BY DEF SInv, AdminInv, CallInv, CallOK, StaffUseTheFactor
  <1>2. QED
    BY <1>1, SessionsInvariant, PTL

(* Whoever has a session of an account gave the account's password, in     *)
(* every race of registrations of one address.                             *)
THEOREM OnlyOneRegistrationWins == SessionsSpec => []SessionsHaveThePassword
  <1>1. SInv => SessionsHaveThePassword
    BY DEF SInv
  <1>2. QED
    BY <1>1, SessionsInvariant, PTL

(* Sign-out and the device list end only sessions of the user who asks.    *)
THEOREM RevokedByTheOwner == SessionsSpec => []OnlyTheOwnerRevokes
  <1>1. SInv => OnlyTheOwnerRevokes
    BY DEF SInv
  <1>2. QED
    BY <1>1, SessionsInvariant, PTL
=============================================================================
