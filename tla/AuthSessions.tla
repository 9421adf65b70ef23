---------------------------- MODULE AuthSessions -----------------------------
(***************************************************************************)
(* Signing in: AuthService's sessions with their rotating refresh tokens,  *)
(* its password changes and reset links, the temporary passwords that      *)
(* EmployeesService sends again and EmployersService on activation, and    *)
(* the clean-up of ended sessions.                                         *)
(*                                                                         *)
(* Who may sign in at all (getAuthUser, JwtStrategy) is read once and then *)
(* refuses or not: a handler it refuses is one that does not start, or     *)
(* aborts.  The clock is treated likewise: a session may be too old at any *)
(* refresh, and the reset whose link is late does not start.               *)
(***************************************************************************)
EXTENDS Handlers, FiniteSets, Naturals

CONSTANTS
    User,       \* users
    Session,    \* ids of user_sessions rows, used or still to be used
    SessionOf,  \* the user of each session
    Link,       \* ids of password_reset_tokens rows, used or still to be used
    LinkOf,     \* the user of each reset link
    MaxTokens   \* bound: how many refresh tokens a session may have

ASSUME SessionOfAssumption == SessionOf \in [Session -> User]
ASSUME LinkOfAssumption == LinkOf \in [Link -> User]
ASSUME MaxTokensAssumption == MaxTokens \in Nat \ {0}

VARIABLES
    session, \* user_sessions.isActive: "NONE" before the row, "GONE" after it
    token,   \* which refresh token's hash the session stores, 0 for the empty one
    handed,  \* history: how many refresh tokens clients were given
    stale,   \* history: open sessions of a password their user has replaced
    chosen,  \* users.passwordChanged: the password is the user's own
    link,    \* "NONE" before the row, then "OPEN" until usedAt is set
    uses     \* history: how many resets went through with a link

sessionVars == <<session, token, handed>>
linkVars == <<link, uses>>
sessionsVars == <<sessionVars, stale, chosen, linkVars>>

----------------------------------------------------------------------------
(* old: the password the handler checked has been replaced since. *)
LoginCall == [req : Request, op : {"login"}, user : User, old : BOOLEAN,
              seen : SUBSET Session, at : {"revoke", "open"}]
ChangeCall == [req : Request, op : {"change"}, user : User, old : BOOLEAN,
               first : BOOLEAN, at : {"write", "reopen"}]
IssueCall == [req : Request, op : {"issue"}, id : Session, at : {"write"}]
RefreshCall == [req : Request, op : {"refresh"}, id : Session, token : 1..(MaxTokens - 1),
                at : {"rotate"}]
CloseCall == [req : Request, op : {"close"}, id : Session, at : {"write"}]
ForgotCall == [req : Request, op : {"forgot"}, user : User, seen : SUBSET Link,
               at : {"issue"}]
ResetCall == [req : Request, op : {"reset"}, link : Link, at : {"write"}]
ResendCall == [req : Request, op : {"resendActivation"}, user : User, at : {"write"}]
SessionsCall == LoginCall \cup ChangeCall \cup IssueCall \cup RefreshCall \cup CloseCall
                \cup ForgotCall \cup ResetCall \cup ResendCall

SessionsTypeOK ==
    /\ session \in [Session -> {"NONE", "OPEN", "CLOSED", "GONE"}]
    /\ token \in [Session -> 0..MaxTokens]
    /\ handed \in [Session -> Nat]
    /\ stale \in SUBSET Session
    /\ chosen \in SUBSET User
    /\ link \in [Link -> {"NONE", "OPEN", "USED"}]
    /\ uses \in [Link -> Nat]
    /\ calls \in SUBSET SessionsCall

SessionsInit ==
    /\ session = [s \in Session |-> "NONE"]
    /\ token = [s \in Session |-> 0]
    /\ handed = [s \in Session |-> 0]
    /\ stale = {} /\ chosen = {}
    /\ link = [k \in Link |-> "NONE"]
    /\ uses = [k \in Link |-> 0]
    /\ calls = {}

----------------------------------------------------------------------------
OpenOf(u) == {s \in Session : SessionOf[s] = u /\ session[s] = "OPEN"}

(* The sessions after those of a set were closed, whatever they were. *)
Closed(ending) ==
    [s \in Session |-> IF s \in ending /\ session[s] = "OPEN" THEN "CLOSED" ELSE session[s]]

CloseAll(ending) ==
    /\ session' = Closed(ending)
    /\ stale' = stale \ ending
    /\ UNCHANGED <<token, handed>>

(* A new session, with its first token or the empty one. *)
NewSession(s, n, ending, old) ==
    /\ session[s] = "NONE"
    /\ session' = [Closed(ending) EXCEPT ![s] = "OPEN"]
    /\ token' = [token EXCEPT ![s] = n]
    /\ handed' = [handed EXCEPT ![s] = n]
    /\ stale' = (stale \ ending) \cup (IF old THEN {s} ELSE {})

(* login: the password is compared with the hash that was read; *)
LoginRead(r, u) ==
    /\ Begin([req |-> r, op |-> "login", user |-> u, old |-> FALSE, seen |-> {},
              at |-> "revoke"])
    /\ UNCHANGED sessionsVars

(* No session is deactivated. *)
LoginKeeps(c) ==
    /\ At(c, "login", "revoke")
    /\ GoOn(c, [c EXCEPT !.at = "open"])
    /\ UNCHANGED sessionsVars

(* then one transaction deactivates the user's sessions that are committed *)
(* when its first statement runs, *)
LoginRevoke(c) ==
    /\ At(c, "login", "revoke")
    /\ GoOn(c, [c EXCEPT !.seen = OpenOf(c.user), !.at = "open"])
    /\ UNCHANGED sessionsVars

(* and commits them with the session it creates. *)
LoginOpen(c, s) ==
    /\ At(c, "login", "open")
    /\ SessionOf[s] = c.user
    /\ NewSession(s, 1, c.seen, c.old)
    /\ End(c)
    /\ UNCHANGED <<chosen, linkVars>>

----------------------------------------------------------------------------
(* refresh: the session is open, and if it is not too old and the token    *)
(* presented is the one stored, the token may be replaced; *)
RefreshRead(r, s) ==
    /\ session[s] = "OPEN"
    /\ token[s] \in 1..(MaxTokens - 1)
    /\ Begin([req |-> r, op |-> "refresh", id |-> s, token |-> token[s], at |-> "rotate"])
    /\ UNCHANGED sessionsVars

(* when the session is too old, or the token another, it is to be closed. *)
RefreshRefused(r, s) ==
    /\ session[s] = "OPEN"
    /\ Begin([req |-> r, op |-> "close", id |-> s, at |-> "write"])
    /\ UNCHANGED sessionsVars

(* The update names the session and not the token that was read. *)
RotateUnchecked(c) ==
    /\ At(c, "refresh", "rotate")
    /\ session[c.id] = "OPEN"
    /\ token' = [token EXCEPT ![c.id] = c.token + 1]
    /\ handed' = [handed EXCEPT ![c.id] = @ + 1]
    /\ End(c)
    /\ UNCHANGED <<session, stale, chosen, linkVars>>

(* The update compares: the session is still open and has the hash that    *)
(* was read.                                                               *)
RefreshRotate(c) ==
    /\ At(c, "refresh", "rotate")
    /\ session[c.id] = "OPEN"
    /\ token[c.id] = c.token
    /\ token' = [token EXCEPT ![c.id] = c.token + 1]
    /\ handed' = [handed EXCEPT ![c.id] = @ + 1]
    /\ End(c)
    /\ UNCHANGED <<session, stale, chosen, linkVars>>

(* revokeSession looks at an open session of the user, *)
RevokeRead(r, s) ==
    /\ session[s] = "OPEN"
    /\ Begin([req |-> r, op |-> "close", id |-> s, at |-> "write"])
    /\ UNCHANGED sessionsVars

(* and, like a refused refresh, closes it by its id. *)
CloseWrite(c) ==
    /\ At(c, "close", "write")
    /\ session[c.id] # "GONE"
    /\ CloseAll({c.id})
    /\ End(c)
    /\ UNCHANGED <<chosen, linkVars>>

(* logout: one session of the user, or all of them. *)
Logout(u, ending) ==
    /\ ending = OpenOf(u) \/ \E s \in OpenOf(u) : ending = {s}
    /\ CloseAll(ending)
    /\ UNCHANGED <<chosen, linkVars, calls>>

(* SessionCleanupService deletes what ended 90 days ago. *)
CleanUp(s) ==
    /\ session[s] = "CLOSED"
    /\ session' = [session EXCEPT ![s] = "GONE"]
    /\ UNCHANGED <<token, handed, stale, chosen, linkVars, calls>>

----------------------------------------------------------------------------
(* The handlers that compared the password of u before it was replaced. *)
Outdated(u, others) ==
    {IF d.op \in {"login", "change"} /\ d.user = u THEN [d EXCEPT !.old = TRUE] ELSE d :
         d \in others}

(* changePassword: the current password is compared with the hash read; *)
ChangeRead(r, u) ==
    /\ OpenOf(u) # {}
    /\ Begin([req |-> r, op |-> "change", user |-> u, old |-> FALSE,
              first |-> u \notin chosen, at |-> "write"])
    /\ UNCHANGED sessionsVars

(* then the new one is written and all sessions are closed; *)
ChangeWrite(c) ==
    /\ At(c, "change", "write")
    /\ CloseAll(OpenOf(c.user))
    /\ chosen' = chosen \cup {c.user}
    /\ calls' = Outdated(c.user, calls \ {c})
                \cup (IF c.first THEN {[c EXCEPT !.old = FALSE, !.at = "reopen"]} ELSE {})
    /\ UNCHANGED linkVars

(* the first change of a temporary password opens a session at once, *)
ChangeReopen(c, s) ==
    /\ At(c, "change", "reopen")
    /\ SessionOf[s] = c.user
    /\ NewSession(s, 0, {}, c.old)
    /\ GoOn(c, [req |-> c.req, op |-> "issue", id |-> s, at |-> "write"])
    /\ UNCHANGED <<chosen, linkVars>>

(* and gives it its token by its id. *)
IssueToken(c) ==
    /\ At(c, "issue", "write")
    /\ session[c.id] # "GONE"
    /\ token' = [token EXCEPT ![c.id] = 1]
    /\ handed' = [handed EXCEPT ![c.id] = @ + 1]
    /\ End(c)
    /\ UNCHANGED <<session, stale, chosen, linkVars>>

(* EmployeesService.resendActivationEmail, for an employee whose password  *)
(* is still the temporary one: a new temporary password, sessions kept.    *)
ResendActivationRead(r, u) ==
    /\ u \notin chosen
    /\ Begin([req |-> r, op |-> "resendActivation", user |-> u, at |-> "write"])
    /\ UNCHANGED sessionsVars

ResendActivationWrite(c) ==
    /\ At(c, "resendActivation", "write")
    /\ chosen' = chosen \ {c.user}
    /\ End(c)
    /\ UNCHANGED <<sessionVars, stale, linkVars>>

(* EmployersService.updateStatus, when it activates the employer of u,     *)
(* whenever that is (EmployerMembers): the same.                           *)
ActivateEmployer(u) ==
    /\ chosen' = chosen \ {u}
    /\ UNCHANGED <<sessionVars, stale, linkVars, calls>>

----------------------------------------------------------------------------
(* forgotPassword: one transaction marks the links it sees as used, *)
ForgotMark(r, u) ==
    /\ Begin([req |-> r, op |-> "forgot", user |-> u, at |-> "issue",
              seen |-> {k \in Link : LinkOf[k] = u /\ link[k] = "OPEN"}])
    /\ UNCHANGED sessionsVars

(* and commits them with a new one. *)
ForgotIssue(c, k) ==
    /\ At(c, "forgot", "issue")
    /\ LinkOf[k] = c.user
    /\ link[k] = "NONE"
    /\ link' = [j \in Link |-> IF j = k THEN "OPEN"
                               ELSE IF j \in c.seen THEN "USED" ELSE link[j]]
    /\ End(c)
    /\ UNCHANGED <<sessionVars, stale, chosen, uses>>

(* usedAt is not looked at. *)
ResetReadUsed(r, k) ==
    /\ link[k] \in {"OPEN", "USED"}
    /\ Begin([req |-> r, op |-> "reset", link |-> k, at |-> "write"])
    /\ UNCHANGED sessionsVars

(* resetPassword: the link is not used; *)
ResetRead(r, k) ==
    /\ link[k] = "OPEN"
    /\ Begin([req |-> r, op |-> "reset", link |-> k, at |-> "write"])
    /\ UNCHANGED sessionsVars

(* The sessions are left open. *)
ResetKeepsSessions(c) ==
    LET u == LinkOf[c.link]
    IN /\ At(c, "reset", "write")
       /\ link' = [link EXCEPT ![c.link] = "USED"]
       /\ uses' = [uses EXCEPT ![c.link] = @ + 1]
       /\ chosen' = chosen \cup {u}
       /\ stale' = stale \cup OpenOf(u)
       /\ calls' = Outdated(u, calls \ {c})
       /\ UNCHANGED sessionVars

(* then the password, the link and all sessions are written by id. *)
ResetWrite(c) ==
    LET u == LinkOf[c.link]
    IN /\ At(c, "reset", "write")
       /\ link' = [link EXCEPT ![c.link] = "USED"]
       /\ uses' = [uses EXCEPT ![c.link] = @ + 1]
       /\ chosen' = chosen \cup {u}
       /\ CloseAll(OpenOf(u))
       /\ calls' = Outdated(u, calls \ {c})

SessionsAbort(c) == End(c) /\ UNCHANGED sessionsVars

----------------------------------------------------------------------------
SignInSteps ==
    \/ \E r \in Request, u \in User : LoginRead(r, u) \/ ChangeRead(r, u)
    \/ \E r \in Request, s \in Session :
          RevokeRead(r, s) \/ RefreshRead(r, s) \/ RefreshRefused(r, s)
    \/ \E u \in User, ending \in SUBSET Session : Logout(u, ending)
    \/ \E c \in calls :
          \/ LoginRevoke(c) \/ RefreshRotate(c) \/ CloseWrite(c)
          \/ ChangeWrite(c) \/ IssueToken(c)
          \/ \E s \in Session : LoginOpen(c, s) \/ ChangeReopen(c, s)

PasswordSteps ==
    \/ \E r \in Request, u \in User : ResendActivationRead(r, u) \/ ForgotMark(r, u)
    \/ \E u \in User : ActivateEmployer(u)
    \/ \E r \in Request, k \in Link : ResetRead(r, k)
    \/ \E c \in calls :
          \/ ResendActivationWrite(c) \/ ResetWrite(c)
          \/ \E k \in Link : ForgotIssue(c, k)

SessionsNext ==
    \/ SignInSteps
    \/ PasswordSteps
    \/ \E s \in Session : CleanUp(s)
    \/ \E c \in calls : SessionsAbort(c)

SessionsSpec == SessionsInit /\ [][SessionsNext]_<<sessionsVars, calls>>

----------------------------------------------------------------------------
(* What a session is to its holder. *)
SessionState ==
    [s \in Session |-> CASE session[s] = "NONE" -> "absent"
                         [] session[s] = "OPEN" -> "live"
                         [] OTHER -> "dead"]

Contract == INSTANCE SessionContract WITH state <- SessionState

(* The sessions keep SessionContract: of two refreshes with one token the  *)
(* compare-and-set lets one through, a closed session is not refreshed by  *)
(* a handler that read it open, and no update reopens one.                 *)
KeepsSessionContract == Contract!Spec

(* Every login deactivates the sessions before it: a user has no more open *)
(* sessions than there are requests that could not see each other's.       *)
FewSessions == \A u \in User : Cardinality(OpenOf(u)) <= Cardinality(Request)

(* A password change or reset ends the user's sessions of the password     *)
(* before.  What stays open under the old one was opened by a login that   *)
(* compared it before the change and committed after, one per other        *)
(* request.                                                                *)
OldPasswordFades ==
    \A u \in User : Cardinality(OpenOf(u) \cap stale) < Cardinality(Request)

(* A reset link changes the password once, and once more for every other   *)
(* request that read it unused before the first had written.               *)
ResetOnce == \A k \in Link : uses[k] <= Cardinality(Request)
=============================================================================
