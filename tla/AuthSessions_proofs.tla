------------------------ MODULE AuthSessions_proofs -------------------------
(***************************************************************************)
(* The sessions of any users with any number of requests: the tokens of a  *)
(* session are handed out one by one, the sessions of a user are at most   *)
(* as many as the requests in flight, and those of a replaced password     *)
(* fewer, and a reset link works once for each request.                    *)
(***************************************************************************)
EXTENDS AuthSessions, Handlers_proofs

(* The handlers in flight, by what they were started for. *)
LEMMA CallsByOp ==
    ASSUME SessionsTypeOK, NEW c \in calls
    PROVE  /\ c.op = "login" => c \in LoginCall
           /\ c.op = "change" => c \in ChangeCall
           /\ c.op = "issue" => c \in IssueCall
           /\ c.op = "refresh" => c \in RefreshCall
           /\ c.op = "close" => c \in CloseCall
           /\ c.op = "forgot" => c \in ForgotCall
           /\ c.op = "reset" => c \in ResetCall
           /\ c.op = "resendActivation" => c \in ResendCall
           /\ c.req \in Request
BY DEF SessionsTypeOK, SessionsCall, LoginCall, ChangeCall, IssueCall, RefreshCall, CloseCall,
       ForgotCall, ResetCall, ResendCall

LEMMA ClosedTyped ==
    ASSUME SessionsTypeOK, NEW ending
    PROVE  Closed(ending) \in [Session -> {"NONE", "OPEN", "CLOSED", "GONE"}]
BY DEF SessionsTypeOK, Closed

(* A handler whose password may have been replaced is what it was otherwise. *)
SameButOld(d, e) ==
    /\ d.op = e.op /\ d.req = e.req /\ d.at = e.at
    /\ e.op \in {"login", "change"} => d.user = e.user
    /\ e.op = "login" => d.seen = e.seen
    /\ e.op \notin {"login", "change"} => d = e

LEMMA OutdatedCalls ==
    ASSUME SessionsTypeOK, NEW u, NEW others \in SUBSET calls, NEW d \in Outdated(u, others)
    PROVE  /\ d \in SessionsCall
           /\ \E e \in others :
                 /\ SameButOld(d, e)
                 /\ d = IF e.op \in {"login", "change"} /\ e.user = u
                        THEN [e EXCEPT !.old = TRUE] ELSE e
                 /\ e.op \in {"login", "change"} /\ d.old = FALSE => e.user # u /\ d = e
<1>1. PICK e \in others : d = IF e.op \in {"login", "change"} /\ e.user = u
                              THEN [e EXCEPT !.old = TRUE] ELSE e
  BY DEF Outdated
<1>2. CASE e.op = "login" /\ e.user = u
  <2>1. e \in LoginCall
    BY <1>2, CallsByOp
  <2>2. d = [e EXCEPT !.old = TRUE]
    BY <1>1, <1>2
  <2> QED BY <1>1, <1>2, <2>1, <2>2 DEF LoginCall, SessionsCall, SameButOld
<1>3. CASE e.op = "change" /\ e.user = u
  <2>1. e \in ChangeCall
    BY <1>3, CallsByOp
  <2>2. d = [e EXCEPT !.old = TRUE]
    BY <1>1, <1>3
  <2> QED BY <1>1, <1>3, <2>1, <2>2 DEF ChangeCall, SessionsCall, SameButOld
<1>4. CASE ~(e.op \in {"login", "change"} /\ e.user = u)
  BY <1>1, <1>4 DEF SessionsTypeOK, SameButOld
<1> QED BY <1>2, <1>3, <1>4

LEMMA OutdatedSame ==
    ASSUME SessionsTypeOK, NEW u, NEW others \in SUBSET calls, NEW d \in Outdated(u, others)
    PROVE  /\ d \in SessionsCall
           /\ \E e \in others : SameButOld(d, e) /\ (e.user # u => d = e)
<1>1. PICK e \in others : /\ SameButOld(d, e)
                         /\ d = IF e.op \in {"login", "change"} /\ e.user = u
                                THEN [e EXCEPT !.old = TRUE] ELSE e
  BY OutdatedCalls
<1>2. e.user # u => d = e
  BY <1>1
<1> QED BY <1>1, <1>2, OutdatedCalls, Zenon

----------------------------------------------------------------------------
(* Every table and every handler in flight stays in its type. *)
LEMMA SignInTyped ==
    ASSUME SessionsTypeOK, SignInSteps
    PROVE  SessionsTypeOK'
<1> USE DEF SessionsTypeOK, sessionsVars, sessionVars, linkVars
<1>1. ASSUME NEW r \in Request, NEW u \in User, LoginRead(r, u) \/ ChangeRead(r, u)
      PROVE  SessionsTypeOK'
  <2>1. /\ [req |-> r, op |-> "login", user |-> u, old |-> FALSE, seen |-> {},
            at |-> "revoke"] \in SessionsCall
        /\ [req |-> r, op |-> "change", user |-> u, old |-> FALSE, first |-> u \notin chosen,
            at |-> "write"] \in SessionsCall
    BY DEF SessionsCall, LoginCall, ChangeCall
  <2> QED BY <1>1, <2>1 DEF LoginRead, ChangeRead, Begin
<1>2. ASSUME NEW r \in Request, NEW s \in Session,
             RevokeRead(r, s) \/ RefreshRead(r, s) \/ RefreshRefused(r, s)
      PROVE  SessionsTypeOK'
  <2>1. /\ [req |-> r, op |-> "close", id |-> s, at |-> "write"] \in SessionsCall
        /\ token[s] \in 1..(MaxTokens - 1) =>
             [req |-> r, op |-> "refresh", id |-> s, token |-> token[s], at |-> "rotate"]
                 \in SessionsCall
    BY DEF SessionsCall, CloseCall, RefreshCall
  <2> QED BY <1>2, <2>1 DEF RevokeRead, RefreshRead, RefreshRefused, Begin
<1>3. ASSUME NEW u \in User, NEW ending \in SUBSET Session, Logout(u, ending)
      PROVE  SessionsTypeOK'
  BY <1>3, ClosedTyped DEF Logout, CloseAll
<1>4. ASSUME NEW c \in calls, LoginRevoke(c)
      PROVE  SessionsTypeOK'
  <2>1. c \in LoginCall
    BY <1>4, CallsByOp DEF LoginRevoke, At
  <2>2. [c EXCEPT !.seen = OpenOf(c.user), !.at = "open"] \in SessionsCall
    BY <2>1 DEF LoginCall, SessionsCall, OpenOf
  <2> QED BY <1>4, <2>2 DEF LoginRevoke, GoOn
<1>5. ASSUME NEW c \in calls, NEW s \in Session, LoginOpen(c, s)
      PROVE  SessionsTypeOK'
  BY <1>5, ClosedTyped, MaxTokensAssumption DEF LoginOpen, NewSession, End
<1>6. ASSUME NEW c \in calls, RefreshRotate(c)
      PROVE  SessionsTypeOK'
  <2>1. c \in RefreshCall
    BY <1>6, CallsByOp DEF RefreshRotate, At
  <2>2. c.id \in Session /\ c.token + 1 \in 0..MaxTokens
    BY <2>1, MaxTokensAssumption DEF RefreshCall
  <2> QED BY <1>6, <2>2 DEF RefreshRotate, End
<1>7. ASSUME NEW c \in calls, CloseWrite(c)
      PROVE  SessionsTypeOK'
  BY <1>7, ClosedTyped DEF CloseWrite, CloseAll, End
<1>8. ASSUME NEW c \in calls, ChangeWrite(c)
      PROVE  SessionsTypeOK'
  <2>1. c \in ChangeCall
    BY <1>8, CallsByOp DEF ChangeWrite, At
  <2>2. [c EXCEPT !.old = FALSE, !.at = "reopen"] \in SessionsCall /\ c.user \in User
    BY <2>1 DEF ChangeCall, SessionsCall
  <2>3. Outdated(c.user, calls \ {c}) \subseteq SessionsCall
    BY OutdatedCalls
  <2> QED BY <1>8, <2>2, <2>3, ClosedTyped DEF ChangeWrite, CloseAll
<1>9. ASSUME NEW c \in calls, NEW s \in Session, ChangeReopen(c, s)
      PROVE  SessionsTypeOK'
  <2>1. [req |-> c.req, op |-> "issue", id |-> s, at |-> "write"] \in SessionsCall
    BY CallsByOp DEF IssueCall, SessionsCall
  <2> QED BY <1>9, <2>1, ClosedTyped, MaxTokensAssumption DEF ChangeReopen, NewSession, GoOn
<1>10. ASSUME NEW c \in calls, IssueToken(c)
       PROVE  SessionsTypeOK'
  <2>1. c \in IssueCall
    BY <1>10, CallsByOp DEF IssueToken, At
  <2> QED BY <1>10, <2>1, MaxTokensAssumption DEF IssueToken, IssueCall, End
<1> QED BY <1>1, <1>2, <1>3, <1>4, <1>5, <1>6, <1>7, <1>8, <1>9, <1>10 DEF SignInSteps

LEMMA PasswordTyped ==
    ASSUME SessionsTypeOK, PasswordSteps
    PROVE  SessionsTypeOK'
<1> USE DEF SessionsTypeOK, sessionsVars, sessionVars, linkVars
<1>1. ASSUME NEW r \in Request, NEW u \in User, ResendActivationRead(r, u) \/ ForgotMark(r, u)
      PROVE  SessionsTypeOK'
  <2>1. /\ [req |-> r, op |-> "resendActivation", user |-> u, at |-> "write"] \in SessionsCall
        /\ [req |-> r, op |-> "forgot", user |-> u, at |-> "issue",
            seen |-> {k \in Link : LinkOf[k] = u /\ link[k] = "OPEN"}] \in SessionsCall
    BY DEF SessionsCall, ResendCall, ForgotCall
  <2> QED BY <1>1, <2>1 DEF ResendActivationRead, ForgotMark, Begin
<1>2. ASSUME NEW r \in Request, NEW k \in Link, ResetRead(r, k)
      PROVE  SessionsTypeOK'
  <2>1. [req |-> r, op |-> "reset", link |-> k, at |-> "write"] \in SessionsCall
    BY DEF SessionsCall, ResetCall
  <2> QED BY <1>2, <2>1 DEF ResetRead, Begin
<1>3. ASSUME \/ \E c \in calls : ResendActivationWrite(c)
             \/ \E u \in User : ActivateEmployer(u)
      PROVE  SessionsTypeOK'
  BY <1>3 DEF ResendActivationWrite, ActivateEmployer, End
<1>4. ASSUME NEW c \in calls, ResetWrite(c)
      PROVE  SessionsTypeOK'
  <2>1. c.link \in Link /\ LinkOf[c.link] \in User
    BY <1>4, CallsByOp, LinkOfAssumption DEF ResetWrite, At, ResetCall
  <2>2. Outdated(LinkOf[c.link], calls \ {c}) \subseteq SessionsCall
    BY OutdatedCalls
  <2>3. calls' \subseteq SessionsCall /\ link' = [link EXCEPT ![c.link] = "USED"]
        /\ uses' = [uses EXCEPT ![c.link] = @ + 1] /\ chosen' = chosen \cup {LinkOf[c.link]}
    BY <1>4, <2>2 DEF ResetWrite
  <2>4. /\ session' \in [Session -> {"NONE", "OPEN", "CLOSED", "GONE"}]
        /\ stale' \subseteq stale /\ token' = token /\ handed' = handed
    BY <1>4, ClosedTyped DEF ResetWrite, CloseAll
  <2> QED BY <2>1, <2>3, <2>4
<1>5. ASSUME NEW c \in calls, NEW k \in Link, ForgotIssue(c, k)
      PROVE  SessionsTypeOK'
  BY <1>5 DEF ForgotIssue, End
<1> QED BY <1>1, <1>2, <1>3, <1>4, <1>5 DEF PasswordSteps

LEMMA SessionsTyped ==
    ASSUME SessionsTypeOK, [SessionsNext]_<<sessionsVars, calls>>
    PROVE  SessionsTypeOK'
<1>1. ASSUME NEW s \in Session, CleanUp(s)
      PROVE  SessionsTypeOK'
  BY <1>1 DEF CleanUp, SessionsTypeOK, linkVars
<1>2. ASSUME NEW c \in calls, SessionsAbort(c)
      PROVE  SessionsTypeOK'
  BY <1>2 DEF SessionsAbort, End, SessionsTypeOK, sessionsVars, sessionVars, linkVars
<1>3. CASE UNCHANGED <<sessionsVars, calls>>
  BY <1>3 DEF SessionsTypeOK, sessionsVars, sessionVars, linkVars
<1> QED BY <1>1, <1>2, <1>3, SignInTyped, PasswordTyped DEF SessionsNext
----------------------------------------------------------------------------
(* The handlers serve requests of their own. *)
LEMMA OutdatedOneEach ==
    ASSUME SessionsTypeOK, OneEach(calls), NEW u, NEW others \in SUBSET calls
    PROVE  OneEach(Outdated(u, others))
<1>1. ASSUME NEW d \in Outdated(u, others)
      PROVE  d.req \in Request
  <2>1. PICK e \in others : SameButOld(d, e)
    BY <1>1, OutdatedSame
  <2> QED BY <2>1 DEF SameButOld, OneEach
<1>2. ASSUME NEW d1 \in Outdated(u, others), NEW d2 \in Outdated(u, others), d1.req = d2.req
      PROVE  d1 = d2
  <2>1. PICK e1 \in others : SameButOld(d1, e1)
                             /\ d1 = IF e1.op \in {"login", "change"} /\ e1.user = u
                                     THEN [e1 EXCEPT !.old = TRUE] ELSE e1
    BY OutdatedCalls
  <2>2. PICK e2 \in others : SameButOld(d2, e2)
                             /\ d2 = IF e2.op \in {"login", "change"} /\ e2.user = u
                                     THEN [e2 EXCEPT !.old = TRUE] ELSE e2
    BY OutdatedCalls
  <2>3. e1 = e2
    BY <1>2, <2>1, <2>2 DEF SameButOld, OneEach
  <2> QED BY <2>1, <2>2, <2>3
<1> QED BY <1>1, <1>2 DEF OneEach

LEMMA SessionsApart ==
    ASSUME SessionsTypeOK, OneEach(calls), [SessionsNext]_<<sessionsVars, calls>>
    PROVE  OneEach(calls')
<1>1. ASSUME NEW r \in Request,
             \/ \E u \in User : LoginRead(r, u) \/ ChangeRead(r, u)
             \/ \E s \in Session : RevokeRead(r, s) \/ RefreshRead(r, s) \/ RefreshRefused(r, s)
             \/ \E u \in User : ResendActivationRead(r, u) \/ ForgotMark(r, u)
             \/ \E k \in Link : ResetRead(r, k)
      PROVE  OneEach(calls')
  BY <1>1, BeginOneEach DEF LoginRead, ChangeRead, RevokeRead, RefreshRead, RefreshRefused,
                            ResendActivationRead, ForgotMark, ResetRead
<1>2. ASSUME NEW c \in calls,
             \/ RefreshRotate(c) \/ CloseWrite(c) \/ IssueToken(c) \/ SessionsAbort(c)
             \/ ResendActivationWrite(c) \/ \E k \in Link : ForgotIssue(c, k)
             \/ \E s \in Session : LoginOpen(c, s)
      PROVE  OneEach(calls')
  <2>1. calls' \subseteq calls
    BY <1>2 DEF RefreshRotate, CloseWrite, IssueToken, SessionsAbort, ResendActivationWrite,
                ForgotIssue, LoginOpen, End
  <2> QED BY <2>1, FewerOneEach
<1>3. ASSUME NEW c \in calls, LoginRevoke(c)
      PROVE  OneEach(calls')
  <2>1. c \in LoginCall
    BY <1>3, CallsByOp DEF LoginRevoke, At
  <2>2. [c EXCEPT !.seen = OpenOf(c.user), !.at = "open"].req = c.req
    BY <2>1 DEF LoginCall
  <2> QED BY <1>3, <2>2, GoOnOneEach DEF LoginRevoke
<1>4. ASSUME NEW c \in calls, NEW s \in Session, ChangeReopen(c, s)
      PROVE  OneEach(calls')
  BY <1>4, GoOnOneEach DEF ChangeReopen
<1>5. ASSUME NEW c \in calls, ChangeWrite(c)
      PROVE  OneEach(calls')
  <2> DEFINE others == Outdated(c.user, calls \ {c})
             next == [c EXCEPT !.old = FALSE, !.at = "reopen"]
  <2>1. next.req = c.req /\ c.req \in Request
    BY <1>5, CallsByOp DEF ChangeWrite, At, ChangeCall
  <2>2. OneEach(others)
    BY OutdatedOneEach
  <2>3. ASSUME NEW d \in others
        PROVE  d.req # c.req
    <3>1. PICK e \in calls \ {c} : SameButOld(d, e)
      BY OutdatedSame
    <3> QED BY <3>1 DEF SameButOld, OneEach
  <2>4. calls' \subseteq others \cup {next}
    BY <1>5 DEF ChangeWrite
  <2> QED BY <2>1, <2>2, <2>3, <2>4 DEF OneEach
<1>6. ASSUME NEW c \in calls, ResetWrite(c)
      PROVE  OneEach(calls')
  BY <1>6, OutdatedOneEach DEF ResetWrite
<1>7. CASE UNCHANGED calls
  BY <1>7
<1>8. ASSUME \/ \E u \in User, ending \in SUBSET Session : Logout(u, ending)
             \/ \E s \in Session : CleanUp(s)
             \/ \E u \in User : ActivateEmployer(u)
      PROVE  UNCHANGED calls
  BY <1>8 DEF Logout, CleanUp, ActivateEmployer
<1> QED BY <1>1, <1>2, <1>3, <1>4, <1>5, <1>6, <1>7, <1>8
        DEF SessionsNext, SignInSteps, PasswordSteps

----------------------------------------------------------------------------
(* A session that is still to get its token has none, and gets one. *)
IssuesSound ==
    /\ \A c \in calls : c.op = "issue" => session[c.id] # "NONE" /\ token[c.id] = 0
    /\ \A c, d \in calls : c.op = "issue" /\ d.op = "issue" /\ c.id = d.id => c = d

(* A handler that is about to open a session. *)
Opening(c) == At(c, "login", "open") \/ At(c, "change", "reopen")

(* The request that opened a session opens no other one of the user beside *)
(* it: its next login has seen the session, its next password change has   *)
(* closed it.                                                              *)
OpenedBy(by) ==
    /\ \A u \in User : \A s, t \in OpenOf(u) : by[s] = by[t] => s = t
    /\ \A c \in calls : Opening(c) =>
          \A s \in OpenOf(c.user) : by[s] = c.req => c.op = "login" /\ s \in c.seen

(* A request that has worked with the user's current password only, such   *)
(* as the one that changed it.                                             *)
UpToDate(q, u, by) ==
    /\ \A s \in OpenOf(u) \cap stale : by[s] # q
    /\ \A c \in calls : c.op \in {"login", "change"} /\ c.user = u /\ c.req = q => ~c.old

SessionsTold ==
    /\ \A s \in stale : session[s] # "NONE"
    /\ \E by \in [Session -> Request] :
          OpenedBy(by) /\ \A u \in User : \E q \in Request : UpToDate(q, u, by)

(* The resets that were done with a link and those about to be. *)
Resets(k) == {c \in calls : c.op = "reset" /\ c.link = k}

ResetsCounted ==
    \A k \in Link :
        /\ link[k] # "USED" => uses[k] = 0
        /\ uses[k] + Cardinality(Resets(k)) <= Cardinality(Request)

SessionsInv ==
    SessionsTypeOK /\ OneEach(calls) /\ IssuesSound /\ SessionsTold /\ ResetsCounted

LEMMA InitSessionsInv == SessionsInit => SessionsInv
<1> SUFFICES ASSUME SessionsInit PROVE SessionsInv
  OBVIOUS
<1> USE DEF SessionsInit
<1>1. SessionsTypeOK
  BY MaxTokensAssumption DEF SessionsTypeOK
<1>2. OneEach(calls) /\ IssuesSound
  BY DEF OneEach, IssuesSound
<1>3. SessionsTold
  <2>1. PICK q \in Request : TRUE
    BY RequestAssumption
  <2> DEFINE by == [s \in Session |-> q]
  <2>2. by \in [Session -> Request] /\ OpenedBy(by)
    BY DEF OpenedBy, OpenOf
  <2>3. \A u \in User : UpToDate(q, u, by)
    BY DEF UpToDate
  <2> QED BY <2>2, <2>3 DEF SessionsTold
<1>4. ResetsCounted
  <2>1. \A k \in Link : Resets(k) = {} /\ uses[k] = 0
    BY DEF Resets
  <2>2. Cardinality({}) = 0 /\ 0 + 0 <= Cardinality(Request)
    BY FS_EmptySet, RequestsNumber
  <2> QED BY <2>1, <2>2 DEF ResetsCounted
<1> QED BY <1>1, <1>2, <1>3, <1>4 DEF SessionsInv

----------------------------------------------------------------------------
(* Which sessions are open and which are there after some were closed. *)
LEMMA ClosedSessions ==
    ASSUME SessionsTypeOK, NEW ending, NEW s \in Session
    PROVE  /\ Closed(ending)[s] = "OPEN" <=> session[s] = "OPEN" /\ s \notin ending
           /\ Closed(ending)[s] = "NONE" <=> session[s] = "NONE"
BY DEF SessionsTypeOK, Closed

(* Steps that start no session, *)
OnlyEnding ==
    /\ \A s \in Session : session'[s] = "OPEN" => session[s] = "OPEN"
    /\ \A s \in Session : session'[s] = "NONE" <=> session[s] = "NONE"
    /\ stale' \subseteq stale

(* and neither give one a token nor make a reset. *)
Settling == OnlyEnding /\ token' = token /\ uses' = uses

(* Handlers that start, go on or end without a session or a reset at stake. *)
OrdinaryCalls ==
    \A d \in calls' :
        \/ d \in calls
        \/ /\ d.op \notin {"issue", "reset"}
           /\ ~ Opening(d)
           /\ d.op \in {"login", "change"} => d.old = FALSE

LEMMA SettlingSteps ==
    ASSUME SessionsTypeOK,
           \/ \E r \in Request, u \in User :
                 LoginRead(r, u) \/ ChangeRead(r, u) \/ ResendActivationRead(r, u) \/ ForgotMark(r, u)
           \/ \E r \in Request, s \in Session :
                 RevokeRead(r, s) \/ RefreshRead(r, s) \/ RefreshRefused(r, s)
           \/ \E u \in User, ending \in SUBSET Session : Logout(u, ending)
           \/ \E u \in User : ActivateEmployer(u)
           \/ \E c \in calls : CloseWrite(c) \/ ResendActivationWrite(c) \/ SessionsAbort(c)
                               \/ \E k \in Link : ForgotIssue(c, k)
           \/ \E s \in Session : CleanUp(s)
           \/ UNCHANGED <<sessionsVars, calls>>
    PROVE  Settling /\ OrdinaryCalls
<1> USE DEF sessionsVars, sessionVars, linkVars, OnlyEnding
<1>1. ASSUME NEW r \in Request, NEW u \in User,
             LoginRead(r, u) \/ ChangeRead(r, u) \/ ResendActivationRead(r, u) \/ ForgotMark(r, u)
      PROVE  Settling /\ OrdinaryCalls
  <2>1. Settling
    BY <1>1 DEF LoginRead, ChangeRead, ResendActivationRead, ForgotMark, Settling
  <2>2. OrdinaryCalls
    BY <1>1 DEF LoginRead, ChangeRead, ResendActivationRead, ForgotMark, Begin, OrdinaryCalls,
                Opening, At
  <2> QED BY <2>1, <2>2
<1>2. ASSUME NEW r \in Request, NEW s \in Session,
             RevokeRead(r, s) \/ RefreshRead(r, s) \/ RefreshRefused(r, s)
      PROVE  Settling /\ OrdinaryCalls
  BY <1>2 DEF RevokeRead, RefreshRead, RefreshRefused, Begin, Settling, OrdinaryCalls, Opening, At
<1>3. ASSUME \/ \E u \in User, ending \in SUBSET Session : Logout(u, ending)
             \/ \E c \in calls : CloseWrite(c)
      PROVE  Settling /\ OrdinaryCalls
  <2>1. PICK ending : CloseAll(ending)
    BY <1>3 DEF Logout, CloseWrite
  <2>2. calls' \subseteq calls /\ uses' = uses
    BY <1>3 DEF Logout, CloseWrite, End
  <2>3. Settling
    BY <2>1, <2>2, ClosedSessions DEF CloseAll, Settling
  <2> QED BY <2>2, <2>3 DEF OrdinaryCalls
<1>4. ASSUME NEW c \in calls,
             ResendActivationWrite(c) \/ SessionsAbort(c) \/ \E k \in Link : ForgotIssue(c, k)
      PROVE  Settling /\ OrdinaryCalls
  BY <1>4 DEF ResendActivationWrite, SessionsAbort, ForgotIssue, End, Settling, OrdinaryCalls
<1>5. ASSUME NEW s \in Session, CleanUp(s)
      PROVE  Settling /\ OrdinaryCalls
  BY <1>5 DEF CleanUp, Settling, OrdinaryCalls, SessionsTypeOK
<1>6. CASE UNCHANGED <<sessionsVars, calls>>
  BY <1>6 DEF Settling, OrdinaryCalls
<1>7. ASSUME NEW u \in User, ActivateEmployer(u)
      PROVE  Settling /\ OrdinaryCalls
  BY <1>7 DEF ActivateEmployer, Settling, OrdinaryCalls
<1> QED BY <1>1, <1>2, <1>3, <1>4, <1>5, <1>6, <1>7

----------------------------------------------------------------------------
(* A session that is still to get its token keeps waiting for it. *)
LEMMA IssuesStay ==
    ASSUME SessionsTypeOK, IssuesSound,
           \A s \in Session : session[s] # "NONE" =>
               session'[s] # "NONE" /\ (token[s] = 0 => token'[s] = 0),
           \A d \in calls' : d.op = "issue" => d \in calls
    PROVE  IssuesSound'
<1>1. \A c \in calls : c.op = "issue" => c.id \in Session
  BY CallsByOp DEF IssueCall
<1> QED BY <1>1 DEF IssuesSound

LEMMA IssuesKeep ==
    ASSUME SessionsInv, [SessionsNext]_<<sessionsVars, calls>>
    PROVE  IssuesSound'
<1> USE DEF SessionsInv
<1>1. ASSUME Settling, OrdinaryCalls
      PROVE  IssuesSound'
  BY <1>1, IssuesStay DEF Settling, OnlyEnding, OrdinaryCalls
<1>2. ASSUME NEW c \in calls, LoginRevoke(c)
      PROVE  IssuesSound'
  <2>1. c \in LoginCall
    BY <1>2, CallsByOp DEF LoginRevoke, At
  <2>2. [c EXCEPT !.seen = OpenOf(c.user), !.at = "open"].op = "login"
    BY <2>1 DEF LoginCall
  <2> QED BY <1>2, <2>2, IssuesStay DEF LoginRevoke, GoOn, sessionsVars, sessionVars
<1>3. ASSUME NEW c \in calls, NEW s \in Session, LoginOpen(c, s)
      PROVE  IssuesSound'
  <2>1. /\ session' = [Closed(c.seen) EXCEPT ![s] = "OPEN"] /\ session[s] = "NONE"
        /\ token' = [token EXCEPT ![s] = 1] /\ calls' \subseteq calls
    BY <1>3 DEF LoginOpen, NewSession, End
  <2> QED BY <2>1, ClosedTyped, ClosedSessions, IssuesStay DEF SessionsTypeOK
<1>4. ASSUME NEW c \in calls, NEW s \in Session, ChangeReopen(c, s)
      PROVE  IssuesSound'
  <2> DEFINE new == [req |-> c.req, op |-> "issue", id |-> s, at |-> "write"]
  <2>1. /\ session' = [Closed({}) EXCEPT ![s] = "OPEN"] /\ session[s] = "NONE"
        /\ token' = [token EXCEPT ![s] = 0] /\ calls' \subseteq calls \cup {new}
    BY <1>4 DEF ChangeReopen, NewSession, GoOn
  <2>2. \A d \in calls : d.op = "issue" => d.id \in Session /\ d.id # s
    BY <2>1, CallsByOp DEF IssueCall, IssuesSound
  <2>3. \A t \in Session : session[t] # "NONE" => session'[t] # "NONE" /\ token'[t] = token[t]
    BY <2>1, ClosedTyped, ClosedSessions DEF SessionsTypeOK
  <2>4. session'[s] = "OPEN" /\ token'[s] = 0
    BY <2>1, ClosedTyped DEF SessionsTypeOK
  <2> QED BY <2>1, <2>2, <2>3, <2>4 DEF IssuesSound
<1>5. ASSUME NEW c \in calls, RefreshRotate(c)
      PROVE  IssuesSound'
  <2>1. c.id \in Session /\ c.token > 0
    BY <1>5, CallsByOp, MaxTokensAssumption DEF RefreshRotate, At, RefreshCall
  <2>2. /\ session' = session /\ calls' \subseteq calls /\ token[c.id] = c.token
        /\ token' = [token EXCEPT ![c.id] = c.token + 1]
    BY <1>5 DEF RefreshRotate, End
  <2> QED BY <2>1, <2>2, IssuesStay DEF SessionsTypeOK
<1>6. ASSUME NEW c \in calls, IssueToken(c)
      PROVE  IssuesSound'
  <2>1. /\ c.op = "issue" /\ session' = session /\ calls' = calls \ {c}
        /\ token' = [token EXCEPT ![c.id] = 1]
    BY <1>6 DEF IssueToken, At, End
  <2>2. \A d \in calls' : d.op = "issue" => d.id \in Session /\ d.id # c.id
    BY <2>1, CallsByOp DEF IssueCall, IssuesSound
  <2> QED BY <2>1, <2>2 DEF IssuesSound, SessionsTypeOK
<1>7. ASSUME NEW c \in calls, ChangeWrite(c)
      PROVE  IssuesSound'
  <2>1. c \in ChangeCall
    BY <1>7, CallsByOp DEF ChangeWrite, At
  <2>2. [c EXCEPT !.old = FALSE, !.at = "reopen"].op = "change"
    BY <2>1 DEF ChangeCall
  <2>3. \A d \in Outdated(c.user, calls \ {c}) : d.op = "issue" => d \in calls
    <3> TAKE d \in Outdated(c.user, calls \ {c})
    <3>1. PICK e \in calls \ {c} : SameButOld(d, e)
      BY OutdatedSame
    <3> QED BY <3>1 DEF SameButOld
  <2>4. \A d \in calls' : d.op = "issue" => d \in calls
    BY <1>7, <2>2, <2>3 DEF ChangeWrite
  <2>5. session' = Closed(OpenOf(c.user)) /\ token' = token
    BY <1>7 DEF ChangeWrite, CloseAll
  <2> QED BY <2>4, <2>5, ClosedSessions, IssuesStay
<1>8. ASSUME NEW c \in calls, ResetWrite(c)
      PROVE  IssuesSound'
  <2>1. \A d \in calls' : d.op = "issue" => d \in calls
    <3> TAKE d \in calls'
    <3>1. d \in Outdated(LinkOf[c.link], calls \ {c})
      BY <1>8 DEF ResetWrite
    <3>2. PICK e \in calls \ {c} : SameButOld(d, e)
      BY <3>1, OutdatedSame
    <3> QED BY <3>2 DEF SameButOld
  <2>2. session' = Closed(OpenOf(LinkOf[c.link])) /\ token' = token
    BY <1>8 DEF ResetWrite, CloseAll
  <2> QED BY <2>1, <2>2, ClosedSessions, IssuesStay
<1>9. ASSUME NEW r \in Request, NEW k \in Link, ResetRead(r, k)
      PROVE  IssuesSound'
  BY <1>9, IssuesStay DEF ResetRead, Begin, sessionsVars, sessionVars
<1> QED BY <1>1, <1>2, <1>3, <1>4, <1>5, <1>6, <1>7, <1>8, <1>9, SettlingSteps
        DEF SessionsNext, SignInSteps, PasswordSteps
----------------------------------------------------------------------------
(* Handlers that remember what they remembered tell their sessions apart   *)
(* as before.                                                              *)
LEMMA ToldStays ==
    ASSUME SessionsTypeOK, SessionsTold, OnlyEnding,
           \A d \in calls' :
               \/ Opening(d) => d \in calls
               \/ d.op = "login" /\ d.seen = OpenOf(d.user),
           \A d \in calls' : d.op \in {"login", "change"} =>
               \/ d.old = FALSE
               \/ \E e \in calls : e.op \in {"login", "change"} /\ e.old /\ e.user = d.user
                                   /\ e.req = d.req
    PROVE  SessionsTold'
<1>1. \A u \in User : OpenOf(u)' \subseteq OpenOf(u)
  BY DEF OpenOf, OnlyEnding
<1>2. PICK by \in [Session -> Request] :
          OpenedBy(by) /\ \A u \in User : \E q \in Request : UpToDate(q, u, by)
  BY DEF SessionsTold
<1>3. \A c \in calls : Opening(c) => c.user \in User
  BY CallsByOp DEF Opening, At, LoginCall, ChangeCall
<1>4. OpenedBy(by)'
  BY <1>1, <1>2, <1>3 DEF OpenedBy, OpenOf, Opening, OnlyEnding
<1>5. \A u \in User, q \in Request : UpToDate(q, u, by) => UpToDate(q, u, by)'
  BY <1>1 DEF UpToDate, OnlyEnding
<1>6. \A s \in stale' : session'[s] # "NONE"
  BY DEF SessionsTold, OnlyEnding, SessionsTypeOK
<1> QED BY <1>2, <1>4, <1>5, <1>6 DEF SessionsTold

(* A handler opens a session: it is the one its request has. *)
LEMMA ToldOpens ==
    ASSUME SessionsTypeOK, OneEach(calls), SessionsTold,
           NEW c \in calls, Opening(c), NEW s \in Session, NEW n, SessionOf[s] = c.user,
           NEW ending, NewSession(s, n, ending, c.old),
           c.op = "login" => ending = c.seen,
           \A d \in calls' : d \in calls \ {c} \/ d.op = "issue"
    PROVE  SessionsTold'
<1>1. PICK by \in [Session -> Request] :
          OpenedBy(by) /\ \A u \in User : \E q \in Request : UpToDate(q, u, by)
  BY DEF SessionsTold
<1> DEFINE by2 == [by EXCEPT ![s] = c.req]
<1>2. c.user \in User /\ c.req \in Request /\ (c.op = "login" \/ c.op = "change")
  BY CallsByOp DEF Opening, At, LoginCall, ChangeCall
<1>3. /\ session[s] = "NONE" /\ session'[s] = "OPEN"
      /\ \A t \in Session \ {s} : session'[t] = "OPEN" <=> session[t] = "OPEN" /\ t \notin ending
      /\ \A t \in Session : session[t] # "NONE" => session'[t] # "NONE"
  BY ClosedSessions, ClosedTyped DEF NewSession, SessionsTypeOK
<1>4. stale' \subseteq (stale \ ending) \cup {s} /\ (s \in stale' => c.old)
  BY <1>3 DEF NewSession, SessionsTold
<1>5. /\ by2 \in [Session -> Request] /\ by2[s] = c.req
      /\ \A t \in Session \ {s} : by2[t] = by[t]
  BY <1>2
<1>6. \A t \in OpenOf(c.user) : by[t] = c.req => c.op = "login" /\ t \in ending
  BY <1>1 DEF OpenedBy
<1>7. \A u \in User : \A t \in OpenOf(u)' : t = s \/ t \in OpenOf(u)
  BY <1>3 DEF OpenOf
<1>8. OpenedBy(by2)'
  <2>1. ASSUME NEW u \in User, NEW t1 \in OpenOf(u)', NEW t2 \in OpenOf(u)', by2[t1] = by2[t2]
        PROVE  t1 = t2
    <3>1. t1 # s /\ t2 # s => t1 = t2
      BY <1>1, <1>5, <1>7, <2>1 DEF OpenedBy, OpenOf
    <3>2. ASSUME NEW t \in OpenOf(u)', s \in OpenOf(u)', t # s
          PROVE  by2[t] # by2[s]
      <4>1. t \in OpenOf(c.user) /\ t \notin ending
        BY <1>3, <3>2 DEF OpenOf
      <4> QED BY <1>5, <1>6, <4>1, <3>2 DEF OpenOf
    <3> QED BY <2>1, <3>1, <3>2
  <2>2. ASSUME NEW d \in calls', Opening(d), NEW t \in OpenOf(d.user)', by2[t] = d.req
        PROVE  d.op = "login" /\ t \in d.seen
    <3>1. d \in calls \ {c}
      BY <2>2 DEF Opening, At
    <3>2. d.user \in User /\ d.req # c.req
      BY <3>1, <2>2, CallsByOp DEF Opening, At, LoginCall, ChangeCall, OneEach
    <3>3. t # s /\ t \in OpenOf(d.user)
      BY <1>5, <1>7, <2>2, <3>2
    <3> QED BY <1>1, <1>5, <2>2, <3>1, <3>3 DEF OpenedBy, OpenOf
  <2> QED BY <2>1, <2>2 DEF OpenedBy, Opening
<1>9. ASSUME NEW u \in User, NEW q \in Request, UpToDate(q, u, by)
      PROVE  UpToDate(q, u, by2)'
  <2>1. ASSUME NEW t \in OpenOf(u)' \cap stale'
        PROVE  by2[t] # q
    <3>1. CASE t = s
      <4>1. u = c.user /\ c.old
        BY <1>4, <3>1 DEF OpenOf
      <4> QED BY <1>2, <1>5, <1>9, <3>1, <4>1 DEF UpToDate
    <3>2. CASE t # s
      BY <1>4, <1>5, <1>7, <1>9, <3>2 DEF UpToDate, OpenOf
    <3> QED BY <3>1, <3>2
  <2>2. \A d \in calls' : d.op \in {"login", "change"} /\ d.user = u /\ d.req = q => ~d.old
    BY <1>9 DEF UpToDate
  <2> QED BY <2>1, <2>2 DEF UpToDate
<1>10. \A t \in stale' : session'[t] # "NONE"
  BY <1>3, <1>4 DEF SessionsTold, SessionsTypeOK
<1> QED BY <1>1, <1>5, <1>8, <1>9, <1>10 DEF SessionsTold

(* A password is replaced: the user has no sessions, and the request that  *)
(* replaced it is the one that is up to date.                              *)
LEMMA ToldReplaced ==
    ASSUME SessionsTypeOK, OneEach(calls), SessionsTold,
           NEW c \in calls, NEW u \in User, CloseAll(OpenOf(u)),
           \A d \in calls' :
               \/ d \in Outdated(u, calls \ {c})
               \/ d.op = "change" /\ d.user = u /\ d.req = c.req /\ d.old = FALSE
    PROVE  SessionsTold'
<1>1. PICK by \in [Session -> Request] :
          OpenedBy(by) /\ \A v \in User : \E q \in Request : UpToDate(q, v, by)
  BY DEF SessionsTold
<1>2. /\ \A s \in Session : session'[s] = "OPEN" <=> session[s] = "OPEN" /\ s \notin OpenOf(u)
      /\ \A s \in Session : session'[s] = "NONE" <=> session[s] = "NONE"
  BY ClosedSessions DEF CloseAll
<1>3. OpenOf(u)' = {} /\ \A v \in User : OpenOf(v)' \subseteq OpenOf(v)
  BY <1>2 DEF OpenOf
<1>4. \A d \in calls' : \/ \E e \in calls \ {c} : SameButOld(d, e)
                        \/ d.op = "change" /\ d.user = u /\ d.req = c.req /\ d.old = FALSE
  BY OutdatedSame
<1>5. OpenedBy(by)'
  <2>1. ASSUME NEW d \in calls', Opening(d), NEW s \in OpenOf(d.user)', by[s] = d.req
        PROVE  d.op = "login" /\ s \in d.seen
    <3>1. d.user # u
      BY <1>3
    <3>2. PICK e \in calls : SameButOld(d, e)
      BY <1>4, <3>1
    <3>3. Opening(e) /\ e.user = d.user /\ e.req = d.req /\ e.op = d.op
          /\ (e.op = "login" => e.seen = d.seen)
      BY <2>1, <3>2 DEF Opening, At, SameButOld
    <3>4. e.user \in User
      BY <3>3, CallsByOp DEF Opening, At, LoginCall, ChangeCall
    <3> QED BY <1>1, <1>3, <2>1, <3>3, <3>4 DEF OpenedBy
  <2> QED BY <1>1, <1>3, <2>1 DEF OpenedBy, Opening
<1>6. UpToDate(c.req, u, by)'
  <2>1. \A d \in Outdated(u, calls \ {c}) : d.req # c.req
    <3> TAKE d \in Outdated(u, calls \ {c})
    <3>1. PICK e \in calls \ {c} : SameButOld(d, e)
      BY OutdatedSame
    <3> QED BY <3>1 DEF SameButOld, OneEach
  <2> QED BY <1>3, <2>1 DEF UpToDate
<1>7. ASSUME NEW v \in User \ {u}, NEW q \in Request, UpToDate(q, v, by)
      PROVE  UpToDate(q, v, by)'
  <2>1. ASSUME NEW d \in calls', d.op \in {"login", "change"}, d.user = v, d.req = q
        PROVE  ~d.old
    <3>1. d \in Outdated(u, calls \ {c})
      BY <2>1, <1>7
    <3>2. PICK e \in calls \ {c} : SameButOld(d, e) /\ (e.user # u => d = e)
      BY <3>1, OutdatedSame
    <3>3. e.user = v
      BY <2>1, <3>2 DEF SameButOld
    <3>4. d = e
      BY <3>2, <3>3
    <3> QED BY <1>7, <2>1, <3>4 DEF UpToDate
  <2>2. stale' \subseteq stale
    BY DEF CloseAll
  <2> QED BY <1>3, <1>7, <2>1, <2>2 DEF UpToDate
<1>8. c.req \in Request
  BY CallsByOp
<1>9. \A s \in stale' : session'[s] # "NONE"
  BY <1>2 DEF CloseAll, SessionsTold, SessionsTypeOK
<1> QED BY <1>1, <1>5, <1>6, <1>7, <1>8, <1>9 DEF SessionsTold

LEMMA ToldKeeps ==
    ASSUME SessionsInv, [SessionsNext]_<<sessionsVars, calls>>
    PROVE  SessionsTold'
<1> USE DEF SessionsInv
<1>1. ASSUME OnlyEnding, OrdinaryCalls
      PROVE  SessionsTold'
  <2>1. \A d \in calls' : Opening(d) => d \in calls
    BY <1>1 DEF OrdinaryCalls
  <2>2. \A d \in calls : d.op \in {"login", "change"} => d.old \in BOOLEAN
    BY CallsByOp DEF LoginCall, ChangeCall
  <2> QED BY <1>1, <2>1, <2>2, ToldStays DEF OrdinaryCalls
<1>2. ASSUME NEW c \in calls, LoginRevoke(c)
      PROVE  SessionsTold'
  <2> DEFINE new == [c EXCEPT !.seen = OpenOf(c.user), !.at = "open"]
  <2>1. c \in LoginCall
    BY <1>2, CallsByOp DEF LoginRevoke, At
  <2>2. /\ new.op = "login" /\ new.seen = OpenOf(c.user) /\ new.user = c.user
        /\ new.old = c.old /\ new.req = c.req /\ c.old \in BOOLEAN /\ c.op = "login"
    BY <2>1 DEF LoginCall
  <2>3. \A d \in calls' : d \in calls \/ d = new
    BY <1>2 DEF LoginRevoke, GoOn
  <2>4. \A d \in calls : d.op \in {"login", "change"} => d.old \in BOOLEAN
    BY CallsByOp DEF LoginCall, ChangeCall
  <2>5. OnlyEnding
    BY <1>2 DEF LoginRevoke, OnlyEnding, sessionsVars, sessionVars
  <2> HIDE DEF new
  <2>6. \A d \in calls' : \/ Opening(d) => d \in calls
                          \/ d.op = "login" /\ d.seen = OpenOf(d.user)
    BY <2>2, <2>3
  <2>7. \A d \in calls' : d.op \in {"login", "change"} =>
            \/ d.old = FALSE
            \/ \E e \in calls : e.op \in {"login", "change"} /\ e.old /\ e.user = d.user
                                /\ e.req = d.req
    BY <2>2, <2>3, <2>4
  <2> QED BY <2>5, <2>6, <2>7, ToldStays
<1>3. ASSUME NEW c \in calls, NEW s \in Session, LoginOpen(c, s)
      PROVE  SessionsTold'
  BY <1>3, ToldOpens DEF LoginOpen, Opening, At, End
<1>4. ASSUME NEW c \in calls, NEW s \in Session, ChangeReopen(c, s)
      PROVE  SessionsTold'
  <2>1. \A d \in calls' : d \in calls \ {c} \/ d.op = "issue"
    BY <1>4 DEF ChangeReopen, GoOn
  <2>2. c.op # "login" /\ Opening(c) /\ SessionOf[s] = c.user /\ NewSession(s, 0, {}, c.old)
    BY <1>4 DEF ChangeReopen, Opening, At
  <2> QED BY <2>1, <2>2, ToldOpens
<1>5. ASSUME NEW c \in calls, RefreshRotate(c) \/ IssueToken(c)
      PROVE  SessionsTold'
  BY <1>1, <1>5 DEF RefreshRotate, IssueToken, End, OnlyEnding, OrdinaryCalls
<1>6. ASSUME NEW c \in calls, ChangeWrite(c)
      PROVE  SessionsTold'
  <2> DEFINE new == [c EXCEPT !.old = FALSE, !.at = "reopen"]
  <2>1. c \in ChangeCall
    BY <1>6, CallsByOp DEF ChangeWrite, At
  <2>2. new.op = "change" /\ new.user = c.user /\ new.req = c.req /\ new.old = FALSE
        /\ c.user \in User
    BY <2>1 DEF ChangeCall
  <2>3. \A d \in calls' : d \in Outdated(c.user, calls \ {c}) \/ d = new
    BY <1>6 DEF ChangeWrite
  <2>4. CloseAll(OpenOf(c.user))
    BY <1>6 DEF ChangeWrite
  <2> HIDE DEF new
  <2> QED BY <2>2, <2>3, <2>4, ToldReplaced
<1>7. ASSUME NEW c \in calls, ResetWrite(c)
      PROVE  SessionsTold'
  <2>1. LinkOf[c.link] \in User
    BY <1>7, CallsByOp, LinkOfAssumption DEF ResetWrite, At, ResetCall
  <2>2. CloseAll(OpenOf(LinkOf[c.link])) /\ calls' = Outdated(LinkOf[c.link], calls \ {c})
    BY <1>7 DEF ResetWrite
  <2> QED BY <2>1, <2>2, ToldReplaced
<1>8. ASSUME NEW r \in Request, NEW k \in Link, ResetRead(r, k)
      PROVE  SessionsTold'
  <2>1. OnlyEnding
    BY <1>8 DEF ResetRead, OnlyEnding, sessionsVars, sessionVars
  <2>2. \A d \in calls' : d \in calls \/ d.op = "reset"
    BY <1>8 DEF ResetRead, Begin
  <2>3. \A d \in calls' : Opening(d) => d \in calls
    BY <2>2 DEF Opening, At
  <2>4. \A d \in calls : d.op \in {"login", "change"} => d.old \in BOOLEAN
    BY CallsByOp DEF LoginCall, ChangeCall
  <2> QED BY <2>1, <2>2, <2>3, <2>4, ToldStays
<1> QED BY <1>1, <1>2, <1>3, <1>4, <1>5, <1>6, <1>7, <1>8, SettlingSteps
        DEF SessionsNext, SignInSteps, PasswordSteps, Settling

----------------------------------------------------------------------------
(* A reset link is used by its resets only, and by each of them once. *)
LEMMA ResetsStay ==
    ASSUME SessionsTypeOK, OneEach(calls), ResetsCounted, uses' = uses,
           \A k \in Link : link'[k] # "USED" => link[k] # "USED",
           \A d \in calls' : d.op = "reset" => d \in calls
    PROVE  ResetsCounted'
<1> SUFFICES ASSUME NEW k \in Link
             PROVE  /\ link'[k] # "USED" => uses[k] = 0
                    /\ uses[k] + Cardinality(Resets(k)') <= Cardinality(Request)
  BY DEF ResetsCounted
<1>1. Resets(k)' \subseteq Resets(k) /\ Resets(k) \subseteq calls
  BY DEF Resets
<1>2. IsFiniteSet(Resets(k)) /\ Cardinality(Resets(k)) \in Nat
  BY <1>1, HandlersCount
<1>3. Cardinality(Resets(k)') \in Nat /\ Cardinality(Resets(k)') <= Cardinality(Resets(k))
  BY <1>1, <1>2, FS_Subset, FS_CardinalityType
<1>4. uses[k] \in Nat /\ uses[k] + Cardinality(Resets(k)) <= Cardinality(Request)
  BY DEF ResetsCounted, SessionsTypeOK
<1>5. link'[k] # "USED" => uses[k] = 0
  BY DEF ResetsCounted
<1> QED BY <1>2, <1>3, <1>4, <1>5, RequestsNumber

LEMMA ResetsKeep ==
    ASSUME SessionsInv, [SessionsNext]_<<sessionsVars, calls>>
    PROVE  ResetsCounted'
<1> USE DEF SessionsInv, sessionsVars, sessionVars, linkVars
<1>1. ASSUME UNCHANGED linkVars, \A d \in calls' : d.op = "reset" => d \in calls
      PROVE  ResetsCounted'
  BY <1>1, ResetsStay
<1>2. ASSUME NEW c \in calls, NEW k \in Link, ForgotIssue(c, k)
      PROVE  ResetsCounted'
  <2>1. /\ link[k] = "NONE" /\ uses' = uses /\ calls' \subseteq calls
        /\ link' = [j \in Link |-> IF j = k THEN "OPEN"
                                   ELSE IF j \in c.seen THEN "USED" ELSE link[j]]
    BY <1>2 DEF ForgotIssue, End
  <2> QED BY <2>1, ResetsStay
<1>3. ASSUME NEW r \in Request, NEW k \in Link, ResetRead(r, k)
      PROVE  ResetsCounted'
  <2> DEFINE new == [req |-> r, op |-> "reset", link |-> k, at |-> "write"]
  <2>1. link[k] = "OPEN" /\ UNCHANGED linkVars /\ calls' = calls \cup {new}
    BY <1>3 DEF ResetRead, Begin
  <2>2. OneEach(calls')
    BY SessionsApart
  <2>3. ASSUME NEW j \in Link, j # k
        PROVE  Resets(j)' = Resets(j)
    BY <2>1, <2>3 DEF Resets
  <2>4. Resets(k)' \subseteq calls'
    BY DEF Resets
  <2>5. Cardinality(Resets(k)') \in Nat /\ Cardinality(Resets(k)') <= Cardinality(Request)
    BY <2>2, <2>4, HandlersCount
  <2>6. uses[k] = 0
    BY <2>1 DEF ResetsCounted
  <2>7. uses[k] + Cardinality(Resets(k)') <= Cardinality(Request)
    BY <2>5, <2>6, RequestsNumber
  <2> QED BY <2>1, <2>3, <2>7 DEF ResetsCounted
<1>4. ASSUME NEW c \in calls, ResetWrite(c)
      PROVE  ResetsCounted'
  <2>1. c.link \in Link /\ c.op = "reset"
    BY <1>4, CallsByOp DEF ResetWrite, At, ResetCall
  <2>2. /\ link' = [link EXCEPT ![c.link] = "USED"] /\ uses' = [uses EXCEPT ![c.link] = @ + 1]
        /\ calls' = Outdated(LinkOf[c.link], calls \ {c})
    BY <1>4 DEF ResetWrite
  <2>3. \A d \in calls' : d.op = "reset" => d \in calls \ {c}
    <3> TAKE d \in calls'
    <3>1. PICK e \in calls \ {c} : SameButOld(d, e)
      BY <2>2, OutdatedSame
    <3> QED BY <3>1 DEF SameButOld
  <2>4. ASSUME NEW k \in Link
        PROVE  /\ link'[k] # "USED" => uses'[k] = 0
               /\ uses'[k] + Cardinality(Resets(k)') <= Cardinality(Request)
    <3>1. /\ Resets(k) \subseteq calls
          /\ IsFiniteSet(Resets(k)) /\ Cardinality(Resets(k)) \in Nat
      <4>1. Resets(k) \subseteq calls
        BY DEF Resets
      <4> QED BY <4>1, HandlersCount
    <3>2. uses[k] \in Nat /\ uses[k] + Cardinality(Resets(k)) <= Cardinality(Request)
          /\ (link[k] # "USED" => uses[k] = 0)
      BY DEF ResetsCounted, SessionsTypeOK
    <3>3. CASE k = c.link
      <4>1. c \in Resets(k) /\ Resets(k)' \subseteq Resets(k) \ {c}
        BY <2>1, <2>3, <3>3 DEF Resets
      <4>2. /\ IsFiniteSet(Resets(k) \ {c})
            /\ Cardinality(Resets(k) \ {c}) = Cardinality(Resets(k)) - 1
        BY <3>1, <4>1, OneLess
      <4>3. Cardinality(Resets(k)') \in Nat
            /\ Cardinality(Resets(k)') <= Cardinality(Resets(k) \ {c})
        BY <4>1, <4>2, FS_Subset, FS_CardinalityType
      <4>4. link'[k] = "USED" /\ uses'[k] = uses[k] + 1
        BY <2>1, <2>2, <3>3 DEF SessionsTypeOK
      <4> QED BY <3>1, <3>2, <4>2, <4>3, <4>4, RequestsNumber
    <3>4. CASE k # c.link
      <4>1. Resets(k)' \subseteq Resets(k)
        BY <2>3, <3>4 DEF Resets
      <4>2. Cardinality(Resets(k)') \in Nat
            /\ Cardinality(Resets(k)') <= Cardinality(Resets(k))
        BY <3>1, <4>1, FS_Subset, FS_CardinalityType
      <4>3. link'[k] = link[k] /\ uses'[k] = uses[k]
        BY <2>1, <2>2, <3>4 DEF SessionsTypeOK
      <4> QED BY <3>1, <3>2, <4>2, <4>3, RequestsNumber
    <3> QED BY <3>3, <3>4
  <2> QED BY <2>4 DEF ResetsCounted
<1>5. ASSUME NEW c \in calls, LoginRevoke(c)
      PROVE  ResetsCounted'
  <2>1. c \in LoginCall
    BY <1>5, CallsByOp DEF LoginRevoke, At
  <2>2. [c EXCEPT !.seen = OpenOf(c.user), !.at = "open"].op = "login"
    BY <2>1 DEF LoginCall
  <2> QED BY <1>1, <1>5, <2>2 DEF LoginRevoke, GoOn
<1>6. ASSUME NEW c \in calls, ChangeWrite(c)
      PROVE  ResetsCounted'
  <2>1. c \in ChangeCall
    BY <1>6, CallsByOp DEF ChangeWrite, At
  <2>2. [c EXCEPT !.old = FALSE, !.at = "reopen"].op = "change"
    BY <2>1 DEF ChangeCall
  <2>3. \A d \in Outdated(c.user, calls \ {c}) : d.op = "reset" => d \in calls
    <3> TAKE d \in Outdated(c.user, calls \ {c})
    <3>1. PICK e \in calls \ {c} : SameButOld(d, e)
      BY OutdatedSame
    <3> QED BY <3>1 DEF SameButOld
  <2> QED BY <1>1, <1>6, <2>2, <2>3 DEF ChangeWrite
<1>7. ASSUME NEW r \in Request, \/ \E u \in User : LoginRead(r, u) \/ ChangeRead(r, u)
                                \/ \E u \in User : ResendActivationRead(r, u) \/ ForgotMark(r, u)
                                \/ \E s \in Session : RevokeRead(r, s) \/ RefreshRead(r, s)
                                                      \/ RefreshRefused(r, s)
      PROVE  ResetsCounted'
  BY <1>1, <1>7 DEF LoginRead, ChangeRead, ResendActivationRead, ForgotMark, RevokeRead,
                    RefreshRead, RefreshRefused, Begin
<1>8. ASSUME \/ \E u \in User, ending \in SUBSET Session : Logout(u, ending)
             \/ \E s \in Session : CleanUp(s)
             \/ \E u \in User : ActivateEmployer(u)
             \/ UNCHANGED <<sessionsVars, calls>>
      PROVE  ResetsCounted'
  BY <1>1, <1>8 DEF Logout, CleanUp, ActivateEmployer
<1>9. ASSUME NEW c \in calls,
             \/ CloseWrite(c) \/ RefreshRotate(c) \/ IssueToken(c)
             \/ ResendActivationWrite(c) \/ SessionsAbort(c)
      PROVE  ResetsCounted'
  <2>1. calls' \subseteq calls /\ UNCHANGED linkVars
    BY <1>9 DEF CloseWrite, RefreshRotate, IssueToken, ResendActivationWrite, SessionsAbort, End
  <2> QED BY <1>1, <2>1
<1>10. ASSUME NEW c \in calls, NEW s \in Session, LoginOpen(c, s) \/ ChangeReopen(c, s)
       PROVE  ResetsCounted'
  BY <1>1, <1>10 DEF LoginOpen, ChangeReopen, End, GoOn
<1> QED BY <1>2, <1>3, <1>4, <1>5, <1>6, <1>7, <1>8, <1>9, <1>10
        DEF SessionsNext, SignInSteps, PasswordSteps

----------------------------------------------------------------------------
LEMMA NextSessionsInv == SessionsInv /\ [SessionsNext]_<<sessionsVars, calls>> => SessionsInv'
BY SessionsTyped, SessionsApart, IssuesKeep, ToldKeeps, ResetsKeep DEF SessionsInv

LEMMA FewOpen == SessionsInv => FewSessions
<1> SUFFICES ASSUME SessionsInv, NEW u \in User
             PROVE  Cardinality(OpenOf(u)) <= Cardinality(Request)
  BY DEF FewSessions
<1>1. PICK by \in [Session -> Request] : OpenedBy(by)
  BY DEF SessionsInv, SessionsTold
<1> DEFINE mine == [s \in OpenOf(u) |-> by[s]]
<1>2. mine \in [OpenOf(u) -> Request] /\ \A s, t \in OpenOf(u) : mine[s] = mine[t] => s = t
  BY <1>1 DEF OpenedBy, OpenOf
<1> QED BY <1>2, RequestsCount

LEMMA OldFew == SessionsInv => OldPasswordFades
<1> SUFFICES ASSUME SessionsInv, NEW u \in User
             PROVE  Cardinality(OpenOf(u) \cap stale) < Cardinality(Request)
  BY DEF OldPasswordFades
<1>1. PICK by \in [Session -> Request], q \in Request : OpenedBy(by) /\ UpToDate(q, u, by)
  BY DEF SessionsInv, SessionsTold
<1> DEFINE mine == [s \in OpenOf(u) \cap stale |-> by[s]]
<1>2. /\ mine \in [OpenOf(u) \cap stale -> Request \ {q}]
      /\ \A s, t \in OpenOf(u) \cap stale : mine[s] = mine[t] => s = t
  BY <1>1 DEF OpenedBy, UpToDate, OpenOf
<1>3. Cardinality(Request \ {q}) = Cardinality(Request) - 1
  BY RequestAssumption, OneLess
<1>4. /\ Cardinality(OpenOf(u) \cap stale) \in Nat
      /\ Cardinality(OpenOf(u) \cap stale) <= Cardinality(Request \ {q})
  BY <1>2, RequestsCount
<1> QED BY <1>3, <1>4, RequestsNumber

LEMMA ResetFew == SessionsInv => ResetOnce
<1> SUFFICES ASSUME SessionsInv, NEW k \in Link
             PROVE  uses[k] <= Cardinality(Request)
  BY DEF ResetOnce
<1>1. Resets(k) \subseteq calls /\ OneEach(calls)
  BY DEF Resets, SessionsInv
<1>2. Cardinality(Resets(k)) \in Nat
  BY <1>1, HandlersCount
<1> QED BY <1>2, RequestsNumber DEF SessionsInv, SessionsTypeOK, ResetsCounted

----------------------------------------------------------------------------
(* How the tables read as the contract's states. *)
LEMMA ContractStates ==
    ASSUME SessionsTypeOK, SessionsTypeOK'
    PROVE  /\ SessionState \in [Session -> {"absent", "live", "dead"}]
           /\ SessionState' \in [Session -> {"absent", "live", "dead"}]
           /\ \A s \in Session :
                 /\ SessionState[s] = "absent" <=> session[s] = "NONE"
                 /\ SessionState[s] = "live" <=> session[s] = "OPEN"
                 /\ SessionState'[s] = "absent" <=> session'[s] = "NONE"
                 /\ SessionState'[s] = "live" <=> session'[s] = "OPEN"
BY DEF SessionState, SessionsTypeOK

(* Sessions that are closed are ended, *)
LEMMA ContractEnds ==
    ASSUME SessionsTypeOK, SessionsTypeOK', NEW ending,
           session' = Closed(ending), UNCHANGED <<token, handed>>
    PROVE  Contract!End
<1> DEFINE gone == {s \in Session : session[s] = "OPEN" /\ s \in ending}
<1>1. gone \in SUBSET Contract!Live
  BY ContractStates DEF Contract!Live
<1>2. SessionState' = Contract!Ended(gone)
  <2>1. \A s \in Session : SessionState'[s] = IF s \in gone THEN "dead" ELSE SessionState[s]
    <3> TAKE s \in Session
    <3>1. session'[s] = "OPEN" <=> session[s] = "OPEN" /\ s \notin ending
      BY ClosedSessions
    <3>2. session'[s] = "NONE" <=> session[s] = "NONE"
      BY ClosedSessions
    <3> QED BY <3>1, <3>2, ContractStates
  <2> QED BY <2>1, ContractStates DEF Contract!Ended
<1> QED BY <1>1, <1>2 DEF Contract!End

(* and one that is created starts. *)
LEMMA ContractStarts ==
    ASSUME SessionsTypeOK, SessionsTypeOK', NEW s \in Session, NEW n, NEW ending, NEW old,
           NewSession(s, n, ending, old)
    PROVE  Contract!Start(s, n)
<1> DEFINE gone == {t \in Session : session[t] = "OPEN" /\ t \in ending}
<1>1. gone \in SUBSET Contract!Live
  BY ContractStates DEF Contract!Live
<1>2. /\ session[s] = "NONE" /\ session' = [Closed(ending) EXCEPT ![s] = "OPEN"]
      /\ token' = [token EXCEPT ![s] = n] /\ handed' = [handed EXCEPT ![s] = n]
  BY DEF NewSession
<1>3. \A t \in Session : SessionState'[t] = IF t = s THEN "live"
                                            ELSE IF t \in gone THEN "dead" ELSE SessionState[t]
  <2> TAKE t \in Session
  <2>1. session'[t] = IF t = s THEN "OPEN" ELSE Closed(ending)[t]
    BY <1>2, ClosedTyped
  <2>2. Closed(ending)[t] = "OPEN" <=> session[t] = "OPEN" /\ t \notin ending
    BY ClosedSessions
  <2>3. Closed(ending)[t] = "NONE" <=> session[t] = "NONE"
    BY ClosedSessions
  <2> QED BY <2>1, <2>2, <2>3, ContractStates
<1>4. SessionState' = [Contract!Ended(gone) EXCEPT ![s] = "live"]
  BY <1>3, ContractStates DEF Contract!Ended
<1>5. SessionState[s] = "absent"
  BY <1>2, ContractStates
<1> QED BY <1>1, <1>2, <1>4, <1>5 DEF Contract!Start

(* Every step of the sessions is one of the contract, or none. *)
LEMMA SessionsKeepContract ==
    ASSUME SessionsInv, SessionsInv', [SessionsNext]_<<sessionsVars, calls>>
    PROVE  [Contract!Next]_(Contract!vars)
<1> USE DEF SessionsInv
<1>1. ASSUME UNCHANGED sessionVars
      PROVE  UNCHANGED Contract!vars
  BY <1>1 DEF sessionVars, Contract!vars, SessionState
<1>2. ASSUME NEW c \in calls, NEW s \in Session, LoginOpen(c, s) \/ ChangeReopen(c, s)
      PROVE  Contract!Next
  <2>1. \/ NewSession(s, 1, c.seen, c.old)
        \/ NewSession(s, 0, {}, c.old)
    BY <1>2 DEF LoginOpen, ChangeReopen
  <2>2. Contract!Start(s, 1) \/ Contract!Start(s, 0)
    BY <2>1, ContractStarts
  <2> QED BY <2>2 DEF Contract!Next
<1>3. ASSUME NEW c \in calls, RefreshRotate(c)
      PROVE  Contract!Next
  <2>1. c.id \in Session /\ c.token \in Nat /\ c.token > 0
    BY <1>3, CallsByOp, MaxTokensAssumption DEF RefreshRotate, At, RefreshCall
  <2>2. /\ session[c.id] = "OPEN" /\ token[c.id] = c.token /\ session' = session
        /\ token' = [token EXCEPT ![c.id] = c.token + 1]
        /\ handed' = [handed EXCEPT ![c.id] = @ + 1]
    BY <1>3 DEF RefreshRotate
  <2>3. SessionState[c.id] = "live" /\ SessionState' = SessionState
    BY <2>1, <2>2, ContractStates DEF SessionState
  <2>4. Contract!Rotate(c.id)
    BY <2>1, <2>2, <2>3 DEF Contract!Rotate, Contract!HandOut
  <2> QED BY <2>1, <2>4 DEF Contract!Next
<1>4. ASSUME NEW c \in calls, IssueToken(c)
      PROVE  Contract!Next
  <2>1. c.id \in Session /\ c.op = "issue"
    BY <1>4, CallsByOp DEF IssueToken, At, IssueCall
  <2>2. /\ session[c.id] # "NONE" /\ token[c.id] = 0
    BY <2>1 DEF IssuesSound
  <2>3. /\ session' = session
        /\ token' = [token EXCEPT ![c.id] = 1]
        /\ handed' = [handed EXCEPT ![c.id] = @ + 1]
    BY <1>4 DEF IssueToken
  <2>4. SessionState[c.id] # "absent" /\ SessionState' = SessionState
    BY <2>1, <2>2, <2>3, ContractStates DEF SessionState
  <2>5. Contract!FirstToken(c.id)
    BY <2>2, <2>3, <2>4 DEF Contract!FirstToken, Contract!HandOut
  <2> QED BY <2>1, <2>5 DEF Contract!Next
<1>5. ASSUME NEW ending, CloseAll(ending)
      PROVE  Contract!Next
  BY <1>5, ContractEnds DEF CloseAll, Contract!Next
<1>6. ASSUME NEW c \in calls, CloseWrite(c) \/ ChangeWrite(c) \/ ResetWrite(c)
      PROVE  Contract!Next
  BY <1>5, <1>6 DEF CloseWrite, ChangeWrite, ResetWrite
<1>7. ASSUME NEW u \in User, NEW ending \in SUBSET Session, Logout(u, ending)
      PROVE  Contract!Next
  BY <1>5, <1>7 DEF Logout
<1>8. ASSUME NEW s \in Session, CleanUp(s)
      PROVE  UNCHANGED Contract!vars
  <2>1. session[s] = "CLOSED" /\ session' = [session EXCEPT ![s] = "GONE"]
        /\ token' = token /\ handed' = handed
    BY <1>8 DEF CleanUp
  <2>2. \A t \in Session : SessionState'[t] = SessionState[t]
    BY <2>1 DEF SessionState, SessionsTypeOK
  <2> QED BY <2>1, <2>2, ContractStates DEF Contract!vars
<1>9. ASSUME \/ \E r \in Request, u \in User : LoginRead(r, u) \/ ChangeRead(r, u)
             \/ \E r \in Request, s \in Session :
                   RevokeRead(r, s) \/ RefreshRead(r, s) \/ RefreshRefused(r, s)
             \/ \E r \in Request, u \in User : ResendActivationRead(r, u) \/ ForgotMark(r, u)
             \/ \E u \in User : ActivateEmployer(u)
             \/ \E r \in Request, k \in Link : ResetRead(r, k)
      PROVE  UNCHANGED sessionVars
  BY <1>9 DEF LoginRead, ChangeRead, RevokeRead, RefreshRead, RefreshRefused,
              ResendActivationRead, ActivateEmployer, ForgotMark, ResetRead, sessionsVars
<1>10. ASSUME NEW c \in calls,
              \/ LoginRevoke(c) \/ ResendActivationWrite(c) \/ SessionsAbort(c)
              \/ \E k \in Link : ForgotIssue(c, k)
       PROVE  UNCHANGED sessionVars
  BY <1>10 DEF LoginRevoke, ResendActivationWrite, ForgotIssue, SessionsAbort, sessionsVars
<1> QED BY <1>1, <1>2, <1>3, <1>4, <1>6, <1>7, <1>8, <1>9, <1>10
        DEF SessionsNext, SignInSteps, PasswordSteps, sessionsVars

(* The contract starts with no sessions, as the table does. *)
LEMMA ContractBegins ==
    ASSUME \A s \in Session : session[s] = "NONE",
           token = [s \in Session |-> 0], handed = [s \in Session |-> 0]
    PROVE  Contract!Init
BY DEF Contract!Init, SessionState

(* AuthService by itself: every step of its handlers is one the holders of *)
(* the sessions may rely on.                                               *)
THEOREM SessionsKept == SessionsSpec => KeepsSessionContract
<1>1. SessionsInit => Contract!Init
  BY ContractBegins DEF SessionsInit
<1>2. SessionsInv /\ SessionsInv' /\ [SessionsNext]_<<sessionsVars, calls>>
          => [Contract!Next]_(Contract!vars)
  BY SessionsKeepContract
<1> QED BY <1>1, <1>2, InitSessionsInv, NextSessionsInv, PTL
        DEF SessionsSpec, KeepsSessionContract, Contract!Spec
=============================================================================
