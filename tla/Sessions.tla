------------------------------- MODULE Sessions -------------------------------
(***************************************************************************)
(* The sessions of one person: LoginWithGoogleUseCase,                     *)
(* RefreshSessionUseCase, LogoutUseCase and the authenticate middleware    *)
(* over the tables "users" and "revoked_keys", with JwtService minting and *)
(* verifying tokens.                                                       *)
(*                                                                         *)
(* Every statement is one step; what runs between two awaits is part of    *)
(* the step before it.  Requests interleave; clients may present any token *)
(* that was ever issued, as often as they like.                            *)
(***************************************************************************)
EXTENDS Naturals, FiniteSets

CONSTANTS
  Pair,        \* token pairs; the first pair of a session also names it
  NoPair,      \* the token of a request that has none
  Request,     \* requesters: connections that send one request after another
  Second,      \* clock ticks per second, the precision of "exp" claims
  AccessTtl,   \* lifetime of an access token, in ticks
  SessionTtl,  \* lifetime of a session, in ticks
  MaxTime,     \* bound of the model: the last tick
  Faults,      \* the kinds of failure that may happen
  MaxFaults    \* bound of the model: how many kinds, each of them any number of times

(***************************************************************************)
(*   "crash"  the server process dies                                      *)
(*   "db"     a statement fails and has no effect                          *)
(*   "reply"  a statement takes effect but the server sees an error        *)
(***************************************************************************)
FaultKind == {"crash", "db", "reply"}

ASSUME SessionsAssumptions ==
  /\ NoPair \notin Pair
  /\ Second \in Nat \ {0}
  /\ AccessTtl \in Nat
  /\ SessionTtl \in Nat
  /\ MaxTime \in Nat
  /\ Faults \subseteq FaultKind
  /\ MaxFaults \in Nat

VARIABLES
  account,    \* whether the person's row of "users" exists
  revoked,    \* "revoked_keys": when each key expires, 0 if it has no row
  issued,     \* the claims of every token pair issued so far
  loggedOut,  \* sessions with a logout that was answered
  now,        \* the clock of the server
  pc,         \* the next step of each request
  op,         \* what it asks for
  token,      \* the pair of the token it presents
  late,       \* whether its session was logged out before it arrived
  answer,     \* how the request was answered
  faults      \* the kinds of failure that have happened

requests == <<pc, op, token, late, answer>>
vars == <<account, revoked, issued, loggedOut, now, pc, op, token, late, answer, faults>>

\* Rows of "revoked_keys" are named by token or session identifiers.
Key == {"access", "refresh", "session"} \X Pair

Claims == [session : Pair, accessExp : Nat, sessionExp : Nat]

Phase == {"idle", "find", "create", "token", "session", "user", "consume", "mint", "revoke"}

\* "unauthorized" is HTTP 401, "unavailable" 503, "error" 500.
Answer == {"none", "ok", "unauthorized", "unavailable", "error"}

TypeOK ==
  /\ account \in BOOLEAN
  /\ revoked \in [Key -> Nat]
  /\ DOMAIN issued \subseteq Pair
  /\ issued \in [DOMAIN issued -> Claims]
  /\ loggedOut \subseteq Pair
  /\ now \in Nat
  /\ pc \in [Request -> Phase]
  /\ op \in [Request -> {"none", "login", "refresh", "call", "logout"}]
  /\ token \in [Request -> Pair \cup {NoPair}]
  /\ late \in [Request -> BOOLEAN]
  /\ answer \in [Request -> Answer]
  /\ faults \subseteq Faults

Init ==
  /\ account = FALSE
  /\ revoked = [k \in Key |-> 0]
  /\ issued = [p \in {} |-> 0]
  /\ loggedOut = {}
  /\ now = 0
  /\ pc = [r \in Request |-> "idle"]
  /\ op = [r \in Request |-> "none"]
  /\ token = [r \in Request |-> NoPair]
  /\ late = [r \in Request |-> FALSE]
  /\ answer = [r \in Request |-> "none"]
  /\ faults = {}

Fault(kind) ==
  /\ kind \in Faults
  /\ faults' = faults \cup {kind}
  /\ Cardinality(faults') <= MaxFaults

\* toSeconds rounds down.
WholeSeconds(time) == time - (time % Second)

SessionOf(p) == issued[p].session

-----------------------------------------------------------------------------
(* TokenRevocationPrismaStore *)

\* exists(): a key that has expired no longer counts.
Revoked(kind, p) == revoked[<<kind, p>>] > now

Record(kind, p, expiry) == revoked' = [revoked EXCEPT ![<<kind, p>>] = expiry]

-----------------------------------------------------------------------------
(* JwtService *)

\* Mutant: a refreshed session starts anew.
CreateTokenPairRolling(p, session) ==
  issued' =
    [q \in DOMAIN issued \cup {p} |->
      IF q = p THEN [session |-> session,
                     accessExp |-> WholeSeconds(now + AccessTtl),
                     sessionExp |-> WholeSeconds(now + SessionTtl)]
      ELSE issued[q]]

\* A pair of a new session, or of the session of the token that is refreshed.
CreateTokenPair(p, session) ==
  LET sessionExp == IF session = p THEN now + SessionTtl ELSE issued[session].sessionExp
      accessExp == IF now + AccessTtl < sessionExp THEN now + AccessTtl ELSE sessionExp
  IN issued' =
       [q \in DOMAIN issued \cup {p} |->
         IF q = p THEN [session |-> session,
                        accessExp |-> WholeSeconds(accessExp),
                        sessionExp |-> WholeSeconds(sessionExp)]
         ELSE issued[q]]

\* The tokens verify() accepts; a refresh token lives as long as its session.
ValidAccess == {p \in DOMAIN issued : now < issued[p].accessExp}
ValidRefresh == {p \in DOMAIN issued : now < issued[p].sessionExp}

-----------------------------------------------------------------------------
(* Requests *)

Goto(r, phase) ==
  /\ pc' = [pc EXCEPT ![r] = phase]
  /\ UNCHANGED <<op, token, late, answer>>

Respond(r, result) ==
  /\ pc' = [pc EXCEPT ![r] = "idle"]
  /\ op' = [op EXCEPT ![r] = "none"]
  /\ token' = [token EXCEPT ![r] = NoPair]
  /\ late' = [late EXCEPT ![r] = FALSE]
  /\ answer' = [answer EXCEPT ![r] = result]

Receive(r, operation, p, phase) ==
  /\ pc[r] = "idle"
  /\ pc' = [pc EXCEPT ![r] = phase]
  /\ op' = [op EXCEPT ![r] = operation]
  /\ token' = [token EXCEPT ![r] = p]
  /\ late' = [late EXCEPT ![r] = p # NoPair /\ SessionOf(p) \in loggedOut]
  /\ answer' = [answer EXCEPT ![r] = "none"]
  /\ UNCHANGED <<account, revoked, issued, loggedOut, now, faults>>

Reject(r) ==
  /\ pc[r] = "idle"
  /\ Respond(r, "unauthorized")
  /\ UNCHANGED <<account, revoked, issued, loggedOut, now, faults>>

\* Google has verified the identity of the person.
LoginRequest(r) == Receive(r, "login", NoPair, "find")

\* A token that verify() rejects is answered at once.
RefreshRequest(r) ==
  \E p \in DOMAIN issued :
    IF p \in ValidRefresh THEN Receive(r, "refresh", p, "session") ELSE Reject(r)

AccessRequest(r) ==
  \E p \in DOMAIN issued, operation \in {"call", "logout"} :
    IF p \in ValidAccess THEN Receive(r, operation, p, "token") ELSE Reject(r)

-----------------------------------------------------------------------------
(* LoginWithGoogleUseCase *)

FindUser(r) ==
  /\ pc[r] = "find"
  /\ Goto(r, IF account THEN "mint" ELSE "create")
  /\ UNCHANGED <<account, revoked, issued, loggedOut, now, faults>>

CreateUser(r) ==
  /\ pc[r] = "create"
  /\ ~account
  /\ account' = TRUE
  /\ Goto(r, "mint")
  /\ UNCHANGED <<revoked, issued, loggedOut, now, faults>>

\* The violated unique key is not translated.
CreateUserConflict(r) ==
  /\ pc[r] = "create"
  /\ account
  /\ Respond(r, "error")
  /\ UNCHANGED <<account, revoked, issued, loggedOut, now, faults>>

\* The person has a token pair when the request is answered.
Mint(r) ==
  /\ pc[r] = "mint"
  /\ \E p \in Pair \ DOMAIN issued :
       CreateTokenPair(p, IF op[r] = "login" THEN p ELSE SessionOf(token[r]))
  /\ Respond(r, "ok")
  /\ UNCHANGED <<account, revoked, loggedOut, now, faults>>

-----------------------------------------------------------------------------
(* authenticate and RefreshSessionUseCase *)

\* No code records the identifier of an access token.
CheckToken(r) ==
  /\ pc[r] = "token"
  /\ IF Revoked("access", token[r]) THEN Respond(r, "unauthorized") ELSE Goto(r, "session")
  /\ UNCHANGED <<account, revoked, issued, loggedOut, now, faults>>

\* Mutant: the identifier of the token is looked up, not that of its session.
CheckSessionByToken(r) ==
  /\ pc[r] = "session"
  /\ IF Revoked("session", token[r]) THEN Respond(r, "unauthorized") ELSE Goto(r, "user")
  /\ UNCHANGED <<account, revoked, issued, loggedOut, now, faults>>

CheckSession(r) ==
  /\ pc[r] = "session"
  /\ IF Revoked("session", SessionOf(token[r])) THEN Respond(r, "unauthorized") ELSE Goto(r, "user")
  /\ UNCHANGED <<account, revoked, issued, loggedOut, now, faults>>

\* Users are not deleted and keep their email.
FindById(r) ==
  /\ pc[r] = "user"
  /\ CASE op[r] = "call" -> Respond(r, "ok")
       [] op[r] = "refresh" -> Goto(r, "consume")
       [] op[r] = "logout" -> Goto(r, "revoke")
  /\ UNCHANGED <<account, revoked, issued, loggedOut, now, faults>>

\* Mutant: the key is upserted, as that of a session is.
ConsumeAgain(r) ==
  /\ pc[r] = "consume"
  /\ issued[token[r]].sessionExp > now
  /\ Record("refresh", token[r], issued[token[r]].sessionExp)
  /\ Goto(r, "mint")
  /\ UNCHANGED <<account, issued, loggedOut, now, faults>>

Unconsumed(p) == revoked[<<"refresh", p>>] = 0

ConsumeToken(r) ==
  /\ pc[r] = "consume"
  /\ issued[token[r]].sessionExp > now
  /\ Unconsumed(token[r])
  /\ Record("refresh", token[r], issued[token[r]].sessionExp)
  /\ Goto(r, "mint")
  /\ UNCHANGED <<account, issued, loggedOut, now, faults>>

\* Expired, or the row exists.
ConsumeRefused(r) ==
  /\ pc[r] = "consume"
  /\ issued[token[r]].sessionExp <= now \/ ~Unconsumed(token[r])
  /\ Respond(r, "unauthorized")
  /\ UNCHANGED <<account, revoked, issued, loggedOut, now, faults>>

\* LogoutUseCase; nothing is written for a session that has expired.
RevokeSession(r) ==
  LET p == token[r] IN
  /\ pc[r] = "revoke"
  /\ IF issued[p].sessionExp > now
     THEN Record("session", SessionOf(p), issued[p].sessionExp)
     ELSE UNCHANGED revoked
  /\ loggedOut' = loggedOut \cup {SessionOf(p)}
  /\ Respond(r, "ok")
  /\ UNCHANGED <<account, issued, now, faults>>

-----------------------------------------------------------------------------
(* Failures *)

\* TokenRevocationStoreError becomes 503, an error of "users" 500.
StatementError(r) ==
  /\ pc[r] \in {"find", "create", "token", "session", "user", "consume", "revoke"}
  /\ pc[r] \in {"consume", "revoke"} => issued[token[r]].sessionExp > now
  /\ Fault("db")
  /\ Respond(r, IF pc[r] \in {"find", "create", "user"} THEN "error" ELSE "unavailable")
  /\ UNCHANGED <<account, revoked, issued, loggedOut, now>>

LostReply(r) ==
  /\ Fault("reply")
  /\ \/ /\ pc[r] = "create"
        /\ account' = TRUE
        /\ Respond(r, "error")
        /\ UNCHANGED revoked
     \/ /\ pc[r] = "consume"
        /\ issued[token[r]].sessionExp > now
        /\ Unconsumed(token[r])
        /\ Record("refresh", token[r], issued[token[r]].sessionExp)
        /\ Respond(r, "unavailable")
        /\ UNCHANGED account
     \/ /\ pc[r] = "revoke"
        /\ issued[token[r]].sessionExp > now
        /\ Record("session", SessionOf(token[r]), issued[token[r]].sessionExp)
        /\ Respond(r, "unavailable")
        /\ UNCHANGED account
  /\ UNCHANGED <<issued, loggedOut, now>>

Crash ==
  /\ Fault("crash")
  /\ pc' = [r \in Request |-> "idle"]
  /\ op' = [r \in Request |-> "none"]
  /\ token' = [r \in Request |-> NoPair]
  /\ late' = [r \in Request |-> FALSE]
  /\ answer' = [r \in Request |-> "none"]
  /\ UNCHANGED <<account, revoked, issued, loggedOut, now>>

Tick ==
  /\ now < MaxTime
  /\ now' = now + 1
  /\ UNCHANGED <<account, revoked, issued, loggedOut, requests, faults>>

-----------------------------------------------------------------------------

Step(r) ==
  \/ LoginRequest(r) \/ RefreshRequest(r) \/ AccessRequest(r)
  \/ FindUser(r) \/ CreateUser(r) \/ CreateUserConflict(r) \/ Mint(r)
  \/ CheckToken(r) \/ CheckSession(r) \/ FindById(r)
  \/ ConsumeToken(r) \/ ConsumeRefused(r) \/ RevokeSession(r)
  \/ StatementError(r) \/ LostReply(r)

Next == Tick \/ Crash \/ \E r \in Request : Step(r)

Spec == Init /\ [][Next]_vars

-----------------------------------------------------------------------------
(* Properties *)

\* What can still become a pair of a session: its refresh tokens nobody has
\* used, and the requests that have used one and not yet issued the next pair.
Unused(s) == {p \in DOMAIN issued : SessionOf(p) = s /\ Unconsumed(p)}

Minting(s) ==
  {r \in Request : pc[r] = "mint" /\ op[r] = "refresh" /\ SessionOf(token[r]) = s}

\* However refreshes of one session race, fail or are retried, the session is
\* a chain: at most one refresh token of it can be used (README.md: "Refresh
\* token ... is single-use").
OneLiveRefresh ==
  \A s \in Pair :
    /\ Unused(s) = {} \/ Minting(s) = {}
    /\ \A p, q \in Unused(s) : p = q
    /\ \A q, r \in Minting(s) : q = r

\* Refreshing never extends a session, and no token outlives it (README.md:
\* an access token "never outlives its session").
SessionNeverExtended ==
  \A p \in DOMAIN issued :
    /\ SessionOf(p) \in DOMAIN issued
    /\ issued[p].sessionExp = issued[SessionOf(p)].sessionExp
    /\ issued[p].accessExp <= issued[p].sessionExp

Accepted(r) == pc[r] # "idle" /\ pc'[r] = "idle" /\ answer'[r] = "ok"

\* A request that arrives after a logout was answered is refused, whatever
\* token of the session it presents, unless the session expires while the
\* request is under way.
LogoutFinal ==
  [][\A r \in Request :
       late[r] /\ Accepted(r) => issued[token[r]].sessionExp <= now]_vars
==============================================================================
