----------------------------- MODULE SessionsProofs -----------------------------
(***************************************************************************)
(* Theorems about Sessions, for any number of token pairs and requesters,  *)
(* any lifetimes, and any number of failures.                              *)
(***************************************************************************)
EXTENDS Sessions, TLAPS

\* The steps a request passes through, by what it asks for.
Way ==
  [none |-> {"idle"},
   login |-> {"find", "create", "mint"},
   refresh |-> {"session", "user", "consume", "mint"},
   call |-> {"token", "session", "user"},
   logout |-> {"token", "session", "user", "revoke"}]

Progress ==
  \A r \in Request :
    /\ pc[r] \in Way[op[r]]
    /\ op[r] \notin {"none", "login"} => token[r] \in DOMAIN issued

\* A session is named by its first pair.
Rooted == \A p \in DOMAIN issued : SessionOf(p) \in DOMAIN issued

TypeInv == TypeOK /\ Progress /\ Rooted

-----------------------------------------------------------------------------

LEMMA WholeSecondsNat == \A t \in Nat : WholeSeconds(t) \in Nat
<1> SUFFICES ASSUME NEW t \in Nat PROVE WholeSeconds(t) \in Nat
  OBVIOUS
<1>1. Second \in Nat /\ Second > 0
  BY SessionsAssumptions
<1>2. t % Second \in 0..(Second - 1)
  BY <1>1
<1>3. t % Second <= t
  BY <1>1, <1>2
<1> QED
  BY <1>1, <1>2, <1>3 DEF WholeSeconds

\* Rounding down keeps the order of times, and is done once.
LEMMA WholeSecondsMonotone ==
  ASSUME NEW a \in Nat, NEW b \in Nat, a <= b
  PROVE  WholeSeconds(a) <= WholeSeconds(b)
<1>1. Second \in Nat /\ Second > 0
  BY SessionsAssumptions
<1>2. PICK q \in Nat : a = Second * q + (a % Second)
  <2>1. a = Second * (a \div Second) + (a % Second)
    BY <1>1
  <2> QED
    BY <2>1, <1>1
<1>3. PICK p \in Nat : b = Second * p + (b % Second)
  <2>1. b = Second * (b \div Second) + (b % Second)
    BY <1>1
  <2> QED
    BY <2>1, <1>1
<1>4. a % Second \in 0..(Second - 1) /\ b % Second \in 0..(Second - 1)
  BY <1>1
<1>5. q <= p
  <2> SUFFICES ASSUME q >= p + 1 PROVE FALSE
    OBVIOUS
  <2>1. Second * q >= Second * (p + 1)
    BY <1>1
  <2>2. Second * (p + 1) = Second * p + Second
    BY <1>1
  <2> QED
    BY <2>1, <2>2, <1>1, <1>2, <1>3, <1>4
<1>6. Second * q <= Second * p
  BY <1>1, <1>5
<1> QED
  BY <1>1, <1>2, <1>3, <1>4, <1>6 DEF WholeSeconds

LEMMA WholeSecondsOnce ==
  ASSUME NEW a \in Nat
  PROVE  WholeSeconds(WholeSeconds(a)) = WholeSeconds(a)
<1>1. Second \in Nat /\ Second > 0
  BY SessionsAssumptions
<1>2. PICK q \in Nat : a = Second * q + (a % Second)
  <2>1. a = Second * (a \div Second) + (a % Second)
    BY <1>1
  <2> QED
    BY <2>1, <1>1
<1>3. WholeSeconds(a) = Second * q
  BY <1>1, <1>2 DEF WholeSeconds
<1>4. (Second * q) % Second = 0
  BY <1>1
<1> QED
  BY <1>1, <1>3, <1>4 DEF WholeSeconds

\* What a new pair adds to "issued".
LEMMA CreateTokenPairType ==
  ASSUME TypeOK, NEW p \in Pair, NEW s \in Pair, s = p \/ s \in DOMAIN issued,
         CreateTokenPair(p, s)
  PROVE  /\ DOMAIN issued' = DOMAIN issued \cup {p}
         /\ issued' \in [DOMAIN issued' -> Claims]
         /\ SessionOf(p)' = s
         /\ \A q \in DOMAIN issued \ {p} : issued'[q] = issued[q]
<1> DEFINE sessionExp == IF s = p THEN now + SessionTtl ELSE issued[s].sessionExp
           accessExp == IF now + AccessTtl < sessionExp THEN now + AccessTtl ELSE sessionExp
           new == [session |-> s, accessExp |-> WholeSeconds(accessExp),
                   sessionExp |-> WholeSeconds(sessionExp)]
<1>1. issued' = [q \in DOMAIN issued \cup {p} |-> IF q = p THEN new ELSE issued[q]]
  BY DEF CreateTokenPair
<1>2. sessionExp \in Nat
  BY SessionsAssumptions DEF TypeOK, Claims
<1>3. accessExp \in Nat
  BY <1>2, SessionsAssumptions DEF TypeOK
<1>4. new \in Claims
  BY <1>2, <1>3, WholeSecondsNat DEF Claims
<1> HIDE DEF new
<1>5. new.session = s
  BY DEF new
<1> QED
  BY <1>1, <1>4, <1>5 DEF TypeOK, SessionOf

\* The fields of the requests.
RequestsOK ==
  /\ pc \in [Request -> Phase]
  /\ op \in [Request -> {"none", "login", "refresh", "call", "logout"}]
  /\ token \in [Request -> Pair \cup {NoPair}]
  /\ late \in [Request -> BOOLEAN]
  /\ answer \in [Request -> Answer]
  /\ Progress

LEMMA RespondType ==
  ASSUME TypeInv, NEW r \in Request, NEW result \in Answer, Respond(r, result),
         DOMAIN issued \subseteq DOMAIN issued'
  PROVE  RequestsOK'
<1> USE DEF TypeInv, TypeOK, RequestsOK, Respond
<1>1. RequestsOK!1' /\ RequestsOK!2' /\ RequestsOK!3' /\ RequestsOK!4' /\ RequestsOK!5'
  BY DEF Phase
<1>2. Progress'
  BY DEF Progress, Way
<1> QED
  BY <1>1, <1>2

LEMMA GotoType ==
  ASSUME TypeInv, NEW r \in Request, NEW phase \in Phase, phase \in Way[op[r]],
         Goto(r, phase), UNCHANGED issued
  PROVE  RequestsOK'
BY DEF TypeInv, TypeOK, RequestsOK, Goto, Progress

LEMMA ReceiveType ==
  ASSUME TypeInv, NEW r \in Request, NEW phase \in Phase,
         NEW operation \in {"login", "refresh", "call", "logout"}, phase \in Way[operation],
         NEW p \in Pair \cup {NoPair}, operation # "login" => p \in DOMAIN issued,
         Receive(r, operation, p, phase)
  PROVE  TypeInv'
<1> USE DEF TypeInv, TypeOK, RequestsOK, Receive
<1>1. RequestsOK!1' /\ RequestsOK!2' /\ RequestsOK!3' /\ RequestsOK!4' /\ RequestsOK!5'
  BY DEF Answer
<1>2. Progress'
  BY DEF Progress
<1> QED
  BY <1>1, <1>2 DEF Rooted, SessionOf

LEMMA TypeInvStep == TypeInv /\ [Next]_vars => TypeInv'
<1> SUFFICES ASSUME TypeInv, [Next]_vars PROVE TypeInv'
  OBVIOUS
<1> DEFINE Tables == /\ account' \in BOOLEAN
                     /\ revoked' \in [Key -> Nat]
                     /\ UNCHANGED <<issued, now>>
                     /\ loggedOut' \subseteq Pair
                     /\ faults' \subseteq Faults
<1>0. ASSUME Tables, RequestsOK' PROVE TypeInv'
  BY <1>0 DEF TypeInv, TypeOK, RequestsOK, Rooted, SessionOf
<1>a. \A kind : Fault(kind) => faults' \subseteq Faults
  BY SessionsAssumptions DEF TypeInv, TypeOK, Fault
<1>b. \A p \in DOMAIN issued : /\ issued[p] \in Claims /\ SessionOf(p) \in DOMAIN issued
                               /\ issued[p].sessionExp \in Nat
                               /\ DOMAIN issued \subseteq Pair
  BY DEF TypeInv, TypeOK, Rooted, Claims
<1>c. /\ account \in BOOLEAN /\ revoked \in [Key -> Nat] /\ loggedOut \subseteq Pair
      /\ faults \subseteq Faults /\ now \in Nat
  BY DEF TypeInv, TypeOK
<1>d. \A r \in Request :
        /\ pc[r] \in Way[op[r]]
        /\ op[r] \in {"none", "login", "refresh", "call", "logout"}
        /\ op[r] \notin {"none", "login"} => token[r] \in DOMAIN issued
  BY DEF TypeInv, TypeOK, Progress
<1>h. \A r \in Request :
        /\ pc[r] = "user" => op[r] \in {"refresh", "call", "logout"}
        /\ pc[r] = "consume" => op[r] = "refresh" /\ token[r] \in DOMAIN issued
  BY <1>d DEF Way
<1>e. \A r \in Request : \A result \in Answer : Respond(r, result) /\ UNCHANGED issued => RequestsOK'
  BY RespondType
<1>f. \A r \in Request : \A phase \in Phase \cap Way[op[r]] :
        Goto(r, phase) /\ UNCHANGED issued => RequestsOK'
  BY GotoType
<1>g. \A r \in Request : \A phase \in Phase :
        \A operation \in {"login", "refresh", "call", "logout"} : \A p \in Pair \cup {NoPair} :
          /\ phase \in Way[operation]
          /\ operation # "login" => p \in DOMAIN issued
          /\ Receive(r, operation, p, phase)
          => TypeInv'
  BY ReceiveType
<1>1. CASE UNCHANGED vars
  BY <1>1 DEF vars, requests, TypeInv, TypeOK, Progress, Rooted, SessionOf
<1>2. CASE Tick
  BY <1>2 DEF Tick, requests, TypeInv, TypeOK, Progress, Rooted, SessionOf
<1>3. CASE Crash
  BY <1>3, SessionsAssumptions
  DEF Crash, Fault, TypeInv, TypeOK, Progress, Rooted, SessionOf, Phase, Answer, Way
<1>4. ASSUME NEW r \in Request, Step(r) PROVE TypeInv'
  <2> USE DEF Phase, Answer, Way
  <2>1. CASE LoginRequest(r)
    BY <2>1, <1>g DEF LoginRequest
  <2>2. CASE RefreshRequest(r)
    <3>1. PICK p \in DOMAIN issued :
            Receive(r, "refresh", p, "session") \/ Reject(r)
      BY <2>2 DEF RefreshRequest
    <3>2. CASE Receive(r, "refresh", p, "session")
      BY <3>1, <3>2, <1>b, <1>g
    <3>3. CASE Reject(r)
      BY <3>3, <1>0, <1>c, <1>e DEF Reject
    <3> QED
      BY <3>1, <3>2, <3>3
  <2>3. CASE AccessRequest(r)
    <3>1. PICK p \in DOMAIN issued, operation \in {"call", "logout"} :
            Receive(r, operation, p, "token") \/ Reject(r)
      BY <2>3 DEF AccessRequest
    <3>2. CASE Receive(r, operation, p, "token")
      BY <3>1, <3>2, <1>b, <1>g
    <3>3. CASE Reject(r)
      BY <3>3, <1>0, <1>c, <1>e DEF Reject
    <3> QED
      BY <3>1, <3>2, <3>3
  <2>4. CASE FindUser(r)
    BY <2>4, <1>0, <1>c, <1>d, <1>f DEF FindUser
  <2>5. CASE CreateUser(r)
    BY <2>5, <1>0, <1>c, <1>d, <1>f DEF CreateUser
  <2>6. CASE CreateUserConflict(r)
    BY <2>6, <1>0, <1>c, <1>e DEF CreateUserConflict
  <2>7. CASE Mint(r)
    <3>1. PICK p \in Pair \ DOMAIN issued :
            CreateTokenPair(p, IF op[r] = "login" THEN p ELSE SessionOf(token[r]))
      BY <2>7 DEF Mint
    <3> DEFINE s == IF op[r] = "login" THEN p ELSE SessionOf(token[r])
    <3>2. s \in Pair /\ (s = p \/ s \in DOMAIN issued)
      BY <2>7, <1>b, <1>d DEF Mint
    <3>3. /\ DOMAIN issued' = DOMAIN issued \cup {p}
          /\ issued' \in [DOMAIN issued' -> Claims]
          /\ SessionOf(p)' = s
          /\ \A q \in DOMAIN issued \ {p} : issued'[q] = issued[q]
      BY <3>1, <3>2, CreateTokenPairType DEF TypeInv
    <3>4. RequestsOK'
      BY <2>7, <3>3, RespondType DEF Mint
    <3>5. Rooted'
      BY <3>2, <3>3, <1>b DEF Rooted, SessionOf
    <3>6. DOMAIN issued' \subseteq Pair
      BY <3>3, <1>b DEF TypeInv, TypeOK
    <3> QED
      BY <2>7, <3>3, <3>4, <3>5, <3>6, <1>c DEF Mint, TypeInv, TypeOK, RequestsOK
  <2>8. CASE CheckToken(r)
    BY <2>8, <1>0, <1>c, <1>d, <1>e, <1>f DEF CheckToken
  <2>9. CASE CheckSession(r)
    BY <2>9, <1>0, <1>c, <1>d, <1>e, <1>f DEF CheckSession
  <2>10. CASE FindById(r)
    <3>1. CASE op[r] = "call"
      BY <2>10, <3>1, <1>0, <1>c, <1>e DEF FindById
    <3>2. CASE op[r] = "refresh"
      BY <2>10, <3>2, <1>0, <1>c, <1>f DEF FindById
    <3>3. CASE op[r] = "logout"
      BY <2>10, <3>3, <1>0, <1>c, <1>f DEF FindById
    <3> QED
      BY <2>10, <1>h, <3>1, <3>2, <3>3 DEF FindById
  <2>11. CASE ConsumeToken(r)
    <3>1. revoked' \in [Key -> Nat]
      BY <2>11, <1>b, <1>c, <1>h DEF ConsumeToken, Record
    <3>2. RequestsOK'
      BY <2>11, <1>h, <1>f DEF ConsumeToken
    <3> QED
      BY <2>11, <3>1, <3>2, <1>0, <1>c DEF ConsumeToken
  <2>12. CASE ConsumeRefused(r)
    BY <2>12, <1>0, <1>c, <1>e DEF ConsumeRefused
  <2>13. CASE RevokeSession(r)
    <3>1. token[r] \in DOMAIN issued /\ SessionOf(token[r]) \in Pair
      BY <2>13, <1>b, <1>d DEF RevokeSession
    <3>2. revoked' \in [Key -> Nat]
      BY <2>13, <3>1, <1>b, <1>c DEF RevokeSession, Record
    <3> QED
      BY <2>13, <3>1, <3>2, <1>0, <1>c, <1>e DEF RevokeSession
  <2>14. CASE StatementError(r)
    BY <2>14, <1>0, <1>a, <1>c, <1>e DEF StatementError
  <2>15. CASE LostReply(r)
    <3>1. CASE pc[r] = "create"
      BY <2>15, <3>1, <1>0, <1>a, <1>c, <1>e DEF LostReply
    <3>2. CASE pc[r] = "consume"
      BY <2>15, <3>2, <1>0, <1>a, <1>b, <1>c, <1>d, <1>e DEF LostReply, Record
    <3>3. CASE pc[r] = "revoke"
      BY <2>15, <3>3, <1>0, <1>a, <1>b, <1>c, <1>d, <1>e DEF LostReply, Record
    <3> QED
      BY <2>15, <3>1, <3>2, <3>3 DEF LostReply
  <2> QED
    BY <1>4, <2>1, <2>2, <2>3, <2>4, <2>5, <2>6, <2>7, <2>8, <2>9, <2>10, <2>11, <2>12,
       <2>13, <2>14, <2>15 DEF Step
<1> QED
  BY <1>1, <1>2, <1>3, <1>4 DEF Next

LEMMA TypeInvInit == Init => TypeInv
<1> SUFFICES ASSUME Init PROVE TypeInv
  OBVIOUS
<1>1. DOMAIN issued = {} /\ issued \in [DOMAIN issued -> Claims]
  BY DEF Init
<1>2. Progress /\ Rooted
  BY <1>1 DEF Init, Progress, Rooted, Way
<1>3. revoked \in [Key -> Nat] /\ faults \subseteq Faults
  BY SessionsAssumptions DEF Init
<1> QED
  BY <1>1, <1>2, <1>3 DEF Init, TypeInv, TypeOK, Phase, Answer

\* Every variable of Sessions keeps its type.
THEOREM SessionsTypeCorrect == Spec => []TypeOK
<1>1. TypeInv => TypeOK
  BY DEF TypeInv
<1> QED
  BY <1>1, TypeInvInit, TypeInvStep, PTL DEF Spec

-----------------------------------------------------------------------------
(* The chain of refresh tokens *)

\* A step that issues nothing, starts no refresh and forgets no used token.
Quiet ==
  /\ UNCHANGED issued
  /\ \A p \in DOMAIN issued : Unconsumed(p)' => Unconsumed(p)
  /\ \A r \in Request :
       pc'[r] = "mint" /\ op'[r] = "refresh" =>
         pc[r] = "mint" /\ op[r] = "refresh" /\ token'[r] = token[r]

LEMMA QuietStep == OneLiveRefresh /\ Quiet => OneLiveRefresh'
<1> SUFFICES ASSUME OneLiveRefresh, Quiet, NEW s \in Pair
             PROVE  /\ Unused(s)' = {} \/ Minting(s)' = {}
                    /\ \A p, q \in Unused(s)' : p = q
                    /\ \A q, r \in Minting(s)' : q = r
  BY DEF OneLiveRefresh
<1>1. Unused(s)' \subseteq Unused(s)
  BY DEF Quiet, Unused, SessionOf
<1>2. Minting(s)' \subseteq Minting(s)
  BY DEF Quiet, Minting, SessionOf
<1> QED
  BY <1>1, <1>2 DEF OneLiveRefresh

\* Using a refresh token is what starts the next link.
LEMMA ConsumeStep ==
  ASSUME TypeInv, OneLiveRefresh, NEW r \in Request, ConsumeToken(r)
  PROVE  OneLiveRefresh'
<1> DEFINE t == token[r]
<1>1. t \in DOMAIN issued /\ t \in Unused(SessionOf(t)) /\ issued[t].sessionExp \in Nat
  BY DEF ConsumeToken, TypeInv, TypeOK, Progress, Way, Unused, Claims
<1>2. /\ UNCHANGED issued
      /\ \A p \in DOMAIN issued : Unconsumed(p)' <=> Unconsumed(p) /\ p # t
  BY <1>1 DEF ConsumeToken, Record, Unconsumed, TypeInv, TypeOK, Key
<1>3. \A q \in Request \ {r} : pc'[q] = pc[q]
  BY DEF ConsumeToken, Goto, TypeInv, TypeOK
<1>4. UNCHANGED <<op, token>>
  BY DEF ConsumeToken, Goto
<1> SUFFICES ASSUME NEW s \in Pair
             PROVE  /\ Unused(s)' = {} \/ Minting(s)' = {}
                    /\ \A p, q \in Unused(s)' : p = q
                    /\ \A q1, q2 \in Minting(s)' : q1 = q2
  BY DEF OneLiveRefresh
<1>5. Unused(s)' = Unused(s) \ {t}
  BY <1>2 DEF Unused, SessionOf
<1>6. CASE s = SessionOf(t)
  <2>1. Minting(s) = {} /\ Unused(s)' = {}
    BY <1>1, <1>5, <1>6 DEF OneLiveRefresh
  <2>2. Minting(s)' \subseteq {r}
    BY <2>1, <1>2, <1>3, <1>4 DEF Minting, SessionOf
  <2> QED
    BY <2>1, <2>2
<1>7. CASE s # SessionOf(t)
  <2>1. Minting(s)' \subseteq Minting(s)
    BY <1>2, <1>3, <1>4, <1>7 DEF Minting, SessionOf
  <2> QED
    BY <2>1, <1>5 DEF OneLiveRefresh
<1> QED
  BY <1>6, <1>7

\* A refresh ends with the one token of the session that can be used.
LEMMA MintStep ==
  ASSUME TypeInv, OneLiveRefresh, NEW r \in Request, Mint(r)
  PROVE  OneLiveRefresh'
<1>1. PICK p \in Pair \ DOMAIN issued :
        CreateTokenPair(p, IF op[r] = "login" THEN p ELSE SessionOf(token[r]))
  BY DEF Mint
<1> DEFINE c == IF op[r] = "login" THEN p ELSE SessionOf(token[r])
<1>2. \A q \in DOMAIN issued : SessionOf(q) \in DOMAIN issued /\ SessionOf(q) \in Pair
  BY DEF TypeInv, TypeOK, Rooted, SessionOf, Claims
<1>3. \A q \in Request : pc[q] = "mint" /\ op[q] # "login" =>
        op[q] = "refresh" /\ token[q] \in DOMAIN issued
  BY DEF TypeInv, TypeOK, Progress, Way
<1>4. c \in Pair /\ (c = p \/ c \in DOMAIN issued)
  BY <1>2, <1>3 DEF Mint
<1>5. /\ DOMAIN issued' = DOMAIN issued \cup {p}
      /\ SessionOf(p)' = c
      /\ \A q \in DOMAIN issued : SessionOf(q)' = SessionOf(q)
  BY <1>1, <1>4, CreateTokenPairType DEF TypeInv, SessionOf
<1>6. UNCHANGED revoked
  BY DEF Mint
<1>7. /\ pc'[r] = "idle"
      /\ \A q \in Request \ {r} : pc'[q] = pc[q] /\ op'[q] = op[q] /\ token'[q] = token[q]
  BY DEF Mint, Respond, TypeInv, TypeOK
<1> SUFFICES ASSUME NEW s \in Pair
             PROVE  /\ Unused(s)' = {} \/ Minting(s)' = {}
                    /\ \A p1, p2 \in Unused(s)' : p1 = p2
                    /\ \A q1, q2 \in Minting(s)' : q1 = q2
  BY DEF OneLiveRefresh
<1>8. Minting(s)' \subseteq Minting(s) \ {r}
  BY <1>3, <1>5, <1>7 DEF Minting
<1>9. CASE s = c
  <2>1. Unused(s) = {}
    <3>1. CASE op[r] = "login"
      BY <3>1, <1>1, <1>2, <1>9 DEF Unused
    <3>2. CASE op[r] # "login"
      <4>1. r \in Minting(s)
        BY <3>2, <1>3, <1>9 DEF Mint, Minting
      <4> QED
        BY <4>1 DEF OneLiveRefresh
    <3> QED
      BY <3>1, <3>2
  <2>2. Minting(s) \subseteq {r}
    <3>1. CASE op[r] = "login"
      BY <3>1, <1>1, <1>2, <1>3, <1>9 DEF Minting
    <3>2. CASE op[r] # "login"
      <4>1. r \in Minting(s)
        BY <3>2, <1>3, <1>9 DEF Mint, Minting
      <4> QED
        BY <4>1 DEF OneLiveRefresh
    <3> QED
      BY <3>1, <3>2
  <2>3. Unused(s)' \subseteq {p}
    BY <2>1, <1>5, <1>6 DEF Unused, Unconsumed
  <2> QED
    BY <2>2, <2>3, <1>8
<1>10. CASE s # c
  <2>1. Unused(s)' \subseteq Unused(s)
    BY <1>5, <1>6, <1>10 DEF Unused, Unconsumed
  <2> QED
    BY <2>1, <1>8 DEF OneLiveRefresh
<1> QED
  BY <1>9, <1>10

LEMMA OneLiveRefreshStep == TypeInv /\ OneLiveRefresh /\ [Next]_vars => OneLiveRefresh'
<1> SUFFICES ASSUME TypeInv, OneLiveRefresh, [Next]_vars PROVE OneLiveRefresh'
  OBVIOUS
<1>0. ASSUME Quiet PROVE OneLiveRefresh'
  BY <1>0, QuietStep
<1> USE DEF TypeInv, TypeOK, Quiet, Unconsumed, requests
<1>1. CASE UNCHANGED vars
  BY <1>1, <1>0 DEF vars
<1>2. CASE Tick
  BY <1>2, <1>0 DEF Tick
<1>3. CASE Crash
  BY <1>3, <1>0 DEF Crash
<1>4. ASSUME NEW r \in Request, Step(r) PROVE OneLiveRefresh'
  <2>a. \A result : Respond(r, result) => \A q \in Request :
          pc'[q] = "mint" => pc[q] = "mint" /\ op'[q] = op[q] /\ token'[q] = token[q]
    BY DEF Respond
  <2>b. \A phase \in Phase : Goto(r, phase) =>
          /\ UNCHANGED <<op, token>>
          /\ pc'[r] = phase
          /\ \A q \in Request \ {r} : pc'[q] = pc[q]
    BY DEF Goto
  <2> USE DEF Phase
  <2>1. CASE LoginRequest(r)
    BY <2>1, <1>0 DEF LoginRequest, Receive
  <2>2. CASE RefreshRequest(r)
    BY <2>2, <2>a, <1>0 DEF RefreshRequest, Receive, Reject
  <2>3. CASE AccessRequest(r)
    BY <2>3, <2>a, <1>0 DEF AccessRequest, Receive, Reject
  <2>4. CASE FindUser(r)
    <3>1. op[r] = "login"
      BY <2>4 DEF FindUser, Progress, Way
    <3> QED
      BY <2>4, <3>1, <2>b, <1>0 DEF FindUser
  <2>5. CASE CreateUser(r)
    <3>1. op[r] = "login"
      BY <2>5 DEF CreateUser, Progress, Way
    <3> QED
      BY <2>5, <3>1, <2>b, <1>0 DEF CreateUser
  <2>6. CASE CreateUserConflict(r)
    BY <2>6, <2>a, <1>0 DEF CreateUserConflict
  <2>7. CASE Mint(r)
    BY <2>7, MintStep
  <2>8. CASE CheckToken(r)
    BY <2>8, <2>a, <2>b, <1>0 DEF CheckToken
  <2>9. CASE CheckSession(r)
    BY <2>9, <2>a, <2>b, <1>0 DEF CheckSession
  <2>10. CASE FindById(r)
    <3>1. op[r] \in {"refresh", "call", "logout"}
      BY <2>10 DEF FindById, Progress, Way
    <3>2. CASE op[r] = "call"
      BY <2>10, <3>2, <2>a, <1>0 DEF FindById
    <3>3. CASE op[r] = "refresh"
      BY <2>10, <3>3, <2>b, <1>0 DEF FindById
    <3>4. CASE op[r] = "logout"
      BY <2>10, <3>4, <2>b, <1>0 DEF FindById
    <3> QED
      BY <3>1, <3>2, <3>3, <3>4
  <2>11. CASE ConsumeToken(r)
    BY <2>11, ConsumeStep
  <2>12. CASE ConsumeRefused(r)
    BY <2>12, <2>a, <1>0 DEF ConsumeRefused
  <2>13. CASE RevokeSession(r)
    BY <2>13, <2>a, <1>0 DEF RevokeSession, Record, Key
  <2>14. CASE StatementError(r)
    BY <2>14, <2>a, <1>0 DEF StatementError
  <2>15. CASE LostReply(r)
    <3>1. CASE pc[r] \in {"create", "revoke"}
      BY <2>15, <3>1, <2>a, <1>0 DEF LostReply, Record, Key
    <3>2. CASE pc[r] = "consume"
      <4>1. issued[token[r]].sessionExp # 0
        BY <2>15, <3>2 DEF LostReply, Progress, Way, Claims
      <4> QED
        BY <2>15, <3>2, <4>1, <2>a, <1>0 DEF LostReply, Record, Key
    <3> QED
      BY <2>15, <3>1, <3>2 DEF LostReply
  <2> QED
    BY <1>4, <2>1, <2>2, <2>3, <2>4, <2>5, <2>6, <2>7, <2>8, <2>9, <2>10, <2>11, <2>12,
       <2>13, <2>14, <2>15 DEF Step
<1> QED
  BY <1>1, <1>2, <1>3, <1>4 DEF Next

\* However often refresh tokens are presented, and whatever fails: a session
\* has at most one refresh token, or refresh under way, that can prolong it.
THEOREM OneChain == Spec => []OneLiveRefresh
<1>1. Init => OneLiveRefresh
  BY DEF Init, OneLiveRefresh, Unused, Minting
<1>2. Init => TypeInv
  BY TypeInvInit
<1> QED
  BY <1>1, <1>2, TypeInvStep, OneLiveRefreshStep, PTL DEF Spec

-----------------------------------------------------------------------------
(* The lifetime of sessions *)

\* "session_exp" is in whole seconds, so that copying it does not change it.
Lifetimes ==
  /\ SessionNeverExtended
  /\ \A p \in DOMAIN issued : WholeSeconds(issued[p].sessionExp) = issued[p].sessionExp

LEMMA LifetimesStep == TypeInv /\ Lifetimes /\ [Next]_vars => Lifetimes'
<1> SUFFICES ASSUME TypeInv, Lifetimes, [Next]_vars PROVE Lifetimes'
  OBVIOUS
<1>1. CASE UNCHANGED issued
  BY <1>1 DEF Lifetimes, SessionNeverExtended, SessionOf
<1>2. ASSUME NEW r \in Request, Mint(r) PROVE Lifetimes'
  <2>1. PICK p \in Pair \ DOMAIN issued :
          CreateTokenPair(p, IF op[r] = "login" THEN p ELSE SessionOf(token[r]))
    BY <1>2 DEF Mint
  <2> DEFINE c == IF op[r] = "login" THEN p ELSE SessionOf(token[r])
             sessionExp == IF c = p THEN now + SessionTtl ELSE issued[c].sessionExp
             accessExp == IF now + AccessTtl < sessionExp THEN now + AccessTtl ELSE sessionExp
  <2>2. c \in Pair /\ (c = p \/ c \in DOMAIN issued)
    BY <1>2, <2>1 DEF Mint, TypeInv, TypeOK, Rooted, SessionOf, Claims, Progress, Way
  <2>3. sessionExp \in Nat /\ accessExp \in Nat /\ accessExp <= sessionExp
    BY <2>2, SessionsAssumptions DEF TypeInv, TypeOK, Claims
  <2>4. /\ DOMAIN issued' = DOMAIN issued \cup {p}
        /\ issued'[p].session = c
        /\ issued'[p].sessionExp = WholeSeconds(sessionExp)
        /\ issued'[p].accessExp = WholeSeconds(accessExp)
        /\ \A q \in DOMAIN issued : issued'[q] = issued[q]
    BY <2>1 DEF CreateTokenPair
  <2> HIDE DEF accessExp
  <2>5. WholeSeconds(accessExp) <= WholeSeconds(sessionExp)
    BY <2>3, WholeSecondsMonotone
  <2>6. WholeSeconds(WholeSeconds(sessionExp)) = WholeSeconds(sessionExp)
    BY <2>3, WholeSecondsOnce
  <2>7. c # p => WholeSeconds(sessionExp) = issued'[c].sessionExp
    BY <2>2, <2>4 DEF Lifetimes
  <2>8. \A q \in DOMAIN issued : SessionOf(q) \in DOMAIN issued
    BY DEF TypeInv, Rooted
  <2> HIDE DEF sessionExp, c
  <2> QED
    BY <2>1, <2>2, <2>4, <2>5, <2>6, <2>7, <2>8 DEF Lifetimes, SessionNeverExtended, SessionOf
<1> QED
  BY <1>1, <1>2
  DEF Next, Step, vars, Tick, Crash, LoginRequest, RefreshRequest, AccessRequest, Receive, Reject,
      FindUser, CreateUser, CreateUserConflict, CheckToken, CheckSession, FindById,
      ConsumeToken, ConsumeRefused, RevokeSession, StatementError, LostReply

\* For any lifetimes and any number of refreshes: every pair of a session ends
\* when the first one does, and no access token outlives it.
THEOREM FixedLifetimes == Spec => []SessionNeverExtended
<1>1. Init => Lifetimes
  BY DEF Init, Lifetimes, SessionNeverExtended
<1>2. Lifetimes => SessionNeverExtended
  BY DEF Lifetimes
<1> QED
  BY <1>1, <1>2, TypeInvInit, TypeInvStep, LifetimesStep, PTL DEF Spec

-----------------------------------------------------------------------------
(* Logout *)

Passed(r) == pc[r] \in {"user", "consume", "mint", "revoke"}

\* A session that is logged out is over, or its key says so until it is; a
\* request that came too late passes the look-up only in the first case.
LogoutInv ==
  /\ \A s \in loggedOut :
       /\ s \in DOMAIN issued
       /\ issued[s].sessionExp <= now \/ revoked[<<"session", s>>] = issued[s].sessionExp
  /\ \A r \in Request : late[r] =>
       /\ op[r] \in {"refresh", "call", "logout"}
       /\ SessionOf(token[r]) \in loggedOut
       /\ Passed(r) => issued[token[r]].sessionExp <= now

FullInv == TypeInv /\ Lifetimes /\ LogoutInv

LEMMA LogoutInvStep == FullInv /\ [Next]_vars => LogoutInv'
<1> SUFFICES ASSUME FullInv, [Next]_vars PROVE LogoutInv'
  OBVIOUS
<1> USE DEF FullInv, TypeInv, TypeOK, LogoutInv, Passed, SessionOf, requests
<1>a. \A r \in Request : op[r] \in {"refresh", "call", "logout"} =>
        /\ token[r] \in DOMAIN issued
        /\ SessionOf(token[r]) \in DOMAIN issued /\ SessionOf(token[r]) \in Pair
        /\ issued[token[r]].sessionExp = issued[SessionOf(token[r])].sessionExp
        /\ issued[token[r]].sessionExp \in Nat
  BY DEF Progress, Lifetimes, SessionNeverExtended, Claims
<1>b. \A s \in DOMAIN issued : issued[s].sessionExp \in Nat
  BY DEF Claims
<1>1. CASE UNCHANGED vars
  BY <1>1 DEF vars
<1>2. CASE Tick
  BY <1>2, <1>a, <1>b DEF Tick
<1>3. CASE Crash
  BY <1>3 DEF Crash
<1>4. ASSUME NEW r \in Request, Step(r) PROVE LogoutInv'
  <2> DEFINE Others ==
        \A q \in Request \ {r} : /\ pc'[q] = pc[q] /\ op'[q] = op[q]
                                 /\ token'[q] = token[q] /\ late'[q] = late[q]
  <2>a. \A result : Respond(r, result) => Others /\ ~late'[r]
    BY DEF Respond
  <2>b. \A phase \in Phase : Goto(r, phase) =>
          Others /\ pc'[r] = phase /\ UNCHANGED <<op, token, late>>
    BY DEF Goto
  <2> USE DEF Phase
  <2>1. CASE LoginRequest(r)
    BY <2>1 DEF LoginRequest, Receive
  <2>2. CASE RefreshRequest(r)
    <3>1. PICK p \in DOMAIN issued :
            Receive(r, "refresh", p, "session") \/ Reject(r)
      BY <2>2 DEF RefreshRequest
    <3>2. CASE Receive(r, "refresh", p, "session")
      BY <3>1, <3>2 DEF Receive
    <3>3. CASE Reject(r)
      BY <3>3, <2>a DEF Reject
    <3> QED
      BY <3>1, <3>2, <3>3
  <2>3. CASE AccessRequest(r)
    <3>1. PICK p \in DOMAIN issued, operation \in {"call", "logout"} :
            Receive(r, operation, p, "token") \/ Reject(r)
      BY <2>3 DEF AccessRequest
    <3>2. CASE Receive(r, operation, p, "token")
      BY <3>1, <3>2 DEF Receive
    <3>3. CASE Reject(r)
      BY <3>3, <2>a DEF Reject
    <3> QED
      BY <3>1, <3>2, <3>3
  <2>4. CASE FindUser(r)
    <3>1. op[r] = "login"
      BY <2>4 DEF FindUser, Progress, Way
    <3> QED
      BY <2>4, <3>1, <2>b DEF FindUser
  <2>5. CASE CreateUser(r)
    <3>1. op[r] = "login"
      BY <2>5 DEF CreateUser, Progress, Way
    <3> QED
      BY <2>5, <3>1, <2>b DEF CreateUser
  <2>6. CASE CreateUserConflict(r)
    BY <2>6, <2>a DEF CreateUserConflict
  <2>7. CASE Mint(r)
    <3>1. PICK p \in Pair \ DOMAIN issued :
            CreateTokenPair(p, IF op[r] = "login" THEN p ELSE SessionOf(token[r]))
      BY <2>7 DEF Mint
    <3>2. /\ DOMAIN issued' = DOMAIN issued \cup {p}
          /\ \A q \in DOMAIN issued : issued'[q] = issued[q]
      BY <3>1 DEF CreateTokenPair
    <3> QED
      BY <2>7, <3>1, <3>2, <2>a, <1>a DEF Mint
  <2>8. CASE CheckToken(r)
    BY <2>8, <2>a, <2>b DEF CheckToken
  <2>9. CASE CheckSession(r)
    BY <2>9, <2>a, <2>b, <1>a DEF CheckSession, Revoked
  <2>10. CASE FindById(r)
    <3>1. op[r] \in {"refresh", "call", "logout"}
      BY <2>10 DEF FindById, Progress, Way
    <3>2. CASE op[r] = "call"
      BY <2>10, <3>2, <2>a DEF FindById
    <3>3. CASE op[r] = "refresh"
      BY <2>10, <3>3, <2>b DEF FindById
    <3>4. CASE op[r] = "logout"
      BY <2>10, <3>4, <2>b DEF FindById
    <3> QED
      BY <3>1, <3>2, <3>3, <3>4
  <2>11. CASE ConsumeToken(r)
    BY <2>11, <2>b DEF ConsumeToken, Record, Key
  <2>12. CASE ConsumeRefused(r)
    BY <2>12, <2>a DEF ConsumeRefused
  <2>13. CASE RevokeSession(r)
    <3>1. op[r] = "logout"
      BY <2>13 DEF RevokeSession, Progress, Way
    <3>2. \A s \in loggedOut' :
            /\ s \in DOMAIN issued
            /\ issued[s].sessionExp <= now \/ revoked'[<<"session", s>>] = issued[s].sessionExp
      <4> DEFINE p == token[r]
      <4>1. /\ loggedOut' = loggedOut \cup {SessionOf(p)}
            /\ p \in DOMAIN issued /\ SessionOf(p) \in DOMAIN issued /\ SessionOf(p) \in Pair
            /\ issued[p].sessionExp = issued[SessionOf(p)].sessionExp
            /\ issued[p].sessionExp \in Nat
        BY <2>13, <3>1, <1>a DEF RevokeSession
      <4>2. CASE issued[p].sessionExp > now
        <5>1. revoked' = [revoked EXCEPT ![<<"session", SessionOf(p)>>] = issued[p].sessionExp]
          BY <2>13, <4>2 DEF RevokeSession, Record
        <5>2. revoked'[<<"session", SessionOf(p)>>] = issued[p].sessionExp
          BY <4>1, <5>1 DEF Key
        <5>3. \A s \in Pair \ {SessionOf(p)} : revoked'[<<"session", s>>] = revoked[<<"session", s>>]
          BY <5>1 DEF Key
        <5> QED
          BY <4>1, <5>2, <5>3
      <4>3. CASE ~(issued[p].sessionExp > now)
        <5>1. UNCHANGED revoked
          BY <2>13, <4>3 DEF RevokeSession
        <5>2. issued[SessionOf(p)].sessionExp <= now
          BY <4>1, <4>3
        <5>3. \A s \in loggedOut : LogoutInv!1!(s)
          OBVIOUS
        <5> QED
          BY <4>1, <5>1, <5>2, <5>3
      <4> QED
        BY <4>2, <4>3
    <3>3. /\ Respond(r, "ok")
          /\ UNCHANGED <<issued, now>>
          /\ loggedOut \subseteq loggedOut'
      BY <2>13 DEF RevokeSession
    <3> QED
      BY <3>2, <3>3, <2>a
  <2>14. CASE StatementError(r)
    BY <2>14, <2>a DEF StatementError
  <2>15. CASE LostReply(r)
    <3>1. CASE pc[r] \in {"create", "consume"}
      BY <2>15, <3>1, <2>a DEF LostReply, Record, Key
    <3>2. CASE pc[r] = "revoke"
      <4>1. op[r] = "logout"
        BY <3>2 DEF Progress, Way
      <4> QED
        BY <2>15, <3>2, <4>1, <2>a, <1>a DEF LostReply, Record, Key
    <3> QED
      BY <2>15, <3>1, <3>2 DEF LostReply
  <2> QED
    BY <1>4, <2>1, <2>2, <2>3, <2>4, <2>5, <2>6, <2>7, <2>8, <2>9, <2>10, <2>11, <2>12,
       <2>13, <2>14, <2>15 DEF Step
<1> QED
  BY <1>1, <1>2, <1>3, <1>4 DEF Next

\* A request is accepted in the last step of its way only.
LEMMA AcceptedHasPassed ==
  ASSUME TypeInv, [Next]_vars, NEW r \in Request, Accepted(r)
  PROVE  Passed(r)
<1> SUFFICES ASSUME ~Passed(r) PROVE FALSE
  OBVIOUS
<1> USE DEF Accepted, Passed, TypeInv, TypeOK
<1>1. ASSUME NEW q \in Request, q # r, Step(q) PROVE pc'[r] = pc[r]
  <2>1. \A result : Respond(q, result) => pc'[r] = pc[r]
    BY <1>1 DEF Respond
  <2>2. \A phase : Goto(q, phase) => pc'[r] = pc[r]
    BY <1>1 DEF Goto
  <2>3. \A operation, p, phase : Receive(q, operation, p, phase) => pc'[r] = pc[r]
    BY <1>1 DEF Receive
  <2>4. CASE FindById(q)
    <3>1. op[q] \in {"refresh", "call", "logout"}
      BY <2>4 DEF FindById, Progress, Way
    <3>2. (\E result : Respond(q, result)) \/ (\E phase : Goto(q, phase))
      BY <2>4, <3>1 DEF FindById
    <3> QED
      BY <3>2, <2>1, <2>2
  <2>5. CASE ~FindById(q)
    BY <1>1, <2>1, <2>2, <2>3, <2>5
    DEF Step, LoginRequest, RefreshRequest, AccessRequest, FindUser, CreateUser,
        CreateUserConflict, Mint, CheckToken, CheckSession, ConsumeToken,
        ConsumeRefused, RevokeSession, StatementError, LostReply, Reject
  <2> QED
    BY <2>4, <2>5
<1>2. ~Step(r)
  BY DEF Step, LoginRequest, RefreshRequest, AccessRequest, Receive, Reject, Goto, Respond,
      FindUser, CreateUser, CreateUserConflict, Mint, CheckToken, CheckSession, FindById,
      ConsumeToken, ConsumeRefused, RevokeSession, StatementError, LostReply
<1> QED
  BY <1>1, <1>2 DEF Next, Tick, Crash, vars, requests

\* A logout that was answered is final: no request of the session that comes
\* later is served, unless the session has expired by then.
THEOREM LogoutIsFinal == Spec => LogoutFinal
<1>1. Init => FullInv
  BY TypeInvInit
  DEF Init, FullInv, Lifetimes, SessionNeverExtended, LogoutInv
<1>2. FullInv /\ [Next]_vars => FullInv'
  BY TypeInvStep, LifetimesStep, LogoutInvStep DEF FullInv
<1>3. FullInv /\ [Next]_vars =>
        [\A r \in Request : late[r] /\ Accepted(r) => issued[token[r]].sessionExp <= now]_vars
  BY AcceptedHasPassed DEF FullInv, LogoutInv
<1> QED
  BY <1>1, <1>2, <1>3, PTL DEF Spec, LogoutFinal
================================================================================
