-------------------------- MODULE AgentStreamProofs ---------------------------
(***************************************************************************)
(* Theorems about AgentStream for any number of parts and heartbeats and   *)
(* any failures: types, the quiet end, and that the transports implement   *)
(* AnswerDelivery.                                                         *)
(***************************************************************************)
EXTENDS AgentStream, NaturalsInduction, WellFoundedInduction, TLAPS

Closes(frame) == frame.type \in {"completed", "failed"}

\* The frame the handler waits for, which has not been written.
Pending == awaited > 0 /\ ~(stalled /\ awaited = 1)

\* The handler waits for the only frame of the chain that is no heartbeat; a
\* closed stream waits for nobody, and is left open by nobody.
Chain ==
  /\ \A i \in 1 .. Len(queue) : queue[i].type = "ping" <=> i # awaited
  /\ stalled => queue # <<>>
  /\ stream = "closed" => ~heartbeat /\ ~stalled
  /\ stream = "idle" => turn = "start"
  /\ turn = "start" => awaited = 0
  /\ turn = "over" => stream = "closed"
  /\ socket # "open" => stream = "closed"

\* Where respond is, the turn is too, and before the agent has accepted there
\* is no answer.  An agent that is answering has not sent all of it.
Respond ==
  /\ turn = "start" => respond = "idle"
  /\ turn \in {"start", "respond"} <=> verdict = "none"
  /\ respond = "over" <=> verdict # "none"
  /\ timer => respond \in {"fetch", "read"}
  /\ respond \in {"idle", "fetch"} =>
       agent = "waiting" /\ said = 0 /\ wire = <<>> /\ lines = <<>> /\ ~result
  /\ respond = "fetch" => awaited = 0
  /\ agent = "answering" => ~Whole

\* What the handler waits for belongs to where it is, the terminal event is
\* the last one, and is what the server decided.
Ending ==
  /\ awaited > 0 /\ queue[awaited].type = "delta" => respond = "read"
  /\ awaited > 0 => (Closes(queue[awaited]) <=> turn \in {"end", "drain", "over"})
  /\ Pending /\ Closes(queue[awaited]) =>
       queue[awaited] = Event(IF verdict = "answered" THEN "completed" ELSE "failed")
  /\ (\E i \in 1 .. Len(written) : Closes(written[i])) =>
       ~Pending /\ turn \in {"end", "drain", "over"}
  /\ turn \in {"end", "drain"} /\ stream # "closed" =>
       Pending \/ (written # <<>> /\ Closes(Last(written)))
  /\ socket = "ended" => queue = <<>> /\ written # <<>> /\ Closes(Last(written))

\* Lines carry the parts after the first n, up to the m-th, in order and once.
Carries(s, n, m) ==
  /\ n <= m
  /\ \A i \in 1 .. Len(s) : s[i].type = "delta" => s[i].part \in n + 1 .. m
  /\ \A i, j \in 1 .. Len(s) :
       i < j /\ s[i].type = "delta" /\ s[j].type = "delta" => s[i].part < s[j].part
  /\ \A k \in n + 1 .. m : \E i \in 1 .. Len(s) : s[i] = Part(k)

\* A part is under way to the client.
Passing == Pending /\ queue[awaited].type = "delta"

\* Until the client leaves, each part is written, under way to it, or on the
\* lines not yet consumed.
NoneLost ==
  /\ PartsOf(written) \in Seq(Nat)
  /\ stream # "closed" /\ Passing => 
       /\ queue[awaited].part = Len(PartsOf(written)) + 1
       /\ Carries(lines \o wire, Len(PartsOf(written)) + 1, said)
  /\ stream # "closed" /\ ~Passing => Carries(lines \o wire, Len(PartsOf(written)), said)

StreamInv == TypeOK /\ Chain /\ Respond /\ Ending /\ NoneLost
-------------------------------------------------------------------------------
(* Induction over numbers, stated with sets: the provers find a set where   *)
(* they do not find an operator.                                            *)

\* A nonempty set of numbers has a least one.
LEMMA Least ==
  ASSUME NEW S, S \subseteq Nat, S # {}
  PROVE  \E n \in S : \A m \in S : n <= m
<1>1. IsWellFoundedOn(OpToRel(<, Nat), Nat)
  BY NatLessThanWellFounded
<1>2. PICK n \in S : \A m \in S : ~(<<m, n>> \in OpToRel(<, Nat))
  BY <1>1, WFMin
<1>3. \A m \in S : ~(m < n)
  BY <1>2 DEF OpToRel
<1> QED
  BY <1>3

\* A set that holds 0 and with every number the next one holds them all.
LEMMA SetInduction ==
  ASSUME NEW S, 0 \in S, \A n \in Nat : n \in S => n + 1 \in S
  PROVE  Nat \subseteq S
<1> SUFFICES ASSUME NEW k \in Nat, k \notin S PROVE FALSE
  OBVIOUS
<1> DEFINE T == {n \in Nat : n \notin S}
<1>1. PICK n \in T : \A m \in T : n <= m
  BY Least
<1>2. n # 0 /\ n - 1 \in Nat /\ n - 1 \notin T
  BY <1>1
<1>3. n - 1 \in S
  BY <1>2
<1> QED
  BY <1>1, <1>2, <1>3

-------------------------------------------------------------------------------
(* The parts among the frames that were written.                            *)

\* The function that PartsOf defines exists, and obeys its equation.
LEMMA PartsFunction ==
  ASSUME NEW frames, Len(frames) \in Nat
  PROVE  \E f : /\ PartsOf(frames) = f[Len(frames)]
                /\ f[0] = <<>>
                /\ \A k \in 1 .. Len(frames) :
                     f[k] = IF frames[k].type = "delta"
                            THEN Append(f[k - 1], frames[k].part) ELSE f[k - 1]
<1> DEFINE Step(f, k) == IF k = 0 THEN <<>>
                         ELSE IF frames[k].type = "delta"
                              THEN Append(f[k - 1], frames[k].part) ELSE f[k - 1]
           Defined == {n \in Nat : \E f : f = [k \in 0 .. n |-> Step(f, k)]}
           found == CHOOSE f : f = [k \in 0 .. Len(frames) |-> Step(f, k)]
<1>1. 0 \in Defined
  <2> DEFINE f == [k \in 0 .. 0 |-> <<>>]
  <2>1. f = [k \in 0 .. 0 |-> Step(f, k)]
    OBVIOUS
  <2> QED
    BY <2>1
<1>2. ASSUME NEW n \in Nat, n \in Defined PROVE n + 1 \in Defined
  <2> PICK f : f = [k \in 0 .. n |-> Step(f, k)]
    BY <1>2
  <2> DEFINE g == [k \in 0 .. n + 1 |-> IF k <= n THEN f[k] ELSE Step(f, k)]
  <2>1. ASSUME NEW k \in 0 .. n + 1 PROVE g[k] = Step(g, k)
    <3>1. k # 0 => g[k - 1] = f[k - 1]
      OBVIOUS
    <3>2. Step(g, k) = Step(f, k)
      <4> HIDE DEF g
      <4> QED
        BY <3>1
    <3>3. k <= n => f[k] = Step(f, k)
      <4> HIDE DEF Step
      <4> QED
        OBVIOUS
    <3> HIDE DEF Step
    <3> QED
      BY <3>2, <3>3
  <2>2. g = [k \in 0 .. n + 1 |-> Step(g, k)]
    <3>1. g = [k \in 0 .. n + 1 |-> g[k]]
      OBVIOUS
    <3> HIDE DEF g, Step
    <3> QED
      BY <2>1, <3>1
  <2>3. \E h : h = [k \in 0 .. n + 1 |-> Step(h, k)]
    <3> HIDE DEF g, Step
    <3> QED
      BY <2>2
  <2> HIDE DEF Step
  <2> QED
    BY <2>3
<1>3. \E f : f = [k \in 0 .. Len(frames) |-> Step(f, k)]
  <2> HIDE DEF Step
  <2> QED
    BY <1>1, <1>2, SetInduction
<1>4. found = [k \in 0 .. Len(frames) |-> Step(found, k)]
  BY <1>3
<1>5. PartsOf(frames) = found[Len(frames)]
  BY DEF PartsOf
<1>6. \A k \in 0 .. Len(frames) : found[k] = Step(found, k)
  <2> HIDE DEF Step, found
  <2> QED
    BY <1>4
<1> HIDE DEF found
<1> QED
  BY <1>5, <1>6

LEMMA PartsOfNone == PartsOf(<<>>) = <<>>
BY PartsFunction

\* A further frame adds at most its own part.
LEMMA PartsOfMore ==
  ASSUME NEW S, NEW frames \in Seq(S), NEW frame \in S
  PROVE  /\ frame.type = "delta" =>
              PartsOf(Append(frames, frame)) = Append(PartsOf(frames), frame.part)
         /\ frame.type # "delta" => PartsOf(Append(frames, frame)) = PartsOf(frames)
<1> DEFINE more == Append(frames, frame)
           n == Len(frames)
<1>a. /\ n \in Nat /\ Len(more) = n + 1 /\ more[n + 1] = frame
      /\ \A k \in 1 .. n : more[k] = frames[k]
  OBVIOUS
<1> HIDE DEF more
<1>1. PICK f : /\ PartsOf(frames) = f[n] /\ f[0] = <<>>
               /\ \A k \in 1 .. n : f[k] = IF frames[k].type = "delta"
                                    THEN Append(f[k - 1], frames[k].part) ELSE f[k - 1]
  BY <1>a, PartsFunction
<1>2. PICK g : /\ PartsOf(more) = g[n + 1] /\ g[0] = <<>>
               /\ \A k \in 1 .. n + 1 : g[k] = IF more[k].type = "delta"
                                        THEN Append(g[k - 1], more[k].part) ELSE g[k - 1]
  BY <1>a, PartsFunction
<1> DEFINE Same == {k \in Nat : k <= n => f[k] = g[k]}
<1>3. 0 \in Same
  BY <1>1, <1>2
<1>4. ASSUME NEW k \in Nat, k \in Same PROVE k + 1 \in Same
  BY <1>a, <1>1, <1>2, <1>4
<1>5. f[n] = g[n]
  <2>1. n \in Same
    <3> HIDE DEF Same
    <3> QED
      BY <1>a, <1>3, <1>4, SetInduction
  <2> QED
    BY <2>1
<1>6. g[n + 1] = IF frame.type = "delta" THEN Append(g[n], frame.part) ELSE g[n]
  BY <1>a, <1>2
<1> QED
  BY <1>1, <1>2, <1>5, <1>6 DEF more

-------------------------------------------------------------------------------
(* Lines on their way.                                                      *)

LEMMA TailItems ==
  ASSUME NEW S, NEW s \in Seq(S), s # <<>>
  PROVE  /\ Tail(s) \in Seq(S) /\ Len(Tail(s)) = Len(s) - 1 /\ Len(s) \in Nat \ {0}
         /\ Head(s) = s[1] /\ Head(s) \in S
         /\ \A i \in 1 .. Len(s) - 1 : Tail(s)[i] = s[i + 1]
OBVIOUS

LEMMA JoinItems ==
  ASSUME NEW S, NEW s \in Seq(S), NEW t \in Seq(S)
  PROVE  /\ s \o t \in Seq(S) /\ Len(s \o t) = Len(s) + Len(t)
         /\ \A i \in 1 .. Len(s) : (s \o t)[i] = s[i]
         /\ \A i \in Len(s) + 1 .. Len(s) + Len(t) : (s \o t)[i] = t[i - Len(s)]
OBVIOUS

\* Lines are the same, whatever part of them has been read.
LEMMA JoinTail ==
  ASSUME NEW S, NEW s \in Seq(S), NEW t \in Seq(S), s # <<>>
  PROVE  s \o t # <<>> /\ Head(s \o t) = Head(s) /\ Tail(s) \o t = Tail(s \o t)
<1>1. s \o t # <<>> /\ Head(s \o t) = Head(s)
  BY JoinItems, TailItems
<1> DEFINE u == Tail(s) \o t
           v == Tail(s \o t)
<1>2. /\ u \in Seq(S) /\ Len(u) = Len(s) - 1 + Len(t) 
      /\ \A i \in 1 .. Len(s) - 1 : u[i] = s[i + 1]
      /\ \A i \in Len(s) .. Len(s) - 1 + Len(t) : u[i] = t[i - (Len(s) - 1)]
  BY JoinItems, TailItems
<1>3. /\ v \in Seq(S) /\ Len(v) = Len(s) + Len(t) - 1
      /\ \A i \in 1 .. Len(s) + Len(t) - 1 : v[i] = (s \o t)[i + 1]
  BY <1>1, JoinItems, TailItems
<1>a. Len(s) \in Nat \ {0} /\ Len(t) \in Nat
  BY TailItems
<1>4. ASSUME NEW i \in 1 .. Len(s) - 1 PROVE v[i] = s[i + 1]
  <2>1. i \in 1 .. Len(s) + Len(t) - 1 /\ i + 1 \in 1 .. Len(s)
    BY <1>a
  <2>2. (s \o t)[i + 1] = s[i + 1]
    BY <2>1, JoinItems
  <2> HIDE DEF v
  <2> QED
    BY <1>3, <2>1, <2>2
<1>5. ASSUME NEW i \in Len(s) .. Len(s) - 1 + Len(t) PROVE v[i] = t[i - (Len(s) - 1)]
  <2>1. i \in 1 .. Len(s) + Len(t) - 1 /\ i + 1 \in Len(s) + 1 .. Len(s) + Len(t)
    BY <1>a
  <2>2. (s \o t)[i + 1] = t[(i + 1) - Len(s)]
    BY <2>1, JoinItems
  <2>3. (i + 1) - Len(s) = i - (Len(s) - 1)
    BY <1>a
  <2> HIDE DEF v
  <2> QED
    BY <1>3, <2>1, <2>2, <2>3
<1>6. u = v
  <2> HIDE DEF u, v
  <2>1. ASSUME NEW i \in 1 .. Len(u) PROVE u[i] = v[i]
    <3>1. i \in 1 .. Len(s) - 1 \/ i \in Len(s) .. Len(s) - 1 + Len(t)
      BY <1>2, <1>a
    <3> QED
      BY <1>2, <1>4, <1>5, <3>1
  <2> QED
    BY <1>2, <1>3, <1>a, <2>1
<1> QED
  BY <1>1, <1>6

LEMMA JoinSplit ==
  ASSUME NEW S, NEW s \in Seq(S), NEW n \in 1 .. Len(s)
  PROVE  /\ SubSeq(s, 1, n) \in Seq(S) /\ SubSeq(s, n + 1, Len(s)) \in Seq(S)
         /\ SubSeq(s, 1, n) \o SubSeq(s, n + 1, Len(s)) = s
<1> DEFINE t == SubSeq(s, 1, n)
           u == SubSeq(s, n + 1, Len(s))
<1>1. /\ t \in Seq(S) /\ Len(t) = n /\ \A i \in 1 .. n : t[i] = s[i]
      /\ u \in Seq(S) /\ Len(u) = Len(s) - n /\ \A i \in 1 .. Len(s) - n : u[i] = s[n + i]
  OBVIOUS
<1> HIDE DEF t, u
<1>a. Len(s) \in Nat /\ n \in Nat /\ n <= Len(s)
  OBVIOUS
<1>2. /\ t \o u \in Seq(S) /\ Len(t \o u) = Len(s)
      /\ \A i \in 1 .. n : (t \o u)[i] = t[i]
      /\ \A i \in n + 1 .. Len(s) : (t \o u)[i] = u[i - n]
  BY <1>1, <1>a, JoinItems
<1>3. t \o u = s
  <2>1. ASSUME NEW i \in 1 .. Len(s) PROVE (t \o u)[i] = s[i]
    <3>1. CASE i \in 1 .. n
      BY <1>1, <1>2, <3>1
    <3>2. CASE i \in n + 1 .. Len(s)
      <4>1. i - n \in 1 .. Len(s) - n /\ n + (i - n) = i
        BY <1>a, <3>2
      <4> QED
        BY <1>1, <1>2, <3>2, <4>1
    <3>3. i \in 1 .. n \/ i \in n + 1 .. Len(s)
      BY <1>a
    <3> QED
      BY <3>1, <3>2, <3>3
  <2> DEFINE v == t \o u
  <2>2. v \in Seq(S) /\ Len(v) = Len(s)
    BY <1>2
  <2> HIDE DEF v
  <2>3. \A i \in 1 .. Len(s) : v[i] = s[i]
    BY <2>1 DEF v
  <2>4. v = s
    BY <2>2, <2>3
  <2> QED
    BY <2>4 DEF v
<1> QED
  BY <1>1, <1>3 DEF t, u

\* Whole does not depend on how the lines are divided.
LEMMA ContainsJoin ==
  ASSUME NEW S, NEW s \in Seq(S), NEW t \in Seq(S), NEW e
  PROVE  Contains(s \o t, e) <=> Contains(s, e) \/ Contains(t, e)
<1>1. ASSUME Contains(s, e) \/ Contains(t, e) PROVE Contains(s \o t, e)
  <2>1. CASE Contains(s, e)
    BY <2>1, JoinItems DEF Contains
  <2>2. CASE Contains(t, e)
    <3> PICK i \in 1 .. Len(t) : t[i] = e
      BY <2>2 DEF Contains
    <3>1. Len(s) + i \in 1 .. Len(s \o t) /\ (s \o t)[Len(s) + i] = e
      BY JoinItems
    <3> QED
      BY <3>1 DEF Contains
  <2> QED
    BY <1>1, <2>1, <2>2
<1>2. ASSUME Contains(s \o t, e) PROVE Contains(s, e) \/ Contains(t, e)
  <2> PICK i \in 1 .. Len(s \o t) : (s \o t)[i] = e
    BY <1>2 DEF Contains
  <2>1. CASE i <= Len(s)
    BY <2>1, JoinItems DEF Contains
  <2>2. CASE i > Len(s)
    <3>1. i - Len(s) \in 1 .. Len(t) /\ t[i - Len(s)] = e
      BY <2>2, JoinItems
    <3> QED
      BY <3>1 DEF Contains
  <2> QED
    BY <2>1, <2>2
<1> QED
  BY <1>1, <1>2

LEMMA ContainsTail ==
  ASSUME NEW S, NEW s \in Seq(S), s # <<>>, NEW e, Head(s) # e
  PROVE  Contains(Tail(s), e) <=> Contains(s, e)
<1>1. ASSUME Contains(Tail(s), e) PROVE Contains(s, e)
  <2> PICK i \in 1 .. Len(s) - 1 : Tail(s)[i] = e
    BY <1>1, TailItems DEF Contains
  <2>1. i + 1 \in 1 .. Len(s) /\ s[i + 1] = e
    BY TailItems
  <2> QED
    BY <2>1 DEF Contains
<1>2. ASSUME Contains(s, e) PROVE Contains(Tail(s), e)
  <2> PICK i \in 1 .. Len(s) : s[i] = e
    BY <1>2 DEF Contains
  <2>1. i - 1 \in 1 .. Len(Tail(s)) /\ Tail(s)[i - 1] = e
    BY TailItems
  <2> QED
    BY <2>1 DEF Contains
<1> QED
  BY <1>1, <1>2

LEMMA ContainsMore ==
  ASSUME NEW S, NEW s \in Seq(S), NEW e, NEW x \in S
  PROVE  Contains(Append(s, x), e) <=> Contains(s, e) \/ x = e
<1>1. /\ Len(Append(s, x)) = Len(s) + 1 /\ Len(s) \in Nat /\ Append(s, x)[Len(s) + 1] = x
      /\ \A i \in 1 .. Len(s) : Append(s, x)[i] = s[i]
  OBVIOUS
<1>2. Contains(Append(s, x), e) => Contains(s, e) \/ x = e
  <2> SUFFICES ASSUME NEW i \in 1 .. Len(s) + 1, Append(s, x)[i] = e, x # e
               PROVE  Contains(s, e)
    BY <1>1 DEF Contains
  <2>1. i \in 1 .. Len(s) /\ s[i] = e
    BY <1>1
  <2> QED
    BY <2>1 DEF Contains
<1>3. Contains(s, e) => Contains(Append(s, x), e)
  BY <1>1 DEF Contains
<1>4. x = e => Contains(Append(s, x), e)
  BY <1>1 DEF Contains
<1> QED
  BY <1>2, <1>3, <1>4

\* The first line with a part carries the next part, ...
LEMMA CarriesNext ==
  ASSUME NEW s \in Seq(Line), NEW n \in Nat, NEW m \in Nat, Carries(s, n, m),
         s # <<>>, Head(s).type = "delta"
  PROVE  Head(s).part = n + 1 /\ Carries(Tail(s), n + 1, m)
<1>a. /\ Head(s) = s[1] /\ Len(s) \in Nat \ {0} /\ Len(Tail(s)) = Len(s) - 1
      /\ \A i \in 1 .. Len(s) - 1 : Tail(s)[i] = s[i + 1]
  BY TailItems
<1>b. s[1].part \in n + 1 .. m
  BY <1>a DEF Carries
<1>1. s[1].part = n + 1
  <2> PICK i \in 1 .. Len(s) : s[i] = Part(n + 1)
    BY <1>b DEF Carries
  <2>1. s[i].type = "delta" /\ s[i].part = n + 1
    BY DEF Part
  <2>2. i = 1 \/ s[1].part < n + 1
    BY <1>a, <2>1 DEF Carries
  <2> QED
    BY <1>b, <2>1, <2>2
<1>2. ASSUME NEW i \in 1 .. Len(s) - 1, Tail(s)[i].type = "delta"
      PROVE  Tail(s)[i].part \in n + 2 .. m
  <2>1. s[i + 1].type = "delta" /\ s[i + 1].part \in n + 1 .. m /\ s[1].part < s[i + 1].part
    BY <1>a, <1>2 DEF Carries
  <2> QED
    BY <1>a, <1>1, <2>1
<1>3. ASSUME NEW i \in 1 .. Len(s) - 1, NEW j \in 1 .. Len(s) - 1, i < j,
             Tail(s)[i].type = "delta", Tail(s)[j].type = "delta"
      PROVE  Tail(s)[i].part < Tail(s)[j].part
  <2>1. i + 1 \in 1 .. Len(s) /\ j + 1 \in 1 .. Len(s) /\ i + 1 < j + 1
    BY <1>a, <1>3
  <2> QED
    BY <1>a, <1>3, <2>1 DEF Carries
<1>4. ASSUME NEW k \in n + 2 .. m PROVE \E i \in 1 .. Len(s) - 1 : Tail(s)[i] = Part(k)
  <2> PICK i \in 1 .. Len(s) : s[i] = Part(k)
    BY DEF Carries
  <2>1. i # 1
    BY <1>1 DEF Part
  <2>2. i - 1 \in 1 .. Len(s) - 1 /\ Tail(s)[i - 1] = Part(k)
    BY <1>a, <2>1
  <2> QED
    BY <2>2
<1>5. (n + 1) + 1 = n + 2 /\ n + 1 <= m
  BY <1>b
<1> QED
  BY <1>a, <1>1, <1>2, <1>3, <1>4, <1>5 DEF Carries

\* ... any other line may be dropped, ...
LEMMA CarriesSkip ==
  ASSUME NEW s \in Seq(Line), NEW n \in Nat, NEW m \in Nat, Carries(s, n, m),
         s # <<>>, Head(s).type # "delta"
  PROVE  Carries(Tail(s), n, m)
<1>a. /\ Head(s) = s[1] /\ Len(s) \in Nat \ {0} /\ Len(Tail(s)) = Len(s) - 1
      /\ \A i \in 1 .. Len(s) - 1 : Tail(s)[i] = s[i + 1] /\ i + 1 \in 1 .. Len(s)
  BY TailItems
<1>1. ASSUME NEW i \in 1 .. Len(s) - 1, Tail(s)[i].type = "delta"
      PROVE  Tail(s)[i].part \in n + 1 .. m
  BY <1>a, <1>1 DEF Carries
<1>2. ASSUME NEW i \in 1 .. Len(s) - 1, NEW j \in 1 .. Len(s) - 1, i < j,
             Tail(s)[i].type = "delta", Tail(s)[j].type = "delta"
      PROVE  Tail(s)[i].part < Tail(s)[j].part
  <2>1. i + 1 < j + 1
    BY <1>2
  <2> QED
    BY <1>a, <1>2, <2>1 DEF Carries
<1>3. ASSUME NEW k \in n + 1 .. m PROVE \E i \in 1 .. Len(s) - 1 : Tail(s)[i] = Part(k)
  <2> PICK i \in 1 .. Len(s) : s[i] = Part(k)
    BY DEF Carries
  <2>1. i - 1 \in 1 .. Len(s) - 1 /\ Tail(s)[i - 1] = Part(k)
    BY <1>a DEF Part
  <2> QED
    BY <2>1
<1> QED
  BY <1>a, <1>1, <1>2, <1>3 DEF Carries

\* ... the agent adds the next part, ...
LEMMA CarriesMore ==
  ASSUME NEW s \in Seq(Line), NEW n \in Nat, NEW m \in Nat, Carries(s, n, m)
  PROVE  Carries(Append(s, Part(m + 1)), n, m + 1)
<1> DEFINE t == Append(s, Part(m + 1))
<1>a. /\ Len(s) \in Nat /\ Len(t) = Len(s) + 1 /\ t[Len(s) + 1] = Part(m + 1)
      /\ \A i \in 1 .. Len(s) : t[i] = s[i]
  OBVIOUS
<1>b. Part(m + 1).type = "delta" /\ Part(m + 1).part = m + 1
  BY DEF Part
<1> HIDE DEF t
<1>1. ASSUME NEW i \in 1 .. Len(s) + 1, t[i].type = "delta" PROVE t[i].part \in n + 1 .. m + 1
  <2>1. CASE i = Len(s) + 1
    BY <1>a, <1>b, <2>1 DEF Carries
  <2>2. CASE i \in 1 .. Len(s)
    <3>1. s[i].part \in n + 1 .. m
      BY <1>a, <1>1, <2>2 DEF Carries
    <3> QED
      BY <1>a, <2>2, <3>1
  <2> QED
    BY <1>a, <2>1, <2>2
<1>2. ASSUME NEW i \in 1 .. Len(s) + 1, NEW j \in 1 .. Len(s) + 1, i < j,
             t[i].type = "delta", t[j].type = "delta"
      PROVE  t[i].part < t[j].part
  <2>1. i \in 1 .. Len(s) /\ s[i].type = "delta" /\ s[i].part \in n + 1 .. m
    BY <1>a, <1>2 DEF Carries
  <2>2. CASE j = Len(s) + 1
    BY <1>a, <1>b, <2>1, <2>2
  <2>3. CASE j \in 1 .. Len(s)
    BY <1>a, <1>2, <2>1, <2>3 DEF Carries
  <2> QED
    BY <1>a, <2>2, <2>3
<1>3. ASSUME NEW k \in n + 1 .. m + 1 PROVE \E i \in 1 .. Len(s) + 1 : t[i] = Part(k)
  <2>1. CASE k = m + 1
    BY <1>a, <2>1
  <2>2. CASE k \in n + 1 .. m
    <3> PICK i \in 1 .. Len(s) : s[i] = Part(k)
      BY <2>2 DEF Carries
    <3>1. i \in 1 .. Len(s) + 1 /\ t[i] = Part(k)
      BY <1>a
    <3> QED
      BY <3>1
  <2> QED
    BY <2>1, <2>2
<1>4. n <= m + 1
  BY DEF Carries
<1>5. Carries(t, n, m + 1)
  BY <1>a, <1>1, <1>2, <1>3, <1>4 DEF Carries
<1> QED
  BY <1>5 DEF t

\* ... or lines without parts, ...
LEMMA CarriesExtra ==
  ASSUME NEW s \in Seq(Line), NEW t \in Seq(Line), NEW n \in Nat, NEW m \in Nat,
         Carries(s, n, m), \A i \in 1 .. Len(t) : t[i].type # "delta"
  PROVE  Carries(s \o t, n, m)
<1> DEFINE u == s \o t
<1>a. /\ Len(s) \in Nat /\ Len(t) \in Nat /\ Len(u) = Len(s) + Len(t)
      /\ \A i \in 1 .. Len(s) : u[i] = s[i] /\ i \in 1 .. Len(u)
  BY JoinItems
<1>b. ASSUME NEW i \in 1 .. Len(u), u[i].type = "delta" PROVE i \in 1 .. Len(s)
  <2> SUFFICES ASSUME i \in Len(s) + 1 .. Len(s) + Len(t) PROVE FALSE
    BY <1>a
  <2>1. i - Len(s) \in 1 .. Len(t) /\ u[i] = t[i - Len(s)]
    BY <1>a, JoinItems
  <2> QED
    BY <1>b, <2>1
<1> HIDE DEF u
<1>1. ASSUME NEW i \in 1 .. Len(u), u[i].type = "delta" PROVE u[i].part \in n + 1 .. m
  BY <1>a, <1>b, <1>1 DEF Carries
<1>2. ASSUME NEW i \in 1 .. Len(u), NEW j \in 1 .. Len(u), i < j,
             u[i].type = "delta", u[j].type = "delta"
      PROVE  u[i].part < u[j].part
  <2>1. i \in 1 .. Len(s) /\ j \in 1 .. Len(s)
    BY <1>b, <1>2
  <2> QED
    BY <1>a, <1>2, <2>1 DEF Carries
<1>3. ASSUME NEW k \in n + 1 .. m PROVE \E i \in 1 .. Len(u) : u[i] = Part(k)
  <2> PICK i \in 1 .. Len(s) : s[i] = Part(k)
    BY DEF Carries
  <2> QED
    BY <1>a
<1>4. Carries(u, n, m)
  BY <1>1, <1>2, <1>3 DEF Carries
<1> QED
  BY <1>4 DEF u

\* ... and when no line is left all parts have been passed on.
LEMMA CarriesAll ==
  ASSUME NEW n \in Nat, NEW m \in Nat, Carries(<<>>, n, m)
  PROVE  n = m
<1>1. \A k \in n + 1 .. m : FALSE
  BY DEF Carries
<1> QED
  BY <1>1 DEF Carries

-------------------------------------------------------------------------------
(* Initial states, and what single operations do to the chain of writes.    *)

LEMMA LineKinds ==
  /\ \A x \in Line : x.type = "delta" => x \in Parts /\ x \in Frame /\ x # Event("ping")
  /\ \A x \in Frame : x.type = "ping" <=> x = Event("ping")
  /\ \A type : Event(type).type = type
  /\ \A n : Part(n).type = "delta" /\ Part(n).part = n
  /\ \A x \in Parts : x.type = "delta" /\ x.part \in 1 .. MaxParts
BY DEF Line, Frame, Parts, Part, Event

LEMMA StreamInit == Init => StreamInv
<1> SUFFICES ASSUME Init PROVE StreamInv
  OBVIOUS
<1>5. Len(<<>>) = 0 /\ <<>> \o <<>> = <<>>
  OBVIOUS
<1>1. TypeOK
  <2>1. 0 \in 0 .. MaxParts /\ 0 \in 0 .. Len(<<>>)
    BY <1>5, AgentStreamAssumptions
  <2>2. said \in 0 .. MaxParts /\ awaited \in 0 .. Len(queue)
    BY <2>1 DEF Init
  <2>3. wire \in Seq(Line) /\ lines \in Seq(Line) /\ queue \in Seq(Frame)
        /\ written \in Seq(Frame \ {Event("ping")})
    BY DEF Init
  <2> QED
    BY <2>2, <2>3 DEF Init, TypeOK
<1>2. Chain
  BY DEF Init, Chain
<1>3. Respond
  BY DEF Init, Respond
<1>4. Ending
  BY DEF Init, Ending, Pending
<1>6. Carries(<<>>, 0, 0)
  BY <1>5 DEF Carries
<1>7. NoneLost
  <2>1. PartsOf(written) = <<>> /\ lines \o wire = <<>> /\ said = 0 /\ ~Passing
    BY <1>5, PartsOfNone DEF Init, Passing, Pending
  <2> QED
    BY <1>5, <1>6, <2>1 DEF NoneLost
<1> QED
  BY <1>1, <1>2, <1>3, <1>4, <1>7 DEF StreamInv

\* The first write of the chain is over.
LEMMA PopChain ==
  ASSUME TypeOK, Chain, queue # <<>>, Pop
  PROVE  /\ queue' \in Seq(Frame) /\ Len(queue') = Len(queue) - 1
         /\ awaited' \in 0 .. Len(queue')
         /\ awaited > 0 => awaited' = awaited - 1
         /\ awaited = 0 => awaited' = 0
         /\ awaited' > 0 => queue'[awaited'] = queue[awaited]
         /\ \A i \in 1 .. Len(queue') : queue'[i].type = "ping" <=> i # awaited'
<1>1. /\ queue' \in Seq(Frame) /\ Len(queue') = Len(queue) - 1 /\ Len(queue) \in Nat \ {0}
      /\ \A i \in 1 .. Len(queue) - 1 : queue'[i] = queue[i + 1]
  BY TailItems DEF TypeOK, Pop
<1>2. awaited \in 0 .. Len(queue) /\ awaited' = IF awaited > 0 THEN awaited - 1 ELSE 0
  BY DEF TypeOK, Pop, Settled
<1>3. awaited' \in 0 .. Len(queue')
  BY <1>1, <1>2
<1>4. awaited' > 0 => queue'[awaited'] = queue[awaited]
  BY <1>1, <1>2
<1>5. ASSUME NEW i \in 1 .. Len(queue') PROVE queue'[i].type = "ping" <=> i # awaited'
  <2>1. i + 1 \in 1 .. Len(queue) /\ queue'[i] = queue[i + 1]
    BY <1>1
  <2>2. queue[i + 1].type = "ping" <=> i + 1 # awaited
    BY <2>1 DEF Chain
  <2>3. i + 1 # awaited <=> i # awaited'
    BY <1>1, <1>2
  <2> QED
    BY <2>1, <2>2, <2>3
<1> QED
  BY <1>1, <1>2, <1>3, <1>4, <1>5

\* A frame goes to the end of the chain, if the stream is not closed.
LEMMA EnqueueChain ==
  ASSUME TypeOK, NEW frame \in Frame, Enqueue(frame), stream # "closed"
  PROVE  /\ stream' = "open" /\ heartbeat' \in BOOLEAN
         /\ stream = "open" => heartbeat' = heartbeat
         /\ queue' \in Seq(Frame) /\ Len(queue') = Len(queue) + 1 /\ queue' # <<>>
         /\ Len(queue) \in Nat /\ queue'[Len(queue) + 1] = frame
         /\ \A i \in 1 .. Len(queue) : queue'[i] = queue[i]
<1>1. /\ stream' = "open" /\ heartbeat' = (IF stream = "idle" THEN TRUE ELSE heartbeat)
      /\ queue' = Append(queue, frame)
  BY DEF Enqueue
<1>2. heartbeat' \in BOOLEAN /\ (stream = "open" => heartbeat' = heartbeat)
  BY <1>1 DEF TypeOK
<1>3. queue \in Seq(Frame)
  BY DEF TypeOK
<1>4. /\ queue' \in Seq(Frame) /\ Len(queue') = Len(queue) + 1 /\ queue' # <<>>
      /\ Len(queue) \in Nat /\ queue'[Len(queue) + 1] = frame
      /\ \A i \in 1 .. Len(queue) : queue'[i] = queue[i]
  BY <1>1, <1>3
<1> QED
  BY <1>1, <1>2, <1>4

\* What the handler sends is the only frame it waits for.
LEMMA SendChain ==
  ASSUME TypeOK, Chain, awaited = 0, NEW frame \in Frame, frame # Event("ping"),
         Send(frame)
  PROVE  /\ UNCHANGED <<stalled, written, socket>>
         /\ stream = "closed" => UNCHANGED streamVars
         /\ stream # "closed" =>
              /\ stream' = "open" /\ heartbeat' \in BOOLEAN
              /\ stream = "open" => heartbeat' = heartbeat
              /\ queue' \in Seq(Frame) /\ queue' # <<>>
              /\ awaited' \in 1 .. Len(queue') /\ queue'[awaited'] = frame
              /\ Pending'
              /\ \A i \in 1 .. Len(queue') : queue'[i].type = "ping" <=> i # awaited'
<1>1. UNCHANGED <<stalled, written, socket>>
  BY DEF Send
<1>2. stream = "closed" => UNCHANGED streamVars
  BY DEF Send, Enqueue, streamVars
<1>3. ASSUME stream # "closed"
      PROVE  /\ stream' = "open" /\ heartbeat' \in BOOLEAN
             /\ stream = "open" => heartbeat' = heartbeat
             /\ queue' \in Seq(Frame) /\ queue' # <<>>
             /\ awaited' \in 1 .. Len(queue') /\ queue'[awaited'] = frame
             /\ Pending'
             /\ \A i \in 1 .. Len(queue') : queue'[i].type = "ping" <=> i # awaited'
  <2>1. /\ Enqueue(frame) /\ awaited' = Len(queue')
    BY <1>3 DEF Send
  <2>2. /\ stream' = "open" /\ heartbeat' \in BOOLEAN
        /\ stream = "open" => heartbeat' = heartbeat
        /\ queue' \in Seq(Frame) /\ Len(queue') = Len(queue) + 1 /\ queue' # <<>>
        /\ Len(queue) \in Nat /\ queue'[Len(queue) + 1] = frame
        /\ \A i \in 1 .. Len(queue) : queue'[i] = queue[i]
    BY <1>3, <2>1, EnqueueChain
  <2>3. awaited' > 0 /\ ~(stalled' /\ awaited' = 1)
    <3>1. stalled => Len(queue) > 0
      BY DEF TypeOK, Chain
    <3> QED
      BY <1>1, <2>1, <2>2, <3>1
  <2>4. ASSUME NEW i \in 1 .. Len(queue') PROVE queue'[i].type = "ping" <=> i # awaited'
    <3>1. CASE i = Len(queue')
      BY <2>1, <2>2, <3>1, LineKinds
    <3>2. CASE i \in 1 .. Len(queue)
      BY <2>1, <2>2, <3>2 DEF Chain
    <3> QED
      BY <2>2, <3>1, <3>2
  <2> QED
    BY <2>1, <2>2, <2>3, <2>4 DEF Pending
<1> QED
  BY <1>1, <1>2, <1>3

-------------------------------------------------------------------------------
(* What is kept while nothing is sent or written: by the agent and respond.  *)

LEMMA ChainKept ==
  ASSUME Chain, UNCHANGED streamVars, turn' = turn \/ (turn = "respond" /\ turn' = "report")
  PROVE  Chain'
BY DEF Chain, streamVars

\* The handler waits for nothing when respond moves.
LEMMA EndingKept ==
  ASSUME TypeOK, Ending, UNCHANGED streamVars,
         awaited = 0 \/ UNCHANGED <<respond, verdict>>,
         turn' = turn \/ (turn = "respond" /\ turn' = "report")
  PROVE  Ending'
<1>1. UNCHANGED <<queue, stalled, awaited, written, stream, socket>> /\ (Pending' <=> Pending)
  BY DEF streamVars, Pending
<1>2. turn' \in {"end", "drain", "over"} <=> turn \in {"end", "drain", "over"}
  OBVIOUS
<1>3. turn' \in {"end", "drain"} <=> turn \in {"end", "drain"}
  OBVIOUS
<1>4. CASE awaited = 0
  <2>1. ~Pending /\ ~Pending' /\ awaited' = 0
    BY <1>1, <1>4 DEF Pending
  <2> QED
    BY <1>1, <1>2, <1>3, <1>4, <2>1 DEF Ending, Closes
<1>5. CASE UNCHANGED <<respond, verdict>>
  BY <1>1, <1>2, <1>3, <1>5 DEF Ending, Closes
<1> QED
  BY <1>4, <1>5

LEMMA NoneLostKept ==
  ASSUME NoneLost, UNCHANGED streamVars,
         \A n \in Nat : Carries(lines \o wire, n, said) => Carries(lines' \o wire', n, said')
  PROVE  NoneLost'
<1>1. /\ UNCHANGED <<stream, queue, awaited, PartsOf(written)>> /\ (Passing' <=> Passing)
      /\ PartsOf(written) \in Seq(Nat)
  BY DEF streamVars, Passing, Pending, NoneLost
<1>2. Len(PartsOf(written)) \in Nat /\ Len(PartsOf(written)) + 1 \in Nat
  BY <1>1
<1> QED
  BY <1>1, <1>2 DEF NoneLost

\* Lines without parts behind the others.
LEMMA SaidMore ==
  ASSUME TypeOK, NEW more \in Seq(Line), \A i \in 1 .. Len(more) : more[i].type # "delta",
         wire' = wire \o more, UNCHANGED <<said, lines>>
  PROVE  /\ wire' \in Seq(Line)
         /\ \A n \in Nat : Carries(lines \o wire, n, said) => Carries(lines' \o wire', n, said')
<1>1. wire \in Seq(Line) /\ lines \in Seq(Line) /\ said \in Nat
  BY AgentStreamAssumptions DEF TypeOK
<1>2. lines \o (wire \o more) = (lines \o wire) \o more
  BY <1>1
<1>3. lines \o wire \in Seq(Line) /\ wire \o more \in Seq(Line)
  BY <1>1, JoinItems
<1> QED
  BY <1>1, <1>2, <1>3, CarriesExtra

\* One line without a part.
LEMMA SaidEvent ==
  ASSUME TypeOK, NEW event \in Line, event.type # "delta",
         wire' = Append(wire, event), UNCHANGED <<said, lines>>
  PROVE  /\ wire' \in Seq(Line)
         /\ \A n \in Nat : Carries(lines \o wire, n, said) => Carries(lines' \o wire', n, said')
<1>1. wire \in Seq(Line)
  BY DEF TypeOK
<1>2. wire' = wire \o <<event>>
  BY <1>1
<1>3. <<event>> \in Seq(Line) /\ \A i \in 1 .. Len(<<event>>) : <<event>>[i].type # "delta"
  OBVIOUS
<1> QED
  BY <1>2, <1>3, SaidMore

-------------------------------------------------------------------------------
(* The agent service.                                                       *)

LEMMA EventTypes ==
  \A type \in {"completed", "failed", "garbled", "partial"} : 
    Event(type) \in Line /\ Event(type).type # "delta"
BY DEF Line, Event

\* The invariant is kept by a step of the agent that keeps the types and the
\* lines in order, and does not go on after the end of its answer.
LEMMA AgentKeeps ==
  ASSUME StreamInv, UNCHANGED <<respondVars, turn, streamVars>>,
         agent' \in {"waiting", "answering", "ended"}, said' \in 0 .. MaxParts,
         wire' \in Seq(Line), link' \in {"none", "open", "ended", "broken"},
         \A n \in Nat : Carries(lines \o wire, n, said) => Carries(lines' \o wire', n, said'),
         agent = "waiting" => UNCHANGED <<agent, said, wire>>,
         agent' = "answering" => ~Whole'
  PROVE  StreamInv'
<1>1. TypeOK'
  BY DEF StreamInv, TypeOK, respondVars, streamVars
<1>2. Chain'
  BY ChainKept DEF StreamInv
<1>3. Ending'
  BY EndingKept DEF StreamInv, respondVars
<1>4. NoneLost'
  BY NoneLostKept DEF StreamInv
<1>5. Respond'
  BY DEF StreamInv, Respond, respondVars, streamVars
<1> QED
  BY <1>1, <1>2, <1>3, <1>4, <1>5 DEF StreamInv

\* The agent's lines hold no completed event before its answer has ended.
LEMMA WholeLater ==
  ASSUME StreamInv, UNCHANGED <<result, lines>>, agent = "answering",
         NEW line \in Line, line # Event("completed"), wire' = Append(wire, line)
  PROVE  ~Whole'
<1>1. wire \in Seq(Line) /\ lines \in Seq(Line)
  BY DEF StreamInv, TypeOK
<1>2. Append(wire, line) \in Seq(Line)
  BY <1>1
<1>3. ~result /\ ~Contains(wire \o lines, Event("completed"))
  BY DEF StreamInv, Respond, Whole
<1>4. ~Contains(wire, Event("completed")) /\ ~Contains(lines, Event("completed"))
  BY <1>1, <1>3, ContainsJoin
<1>5. ~Contains(Append(wire, line), Event("completed"))
  BY <1>1, <1>4, ContainsMore
<1>6. ~Contains(Append(wire, line) \o lines, Event("completed"))
  BY <1>1, <1>2, <1>4, <1>5, ContainsJoin
<1> QED
  BY <1>3, <1>6 DEF Whole

LEMMA SayStep ==
  ASSUME StreamInv, Say
  PROVE  StreamInv' /\ ~Whole'
<1>a. wire \in Seq(Line) /\ lines \in Seq(Line) /\ said \in 0 .. MaxParts /\ said \in Nat
  BY AgentStreamAssumptions DEF StreamInv, TypeOK
<1>b. /\ agent = "answering" /\ said < MaxParts /\ said' = said + 1
      /\ wire' = Append(wire, Part(said + 1)) /\ UNCHANGED <<agent, link>>
      /\ UNCHANGED <<respondVars, turn, streamVars>> /\ UNCHANGED <<lines, result>>
  BY DEF Say, respondVars
<1>1. Part(said + 1) \in Line /\ Part(said + 1) # Event("completed")
  BY <1>a, <1>b, AgentStreamAssumptions DEF Line, Parts, Part, Event
<1>2. said' \in 0 .. MaxParts /\ wire' \in Seq(Line)
  BY <1>a, <1>b, <1>1, AgentStreamAssumptions
<1>3. lines \o wire \in Seq(Line) /\ lines \o Append(wire, Part(said + 1)) = Append(lines \o wire, Part(said + 1))
  BY <1>a, JoinItems
<1>4. ASSUME NEW n \in Nat, Carries(lines \o wire, n, said)
      PROVE  Carries(lines' \o wire', n, said')
  BY <1>a, <1>b, <1>3, <1>4, CarriesMore
<1>5. ~Whole'
  BY <1>b, <1>1, WholeLater
<1>6. agent' \in {"waiting", "answering", "ended"} /\ link' \in {"none", "open", "ended", "broken"}
  BY <1>b DEF StreamInv, TypeOK
<1> QED
  BY <1>b, <1>2, <1>4, <1>5, <1>6, AgentKeeps

LEMMA FinishStep ==
  ASSUME StreamInv, NEW type \in {"completed", "failed"}, Finish(Event(type))
  PROVE  StreamInv'
<1>a. wire \in Seq(Line) /\ said \in 0 .. MaxParts
  BY DEF StreamInv, TypeOK
<1>b. /\ agent = "answering" /\ agent' = "ended" /\ link' = "ended" /\ UNCHANGED said
      /\ UNCHANGED <<respondVars, turn, streamVars>> /\ UNCHANGED lines
  BY DEF Finish, respondVars
<1>1. PICK extra \in {<<>>, <<Event("garbled")>>, <<Event("completed")>>} :
        wire' = wire \o <<Event(type)>> \o extra
  BY DEF Finish, Extra
<1> DEFINE more == <<Event(type)>> \o extra
<1>2. more \in Seq(Line) /\ \A i \in 1 .. Len(more) : more[i].type # "delta"
  <2>1. <<Event(type)>> \in Seq(Line) /\ extra \in Seq(Line)
    <3>1. Event(type) \in Line /\ Event("garbled") \in Line /\ Event("completed") \in Line
      BY EventTypes
    <3>2. <<>> \in Seq(Line) /\ \A x \in Line : <<x>> \in Seq(Line)
      OBVIOUS
    <3> QED
      BY <3>1, <3>2
  <2>2. \A i \in 1 .. Len(<<Event(type)>>) : <<Event(type)>>[i].type # "delta"
    BY EventTypes
  <2>3. \A i \in 1 .. Len(extra) : extra[i].type # "delta"
    BY EventTypes
  <2>4. more \in Seq(Line)
    BY <2>1, JoinItems
  <2>5. ASSUME NEW i \in 1 .. Len(more) PROVE more[i].type # "delta"
    BY <2>1, <2>2, <2>3, JoinItems
  <2> QED
    BY <2>4, <2>5
<1>3. wire' = wire \o more
  BY <1>a, <1>1, EventTypes
<1>4. /\ wire' \in Seq(Line)
      /\ \A n \in Nat : Carries(lines \o wire, n, said) => Carries(lines' \o wire', n, said')
  <2> HIDE DEF more
  <2> QED
    BY <1>b, <1>2, <1>3, SaidMore DEF StreamInv
<1> QED
  BY <1>a, <1>b, <1>4, AgentKeeps

LEMMA AbortBreakStep ==
  ASSUME StreamInv, AbortAgent \/ Break
  PROVE  StreamInv'
<1>1. /\ UNCHANGED <<said, wire, lines>> /\ UNCHANGED <<respondVars, turn, streamVars>>
      /\ agent' \in {"waiting", "answering", "ended"} /\ link' \in {"none", "open", "ended", "broken"}
      /\ (agent = "waiting" => UNCHANGED agent) /\ (agent' = "answering" => agent = "answering")
  BY DEF AbortAgent, Break, StreamInv, TypeOK, respondVars
<1>2. agent' = "answering" => ~Whole'
  BY <1>1 DEF StreamInv, Respond, Whole, respondVars
<1>3. said \in 0 .. MaxParts /\ wire \in Seq(Line)
  BY DEF StreamInv, TypeOK
<1> QED
  BY <1>1, <1>2, <1>3, AgentKeeps

LEMMA CutStep ==
  ASSUME StreamInv, Cut
  PROVE  StreamInv'
<1>1. /\ agent = "answering" /\ agent' = "ended" /\ link' \in {"none", "open", "ended", "broken"}
      /\ UNCHANGED <<said, lines>> /\ UNCHANGED <<respondVars, turn, streamVars>>
      /\ wire' = wire \/ wire' = Append(wire, Event("partial"))
  BY DEF Cut, respondVars
<1>2. said \in 0 .. MaxParts /\ wire \in Seq(Line)
  BY DEF StreamInv, TypeOK
<1>3. /\ wire' \in Seq(Line)
      /\ \A n \in Nat : Carries(lines \o wire, n, said) => Carries(lines' \o wire', n, said')
  <2>1. CASE wire' = wire
    BY <1>1, <1>2, <2>1
  <2>2. CASE wire' = Append(wire, Event("partial"))
    BY <1>1, <2>2, EventTypes, SaidEvent DEF StreamInv
  <2> QED
    BY <1>1, <2>1, <2>2
<1> QED
  BY <1>1, <1>2, <1>3, AgentKeeps

LEMMA GarbleStep ==
  ASSUME StreamInv, Garble
  PROVE  StreamInv' /\ ~Whole'
<1>1. /\ agent = "answering" /\ UNCHANGED <<agent, link>>
      /\ UNCHANGED <<said, lines, result>> /\ UNCHANGED <<respondVars, turn, streamVars>>
      /\ wire' = Append(wire, Event("garbled"))
  BY DEF Garble, respondVars
<1>2. Event("garbled") \in Line /\ Event("garbled").type # "delta" /\ Event("garbled") # Event("completed")
  BY EventTypes DEF Event
<1>3. ~Whole'
  BY <1>1, <1>2, WholeLater
<1>4. /\ wire' \in Seq(Line)
      /\ \A n \in Nat : Carries(lines \o wire, n, said) => Carries(lines' \o wire', n, said')
  BY <1>1, <1>2, SaidEvent DEF StreamInv
<1>5. /\ agent' \in {"waiting", "answering", "ended"} /\ said' \in 0 .. MaxParts
      /\ link' \in {"none", "open", "ended", "broken"}
  BY <1>1 DEF StreamInv, TypeOK
<1> QED
  BY <1>1, <1>3, <1>4, <1>5, AgentKeeps

-------------------------------------------------------------------------------
(* RemoteAiAgentClient.respond.                                             *)

LEMMA RespondKeeps ==
  ASSUME StreamInv, UNCHANGED streamVars,
         turn' = turn \/ (turn = "respond" /\ turn' = "report"),
         awaited = 0 \/ UNCHANGED <<respond, verdict>>,
         \A n \in Nat : Carries(lines \o wire, n, said) => Carries(lines' \o wire', n, said'),
         TypeOK', Respond'
  PROVE  StreamInv'
BY ChainKept, EndingKept, NoneLostKept DEF StreamInv

\* While the request is under way the handler is in respond.
LEMMA Asking ==
  ASSUME StreamInv, respond \in {"fetch", "read"}
  PROVE  turn = "respond" /\ verdict = "none"
BY DEF StreamInv, Respond, TypeOK

LEMMA FetchStep ==
  ASSUME StreamInv, Fetch
  PROVE  StreamInv'
<1>1. TypeOK'
  BY DEF StreamInv, TypeOK, Fetch, agentVars, streamVars
<1>2. UNCHANGED Whole
  BY DEF Fetch, Whole, agentVars
<1>3. Respond'
  BY <1>2 DEF StreamInv, Respond, TypeOK, Fetch, Running, agentVars, streamVars
<1> QED
  BY <1>1, <1>3, RespondKeeps DEF Fetch, Running, agentVars

LEMMA AcceptStep ==
  ASSUME StreamInv, Accept
  PROVE  StreamInv'
<1>1. TypeOK'
  BY DEF StreamInv, TypeOK, Accept, streamVars
<1>2. wire = <<>> /\ lines = <<>> /\ ~result /\ awaited = 0
  BY DEF Accept, StreamInv, Respond
<1>3. ~Whole'
  <2>1. wire' \o lines' = <<>> /\ ~result'
    BY <1>2 DEF Accept
  <2>2. Len(<<>>) = 0
    OBVIOUS
  <2>3. \A i \in 1 .. Len(wire' \o lines') : FALSE
    BY <2>1, <2>2
  <2> QED
    BY <2>1, <2>3 DEF Whole, Contains
<1>4. turn = "respond" /\ verdict = "none"
  BY Asking DEF Accept
<1>5. Respond'
  BY <1>3, <1>4 DEF StreamInv, Respond, Accept, streamVars
<1> QED
  BY <1>1, <1>2, <1>5, RespondKeeps DEF Accept

\* respond ends: with nothing to wait for, and once.
LEMMA OverStep ==
  ASSUME StreamInv, awaited = 0, respond \in {"fetch", "read"},
         NEW how \in {"answered", "unavailable"}, Over(how),
         UNCHANGED <<agentVars, lines, result, aborted, streamVars>>
  PROVE  StreamInv'
<1>1. TypeOK'
  <2>1. /\ respond' = "over" /\ verdict' \in {"none", "answered", "unavailable"}
        /\ timer' \in BOOLEAN /\ turn' = "report"
    BY DEF Over
  <2> QED
    BY <2>1 DEF StreamInv, TypeOK, agentVars, streamVars
<1>2. turn = "respond" /\ verdict = "none"
  BY Asking
<1>3. UNCHANGED Whole
  BY DEF Whole, agentVars
<1>4. Respond'
  BY <1>2, <1>3 DEF StreamInv, Respond, Over, agentVars, streamVars
<1> QED
  BY <1>1, <1>2, <1>4, RespondKeeps DEF Over, agentVars

LEMMA EndingSteps ==
  ASSUME StreamInv, Refused \/ ReadError \/ ReadEnd \/ ConsumeError
  PROVE  StreamInv'
<1>1. CASE Refused
  BY <1>1, OverStep DEF Refused, StreamInv, Respond
<1>2. CASE ReadError
  BY <1>2, OverStep DEF ReadError, Reading, Running
<1>3. CASE ReadEnd
  <2>1. (IF Acceptable THEN "answered" ELSE "unavailable") \in {"answered", "unavailable"}
    OBVIOUS
  <2> QED
    BY <1>3, <2>1, OverStep DEF ReadEnd, Reading, Running
<1>4. CASE ConsumeError
  BY <1>4, OverStep DEF ConsumeError, Running
<1> QED
  BY <1>1, <1>2, <1>3, <1>4

LEMMA FireStep ==
  ASSUME StreamInv, Fire
  PROVE  StreamInv'
<1>1. TypeOK'
  <2>1. /\ timer' \in BOOLEAN /\ aborted' \in BOOLEAN
        /\ link' \in {"none", "open", "ended", "broken"}
    BY DEF Fire, StreamInv, TypeOK
  <2> QED
    BY <2>1 DEF StreamInv, TypeOK, Fire, streamVars
<1>2. UNCHANGED Whole
  BY DEF Fire, Whole
<1>3. Respond'
  BY <1>2 DEF StreamInv, Respond, TypeOK, Fire, streamVars
<1> QED
  BY <1>1, <1>3, RespondKeeps DEF Fire

\* Reading moves lines, and changes nothing about them.
LEMMA ReadLines ==
  ASSUME StreamInv, Read
  PROVE  /\ lines' \in Seq(Line) /\ wire' \in Seq(Line)
         /\ lines' \o wire' = lines \o wire /\ (Whole' <=> Whole)
<1>a. wire \in Seq(Line) /\ lines = <<>> /\ UNCHANGED result
  BY DEF Read, Reading, StreamInv, TypeOK
<1>1. PICK n \in 1 .. Len(wire) :
        lines' = SubSeq(wire, 1, n) /\ wire' = SubSeq(wire, n + 1, Len(wire))
  BY DEF Read
<1>2. lines' \in Seq(Line) /\ wire' \in Seq(Line) /\ lines' \o wire' = wire
  BY <1>a, <1>1, JoinSplit
<1>3. lines \o wire = wire /\ wire \o lines = wire
  BY <1>a
<1>4. Contains(wire' \o lines', Event("completed")) <=> Contains(wire, Event("completed"))
  BY <1>2, ContainsJoin
<1> QED
  BY <1>a, <1>2, <1>3, <1>4 DEF Whole

LEMMA ReadStep ==
  ASSUME StreamInv, Read
  PROVE  StreamInv'
<1>1. TypeOK'
  BY ReadLines DEF StreamInv, TypeOK, Read, streamVars
<1>2. turn = "respond" /\ verdict = "none" /\ respond = "read"
  BY Asking DEF Read, Reading
<1>3. Respond'
  BY <1>2, ReadLines DEF StreamInv, Respond, Read, streamVars
<1>4. \A n \in Nat : Carries(lines \o wire, n, said) => Carries(lines' \o wire', n, said')
  BY ReadLines DEF Read
<1> QED
  BY <1>1, <1>3, <1>4, RespondKeeps DEF Read

\* What a consumed line leaves.
LEMMA ConsumedLine ==
  ASSUME StreamInv, lines # <<>>, lines' = Tail(lines), UNCHANGED wire
  PROVE  /\ Head(lines) \in Line /\ lines' \in Seq(Line) /\ lines \o wire \in Seq(Line)
         /\ lines \o wire # <<>> /\ Head(lines \o wire) = Head(lines)
         /\ lines' \o wire' = Tail(lines \o wire)
         /\ Head(lines) # Event("completed") =>
              (Contains(wire' \o lines', Event("completed"))
                 <=> Contains(wire \o lines, Event("completed")))
         /\ Head(lines) = Event("completed") => Contains(wire \o lines, Event("completed"))
<1>a. wire \in Seq(Line) /\ lines \in Seq(Line)
  BY DEF StreamInv, TypeOK
<1>1. Head(lines) \in Line /\ lines' \in Seq(Line) /\ Head(lines) = lines[1] /\ Len(lines) \in Nat \ {0}
  BY <1>a, TailItems
<1>2. /\ lines \o wire \in Seq(Line) /\ lines \o wire # <<>> /\ Head(lines \o wire) = Head(lines)
      /\ lines' \o wire' = Tail(lines \o wire)
  BY <1>a, JoinTail, JoinItems
<1>3. \A e : Contains(wire \o lines, e) <=> Contains(wire, e) \/ Contains(lines, e)
  BY <1>a, ContainsJoin
<1>4. \A e : Contains(wire' \o lines', e) <=> Contains(wire, e) \/ Contains(lines', e)
  BY <1>a, <1>1, ContainsJoin
<1>5. Head(lines) # Event("completed") =>
        (Contains(lines', Event("completed")) <=> Contains(lines, Event("completed")))
  BY <1>a, ContainsTail
<1>6. Head(lines) = Event("completed") => Contains(lines, Event("completed"))
  BY <1>1 DEF Contains
<1> QED
  BY <1>1, <1>2, <1>3, <1>4, <1>5, <1>6

LEMMA CompletedLine ==
  ASSUME StreamInv, ConsumeCompleted
  PROVE  Head(lines) = Event("completed") /\ Whole /\ Whole'
<1>1. Head(lines) \in Line /\ Head(lines).type = "completed"
  BY ConsumedLine DEF ConsumeCompleted, agentVars
<1>2. Head(lines) = Event("completed")
  BY <1>1 DEF Line, Parts, Part, Event
<1>3. Whole
  BY <1>2, ConsumedLine DEF Whole, ConsumeCompleted, agentVars
<1>4. Whole'
  BY DEF Whole, ConsumeCompleted
<1> QED
  BY <1>2, <1>3, <1>4

LEMMA ConsumeCompletedStep ==
  ASSUME StreamInv, ConsumeCompleted
  PROVE  StreamInv'
<1>a. lines' = Tail(lines) /\ lines # <<>> /\ UNCHANGED wire
  BY DEF ConsumeCompleted, agentVars
<1>1. TypeOK'
  BY <1>a, ConsumedLine DEF StreamInv, TypeOK, ConsumeCompleted, agentVars, streamVars
<1>2. turn = "respond" /\ verdict = "none" /\ agent # "answering"
  BY Asking, CompletedLine DEF ConsumeCompleted, StreamInv, Respond
<1>3. Respond'
  BY <1>2 DEF StreamInv, Respond, ConsumeCompleted, agentVars, streamVars
<1>4. ASSUME NEW n \in Nat, Carries(lines \o wire, n, said)
      PROVE  Carries(lines' \o wire', n, said')
  <2>1. Head(lines \o wire).type # "delta" /\ said \in Nat /\ UNCHANGED said
    BY <1>a, ConsumedLine, AgentStreamAssumptions
       DEF ConsumeCompleted, agentVars, StreamInv, TypeOK
  <2> QED
    BY <1>a, <1>4, <2>1, ConsumedLine, CarriesSkip
<1> QED
  BY <1>1, <1>3, <1>4, RespondKeeps DEF ConsumeCompleted, Running, agentVars

-------------------------------------------------------------------------------
(* The chain of writes.                                                     *)

LEMMA RespondWaits ==
  ASSUME Respond, UNCHANGED <<agentVars, respondVars, turn>>, awaited = 0 => awaited' = 0
  PROVE  Respond'
<1>1. UNCHANGED Whole
  BY DEF Whole, agentVars, respondVars
<1> QED
  BY <1>1 DEF Respond, agentVars, respondVars

\* The invariant is kept by a step of the chain that writes no frame the
\* handler waits for, and drops one only from a closed stream.
LEMMA QueueKeeps ==
  ASSUME StreamInv, UNCHANGED <<agentVars, respondVars, turn, written>>,
         TypeOK', Chain',
         awaited = 0 => awaited' = 0,
         awaited' > 0 => awaited > 0 /\ queue'[awaited'] = queue[awaited],
         Pending' => Pending,
         stream' # "closed" => stream # "closed" /\ (Pending' <=> Pending),
         socket' = "ended" => socket = "ended" /\ queue' = <<>>
  PROVE  StreamInv'
<1>1. Respond'
  BY RespondWaits DEF StreamInv
<1>2. awaited \in Nat /\ awaited' \in Nat
  BY DEF StreamInv, TypeOK
<1>3. UNCHANGED <<lines, wire, said, respond, verdict>>
  BY DEF agentVars, respondVars
<1>4. Ending'
  BY <1>3 DEF StreamInv, Ending, Closes, Pending
<1>5. stream' # "closed" => (Passing' <=> Passing) /\ (Passing => queue'[awaited'] = queue[awaited])
  BY DEF Passing, Pending
<1>6. NoneLost'
  BY <1>3, <1>5 DEF StreamInv, NoneLost
<1> QED
  BY <1>1, <1>4, <1>6 DEF StreamInv

LEMMA PingStep ==
  ASSUME StreamInv, Ping
  PROVE  StreamInv'
<1>a. /\ heartbeat /\ Enqueue(Event("ping")) /\ stream # "closed" /\ TypeOK /\ Chain
      /\ UNCHANGED <<agentVars, respondVars, turn, stalled, awaited, written, socket>>
  BY DEF Ping, StreamInv, Chain
<1>b. Event("ping") \in Frame
  BY DEF Frame
<1>1. /\ stream' = "open" /\ heartbeat' \in BOOLEAN
      /\ queue' \in Seq(Frame) /\ Len(queue') = Len(queue) + 1 /\ queue' # <<>>
      /\ Len(queue) \in Nat /\ queue'[Len(queue) + 1] = Event("ping")
      /\ \A i \in 1 .. Len(queue) : queue'[i] = queue[i]
  BY <1>a, <1>b, EnqueueChain
<1>c. awaited \in 0 .. Len(queue) /\ awaited' = awaited
  BY <1>a DEF TypeOK
<1>2. awaited' \in 0 .. Len(queue') /\ (awaited' > 0 => queue'[awaited'] = queue[awaited])
  BY <1>1, <1>c
<1>3. TypeOK'
  BY <1>a, <1>1, <1>2 DEF TypeOK, agentVars, respondVars
<1>4. \A i \in 1 .. Len(queue') : queue'[i].type = "ping" <=> i # awaited'
  <2> SUFFICES ASSUME NEW i \in 1 .. Len(queue')
               PROVE  queue'[i].type = "ping" <=> i # awaited'
    OBVIOUS
  <2>1. CASE i = Len(queue) + 1
    BY <1>1, <1>c, <2>1, LineKinds
  <2>2. CASE i \in 1 .. Len(queue)
    BY <1>a, <1>1, <1>c, <2>2 DEF Chain
  <2>3. i = Len(queue) + 1 \/ i \in 1 .. Len(queue)
    BY <1>1
  <2> QED
    BY <2>1, <2>2, <2>3
<1>5. socket = "open" /\ turn # "over"
  BY <1>a DEF Chain, TypeOK
<1>6. Chain'
  BY <1>a, <1>1, <1>4, <1>5 DEF Chain
<1>7. Pending' <=> Pending
  BY <1>a, <1>c DEF Pending
<1> QED
  BY <1>a, <1>1, <1>2, <1>3, <1>5, <1>6, <1>7, QueueKeeps

\* The first write is over: it had been taken, or the stream is closed.
LEMMA PopStep ==
  ASSUME StreamInv, queue # <<>>, Pop, stalled' = FALSE,
         UNCHANGED <<agentVars, respondVars, turn, written, socket>> \/
           (socket = "open" /\ socket' = "gone"
              /\ UNCHANGED <<agentVars, respondVars, turn, written>>),
         UNCHANGED <<stream, heartbeat>> \/ (stream' = "closed" /\ heartbeat' = FALSE),
         socket' # socket => stream' = "closed",
         stream' # "closed" => stalled \/ awaited # 1
  PROVE  StreamInv'
<1>a. TypeOK /\ Chain
  BY DEF StreamInv
<1>1. /\ queue' \in Seq(Frame) /\ Len(queue') = Len(queue) - 1
      /\ awaited' \in 0 .. Len(queue')
      /\ awaited > 0 => awaited' = awaited - 1
      /\ awaited = 0 => awaited' = 0
      /\ awaited' > 0 => queue'[awaited'] = queue[awaited]
      /\ \A i \in 1 .. Len(queue') : queue'[i].type = "ping" <=> i # awaited'
  BY <1>a, PopChain
<1>b. awaited \in Nat /\ awaited' \in Nat /\ UNCHANGED <<turn, written>>
  <2>1. UNCHANGED <<agentVars, respondVars, turn, written>>
    OBVIOUS
  <2>2. awaited \in 0 .. Len(queue)
    BY <1>a DEF TypeOK
  <2> QED
    BY <1>1, <2>1, <2>2
<1>2. TypeOK'
  <2>1. /\ stream' \in {"idle", "open", "closed"} /\ heartbeat' \in BOOLEAN
        /\ socket' \in {"open", "ended", "gone"} /\ stalled' \in BOOLEAN
    BY <1>a DEF TypeOK
  <2> QED
    BY <1>a, <1>1, <2>1 DEF TypeOK, agentVars, respondVars
<1>3. Chain'
  BY <1>a, <1>1, <1>b DEF Chain
<1>4. awaited' > 0 => awaited > 0 /\ queue'[awaited'] = queue[awaited]
  BY <1>1, <1>b
<1>5. /\ Pending' => Pending
      /\ stream' # "closed" => stream # "closed" /\ (Pending' <=> Pending)
  BY <1>1, <1>b DEF Pending
<1>6. socket' # "ended"
  BY DEF StreamInv, Ending
<1> QED
  BY <1>1, <1>2, <1>3, <1>4, <1>5, <1>6, QueueKeeps

LEMMA SkipDrainStep ==
  ASSUME StreamInv, Skip \/ Drain
  PROVE  StreamInv'
<1>1. CASE Skip
  <2>1. stalled' = FALSE
    BY <1>1 DEF Skip, StreamInv, TypeOK
  <2> QED
    BY <1>1, <2>1, PopStep DEF Skip
<1>2. CASE Drain
  BY <1>2, PopStep DEF Drain, StreamInv, Chain
<1> QED
  BY <1>1, <1>2

LEMMA DisconnectStep ==
  ASSUME StreamInv, Disconnect
  PROVE  StreamInv'
<1>a. /\ socket = "open" /\ socket' = "gone" /\ stream' = "closed" /\ heartbeat' = FALSE
      /\ UNCHANGED <<agentVars, respondVars, turn, written>>
  BY DEF Disconnect, MarkClosed
<1>1. CASE stalled
  BY <1>1, <1>a, PopStep DEF Disconnect, Woken, StreamInv, Chain
<1>2. CASE ~stalled
  <2>1. UNCHANGED <<queue, stalled, awaited>>
    BY <1>2 DEF Disconnect, Woken
  <2>2. TypeOK'
    <3>1. stream' \in {"idle", "open", "closed"} /\ heartbeat' \in BOOLEAN
          /\ socket' \in {"open", "ended", "gone"}
      BY <1>a
    <3> QED
      BY <1>a, <2>1, <3>1 DEF StreamInv, TypeOK, agentVars, respondVars
  <2>3. Chain'
    BY <1>a, <1>2, <2>1 DEF StreamInv, Chain
  <2>4. Pending' <=> Pending
    BY <2>1 DEF Pending
  <2> QED
    BY <1>a, <2>1, <2>2, <2>3, <2>4, QueueKeeps
<1> QED
  BY <1>1, <1>2

\* The response takes the first frame.
LEMMA WriteChain ==
  ASSUME StreamInv, Write
  PROVE  /\ ~stalled /\ stream # "closed"
         /\ UNCHANGED <<agentVars, respondVars, turn, stream, heartbeat, socket>>
         /\ queue' \in Seq(Frame) /\ awaited' \in 0 .. Len(queue') /\ awaited \in Nat
         /\ stalled' \in BOOLEAN /\ (stalled' => queue' # <<>>)
         /\ \A i \in 1 .. Len(queue') : queue'[i].type = "ping" <=> i # awaited'
         /\ awaited = 0 => awaited' = 0
         /\ awaited' > 0 => awaited > 0 /\ queue'[awaited'] = queue[awaited]
         /\ awaited # 1 => written' = written /\ (Pending' <=> Pending)
         /\ awaited = 1 =>
              /\ Pending /\ ~Pending' /\ queue[1] \in Frame \ {Event("ping")}
              /\ written' = Append(written, queue[1])
<1>a. TypeOK /\ Chain /\ queue # <<>> /\ ~stalled /\ stream # "closed"
      /\ UNCHANGED <<agentVars, respondVars, turn, stream, heartbeat, socket>>
  BY DEF Write, StreamInv
<1>b. /\ queue \in Seq(Frame) /\ awaited \in 0 .. Len(queue) /\ Len(queue) \in Nat \ {0}
      /\ Head(queue) = queue[1] /\ queue[1] \in Frame
  BY <1>a, TailItems DEF TypeOK
<1>c. queue[1].type = "ping" <=> awaited # 1
  BY <1>a, <1>b DEF Chain
<1>1. /\ awaited # 1 => written' = written
      /\ awaited = 1 => written' = Append(written, queue[1]) /\ queue[1] # Event("ping")
  BY <1>b, <1>c, LineKinds DEF Write
<1>2. CASE stalled' = TRUE /\ UNCHANGED <<queue, awaited>>
  <2>1. Pending' <=> awaited > 0 /\ awaited # 1
    BY <1>2 DEF Pending
  <2>2. Pending <=> awaited > 0
    BY <1>a DEF Pending
  <2> QED
    BY <1>a, <1>b, <1>1, <1>2, <2>1, <2>2 DEF Chain
<1>3. CASE Pop /\ UNCHANGED stalled
  <2>1. /\ queue' \in Seq(Frame) /\ Len(queue') = Len(queue) - 1
        /\ awaited' \in 0 .. Len(queue')
        /\ awaited > 0 => awaited' = awaited - 1
        /\ awaited = 0 => awaited' = 0
        /\ awaited' > 0 => queue'[awaited'] = queue[awaited]
        /\ \A i \in 1 .. Len(queue') : queue'[i].type = "ping" <=> i # awaited'
    BY <1>a, <1>3, PopChain
  <2>2. (Pending' <=> awaited' > 0) /\ (Pending <=> awaited > 0)
    BY <1>a, <1>3 DEF Pending
  <2>3. awaited # 1 => (awaited' > 0 <=> awaited > 0)
    BY <1>b, <2>1
  <2>4. stalled' \in BOOLEAN /\ ~stalled'
    <3>1. stalled' = stalled
      BY <1>3
    <3>2. stalled \in BOOLEAN
      BY <1>a DEF TypeOK
    <3> QED
      BY <1>a, <3>1, <3>2
  <2>5. awaited' > 0 => awaited > 0
    BY <1>b, <2>1
  <2> QED
    BY <1>a, <1>b, <1>1, <2>1, <2>2, <2>3, <2>4, <2>5
<1> QED
  BY <1>2, <1>3 DEF Write

\* The frame that the handler waits for is written, ...
LEMMA WriteAwaited ==
  ASSUME StreamInv, Write, awaited = 1
  PROVE  StreamInv'
<1>a. TypeOK /\ Chain /\ Respond /\ Ending /\ NoneLost
  BY DEF StreamInv
<1>b. /\ stream # "closed" /\ UNCHANGED <<agentVars, respondVars, turn, stream, heartbeat, socket>>
      /\ queue' \in Seq(Frame) /\ awaited' \in 0 .. Len(queue')
      /\ stalled' \in BOOLEAN /\ (stalled' => queue' # <<>>)
      /\ \A i \in 1 .. Len(queue') : queue'[i].type = "ping" <=> i # awaited'
      /\ awaited' > 0 => queue'[awaited'] = queue[1]
      /\ Pending /\ ~Pending' /\ queue[1] \in Frame \ {Event("ping")}
      /\ written' = Append(written, queue[1])
  BY WriteChain
<1>1. /\ written' \in Seq(Frame \ {Event("ping")}) /\ written' # <<>> /\ Last(written') = queue[1]
      /\ Len(written') = Len(written) + 1 /\ Len(written) \in Nat
      /\ \A i \in 1 .. Len(written) : written'[i] = written[i]
  BY <1>a, <1>b DEF TypeOK, Last
<1>2. TypeOK'
  BY <1>a, <1>b, <1>1 DEF TypeOK, agentVars, respondVars
<1>3. Chain'
  BY <1>a, <1>b DEF Chain
<1>4. Respond'
  BY <1>a, <1>b, RespondWaits
<1>5. Ending'
  <2>1. /\ queue[1].type = "delta" => respond = "read"
        /\ Closes(queue[1]) <=> turn \in {"end", "drain", "over"}
    BY <1>a DEF Ending
  <2>2. ASSUME NEW i \in 1 .. Len(written'), Closes(written'[i])
        PROVE  turn \in {"end", "drain", "over"}
    <3>1. CASE i = Len(written')
      BY <1>1, <2>1, <2>2, <3>1 DEF Last
    <3>2. CASE i \in 1 .. Len(written)
      BY <1>a, <1>1, <2>2, <3>2 DEF Ending
    <3> QED
      BY <1>1, <3>1, <3>2
  <2>3. socket' # "ended" /\ UNCHANGED <<turn, respond, stream>>
    BY <1>a, <1>b DEF Chain, respondVars
  <2> QED
    BY <1>b, <1>1, <2>1, <2>2, <2>3 DEF Ending, Closes
<1>6. NoneLost'
  <2>1. /\ PartsOf(written) \in Seq(Nat) /\ ~Passing' /\ UNCHANGED <<lines, wire, said, stream>>
        /\ queue[1] \in Frame /\ written \in Seq(Frame)
    BY <1>a, <1>b DEF NoneLost, Passing, TypeOK, agentVars, respondVars
  <2>2. CASE queue[1].type = "delta"
    <3>1. Passing
      BY <1>b, <2>2 DEF Passing
    <3>2. queue[1].part = Len(PartsOf(written)) + 1 /\ Carries(lines \o wire, Len(PartsOf(written)) + 1, said)
      BY <1>a, <1>b, <3>1 DEF NoneLost
    <3>3. PartsOf(written') = Append(PartsOf(written), queue[1].part)
      BY <1>b, <2>1, <2>2, PartsOfMore
    <3>4. PartsOf(written') \in Seq(Nat) /\ Len(PartsOf(written')) = Len(PartsOf(written)) + 1
      BY <2>1, <3>2, <3>3
    <3> QED
      BY <2>1, <3>2, <3>4 DEF NoneLost
  <2>3. CASE queue[1].type # "delta"
    <3>1. ~Passing
      BY <2>3 DEF Passing
    <3>2. Carries(lines \o wire, Len(PartsOf(written)), said)
      BY <1>a, <1>b, <3>1 DEF NoneLost
    <3>3. PartsOf(written') = PartsOf(written)
      BY <1>b, <2>1, <2>3, PartsOfMore
    <3> QED
      BY <2>1, <3>2, <3>3 DEF NoneLost
  <2> QED
    BY <2>2, <2>3
<1> QED
  BY <1>2, <1>3, <1>4, <1>5, <1>6 DEF StreamInv

\* ... or a heartbeat is.
LEMMA WriteStep ==
  ASSUME StreamInv, Write
  PROVE  StreamInv'
<1>1. CASE awaited = 1
  BY <1>1, WriteAwaited
<1>2. CASE awaited # 1
  <2>a. TypeOK /\ Chain /\ Ending
    BY DEF StreamInv
  <2>1. /\ stream # "closed"
        /\ UNCHANGED <<agentVars, respondVars, turn, stream, heartbeat, socket, written>>
        /\ queue' \in Seq(Frame) /\ awaited' \in 0 .. Len(queue')
        /\ stalled' \in BOOLEAN /\ (stalled' => queue' # <<>>)
        /\ \A i \in 1 .. Len(queue') : queue'[i].type = "ping" <=> i # awaited'
        /\ awaited = 0 => awaited' = 0
        /\ awaited' > 0 => awaited > 0 /\ queue'[awaited'] = queue[awaited]
        /\ Pending' <=> Pending
    BY <1>2, WriteChain
  <2>2. TypeOK'
    BY <2>a, <2>1 DEF TypeOK, agentVars, respondVars
  <2>3. Chain'
    BY <2>a, <2>1 DEF Chain
  <2>4. socket' # "ended"
    BY <2>a, <2>1 DEF Chain
  <2> QED
    BY <2>1, <2>2, <2>3, <2>4, QueueKeeps
<1> QED
  BY <1>1, <1>2

-------------------------------------------------------------------------------
(* The handler.                                                             *)

\* What a sent frame leaves of the invariant.
LEMMA SendKeeps ==
  ASSUME StreamInv, awaited = 0, NEW frame \in Frame, frame # Event("ping"), Send(frame),
         turn \in {"start", "respond", "report"},
         turn' \in {"respond", "end", "over"}, turn' = "over" => stream = "closed",
         frame.type = "delta" => respond' = "read",
         stream # "closed" => (Closes(frame) <=> turn' \in {"end", "drain", "over"}),
         Closes(frame) => frame = Event(IF verdict' = "answered" THEN "completed" ELSE "failed"),
         stream = "idle" => turn = "start",
         agent' \in {"waiting", "answering", "ended"}, said' \in 0 .. MaxParts,
         wire' \in Seq(Line), link' \in {"none", "open", "ended", "broken"},
         lines' \in Seq(Line), UNCHANGED <<respond, result, verdict, timer, aborted>>
  PROVE  TypeOK' /\ Chain' /\ Ending'
<1>a. TypeOK /\ Chain /\ Ending
  BY DEF StreamInv
<1>1. /\ UNCHANGED <<stalled, written, socket>>
      /\ stream = "closed" => UNCHANGED streamVars
      /\ stream # "closed" =>
           /\ stream' = "open" /\ heartbeat' \in BOOLEAN
           /\ queue' \in Seq(Frame) /\ queue' # <<>>
           /\ awaited' \in 1 .. Len(queue') /\ queue'[awaited'] = frame
           /\ Pending'
           /\ \A i \in 1 .. Len(queue') : queue'[i].type = "ping" <=> i # awaited'
  BY <1>a, SendChain
<1>2. ~(\E i \in 1 .. Len(written) : Closes(written[i]))
  BY <1>a DEF Ending
<1>3. CASE stream = "closed"
  <2>1. UNCHANGED <<stream, heartbeat, queue, stalled, awaited, written, socket>>
    BY <1>1, <1>3 DEF streamVars
  <2>2. TypeOK'
    BY <1>a, <2>1 DEF TypeOK
  <2>3. Chain'
    BY <1>a, <1>3, <2>1 DEF Chain
  <2>4. awaited' = 0 /\ ~Pending'
    BY <2>1 DEF Pending
  <2>5. Ending'
    BY <1>a, <1>2, <1>3, <2>1, <2>4 DEF Ending
  <2> QED
    BY <2>2, <2>3, <2>5
<1>4. CASE stream # "closed"
  <2>1. awaited' \in 0 .. Len(queue')
    BY <1>1, <1>4
  <2>2. TypeOK'
    BY <1>a, <1>1, <1>4, <2>1 DEF TypeOK
  <2>3. socket = "open"
    BY <1>a, <1>4 DEF Chain
  <2>4. Chain'
    BY <1>a, <1>1, <1>4, <2>3 DEF Chain
  <2>5. Ending'
    BY <1>a, <1>1, <1>2, <1>4, <2>3 DEF Ending, Closes
  <2> QED
    BY <2>2, <2>4, <2>5
<1> QED
  BY <1>3, <1>4

\* An event is no part: nothing about the parts changes.
LEMMA SendEvent ==
  ASSUME StreamInv, awaited = 0, NEW frame \in Frame, frame # Event("ping"), Send(frame),
         frame.type # "delta", UNCHANGED <<said, wire, lines>>
  PROVE  NoneLost'
<1>1. /\ UNCHANGED written
      /\ stream = "closed" => stream' = "closed"
      /\ stream # "closed" => queue'[awaited'] = frame
  BY SendChain DEF StreamInv, streamVars
<1>2. ~Passing /\ (stream # "closed" => ~Passing')
  BY <1>1 DEF Passing, Pending
<1> QED
  BY <1>1, <1>2 DEF StreamInv, NoneLost

LEMMA StartStep ==
  ASSUME StreamInv, Start
  PROVE  StreamInv'
<1>a. /\ turn = "start" /\ turn' = "respond" /\ Send(Event("started"))
      /\ UNCHANGED <<agentVars, respondVars>>
      /\ UNCHANGED <<agent, said, wire, link, lines, respond, result, verdict, timer, aborted>>
  BY DEF Start, agentVars, respondVars
<1>b. TypeOK /\ Chain /\ Respond /\ awaited = 0
  BY <1>a DEF StreamInv, Chain
<1>1. /\ Event("started") \in Frame /\ Event("started") # Event("ping")
      /\ Event("started").type # "delta" /\ ~Closes(Event("started"))
  BY DEF Frame, Event, Closes
<1>2. /\ agent' \in {"waiting", "answering", "ended"} /\ said' \in 0 .. MaxParts
      /\ wire' \in Seq(Line) /\ link' \in {"none", "open", "ended", "broken"}
      /\ lines' \in Seq(Line)
  BY <1>a, <1>b DEF TypeOK
<1>3. TypeOK' /\ Chain' /\ Ending'
  BY <1>a, <1>b, <1>1, <1>2, SendKeeps
<1>4. NoneLost'
  BY <1>a, <1>b, <1>1, SendEvent
<1>5. respond = "idle" /\ verdict = "none"
  BY <1>a, <1>b DEF Respond
<1>6. UNCHANGED Whole
  BY <1>a DEF Whole
<1>7. Respond'
  BY <1>a, <1>b, <1>5, <1>6 DEF Respond
<1> QED
  BY <1>3, <1>4, <1>7 DEF StreamInv

LEMMA ReportStep ==
  ASSUME StreamInv, Report
  PROVE  StreamInv'
<1> DEFINE event == Event(IF verdict = "answered" THEN "completed" ELSE "failed")
<1>a. /\ turn = "report" /\ awaited = 0 /\ Send(event)
      /\ turn' = IF verdict = "unavailable" /\ stream = "closed" THEN "over" ELSE "end"
      /\ UNCHANGED <<agentVars, respondVars>>
      /\ UNCHANGED <<agent, said, wire, link, lines, respond, result, verdict, timer, aborted>>
  BY DEF Report, Running, agentVars, respondVars
<1>b. TypeOK /\ Chain /\ Respond
  BY DEF StreamInv
<1>1. /\ event \in Frame /\ event # Event("ping")
      /\ event.type # "delta" /\ Closes(event)
  BY DEF Frame, Event, Closes
<1>2. /\ agent' \in {"waiting", "answering", "ended"} /\ said' \in 0 .. MaxParts
      /\ wire' \in Seq(Line) /\ link' \in {"none", "open", "ended", "broken"}
      /\ lines' \in Seq(Line)
  BY <1>a, <1>b DEF TypeOK
<1>3. stream # "idle" /\ event = Event(IF verdict' = "answered" THEN "completed" ELSE "failed")
  BY <1>a, <1>b DEF Chain
<1>4. turn' \in {"end", "over"} /\ (turn' = "over" => stream = "closed")
  BY <1>a
<1> HIDE DEF event
<1>5. TypeOK' /\ Chain' /\ Ending'
  BY <1>a, <1>1, <1>2, <1>3, <1>4, SendKeeps
<1>6. NoneLost'
  BY <1>a, <1>1, SendEvent
<1>7. verdict # "none" /\ respond = "over"
  BY <1>a, <1>b DEF Respond
<1>8. UNCHANGED Whole
  BY <1>a DEF Whole
<1>9. Respond'
  BY <1>a, <1>b, <1>4, <1>7, <1>8 DEF Respond
<1> QED
  BY <1>5, <1>6, <1>9 DEF StreamInv

\* The next part of the answer.
LEMMA NextPart ==
  ASSUME StreamInv, ConsumePart
  PROVE  /\ Head(lines) \in Frame /\ Head(lines) # Event("ping") /\ ~Closes(Head(lines))
         /\ UNCHANGED Whole
         /\ stream # "closed" =>
              /\ Head(lines).part = Len(PartsOf(written)) + 1
              /\ Carries(lines' \o wire', Len(PartsOf(written)) + 1, said)
<1>a. /\ lines # <<>> /\ lines' = Tail(lines) /\ Head(lines).type = "delta" /\ awaited = 0
      /\ UNCHANGED <<said, wire, result>>
  BY DEF ConsumePart, Running, agentVars
<1>1. /\ Head(lines) \in Line /\ lines' \in Seq(Line) /\ lines \o wire \in Seq(Line)
      /\ lines \o wire # <<>> /\ Head(lines \o wire) = Head(lines)
      /\ lines' \o wire' = Tail(lines \o wire)
      /\ Head(lines) # Event("completed") =>
           (Contains(wire' \o lines', Event("completed"))
              <=> Contains(wire \o lines, Event("completed")))
  BY <1>a, ConsumedLine
<1>2. Head(lines) \in Frame /\ Head(lines) # Event("ping") /\ ~Closes(Head(lines))
  BY <1>a, <1>1, LineKinds DEF Closes
<1>3. Head(lines) # Event("completed")
  BY <1>a DEF Event
<1>4. ASSUME stream # "closed"
      PROVE  /\ Head(lines).part = Len(PartsOf(written)) + 1
             /\ Carries(lines' \o wire', Len(PartsOf(written)) + 1, said)
  <2>1. PartsOf(written) \in Seq(Nat) /\ Carries(lines \o wire, Len(PartsOf(written)), said)
    BY <1>a, <1>4 DEF StreamInv, NoneLost, Passing, Pending
  <2>2. Len(PartsOf(written)) \in Nat /\ said \in Nat
    BY <2>1, AgentStreamAssumptions DEF StreamInv, TypeOK
  <2> QED
    BY <1>a, <1>1, <2>1, <2>2, CarriesNext
<1>5. UNCHANGED Whole
  BY <1>a, <1>1, <1>3 DEF Whole
<1> QED
  BY <1>2, <1>4, <1>5

LEMMA ConsumePartStep ==
  ASSUME StreamInv, ConsumePart
  PROVE  StreamInv'
<1>a. /\ respond = "read" /\ awaited = 0 /\ lines # <<>> /\ lines' = Tail(lines)
      /\ Head(lines).type = "delta" /\ Send(Head(lines)) /\ UNCHANGED turn
      /\ UNCHANGED <<agent, said, wire, link, respond, result, verdict, timer, aborted>>
  BY DEF ConsumePart, Running, agentVars
<1>b. TypeOK /\ Chain /\ Respond
  BY DEF StreamInv
<1>1. turn = "respond" /\ verdict = "none" /\ stream # "idle"
  BY <1>a, <1>b, Asking DEF Chain
<1>2. /\ Head(lines) \in Frame /\ Head(lines) # Event("ping") /\ ~Closes(Head(lines))
      /\ UNCHANGED Whole
      /\ stream # "closed" =>
           /\ Head(lines).part = Len(PartsOf(written)) + 1
           /\ Carries(lines' \o wire', Len(PartsOf(written)) + 1, said)
  BY NextPart
<1>3. /\ agent' \in {"waiting", "answering", "ended"} /\ said' \in 0 .. MaxParts
      /\ wire' \in Seq(Line) /\ link' \in {"none", "open", "ended", "broken"}
      /\ lines' \in Seq(Line)
  BY <1>a, <1>b, ConsumedLine DEF TypeOK
<1>4. TypeOK' /\ Chain' /\ Ending'
  BY <1>a, <1>1, <1>2, <1>3, SendKeeps
<1>5. Respond'
  BY <1>a, <1>b, <1>1, <1>2 DEF Respond
<1>6. NoneLost'
  <2>1. /\ UNCHANGED written /\ PartsOf(written) \in Seq(Nat)
        /\ stream = "closed" => stream' = "closed"
        /\ stream # "closed" => Pending' /\ queue'[awaited'] = Head(lines)
    BY <1>a, <1>b, <1>2, SendChain DEF streamVars, StreamInv, NoneLost
  <2>2. stream # "closed" => Passing'
    BY <1>a, <2>1 DEF Passing
  <2> QED
    BY <1>a, <1>2, <2>1, <2>2 DEF NoneLost
<1> QED
  BY <1>4, <1>5, <1>6 DEF StreamInv

LEMMA EndStep ==
  ASSUME StreamInv, End
  PROVE  StreamInv'
<1>a. /\ turn = "end" /\ turn' = "drain" /\ heartbeat' = FALSE
      /\ UNCHANGED <<agentVars, respondVars, stream, queue, stalled, awaited, written, socket>>
  BY DEF End
<1>1. TypeOK'
  <2>1. heartbeat' \in BOOLEAN
        /\ turn' \in {"start", "respond", "report", "end", "drain", "over"}
    BY <1>a
  <2> QED
    BY <1>a, <2>1 DEF StreamInv, TypeOK, agentVars, respondVars
<1>2. Chain'
  BY <1>a DEF StreamInv, Chain
<1>3. UNCHANGED Whole
  BY <1>a DEF Whole, agentVars, respondVars
<1>4. Respond'
  BY <1>a, <1>3 DEF StreamInv, Respond, agentVars, respondVars
<1>5. (Pending' <=> Pending) /\ (Passing' <=> Passing)
  BY <1>a DEF Pending, Passing
<1>6. Ending'
  BY <1>a, <1>5 DEF StreamInv, Ending, Closes, respondVars
<1>7. NoneLost'
  BY <1>a, <1>5 DEF StreamInv, NoneLost, agentVars, respondVars
<1> QED
  BY <1>1, <1>2, <1>4, <1>6, <1>7 DEF StreamInv

LEMMA EndResponseStep ==
  ASSUME StreamInv, EndResponse
  PROVE  StreamInv'
<1>a. /\ turn = "drain" /\ turn' = "over" /\ queue = <<>>
      /\ stream' = "closed" /\ heartbeat' = FALSE
      /\ socket' = (IF stream = "closed" THEN socket ELSE "ended")
      /\ UNCHANGED <<agentVars, respondVars, queue, stalled, awaited, written>>
  BY DEF EndResponse, Flushed, MarkClosed
<1>b. awaited = 0 /\ ~Pending /\ ~Pending' /\ ~stalled
  BY <1>a DEF StreamInv, TypeOK, Chain, Pending
<1>1. TypeOK'
  <2>1. /\ socket' \in {"open", "ended", "gone"} /\ heartbeat' \in BOOLEAN
        /\ turn' \in {"start", "respond", "report", "end", "drain", "over"}
        /\ stream' \in {"idle", "open", "closed"}
    BY <1>a DEF StreamInv, TypeOK
  <2> QED
    BY <1>a, <2>1 DEF StreamInv, TypeOK, agentVars, respondVars
<1>2. Chain'
  BY <1>a, <1>b DEF StreamInv, Chain
<1>3. UNCHANGED Whole
  BY <1>a DEF Whole, agentVars, respondVars
<1>4. Respond'
  BY <1>a, <1>3 DEF StreamInv, Respond, agentVars, respondVars
<1>5. socket' = "ended" => queue' = <<>> /\ written' # <<>> /\ Closes(Last(written'))
  BY <1>a, <1>b DEF StreamInv, Ending
<1>6. Ending'
  BY <1>a, <1>b, <1>5 DEF StreamInv, Ending
<1>7. NoneLost'
  BY <1>a DEF StreamInv, NoneLost
<1> QED
  BY <1>1, <1>2, <1>4, <1>6, <1>7 DEF StreamInv

-------------------------------------------------------------------------------
(* The invariant.                                                           *)

LEMMA StreamStep == StreamInv /\ [Next]_vars => StreamInv'
<1> SUFFICES ASSUME StreamInv, [Next]_vars PROVE StreamInv'
  OBVIOUS
<1>1. CASE Start \/ Fetch \/ Accept \/ Refused
  BY <1>1, StartStep, FetchStep, AcceptStep, EndingSteps
<1>2. CASE Read \/ ReadError \/ ReadEnd
  BY <1>2, ReadStep, EndingSteps
<1>3. CASE ConsumePart \/ ConsumeCompleted \/ ConsumeError
  BY <1>3, ConsumePartStep, ConsumeCompletedStep, EndingSteps
<1>4. CASE Report \/ End \/ EndResponse
  BY <1>4, ReportStep, EndStep, EndResponseStep
<1>5. CASE Fire \/ Write \/ Skip \/ Ping \/ Drain \/ Disconnect
  BY <1>5, FireStep, WriteStep, SkipDrainStep, PingStep, DisconnectStep
<1>6. CASE Agent
  BY <1>6, SayStep, FinishStep DEF Agent
<1>7. CASE AbortAgent \/ Cut \/ Break \/ Garble
  BY <1>7, AbortBreakStep, CutStep, GarbleStep
<1>8. CASE UNCHANGED vars
  <2>1. UNCHANGED <<agentVars, respondVars, turn, streamVars>>
    BY <1>8 DEF vars, agentVars, respondVars, streamVars
  <2>2. /\ UNCHANGED <<said, lines, wire, agent, link>> /\ UNCHANGED Whole
        /\ UNCHANGED <<respondVars, turn, streamVars>>
    BY <2>1 DEF agentVars, respondVars, Whole
  <2>3. /\ agent' \in {"waiting", "answering", "ended"} /\ said' \in 0 .. MaxParts
        /\ wire' \in Seq(Line) /\ link' \in {"none", "open", "ended", "broken"}
    BY <2>2 DEF StreamInv, TypeOK
  <2>4. agent' = "answering" => ~Whole'
    BY <2>2 DEF StreamInv, Respond
  <2> QED
    BY <2>2, <2>3, <2>4, AgentKeeps
<1> QED
  BY <1>1, <1>2, <1>3, <1>4, <1>5, <1>6, <1>7, <1>8 DEF Next, Handler

LEMMA StreamInvariant == Spec => []StreamInv
BY StreamInit, StreamStep, PTL DEF Spec

\* The variables of the agent, the reader, the chain of writes and the handler
\* keep their types.
THEOREM StreamTypeCorrect == Spec => []TypeOK
<1>1. StreamInv => TypeOK
  BY DEF StreamInv
<1> QED
  BY <1>1, StreamInvariant, PTL

\* However many heartbeats pile up behind a stalled client, none beats after the
\* handler has ended, and a response that is ended has had its terminal event
\* last and nothing left in the chain.
THEOREM StreamEndsQuietly == Spec => []QuietAfterEnd
<1>1. StreamInv => QuietAfterEnd
  BY DEF StreamInv, TypeOK, Chain, Respond, Ending, Closes, QuietAfterEnd
<1> QED
  BY <1>1, StreamInvariant, PTL

\* However the client stalls and the lines arrive: at most one event waits in
\* the chain of writes for it, and only heartbeats pile up around that one.
THEOREM StreamWaitsForClient == Spec => []OneEventWaits
<1>1. StreamInv => OneEventWaits
  BY DEF StreamInv, Chain, OneEventWaits
<1> QED
  BY <1>1, StreamInvariant, PTL

-------------------------------------------------------------------------------
(* The transports implement AnswerDelivery.                                 *)

LEMMA DeliveryInit == Init => Delivery!Init
<1> SUFFICES ASSUME Init PROVE Delivery!Init
  OBVIOUS
<1>1. Len(<<>>) = 0 /\ <<>> \o <<>> = <<>>
  OBVIOUS
<1>2. /\ said = 0 /\ verdict = "none" /\ stream # "closed" /\ ~result
      /\ wire \o lines = <<>> /\ written = <<>>
  BY <1>1 DEF Init
<1>3. \A e : ~Contains(<<>>, e)
  BY <1>1 DEF Contains
<1>4. ~Whole /\ Closing = "none" /\ PartsOf(written) = <<>>
  BY <1>2, <1>3, PartsOfNone DEF Whole, Closing
<1> QED
  BY <1>2, <1>4 DEF Delivery!Init

\* What the abstract specification does not see.
LEMMA DeliverySame ==
  ASSUME UNCHANGED <<said, written, verdict>>, Whole' <=> Whole,
         stream' = "closed" <=> stream = "closed"
  PROVE  UNCHANGED Delivery!vars
<1>1. UNCHANGED <<Closing, PartsOf(written)>>
  BY DEF Closing
<1>2. Whole' = Whole /\ (stream = "closed")' = (stream = "closed")
  BY DEF Whole
<1> QED
  BY <1>1, <1>2 DEF Delivery!vars

LEMMA DeliveryAgent ==
  ASSUME StreamInv, Agent
  PROVE  [Delivery!Next]_(Delivery!vars)
<1>a. UNCHANGED <<written, verdict, stream, Closing, PartsOf(written)>> /\ agent = "answering"
  BY DEF Agent, Say, Finish, respondVars, streamVars, Closing
<1>b. ~Whole /\ (stream = "closed")' = (stream = "closed")
  BY <1>a DEF StreamInv, Respond
<1>1. CASE Say
  <2>1. ~Whole' /\ said' = said + 1
    BY <1>1, SayStep DEF Say
  <2>2. Whole' = Whole
    BY <1>b, <2>1 DEF Whole
  <2>3. Delivery!Say
    BY <1>a, <1>b, <2>1, <2>2 DEF Delivery!Say
  <2> QED
    BY <2>3 DEF Delivery!Next
<1>2. CASE Finish(Event("completed")) \/ Finish(Event("failed"))
  <2>1. said' = said
    BY <1>2 DEF Finish
  <2>2. CASE Whole'
    <3>1. Whole' = TRUE
      BY <2>2 DEF Whole
    <3>2. Delivery!Say
      BY <1>a, <1>b, <2>1, <3>1 DEF Delivery!Say
    <3> QED
      BY <3>2 DEF Delivery!Next
  <2>3. CASE ~Whole'
    BY <1>a, <1>b, <2>1, <2>3, DeliverySame
  <2> QED
    BY <2>2, <2>3
<1> QED
  BY <1>1, <1>2 DEF Agent

LEMMA DeliveryHidden ==
  ASSUME StreamInv,
         \/ AbortAgent \/ Cut \/ Break \/ Garble
         \/ Fetch \/ Accept \/ Fire \/ Read \/ ConsumeCompleted \/ ConsumePart
         \/ Start \/ Report \/ End \/ Skip \/ Ping \/ Drain
  PROVE  UNCHANGED Delivery!vars
<1>1. CASE AbortAgent \/ Break
  <2>1. UNCHANGED Whole /\ UNCHANGED <<said, written, verdict, stream>>
    BY <1>1 DEF AbortAgent, Break, Whole, respondVars, streamVars
  <2> QED
    BY <2>1, DeliverySame
<1>2. CASE Cut
  <2>1. /\ UNCHANGED <<said, written, verdict, stream, result, lines>> /\ agent = "answering"
        /\ wire' = wire \/ wire' = Append(wire, Event("partial"))
    BY <1>2 DEF Cut, respondVars, streamVars
  <2>2. Event("partial") \in Line /\ Event("partial") # Event("completed")
    BY EventTypes DEF Event
  <2>3. CASE wire' = wire
    <3>1. UNCHANGED Whole
      BY <2>1, <2>3 DEF Whole
    <3> QED
      BY <2>1, <3>1, DeliverySame
  <2>4. CASE wire' = Append(wire, Event("partial"))
    <3>1. ~Whole /\ ~Whole'
      BY <2>1, <2>2, <2>4, WholeLater DEF StreamInv, Respond
    <3> QED
      BY <2>1, <3>1, DeliverySame
  <2> QED
    BY <2>1, <2>3, <2>4
<1>3. CASE Garble
  <2>1. ~Whole /\ ~Whole' /\ UNCHANGED <<said, written, verdict, stream>>
    BY <1>3, GarbleStep DEF Garble, respondVars, streamVars, StreamInv, Respond
  <2> QED
    BY <2>1, DeliverySame
<1>4. CASE Fetch \/ Accept \/ Fire
  <2>1. UNCHANGED Whole /\ UNCHANGED <<said, written, verdict, stream>>
    BY <1>4 DEF Fetch, Accept, Fire, Whole, agentVars, streamVars
  <2> QED
    BY <2>1, DeliverySame
<1>5. CASE Read
  BY <1>5, ReadLines, DeliverySame DEF Read, streamVars
<1>6. CASE ConsumeCompleted
  <2>1. Whole /\ Whole' /\ UNCHANGED <<said, written, verdict, stream>>
    BY <1>6, CompletedLine DEF ConsumeCompleted, agentVars, streamVars
  <2> QED
    BY <2>1, DeliverySame
<1>7. CASE ConsumePart \/ Start \/ Report
  <2>1. PICK frame : Send(frame)
    BY <1>7 DEF ConsumePart, Start, Report
  <2>2. UNCHANGED written /\ (stream' = "closed" <=> stream = "closed")
    BY <2>1 DEF Send, Enqueue
  <2>3. UNCHANGED Whole
    <3>1. CASE ConsumePart
      BY <3>1, NextPart
    <3>2. CASE Start \/ Report
      BY <3>2 DEF Start, Report, Whole, agentVars, respondVars
    <3> QED
      BY <1>7, <3>1, <3>2
  <2>4. UNCHANGED <<said, verdict>>
    BY <1>7 DEF ConsumePart, Start, Report, agentVars, respondVars
  <2> QED
    BY <2>2, <2>3, <2>4, DeliverySame
<1>8. CASE End \/ Skip \/ Drain
  <2>1. UNCHANGED Whole /\ UNCHANGED <<said, written, verdict, stream>>
    BY <1>8 DEF End, Skip, Drain, Whole, agentVars, respondVars
  <2> QED
    BY <2>1, DeliverySame
<1>9. CASE Ping
  <2>1. UNCHANGED Whole /\ UNCHANGED <<said, written, verdict>>
    BY <1>9 DEF Ping, Whole, agentVars, respondVars
  <2>2. stream' = "closed" <=> stream = "closed"
    BY <1>9 DEF Ping, Enqueue
  <2> QED
    BY <2>1, <2>2, DeliverySame
<1> QED
  BY <1>1, <1>2, <1>3, <1>4, <1>5, <1>6, <1>7, <1>8, <1>9

\* respond ends: an answer counts once it is whole and was passed on.
LEMMA DeliveryOver ==
  ASSUME StreamInv, Refused \/ ReadError \/ ReadEnd \/ ConsumeError
  PROVE  Delivery!Next
<1>a. /\ respond \in {"fetch", "read"}
      /\ UNCHANGED <<said, written, stream, Closing, PartsOf(written)>>
      /\ UNCHANGED Whole
  BY DEF Refused, ReadError, ReadEnd, ConsumeError, Reading, agentVars, streamVars, Whole, Closing
<1>b. /\ verdict = "none" /\ (stream = "closed")' = (stream = "closed")
  BY <1>a, Asking
<1>1. ASSUME verdict' = "unavailable" PROVE Delivery!GiveUp
  BY <1>a, <1>b, <1>1 DEF Delivery!GiveUp
<1>2. ASSUME ReadEnd, Acceptable PROVE Delivery!Answer
  <2>1. /\ awaited = 0 /\ lines = <<>> /\ wire = <<>> /\ Whole /\ verdict' = "answered"
    BY <1>2 DEF ReadEnd, Reading, Running, Acceptable, Whole, Over
  <2>2. stream = "closed" \/ Len(PartsOf(written)) = said
    <3> SUFFICES ASSUME stream # "closed" PROVE Len(PartsOf(written)) = said
      OBVIOUS
    <3>1. PartsOf(written) \in Seq(Nat) /\ Carries(lines \o wire, Len(PartsOf(written)), said)
      BY <2>1 DEF StreamInv, NoneLost, Passing, Pending
    <3>2. lines \o wire = <<>> /\ said \in Nat
      BY <2>1, AgentStreamAssumptions DEF StreamInv, TypeOK
    <3> QED
      BY <3>1, <3>2, CarriesAll
  <2> QED
    BY <1>a, <1>b, <2>1, <2>2 DEF Delivery!Answer
<1>3. verdict' = "unavailable" \/ (ReadEnd /\ Acceptable)
  BY DEF Refused, ReadError, ReadEnd, ConsumeError, Over
<1> QED
  BY <1>1, <1>2, <1>3 DEF Delivery!Next

\* The client leaves, or the response is ended.
LEMMA DeliveryLeave ==
  ASSUME StreamInv, Disconnect \/ EndResponse
  PROVE  Delivery!Leave
<1>1. /\ stream' = "closed" /\ UNCHANGED <<said, verdict, Closing, PartsOf(written)>>
      /\ UNCHANGED Whole
  BY DEF Disconnect, EndResponse, MarkClosed, agentVars, respondVars, Closing, Whole
<1>2. (stream = "closed")' = TRUE
  BY <1>1
<1> QED
  BY <1>1, <1>2 DEF Delivery!Leave

LEMMA DeliveryWrite ==
  ASSUME StreamInv, Write
  PROVE  [Delivery!Next]_(Delivery!vars)
<1>a. /\ stream # "closed" /\ UNCHANGED <<said, verdict, stream>> /\ UNCHANGED Whole
      /\ awaited # 1 => written' = written
      /\ awaited = 1 =>
           /\ Pending /\ queue[1] \in Frame \ {Event("ping")}
           /\ written' = Append(written, queue[1])
  BY WriteChain DEF agentVars, respondVars, Whole
<1>b. (stream = "closed")' = FALSE /\ (stream = "closed") = FALSE
  BY <1>a
<1>1. CASE awaited # 1
  BY <1>a, <1>1, DeliverySame
<1>2. CASE awaited = 1
  <2>a. /\ written \in Seq(Frame) /\ queue[1] \in Frame /\ PartsOf(written) \in Seq(Nat)
        /\ queue[1].type = "delta" => respond = "read"
        /\ Closes(queue[1]) =>
             queue[1] = Event(IF verdict = "answered" THEN "completed" ELSE "failed")
        /\ Closes(queue[1]) <=> turn \in {"end", "drain", "over"}
        /\ \A i \in 1 .. Len(written) : ~Closes(written[i])
    BY <1>a, <1>2 DEF StreamInv, TypeOK, Ending, NoneLost
  <2>e. written' = Append(written, queue[1])
    BY <1>a, <1>2
  <2>b. Closing = "none"
    <3>1. ~Contains(written, Event("completed")) /\ ~Contains(written, Event("failed"))
      BY <2>a DEF Contains, Closes, Event
    <3> QED
      BY <3>1 DEF Closing
  <2>c. \A e : Contains(written', e) <=> Contains(written, e) \/ queue[1] = e
    BY <2>a, <2>e, ContainsMore
  <2>d. ~Contains(written, Event("completed")) /\ ~Contains(written, Event("failed"))
    BY <2>a DEF Contains, Closes, Event
  <2>1. CASE queue[1].type = "delta"
    <3>1. /\ queue[1].part = Len(PartsOf(written)) + 1
          /\ Carries(lines \o wire, Len(PartsOf(written)) + 1, said)
      BY <1>a, <1>2, <2>1 DEF StreamInv, NoneLost, Passing
    <3>2. PartsOf(written') = Append(PartsOf(written), Len(PartsOf(written)) + 1)
      BY <2>a, <2>e, <2>1, <3>1, PartsOfMore
    <3>3. Len(PartsOf(written)) < said
      BY <2>a, <3>1, AgentStreamAssumptions DEF Carries, StreamInv, TypeOK
    <3>4. verdict = "none"
      BY <2>a, <2>1, Asking
    <3>5. queue[1] # Event("completed") /\ queue[1] # Event("failed")
      BY <2>1 DEF Event
    <3>6. Closing' = Closing
      BY <2>c, <3>5 DEF Closing
    <3>7. Delivery!Pass
      BY <1>a, <1>b, <3>2, <3>3, <3>4, <3>6 DEF Delivery!Pass
    <3> QED
      BY <3>7 DEF Delivery!Next
  <2>2. CASE Closes(queue[1])
    <3>1. PartsOf(written') = PartsOf(written)
      BY <2>a, <2>e, <2>2, PartsOfMore DEF Closes
    <3>2. verdict # "none" /\ verdict \in {"answered", "unavailable"}
      BY <2>a, <2>2 DEF StreamInv, Respond, TypeOK
    <3>3. Event("completed") # Event("failed")
      BY DEF Event
    <3>4. CASE verdict = "answered"
      <4>1. queue[1] = Event("completed")
        BY <2>a, <2>2, <3>4
      <4>2. Closing' = "completed"
        BY <2>c, <4>1 DEF Closing
      <4>3. Delivery!Close
        BY <1>a, <1>b, <2>b, <3>1, <3>4, <4>2 DEF Delivery!Close
      <4> QED
        BY <4>3 DEF Delivery!Next
    <3>5. CASE verdict = "unavailable"
      <4>1. queue[1] = Event("failed")
        BY <2>a, <2>2, <3>5
      <4>2. Closing' = "failed"
        BY <2>c, <2>d, <3>3, <4>1 DEF Closing
      <4>3. Delivery!Close
        BY <1>a, <1>b, <2>b, <3>1, <3>5, <4>2 DEF Delivery!Close
      <4> QED
        BY <4>3 DEF Delivery!Next
    <3> QED
      BY <3>2, <3>4, <3>5
  <2>3. CASE queue[1].type # "delta" /\ ~Closes(queue[1])
    <3>1. PartsOf(written') = PartsOf(written)
      BY <2>a, <2>e, <2>3, PartsOfMore
    <3>2. queue[1] # Event("completed") /\ queue[1] # Event("failed")
      BY <2>3 DEF Closes, Event
    <3>3. Closing' = Closing
      BY <2>c, <3>2 DEF Closing
    <3>4. Whole' = Whole
      BY <1>a
    <3> QED
      BY <1>a, <1>b, <3>1, <3>3, <3>4 DEF Delivery!vars
  <2> QED
    BY <2>1, <2>2, <2>3
<1> QED
  BY <1>1, <1>2

LEMMA DeliveryStep == StreamInv /\ [Next]_vars => [Delivery!Next]_(Delivery!vars)
<1> SUFFICES ASSUME StreamInv, [Next]_vars PROVE [Delivery!Next]_(Delivery!vars)
  OBVIOUS
<1>1. CASE Agent
  BY <1>1, DeliveryAgent
<1>2. CASE \/ AbortAgent \/ Cut \/ Break \/ Garble
           \/ Fetch \/ Accept \/ Fire \/ Read \/ ConsumeCompleted \/ ConsumePart
           \/ Start \/ Report \/ End \/ Skip \/ Ping \/ Drain
  BY <1>2, DeliveryHidden
<1>3. CASE Refused \/ ReadError \/ ReadEnd \/ ConsumeError
  BY <1>3, DeliveryOver
<1>4. CASE Disconnect \/ EndResponse
  BY <1>4, DeliveryLeave DEF Delivery!Next
<1>5. CASE Write
  BY <1>5, DeliveryWrite
<1>6. CASE UNCHANGED vars
  <2>1. UNCHANGED Whole /\ UNCHANGED <<said, written, verdict, stream>>
    BY <1>6 DEF vars, Whole
  <2> QED
    BY <2>1, DeliverySame
<1> QED
  BY <1>1, <1>2, <1>3, <1>4, <1>5, <1>6 DEF Next, Handler

\* Lines, chunks, timeouts, stalls and heartbeats change nothing about what the
\* client is promised: the parts in order and once, no answer that is not whole,
\* and a last event that says what the server decided.
THEOREM StreamImplementsDelivery == Spec => ImplementsDelivery
BY StreamInvariant, DeliveryInit, DeliveryStep, PTL DEF Spec, ImplementsDelivery, Delivery!Spec
===============================================================================
