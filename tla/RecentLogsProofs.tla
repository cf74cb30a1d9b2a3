--------------------------- MODULE RecentLogsProofs ---------------------------
(***************************************************************************)
(* RecentLogs implements LogWindow for every capacity: type correctness,   *)
(* the inductive invariant that the occupied slots are the last `size'     *)
(* ones behind nextIndex, the refinement, and that a listing shows the     *)
(* newest entries that match.                                              *)
(***************************************************************************)
EXTENDS RecentLogs, FiniteSetTheorems, TLAPS

USE DEF Level, Unknown

-------------------------------------------------------------------------------
(* Remainders in the two ranges that the indices of the array take. *)

\* The remainder of a number below the modulus is the number.
LEMMA RemainderOfSmall ==
  ASSUME NEW c \in Nat \ {0}, NEW x \in 0 .. c - 1
  PROVE  x % c = x
  BY SMT

\* One wrap is undone by one subtraction.
LEMMA RemainderOfWrapped ==
  ASSUME NEW c \in Nat \ {0}, NEW x \in c .. 2 * c - 1
  PROVE  x % c = x - c
  BY SMT

\* The slot `back' writes behind index n, the index itself being one behind.
Behind(n, back) == IF back <= n THEN n - back ELSE n - back + Capacity

\* IndexBack walks backwards through the array, wrapping once.
LEMMA IndexBackValue ==
  ASSUME Capacity \in Nat \ {0}, nextIndex \in 0 .. Capacity - 1,
         NEW offset \in 0 .. Capacity - 1
  PROVE  IndexBack(offset) = Behind(nextIndex, offset + 1)
<1> DEFINE x == nextIndex - 1 - offset + Capacity
<1>1. x \in 0 .. 2 * Capacity - 1
  OBVIOUS
<1>2. CASE offset + 1 <= nextIndex
  <2>1. x \in Capacity .. 2 * Capacity - 1
    BY <1>2
  <2> QED
    BY <2>1, <1>2, RemainderOfWrapped DEF IndexBack, Behind
<1>3. CASE offset + 1 > nextIndex
  <2>1. x \in 0 .. Capacity - 1
    BY <1>3
  <2> QED
    BY <2>1, <1>3, RemainderOfSmall DEF IndexBack, Behind
<1> QED
  BY <1>2, <1>3

\* Following wraps at the end of the array.
LEMMA FollowingValue ==
  ASSUME Capacity \in Nat \ {0}, NEW n \in 0 .. Capacity - 1
  PROVE  Following(n) = IF n + 1 = Capacity THEN 0 ELSE n + 1
<1>1. CASE n + 1 = Capacity
  BY <1>1, RemainderOfWrapped DEF Following
<1>2. CASE n + 1 # Capacity
  BY <1>2, RemainderOfSmall DEF Following
<1> QED
  BY <1>1, <1>2

-------------------------------------------------------------------------------

\* One write moves every slot one place further behind the index, ...
LEMMA BehindFollowing ==
  ASSUME Capacity \in Nat \ {0}, NEW n \in 0 .. Capacity - 1
  PROVE  /\ Behind(Following(n), 1) = n
         /\ \A k \in 2 .. Capacity : Behind(Following(n), k) = Behind(n, k - 1)
BY FollowingValue DEF Behind

\* ... and the slots behind the index are not the one written next.
LEMMA BehindElsewhere ==
  ASSUME Capacity \in Nat \ {0}, NEW n \in 0 .. Capacity - 1
  PROVE  /\ \A k \in 1 .. Capacity : Behind(n, k) \in 0 .. Capacity - 1
         /\ \A k \in 1 .. Capacity - 1 : Behind(n, k) # n
BY DEF Behind

\* ListRecent without remainders.
LEMMA ListRecentValue ==
  StoreTypeOK => ListRecent = [k \in 1 .. size |-> entries[Behind(nextIndex, k)]]
<1> SUFFICES ASSUME StoreTypeOK
             PROVE  ListRecent = [k \in 1 .. size |-> entries[Behind(nextIndex, k)]]
  OBVIOUS
<1> USE RecentLogsAssumptions
<1>1. \A k \in 1 .. size : IndexBack(k - 1) = Behind(nextIndex, k)
  <2> TAKE k \in 1 .. size
  <2>1. k - 1 \in 0 .. Capacity - 1
    BY DEF StoreTypeOK
  <2> QED
    BY <2>1, IndexBackValue DEF StoreTypeOK
<1> QED
  BY <1>1 DEF ListRecent

-------------------------------------------------------------------------------

\* The entry k writes ago has the number that it must have: the numbers a
\* reader sees are consecutive, so that a gap tells it what it missed.
Consecutive ==
  /\ size < nextId
  /\ \A k \in 1 .. size : ListRecent[k] \in Entry /\ ListRecent[k].id = nextId - k

StoreInv == StoreTypeOK /\ Consecutive

\* What is stored of a line that is kept is an entry.
LEMMA SlotIsEntry ==
  ASSUME StoreTypeOK, NEW line \in Lines, Parsed(line)
  PROVE  Slot(line) \in Entry /\ Slot(line).id = nextId
<1>1. line \in Line
  BY RecentLogsAssumptions
<1>2. /\ line.level \in Level
      /\ line.msg \in (SUBSET Word) \cup {None}
      /\ line.attributes \in Attributes
  BY <1>1 DEF Line, Parsed
<1>3. ContentOf(line) \in Content
  BY <1>2 DEF ContentOf, Content
<1> QED
  BY <1>3 DEF Slot, Entry, StoreTypeOK

\* Initially the array is empty.
LEMMA StoreInit == Init => StoreInv
BY RecentLogsAssumptions DEF Init, StoreInv, StoreTypeOK, Consecutive

\* A write puts the new entry in front of the list and moves the others back.
LEMMA WriteList ==
  ASSUME StoreInv, NEW line \in Lines, Write(line)
  PROVE  /\ StoreTypeOK'
         /\ size' \in 1 .. Capacity
         /\ ListRecent' = [k \in 1 .. size' |->
                             IF k = 1 THEN Slot(line) ELSE ListRecent[k - 1]]
<1> USE RecentLogsAssumptions
<1>0. Following(nextIndex) \in 0 .. Capacity - 1
  BY FollowingValue DEF StoreInv, StoreTypeOK
<1>1. StoreTypeOK'
  <2>1. Slot(line) \in Entry
    BY SlotIsEntry DEF StoreInv, Write
  <2> QED
    BY <1>0, <2>1 DEF StoreInv, StoreTypeOK, Write, Grown
<1>2. size' \in Nat /\ size' >= 1 /\ size' <= Capacity /\ size' <= size + 1 /\ size \in Nat
  BY DEF StoreInv, StoreTypeOK, Write, Grown
<1>3. ListRecent' = [k \in 1 .. size' |-> entries'[Behind(nextIndex', k)]]
  <2>1. (StoreTypeOK => ListRecent = [k \in 1 .. size |-> entries[Behind(nextIndex, k)]])'
    BY ListRecentValue, PTL
  <2> QED
    BY <1>1, <2>1 DEF Behind
<1>4. ASSUME NEW k \in 1 .. size'
      PROVE  entries'[Behind(nextIndex', k)]
               = IF k = 1 THEN Slot(line) ELSE ListRecent[k - 1]
  <2>1. CASE k = 1
    BY <2>1, BehindFollowing DEF StoreInv, StoreTypeOK, Write
  <2>2. CASE k # 1
    <3>1. k \in 2 .. Capacity /\ k - 1 \in 1 .. size /\ k - 1 \in 1 .. Capacity - 1
      <4>1. k \in Nat /\ k > 1 /\ k <= size'
        BY <1>2, <2>2
      <4> QED
        BY <1>2, <4>1
    <3>2. Behind(nextIndex', k) = Behind(nextIndex, k - 1)
      BY <3>1, BehindFollowing DEF StoreInv, StoreTypeOK, Write
    <3>3. /\ Behind(nextIndex, k - 1) \in 0 .. Capacity - 1
          /\ Behind(nextIndex, k - 1) # nextIndex
      <4>1. nextIndex \in 0 .. Capacity - 1 /\ k - 1 \in 1 .. Capacity
        BY <3>1 DEF StoreInv, StoreTypeOK
      <4> QED
        BY <3>1, <4>1, BehindElsewhere
    <3>4. entries'[Behind(nextIndex', k)] = entries[Behind(nextIndex, k - 1)]
      BY <3>2, <3>3 DEF StoreInv, StoreTypeOK, Write
    <3> QED
      BY <3>1, <3>4, <2>2, ListRecentValue DEF StoreInv
  <2> QED
    BY <2>1, <2>2
<1> QED
  BY <1>1, <1>2, <1>3, <1>4

\* The occupied slots stay the last ones behind the index.
LEMMA StoreStep == StoreInv /\ [Next]_vars => StoreInv'
<1> SUFFICES ASSUME StoreInv, [Next]_vars PROVE StoreInv'
  OBVIOUS
<1>1. ASSUME NEW line \in Lines, Write(line) PROVE StoreInv'
  <2>1. nextId' = nextId + 1 /\ nextId \in Nat \ {0} /\ size' <= size + 1 /\ size \in Nat
    BY <1>1, RecentLogsAssumptions DEF StoreInv, StoreTypeOK, Write, Grown
  <2>2. size < nextId /\ size' \in Nat
    BY <1>1, WriteList, RecentLogsAssumptions DEF StoreInv, Consecutive
  <2>3. ASSUME NEW k \in 1 .. size'
        PROVE  ListRecent'[k] \in Entry /\ ListRecent'[k].id = nextId' - k
    <3>1. CASE k = 1
      <4>1. Slot(line) \in Entry /\ Slot(line).id = nextId
        BY <1>1, SlotIsEntry DEF StoreInv, Write
      <4> QED
        BY <4>1, <3>1, <2>1, <1>1, WriteList
    <3>2. CASE k # 1
      <4>1. k - 1 \in 1 .. size
        BY <3>2, <2>1, <2>2
      <4>2. ListRecent[k - 1] \in Entry /\ ListRecent[k - 1].id = nextId - (k - 1)
        BY <4>1 DEF StoreInv, Consecutive
      <4>3. ListRecent'[k] = ListRecent[k - 1]
        BY <3>2, <1>1, WriteList
      <4> QED
        BY <4>2, <4>3, <2>1
    <3> QED
      BY <3>1, <3>2
  <2> QED
    BY <2>1, <2>2, <2>3, <1>1, WriteList DEF StoreInv, Consecutive
<1>2. CASE UNCHANGED store
  BY <1>2 DEF store, StoreInv, StoreTypeOK, Consecutive, ListRecent, IndexBack
<1> QED
  BY <1>1, <1>2 DEF Next, Drop, List, vars, store

\* The numbers of the entries a reader sees are consecutive, newest first, and
\* end at the last one written.
THEOREM ConsecutiveAlways == Spec => [](StoreTypeOK /\ Consecutive)
BY StoreInit, StoreStep, PTL DEF Spec, StoreInv

\* The array, its indices and the query answered last keep their types.
THEOREM RecentLogsTypeCorrect == Spec => []TypeOK
<1>1. Init => StoreInv /\ TypeOK
  BY StoreInit DEF StoreInv, TypeOK, Init
<1>2. StoreInv /\ TypeOK /\ [Next]_vars => StoreInv' /\ TypeOK'
  BY StoreStep DEF StoreInv, TypeOK, Next, Write, Drop, List, vars
<1> QED
  BY <1>1, <1>2, PTL DEF Spec

-------------------------------------------------------------------------------

\* An empty array is an empty window.
LEMMA WindowInit == Init => Window!Init
BY DEF Init, Window!Init, ListRecent

\* A write retains one entry, anything else leaves the window alone.
LEMMA WindowStep == StoreInv /\ [Next]_vars => [Window!Next]_<<ListRecent, nextId - 1>>
<1> SUFFICES ASSUME StoreInv, [Next]_vars
             PROVE  [Window!Next]_<<ListRecent, nextId - 1>>
  OBVIOUS
<1> USE RecentLogsAssumptions
<1>1. ASSUME NEW line \in Lines, Write(line)
      PROVE  Window!Retain(ContentOf(line))
  <2> DEFINE new == [id |-> nextId - 1 + 1, content |-> ContentOf(line)]
             longer == <<new>> \o ListRecent
             kept == IF size + 1 < Capacity THEN size + 1 ELSE Capacity
  <2>1. new = Slot(line) /\ new \in Entry
    BY <1>1, SlotIsEntry DEF StoreInv, StoreTypeOK, Slot, Write
  <2>2. ListRecent \in Seq(Entry) /\ Len(ListRecent) = size
    BY DEF StoreInv, Consecutive, ListRecent, StoreTypeOK
  <2>3. /\ longer \in Seq(Entry) /\ Len(longer) = size + 1
        /\ \A k \in 1 .. size + 1 :
             longer[k] = IF k = 1 THEN Slot(line) ELSE ListRecent[k - 1]
    BY <2>1, <2>2 DEF StoreInv, StoreTypeOK
  <2>4. size' = kept /\ kept \in 1 .. size + 1
    BY <1>1 DEF StoreInv, StoreTypeOK, Write, Grown
  <2>5. SubSeq(longer, 1, kept) = [k \in 1 .. kept |-> longer[k]]
    BY <2>3, <2>4
  <2>6. ListRecent' = SubSeq(longer, 1, kept)
    BY <2>3, <2>4, <2>5, <1>1, WriteList
  <2>7. nextId' - 1 = nextId - 1 + 1
    BY <1>1 DEF StoreInv, StoreTypeOK, Write
  <2> QED
    BY <2>2, <2>3, <2>6, <2>7 DEF Window!Retain, Window!LeastOf
<1>2. CASE UNCHANGED store
  BY <1>2 DEF store, ListRecent, IndexBack
<1> QED
  BY <1>1, <1>2 DEF Next, Drop, List, vars, store, Window!Next

\* The circular array implements the window of the newest entries: whatever its
\* capacity, wrapping loses, repeats and reorders nothing.
THEOREM RecentLogsImplementWindow == Spec => ImplementsWindow
<1>1. Init => StoreInv
  BY StoreInit
<1>2. StoreInv /\ [Next]_vars => StoreInv'
  BY StoreStep
<1> QED
  BY <1>1, <1>2, WindowInit, WindowStep, PTL DEF Spec, ImplementsWindow, Window!Spec

-------------------------------------------------------------------------------
(* Induction over numbers, stated with sets: the provers find a set where   *)
(* they do not find an operator.                                            *)

\* A nonempty set of numbers has a least one.
LEMMA Least ==
  ASSUME NEW S, S \subseteq Nat, S # {}
  PROVE  \E n \in S : \A m \in S : n <= m
<1>1. IsWellFoundedOn(OpToRel(<, Nat), Nat)
  BY NatLessThanWellFounded
<1>2. PICK n \in S : \A m \in S : ~(<<m, n>> \in OpToRel(<, Nat))
  BY <1>1, WFMin
<1>3. \A m \in S : ~(m < n)
  BY <1>2 DEF OpToRel
<1> QED
  BY <1>3

\* A set that holds 0 and with every number the next one holds them all.
LEMMA SetInduction ==
  ASSUME NEW S, 0 \in S, \A n \in Nat : n \in S => n + 1 \in S
  PROVE  Nat \subseteq S
<1> SUFFICES ASSUME NEW k \in Nat, k \notin S PROVE FALSE
  OBVIOUS
<1> DEFINE T == {n \in Nat : n \notin S}
<1>1. PICK n \in T : \A m \in T : n <= m
  BY Least
<1>2. n # 0 /\ n - 1 \in Nat /\ n - 1 \notin T
  BY <1>1
<1>3. n - 1 \in S 
  BY <1>2
<1> QED
  BY <1>1, <1>2, <1>3

-------------------------------------------------------------------------------
(* What the loop of ListAdminLogsUseCase collects.                          *)

\* The function that Collect defines exists, and obeys its equation.
LEMMA CollectFunction ==
  ASSUME NEW list, NEW query, Len(list) \in Nat
  PROVE  \E f : /\ Collect(list, query) = f[Len(list)]
                /\ f[0] = <<>>
                /\ \A k \in 1 .. Len(list) :
                     f[k] = IF Len(f[k - 1]) < query.limit /\ Matches(list[k], query)
                            THEN Append(f[k - 1], list[k]) ELSE f[k - 1]
<1> DEFINE Step(f, k) == IF k = 0 THEN <<>>
                         ELSE IF Len(f[k - 1]) < query.limit /\ Matches(list[k], query)
                              THEN Append(f[k - 1], list[k]) ELSE f[k - 1]
           Defined == {n \in Nat : \E f : f = [k \in 0 .. n |-> Step(f, k)]}
           found == CHOOSE f : f = [k \in 0 .. Len(list) |-> Step(f, k)]
<1>1. 0 \in Defined
  <2> DEFINE f == [k \in 0 .. 0 |-> <<>>]
  <2>1. f = [k \in 0 .. 0 |-> Step(f, k)]
    OBVIOUS
  <2> QED
    BY <2>1
<1>2. ASSUME NEW n \in Nat, n \in Defined PROVE n + 1 \in Defined
  <2> PICK f : f = [k \in 0 .. n |-> Step(f, k)]
    BY <1>2
  <2> DEFINE g == [k \in 0 .. n + 1 |-> IF k <= n THEN f[k] ELSE Step(f, k)]
  <2>1. \A k \in 0 .. n : g[k] = f[k] /\ f[k] = Step(f, k)
    <3> HIDE DEF Step
    <3> QED
      OBVIOUS
  <2>2. g[n + 1] = Step(f, n + 1)
    <3> HIDE DEF Step
    <3> QED
      OBVIOUS
  <2>3. \A k \in 0 .. n + 1 : k # 0 => g[k - 1] = f[k - 1]
    BY <2>1
  <2>4. \A k \in 0 .. n + 1 : Step(g, k) = Step(f, k)
    <3> TAKE k \in 0 .. n + 1
    <3> HIDE DEF g
    <3> QED
      BY <2>3
  <2>5. \A k \in 0 .. n + 1 : g[k] = Step(g, k)
    <3> HIDE DEF Step, g
    <3> QED
      BY <2>1, <2>2, <2>4
  <2>6. g = [k \in 0 .. n + 1 |-> g[k]]
    OBVIOUS
  <2>7. g = [k \in 0 .. n + 1 |-> Step(g, k)]
    <3> HIDE DEF Step, g
    <3> QED
      BY <2>5, <2>6
  <2> HIDE DEF Step, g
  <2> QED
    BY <2>7
<1>3. Len(list) \in Defined
  <2> HIDE DEF Defined
  <2> QED
    BY <1>1, <1>2, SetInduction
<1>4. found = [k \in 0 .. Len(list) |-> Step(found, k)]
  BY <1>3
<1>5. Collect(list, query) = found[Len(list)]
  BY DEF Collect
<1>6. \A k \in 0 .. Len(list) : found[k] = Step(found, k)
  <2> HIDE DEF Step, found
  <2> QED
    BY <1>4
<1> HIDE DEF found
<1> QED
  BY <1>5, <1>6

\* The places of the entries that match among the first k, ...
Hits(list, query, k) == {i \in 1 .. k : Matches(list[i], query)}

\* ... which are finitely many, none at first, ...
LEMMA HitsCount ==
  ASSUME NEW list, NEW query, NEW k \in Nat
  PROVE  /\ IsFiniteSet(Hits(list, query, k)) /\ Cardinality(Hits(list, query, k)) \in Nat
         /\ Hits(list, query, 0) = {} /\ Cardinality(Hits(list, query, 0)) = 0
<1>1. IsFiniteSet(Hits(list, query, k))
  <2>1. IsFiniteSet(1 .. k)
    BY FS_Interval
  <2> QED
    BY <2>1, FS_Subset DEF Hits
<1>2. Cardinality(Hits(list, query, k)) \in Nat
  BY <1>1, FS_CardinalityType
<1>3. Hits(list, query, 0) = {}
  BY DEF Hits
<1> QED
  BY <1>1, <1>2, <1>3, FS_EmptySet

\* ... one more with an entry that matches, ...
LEMMA HitsHit ==
  ASSUME NEW list, NEW query, NEW k \in Nat, Matches(list[k + 1], query)
  PROVE  /\ Hits(list, query, k + 1) = Hits(list, query, k) \cup {k + 1}
         /\ Cardinality(Hits(list, query, k + 1)) = Cardinality(Hits(list, query, k)) + 1
<1>1. Hits(list, query, k + 1) = Hits(list, query, k) \cup {k + 1}
  BY DEF Hits
<1>2. k + 1 \notin Hits(list, query, k)
  BY DEF Hits
<1> QED
  BY <1>1, <1>2, HitsCount, FS_AddElement

\* ... and the same with one that does not.
LEMMA HitsMiss ==
  ASSUME NEW list, NEW query, NEW k \in Nat, ~Matches(list[k + 1], query)
  PROVE  Hits(list, query, k + 1) = Hits(list, query, k)
BY DEF Hits

\* The places of the entries that the listing must show: those with fewer than
\* `limit' matching entries in front of them.
Shown(list, query, k) ==
  {i \in Hits(list, query, k) : Cardinality(Hits(list, query, i - 1)) < query.limit}

\* Numbers fall along the list.
Falling(list) == \A i, j \in 1 .. Len(list) : i < j => list[i].id > list[j].id

\* What the loop holds after k entries.
Collected(list, query, k, found) ==
  /\ found \in Seq(Entry)
  /\ Len(found) = IF Cardinality(Hits(list, query, k)) < query.limit
                  THEN Cardinality(Hits(list, query, k)) ELSE query.limit
  /\ \A e : (\E j \in 1 .. Len(found) : found[j] = e)
              <=> (\E i \in Shown(list, query, k) : list[i] = e)
  /\ \A i, j \in 1 .. Len(found) : i < j => found[i].id > found[j].id

\* One turn of the loop.
LEMMA CollectedStep ==
  ASSUME NEW list \in Seq(Entry), Falling(list), NEW query \in Query,
         NEW k \in 0 .. Len(list) - 1, NEW before, Collected(list, query, k, before)
  PROVE  Collected(list, query, k + 1,
           IF Len(before) < query.limit /\ Matches(list[k + 1], query)
           THEN Append(before, list[k + 1]) ELSE before)
<1> DEFINE n == Cardinality(Hits(list, query, k))
           m == Cardinality(Hits(list, query, k + 1))
<1>a. k \in Nat /\ k + 1 \in 1 .. Len(list) /\ list[k + 1] \in Entry /\ query.limit \in Nat \ {0}
  BY DEF Query
<1>b. n \in Nat
  BY <1>a, HitsCount
<1>c. /\ before \in Seq(Entry) /\ Len(before) \in Nat
      /\ Len(before) = IF n < query.limit THEN n ELSE query.limit
  BY DEF Collected
<1>d. k + 1 - 1 = k
  BY <1>a
<1>1. CASE Len(before) < query.limit /\ Matches(list[k + 1], query)
  <2> DEFINE after == Append(before, list[k + 1])
  <2>0. /\ Hits(list, query, k + 1) = Hits(list, query, k) \cup {k + 1}
        /\ m = n + 1
    BY <1>1, <1>a, HitsHit
  <2>1. n < query.limit /\ Len(before) = n
    BY <1>1, <1>a, <1>b, <1>c
  <2>2. /\ after \in Seq(Entry) /\ Len(after) = Len(before) + 1
        /\ \A i \in 1 .. Len(before) : after[i] = before[i]
        /\ after[Len(before) + 1] = list[k + 1]
    BY <1>a, <1>c
  <2>3. Shown(list, query, k + 1) = Shown(list, query, k) \cup {k + 1}
    BY <2>0, <1>d, <2>1 DEF Shown
  <2>4. Len(after) = IF m < query.limit THEN m ELSE query.limit
    BY <2>0, <2>1, <2>2, <1>a, <1>b
  <2>5. ASSUME NEW e
        PROVE  (\E j \in 1 .. Len(after) : after[j] = e)
                 <=> (\E i \in Shown(list, query, k + 1) : list[i] = e)
    <3>1. (\E j \in 1 .. Len(after) : after[j] = e)
            <=> (\E j \in 1 .. Len(before) : before[j] = e) \/ list[k + 1] = e
      <4> HIDE DEF after
      <4>1. \A j : j \in 1 .. Len(after) <=> j \in 1 .. Len(before) \/ j = Len(before) + 1
        BY <2>2, <1>c
      <4> QED
        BY <4>1, <2>2
    <3>2. (\E i \in Shown(list, query, k + 1) : list[i] = e)
            <=> (\E i \in Shown(list, query, k) : list[i] = e) \/ list[k + 1] = e
      BY <2>3
    <3> QED
      BY <3>1, <3>2 DEF Collected
  <2>6. ASSUME NEW i \in 1 .. Len(after), NEW j \in 1 .. Len(after), i < j
        PROVE  after[i].id > after[j].id
    <3>1. i \in 1 .. Len(before) /\ after[i] = before[i]
      BY <2>2, <2>6, <1>c
    <3>2. CASE j \in 1 .. Len(before)
      BY <3>1, <3>2, <2>2, <2>6 DEF Collected
    <3>3. CASE j = Len(before) + 1
      <4>1. PICK h \in Shown(list, query, k) : list[h] = before[i]
        BY <3>1 DEF Collected
      <4>2. h \in 1 .. k
        BY DEF Shown, Hits
      <4>3. list[h].id > list[k + 1].id
        BY <4>2, <1>a DEF Falling
      <4> QED
        BY <4>1, <4>3, <3>1, <3>3, <2>2
    <3> QED
      BY <3>2, <3>3, <2>2, <1>c
  <2> QED
    BY <1>1, <2>2, <2>4, <2>5, <2>6 DEF Collected
<1>2. CASE ~(Len(before) < query.limit /\ Matches(list[k + 1], query))
  <2>1. CASE ~Matches(list[k + 1], query)
    <3>1. Hits(list, query, k + 1) = Hits(list, query, k)
      BY <2>1, <1>a, HitsMiss
    <3> QED
      BY <3>1, <1>2 DEF Collected, Shown
  <2>2. CASE ~(Len(before) < query.limit)
    <3>1. ~(n < query.limit)
      BY <2>2, <1>a, <1>b, <1>c
    <3>0. \/ Hits(list, query, k + 1) = Hits(list, query, k)
          \/ Hits(list, query, k + 1) = Hits(list, query, k) \cup {k + 1} /\ m = n + 1
      BY <1>a, HitsHit, HitsMiss
    <3>3. ~(m < query.limit)
      BY <3>1, <3>0, <1>a, <1>b
    <3>2. Shown(list, query, k + 1) = Shown(list, query, k)
      BY <3>1, <3>0, <1>d DEF Shown
    <3> QED
      BY <3>1, <3>3, <3>2, <1>2 DEF Collected
  <2> QED
    BY <1>2, <2>1, <2>2
<1> QED
  BY <1>1, <1>2

\* For any list and query the loop finds what the listing must show.
LEMMA CollectValue ==
  ASSUME NEW list \in Seq(Entry), Falling(list), NEW query \in Query
  PROVE  Collected(list, query, Len(list), Collect(list, query))
<1>1. Len(list) \in Nat
  OBVIOUS
<1>2. PICK f : /\ Collect(list, query) = f[Len(list)]
               /\ f[0] = <<>>
               /\ \A k \in 1 .. Len(list) :
                    f[k] = IF Len(f[k - 1]) < query.limit /\ Matches(list[k], query)
                           THEN Append(f[k - 1], list[k]) ELSE f[k - 1]
  BY <1>1, CollectFunction
<1> DEFINE Good == {k \in Nat : k <= Len(list) => Collected(list, query, k, f[k])}
<1>3. 0 \in Good
  <2>1. Hits(list, query, 0) = {} /\ Cardinality(Hits(list, query, 0)) = 0
    BY HitsCount
  <2>2. Shown(list, query, 0) = {}
    BY <2>1 DEF Shown
  <2>3. query.limit \in Nat \ {0}
    BY DEF Query
  <2>4. Collected(list, query, 0, <<>>)
    <3>1. <<>> \in Seq(Entry) /\ Len(<<>>) = 0 /\ 1 .. 0 = {}
      OBVIOUS
    <3>2. \A e : (\E j \in 1 .. Len(<<>>) : <<>>[j] = e) <=> (\E i \in {} : list[i] = e)
      BY <3>1
    <3>3. Cardinality(Hits(list, query, 0)) < query.limit
      BY <2>1, <2>3
    <3> QED
      BY <2>1, <2>2, <3>1, <3>2, <3>3 DEF Collected
  <2> QED
    BY <2>4, <1>2
<1>4. ASSUME NEW k \in Nat, k \in Good PROVE k + 1 \in Good
  <2> SUFFICES ASSUME k + 1 <= Len(list) PROVE Collected(list, query, k + 1, f[k + 1])
    OBVIOUS
  <2>1. k \in 0 .. Len(list) - 1 /\ k + 1 \in 1 .. Len(list) /\ k + 1 - 1 = k
    BY <1>1
  <2>2. Collected(list, query, k, f[k])
    BY <1>4, <2>1
  <2>3. f[k + 1] = IF Len(f[k]) < query.limit /\ Matches(list[k + 1], query)
                   THEN Append(f[k], list[k + 1]) ELSE f[k]
    BY <1>2, <2>1
  <2> QED
    BY <2>1, <2>2, <2>3, CollectedStep
<1>5. Nat \subseteq Good
  <2> HIDE DEF Good
  <2> QED
    BY <1>3, <1>4, SetInduction
<1> QED
  BY <1>1, <1>2, <1>5

-------------------------------------------------------------------------------
(* The listing shows what it must. *)

\* An occupied slot is one of the last `size' ones behind the index.
Filled ==
  \A i \in 0 .. Capacity - 1 :
    entries[i] # None => \E k \in 1 .. size : i = Behind(nextIndex, k)

\* The answer is what the loop makes of the entries now in the array.
Answered == asked # None => asked \in Queries /\ answer = Collect(ListRecent, asked)

ListingInv == StoreInv /\ Filled /\ Answered

\* Initially there is no entry and no answer.
LEMMA ListingInit == Init => ListingInv
BY StoreInit, RecentLogsAssumptions DEF Init, ListingInv, Filled, Answered

\* A write fills the slot that comes to stand right behind the index.
LEMMA FilledByWrite ==
  ASSUME StoreInv, Filled, NEW line \in Lines, Write(line)
  PROVE  Filled'
<1> USE RecentLogsAssumptions
<1>a. /\ nextIndex \in 0 .. Capacity - 1 /\ size \in 0 .. Capacity
      /\ nextIndex' = Following(nextIndex)
      /\ size' = IF size < Capacity THEN size + 1 ELSE Capacity
      /\ \A i \in 0 .. Capacity - 1 : i # nextIndex => entries'[i] = entries[i]
  BY DEF StoreInv, StoreTypeOK, Write, Grown
<1> SUFFICES ASSUME NEW i \in 0 .. Capacity - 1, entries'[i] # None
             PROVE  \E k \in 1 .. size' : i = Behind(nextIndex', k)
  BY DEF Filled, Behind
<1>1. CASE i = nextIndex
  <2>1. 1 \in 1 .. size' /\ i = Behind(nextIndex', 1)
    BY <1>1, <1>a, BehindFollowing
  <2> QED
    BY <2>1
<1>2. CASE i # nextIndex
  <2>1. PICK k \in 1 .. size : i = Behind(nextIndex, k)
    BY <1>2, <1>a DEF Filled
  <2>2. k # Capacity
    BY <1>2, <1>a, <2>1 DEF Behind
  <2>3. k + 1 \in 1 .. size' /\ k + 1 \in 2 .. Capacity
    BY <1>a, <2>2
  <2>4. i = Behind(nextIndex', k + 1)
    BY <1>a, <2>1, <2>3, BehindFollowing
  <2> QED
    BY <2>3, <2>4
<1> QED
  BY <1>1, <1>2

\* An answer is forgotten with the next line, and so is true while it stands.
LEMMA ListingStep == ListingInv /\ [Next]_vars => ListingInv'
<1> SUFFICES ASSUME ListingInv, [Next]_vars PROVE ListingInv'
  OBVIOUS
<1>a. StoreInv /\ StoreInv' /\ Filled /\ Answered
  BY StoreStep DEF ListingInv
<1>1. ASSUME NEW line \in Lines, Write(line) PROVE Filled' /\ Answered'
  BY <1>1, <1>a, FilledByWrite DEF Write, Answered
<1>b. ASSUME UNCHANGED store PROVE Filled' /\ ListRecent' = ListRecent
  BY <1>a, <1>b DEF store, Filled, Behind, ListRecent, IndexBack
<1>2. ASSUME NEW line \in Lines, Drop(line) PROVE Filled' /\ Answered'
  BY <1>2, <1>b DEF Drop, Answered
<1>3. ASSUME NEW query \in Queries, List(query) PROVE Filled' /\ Answered'
  BY <1>3, <1>b DEF List, Answered
<1>4. ASSUME UNCHANGED vars PROVE Filled' /\ Answered'
  <2>1. UNCHANGED store /\ asked' = asked /\ answer' = answer
    BY <1>4 DEF vars, store
  <2> QED
    BY <2>1, <1>a, <1>b DEF Answered
<1>5. Filled' /\ Answered'
  BY <1>1, <1>2, <1>3, <1>4 DEF Next
<1> QED
  BY <1>5, <1>a DEF ListingInv

\* What is stored is what ListRecent lists, once each.
LEMMA StoredIsListed ==
  ASSUME StoreInv, Filled
  PROVE  /\ ListRecent \in Seq(Entry) /\ Len(ListRecent) = size /\ size \in Nat
         /\ Falling(ListRecent)
         /\ Stored = {ListRecent[i] : i \in 1 .. size}
<1> USE RecentLogsAssumptions
<1>1. ListRecent \in Seq(Entry) /\ Len(ListRecent) = size /\ size \in Nat
  BY DEF StoreInv, Consecutive, ListRecent, StoreTypeOK
<1>2. Falling(ListRecent)
  <2> SUFFICES ASSUME NEW i \in 1 .. size, NEW j \in 1 .. size, i < j
               PROVE  ListRecent[i].id > ListRecent[j].id
    BY <1>1 DEF Falling
  <2>1. ListRecent[i].id = nextId - i /\ ListRecent[j].id = nextId - j /\ nextId \in Nat
    BY DEF StoreInv, Consecutive, StoreTypeOK
  <2> QED
    BY <2>1
<1>3. \A k \in 1 .. size : /\ ListRecent[k] = entries[Behind(nextIndex, k)]
                           /\ Behind(nextIndex, k) \in 0 .. Capacity - 1
  BY ListRecentValue, BehindElsewhere DEF StoreInv, StoreTypeOK
<1>4. \A k \in 1 .. size : ListRecent[k] # None
  BY DEF StoreInv, Consecutive
<1>5. Stored = {ListRecent[i] : i \in 1 .. size}
  <2>1. ASSUME NEW e \in Stored PROVE e \in {ListRecent[i] : i \in 1 .. size}
    <3>1. PICK i \in 0 .. Capacity - 1 : e = entries[i] /\ entries[i] # None
      BY DEF Stored
    <3>2. PICK k \in 1 .. size : i = Behind(nextIndex, k)
      BY <3>1 DEF Filled
    <3> QED
      BY <3>1, <3>2, <1>3
  <2>2. ASSUME NEW k \in 1 .. size PROVE ListRecent[k] \in Stored
    BY <1>3, <1>4 DEF Stored
  <2> QED
    BY <2>1, <2>2
<1> QED
  BY <1>1, <1>2, <1>5

\* As many entries are newer than the one at place i and match as places in
\* front of it.
LEMMA NewerCount ==
  ASSUME StoreInv, Filled, NEW query, NEW i \in 1 .. size
  PROVE  Cardinality(Newer(ListRecent[i], query)) = Cardinality(Hits(ListRecent, query, i - 1))
<1> DEFINE S == Hits(ListRecent, query, i - 1)
           T == Newer(ListRecent[i], query)
           f == [j \in S |-> ListRecent[j]]
<1>1. /\ Len(ListRecent) = size /\ size \in Nat /\ Falling(ListRecent)
      /\ Stored = {ListRecent[j] : j \in 1 .. size}
  BY StoredIsListed
<1>0. \A j \in 1 .. size : ListRecent[j].id \in Int
  <2>1. \A j \in 1 .. size : ListRecent[j] \in Entry
    BY StoredIsListed
  <2> QED
    BY <2>1 DEF Entry
<1>2. \A j \in S : j \in 1 .. size /\ j < i /\ Matches(ListRecent[j], query)
  BY <1>1 DEF Hits
<1>3. \A j \in 1 .. size : ListRecent[j].id > ListRecent[i].id => j < i
  BY <1>0, <1>1 DEF Falling
<1>4. f \in [S -> T]
  BY <1>1, <1>2 DEF Newer, Falling
<1>5. \A j, k \in S : f[j] = f[k] => j = k
  <2> SUFFICES ASSUME NEW j \in S, NEW k \in S, ListRecent[j] = ListRecent[k], j # k PROVE FALSE
    OBVIOUS
  <2>1. j < k \/ k < j
    BY <1>1, <1>2
  <2> QED
    BY <2>1, <1>0, <1>1, <1>2 DEF Falling
<1>6. \A e \in T : \E j \in S : f[j] = e
  BY <1>1, <1>3 DEF Newer, Hits
<1>7. f \in Bijection(S, T)
  BY <1>4, <1>5, <1>6 DEF Bijection, Injection, Surjection, IsInjective
<1>8. IsFiniteSet(S)
  BY <1>1, HitsCount
<1>9. Cardinality(T) = Cardinality(S)
  <2> HIDE DEF S, T, f
  <2> QED
    BY <1>7, <1>8, FS_Bijection DEF ExistsBijection
<1> QED
  BY <1>9

\* A listing shows, newest first, exactly the entries that match and have fewer
\* than `limit' newer ones that match, whatever the capacity, the filters and
\* the lines written before: the loop of ListAdminLogsUseCase over the array.
THEOREM ListingsAreNewest == Spec => []NewestMatching
<1>1. ListingInv => NewestMatching
  <2> SUFFICES ASSUME ListingInv, asked # None
               PROVE  /\ \A j, k \in 1 .. Len(answer) : j < k => answer[j].id > answer[k].id
                      /\ {answer[k] : k \in 1 .. Len(answer)} =
                           {e \in Stored : Matches(e, asked)
                                             /\ Cardinality(Newer(e, asked)) < asked.limit}
    BY DEF NewestMatching
  <2>1. StoreInv /\ Filled /\ asked \in Query /\ answer = Collect(ListRecent, asked)
    BY RecentLogsAssumptions DEF ListingInv, Answered
  <2>2. /\ ListRecent \in Seq(Entry) /\ Len(ListRecent) = size /\ size \in Nat
        /\ Falling(ListRecent) /\ Stored = {ListRecent[i] : i \in 1 .. size}
    BY <2>1, StoredIsListed
  <2>3. Collected(ListRecent, asked, size, answer)
    BY <2>1, <2>2, CollectValue
  <2>4. \A i : i \in Shown(ListRecent, asked, size) <=>
                 /\ i \in 1 .. size /\ Matches(ListRecent[i], asked)
                 /\ Cardinality(Newer(ListRecent[i], asked)) < asked.limit
    BY <2>1, NewerCount DEF Shown, Hits
  <2>5. ASSUME NEW e
        PROVE  e \in {answer[k] : k \in 1 .. Len(answer)} <=>
                 e \in {x \in Stored : Matches(x, asked)
                                         /\ Cardinality(Newer(x, asked)) < asked.limit}
    <3>1. e \in {answer[k] : k \in 1 .. Len(answer)}
            <=> \E i \in Shown(ListRecent, asked, size) : ListRecent[i] = e
      BY <2>3 DEF Collected
    <3> QED
      BY <3>1, <2>2, <2>4
  <2> QED
    BY <2>3, <2>5 DEF Collected
<1> QED
  BY <1>1, ListingInit, ListingStep, PTL DEF Spec
===============================================================================
