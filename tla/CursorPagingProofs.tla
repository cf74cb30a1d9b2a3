-------------------------- MODULE CursorPagingProofs --------------------------
(***************************************************************************)
(* Theorems about CursorPaging, for any rows, page sizes and clock.        *)
(*                                                                         *)
(* While the client scrolls, every row that stayed in place is either      *)
(* shown or behind the cursor, and no row that was shown is behind it      *)
(* unless it moved there: the two halves of the invariant.  Both need that *)
(* the cursor is exactly the position of the last row, hence that times    *)
(* are whole milliseconds.                                                 *)
(***************************************************************************)
EXTENDS CursorPaging, FiniteSetTheorems, TLAPS

\* All times are whole milliseconds, so that encoding a cursor loses nothing.
Exact ==
  /\ \A r \in Listed : at[r] % PerMs = 0
  /\ \A w \in writes : w[3] % PerMs = 0

\* Before the first page nothing was shown; a cursor comes with a page.
Shown ==
  /\ reader = "start" => shown = {} /\ repeated = {} /\ page = {}
  /\ reader = "more" => shown # {}
  /\ \A r \in shown : at[r] # Absent

\* Rows that stayed are shown or still to come.
StillToCome ==
  reader = "more" =>
    \A r \in initial \ disturbed :
      r \in Listed /\ (r \in shown \/ Before(PositionOf(r), cursor))

\* Rows that were shown do not come again.
NotAgain ==
  reader = "more" =>
    \A r \in shown \ backward : r \in Listed => ~Before(PositionOf(r), cursor)

\* The row that announced the next page is there, or is disturbed.
Announced ==
  reader = "more" =>
    extra \in disturbed \/ (extra \in Listed /\ Before(PositionOf(extra), cursor))

PagingInv ==
  /\ TypeOK /\ Exact /\ Shown /\ StillToCome /\ NotAgain /\ Announced
  /\ NothingSkipped /\ NothingRepeated /\ NoEmptyPage

-------------------------------------------------------------------------------

\* Rounding down to a multiple of m.
LEMMA Rounding ==
  ASSUME NEW m \in Nat \ {0}, NEW t \in Nat
  PROVE  t - (t % m) \in Nat /\ (t - (t % m)) % m = 0
<1>1. t - (t % m) = m * (t \div m) /\ t \div m \in Nat
  BY SMT
<1>2. (m * (t \div m)) % m = 0
  BY <1>1, SMT
<1>3. t - (t % m) \in Nat
  BY SMT
<1> QED
  BY <1>1, <1>2, <1>3

\* The order of positions is irreflexive and transitive, and its complement too.
LEMMA BeforeOrder ==
  ASSUME NEW p \in Position, NEW q \in Position, NEW s \in Position
  PROVE  /\ ~Before(p, p)
         /\ Before(p, q) /\ Before(q, s) => Before(p, s)
         /\ ~Before(p, q) /\ Before(s, q) => ~Before(p, s)
         /\ Before(p, q) => ~Before(q, p)
BY DEF Before, Position, Time

\* Rows have positions.
LEMMA PositionType ==
  ASSUME TypeOK, NEW r \in Listed
  PROVE  PositionOf(r) \in Position
BY PagingAssumptions DEF TypeOK, PositionOf, Position, Time, Listed

\* A cursor is exactly the position it was made from.
LEMMA EncodedExactly ==
  ASSUME TypeOK, Exact, NEW r \in Listed
  PROVE  Encoded(PositionOf(r)) = PositionOf(r)
<1>1. at[r] \in Nat /\ at[r] % PerMs = 0
  BY DEF Exact, Listed
<1> QED
  BY <1>1 DEF Encoded, PositionOf

-------------------------------------------------------------------------------

\* Initially there is nothing.
LEMMA PagingInit == Init => PagingInv
BY PagingAssumptions
   DEF Init, PagingInv, TypeOK, Exact, Shown, StillToCome, NotAgain, Announced,
       NothingSkipped, NothingRepeated, NoEmptyPage, Listed, Absent, NoRow,
       Position, Time

\* A write that begins has an exact time and changes nothing else.
LEMMA BeginStep ==
  ASSUME PagingInv, NEW r \in Row, NEW statement \in Statement, Begin(r, statement)
  PROVE  PagingInv'
<1>1. Stored(now) \in Nat /\ Stored(now) % PerMs = 0
  BY Rounding, PagingAssumptions DEF Stored, PagingInv, TypeOK
<1>2. TypeOK'
  BY <1>1 DEF Begin, PagingInv, TypeOK, client, history
<1>3. Exact'
  BY <1>1 DEF Begin, PagingInv, Exact, Listed
<1> QED
  BY <1>2, <1>3
     DEF Begin, PagingInv, Shown, StillToCome, NotAgain, Announced, NothingSkipped,
         NothingRepeated, NoEmptyPage, Listed, PositionOf, client, history

\* Neither the clock nor an abandoned write touches the list or the client.
LEMMA QuietStep ==
  ASSUME PagingInv, Tick \/ (\E w \in writes : Abandon(w)) \/ UNCHANGED vars
  PROVE  PagingInv'
<1>1. UNCHANGED <<kind, at, client, history>> /\ writes' \subseteq writes
  BY DEF Tick, Abandon, vars, client, history, list
<1>2. begun' \in Nat /\ now' \in Nat
  BY DEF Tick, Abandon, vars, PagingInv, TypeOK
<1>3. TypeOK'
  BY <1>1, <1>2 DEF PagingInv, TypeOK, client, history
<1>4. Exact'
  BY <1>1 DEF PagingInv, Exact, Listed
<1> QED
  BY <1>1, <1>3, <1>4
     DEF PagingInv, Shown, StillToCome, NotAgain, Announced, NothingSkipped,
         NothingRepeated, NoEmptyPage, Listed, PositionOf, client, history

\* A write that becomes visible disturbs its row if it moves it, and a row that
\* did not move backward is not behind a position it was not behind before.
LEMMA CommitStep ==
  ASSUME PagingInv, NEW w \in writes, Commit(w)
  PROVE  PagingInv'
<1> DEFINE r == w[1]
           position == Moved(w[2], at[r], w[3])
<1>1. /\ r \in Row /\ w[2] \in Statement /\ w[3] \in Nat /\ w[3] % PerMs = 0
      /\ at[r] \in Nat \cup {Absent}
  BY DEF PagingInv, TypeOK, Exact, Commit
<1>2. /\ position \in Nat \cup {Gone}
      /\ position \in Nat => position = w[3] \/ (position = at[r] /\ at[r] \in Nat)
      /\ position \in Nat /\ position < at[r] => kind = "projects"
  BY <1>1 DEF Moved, Statement, Commit, Absent, Gone
<1>3. /\ at' = [at EXCEPT ![r] = position]
      /\ writes' \subseteq writes
      /\ disturbed' = IF at[r] # position THEN disturbed \cup {r} ELSE disturbed
      /\ backward' = IF position \in Nat /\ position < at[r]
                     THEN backward \cup {r} ELSE backward
      /\ UNCHANGED <<kind, now, begun, client>>
  BY DEF Commit
<1> HIDE DEF r, position
<1>4. TypeOK'
  BY <1>1, <1>2, <1>3 DEF PagingInv, TypeOK, client
<1>5. Exact'
  BY <1>1, <1>2, <1>3 DEF PagingInv, Exact, Listed, TypeOK
<1>6. Shown'
  BY <1>1, <1>2, <1>3 DEF PagingInv, Shown, TypeOK, client, Absent, Gone
<1>7. \A s \in Row \ disturbed' : at'[s] = at[s] /\ s \notin disturbed
  BY <1>1, <1>3 DEF PagingInv, TypeOK
<1>8. StillToCome'
  BY <1>3, <1>7 DEF PagingInv, StillToCome, TypeOK, Listed, PositionOf, client
<1>9. NotAgain'
  <2> SUFFICES ASSUME reader = "more", NEW s \in shown \ backward', s \in Listed'
               PROVE  ~Before(PositionOf(s)', cursor)
    BY <1>3 DEF NotAgain, client
  <2>1. s \notin backward /\ s \in Row
    BY <1>3 DEF PagingInv, TypeOK
  <2>2. CASE s # r
    BY <2>1, <2>2, <1>3 DEF PagingInv, TypeOK, NotAgain, Listed, PositionOf
  <2>3. CASE s = r
    <3>1. at[s] \in Nat
      BY <1>1, <2>3 DEF PagingInv, Shown
    <3>2. ~Before(PositionOf(s), cursor)
      BY <3>1, <2>1 DEF PagingInv, NotAgain, Listed
    <3>3. at'[s] = position /\ position \in Nat
      BY <1>1, <1>3, <2>3 DEF PagingInv, TypeOK, Listed
    <3>4. ~(position < at[s])
      BY <1>3, <2>3, <3>3
    <3>5. cursor \in Position /\ s \in Int
      BY <2>1, PagingAssumptions DEF PagingInv, TypeOK
    <3> QED
      BY <3>1, <3>2, <3>3, <3>4, <3>5 DEF Before, PositionOf, Position, Time
  <2> QED
    BY <2>2, <2>3
<1>10. Announced'
  BY <1>3, <1>7 DEF PagingInv, Announced, TypeOK, Listed, PositionOf, client
<1>11. NothingSkipped' /\ NoEmptyPage'
  BY <1>3 DEF PagingInv, NothingSkipped, NoEmptyPage, client
<1>12. NothingRepeated'
  BY <1>2, <1>3 DEF PagingInv, NothingRepeated, client
<1> QED
  BY <1>4, <1>5, <1>6, <1>8, <1>9, <1>10, <1>11, <1>12 DEF PagingInv

-------------------------------------------------------------------------------

\* What a page consists of, whatever the query returned.
LEMMA PageShape ==
  ASSUME PagingInv, NEW limit \in Limit, NEW fetched, NEW items,
         fetched \subseteq Matching,
         IsTop(fetched, Matching, FetchSize(limit)),
         items \subseteq fetched,
         IsPage(items, fetched, limit)
  PROVE  /\ ~(Cardinality(items) > limit)
         /\ HasMore(fetched, limit) => items # {} /\ items # fetched
         /\ ~HasMore(fetched, limit) => items = Matching
<1>1. limit \in Nat /\ limit >= 1
  BY PagingAssumptions
<1>2. Cardinality({}) = 0
  BY FS_EmptySet
<1>3. CASE HasMore(fetched, limit)
  <2>1. Cardinality(fetched) > limit /\ Cardinality(items) = limit
    BY <1>3 DEF HasMore, IsPage, IsTop
  <2>2. ~(limit > limit) /\ limit # 0
    BY <1>1
  <2> QED
    BY <1>2, <1>3, <2>1, <2>2
<1>4. CASE ~HasMore(fetched, limit)
  <2>1. ~(Cardinality(fetched) > limit) /\ items = fetched
    BY <1>4 DEF HasMore, IsPage, IsTop
  <2>2. limit + 1 > limit
    BY <1>1
  <2>3. fetched = Matching
    BY <2>1, <2>2 DEF IsTop, FetchSize
  <2> QED
    BY <1>4, <2>1, <2>3
<1> QED
  BY <1>3, <1>4

\* A page with a successor: its last row, whose position the cursor is, is
\* before everything that is not shown, and after everything that is.
LEMMA PageStep ==
  ASSUME PagingInv, NEW limit \in Limit, NextPage(limit), reader' = "more"
  PROVE  \E last \in page' :
           /\ page' \subseteq Matching /\ page' # {}
           /\ cursor' = PositionOf(last)
           /\ \A r \in Matching \ page' : Before(PositionOf(r), PositionOf(last))
           /\ \A r \in page' : ~Before(PositionOf(r), PositionOf(last))
           /\ extra' \in Matching \ page'
<1>0. PICK fetched \in SUBSET Matching :
        /\ IsTop(fetched, Matching, FetchSize(limit))
        /\ \E items \in SUBSET fetched :
             /\ IsPage(items, fetched, limit)
             /\ page' = items
             /\ IF HasMore(fetched, limit) /\ items # {}
                THEN \E last \in items :
                       /\ IsLast(last, items)
                       /\ reader' = "more"
                       /\ cursor' = Encoded(PositionOf(last))
                       /\ extra' \in IF fetched = items THEN {NoRow} ELSE fetched \ items
                ELSE reader' = "done"
  BY DEF NextPage
<1>1. PICK items \in SUBSET fetched :
        /\ IsPage(items, fetched, limit)
        /\ page' = items
        /\ IF HasMore(fetched, limit) /\ items # {}
           THEN \E last \in items :
                  /\ IsLast(last, items)
                  /\ reader' = "more"
                  /\ cursor' = Encoded(PositionOf(last))
                  /\ extra' \in IF fetched = items THEN {NoRow} ELSE fetched \ items
           ELSE reader' = "done"
  BY <1>0
<1>2. HasMore(fetched, limit) /\ items # {} /\ items # fetched
  BY <1>0, <1>1, PageShape
<1>3. PICK last \in items :
        /\ IsLast(last, items)
        /\ cursor' = Encoded(PositionOf(last))
        /\ extra' \in fetched \ items
  BY <1>1, <1>2
<1>4. items \subseteq Listed /\ Matching \subseteq Listed
  BY DEF Matching
<1>5. cursor' = PositionOf(last)
  BY <1>3, <1>4, EncodedExactly DEF PagingInv
<1>6. ASSUME NEW r \in Matching \ items
      PROVE  Before(PositionOf(r), PositionOf(last))
  <2>1. CASE r \in fetched
    BY <1>1, <1>6, <2>1 DEF IsPage, IsTop
  <2>2. CASE r \notin fetched
    BY <1>0, <1>6, <2>2 DEF IsTop
  <2> QED
    BY <2>1, <2>2
<1>7. ASSUME NEW r \in items
      PROVE  ~Before(PositionOf(r), PositionOf(last))
  <2>1. PositionOf(r) \in Position /\ PositionOf(last) \in Position
    BY <1>4, PositionType DEF PagingInv
  <2>2. r # last => Before(PositionOf(last), PositionOf(r))
    BY <1>3 DEF IsLast
  <2> QED
    BY <2>1, <2>2, BeforeOrder
<1> QED
  BY <1>1, <1>2, <1>3, <1>5, <1>6, <1>7

\* The rest of what asking for a page does.
LEMMA PageFrame ==
  ASSUME PagingInv, NEW limit \in Limit, NextPage(limit)
  PROVE  /\ page' \subseteq Matching /\ Matching \subseteq Listed /\ Listed \subseteq Row
         /\ ~(Cardinality(page') > limit)
         /\ shown' = shown \cup page'
         /\ repeated' = repeated \cup (shown \cap page')
         /\ reader \in {"start", "more"} /\ reader' \in {"more", "done"}
         /\ reader' = "done" => page' = Matching /\ extra' = extra
         /\ reader' = "done" => cursor' = cursor
<1>0. PICK fetched \in SUBSET Matching :
        /\ IsTop(fetched, Matching, FetchSize(limit))
        /\ \E items \in SUBSET fetched :
             /\ IsPage(items, fetched, limit)
             /\ page' = items
             /\ repeated' = repeated \cup (shown \cap items)
             /\ shown' = shown \cup items
             /\ IF HasMore(fetched, limit) /\ items # {}
                THEN reader' = "more"
                ELSE reader' = "done" /\ UNCHANGED <<cursor, extra>>
  BY DEF NextPage
<1>1. PICK items \in SUBSET fetched :
        /\ IsPage(items, fetched, limit)
        /\ page' = items
        /\ repeated' = repeated \cup (shown \cap items)
        /\ shown' = shown \cup items
        /\ IF HasMore(fetched, limit) /\ items # {}
           THEN reader' = "more"
           ELSE reader' = "done" /\ UNCHANGED <<cursor, extra>>
  BY <1>0
<1>2. /\ ~(Cardinality(items) > limit)
      /\ HasMore(fetched, limit) => items # {} /\ items # fetched
      /\ ~HasMore(fetched, limit) => items = Matching
  BY <1>0, <1>1, PageShape
<1>3. Matching \subseteq Listed /\ Listed \subseteq Row
  BY DEF Matching, Listed
<1>4. reader \in {"start", "more"}
  BY DEF NextPage, PagingInv, TypeOK
<1> QED
  BY <1>1, <1>2, <1>3, <1>4

\* A page shows what stayed in place, or leaves it behind the new cursor.
LEMMA NextPageStep ==
  ASSUME PagingInv, NEW limit \in Limit, NextPage(limit)
  PROVE  PagingInv'
<1>1. /\ UNCHANGED <<kind, now, at, writes, begun>>
      /\ initial' = IF reader = "start" THEN Listed ELSE initial
      /\ disturbed' = IF reader = "start" THEN {} ELSE disturbed
      /\ backward' = IF reader = "start" THEN {} ELSE backward
  BY DEF NextPage
<1>2. /\ page' \subseteq Matching /\ Matching \subseteq Listed /\ Listed \subseteq Row
      /\ ~(Cardinality(page') > limit)
      /\ shown' = shown \cup page'
      /\ repeated' = repeated \cup (shown \cap page')
      /\ reader \in {"start", "more"} /\ reader' \in {"more", "done"}
      /\ reader' = "done" => page' = Matching /\ extra' = extra /\ cursor' = cursor
  BY PageFrame
<1>3. \A r \in Listed : PositionOf(r) \in Position /\ at[r] # Absent
  BY PositionType DEF PagingInv, Listed, Absent
<1>4. TypeOK'
  <2>1. reader' = "more" => cursor' \in Position /\ extra' \in Row
    BY <1>2, <1>3, PageStep
  <2> QED
    BY <1>1, <1>2, <2>1 DEF PagingInv, TypeOK
<1>5. Exact' /\ (\A r \in Listed : PositionOf(r)' = PositionOf(r)) /\ Listed' = Listed
  BY <1>1 DEF PagingInv, Exact, Listed, PositionOf
<1>6. Shown'
  BY <1>1, <1>2, <1>3, PageStep DEF PagingInv, Shown
\* Before the page, what stayed is shown or matches the query.
<1>7. \A r \in initial' \ disturbed' : r \in Listed /\ (r \in shown \/ r \in Matching)
  BY <1>1, <1>2 DEF PagingInv, StillToCome, Matching
<1>8. StillToCome'
  BY <1>2, <1>5, <1>7, PageStep DEF StillToCome
\* Before the page, what was shown and comes again moved backward.
<1>9. \A r \in shown \cap Matching : r \in backward'
  BY <1>1, <1>2 DEF PagingInv, Shown, NotAgain, Matching
<1>10. NotAgain'
  <2> SUFFICES ASSUME reader' = "more", NEW r \in shown' \ backward', r \in Listed
               PROVE  ~Before(PositionOf(r), cursor')
    BY <1>5 DEF NotAgain
  <2>1. PICK last \in page' :
          /\ cursor' = PositionOf(last)
          /\ \A s \in page' : ~Before(PositionOf(s), PositionOf(last))
    BY PageStep
  <2>2. CASE r \in page'
    BY <2>1, <2>2
  <2>3. CASE r \notin page'
    <3>1. r \in shown /\ r \notin backward /\ reader = "more"
      BY <1>1, <1>2, <2>3 DEF PagingInv, Shown
    <3>2. ~Before(PositionOf(r), cursor)
      BY <3>1 DEF PagingInv, NotAgain
    <3>3. Before(PositionOf(last), cursor) /\ last \in Listed
      BY <1>2, <3>1 DEF Matching
    <3>4. cursor \in Position
      BY DEF PagingInv, TypeOK
    <3> QED
      BY <1>3, <2>1, <3>2, <3>3, <3>4, BeforeOrder
  <2> QED
    BY <2>2, <2>3
<1>11. Announced'
  BY <1>2, <1>5, PageStep DEF Announced
<1>12. NothingSkipped'
  BY <1>2, <1>7 DEF NothingSkipped
<1>13. NothingRepeated'
  BY <1>1, <1>2, <1>9 DEF PagingInv, NothingRepeated, Shown
<1>14. NoEmptyPage'
  <2> SUFFICES ASSUME reader' = "done", page' = {}, shown' # {}
               PROVE  extra' \in disturbed'
    BY DEF NoEmptyPage
  <2>1. reader = "more" /\ Matching = {}
    BY <1>2 DEF PagingInv, Shown
  <2>2. extra \in disturbed
    BY <1>2, <2>1 DEF PagingInv, Announced, Matching
  <2> QED
    BY <1>1, <1>2, <2>1, <2>2
<1> QED
  BY <1>4, <1>5, <1>6, <1>8, <1>10, <1>11, <1>12, <1>13, <1>14 DEF PagingInv

-------------------------------------------------------------------------------

\* Every step preserves the invariant.
LEMMA PagingStep == PagingInv /\ [Next]_vars => PagingInv'
<1> SUFFICES ASSUME PagingInv, [Next]_vars
             PROVE  PagingInv'
  OBVIOUS
<1>1. ASSUME NEW r \in Row,
             \/ Create(r) \/ UpdateProjectTitle(r) \/ UpdateConversationName(r)
             \/ AddMessage(r) \/ DeleteAsset(r)
      PROVE  PagingInv'
  <2>1. \E statement \in Statement : Begin(r, statement)
    BY <1>1 DEF Create, UpdateProjectTitle, UpdateConversationName, AddMessage,
                DeleteAsset, Write, Statement
  <2> QED
    BY <2>1, BeginStep
<1>2. ASSUME NEW w \in writes, Commit(w)
      PROVE  PagingInv'
  BY <1>2, CommitStep
<1>3. CASE Scroll
  <2>1. \E limit \in Limit : NextPage(limit)
    BY <1>3 DEF Scroll, ListProjects, ListConversations, ListMessages, ListAssets
  <2> QED
    BY <2>1, NextPageStep
<1>4. CASE Tick \/ (\E w \in writes : Abandon(w)) \/ UNCHANGED vars
  BY <1>4, QuietStep
<1> QED
  BY <1>1, <1>2, <1>3, <1>4 DEF Next

\* The invariant holds always.
LEMMA PagingInvariant == Spec => []PagingInv
BY PagingInit, PagingStep, PTL DEF Spec

\* The types of all variables are those TypeOK lists, and no page is too long.
THEOREM PagingTypeCorrect == Spec => []TypeOK
BY PagingInvariant, PTL DEF PagingInv

\* Scrolling to the end shows every row that stayed in place.
THEOREM PagingSkipsNothing == Spec => []NothingSkipped
BY PagingInvariant, PTL DEF PagingInv

\* Only renames of one project that overlap make a row come twice.
THEOREM PagingRepeatsNothing == Spec => []NothingRepeated
BY PagingInvariant, PTL DEF PagingInv

\* A page that was announced is empty only if the row that announced it moved.
THEOREM PagingAnnouncesRows == Spec => []NoEmptyPage
BY PagingInvariant, PTL DEF PagingInv
===============================================================================
