----------------------------- MODULE CursorPaging -----------------------------
(***************************************************************************)
(* Scrolling through a list of projects, conversations, messages or assets *)
(* while it changes: the queries of the four repositories that list them,  *)
(* createCursorPage with its opaque cursor, and the statements that move   *)
(* rows in those lists.                                                    *)
(*                                                                         *)
(* A row is at a time and has a random identifier that breaks ties.  The   *)
(* time is taken when a write begins and seen when it commits, so writes   *)
(* appear late, and two of one row may commit in the opposite order.  What *)
(* is listed belongs to one user, and owners never change: the ownership   *)
(* checks before the queries do not interact with them.                    *)
(***************************************************************************)
EXTENDS Integers, FiniteSets

CONSTANTS
  Row,       \* rows, by their identifiers: random, but ordered
  Kinds,     \* the lists looked at
  Limit,     \* sizes of pages that are asked for
  PerMs,     \* ticks of the clock of the database in a millisecond
  MaxTime,   \* bound of the model: ticks
  MaxWrites  \* bound of the model: writes begun

Kind == {"projects", "conversations", "messages", "assets"}

ASSUME PagingAssumptions ==
  /\ Row \subseteq Nat
  /\ Kinds \subseteq Kind
  /\ Limit \subseteq Nat \ {0}
  /\ PerMs \in Nat \ {0}
  /\ MaxTime \in Nat
  /\ MaxWrites \in Nat

VARIABLES
  kind,       \* which list is scrolled
  now,        \* the clock of the database
  at,         \* the time each committed row is listed at, or Absent, or Gone
  writes,     \* writes under way: <<row, statement, time>>
  begun,      \* how many writes were begun
  reader,     \* where the scrolling client stands
  cursor,     \* the position behind the last row it has
  page,       \* the rows of the last page
  shown,      \* rows of all pages
  repeated,   \* rows that were on two pages
  initial,    \* rows that were there when the first page was asked for
  disturbed,  \* rows moved or deleted since
  backward,   \* rows that moved towards the end of the list since
  extra       \* the row that showed the server that there is another page

list == <<at, writes>>
client == <<reader, cursor, page, shown, repeated, initial, extra>>
history == <<disturbed, backward>>
vars == <<kind, now, at, writes, begun, reader, cursor, page, shown, repeated,
          initial, disturbed, backward, extra>>

Time == Int
Absent == -1  \* no time of the clock: not inserted yet
Gone == -2    \* deleted
NoRow == -1   \* no identifier
Statement == {"create", "rename", "message", "delete"}
Position == [time : Time, id : Int]

TypeOK ==
  /\ kind \in Kind
  /\ now \in Nat
  /\ at \in [Row -> Nat \cup {Absent, Gone}]
  /\ writes \subseteq Row \X Statement \X Nat
  /\ begun \in Nat
  /\ reader \in {"start", "more", "done"}
  /\ cursor \in Position
  /\ page \subseteq Row
  /\ page = {} \/ \E limit \in Limit : ~(Cardinality(page) > limit)
  /\ shown \subseteq Row
  /\ repeated \subseteq Row
  /\ initial \subseteq Row
  /\ disturbed \subseteq Row
  /\ backward \subseteq Row
  /\ extra \in Row \cup {NoRow}

Listed == {r \in Row : at[r] \in Nat}

Init ==
  /\ kind \in Kinds
  /\ now = 0
  /\ at = [r \in Row |-> Absent]
  /\ writes = {} /\ begun = 0
  /\ reader = "start"
  /\ cursor = [time |-> 0, id |-> 0]
  /\ page = {} /\ shown = {} /\ repeated = {}
  /\ initial = {} /\ disturbed = {} /\ backward = {}
  /\ extra = NoRow

-------------------------------------------------------------------------------
(* Writes: INSERT, UPDATE and DELETE statements of other requests. *)

\* What a column of type TIMESTAMPTZ(3) keeps of a time.
Stored(t) == t - (t % PerMs)

\* A write takes its time.
Begin(r, statement) ==
  /\ begun < MaxWrites
  /\ <<r, statement, Stored(now)>> \notin writes
  /\ begun' = begun + 1
  /\ writes' = writes \cup {<<r, statement, Stored(now)>>}
  /\ UNCHANGED <<kind, now, at, client, history>>

\* A project, a conversation with its first message, a message or an asset.
Create(r) ==
  /\ at[r] = Absent
  /\ \A w \in writes : w[1] # r
  /\ Begin(r, "create")

\* What clients know of can be written to.
Write(listed, r, statement) ==
  /\ kind = listed
  /\ at[r] \in Nat
  /\ Begin(r, statement)

UpdateProjectTitle(r) == Write("projects", r, "rename")
UpdateConversationName(r) == Write("conversations", r, "rename")
AddMessage(r) == Write("conversations", r, "message")
DeleteAsset(r) == Write("assets", r, "delete")

\* Defective: a conversation is listed at the time of its last write.
MovedByWrites(statement, old, t) ==
  IF statement = "delete" THEN Gone ELSE t
\* Where a write puts its row: a project is listed at updatedAt, which every
\* rename sets; a conversation at the time of its newest message, which a rename
\* leaves alone; a deleted asset nowhere.
Moved(statement, old, t) ==
  CASE statement = "create" -> t
    [] statement = "rename" -> IF kind = "projects" THEN t ELSE old
    [] statement = "message" -> IF t > old THEN t ELSE old
    [] statement = "delete" -> Gone

\* A write becomes visible; one to a deleted row finds none.
Commit(w) ==
  LET r == w[1]
      position == Moved(w[2], at[r], w[3])
  IN  /\ IF w[2] = "create" THEN at[r] = Absent ELSE at[r] \in Nat
      /\ writes' = writes \ {w}
      /\ at' = [at EXCEPT ![r] = position]
      /\ disturbed' = IF at[r] # position THEN disturbed \cup {r} ELSE disturbed
      /\ backward' = IF position \in Nat /\ position < at[r]
                     THEN backward \cup {r} ELSE backward
      /\ UNCHANGED <<kind, now, begun, client>>

\* A write is undone, or finds no row.
Abandon(w) ==
  /\ writes' = writes \ {w}
  /\ UNCHANGED <<kind, now, at, begun, client, history>>

Tick ==
  /\ now < MaxTime
  /\ now' = now + 1
  /\ UNCHANGED <<kind, list, begun, client, history>>

-------------------------------------------------------------------------------
(* Reads. *)

\* The conditions of the four queries: ORDER BY time DESC, id DESC.
Before(p, q) ==
  \/ p.time < q.time
  \/ p.time = q.time /\ p.id < q.id

PositionOf(r) == [time |-> at[r], id |-> r]

\* Defective: the cursor is a time.
EncodedTime(p) == [time |-> p.time, id |-> 0]
\* encodeCursor, then createCursorSchema: toISOString keeps milliseconds.
Encoded(p) == [time |-> p.time - (p.time % PerMs), id |-> p.id]

\* Defective: the condition on the cursor is left out.
MatchingAll == Listed
\* The rows of a query without or with a cursor.
Matching == {r \in Listed : reader = "more" => Before(PositionOf(r), cursor)}

\* `top' are the n first rows of `rows', or all of them.
IsTop(top, rows, n) ==
  /\ top \subseteq rows
  /\ \A r \in top, s \in rows \ top : Before(PositionOf(s), PositionOf(r))
  /\ IF Cardinality(rows) > n THEN Cardinality(top) = n ELSE top = rows

IsLast(last, rows) ==
  /\ last \in rows
  /\ \A r \in rows \ {last} : Before(PositionOf(last), PositionOf(r))

\* Defective: a full page is taken to have a successor.
HasMoreIfFull(fetched, limit) == Cardinality(fetched) >= limit
\* createCursorPage
HasMore(fetched, limit) == Cardinality(fetched) > limit

FetchSize(limit) == limit + 1

\* createCursorPage: slice(0, limit)
IsPage(items, fetched, limit) == IsTop(items, fetched, limit)

\* The client asks for the first page, then for the one behind its cursor.
NextPage(limit) ==
  /\ reader # "done"
  /\ \E fetched \in SUBSET Matching :
       /\ IsTop(fetched, Matching, FetchSize(limit))
       /\ \E items \in SUBSET fetched :
            /\ IsPage(items, fetched, limit)
            /\ page' = items
            /\ repeated' = repeated \cup (shown \cap items)
            /\ shown' = shown \cup items
            /\ IF HasMore(fetched, limit) /\ items # {}
               THEN \E last \in items :
                      /\ IsLast(last, items)
                      /\ reader' = "more"
                      /\ cursor' = Encoded(PositionOf(last))
                      /\ extra' \in IF fetched = items THEN {NoRow} ELSE fetched \ items
               ELSE /\ reader' = "done"
                    /\ UNCHANGED <<cursor, extra>>
  /\ initial' = IF reader = "start" THEN Listed ELSE initial
  /\ disturbed' = IF reader = "start" THEN {} ELSE disturbed
  /\ backward' = IF reader = "start" THEN {} ELSE backward
  /\ UNCHANGED <<kind, now, at, writes, begun>>

ListProjects(limit) == kind = "projects" /\ NextPage(limit)
ListConversations(limit) == kind = "conversations" /\ NextPage(limit)
ListMessages(limit) == kind = "messages" /\ NextPage(limit)
ListAssets(limit) == kind = "assets" /\ NextPage(limit)

Scroll ==
  \E limit \in Limit :
    \/ ListProjects(limit) \/ ListConversations(limit)
    \/ ListMessages(limit) \/ ListAssets(limit)

Next ==
  \/ \E r \in Row :
       \/ Create(r)
       \/ UpdateProjectTitle(r)
       \/ UpdateConversationName(r) \/ AddMessage(r)
       \/ DeleteAsset(r)
  \/ \E w \in writes : Commit(w) \/ Abandon(w)
  \/ Tick
  \/ Scroll

\* The client goes on scrolling; nothing makes the others write.
Spec == Init /\ [][Next]_vars /\ WF_vars(Scroll)
-------------------------------------------------------------------------------
(***************************************************************************)
(* Scrolling to the end shows every row that was there at the beginning    *)
(* and stayed where it was, whatever is inserted, moved and deleted around *)
(* it and wherever pages end.                                              *)
(***************************************************************************)
NothingSkipped == reader = "done" => initial \ disturbed \subseteq shown

(***************************************************************************)
(* No row is shown twice, unless it moved towards the end of the list,     *)
(* which only two renames of one project that overlap can do.              *)
(***************************************************************************)
NothingRepeated ==
  /\ repeated \subseteq backward
  /\ backward # {} => kind = "projects"

(***************************************************************************)
(* A page that a cursor announced is empty only if the row that made the   *)
(* server announce it has moved or is gone.                                *)
(***************************************************************************)
NoEmptyPage ==
  reader = "done" /\ page = {} /\ shown # {} => extra \in disturbed

(***************************************************************************)
(* Scrolling ends, however much is written meanwhile: a row that appears   *)
(* behind the cursor has an earlier time than the cursor.                  *)
(***************************************************************************)
ScrollingEnds == <>(reader = "done")
===============================================================================
