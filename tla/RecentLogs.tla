------------------------------ MODULE RecentLogs ------------------------------
(***************************************************************************)
(* The log lines an administrator can read back: RecentLogStore, a stream  *)
(* of the logger that keeps the last lines in a circular array, and        *)
(* ListAdminLogsUseCase, which answers GET /admin/logs from it.            *)
(*                                                                         *)
(* Both are synchronous: a write and a listing are one step each.  A line  *)
(* is abstracted to what the store and the filters look at: whether it is  *)
(* too long, whether it is a JSON object, its level and time, the places   *)
(* that name a request, and the words of its text.                         *)
(***************************************************************************)
EXTENDS Integers, Sequences, FiniteSets

CONSTANTS
  Capacity,   \* ADMIN_LOGGER_MAX_ENTRIES
  RequestId,  \* identifiers of requests
  Word,       \* words of messages and attributes
  None,       \* an absent field or filter
  Lines,      \* the lines the logger writes
  Queries,    \* the queries administrators send
  MaxId       \* bound of the model: entries retained

\* ADMIN_LOG_LEVELS; another label, or a level that is no label, is Unknown.
Level == {"fatal", "error", "warn", "info", "debug", "trace"}
Unknown == "unknown"

Attributes ==
  [requestId : RequestId \cup {None}, req : RequestId \cup {None}, words : SUBSET Word]

\* `length' and `json' are what the two early exits of write look at.
Line ==
  [length : {"fits", "over"}, json : {"object", "other"},
   level : Level \cup {Unknown}, time : BOOLEAN,
   msg : (SUBSET Word) \cup {None}, attributes : Attributes]

Content == [level : Level, message : SUBSET Word, attributes : Attributes]
Entry == [id : Nat, content : Content]

Query ==
  [limit : Nat \ {0}, level : Level \cup {None},
   requestId : RequestId \cup {None}, search : Word \cup {None}]

ASSUME RecentLogsAssumptions ==
  /\ Capacity \in Nat \ {0}
  /\ None \notin RequestId \cup Word \cup Level
  /\ None \notin Entry
  /\ Lines \subseteq Line
  /\ Queries \subseteq Query
  /\ MaxId \in Nat

VARIABLES
  entries,    \* the array
  nextIndex,  \* where the next entry goes
  size,       \* how many slots hold an entry
  nextId,     \* number of the next entry
  asked,      \* the query answered last, None when lines were written since
  answer      \* its answer

store == <<entries, nextIndex, size, nextId>>
vars == <<entries, nextIndex, size, nextId, asked, answer>>

StoreTypeOK ==
  /\ entries \in [0 .. Capacity - 1 -> Entry \cup {None}]
  /\ nextIndex \in 0 .. Capacity - 1
  /\ size \in 0 .. Capacity
  /\ nextId \in Nat \ {0}

TypeOK ==
  /\ StoreTypeOK
  /\ asked \in Queries \cup {None}

Init ==
  /\ entries = [i \in 0 .. Capacity - 1 |-> None]
  /\ nextIndex = 0 /\ size = 0 /\ nextId = 1
  /\ asked = None
  /\ answer = <<>>

-------------------------------------------------------------------------------
\* parseLogLine: a line that is no object, or lacks a known level or a valid
\* time, has no entry.
Parsed(line) == line.json = "object" /\ line.level # Unknown /\ line.time

ContentOf(line) ==
  [level |-> line.level,
   message |-> IF line.msg = None THEN {} ELSE line.msg,
   attributes |-> line.attributes]

Slot(line) == [id |-> nextId, content |-> ContentOf(line)]

\* Defective: the index wraps before the last slot.
FollowingShort(index) == IF index + 1 >= Capacity - 1 THEN 0 ELSE index + 1
Following(index) == (index + 1) % Capacity

Grown == IF size < Capacity THEN size + 1 ELSE Capacity

Write(line) ==
  /\ line.length = "fits"
  /\ Parsed(line)
  /\ nextId <= MaxId
  /\ entries' = [entries EXCEPT ![nextIndex] = Slot(line)]
  /\ nextId' = nextId + 1
  /\ nextIndex' = Following(nextIndex)
  /\ size' = Grown
  /\ asked' = None
  /\ answer' = <<>>

\* The line leaves no trace.
Drop(line) ==
  /\ line.length = "over" \/ ~Parsed(line)
  /\ asked' = None
  /\ answer' = <<>>
  /\ UNCHANGED store

-------------------------------------------------------------------------------
\* Defective: the listing starts at the slot that is written next.
IndexBackOne(offset) == (nextIndex - offset + Capacity) % Capacity
\* The slot of the entry written `offset' + 1 writes ago.
IndexBack(offset) == (nextIndex - 1 - offset + Capacity) % Capacity

ListRecent == [k \in 1 .. size |-> entries[IndexBack(k - 1)]]

HasRequestId(content, id) ==
  content.attributes.requestId = id \/ content.attributes.req = id

ContainsSearch(content, word) ==
  word \in content.message \cup content.attributes.words

Matches(entry, query) ==
  /\ query.level # None => entry.content.level = query.level
  /\ query.requestId # None => HasRequestId(entry.content, query.requestId)
  /\ query.search # None => ContainsSearch(entry.content, query.search)

\* Defective: the limit counts the entries looked at, not those found.
CollectFirst(list, query) ==
  SelectSeq(SubSeq(list, 1, IF Len(list) < query.limit THEN Len(list) ELSE query.limit),
            LAMBDA entry : Matches(entry, query))

\* The loop of execute: it leaves once it has found enough.
Collect(list, query) ==
  LET found[k \in 0 .. Len(list)] ==
        IF k = 0 THEN <<>>
        ELSE LET before == found[k - 1]
             IN  IF Len(before) < query.limit /\ Matches(list[k], query)
                 THEN Append(before, list[k])
                 ELSE before
  IN  found[Len(list)]

List(query) ==
  /\ asked' = query
  /\ answer' = Collect(ListRecent, query)
  /\ UNCHANGED store

Next ==
  \/ \E line \in Lines : Write(line) \/ Drop(line)
  \/ \E query \in Queries : List(query)

Spec == Init /\ [][Next]_vars

-------------------------------------------------------------------------------
(***************************************************************************)
(* The array with its wrapping index is the window of the newest entries:  *)
(* no line is lost, repeated or out of order when the array wraps.         *)
(***************************************************************************)
Window ==
  INSTANCE LogWindow WITH
    window <- ListRecent, count <- nextId - 1,
    Content <- {ContentOf(line) : line \in Lines}

ImplementsWindow == Window!Spec

Stored == {entries[i] : i \in 0 .. Capacity - 1} \ {None}

Newer(entry, query) ==
  {other \in Stored : other.id > entry.id /\ Matches(other, query)}

(***************************************************************************)
(* A listing shows, newest first, exactly the entries that match and have  *)
(* fewer than `limit' newer ones that match: a filter never hides a line   *)
(* because of lines it does not show.                                      *)
(***************************************************************************)
NewestMatching ==
  asked # None =>
    /\ \A j, k \in 1 .. Len(answer) : j < k => answer[j].id > answer[k].id
    /\ {answer[k] : k \in 1 .. Len(answer)} =
         {entry \in Stored :
            Matches(entry, asked) /\ Cardinality(Newer(entry, asked)) < asked.limit}
===============================================================================
