-------------------------------- MODULE Assets --------------------------------
(***************************************************************************)
(* The assets of one user: rows of "assets" and "message_assets" in the    *)
(* database, files in LocalAssetStorage, and the requests that upload,     *)
(* list, read, attach and delete them (AssetController with its use cases, *)
(* and the transaction of CreateMessageUseCase).                           *)
(*                                                                         *)
(* Every SQL statement and every file operation is one step; requests      *)
(* interleave.  A requester is one connection that sends a request after   *)
(* another.  Row and file of an asset have the same name: a storage key is *)
(* a random UUID, written to exactly one row.                              *)
(***************************************************************************)
EXTENDS Naturals, FiniteSets

CONSTANTS
  Asset,     \* uploads of the user
  Request,   \* requesters
  Faults,    \* the kinds of failure that may happen
  MaxFaults  \* bound of the model: how many kinds, each of them any number of times

(***************************************************************************)
(*   "crash"   the server process dies                                     *)
(*   "db"      a statement fails and has no effect                         *)
(*   "reply"   a statement takes effect but the server sees an error       *)
(*   "write"   a file cannot be written                                    *)
(*   "unlink"  a file cannot be deleted                                    *)
(***************************************************************************)
FaultKind == {"crash", "db", "reply", "write", "unlink"}

ASSUME AssetsAssumptions ==
  /\ Faults \subseteq FaultKind
  /\ MaxFaults \in Nat

VARIABLES
  row,     \* rows of "assets"
  file,    \* files in the storage directory
  linked,  \* assets with a committed row of "message_assets"
  acked,   \* assets whose upload was answered with 201
  listed,  \* assets that a listing has shown
  pc,      \* the next step of each request
  arg,     \* the assets it is about
  got,     \* the assets its DELETE selects, then those it has deleted
  todo,    \* files a delete request still removes
  answer,  \* how the request was answered
  faults   \* the kinds of failure that have happened

tables == <<row, linked>>
requests == <<pc, arg, got, todo, answer>>
vars == <<row, file, linked, acked, listed, pc, arg, got, todo, answer, faults>>

Phase == {"idle", "store", "insert", "unstore", "find", "read",
          "count", "link", "commit", "select", "delete", "unlink"}

\* "missing" is HTTP 404, "error" is HTTP 500, "none" a broken connection.
Answer == {"none", "read", "attached", "deleted", "uploaded", "missing", "error"}

TypeOK ==
  /\ row \subseteq Asset
  /\ file \subseteq Asset
  /\ linked \subseteq Asset
  /\ acked \subseteq Asset
  /\ listed \subseteq Asset
  /\ pc \in [Request -> Phase]
  /\ arg \in [Request -> SUBSET Asset]
  /\ got \in [Request -> SUBSET Asset]
  /\ todo \in [Request -> SUBSET Asset]
  /\ answer \in [Request -> Answer]
  /\ faults \subseteq Faults

Init ==
  /\ row = {} /\ file = {} /\ linked = {} /\ acked = {} /\ listed = {}
  /\ pc = [r \in Request |-> "idle"]
  /\ arg = [r \in Request |-> {}]
  /\ got = [r \in Request |-> {}]
  /\ todo = [r \in Request |-> {}]
  /\ answer = [r \in Request |-> "none"]
  /\ faults = {}

Fault(kind) ==
  /\ kind \in Faults
  /\ faults' = faults \cup {kind}
  /\ Cardinality(faults') <= MaxFaults

\* Asset identifiers are UUIDs: clients name those they were told.
Known == acked \cup listed

Fresh == Asset \ (Known \cup row \cup file \cup UNION {arg[r] : r \in Request})

-----------------------------------------------------------------------------
(* Requests *)

Receive(r, phase, assets) ==
  /\ pc[r] = "idle"
  /\ todo[r] = {}
  /\ pc' = [pc EXCEPT ![r] = phase]
  /\ arg' = [arg EXCEPT ![r] = assets]
  /\ got' = [got EXCEPT ![r] = {}]
  /\ answer' = [answer EXCEPT ![r] = "none"]
  /\ UNCHANGED <<tables, file, acked, listed, todo, faults>>

Goto(r, phase) ==
  /\ pc' = [pc EXCEPT ![r] = phase]
  /\ UNCHANGED <<arg, answer>>

Respond(r, result) ==
  /\ pc' = [pc EXCEPT ![r] = "idle"]
  /\ answer' = [answer EXCEPT ![r] = result]
  /\ UNCHANGED arg

UploadRequest(r) == \E a \in Fresh : Receive(r, "store", {a})
ReadRequest(r) == \E a \in Known : Receive(r, "find", {a})
AttachRequest(r) == \E assets \in SUBSET Known \ {{}} : Receive(r, "count", assets)
DeleteRequest(r) == \E assets \in SUBSET Known \ {{}} : Receive(r, "select", assets)

\* One page of the listing; the rows it shows may be gone when it is read.
List ==
  /\ \E page \in SUBSET row : listed' = listed \cup page
  /\ UNCHANGED <<tables, file, acked, requests, faults>>

-----------------------------------------------------------------------------
(* UploadImageUseCase *)

StoreFile(r) ==
  /\ pc[r] = "store"
  /\ file' = file \cup arg[r]
  /\ Goto(r, "insert")
  /\ UNCHANGED <<tables, acked, listed, got, todo, faults>>

\* What was written of the file is removed, or that fails as well.
StoreError(r) ==
  /\ pc[r] = "store"
  /\ \/ Fault("write") /\ UNCHANGED file
     \/ Fault("unlink") /\ file' = file \cup arg[r]
  /\ Respond(r, "error")
  /\ UNCHANGED <<tables, acked, listed, got, todo>>

CreateRow(r) ==
  /\ pc[r] = "insert"
  /\ row' = row \cup arg[r]
  /\ acked' = acked \cup arg[r]
  /\ Respond(r, "uploaded")
  /\ UNCHANGED <<file, linked, listed, got, todo, faults>>

\* Mutant: the error is passed on, the file is left.
CreateErrorKept(r) ==
  /\ pc[r] = "insert"
  /\ Fault("db")
  /\ Respond(r, "error")
  /\ UNCHANGED <<tables, file, acked, listed, got, todo>>

CreateError(r) ==
  /\ pc[r] = "insert"
  /\ \/ Fault("db") /\ UNCHANGED row
     \/ Fault("reply") /\ row' = row \cup arg[r]
  /\ Goto(r, "unstore")
  /\ UNCHANGED <<file, linked, acked, listed, got, todo>>

\* The catch clause: error or AggregateError, HTTP 500 both.
RemoveStored(r) ==
  /\ pc[r] = "unstore"
  /\ \/ file' = file \ arg[r] /\ UNCHANGED faults
     \/ Fault("unlink") /\ UNCHANGED file
  /\ Respond(r, "error")
  /\ UNCHANGED <<tables, acked, listed, got, todo>>

-----------------------------------------------------------------------------
(* GetAssetContentUseCase *)

FindRow(r) ==
  /\ pc[r] = "find"
  /\ IF arg[r] \subseteq row THEN Goto(r, "read") ELSE Respond(r, "missing")
  /\ UNCHANGED <<tables, file, acked, listed, got, todo, faults>>

\* readFile of a file that is gone fails with ENOENT, HTTP 500.
ReadFile(r) ==
  /\ pc[r] = "read"
  /\ Respond(r, IF arg[r] \subseteq file THEN "read" ELSE "error")
  /\ UNCHANGED <<tables, file, acked, listed, got, todo, faults>>

-----------------------------------------------------------------------------
(* The transaction that stores a message *)

\* ownsAllAssets counts; it takes no lock.
CountOwned(r) ==
  /\ pc[r] = "count"
  /\ IF arg[r] \subseteq row THEN Goto(r, "link") ELSE Respond(r, "missing")
  /\ UNCHANGED <<tables, file, acked, listed, got, todo, faults>>

\* The foreign key is checked, and locks the rows until the commit.  Its
\* violation is not one of the errors the repository translates.
InsertLinks(r) ==
  /\ pc[r] = "link"
  /\ IF arg[r] \subseteq row THEN Goto(r, "commit") ELSE Respond(r, "error")
  /\ UNCHANGED <<tables, file, acked, listed, got, todo, faults>>

Commit(r) ==
  /\ pc[r] = "commit"
  /\ linked' = linked \cup arg[r]
  /\ Respond(r, "attached")
  /\ UNCHANGED <<row, file, acked, listed, got, todo, faults>>

CommitError(r) ==
  /\ pc[r] = "commit"
  /\ \/ Fault("db") /\ UNCHANGED linked
     \/ Fault("reply") /\ linked' = linked \cup arg[r]
  /\ Respond(r, "error")
  /\ UNCHANGED <<row, file, acked, listed, got, todo>>

Locked == UNION {arg[r] : r \in {q \in Request : pc[q] = "commit"}}

-----------------------------------------------------------------------------
(* DeleteUnusedAssetsUseCase *)

\* The rows the DELETE selects, in the snapshot in which it starts.
SelectUnused(r) ==
  /\ pc[r] = "select"
  /\ got' = [got EXCEPT ![r] = (arg[r] \cap row) \ linked]
  /\ Goto(r, "delete")
  /\ UNCHANGED <<tables, file, acked, listed, todo, faults>>

\* It waits for locked rows and skips deleted ones, but it does not look for
\* links again: a row that has one by now violates ON DELETE RESTRICT.
Restricted(r) == got[r] \cap row \cap linked # {}

Unlocked(r) == got[r] \cap row \cap Locked = {}

\* Mutant: the foreign key cascades, as those of messages do.
DeleteCascading(r) ==
  /\ pc[r] = "delete"
  /\ Unlocked(r)
  /\ row' = row \ got[r]
  /\ linked' = linked \ got[r]
  /\ got' = [got EXCEPT ![r] = @ \cap row]
  /\ todo' = [todo EXCEPT ![r] = got[r] \cap row]
  /\ Goto(r, "unlink")
  /\ UNCHANGED <<file, acked, listed, faults>>

\* Mutant: all files that were asked for are removed.
DeleteRequested(r) ==
  /\ pc[r] = "delete"
  /\ Unlocked(r)
  /\ ~Restricted(r)
  /\ row' = row \ got[r]
  /\ got' = [got EXCEPT ![r] = @ \cap row]
  /\ todo' = [todo EXCEPT ![r] = arg[r]]
  /\ Goto(r, "unlink")
  /\ UNCHANGED <<linked, file, acked, listed, faults>>

DeleteRows(r) ==
  /\ pc[r] = "delete"
  /\ Unlocked(r)
  /\ ~Restricted(r)
  /\ row' = row \ got[r]
  /\ got' = [got EXCEPT ![r] = @ \cap row]
  /\ todo' = [todo EXCEPT ![r] = got[r] \cap row]
  /\ Goto(r, "unlink")
  /\ UNCHANGED <<linked, file, acked, listed, faults>>

\* The whole statement fails.
DeleteRestricted(r) ==
  /\ pc[r] = "delete"
  /\ Unlocked(r)
  /\ Restricted(r)
  /\ Respond(r, "error")
  /\ UNCHANGED <<tables, file, acked, listed, got, todo, faults>>

DeleteError(r) ==
  /\ pc[r] = "delete"
  /\ \/ Fault("db") /\ UNCHANGED row
     \/ Unlocked(r) /\ ~Restricted(r) /\ Fault("reply") /\ row' = row \ got[r]
  /\ Respond(r, "error")
  /\ UNCHANGED <<linked, file, acked, listed, got, todo>>

\* Promise.all: the files are removed in any order, also those that are left
\* when another one has failed and the request is answered.
Unlink(r) ==
  /\ \E a \in todo[r] :
       /\ todo' = [todo EXCEPT ![r] = @ \ {a}]
       /\ file' = file \ {a}
  /\ UNCHANGED <<tables, acked, listed, pc, arg, got, answer, faults>>

UnlinkError(r) ==
  /\ Fault("unlink")
  /\ \E a \in todo[r] : todo' = [todo EXCEPT ![r] = @ \ {a}]
  /\ IF pc[r] = "unlink" THEN Respond(r, "error") ELSE UNCHANGED <<pc, arg, answer>>
  /\ UNCHANGED <<tables, file, acked, listed, got>>

\* Mutant: the request is answered while files are still being removed.
DeletedEarly(r) ==
  /\ pc[r] = "unlink"
  /\ Respond(r, "deleted")
  /\ UNCHANGED <<tables, file, acked, listed, got, todo, faults>>

Deleted(r) ==
  /\ pc[r] = "unlink"
  /\ todo[r] = {}
  /\ Respond(r, "deleted")
  /\ UNCHANGED <<tables, file, acked, listed, got, todo, faults>>

-----------------------------------------------------------------------------

\* Any statement that only reads, and the INSERT of links, which the failed
\* transaction undoes.
StatementError(r) ==
  /\ pc[r] \in {"find", "count", "link", "select"}
  /\ Fault("db")
  /\ Respond(r, "error")
  /\ UNCHANGED <<tables, file, acked, listed, got, todo>>

Crash ==
  /\ Fault("crash")
  /\ pc' = [r \in Request |-> "idle"]
  /\ todo' = [r \in Request |-> {}]
  /\ answer' = [r \in Request |-> IF pc[r] = "idle" THEN answer[r] ELSE "none"]
  /\ UNCHANGED <<tables, file, acked, listed, arg, got>>

Step(r) ==
  \/ UploadRequest(r) \/ StoreFile(r) \/ StoreError(r)
  \/ CreateRow(r) \/ CreateError(r) \/ RemoveStored(r)
  \/ ReadRequest(r) \/ FindRow(r) \/ ReadFile(r)
  \/ AttachRequest(r) \/ CountOwned(r) \/ InsertLinks(r) \/ Commit(r) \/ CommitError(r)
  \/ DeleteRequest(r) \/ SelectUnused(r) \/ DeleteRows(r) \/ DeleteRestricted(r)
  \/ DeleteError(r) \/ Unlink(r) \/ UnlinkError(r) \/ Deleted(r)
  \/ StatementError(r)

Next == List \/ Crash \/ \E r \in Request : Step(r)

Spec == Init /\ [][Next]_vars

-----------------------------------------------------------------------------
(* Properties *)

\* Whatever fails, an asset the client was told is stored has its file as long
\* as it has its row, and keeps both once a message refers to it
\* (docs/chat.md, "deleting an asset referenced by a message is restricted").
AssetsIntact ==
  /\ linked \subseteq row
  /\ row \cap acked \subseteq file

\* While nothing but statements and writes fail, every file belongs to a row
\* or to a request that will still insert the row or remove the file.
FilesAccountedFor ==
  faults \subseteq {"db", "write"} =>
    \A a \in file :
      \/ a \in row
      \/ \E r \in Request :
           \/ pc[r] \in {"store", "insert", "unstore"} /\ a \in arg[r]
           \/ a \in todo[r]

\* The identifiers of an answered deletion are those of assets that are gone,
\* row and file, were not attached, and were asked for.
DeletionsHonest ==
  \A r \in Request : answer[r] = "deleted" =>
    /\ got[r] \subseteq arg[r]
    /\ got[r] \cap (row \cup file \cup linked) = {}

\* An attachment that was confirmed is in the database, whatever was deleted at
\* the same time.
AttachmentsKept ==
  \A r \in Request : answer[r] = "attached" => arg[r] \subseteq linked \cap row
==============================================================================
