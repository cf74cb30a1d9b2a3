------------------------------ MODULE AssetsProofs ------------------------------
(***************************************************************************)
(* Theorems about Assets, for any number of assets and requesters and for  *)
(* any number of failures of every kind.                                   *)
(*                                                                         *)
(* None of the safety properties is inductive alone: a row that is about   *)
(* to be inserted needs its file, so no one else may be removing it.  That *)
(* is what the invariant says: the assets of uploads, of deletions under   *)
(* way, and of answered deletions do not overlap.                          *)
(***************************************************************************)
EXTENDS Assets, TLAPS

Uploading(r) == pc[r] \in {"store", "insert", "unstore"}
Rowless(r) == pc[r] \in {"store", "insert"}

\* A deletion that has removed its rows.
Gone(r) == pc[r] = "unlink" \/ answer[r] = "deleted"

\* What a request works on is part of what it was asked for, and files are
\* removed only after their rows.
Deleting ==
  \A r \in Request :
    /\ got[r] \subseteq arg[r]
    /\ todo[r] \subseteq arg[r]
    /\ todo[r] \cap row = {}
    /\ Gone(r) => got[r] \cap row = {} /\ got[r] \cap file \subseteq todo[r]
    /\ answer[r] = "deleted" => todo[r] = {}

\* An upload owns its asset until it is answered.
Exclusive ==
  /\ \A r \in Request :
       /\ Uploading(r) => arg[r] \cap acked = {}
       /\ Rowless(r) => arg[r] \cap row = {}
       /\ pc[r] = "insert" => arg[r] \subseteq file
  /\ \A r, q \in Request :
       /\ Uploading(r) /\ Uploading(q) /\ r # q => arg[r] \cap arg[q] = {}
       /\ Rowless(r) => arg[r] \cap todo[q] = {}
       /\ Rowless(r) /\ Gone(q) => arg[r] \cap got[q] = {}

\* A request has no answer before it ends, and the rows a transaction has
\* linked are locked until it commits.
Attaching ==
  \A r \in Request :
    /\ pc[r] # "idle" => answer[r] = "none"
    /\ pc[r] = "commit" => arg[r] \subseteq row
    /\ answer[r] = "attached" => arg[r] \subseteq linked

AssetsInv == TypeOK /\ AssetsIntact /\ Deleting /\ Exclusive /\ Attaching

-----------------------------------------------------------------------------

\* The types of all variables are those TypeOK lists.
LEMMA TypeStep == TypeOK /\ [Next]_vars => TypeOK'
<1> SUFFICES ASSUME TypeOK, [Next]_vars PROVE TypeOK'
  OBVIOUS
<1> USE AssetsAssumptions DEF TypeOK, tables, requests, Phase, Answer
<1>1. CASE UNCHANGED vars
  BY <1>1 DEF vars
<1>2. CASE List
  BY <1>2 DEF List
<1>3. CASE Crash
  BY <1>3 DEF Crash, Fault
<1>4. ASSUME NEW r \in Request, Step(r) PROVE TypeOK'
  <2> USE DEF Goto, Respond, Receive, Fault
  <2>1. CASE UploadRequest(r)
    BY <2>1 DEF UploadRequest, Fresh
  <2>2. CASE StoreFile(r)
    BY <2>2 DEF StoreFile
  <2>3. CASE StoreError(r)
    BY <2>3 DEF StoreError
  <2>4. CASE CreateRow(r)
    BY <2>4 DEF CreateRow
  <2>5. CASE CreateError(r)
    BY <2>5 DEF CreateError
  <2>6. CASE RemoveStored(r)
    BY <2>6 DEF RemoveStored
  <2>7. CASE ReadRequest(r)
    BY <2>7 DEF ReadRequest, Known
  <2>8. CASE FindRow(r)
    BY <2>8 DEF FindRow
  <2>9. CASE ReadFile(r)
    BY <2>9 DEF ReadFile
  <2>10. CASE AttachRequest(r)
    BY <2>10 DEF AttachRequest, Known
  <2>11. CASE CountOwned(r)
    BY <2>11 DEF CountOwned
  <2>12. CASE InsertLinks(r)
    BY <2>12 DEF InsertLinks
  <2>13. CASE Commit(r)
    BY <2>13 DEF Commit
  <2>14. CASE CommitError(r)
    BY <2>14 DEF CommitError
  <2>15. CASE DeleteRequest(r)
    BY <2>15 DEF DeleteRequest, Known
  <2>16. CASE SelectUnused(r)
    BY <2>16 DEF SelectUnused
  <2>17. CASE DeleteRows(r)
    BY <2>17 DEF DeleteRows
  <2>18. CASE DeleteRestricted(r)
    BY <2>18 DEF DeleteRestricted
  <2>19. CASE DeleteError(r)
    BY <2>19 DEF DeleteError
  <2>20. CASE Unlink(r)
    BY <2>20 DEF Unlink
  <2>21. CASE UnlinkError(r)
    BY <2>21 DEF UnlinkError
  <2>22. CASE Deleted(r)
    BY <2>22 DEF Deleted
  <2>23. CASE StatementError(r)
    BY <2>23 DEF StatementError
  <2> QED
    BY <1>4, <2>1, <2>2, <2>3, <2>4, <2>5, <2>6, <2>7, <2>8, <2>9, <2>10, <2>11, <2>12,
       <2>13, <2>14, <2>15, <2>16, <2>17, <2>18, <2>19, <2>20, <2>21, <2>22, <2>23
    DEF Step
<1> QED
  BY <1>1, <1>2, <1>3, <1>4 DEF Next

\* Every variable of Assets keeps its type.
THEOREM AssetsTypeCorrect == Spec => []TypeOK
<1>1. Init => TypeOK
  BY AssetsAssumptions DEF Init, TypeOK, Phase, Answer
<1> QED
  BY <1>1, TypeStep, PTL DEF Spec

-----------------------------------------------------------------------------

\* Every step keeps uploads, deletions and attachments apart.
LEMMA AssetsInvStep == AssetsInv /\ [Next]_vars => AssetsInv'
<1> SUFFICES ASSUME AssetsInv, [Next]_vars PROVE AssetsInv'
  OBVIOUS
<1> DEFINE Parts == AssetsIntact /\ Deleting /\ Exclusive /\ Attaching
<1>0. TypeOK'
  BY TypeStep DEF AssetsInv
<1> SUFFICES Parts'
  BY <1>0 DEF AssetsInv
<1> USE DEF AssetsInv, AssetsIntact, Deleting, Exclusive, Attaching, Uploading, Rowless, Gone,
            TypeOK, tables, requests
<1>1. CASE UNCHANGED vars
  BY <1>1 DEF vars
<1>2. CASE List
  BY <1>2 DEF List
<1>3. CASE Crash
  BY <1>3 DEF Crash
<1>4. ASSUME NEW r \in Request, Step(r) PROVE Parts'
  <2> USE DEF Goto, Respond, Receive, Fault
  <2>1. CASE UploadRequest(r)
    <3>1. PICK a \in Fresh : Receive(r, "store", {a})
      BY <2>1 DEF UploadRequest
    <3>2. /\ a \notin acked /\ a \notin row /\ a \notin file
          /\ \A q \in Request : a \notin arg[q]
      BY <3>1 DEF Fresh, Known
    <3> QED
      BY <3>1, <3>2
  <2>2. CASE StoreFile(r)
    BY <2>2 DEF StoreFile
  <2>3. CASE StoreError(r)
    BY <2>3 DEF StoreError
  <2>4. CASE CreateRow(r)
    BY <2>4 DEF CreateRow
  <2>5. CASE CreateError(r)
    BY <2>5 DEF CreateError
  <2>6. CASE RemoveStored(r)
    BY <2>6 DEF RemoveStored
  <2>7. CASE ReadRequest(r)
    BY <2>7 DEF ReadRequest, Known
  <2>8. CASE FindRow(r)
    BY <2>8 DEF FindRow
  <2>9. CASE ReadFile(r)
    BY <2>9 DEF ReadFile
  <2>10. CASE AttachRequest(r)
    BY <2>10 DEF AttachRequest, Known
  <2>11. CASE CountOwned(r)
    BY <2>11 DEF CountOwned
  <2>12. CASE InsertLinks(r)
    BY <2>12 DEF InsertLinks
  <2>13. CASE Commit(r)
    BY <2>13 DEF Commit
  <2>14. CASE CommitError(r)
    BY <2>14 DEF CommitError
  <2>15. CASE DeleteRequest(r)
    BY <2>15 DEF DeleteRequest, Known
  <2>16. CASE SelectUnused(r)
    BY <2>16 DEF SelectUnused
  <2>17. CASE DeleteRows(r)
    BY <2>17 DEF DeleteRows, Unlocked, Restricted, Locked
  <2>18. CASE DeleteRestricted(r)
    BY <2>18 DEF DeleteRestricted
  <2>19. CASE DeleteError(r)
    BY <2>19 DEF DeleteError, Unlocked, Restricted, Locked
  <2>20. CASE Unlink(r)
    BY <2>20 DEF Unlink
  <2>21. CASE UnlinkError(r)
    BY <2>21 DEF UnlinkError
  <2>22. CASE Deleted(r)
    BY <2>22 DEF Deleted
  <2>23. CASE StatementError(r)
    BY <2>23 DEF StatementError
  <2> QED
    BY <1>4, <2>1, <2>2, <2>3, <2>4, <2>5, <2>6, <2>7, <2>8, <2>9, <2>10, <2>11, <2>12, <2>13, <2>14, <2>15, <2>16, <2>17, <2>18, <2>19, <2>20, <2>21, <2>22, <2>23
    DEF Step
<1> QED
  BY <1>1, <1>2, <1>3, <1>4 DEF Next

LEMMA AssetsInvInit == Init => AssetsInv
BY AssetsAssumptions
DEF Init, AssetsInv, TypeOK, Phase, Answer, AssetsIntact, Deleting, Exclusive, Attaching,
    Uploading, Rowless, Gone

LEMMA AssetsInvAlways == Spec => []AssetsInv
BY AssetsInvInit, AssetsInvStep, PTL DEF Spec

\* Whatever requests interleave and whatever fails: an asset whose upload was
\* acknowledged has its file as long as its row, and attached assets keep both.
THEOREM AssetsStayIntact == Spec => []AssetsIntact
BY AssetsInvAlways, PTL DEF AssetsInv

\* An answered deletion names assets that are gone for good, row and file.
THEOREM DeletionsTrue == Spec => []DeletionsHonest
<1>1. AssetsInv => DeletionsHonest
  BY DEF AssetsInv, AssetsIntact, Deleting, Gone, DeletionsHonest
<1> QED
  BY <1>1, AssetsInvAlways, PTL

\* A confirmed attachment is never undone by a deletion.
THEOREM AttachmentsStay == Spec => []AttachmentsKept
<1>1. AssetsInv => AttachmentsKept
  BY DEF AssetsInv, AssetsIntact, Attaching, AttachmentsKept
<1> QED
  BY <1>1, AssetsInvAlways, PTL

-----------------------------------------------------------------------------
(* Files, when nothing fails but statements and writes *)

Tidy ==
  /\ FilesAccountedFor
  /\ faults \subseteq {"db", "write"} =>
       \A r \in Request :
         /\ pc[r] = "store" => arg[r] \cap file = {}
         /\ pc[r] \notin {"idle", "unlink"} => todo[r] = {}

LEMMA TidyStep ==
  ASSUME AssetsInv, Tidy, [Next]_vars
  PROVE  Tidy'
<1> USE DEF Tidy, FilesAccountedFor, AssetsInv, Exclusive, Uploading, TypeOK, tables, requests
<1>1. CASE UNCHANGED vars
  BY <1>1 DEF vars
<1>2. CASE List
  BY <1>2 DEF List
<1>3. CASE Crash
  BY <1>3 DEF Crash, Fault
<1>4. ASSUME NEW r \in Request, Step(r) PROVE Tidy'
  <2> USE DEF Goto, Respond, Receive, Fault
  <2>1. CASE UploadRequest(r)
    <3>1. PICK a \in Fresh : Receive(r, "store", {a})
      BY <2>1 DEF UploadRequest
    <3>2. a \notin file
      BY <3>1 DEF Fresh
    <3> QED
      BY <3>1, <3>2
  <2>2. CASE StoreFile(r)
    BY <2>2 DEF StoreFile
  <2>3. CASE StoreError(r)
    <3>1. CASE Fault("write") /\ UNCHANGED file
      BY <2>3, <3>1 DEF StoreError
    <3>2. CASE Fault("unlink")
      BY <3>2
    <3> QED
      BY <2>3, <3>1, <3>2 DEF StoreError
  <2>4. CASE CreateRow(r)
    BY <2>4 DEF CreateRow
  <2>5. CASE CreateError(r)
    BY <2>5 DEF CreateError
  <2>6. CASE RemoveStored(r)
    <3>1. CASE file' = file \ arg[r] /\ UNCHANGED faults
      BY <2>6, <3>1 DEF RemoveStored
    <3>2. CASE Fault("unlink")
      BY <3>2
    <3> QED
      BY <2>6, <3>1, <3>2 DEF RemoveStored
  <2>7. CASE ReadRequest(r)
    BY <2>7 DEF ReadRequest
  <2>8. CASE FindRow(r)
    BY <2>8 DEF FindRow
  <2>9. CASE ReadFile(r)
    BY <2>9 DEF ReadFile
  <2>10. CASE AttachRequest(r)
    BY <2>10 DEF AttachRequest
  <2>11. CASE CountOwned(r)
    BY <2>11 DEF CountOwned
  <2>12. CASE InsertLinks(r)
    BY <2>12 DEF InsertLinks
  <2>13. CASE Commit(r)
    BY <2>13 DEF Commit
  <2>14. CASE CommitError(r)
    BY <2>14 DEF CommitError
  <2>15. CASE DeleteRequest(r)
    BY <2>15 DEF DeleteRequest
  <2>16. CASE SelectUnused(r)
    BY <2>16 DEF SelectUnused
  <2>17. CASE DeleteRows(r)
    BY <2>17 DEF DeleteRows
  <2>18. CASE DeleteRestricted(r)
    BY <2>18 DEF DeleteRestricted
  <2>19. CASE DeleteError(r)
    <3>1. CASE Fault("db") /\ UNCHANGED row
      BY <2>19, <3>1 DEF DeleteError
    <3>2. CASE Fault("reply")
      BY <3>2
    <3> QED
      BY <2>19, <3>1, <3>2 DEF DeleteError
  <2>20. CASE Unlink(r)
    BY <2>20 DEF Unlink
  <2>21. CASE UnlinkError(r)
    BY <2>21 DEF UnlinkError
  <2>22. CASE Deleted(r)
    BY <2>22 DEF Deleted
  <2>23. CASE StatementError(r)
    BY <2>23 DEF StatementError
  <2> QED
    BY <1>4, <2>1, <2>2, <2>3, <2>4, <2>5, <2>6, <2>7, <2>8, <2>9, <2>10, <2>11, <2>12, <2>13, <2>14, <2>15, <2>16, <2>17, <2>18, <2>19, <2>20, <2>21, <2>22, <2>23
    DEF Step
<1> QED
  BY <1>1, <1>2, <1>3, <1>4 DEF Next

\* While only statements and writes fail, every file belongs to a row or to a
\* request that will still take care of it.
THEOREM FilesStayAccounted == Spec => []FilesAccountedFor
<1>1. Init => Tidy
  BY DEF Init, Tidy, FilesAccountedFor
<1>2. AssetsInv /\ Tidy /\ [Next]_vars => Tidy'
  BY TidyStep
<1>3. Tidy => FilesAccountedFor
  BY DEF Tidy
<1> QED
  BY <1>1, <1>2, <1>3, AssetsInvAlways, PTL DEF Spec
==============================================================================
