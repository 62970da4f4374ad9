---------------------------- MODULE MediaStoreProofs ----------------------------
(***************************************************************************)
(* Files and their rows agree: MediaInv holds in every state, for any      *)
(* media, any dedupe keys and any grace longer than the longest put.       *)
(***************************************************************************)
EXTENDS MediaStore, TLAPS

LEMMA InitInv == Init => MediaInv
<1> SUFFICES ASSUME Init
             PROVE  MediaInv
  OBVIOUS
<1> USE MediaAssumption DEF Init, Resting
<1>1. TypeOK
  BY DEF TypeOK
<1>2. RowsFollowPuts /\ PassFollowsPuts /\ RowHasFile /\ FailedPutIsClean
  BY DEF RowsFollowPuts, PassFollowsPuts, RowHasFile, FailedPutIsClean, UnderWay
<1> QED
  BY <1>1, <1>2 DEF MediaInv

\* Storing a medium changes no row but its own and those that lose the key to it.
LEMMA StoredRows ==
  ASSUME TypeOK, NEW i \in Ids
  PROVE  /\ Stored(i) \in [Ids -> {"none", "active", "expired", "deleted"}]
         /\ Stored(i)[i] = "active"
         /\ \A j \in Ids \ {i} :
              \/ Stored(i)[j] = row[j]
              \/ row[j] \in {"active", "expired"} /\ Stored(i)[j] = "deleted"
BY DEF TypeOK, Stored, Holders

LEMMA WriteTemporaryKeeps ==
  ASSUME MediaInv, NEW i \in Ids, NEW k \in Keys \cup {NoKey}, WriteTemporary(i, k)
  PROVE  MediaInv'
<1> USE MediaAssumption DEF WriteTemporary, MediaInv, putVars
<1>1. TypeOK'
  BY DEF TypeOK
<1>2. RowsFollowPuts'
  BY DEF TypeOK, RowsFollowPuts
<1>3. PassFollowsPuts'
  BY DEF TypeOK, RowsFollowPuts, PassFollowsPuts, UnderWay
<1>4. RowHasFile'
  BY DEF TypeOK, RowsFollowPuts, PassFollowsPuts, RowHasFile
<1>5. FailedPutIsClean'
  BY DEF TypeOK, RowsFollowPuts, FailedPutIsClean
<1> QED
  BY <1>1, <1>2, <1>3, <1>4, <1>5

LEMMA FailToWriteKeeps ==
  ASSUME MediaInv, NEW i \in Ids, NEW k \in Keys \cup {NoKey}, FailToWrite(i, k)
  PROVE  MediaInv'
<1> USE MediaAssumption DEF FailToWrite, MediaInv, putVars
<1>1. TypeOK'
  BY DEF TypeOK
<1>2. RowsFollowPuts'
  BY DEF TypeOK, RowsFollowPuts
<1>3. PassFollowsPuts'
  BY DEF TypeOK, RowsFollowPuts, PassFollowsPuts, UnderWay
<1>4. RowHasFile'
  BY DEF TypeOK, RowsFollowPuts, PassFollowsPuts, RowHasFile
<1>5. FailedPutIsClean'
  BY DEF TypeOK, RowsFollowPuts, FailedPutIsClean
<1> QED
  BY <1>1, <1>2, <1>3, <1>4, <1>5

LEMMA InsertRowKeeps ==
  ASSUME MediaInv, NEW i \in Ids, InsertRow(i)
  PROVE  MediaInv'
<1> USE MediaAssumption DEF InsertRow, MediaInv, putVars
<1>1. TypeOK'
  BY DEF TypeOK
<1>2. RowsFollowPuts'
  BY DEF TypeOK, RowsFollowPuts
<1>3. PassFollowsPuts'
  BY DEF TypeOK, RowsFollowPuts, PassFollowsPuts, UnderWay
<1>4. RowHasFile'
  BY DEF TypeOK, RowsFollowPuts, PassFollowsPuts, RowHasFile
<1>5. FailedPutIsClean'
  BY DEF TypeOK, RowsFollowPuts, FailedPutIsClean
<1> QED
  BY <1>1, <1>2, <1>3, <1>4, <1>5

LEMMA MoveFileKeeps ==
  ASSUME MediaInv, NEW i \in Ids, MoveFile(i)
  PROVE  MediaInv'
<1> USE MediaAssumption DEF MoveFile, MediaInv, putVars
<1>1. TypeOK'
  BY DEF TypeOK
<1>2. RowsFollowPuts'
  BY DEF TypeOK, RowsFollowPuts
<1>3. PassFollowsPuts'
  BY DEF TypeOK, RowsFollowPuts, PassFollowsPuts, UnderWay
<1>4. RowHasFile'
  BY DEF TypeOK, RowsFollowPuts, PassFollowsPuts, RowHasFile
<1>5. FailedPutIsClean'
  BY DEF TypeOK, RowsFollowPuts, FailedPutIsClean
<1> QED
  BY <1>1, <1>2, <1>3, <1>4, <1>5

LEMMA CommitKeeps ==
  ASSUME MediaInv, NEW i \in Ids, Commit(i)
  PROVE  MediaInv'
<1> USE MediaAssumption DEF Commit, MediaInv, putVars
<1>1. TypeOK'
  BY StoredRows DEF TypeOK
<1>2. RowsFollowPuts'
  BY StoredRows DEF TypeOK, RowsFollowPuts
<1>3. PassFollowsPuts'
  BY StoredRows DEF TypeOK, RowsFollowPuts, PassFollowsPuts, UnderWay
<1>4. RowHasFile'
  BY StoredRows DEF TypeOK, RowsFollowPuts, PassFollowsPuts, RowHasFile
<1>5. FailedPutIsClean'
  BY StoredRows DEF TypeOK, RowsFollowPuts, FailedPutIsClean
<1> QED
  BY <1>1, <1>2, <1>3, <1>4, <1>5

LEMMA FailKeeps ==
  ASSUME MediaInv, NEW i \in Ids, Fail(i)
  PROVE  MediaInv'
<1> USE MediaAssumption DEF Fail, MediaInv, putVars
<1>1. TypeOK'
  BY DEF TypeOK
<1>2. RowsFollowPuts'
  BY DEF TypeOK, RowsFollowPuts
<1>3. PassFollowsPuts'
  BY DEF TypeOK, RowsFollowPuts, PassFollowsPuts, UnderWay
<1>4. RowHasFile'
  BY DEF TypeOK, RowsFollowPuts, PassFollowsPuts, RowHasFile
<1>5. FailedPutIsClean'
  BY DEF TypeOK, RowsFollowPuts, FailedPutIsClean
<1> QED
  BY <1>1, <1>2, <1>3, <1>4, <1>5

LEMMA LoseCommitKeeps ==
  ASSUME MediaInv, NEW i \in Ids, LoseCommit(i)
  PROVE  MediaInv'
<1> USE MediaAssumption DEF LoseCommit, MediaInv, putVars
<1>1. TypeOK'
  BY StoredRows DEF TypeOK
<1>2. RowsFollowPuts'
  BY StoredRows DEF TypeOK, RowsFollowPuts
<1>3. PassFollowsPuts'
  BY StoredRows DEF TypeOK, RowsFollowPuts, PassFollowsPuts, UnderWay
<1>4. RowHasFile'
  BY StoredRows DEF TypeOK, RowsFollowPuts, PassFollowsPuts, RowHasFile
<1>5. FailedPutIsClean'
  BY StoredRows DEF TypeOK, RowsFollowPuts, FailedPutIsClean
<1> QED
  BY <1>1, <1>2, <1>3, <1>4, <1>5

LEMMA CleanUpKeeps ==
  ASSUME MediaInv, NEW i \in Ids, CleanUp(i)
  PROVE  MediaInv'
<1> USE MediaAssumption DEF CleanUp, MediaInv, putVars
<1>1. TypeOK'
  BY DEF TypeOK
<1>2. RowsFollowPuts'
  BY DEF TypeOK, RowsFollowPuts
<1>3. PassFollowsPuts'
  BY DEF TypeOK, RowsFollowPuts, PassFollowsPuts, UnderWay
<1>4. RowHasFile'
  BY DEF TypeOK, RowsFollowPuts, PassFollowsPuts, RowHasFile
<1>5. FailedPutIsClean'
  BY DEF TypeOK, RowsFollowPuts, FailedPutIsClean
<1> QED
  BY <1>1, <1>2, <1>3, <1>4, <1>5

LEMMA FailToCleanUpKeeps ==
  ASSUME MediaInv, NEW i \in Ids, FailToCleanUp(i)
  PROVE  MediaInv'
<1> USE MediaAssumption DEF FailToCleanUp, MediaInv, putVars
<1>1. TypeOK'
  BY DEF TypeOK
<1>2. RowsFollowPuts'
  BY DEF TypeOK, RowsFollowPuts
<1>3. PassFollowsPuts'
  BY DEF TypeOK, RowsFollowPuts, PassFollowsPuts, UnderWay
<1>4. RowHasFile'
  BY DEF TypeOK, RowsFollowPuts, PassFollowsPuts, RowHasFile
<1>5. FailedPutIsClean'
  BY DEF TypeOK, RowsFollowPuts, FailedPutIsClean
<1> QED
  BY <1>1, <1>2, <1>3, <1>4, <1>5

LEMMA CrashKeeps ==
  ASSUME MediaInv, NEW i \in Ids, Crash(i)
  PROVE  MediaInv'
<1> USE MediaAssumption DEF Crash, MediaInv, putVars
<1>1. TypeOK'
  BY DEF TypeOK
<1>2. RowsFollowPuts'
  BY DEF TypeOK, RowsFollowPuts
<1>3. PassFollowsPuts'
  BY DEF TypeOK, RowsFollowPuts, PassFollowsPuts, UnderWay
<1>4. RowHasFile'
  BY DEF TypeOK, RowsFollowPuts, PassFollowsPuts, RowHasFile
<1>5. FailedPutIsClean'
  BY DEF TypeOK, RowsFollowPuts, FailedPutIsClean
<1> QED
  BY <1>1, <1>2, <1>3, <1>4, <1>5

LEMMA ExpireKeeps ==
  ASSUME MediaInv, NEW i \in Ids, Expire(i)
  PROVE  MediaInv'
<1> USE MediaAssumption DEF Expire, MediaInv, putVars
<1>1. TypeOK'
  BY DEF TypeOK
<1>2. RowsFollowPuts'
  BY DEF TypeOK, RowsFollowPuts
<1>3. PassFollowsPuts'
  BY DEF TypeOK, RowsFollowPuts, PassFollowsPuts, UnderWay
<1>4. RowHasFile'
  BY DEF TypeOK, RowsFollowPuts, PassFollowsPuts, RowHasFile
<1>5. FailedPutIsClean'
  BY DEF TypeOK, RowsFollowPuts, FailedPutIsClean
<1> QED
  BY <1>1, <1>2, <1>3, <1>4, <1>5

LEMMA MarkDeletedKeeps ==
  ASSUME MediaInv, NEW i \in Ids, MarkDeleted(i)
  PROVE  MediaInv'
<1> USE MediaAssumption DEF MarkDeleted, MediaInv, putVars
<1>1. TypeOK'
  BY DEF TypeOK
<1>2. RowsFollowPuts'
  BY DEF TypeOK, RowsFollowPuts
<1>3. PassFollowsPuts'
  BY DEF TypeOK, RowsFollowPuts, PassFollowsPuts, UnderWay
<1>4. RowHasFile'
  BY DEF TypeOK, RowsFollowPuts, PassFollowsPuts, RowHasFile
<1>5. FailedPutIsClean'
  BY DEF TypeOK, RowsFollowPuts, FailedPutIsClean
<1> QED
  BY <1>1, <1>2, <1>3, <1>4, <1>5

LEMMA RemoveFileKeeps ==
  ASSUME MediaInv, NEW i \in Ids, RemoveFile(i)
  PROVE  MediaInv'
<1> USE MediaAssumption DEF RemoveFile, MediaInv, putVars
<1>1. TypeOK'
  BY DEF TypeOK
<1>2. RowsFollowPuts'
  BY DEF TypeOK, RowsFollowPuts
<1>3. PassFollowsPuts'
  BY DEF TypeOK, RowsFollowPuts, PassFollowsPuts, UnderWay
<1>4. RowHasFile'
  BY DEF TypeOK, RowsFollowPuts, PassFollowsPuts, RowHasFile
<1>5. FailedPutIsClean'
  BY DEF TypeOK, RowsFollowPuts, FailedPutIsClean
<1> QED
  BY <1>1, <1>2, <1>3, <1>4, <1>5

LEMMA CrashRemovalKeeps ==
  ASSUME MediaInv, NEW i \in Ids, CrashRemoval(i)
  PROVE  MediaInv'
<1> USE MediaAssumption DEF CrashRemoval, MediaInv, putVars
<1>1. TypeOK'
  BY DEF TypeOK
<1>2. RowsFollowPuts'
  BY DEF TypeOK, RowsFollowPuts
<1>3. PassFollowsPuts'
  BY DEF TypeOK, RowsFollowPuts, PassFollowsPuts, UnderWay
<1>4. RowHasFile'
  BY DEF TypeOK, RowsFollowPuts, PassFollowsPuts, RowHasFile
<1>5. FailedPutIsClean'
  BY DEF TypeOK, RowsFollowPuts, FailedPutIsClean
<1> QED
  BY <1>1, <1>2, <1>3, <1>4, <1>5

LEMMA ListFilesKeeps ==
  ASSUME MediaInv, ListFiles
  PROVE  MediaInv'
<1> USE MediaAssumption DEF ListFiles, MediaInv, putVars, IsOld
<1>1. TypeOK'
  BY DEF TypeOK
<1>2. RowsFollowPuts'
  BY DEF TypeOK, RowsFollowPuts
<1>3. PassFollowsPuts'
  BY DEF TypeOK, RowsFollowPuts, PassFollowsPuts, UnderWay
<1>4. RowHasFile'
  BY DEF TypeOK, RowsFollowPuts, PassFollowsPuts, RowHasFile
<1>5. FailedPutIsClean'
  BY DEF TypeOK, RowsFollowPuts, FailedPutIsClean
<1> QED
  BY <1>1, <1>2, <1>3, <1>4, <1>5

LEMMA LookForRowsKeeps ==
  ASSUME MediaInv, LookForRows
  PROVE  MediaInv'
<1> USE MediaAssumption DEF LookForRows, MediaInv, putVars, Tracked
<1>1. TypeOK'
  BY DEF TypeOK
<1>2. RowsFollowPuts'
  BY DEF TypeOK, RowsFollowPuts
<1>3. PassFollowsPuts'
  BY DEF TypeOK, RowsFollowPuts, PassFollowsPuts, UnderWay
<1>4. RowHasFile'
  BY DEF TypeOK, RowsFollowPuts, PassFollowsPuts, RowHasFile
<1>5. FailedPutIsClean'
  BY DEF TypeOK, RowsFollowPuts, FailedPutIsClean
<1> QED
  BY <1>1, <1>2, <1>3, <1>4, <1>5

LEMMA RemoveOrphanKeeps ==
  ASSUME MediaInv, NEW i \in Ids, RemoveOrphan(i)
  PROVE  MediaInv'
<1> USE MediaAssumption DEF RemoveOrphan, MediaInv, putVars, Resting
<1>1. TypeOK'
  BY DEF TypeOK
<1>2. RowsFollowPuts'
  BY DEF TypeOK, RowsFollowPuts, PassFollowsPuts
<1>3. PassFollowsPuts'
  BY DEF TypeOK, RowsFollowPuts, PassFollowsPuts, UnderWay
<1>4. RowHasFile'
  BY DEF TypeOK, RowsFollowPuts, PassFollowsPuts, RowHasFile
<1>5. FailedPutIsClean'
  BY DEF TypeOK, RowsFollowPuts, FailedPutIsClean
<1> QED
  BY <1>1, <1>2, <1>3, <1>4, <1>5

LEMMA EndPassKeeps ==
  ASSUME MediaInv, EndPass
  PROVE  MediaInv'
<1> USE MediaAssumption DEF EndPass, MediaInv, putVars, Resting
<1>1. TypeOK'
  BY DEF TypeOK
<1>2. RowsFollowPuts'
  BY DEF TypeOK, RowsFollowPuts
<1>3. PassFollowsPuts'
  BY DEF TypeOK, RowsFollowPuts, PassFollowsPuts, UnderWay
<1>4. RowHasFile'
  BY DEF TypeOK, RowsFollowPuts, PassFollowsPuts, RowHasFile
<1>5. FailedPutIsClean'
  BY DEF TypeOK, RowsFollowPuts, FailedPutIsClean
<1> QED
  BY <1>1, <1>2, <1>3, <1>4, <1>5

LEMMA FailPassKeeps ==
  ASSUME MediaInv, FailPass
  PROVE  MediaInv'
<1> USE MediaAssumption DEF FailPass, MediaInv, putVars, Resting
<1>1. TypeOK'
  BY DEF TypeOK
<1>2. RowsFollowPuts'
  BY DEF TypeOK, RowsFollowPuts
<1>3. PassFollowsPuts'
  BY DEF TypeOK, RowsFollowPuts, PassFollowsPuts, UnderWay
<1>4. RowHasFile'
  BY DEF TypeOK, RowsFollowPuts, PassFollowsPuts, RowHasFile
<1>5. FailedPutIsClean'
  BY DEF TypeOK, RowsFollowPuts, FailedPutIsClean
<1> QED
  BY <1>1, <1>2, <1>3, <1>4, <1>5

LEMMA TickKeeps ==
  ASSUME MediaInv, Tick
  PROVE  MediaInv'
<1> USE MediaAssumption DEF Tick, MediaInv, putVars
<1>1. TypeOK'
  BY DEF TypeOK
<1>2. RowsFollowPuts'
  BY DEF TypeOK, RowsFollowPuts
<1>3. PassFollowsPuts'
  BY DEF TypeOK, RowsFollowPuts, PassFollowsPuts, UnderWay
<1>4. RowHasFile'
  BY DEF TypeOK, RowsFollowPuts, PassFollowsPuts, RowHasFile
<1>5. FailedPutIsClean'
  BY DEF TypeOK, RowsFollowPuts, FailedPutIsClean
<1> QED
  BY <1>1, <1>2, <1>3, <1>4, <1>5

-----------------------------------------------------------------------------

\* Every state of the store satisfies MediaInv.
THEOREM MediaInvariant == Spec => []MediaInv
<1>1. MediaInv /\ [Next]_vars => MediaInv'
  <2> SUFFICES ASSUME MediaInv, [Next]_vars
               PROVE  MediaInv'
    OBVIOUS
  <2>1. ASSUME NEW i \in Ids, NEW k \in Keys \cup {NoKey}, WriteTemporary(i, k)
        PROVE  MediaInv'
    BY <2>1, WriteTemporaryKeeps
  <2>2. ASSUME NEW i \in Ids, NEW k \in Keys \cup {NoKey}, FailToWrite(i, k)
        PROVE  MediaInv'
    BY <2>2, FailToWriteKeeps
  <2>3. ASSUME NEW i \in Ids, InsertRow(i)
        PROVE  MediaInv'
    BY <2>3, InsertRowKeeps
  <2>4. ASSUME NEW i \in Ids, MoveFile(i)
        PROVE  MediaInv'
    BY <2>4, MoveFileKeeps
  <2>5. ASSUME NEW i \in Ids, Commit(i)
        PROVE  MediaInv'
    BY <2>5, CommitKeeps
  <2>6. ASSUME NEW i \in Ids, Fail(i)
        PROVE  MediaInv'
    BY <2>6, FailKeeps
  <2>7. ASSUME NEW i \in Ids, LoseCommit(i)
        PROVE  MediaInv'
    BY <2>7, LoseCommitKeeps
  <2>8. ASSUME NEW i \in Ids, CleanUp(i)
        PROVE  MediaInv'
    BY <2>8, CleanUpKeeps
  <2>9. ASSUME NEW i \in Ids, FailToCleanUp(i)
        PROVE  MediaInv'
    BY <2>9, FailToCleanUpKeeps
  <2>10. ASSUME NEW i \in Ids, Crash(i)
         PROVE  MediaInv'
    BY <2>10, CrashKeeps
  <2>11. ASSUME NEW i \in Ids, Expire(i)
         PROVE  MediaInv'
    BY <2>11, ExpireKeeps
  <2>12. ASSUME NEW i \in Ids, MarkDeleted(i)
         PROVE  MediaInv'
    BY <2>12, MarkDeletedKeeps
  <2>13. ASSUME NEW i \in Ids, RemoveFile(i)
         PROVE  MediaInv'
    BY <2>13, RemoveFileKeeps
  <2>14. ASSUME NEW i \in Ids, CrashRemoval(i)
         PROVE  MediaInv'
    BY <2>14, CrashRemovalKeeps
  <2>15. CASE Pass
    <3>1. ASSUME NEW i \in Ids, RemoveOrphan(i)
          PROVE  MediaInv'
      BY <3>1, RemoveOrphanKeeps
    <3> QED
      BY <2>15, <3>1, ListFilesKeeps, LookForRowsKeeps, EndPassKeeps, FailPassKeeps
         DEF Pass
  <2>16. CASE Tick
    BY <2>16, TickKeeps
  <2>17. CASE UNCHANGED vars
    BY <2>17 DEF vars, putVars, MediaInv, TypeOK, RowsFollowPuts, PassFollowsPuts,
                 UnderWay, RowHasFile, FailedPutIsClean
  <2> QED
    BY <2>1, <2>2, <2>3, <2>4, <2>5, <2>6, <2>7, <2>8, <2>9, <2>10, <2>11, <2>12,
       <2>13, <2>14, <2>15, <2>16, <2>17 DEF Next
<1> QED
  BY <1>1, InitInv, PTL DEF Spec

\* A valid row whose commit was not taken for a failure has its file: no removal
\* and no pass over the files takes it away.
THEOREM ValidRowsHaveFiles == Spec => []RowHasFile
<1>1. MediaInv => RowHasFile
  BY DEF MediaInv
<1> QED
  BY <1>1, MediaInvariant, PTL

\* A put that came second, and one that failed after it had written its file, leave
\* no file behind if they could remove it; one that failed while it wrote leaves none
\* in its place, though perhaps a temporary one.
THEOREM FailedPutsAreClean == Spec => []FailedPutIsClean
<1>1. MediaInv => FailedPutIsClean
  BY DEF MediaInv
<1> QED
  BY <1>1, MediaInvariant, PTL

=============================================================================
