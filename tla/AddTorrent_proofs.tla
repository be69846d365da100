-------------------------- MODULE AddTorrent_proofs --------------------------
(***************************************************************************)
(* Proofs about AddTorrent, for every set of calls, URIs and hashes and    *)
(* any number of launches.  IInv (AddTorrent.tla) is inductive: one lemma  *)
(* per conjunct shows that every step keeps it, given the whole of IInv    *)
(* before the step.  Then: AddTorrent implements Adding.                   *)
(***************************************************************************)
EXTENDS AddTorrent, TLAPS

LEMMA InitIInv == Init => IInv
<1>. SUFFICES ASSUME Init PROVE IInv
  OBVIOUS
<1>. USE DEF Init, CoreInit
<1>1. TypeOK
  BY DEF TypeOK, CoreTypeOK, TaskState, CallState
<1>2. NothingBeforeStart /\ CallHasUri /\ CallHasTask /\ EntryHasCall
  BY DEF NothingBeforeStart, CallHasUri, CallHasTask, EntryHasCall, Finished
<1>3. OwnerKnown /\ IdsOwned /\ IdsBelowNext /\ PreferredFresh /\ TorrentIdsUnique
  BY DEF OwnerKnown, IdsOwned, UndoOnlyOwn, IdsBelowNext, PreferredFresh, TorrentIdsUnique
<1>4. NoOrphan /\ OnePendingPerHash /\ DiskMatchesPending
  BY DEF NoOrphan, OnePendingPerHash, DiskMatchesPending
<1>. QED
  BY <1>1, <1>2, <1>3, <1>4 DEF IInv

(***************************************************************************)
(* Type correctness, one step per action.                                  *)
(***************************************************************************)

LEMMA TypeStep == IInv /\ [Next]_vars => TypeOK'
<1>. SUFFICES ASSUME TypeOK, CallHasUri, CallHasTask, EntryHasCall, [Next]_vars PROVE TypeOK'
  BY DEF IInv
<1>. USE UriAssumption, NoIdAssumption, SentinelAssumption
<1>. USE DEF TypeOK, CoreTypeOK, TaskState, Running, Finished, CallState, InFFI, Settled,
             Removal, Torrent
<1>1. CASE StartEngine \/ EngineFailed
  BY <1>1 DEF StartEngine, EngineFailed, coreVars, storeVars, history
<1>2. CASE EngineStarted
  BY <1>2 DEF EngineStarted, CoreStart, FirstFreeIds, storeVars, history
<1>3. ASSUME NEW e \in Token, FfiSpawn(e) \/ FfiRegister(e) \/ FfiReturn(e) PROVE TypeOK'
  BY <1>3 DEF FfiSpawn, Spawn, FfiRegister, FfiReturn, coreVars, storeVars, history
<1>4. ASSUME NEW e \in Token, TaskStep(e) \/ AbortLands(e) PROVE TypeOK'
  <2>0. UNCHANGED <<appVars, storeVars, history>>
    BY <1>4 DEF TaskStep, AbortLands
  <2>1. CASE TaskCheck(e, uriOf[e])
    BY <2>0, <2>1 DEF TaskCheck, TakeId, AnswerManaged, Managing, appVars, storeVars, history
  <2>2. CASE TaskListed(e)
    BY <2>0, <2>2 DEF TaskListed, TakeId, appVars, storeVars, history
  <2>3. CASE TaskInsert(e, uriOf[e])
    <3>1. uriOf[e] \in Uri /\ taskID[e] \in Nat
      BY <2>3 DEF TaskInsert, CallHasUri, CallHasTask
    <3>2. CASE Managing(HashOf[uriOf[e]]) # {}
      BY <2>0, <2>3, <3>2 DEF TaskInsert, AnswerManaged, Managing, appVars, storeVars, history
    <3>3. CASE Managing(HashOf[uriOf[e]]) = {}
      BY <2>0, <2>3, <3>1, <3>3 DEF TaskInsert, appVars, storeVars, history
    <3>. QED
      BY <3>2, <3>3
  <2>4. CASE TaskFail(e) \/ TaskAborted(e)
    BY <2>0, <2>4 DEF TaskFail, TaskAborted, appVars, storeVars, history
  <2>. QED BY <1>4, <2>1, <2>2, <2>3, <2>4 DEF TaskStep, AbortLands
<1>5. ASSUME NEW r \in removals, RemoveDone(r) \/ RemoveRefused(r) PROVE TypeOK'
  <2>1. CASE RemoveDone(r)
    BY <2>1 DEF RemoveDone, Delete, coreVars, appVars, history
  <2>2. CASE RemoveRefused(r)
    BY <2>2 DEF RemoveRefused, coreVars, appVars
  <2>. QED
    BY <1>5, <2>1, <2>2
<1>6. ASSUME NEW u \in Uri, AddBeforeStart(u) \/ AddRefused(u) \/ OpenUri(u) PROVE TypeOK'
  BY <1>6 DEF AddBeforeStart, AddRefused, OpenUri, BeginTask, coreVars, storeVars, history
<1>7. ASSUME NEW u \in Uri, NEW e \in Token, AddBegin(u, e) PROVE TypeOK'
  BY <1>7 DEF AddBegin, BeginTask, Persist, Unresolved, EntryHasCall, CallHasUri,
              coreVars, storeVars, history
<1>8. ASSUME NEW e \in Token, Resume(e) PROVE TypeOK'
  <2>. USE <1>8 DEF Resume
  <2>1. CASE ResumeCancelled(e)
    BY <2>1 DEF ResumeCancelled, MustUndo, Release, Persist, Unresolved, EntryHasCall, CallHasUri,
                CallHasTask, history
  <2>2. CASE ResumeAdded(e)
    BY <2>2 DEF ResumeAdded, Release, Persist, Unresolved, EntryHasCall, CallHasUri, history
  <2>3. CASE ResumeManaged(e) \/ ResumeFailed(e)
    BY <2>3 DEF ResumeManaged, ResumeFailed, Discard, Release, Persist, Unresolved, EntryHasCall,
                CallHasUri, history
  <2>. QED
    BY <2>1, <2>2, <2>3
<1>9. ASSUME NEW e \in Token, UndoReturns(e) PROVE TypeOK'
  BY <1>9 DEF UndoReturns, Persist, Unresolved, EntryHasCall, CallHasUri,
             coreVars, storeVars, history
<1>10. ASSUME NEW e \in Token, CancelPending(e) PROVE TypeOK'
  BY <1>10 DEF CancelPending, CancelAdd, Abort, Discard, Persist, Unresolved, EntryHasCall,
               CallHasUri, coreVars
<1>11. CASE PollList \/ PollApply
  <2>1. CASE PollList
    BY <2>1 DEF PollList, TorrentIDs, coreVars, appVars, history
  <2>2. CASE PollApply
    BY <2>2 DEF PollApply, Reconcile, Discard, coreVars, history
  <2>. QED
    BY <1>11, <2>1, <2>2
<1>12. ASSUME NEW id \in rows, UserRemove(id) PROVE TypeOK'
  BY <1>12 DEF UserRemove, coreVars, appVars, history
<1>13. CASE Crash
  BY <1>13 DEF Crash, CoreCrash
<1>14. CASE UNCHANGED vars
  BY <1>14, SMTT(60) DEF vars, coreVars, appVars, storeVars, history
<1>. QED
  BY <1>1, <1>2, <1>3, <1>4, <1>5, <1>6, <1>7, <1>8, <1>9, <1>10, <1>11, <1>12, <1>13, <1>14
     DEF Next, Engine, MainActor, UserAction

(***************************************************************************)
(* IInv is inductive: one step per action (per outcome where an action has *)
(* several), under it the conjuncts about calls, about ids, and about what *)
(* the user sees.                                                          *)
(***************************************************************************)

LEMMA NextIInv == IInv /\ [Next]_vars => IInv'
<1>. SUFFICES ASSUME IInv, TypeOK', [Next]_vars PROVE IInv'
  BY TypeStep
<1>. USE UriAssumption, NoIdAssumption, SentinelAssumption
<1>. USE DEF IInv, TypeOK, CoreTypeOK, Running, Finished, InFFI, Settled, TorrentIDs, Removal,
             Torrent, coreVars, appVars, storeVars, history
<1>1. CASE StartEngine \/ EngineFailed
  <2>1. NothingBeforeStart' /\ CallHasUri' /\ CallHasTask' /\ EntryHasCall'
    BY <1>1 DEF StartEngine, EngineFailed, NothingBeforeStart, CallHasUri, CallHasTask,
           EntryHasCall
  <2>2. OwnerKnown' /\ IdsOwned' /\ IdsBelowNext' /\ PreferredFresh' /\ TorrentIdsUnique'
    BY <1>1 DEF StartEngine, EngineFailed, OwnerKnown, IdsOwned, UndoOnlyOwn, IdsBelowNext,
           PreferredFresh, TorrentIdsUnique
  <2>3. NoOrphan' /\ OnePendingPerHash' /\ DiskMatchesPending'
    BY <1>1 DEF StartEngine, EngineFailed, NoOrphan, BeingUndone, OnePendingPerHash,
           DiskMatchesPending, SavedURIs, Unresolved
  <2>. QED
    BY <2>1, <2>2, <2>3 DEF IInv
\* The counter starts above every persisted id.
<1>2. CASE EngineStarted
  <2>1. NothingBeforeStart' /\ CallHasUri' /\ CallHasTask' /\ EntryHasCall'
    BY <1>2 DEF EngineStarted, CoreStart, FirstFreeIds, NothingBeforeStart, CallHasUri,
           CallHasTask, EntryHasCall
  <2>2. OwnerKnown' /\ IdsOwned' /\ PreferredFresh' /\ TorrentIdsUnique'
    BY <1>2 DEF EngineStarted, CoreStart, FirstFreeIds, OwnerKnown, IdsOwned, UndoOnlyOwn,
           PreferredFresh, TorrentIdsUnique
  <2>3. IdsBelowNext'
    BY <1>2 DEF EngineStarted, CoreStart, FirstFreeIds, IdsBelowNext, NothingBeforeStart,
           CallHasTask, EntryHasCall
  <2>4. NoOrphan' /\ OnePendingPerHash'
    BY <1>2 DEF EngineStarted, CoreStart, FirstFreeIds, NoOrphan, BeingUndone,
           OnePendingPerHash
  <2>5. DiskMatchesPending'
    BY <1>2 DEF EngineStarted, CoreStart, FirstFreeIds, DiskMatchesPending, SavedURIs,
           Unresolved, NothingBeforeStart
  <2>. QED
    BY <2>1, <2>2, <2>3, <2>4, <2>5 DEF IInv
<1>3. ASSUME NEW e \in Token, FfiSpawn(e) PROVE IInv'
  <2>1. NothingBeforeStart' /\ CallHasUri' /\ CallHasTask' /\ EntryHasCall'
    BY <1>3 DEF FfiSpawn, Spawn, NothingBeforeStart, CallHasUri, CallHasTask, EntryHasCall
  <2>2. OwnerKnown' /\ IdsOwned' /\ IdsBelowNext' /\ PreferredFresh' /\ TorrentIdsUnique'
    BY <1>3 DEF FfiSpawn, Spawn, OwnerKnown, IdsOwned, UndoOnlyOwn, IdsBelowNext,
           PreferredFresh, TorrentIdsUnique
  <2>3. NoOrphan' /\ OnePendingPerHash' /\ DiskMatchesPending'
    BY <1>3 DEF FfiSpawn, Spawn, NoOrphan, BeingUndone, OnePendingPerHash,
           DiskMatchesPending, SavedURIs, Unresolved
  <2>. QED
    BY <2>1, <2>2, <2>3 DEF IInv
<1>4. ASSUME NEW e \in Token, FfiRegister(e) \/ FfiReturn(e) PROVE IInv'
  <2>1. NothingBeforeStart' /\ CallHasUri' /\ CallHasTask' /\ EntryHasCall'
    BY <1>4 DEF FfiRegister, FfiReturn, NothingBeforeStart, CallHasUri, CallHasTask,
           EntryHasCall
  <2>2. OwnerKnown' /\ IdsOwned' /\ IdsBelowNext' /\ PreferredFresh' /\ TorrentIdsUnique'
    BY <1>4 DEF FfiRegister, FfiReturn, OwnerKnown, IdsOwned, UndoOnlyOwn, IdsBelowNext,
           PreferredFresh, TorrentIdsUnique
  <2>3. NoOrphan' /\ OnePendingPerHash' /\ DiskMatchesPending'
    BY <1>4 DEF FfiRegister, FfiReturn, NoOrphan, BeingUndone, OnePendingPerHash,
           DiskMatchesPending, SavedURIs, Unresolved
  <2>. QED
    BY <2>1, <2>2, <2>3 DEF IInv
<1>5. ASSUME NEW e \in Token, TaskCheck(e, uriOf[e]),
            UNCHANGED <<appVars, storeVars, history>>
     PROVE  IInv'
  <2>1. NothingBeforeStart' /\ CallHasUri' /\ CallHasTask' /\ EntryHasCall'
    BY <1>5 DEF TaskCheck, TakeId, AnswerManaged, Managing, NothingBeforeStart, CallHasUri,
           CallHasTask, EntryHasCall
  <2>2. OwnerKnown' /\ IdsOwned' /\ TorrentIdsUnique'
    BY <1>5 DEF TaskCheck, TakeId, AnswerManaged, Managing, OwnerKnown, IdsOwned,
           UndoOnlyOwn, TorrentIdsUnique
  <2>3. IdsBelowNext'
    BY <1>5 DEF TaskCheck, TakeId, AnswerManaged, Managing, IdsBelowNext, CallHasTask
  <2>4. PreferredFresh'
    BY <1>5 DEF TaskCheck, TakeId, AnswerManaged, Managing, PreferredFresh, IdsBelowNext,
           CallHasTask, NothingBeforeStart
  <2>5. NoOrphan' /\ OnePendingPerHash' /\ DiskMatchesPending'
    BY <1>5 DEF TaskCheck, TakeId, AnswerManaged, Managing, NoOrphan, BeingUndone,
           OnePendingPerHash, DiskMatchesPending, SavedURIs, Unresolved
  <2>. QED
    BY <2>1, <2>2, <2>3, <2>4, <2>5 DEF IInv
<1>6. ASSUME NEW e \in Token, TaskListed(e),
            UNCHANGED <<appVars, storeVars, history>>
     PROVE  IInv'
  <2>1. NothingBeforeStart' /\ CallHasUri' /\ CallHasTask' /\ EntryHasCall'
    BY <1>6 DEF TaskListed, TakeId, NothingBeforeStart, CallHasUri, CallHasTask,
           EntryHasCall
  <2>2. OwnerKnown' /\ IdsOwned' /\ TorrentIdsUnique'
    BY <1>6 DEF TaskListed, TakeId, OwnerKnown, IdsOwned, UndoOnlyOwn, TorrentIdsUnique
  <2>3. IdsBelowNext'
    BY <1>6 DEF TaskListed, TakeId, IdsBelowNext, CallHasTask
  <2>4. PreferredFresh'
    BY <1>6 DEF TaskListed, TakeId, PreferredFresh, IdsBelowNext, CallHasTask,
           NothingBeforeStart
  <2>5. NoOrphan' /\ OnePendingPerHash' /\ DiskMatchesPending'
    BY <1>6 DEF TaskListed, TakeId, NoOrphan, BeingUndone, OnePendingPerHash,
           DiskMatchesPending, SavedURIs, Unresolved
  <2>. QED
    BY <2>1, <2>2, <2>3, <2>4, <2>5 DEF IInv
\* The inserted id was fresh, and the call that holds it is still in the FFI.
<1>7. ASSUME NEW e \in Token, TaskInsert(e, uriOf[e]),
            UNCHANGED <<appVars, storeVars, history>>
     PROVE  IInv'
  <2>1. NothingBeforeStart' /\ CallHasUri' /\ CallHasTask' /\ EntryHasCall'
    BY <1>7 DEF TaskInsert, AnswerManaged, Managing, NothingBeforeStart, CallHasUri,
           CallHasTask, EntryHasCall
  <2>2. IdsBelowNext' /\ PreferredFresh'
    BY <1>7 DEF TaskInsert, AnswerManaged, Managing, IdsBelowNext, PreferredFresh
  <2>3. OwnerKnown'
    BY <1>7 DEF TaskInsert, AnswerManaged, Managing, OwnerKnown, CallHasTask, EntryHasCall
  <2>4. IdsOwned'
    BY <1>7 DEF TaskInsert, AnswerManaged, Managing, IdsOwned, UndoOnlyOwn, PreferredFresh
  <2>5. TorrentIdsUnique'
    BY <1>7 DEF TaskInsert, AnswerManaged, Managing, TorrentIdsUnique, PreferredFresh
  <2>6. OnePendingPerHash' /\ DiskMatchesPending'
    BY <1>7 DEF TaskInsert, AnswerManaged, Managing, OnePendingPerHash, DiskMatchesPending,
           SavedURIs, Unresolved
  <2>7. NoOrphan'
    BY <1>7 DEF TaskInsert, AnswerManaged, Managing, NoOrphan, BeingUndone, CallHasTask
  <2>. QED
    BY <2>1, <2>2, <2>3, <2>4, <2>5, <2>6, <2>7 DEF IInv
<1>8. ASSUME NEW e \in Token, TaskFail(e) \/ TaskAborted(e),
            UNCHANGED <<appVars, storeVars, history>>
     PROVE  IInv'
  <2>1. NothingBeforeStart' /\ CallHasUri' /\ CallHasTask' /\ EntryHasCall'
    BY <1>8 DEF TaskFail, TaskAborted, NothingBeforeStart, CallHasUri, CallHasTask,
           EntryHasCall
  <2>2. OwnerKnown' /\ IdsOwned' /\ IdsBelowNext' /\ PreferredFresh' /\ TorrentIdsUnique'
    BY <1>8 DEF TaskFail, TaskAborted, OwnerKnown, IdsOwned, UndoOnlyOwn, IdsBelowNext,
           PreferredFresh, TorrentIdsUnique
  <2>3. NoOrphan' /\ OnePendingPerHash' /\ DiskMatchesPending'
    BY <1>8 DEF TaskFail, TaskAborted, NoOrphan, BeingUndone, OnePendingPerHash,
           DiskMatchesPending, SavedURIs, Unresolved
  <2>. QED
    BY <2>1, <2>2, <2>3 DEF IInv
<1>9. ASSUME NEW r \in removals, RemoveDone(r) PROVE IInv'
  <2>1. NothingBeforeStart' /\ CallHasUri' /\ CallHasTask' /\ EntryHasCall'
    BY <1>9 DEF RemoveDone, Delete, NothingBeforeStart, CallHasUri, CallHasTask,
           EntryHasCall
  <2>2. OwnerKnown' /\ IdsOwned' /\ IdsBelowNext' /\ PreferredFresh' /\ TorrentIdsUnique'
    BY <1>9 DEF RemoveDone, Delete, OwnerKnown, IdsOwned, UndoOnlyOwn, IdsBelowNext,
           PreferredFresh, TorrentIdsUnique
  <2>3. NoOrphan' /\ OnePendingPerHash' /\ DiskMatchesPending'
    BY <1>9 DEF RemoveDone, Delete, NoOrphan, BeingUndone, OnePendingPerHash,
           DiskMatchesPending, SavedURIs, Unresolved
  <2>. QED
    BY <2>1, <2>2, <2>3 DEF IInv
<1>10. ASSUME NEW r \in removals, RemoveRefused(r) PROVE IInv'
  <2>1. NothingBeforeStart' /\ CallHasUri' /\ CallHasTask' /\ EntryHasCall'
    BY <1>10 DEF RemoveRefused, NothingBeforeStart, CallHasUri, CallHasTask, EntryHasCall
  <2>2. OwnerKnown' /\ IdsOwned' /\ IdsBelowNext' /\ PreferredFresh' /\ TorrentIdsUnique'
    BY <1>10 DEF RemoveRefused, OwnerKnown, IdsOwned, UndoOnlyOwn, IdsBelowNext,
           PreferredFresh, TorrentIdsUnique
  <2>3. NoOrphan' /\ OnePendingPerHash' /\ DiskMatchesPending'
    BY <1>10 DEF RemoveRefused, NoOrphan, BeingUndone, OnePendingPerHash,
           DiskMatchesPending, SavedURIs, Unresolved
  <2>. QED
    BY <2>1, <2>2, <2>3 DEF IInv
<1>11. ASSUME NEW u \in Uri, AddBeforeStart(u) \/ OpenUri(u) PROVE IInv'
  <2>1. NothingBeforeStart' /\ CallHasUri' /\ CallHasTask' /\ EntryHasCall'
    BY <1>11 DEF AddBeforeStart, OpenUri, BeginTask, NothingBeforeStart, CallHasUri,
           CallHasTask, EntryHasCall
  <2>2. OwnerKnown' /\ IdsOwned' /\ IdsBelowNext' /\ PreferredFresh' /\ TorrentIdsUnique'
    BY <1>11 DEF AddBeforeStart, OpenUri, BeginTask, OwnerKnown, IdsOwned, UndoOnlyOwn,
           IdsBelowNext, PreferredFresh, TorrentIdsUnique
  <2>3. NoOrphan' /\ OnePendingPerHash' /\ DiskMatchesPending'
    BY <1>11 DEF AddBeforeStart, OpenUri, BeginTask, NoOrphan, BeingUndone,
           OnePendingPerHash, DiskMatchesPending, SavedURIs, Unresolved
  <2>. QED
    BY <2>1, <2>2, <2>3 DEF IInv
<1>12. ASSUME NEW u \in Uri, AddRefused(u) PROVE IInv'
  <2>1. NothingBeforeStart' /\ CallHasUri' /\ CallHasTask' /\ EntryHasCall'
    BY <1>12 DEF AddRefused, BeginTask, Duplicates, NothingBeforeStart, CallHasUri,
           CallHasTask, EntryHasCall
  <2>2. OwnerKnown' /\ IdsOwned' /\ IdsBelowNext' /\ PreferredFresh' /\ TorrentIdsUnique'
    BY <1>12 DEF AddRefused, BeginTask, Duplicates, OwnerKnown, IdsOwned, UndoOnlyOwn,
           IdsBelowNext, PreferredFresh, TorrentIdsUnique
  <2>3. NoOrphan' /\ OnePendingPerHash' /\ DiskMatchesPending'
    BY <1>12 DEF AddRefused, BeginTask, Duplicates, NoOrphan, BeingUndone,
           OnePendingPerHash, DiskMatchesPending, SavedURIs, Unresolved
  <2>. QED
    BY <2>1, <2>2, <2>3 DEF IInv
<1>13. ASSUME NEW u \in Uri, NEW e \in Token, AddBegin(u, e) PROVE IInv'
  <2>1. NothingBeforeStart' /\ CallHasUri' /\ CallHasTask'
    BY <1>13 DEF AddBegin, BeginTask, Duplicates, Persist, Unresolved, NothingBeforeStart,
           CallHasUri, CallHasTask
  <2>2. EntryHasCall'
    BY <1>13 DEF AddBegin, BeginTask, Duplicates, Persist, Unresolved, EntryHasCall
  <2>3. OwnerKnown' /\ IdsOwned' /\ IdsBelowNext' /\ PreferredFresh' /\ TorrentIdsUnique'
    BY <1>13 DEF AddBegin, BeginTask, Duplicates, Persist, Unresolved, OwnerKnown, IdsOwned,
           UndoOnlyOwn, IdsBelowNext, PreferredFresh, TorrentIdsUnique
  <2>4. NoOrphan' /\ OnePendingPerHash' /\ DiskMatchesPending'
    BY <1>13 DEF AddBegin, BeginTask, Duplicates, Persist, Unresolved, NoOrphan,
           BeingUndone, OnePendingPerHash, DiskMatchesPending, SavedURIs
  <2>. QED
    BY <2>1, <2>2, <2>3, <2>4 DEF IInv
\* The compensating remove takes over from the call.
<1>14. ASSUME NEW e \in Token, Resume(e), ResumeCancelled(e) PROVE IInv'
  <2>1. NothingBeforeStart' /\ CallHasUri' /\ CallHasTask' /\ EntryHasCall'
    BY <1>14 DEF Resume, ResumeCancelled, MustUndo, Release, Persist, Unresolved,
           NothingBeforeStart, CallHasUri, CallHasTask, EntryHasCall
  <2>2. OwnerKnown' /\ IdsOwned' /\ IdsBelowNext' /\ PreferredFresh' /\ TorrentIdsUnique'
    BY <1>14 DEF Resume, ResumeCancelled, MustUndo, Release, Persist, Unresolved,
           OwnerKnown, IdsOwned, UndoOnlyOwn, IdsBelowNext, PreferredFresh, TorrentIdsUnique
  <2>3. OnePendingPerHash' /\ DiskMatchesPending'
    BY <1>14 DEF Resume, ResumeCancelled, MustUndo, Release, Persist, Unresolved,
           OnePendingPerHash, DiskMatchesPending, SavedURIs
  <2>4. NoOrphan'
    BY <1>14 DEF Resume, ResumeCancelled, MustUndo, Release, Persist, Unresolved, NoOrphan,
           BeingUndone, OwnerKnown
  <2>. QED
    BY <2>1, <2>2, <2>3, <2>4 DEF IInv
<1>15. ASSUME NEW e \in Token, Resume(e), ResumeAdded(e) PROVE IInv'
  <2>1. NothingBeforeStart' /\ CallHasUri' /\ CallHasTask'
    BY <1>15 DEF Resume, ResumeAdded, Release, Persist, Unresolved, NothingBeforeStart,
           CallHasUri, CallHasTask
  <2>2. EntryHasCall'
    BY <1>15 DEF Resume, ResumeAdded, Release, Persist, Unresolved, EntryHasCall,
           CallHasTask
  <2>3. OwnerKnown' /\ IdsOwned' /\ IdsBelowNext' /\ PreferredFresh' /\ TorrentIdsUnique'
    BY <1>15 DEF Resume, ResumeAdded, Release, Persist, Unresolved, OwnerKnown, IdsOwned,
           UndoOnlyOwn, IdsBelowNext, PreferredFresh, TorrentIdsUnique
  <2>4. OnePendingPerHash' /\ DiskMatchesPending'
    BY <1>15 DEF Resume, ResumeAdded, Release, Persist, Unresolved, OnePendingPerHash,
           DiskMatchesPending, SavedURIs
  <2>5. NoOrphan'
    BY <1>15 DEF Resume, ResumeAdded, Release, Persist, Unresolved, NoOrphan, BeingUndone,
           EntryHasCall
  <2>. QED
    BY <2>1, <2>2, <2>3, <2>4, <2>5 DEF IInv
<1>16. ASSUME NEW e \in Token, Resume(e), ResumeManaged(e) \/ ResumeFailed(e), task[e] # "added"
      PROVE  IInv'
  <2>1. NothingBeforeStart' /\ CallHasUri' /\ CallHasTask' /\ EntryHasCall'
    BY <1>16 DEF Resume, ResumeManaged, ResumeFailed, Discard, Release, Persist, Unresolved,
           NothingBeforeStart, CallHasUri, CallHasTask, EntryHasCall
  <2>2. OwnerKnown' /\ IdsOwned' /\ IdsBelowNext' /\ TorrentIdsUnique'
    BY <1>16 DEF Resume, ResumeManaged, ResumeFailed, Discard, Release, Persist, Unresolved,
           OwnerKnown, IdsOwned, UndoOnlyOwn, IdsBelowNext, TorrentIdsUnique
  <2>3. PreferredFresh'
    BY <1>16 DEF Resume, ResumeManaged, ResumeFailed, Discard, Release, Persist, Unresolved,
           PreferredFresh, CallHasTask
  <2>4. OnePendingPerHash' /\ DiskMatchesPending'
    BY <1>16 DEF Resume, ResumeManaged, ResumeFailed, Discard, Release, Persist, Unresolved,
           OnePendingPerHash, DiskMatchesPending, SavedURIs
  <2>5. NoOrphan'
    BY <1>16 DEF Resume, ResumeManaged, ResumeFailed, Discard, Release, Persist, Unresolved,
           NoOrphan, BeingUndone, OwnerKnown
  <2>. QED
    BY <2>1, <2>2, <2>3, <2>4, <2>5 DEF IInv
<1>17. ASSUME NEW e \in Token, UndoReturns(e) PROVE IInv'
  <2>1. NothingBeforeStart' /\ CallHasUri' /\ CallHasTask' /\ EntryHasCall'
    BY <1>17 DEF UndoReturns, Persist, Unresolved, NothingBeforeStart, CallHasUri,
           CallHasTask, EntryHasCall
  <2>2. OwnerKnown' /\ IdsOwned' /\ IdsBelowNext' /\ PreferredFresh' /\ TorrentIdsUnique'
    BY <1>17 DEF UndoReturns, Persist, Unresolved, OwnerKnown, IdsOwned, UndoOnlyOwn,
           IdsBelowNext, PreferredFresh, TorrentIdsUnique
  <2>3. NoOrphan' /\ OnePendingPerHash' /\ DiskMatchesPending'
    BY <1>17 DEF UndoReturns, Persist, Unresolved, NoOrphan, BeingUndone, OnePendingPerHash,
           DiskMatchesPending, SavedURIs
  <2>. QED
    BY <2>1, <2>2, <2>3 DEF IInv
\* The entry has its id: the remove is issued here.
<1>18. ASSUME NEW e \in Token, CancelPending(e), torrentID[e] # NoId PROVE IInv'
  <2>1. NothingBeforeStart' /\ CallHasUri' /\ CallHasTask' /\ EntryHasCall'
    BY <1>18 DEF CancelPending, Discard, Persist, Unresolved, NothingBeforeStart,
           CallHasUri, CallHasTask, EntryHasCall
  <2>2. OwnerKnown' /\ IdsBelowNext' /\ TorrentIdsUnique'
    BY <1>18 DEF CancelPending, Discard, Persist, Unresolved, OwnerKnown, IdsBelowNext,
           TorrentIdsUnique
  <2>3. IdsOwned'
    BY <1>18 DEF CancelPending, Discard, Persist, Unresolved, IdsOwned, UndoOnlyOwn,
           EntryHasCall
  <2>4. PreferredFresh'
    BY <1>18 DEF CancelPending, Discard, Persist, Unresolved, PreferredFresh, EntryHasCall,
           CallHasTask, IdsOwned
  <2>5. OnePendingPerHash' /\ DiskMatchesPending'
    BY <1>18 DEF CancelPending, Discard, Persist, Unresolved, OnePendingPerHash,
           DiskMatchesPending, SavedURIs
  <2>6. NoOrphan'
    BY <1>18 DEF CancelPending, Discard, Persist, Unresolved, NoOrphan, BeingUndone,
           EntryHasCall, OwnerKnown, CallHasTask
  <2>. QED
    BY <2>1, <2>2, <2>3, <2>4, <2>5, <2>6 DEF IInv
\* The entry has no id: the call itself will undo what it inserts.
<1>19. ASSUME NEW e \in Token, CancelPending(e), torrentID[e] = NoId PROVE IInv'
  <2>1. NothingBeforeStart' /\ CallHasUri' /\ CallHasTask' /\ EntryHasCall'
    BY <1>19 DEF CancelPending, CancelAdd, Abort, Discard, Persist, Unresolved,
           NothingBeforeStart, CallHasUri, CallHasTask, EntryHasCall
  <2>2. OwnerKnown' /\ IdsBelowNext' /\ TorrentIdsUnique'
    BY <1>19 DEF CancelPending, CancelAdd, Abort, Discard, Persist, Unresolved, OwnerKnown,
           IdsBelowNext, TorrentIdsUnique
  <2>3. IdsOwned'
    BY <1>19 DEF CancelPending, CancelAdd, Abort, Discard, Persist, Unresolved, IdsOwned,
           UndoOnlyOwn, EntryHasCall
  <2>4. PreferredFresh'
    BY <1>19 DEF CancelPending, CancelAdd, Abort, Discard, Persist, Unresolved,
           PreferredFresh, EntryHasCall, CallHasTask, IdsOwned
  <2>5. OnePendingPerHash' /\ DiskMatchesPending'
    BY <1>19 DEF CancelPending, CancelAdd, Abort, Discard, Persist, Unresolved,
           OnePendingPerHash, DiskMatchesPending, SavedURIs
  <2>6. NoOrphan'
    BY <1>19 DEF CancelPending, CancelAdd, Abort, Discard, Persist, Unresolved, NoOrphan,
           BeingUndone, EntryHasCall, OwnerKnown, CallHasTask
  <2>. QED
    BY <2>1, <2>2, <2>3, <2>4, <2>5, <2>6 DEF IInv
<1>20. CASE PollList
  <2>1. NothingBeforeStart' /\ CallHasUri' /\ CallHasTask' /\ EntryHasCall'
    BY <1>20 DEF PollList, NothingBeforeStart, CallHasUri, CallHasTask, EntryHasCall
  <2>2. OwnerKnown' /\ IdsOwned' /\ IdsBelowNext' /\ PreferredFresh' /\ TorrentIdsUnique'
    BY <1>20 DEF PollList, OwnerKnown, IdsOwned, UndoOnlyOwn, IdsBelowNext, PreferredFresh,
           TorrentIdsUnique
  <2>3. NoOrphan' /\ OnePendingPerHash' /\ DiskMatchesPending'
    BY <1>20 DEF PollList, NoOrphan, BeingUndone, OnePendingPerHash, DiskMatchesPending,
           SavedURIs, Unresolved
  <2>. QED
    BY <2>1, <2>2, <2>3 DEF IInv
<1>21. CASE PollApply
  <2>1. NothingBeforeStart' /\ CallHasUri' /\ CallHasTask' /\ EntryHasCall'
    BY <1>21 DEF PollApply, Reconcile, Discard, NothingBeforeStart, CallHasUri, CallHasTask,
           EntryHasCall
  <2>2. OwnerKnown' /\ IdsOwned' /\ IdsBelowNext' /\ TorrentIdsUnique'
    BY <1>21 DEF PollApply, Reconcile, Discard, OwnerKnown, IdsOwned, UndoOnlyOwn,
           IdsBelowNext, TorrentIdsUnique
  <2>3. PreferredFresh'
    BY <1>21 DEF PollApply, Reconcile, Discard, PreferredFresh, CallHasTask
  <2>4. NoOrphan' /\ OnePendingPerHash' /\ DiskMatchesPending'
    BY <1>21 DEF PollApply, Reconcile, Discard, NoOrphan, BeingUndone, OnePendingPerHash,
           DiskMatchesPending, SavedURIs, Unresolved
  <2>. QED
    BY <2>1, <2>2, <2>3, <2>4 DEF IInv
<1>22. ASSUME NEW id \in rows, UserRemove(id) PROVE IInv'
  <2>1. NothingBeforeStart' /\ CallHasUri' /\ CallHasTask' /\ EntryHasCall'
    BY <1>22 DEF UserRemove, NothingBeforeStart, CallHasUri, CallHasTask, EntryHasCall
  <2>2. OwnerKnown' /\ IdsOwned' /\ IdsBelowNext' /\ PreferredFresh' /\ TorrentIdsUnique'
    BY <1>22 DEF UserRemove, OwnerKnown, IdsOwned, UndoOnlyOwn, IdsBelowNext,
           PreferredFresh, TorrentIdsUnique
  <2>3. NoOrphan' /\ OnePendingPerHash' /\ DiskMatchesPending'
    BY <1>22 DEF UserRemove, NoOrphan, BeingUndone, OnePendingPerHash, DiskMatchesPending,
           SavedURIs, Unresolved
  <2>. QED
    BY <2>1, <2>2, <2>3 DEF IInv
\* Only the table and the saved URIs outlive the process.
<1>23. CASE Crash
  <2>1. NothingBeforeStart' /\ CallHasUri' /\ CallHasTask' /\ EntryHasCall'
    BY <1>23 DEF Crash, CoreCrash, NothingBeforeStart, CallHasUri, CallHasTask, EntryHasCall
  <2>2. IdsOwned' /\ IdsBelowNext' /\ PreferredFresh' /\ TorrentIdsUnique'
    BY <1>23 DEF Crash, CoreCrash, IdsOwned, UndoOnlyOwn, IdsBelowNext, PreferredFresh,
           TorrentIdsUnique
  <2>3. OwnerKnown'
    BY <1>23 DEF Crash, CoreCrash, OwnerKnown, CallHasTask
  <2>4. NoOrphan' /\ OnePendingPerHash' /\ DiskMatchesPending'
    BY <1>23 DEF Crash, CoreCrash, NoOrphan, BeingUndone, OnePendingPerHash,
           DiskMatchesPending, SavedURIs, Unresolved
  <2>. QED
    BY <2>1, <2>2, <2>3, <2>4 DEF IInv
<1>24. CASE UNCHANGED vars
  <2>1. NothingBeforeStart' /\ CallHasUri' /\ CallHasTask' /\ EntryHasCall'
    BY <1>24 DEF vars, NothingBeforeStart, CallHasUri, CallHasTask, EntryHasCall
  <2>2. OwnerKnown' /\ IdsOwned' /\ IdsBelowNext' /\ PreferredFresh' /\ TorrentIdsUnique'
    BY <1>24 DEF vars, OwnerKnown, IdsOwned, UndoOnlyOwn, IdsBelowNext, PreferredFresh,
           TorrentIdsUnique
  <2>3. NoOrphan' /\ OnePendingPerHash' /\ DiskMatchesPending'
    BY <1>24 DEF vars, NoOrphan, BeingUndone, OnePendingPerHash, DiskMatchesPending,
           SavedURIs, Unresolved
  <2>. QED
    BY <2>1, <2>2, <2>3 DEF IInv
<1>25. CASE \E e \in Token : TaskStep(e) \/ AbortLands(e)
  BY <1>5, <1>6, <1>7, <1>8, <1>25 DEF TaskStep, AbortLands
<1>26. CASE \E e \in Token : Resume(e)
  BY <1>26, <1>14, <1>15, <1>16 DEF Resume, ResumeManaged
<1>. QED
  BY <1>1, <1>2, <1>3, <1>4, <1>5, <1>6, <1>7, <1>8, <1>9, <1>10, <1>11, <1>12, <1>13,
         <1>14, <1>15, <1>16, <1>17, <1>18, <1>19, <1>20, <1>21, <1>22, <1>23, <1>24, <1>25,
         <1>26
     DEF Next, Engine, MainActor, UserAction

(***************************************************************************)
(* The theorems.                                                           *)
(***************************************************************************)

\* The inductive invariant holds in every reachable state.
THEOREM Invariance == Spec => []IInv
<1>. QED
  BY InitIInv, NextIInv, PTL DEF Spec

\* Every variable keeps its type (all of CoreSession and AddTorrent).
THEOREM TypeCorrect == Spec => []TypeOK
<1>1. IInv => TypeOK
  BY DEF IInv
<1>. QED
  BY <1>1, Invariance, PTL

\* However a cancel races with the FFI, the runtime and the engine, what the
\* cancelled call inserted is always about to be removed or already gone.
THEOREM CancelLeavesNoOrphan == Spec => []NoOrphan
<1>1. IInv => NoOrphan
  BY DEF IInv
<1>. QED
  BY <1>1, Invariance, PTL

\* A cancel never removes a torrent that another add brought in.
THEOREM CancelRemovesOnlyOwn == Spec => []UndoOnlyOwn
<1>1. IInv => UndoOnlyOwn
  BY DEF IInv, IdsOwned
<1>. QED
  BY <1>1, Invariance, PTL

\* The saved list of pending URIs is what is still being added.
THEOREM SavedListExact == Spec => []DiskMatchesPending
<1>1. IInv => DiskMatchesPending
  BY DEF IInv
<1>. QED
  BY <1>1, Invariance, PTL

\* Two pending entries are never known to be the same torrent.
THEOREM NoDoublePending == Spec => []OnePendingPerHash
<1>1. IInv => OnePendingPerHash
  BY DEF IInv
<1>. QED
  BY <1>1, Invariance, PTL

\* An id denotes one torrent, across restarts and concurrent adds.
THEOREM IdsDenoteOneTorrent == Spec => []IdsUnambiguous
<1>1. IInv => IdsUnambiguous
  BY DEF IInv, IdsUnambiguous, PreferredFresh, TorrentIdsUnique
<1>. QED
  BY <1>1, Invariance, PTL

(***************************************************************************)
(* AddTorrent implements Adding, for every set of calls, URIs and hashes   *)
(* and any number of launches: what the FFI, the engine's ids, the polls   *)
(* and the removals do between them is never more than one step of what    *)
(* the user was promised.                                                  *)
(***************************************************************************)

LEMMA InitPromiseInv == Init => PromiseInv
<1>. SUFFICES ASSUME Init PROVE PromiseInv
  OBVIOUS
<1>1. IInv
  BY InitIInv
<1>. QED
  BY <1>1 DEF PromiseInv, Init, CoreInit, CallHasEntry, UndoneIsCancelled, OneTorrentPerCall,
     SavedOnceBegun, SeenIsOld, SeenIDs, RemovingIDs, InFFI

(***************************************************************************)
(* The additional parts of the invariant, one by one.                      *)
(***************************************************************************)

LEMMA CallHasEntryStep == PromiseInv /\ [Next]_vars => CallHasEntry'
<1>. SUFFICES ASSUME PromiseInv, [Next]_vars PROVE CallHasEntry'
  OBVIOUS
<1>. USE DEF PromiseInv, IInv, TypeOK, CallHasEntry, InFFI
<1>1. CASE \E e \in Token : FfiSpawn(e) \/ FfiRegister(e) \/ FfiReturn(e)
  BY <1>1 DEF FfiSpawn, FfiRegister, FfiReturn, history
<1>2. ASSUME NEW u \in Uri, NEW e \in Token, AddBegin(u, e) PROVE CallHasEntry'
  BY <1>2 DEF AddBegin, history
<1>3. ASSUME NEW e \in Token, Resume(e) PROVE CallHasEntry'
  BY <1>3 DEF Resume, ResumeCancelled, ResumeAdded, ResumeManaged, ResumeFailed, Discard, history
<1>4. ASSUME NEW e \in Token, UndoReturns(e) PROVE CallHasEntry'
  BY <1>4 DEF UndoReturns, history
<1>5. ASSUME NEW e \in Token, CancelPending(e) PROVE CallHasEntry'
  BY <1>5 DEF CancelPending, Discard
\* An entry that has its id belongs to a call that is over.
<1>6. CASE PollApply
  <2>1. \A e \in Token : call[e] \in InFFI => torrentID[e] = NoId
    BY DEF EntryHasCall
  <2>2. NoId \notin Nat /\ poll \subseteq Nat
    BY <1>6, NoIdAssumption DEF PollApply
  <2>. QED BY <1>6, <2>1, <2>2 DEF PollApply, Reconcile, Discard, history
<1>7. CASE Crash
  BY <1>7 DEF Crash
<1>8. CASE UNCHANGED <<call, cancelled, pendingAdds>>
  BY <1>8
<1>9. ASSUME NEW e \in Token, TaskStep(e) \/ AbortLands(e) PROVE UNCHANGED <<call, cancelled, pendingAdds>>
  BY <1>9 DEF TaskStep, AbortLands, appVars, history
<1>. QED
  BY <1>1, <1>2, <1>3, <1>4, <1>5, <1>6, <1>7, <1>8, <1>9
     DEF Next, Engine, MainActor, UserAction, vars, appVars, history, StartEngine, EngineFailed,
         EngineStarted, RemoveDone, RemoveRefused, AddBeforeStart, AddRefused, PollList, OpenUri,
         UserRemove

LEMMA UndoneIsCancelledStep == PromiseInv /\ [Next]_vars => UndoneIsCancelled'
<1>. SUFFICES ASSUME PromiseInv, [Next]_vars PROVE UndoneIsCancelled'
  OBVIOUS
<1>. USE DEF PromiseInv, UndoneIsCancelled
<1>1. ASSUME NEW r \in removals, RemoveDone(r) \/ RemoveRefused(r) PROVE UndoneIsCancelled'
  BY <1>1 DEF RemoveDone, RemoveRefused, history
<1>2. ASSUME NEW e \in Token, Resume(e) PROVE UndoneIsCancelled'
  <2>1. e \in pendingAdds \/ e \in cancelled
    BY <1>2 DEF Resume, CallHasEntry, InFFI
  <2>. QED
    BY <1>2, <2>1 DEF Resume, ResumeCancelled, ResumeAdded, ResumeManaged, ResumeFailed, history
<1>3. ASSUME NEW e \in Token, CancelPending(e) PROVE UndoneIsCancelled'
  BY <1>3 DEF CancelPending
<1>4. ASSUME NEW id \in rows, UserRemove(id) PROVE UndoneIsCancelled'
  BY <1>4 DEF UserRemove, history
<1>5. CASE Crash
  BY <1>5 DEF Crash
<1>6. CASE UNCHANGED <<removals, cancelled>>
  BY <1>6
<1>7. ASSUME NEW e \in Token,
             FfiSpawn(e) \/ FfiRegister(e) \/ FfiReturn(e) \/ TaskStep(e) \/ AbortLands(e) \/ UndoReturns(e)
      PROVE  UNCHANGED <<removals, cancelled>>
  BY <1>7 DEF FfiSpawn, FfiRegister, FfiReturn, TaskStep, AbortLands, UndoReturns, storeVars, history
<1>8. ASSUME NEW u \in Uri, NEW e \in Token, AddBegin(u, e) PROVE UNCHANGED <<removals, cancelled>>
  BY <1>8 DEF AddBegin, storeVars, history
<1>. QED
  BY <1>1, <1>2, <1>3, <1>4, <1>5, <1>6, <1>7, <1>8
     DEF Next, Engine, MainActor, UserAction, vars, storeVars, history, StartEngine, EngineFailed,
         EngineStarted, AddBeforeStart, AddRefused, PollList, PollApply, OpenUri

LEMMA OneTorrentPerCallStep == PromiseInv /\ [Next]_vars => OneTorrentPerCall'
<1>. SUFFICES ASSUME PromiseInv, [Next]_vars PROVE OneTorrentPerCall'
  OBVIOUS
<1>. USE DEF PromiseInv, OneTorrentPerCall
<1>1. ASSUME NEW e \in Token, TaskStep(e) PROVE OneTorrentPerCall'
  <2>1. CASE TaskInsert(e, uriOf[e])
    <3>1. task[e] = "adding" /\ call[e] \in {"spawned", "awaiting", "returned"}
      BY <2>1 DEF TaskInsert, IInv, CallHasTask
    \* So no torrent in the table is this call's.
    <3>2. \A t \in torrents : t.by # e
      BY <3>1 DEF IInv, OwnerKnown
    <3>. QED BY <2>1, <3>2 DEF TaskInsert, AnswerManaged
  <2>2. CASE UNCHANGED torrents
    BY <2>2
  <2>. QED
    BY <1>1, <2>1, <2>2 DEF TaskStep, TaskCheck, TaskListed, TaskFail
<1>2. ASSUME NEW r \in removals, RemoveDone(r) PROVE OneTorrentPerCall'
  BY <1>2 DEF RemoveDone, Delete
<1>3. CASE UNCHANGED torrents
  BY <1>3
<1>4. ASSUME NEW e \in Token,
             FfiSpawn(e) \/ FfiRegister(e) \/ FfiReturn(e) \/ AbortLands(e) \/ Resume(e)
               \/ UndoReturns(e) \/ CancelPending(e)
      PROVE  UNCHANGED torrents
  BY <1>4 DEF FfiSpawn, Spawn, FfiRegister, FfiReturn, AbortLands, TaskAborted, Resume, Release,
              UndoReturns, CancelPending, CancelAdd, coreVars
<1>5. ASSUME NEW u \in Uri, NEW e \in Token, AddBegin(u, e) PROVE UNCHANGED torrents
  BY <1>5 DEF AddBegin, coreVars
<1>6. CASE Crash
  BY <1>6 DEF Crash, CoreCrash
<1>. QED
  BY <1>1, <1>2, <1>3, <1>4, <1>5, <1>6
     DEF Next, Engine, MainActor, UserAction, vars, coreVars, StartEngine, EngineFailed,
         EngineStarted, CoreStart, RemoveRefused, AddBeforeStart, AddRefused, PollList, PollApply,
         OpenUri, UserRemove

LEMMA SavedOnceBegunStep == PromiseInv /\ [Next]_vars => SavedOnceBegun'
<1>. SUFFICES ASSUME PromiseInv, [Next]_vars PROVE SavedOnceBegun'
  OBVIOUS
<1>. USE DEF PromiseInv, SavedOnceBegun, SavedURIs
<1>1. ASSUME NEW u \in Uri, NEW e \in Token, AddBegin(u, e) PROVE SavedOnceBegun'
  BY <1>1 DEF AddBegin, Persist
<1>2. ASSUME NEW e \in Token, Resume(e) \/ UndoReturns(e) \/ CancelPending(e) PROVE SavedOnceBegun'
  BY <1>2 DEF Resume, UndoReturns, CancelPending, Persist
<1>3. ASSUME NEW e \in Token, FfiSpawn(e) \/ FfiRegister(e) \/ FfiReturn(e) PROVE SavedOnceBegun'
  <2>1. call[e] \notin {"idle", "lost"}
    BY <1>3 DEF FfiSpawn, FfiRegister, FfiReturn
  <2>2. UNCHANGED <<pendingURIs, uriOf, pendingAdds, torrentID>>
    BY <1>3 DEF FfiSpawn, FfiRegister, FfiReturn
  <2>. QED BY <2>1, <2>2 DEF Unresolved
\* The poll takes away only entries that have their id.
<1>4. CASE PollApply
  <2>1. NoId \notin Nat /\ poll \subseteq Nat
    BY <1>4, NoIdAssumption DEF PollApply, IInv, TypeOK
  <2>2. pendingAdds \subseteq Token
    BY DEF IInv, TypeOK
  <2>3. Unresolved(pendingAdds', torrentID') = Unresolved(pendingAdds, torrentID)
    BY <1>4, <2>1, <2>2 DEF PollApply, Reconcile, Discard, Unresolved
  <2>. QED BY <1>4, <2>3 DEF PollApply
<1>5. CASE Crash
  BY <1>5 DEF Crash
<1>6. CASE UNCHANGED <<call, pendingURIs, uriOf, pendingAdds, torrentID>>
  BY <1>6 DEF Unresolved
<1>7. ASSUME NEW e \in Token, TaskStep(e) \/ AbortLands(e)
      PROVE  UNCHANGED <<call, pendingURIs, uriOf, pendingAdds, torrentID>>
  BY <1>7 DEF TaskStep, AbortLands, appVars
<1>. QED
  BY <1>1, <1>2, <1>3, <1>4, <1>5, <1>6, <1>7
     DEF Next, Engine, MainActor, UserAction, vars, appVars, StartEngine, EngineFailed,
         EngineStarted, RemoveDone, RemoveRefused, AddBeforeStart, AddRefused, PollList, OpenUri,
         UserRemove

LEMMA SeenIsOldStep == PromiseInv /\ [Next]_vars => SeenIsOld'
<1>. SUFFICES ASSUME PromiseInv, [Next]_vars PROVE SeenIsOld'
  OBVIOUS
<1>0. nextId \in Nat /\ taskID \in [Token -> Nat \cup {NoId}] /\ SeenIDs \subseteq Nat
  BY DEF PromiseInv, IInv, TypeOK, CoreTypeOK, SeenIDs, RemovingIDs, Removal
<1>a. task \in [Token -> TaskState]
  BY DEF PromiseInv, IInv, TypeOK, CoreTypeOK
<1>1. SeenIsOld
  BY DEF PromiseInv
<1>. USE DEF SeenIsOld
\* An id is handed out from the counter, which is above all that was seen.
<1>2. ASSUME NEW e \in Token, TaskStep(e) \/ AbortLands(e) PROVE SeenIsOld'
  <2>1. SeenIDs' = SeenIDs
    BY <1>2 DEF TaskStep, AbortLands, storeVars, SeenIDs, RemovingIDs
  <2>2. CASE TakeId(e)
    BY <1>0, <1>a, <1>1, <2>1, <2>2 DEF TakeId
  <2>3. CASE nextId' = nextId /\ \A f \in Token :
               task'[f] = "adding" => task[f] = "adding" /\ taskID'[f] = taskID[f]
    BY <1>1, <2>1, <2>3
  <2>4. ASSUME task' = [task EXCEPT ![e] = task'[e]], task'[e] # "adding",
               nextId' = nextId, taskID' = taskID \/ taskID' = [taskID EXCEPT ![e] = taskID'[e]]
        PROVE  SeenIsOld'
    BY <1>0, <1>a, <2>3, <2>4
  <2>5. CASE TaskCheck(e, uriOf[e]) \/ TaskListed(e)
    BY <1>0, <1>a, <2>2, <2>4, <2>5 DEF TaskCheck, TaskListed, AnswerManaged
  <2>6. CASE TaskInsert(e, uriOf[e])
    BY <1>0, <1>a, <2>4, <2>6 DEF TaskInsert, AnswerManaged
  <2>7. CASE TaskFail(e) \/ TaskAborted(e)
    BY <1>0, <1>a, <2>4, <2>7 DEF TaskFail, TaskAborted
  <2>. QED BY <1>2, <2>5, <2>6, <2>7 DEF TaskStep, AbortLands
<1>3. ASSUME NEW e \in Token, FfiSpawn(e) \/ FfiRegister(e) \/ FfiReturn(e) \/ UndoReturns(e)
      PROVE  SeenIsOld'
  <2>1. SeenIDs' = SeenIDs /\ UNCHANGED <<nextId, taskID>>
    BY <1>3 DEF FfiSpawn, Spawn, FfiRegister, FfiReturn, UndoReturns, coreVars, storeVars, SeenIDs,
                RemovingIDs
  <2>2. \A f \in Token : task'[f] = "adding" => task[f] = "adding"
    BY <1>3 DEF FfiSpawn, Spawn, FfiRegister, FfiReturn, UndoReturns, coreVars, PromiseInv, IInv,
                TypeOK, CoreTypeOK
  <2>. QED BY <1>1, <2>1, <2>2
<1>4. ASSUME NEW e \in Token, Resume(e) \/ CancelPending(e) PROVE SeenIsOld'
  <2>1. RemovingIDs' = RemovingIDs
    <3>1. User \notin Token
      BY SentinelAssumption
    <3>. QED
      BY <1>4, <3>1 DEF Resume, ResumeCancelled, ResumeAdded, ResumeManaged, ResumeFailed,
                        CancelPending, RemovingIDs
  <2>2. SeenIDs' = SeenIDs /\ nextId' = nextId
    BY <1>4, <2>1 DEF Resume, Release, CancelPending, CancelAdd, coreVars, SeenIDs
  <2>3. \A f \in Token : task'[f] = "adding" => task[f] = "adding" /\ taskID'[f] = taskID[f]
    BY <1>4 DEF Resume, Release, CancelPending, CancelAdd, coreVars, PromiseInv, IInv, TypeOK,
                CoreTypeOK
  <2>. QED BY <1>1, <2>2, <2>3
<1>5. ASSUME NEW u \in Uri, NEW e \in Token, AddBegin(u, e) PROVE SeenIsOld'
  BY <1>1, <1>5 DEF AddBegin, coreVars, storeVars, SeenIDs, RemovingIDs
<1>6. CASE PollList
  <2>1. \A t \in torrents : t.id < nextId
    BY <1>6 DEF PollList, PromiseInv, IInv, IdsBelowNext
  <2>2. \A e \in Token : task[e] = "adding" => taskID[e] \notin TorrentIDs
    BY DEF PromiseInv, IInv, PreferredFresh
  <2>3. SeenIDs' \subseteq SeenIDs \cup TorrentIDs /\ UNCHANGED <<nextId, task, taskID>>
    BY <1>6 DEF PollList, coreVars, SeenIDs, RemovingIDs
  <2>. QED BY <1>1, <2>1, <2>2, <2>3 DEF TorrentIDs
<1>7. CASE PollApply
  <2>1. SeenIDs' \subseteq SeenIDs /\ UNCHANGED <<nextId, task, taskID>>
    BY <1>7 DEF PollApply, coreVars, SeenIDs, RemovingIDs
  <2>. QED BY <1>1, <2>1
<1>8. ASSUME NEW id \in rows, UserRemove(id) PROVE SeenIsOld'
  <2>1. SeenIDs' \subseteq SeenIDs /\ UNCHANGED <<nextId, task, taskID>>
    BY <1>8 DEF UserRemove, coreVars, SeenIDs, RemovingIDs
  <2>. QED BY <1>1, <2>1
<1>9. ASSUME NEW r \in removals, RemoveDone(r) \/ RemoveRefused(r) PROVE SeenIsOld'
  <2>1. SeenIDs' \subseteq SeenIDs /\ UNCHANGED <<nextId, task, taskID>>
    BY <1>9 DEF RemoveDone, Delete, RemoveRefused, coreVars, SeenIDs, RemovingIDs
  <2>. QED BY <1>1, <2>1
\* Nothing was seen before the session of a launch is there.
<1>10. CASE EngineStarted
  <2>1. SeenIDs' = {}
    BY <1>10 DEF EngineStarted, storeVars, PromiseInv, IInv, NothingBeforeStart, SeenIDs, RemovingIDs
  <2>. QED BY <2>1
<1>11. CASE Crash
  <2>1. SeenIDs' = {}
    BY <1>11 DEF Crash, SeenIDs, RemovingIDs
  <2>. QED BY <2>1
<1>12. CASE UNCHANGED <<nextId, task, taskID, removals, poll, rows>>
  BY <1>1, <1>12 DEF SeenIDs, RemovingIDs
<1>. QED
  BY <1>2, <1>3, <1>4, <1>5, <1>6, <1>7, <1>8, <1>9, <1>10, <1>11, <1>12
     DEF Next, Engine, MainActor, UserAction, vars, coreVars, storeVars, StartEngine, EngineFailed,
         AddBeforeStart, AddRefused, OpenUri

LEMMA PromiseInvariant == Spec => []PromiseInv
<1>1. PromiseInv /\ [Next]_vars => PromiseInv'
  BY NextIInv, CallHasEntryStep, UndoneIsCancelledStep, OneTorrentPerCallStep, SavedOnceBegunStep,
     SeenIsOldStep DEF PromiseInv
<1>. QED
  BY <1>1, InitPromiseInv, PTL DEF Spec

(***************************************************************************)
(* The mapping: what a step does to the requests, the list, the torrents   *)
(* the user waits to see gone, and the saved URIs.                         *)
(***************************************************************************)

RequestState == {"new", "open", "ready", "over", "cancelled"}

\* Given the invariant, the cases of Request exclude each other.
RequestsAre ==
  /\ Request \in [Token -> RequestState]
  /\ \A e \in Token :
       /\ Request[e] = "cancelled" <=> e \in cancelled
       /\ Request[e] = "new" <=> call[e] = "idle"
       /\ Request[e] = "open" <=> e \in pendingAdds /\ torrentID[e] = NoId
       /\ Request[e] = "ready" <=> e \in pendingAdds /\ torrentID[e] # NoId
  /\ {e \in Token : Request[e] = "open"} = Unresolved(pendingAdds, torrentID)

LEMMA RequestCases == PromiseInv => RequestsAre
<1>. SUFFICES ASSUME PromiseInv PROVE RequestsAre
  OBVIOUS
<1>1. \A e \in Token :
        /\ e \in cancelled => e \notin pendingAdds /\ call[e] # "idle"
        /\ e \in pendingAdds => call[e] # "idle"
  BY DEF PromiseInv, IInv, EntryHasCall, InFFI
<1>2. pendingAdds \subseteq Token
  BY DEF PromiseInv, IInv, TypeOK
<1>3. ASSUME NEW e \in Token
      PROVE  /\ Request[e] \in RequestState
             /\ Request[e] = "cancelled" <=> e \in cancelled
             /\ Request[e] = "new" <=> call[e] = "idle"
             /\ Request[e] = "open" <=> e \in pendingAdds /\ torrentID[e] = NoId
             /\ Request[e] = "ready" <=> e \in pendingAdds /\ torrentID[e] # NoId
  BY <1>1 DEF Request, RequestState
<1>4. Request \in [Token -> RequestState]
  BY <1>3 DEF Request
<1>5. {e \in Token : Request[e] = "open"} = Unresolved(pendingAdds, torrentID)
  BY <1>2, <1>3 DEF Unresolved
<1>. QED
  BY <1>3, <1>4, <1>5 DEF RequestsAre

\* Requests are told apart by four facts about each call.
LEMMA RequestsSame ==
  ASSUME RequestsAre, RequestsAre',
         \A e \in Token :
           /\ e \in cancelled' <=> e \in cancelled
           /\ call'[e] = "idle" <=> call[e] = "idle"
           /\ e \in pendingAdds' <=> e \in pendingAdds
           /\ torrentID'[e] = NoId <=> torrentID[e] = NoId
  PROVE  Request' = Request
<1>1. ASSUME NEW e \in Token PROVE Request'[e] = Request[e]
  <2>1. Request[e] \in RequestState /\ Request'[e] \in RequestState
    BY DEF RequestsAre
  <2>. QED BY <2>1 DEF RequestsAre, RequestState
<1>. QED
  BY <1>1 DEF RequestsAre

\* One request may change, the others keep what tells them apart.
LEMMA RequestsExcept ==
  ASSUME RequestsAre, RequestsAre', NEW e \in Token,
         \A f \in Token \ {e} :
           /\ f \in cancelled' <=> f \in cancelled
           /\ call'[f] = "idle" <=> call[f] = "idle"
           /\ f \in pendingAdds' <=> f \in pendingAdds
           /\ torrentID'[f] = NoId <=> torrentID[f] = NoId
  PROVE  Request' = [Request EXCEPT ![e] = Request'[e]]
<1>1. ASSUME NEW f \in Token \ {e} PROVE Request'[f] = Request[f]
  <2>1. Request[f] \in RequestState /\ Request'[f] \in RequestState
    BY DEF RequestsAre
  <2>. QED BY <2>1 DEF RequestsAre, RequestState
<1>. QED
  BY <1>1 DEF RequestsAre

\* What a save writes is what Adding saves.
LEMMA SaveIsSave == ASSUME RequestsAre', Persist PROVE Promise!Save
  BY DEF Persist, Promise!Save, RequestsAre

\* The list and the doomed depend on the user's removals only.
LEMMA DoomedSame ==
  ASSUME torrents' = torrents,
         \A t \in torrents : [id |-> t.id, by |-> User] \in removals'
                               <=> [id |-> t.id, by |-> User] \in removals
  PROVE  Doomed' = Doomed /\ Listed' = Listed
  BY DEF Doomed, Listed

(***************************************************************************)
(* Every step is a step of Adding: one lemma per action that it can see.   *)
(***************************************************************************)

LEMMA BeginSimulates ==
  ASSUME PromiseInv, RequestsAre, RequestsAre', NEW u \in Uri, NEW e \in Token, AddBegin(u, e)
  PROVE  Promise!Begin(e, u)
<1>. USE DEF AddBegin
<1>1. Request[e] = "new"
  BY DEF RequestsAre
<1>2. \A f \in Token : Request[f] \in {"open", "ready"} => ~Promise!SameMagnet(u, uriOf[f])
  <2>1. \A f \in Token : Request[f] \in {"open", "ready"} => f \in pendingAdds
    BY DEF RequestsAre
  <2>. QED BY <2>1 DEF Duplicates, Promise!SameMagnet
<1>3. Request' = [Request EXCEPT ![e] = "open"]
  <2>1. torrentID[e] = NoId
    BY DEF PromiseInv, IInv, EntryHasCall
  <2>2. call \in [Token -> CallState]
    BY DEF PromiseInv, IInv, TypeOK
  <2>3. Request' = [Request EXCEPT ![e] = Request'[e]]
    BY <2>2, RequestsExcept DEF history
  <2>4. Request'[e] = "open"
    BY <2>1 DEF RequestsAre
  <2>. QED BY <2>3, <2>4
<1>4. Listed' = Listed /\ Doomed' = Doomed
  BY DoomedSame DEF coreVars, storeVars
<1>. QED
  BY <1>1, <1>2, <1>3, <1>4, SaveIsSave DEF Promise!Begin

LEMMA InsertSimulates ==
  ASSUME PromiseInv, RequestsAre, RequestsAre', NEW e \in Token, TaskStep(e),
         torrents' # torrents
  PROVE  Promise!Bring(e)
<1>1. TaskInsert(e, uriOf[e]) /\ Managing(HashOf[uriOf[e]]) = {}
  BY DEF TaskStep, TaskCheck, TaskListed, TaskInsert, TaskFail, AnswerManaged
<1>2. /\ torrents' = torrents \cup {[id |-> taskID[e], hash |-> HashOf[uriOf[e]], by |-> e]}
      /\ UNCHANGED <<appVars, storeVars, history>>
  BY <1>1 DEF TaskStep, TaskInsert
<1>3. task[e] = "adding" /\ call[e] \in {"spawned", "awaiting", "returned"}
  BY <1>1 DEF TaskInsert, PromiseInv, IInv, CallHasTask
<1>4. Request[e] \in {"open", "cancelled"}
  <2>1. e \in cancelled \/ e \in pendingAdds
    BY <1>3 DEF PromiseInv, CallHasEntry, InFFI
  <2>2. torrentID[e] = NoId
    BY <1>3 DEF PromiseInv, IInv, EntryHasCall
  <2>. QED BY <2>1, <2>2 DEF RequestsAre
<1>5. \A t \in torrents : t.by # e /\ t.hash # HashOf[uriOf[e]]
  BY <1>1, <1>3 DEF PromiseInv, IInv, OwnerKnown, Managing
<1>6. Request' = Request
  BY <1>2, RequestsSame DEF appVars, history
<1>7. Listed' = Listed \cup {[by |-> e, hash |-> HashOf[uriOf[e]]]}
  BY <1>2 DEF Listed
\* The engine hands out no id that the user has seen removed.
<1>8. [id |-> taskID[e], by |-> User] \notin removals
  <2>1. taskID[e] \notin RemovingIDs
    BY <1>3 DEF PromiseInv, SeenIsOld, SeenIDs
  <2>. QED BY <2>1 DEF RemovingIDs
<1>9. Doomed' = Doomed
  BY <1>2, <1>8 DEF Doomed, storeVars
<1>. QED
  BY <1>2, <1>4, <1>5, <1>6, <1>7, <1>9 DEF Promise!Bring, Listed, appVars

LEMMA CancelSimulates ==
  ASSUME PromiseInv, RequestsAre, RequestsAre', NEW e \in Token, CancelPending(e)
  PROVE  Promise!Settle(e)
<1>. USE DEF CancelPending
<1>1. Request[e] \in {"open", "ready"}
  BY DEF RequestsAre
<1>2. Request' = [Request EXCEPT ![e] = "cancelled"]
  <2>1. Request' = [Request EXCEPT ![e] = Request'[e]]
    BY RequestsExcept DEF Discard
  <2>2. Request'[e] = "cancelled"
    BY DEF RequestsAre
  <2>. QED BY <2>1, <2>2
<1>3. Listed' = Listed /\ Doomed' = Doomed
  <2>1. torrents' = torrents
    BY DEF CancelAdd, coreVars
  <2>2. \A t \in torrents : [id |-> t.id, by |-> User] \in removals'
                              <=> [id |-> t.id, by |-> User] \in removals
    BY SentinelAssumption
  <2>. QED BY <2>1, <2>2, DoomedSame
<1>. QED
  BY <1>1, <1>2, <1>3, SaveIsSave DEF Promise!Settle

LEMMA ResumeSimulates ==
  ASSUME PromiseInv, RequestsAre, RequestsAre', NEW e \in Token, Resume(e)
  PROVE  Promise!Settle(e) \/ UNCHANGED Promise!vars
<1>1. /\ call[e] = "returned" /\ torrentID[e] = NoId
      /\ call \in [Token -> CallState] /\ torrentID \in [Token -> Nat \cup {NoId}]
  BY DEF Resume, PromiseInv, IInv, TypeOK, EntryHasCall
<1>2. UNCHANGED <<uriOf, cancelled, torrents>> /\ Persist
  BY DEF Resume, Release, history
<1>3. Listed' = Listed /\ Doomed' = Doomed
  <2>1. \A t \in torrents : [id |-> t.id, by |-> User] \in removals'
                              <=> [id |-> t.id, by |-> User] \in removals
    BY SentinelAssumption
       DEF Resume, ResumeCancelled, ResumeAdded, ResumeManaged, ResumeFailed
  <2>. QED BY <1>2, <2>1, DoomedSame
<1>4. /\ call'[e] \in {"undoing"} \cup Settled
      /\ \A f \in Token \ {e} : call'[f] = call[f]
  BY <1>1 DEF Resume, ResumeCancelled, ResumeAdded, ResumeManaged, ResumeFailed, Settled
<1>5. \A f \in Token \ {e} : (f \in pendingAdds' <=> f \in pendingAdds) /\ torrentID'[f] = torrentID[f]
  BY <1>1 DEF Resume, ResumeCancelled, ResumeAdded, ResumeManaged, ResumeFailed, Discard
<1>6. CASE e \in pendingAdds
  <2>1. Request[e] = "open" /\ e \notin cancelled
    BY <1>1, <1>6 DEF RequestsAre, PromiseInv, IInv, EntryHasCall
  <2>2. Request' = [Request EXCEPT ![e] = Request'[e]]
    BY <1>2, <1>4, <1>5, RequestsExcept
  <2>3. Request'[e] \notin {"new", "cancelled"} /\ Request'[e] \in RequestState
    BY <1>2, <1>4, <2>1 DEF RequestsAre, Settled
  <2>4. ~(e \in pendingAdds' /\ torrentID'[e] = NoId)
    <3>1. CASE ResumeAdded(e)
      <4>1. taskID[e] \in Nat
        BY <3>1 DEF ResumeAdded, PromiseInv, IInv, CallHasTask
      <4>. QED BY <1>1, <3>1, <4>1, NoIdAssumption DEF ResumeAdded
    <3>2. CASE ResumeManaged(e) \/ ResumeFailed(e)
      BY <3>2 DEF ResumeManaged, ResumeFailed, Discard
    <3>. QED BY <1>6, <3>1, <3>2 DEF Resume, ResumeCancelled
  <2>5. Request'[e] \in {"ready", "over"}
    BY <2>3, <2>4 DEF RequestsAre, RequestState
  <2>. QED
    BY <1>2, <1>3, <2>1, <2>2, <2>5, SaveIsSave DEF Promise!Settle
\* Nothing is left of a cancelled request that the result could settle.
<1>7. CASE e \notin pendingAdds
  <2>1. e \notin pendingAdds' /\ torrentID'[e] = NoId
    BY <1>1, <1>7 DEF Resume, ResumeCancelled, ResumeAdded, ResumeManaged, ResumeFailed, Discard
  <2>2. Request' = Request
    BY <1>1, <1>2, <1>4, <1>5, <1>7, <2>1, RequestsSame DEF Settled
  <2>3. pendingURIs' = pendingURIs
    <3>1. pendingURIs = {uriOf[p] : p \in Unresolved(pendingAdds, torrentID)}
      BY <1>1 DEF PromiseInv, SavedOnceBegun, SavedURIs
    <3>2. Unresolved(pendingAdds', torrentID') = Unresolved(pendingAdds, torrentID)
      BY <2>2 DEF RequestsAre
    <3>. QED BY <1>2, <3>1, <3>2 DEF Persist
  <2>. QED BY <1>2, <1>3, <2>2, <2>3 DEF Promise!vars
<1>. QED
  BY <1>6, <1>7

LEMMA ShownSimulates ==
  ASSUME PromiseInv, RequestsAre, RequestsAre', PollApply
  PROVE  Promise!Shown
<1>. DEFINE P == {e \in Token : e \in pendingAdds /\ torrentID[e] \in poll}
<1>1. NoId \notin poll /\ pendingAdds \subseteq Token /\ poll \subseteq Nat
  BY NoIdAssumption DEF PollApply, PromiseInv, IInv, TypeOK
<1>2. P \subseteq {e \in Token : Request[e] = "ready"}
  BY <1>1 DEF RequestsAre
<1>3. pendingAdds' = pendingAdds \ P /\ torrentID' = [e \in Token |-> IF e \in P THEN NoId ELSE torrentID[e]]
  BY <1>1 DEF PollApply, Reconcile, Discard
<1>4. Request' = [e \in Token |-> IF e \in P THEN "over" ELSE Request[e]]
  <2>1. ASSUME NEW e \in Token PROVE Request'[e] = IF e \in P THEN "over" ELSE Request[e]
    <3>1. Request[e] \in RequestState /\ Request'[e] \in RequestState
      BY DEF RequestsAre
    <3>2. e \in P => Request[e] = "ready"
      BY <1>2
    <3>. QED BY <1>3, <3>1, <3>2 DEF RequestsAre, RequestState, PollApply, history
  <2>. QED BY <2>1 DEF RequestsAre
<1>5. Listed' = Listed /\ Doomed' = Doomed
  BY DoomedSame DEF PollApply, coreVars
<1>. QED
  BY <1>2, <1>4, <1>5 DEF Promise!Shown, PollApply

\* A removal the user asked for, and what becomes of it.
LEMMA RemovalSimulates ==
  ASSUME PromiseInv, RequestsAre, RequestsAre',
         \/ \E id \in rows : UserRemove(id)
         \/ \E r \in removals : RemoveDone(r) \/ RemoveRefused(r)
  PROVE  Promise!Next
<1>1. UNCHANGED <<cancelled, call, pendingAdds, torrentID, uriOf, pendingURIs>>
  BY DEF UserRemove, RemoveDone, RemoveRefused, appVars, history
<1>2. Request' = Request
  BY <1>1, RequestsSame
<1>3. \A t, v \in torrents : (t.id = v.id \/ t.by = v.by) => t = v
  BY DEF PromiseInv, IInv, TorrentIdsUnique, OneTorrentPerCall
<1>4. torrents \subseteq Torrent /\ removals \subseteq Removal
  BY DEF PromiseInv, IInv, TypeOK, CoreTypeOK
<1>5. ASSUME NEW id \in rows, UserRemove(id) PROVE Promise!Next
  <2>1. torrents' = torrents /\ removals' = removals \cup {[id |-> id, by |-> User]}
    BY <1>5 DEF UserRemove, coreVars
  <2>2. CASE id \notin TorrentIDs
    <3>1. Listed' = Listed /\ Doomed' = Doomed
      BY <2>1, <2>2, DoomedSame DEF TorrentIDs
    <3>. QED BY <1>1, <1>2, <3>1 DEF Promise!Next, Promise!Unseen, Promise!vars
  <2>3. CASE id \in TorrentIDs
    <3>1. PICK t \in torrents : t.id = id
      BY <2>3 DEF TorrentIDs
    <3>2. Doomed' = Doomed \cup {t.by}
      BY <1>3, <2>1, <3>1 DEF Doomed
    <3>3. Listed' = Listed /\ [by |-> t.by, hash |-> t.hash] \in Listed
      BY <2>1, <3>1 DEF Listed
    <3>4. Promise!AskRemoval([by |-> t.by, hash |-> t.hash])
      BY <1>1, <1>2, <3>2, <3>3 DEF Promise!AskRemoval
    <3>. QED BY <3>3, <3>4 DEF Promise!Next
  <2>. QED BY <2>2, <2>3
<1>6. ASSUME NEW r \in removals, RemoveDone(r) PROVE Promise!Next
  <2>1. removals' = removals \ {r} /\ torrents' = {t \in torrents : t.id # r.id}
    BY <1>6 DEF RemoveDone, Delete
  <2>2. r = [id |-> r.id, by |-> r.by]
    BY <1>4 DEF Removal
  <2>3. CASE r.id \notin TorrentIDs
    <3>1. torrents' = torrents
      BY <2>1, <2>3 DEF TorrentIDs
    <3>2. \A t \in torrents : [id |-> t.id, by |-> User] \in removals'
                                <=> [id |-> t.id, by |-> User] \in removals
      BY <2>1, <2>2, <2>3 DEF TorrentIDs
    <3>3. Listed' = Listed /\ Doomed' = Doomed
      BY <3>1, <3>2, DoomedSame
    <3>. QED BY <1>1, <1>2, <3>3 DEF Promise!Next, Promise!Unseen, Promise!vars
  <2>4. CASE r.id \in TorrentIDs
    <3>1. PICK t \in torrents : t.id = r.id
      BY <2>4 DEF TorrentIDs
    <3>. DEFINE seen == [by |-> t.by, hash |-> t.hash]
    <3>2. torrents' = torrents \ {t}
      BY <1>3, <2>1, <3>1
    <3>3. Listed' = Listed \ {seen} /\ seen \in Listed
      BY <1>3, <3>1, <3>2 DEF Listed
    <3>4. \A v \in torrents' : [id |-> v.id, by |-> User] \in removals'
                                 <=> [id |-> v.id, by |-> User] \in removals
      BY <2>1
    <3>5. Doomed' = Doomed \ {t.by}
      BY <1>3, <3>1, <3>2, <3>4 DEF Doomed
    \* The removal is the user's, or the call's own: then it was cancelled.
    <3>6. t.by \in Doomed \/ Request[t.by] = "cancelled"
      <4>1. CASE r.by = User
        BY <2>2, <3>1, <4>1 DEF Doomed
      <4>2. CASE r.by # User
        <5>1. t.by = r.by /\ r.by \in cancelled /\ t.by \in Token
          BY <1>4, <3>1, <4>2 DEF PromiseInv, IInv, IdsOwned, UndoOnlyOwn, UndoneIsCancelled, Torrent
        <5>. QED BY <5>1 DEF RequestsAre
      <4>. QED BY <4>1, <4>2
    <3>7. Promise!Leave(seen)
      BY <1>1, <1>2, <3>3, <3>5, <3>6 DEF Promise!Leave
    <3>. QED BY <3>3, <3>7 DEF Promise!Next
  <2>. QED BY <2>3, <2>4
<1>7. ASSUME NEW r \in removals, RemoveRefused(r) PROVE Promise!Next
  <2>1. removals' = removals \ {r} /\ torrents' = torrents /\ r.id \in TorrentIDs
    BY <1>7 DEF RemoveRefused, coreVars
  <2>2. r = [id |-> r.id, by |-> r.by]
    BY <1>4 DEF Removal
  <2>3. CASE r.by # User
    <3>1. Listed' = Listed /\ Doomed' = Doomed
      BY <2>1, <2>3, DoomedSame
    <3>. QED BY <1>1, <1>2, <3>1 DEF Promise!Next, Promise!Unseen, Promise!vars
  <2>4. CASE r.by = User
    <3>1. PICK t \in torrents : t.id = r.id
      BY <2>1 DEF TorrentIDs
    <3>. DEFINE seen == [by |-> t.by, hash |-> t.hash]
    <3>2. \A v \in torrents : [id |-> v.id, by |-> User] \in removals'
                                <=> [id |-> v.id, by |-> User] \in removals /\ v # t
      BY <1>3, <2>1, <2>2, <2>4, <3>1
    <3>3. Doomed' = Doomed \ {t.by}
      BY <1>3, <2>1, <3>1, <3>2 DEF Doomed
    <3>4. Listed' = Listed /\ seen \in Listed
      BY <2>1, <3>1 DEF Listed
    <3>5. Promise!Spare(seen)
      BY <1>1, <1>2, <3>3, <3>4 DEF Promise!Spare
    <3>. QED BY <3>4, <3>5 DEF Promise!Next
  <2>. QED BY <2>3, <2>4
<1>. QED
  BY <1>5, <1>6, <1>7

LEMMA CrashSimulates ==
  ASSUME PromiseInv, RequestsAre, RequestsAre', Crash
  PROVE  Promise!Restart
<1>1. Request' = [e \in Token |-> IF Request[e] = "new" THEN "new" ELSE "over"]
  <2>1. ASSUME NEW e \in Token PROVE Request'[e] = IF Request[e] = "new" THEN "new" ELSE "over"
    BY DEF RequestsAre, RequestState, Crash
  <2>. QED BY <2>1 DEF RequestsAre
<1>2. Listed' = Listed /\ Doomed' = {}
  BY DEF Crash, CoreCrash, Listed, Doomed
<1>. QED
  BY <1>1, <1>2 DEF Promise!Restart, Crash

\* What only moves a call, a task or a poll along is not seen.
Traces == <<torrents, removals, cancelled, pendingAdds, torrentID, uriOf>>

LEMMA UnseenSimulates ==
  ASSUME PromiseInv, RequestsAre, RequestsAre',
         UNCHANGED Traces,
         \/ pendingURIs' = pendingURIs
         \/ Persist /\ \E e \in Token : call[e] \notin {"idle", "lost"},
         \A e \in Token : call'[e] = "idle" <=> call[e] = "idle"
  PROVE  UNCHANGED Promise!vars
<1>1. Request' = Request
  BY RequestsSame DEF Traces
<1>2. Listed' = Listed /\ Doomed' = Doomed
  BY DoomedSame DEF Traces
<1>3. pendingURIs' = pendingURIs
  BY DEF PromiseInv, SavedOnceBegun, SavedURIs, Persist, Unresolved, Traces
<1>. QED
  BY <1>1, <1>2, <1>3 DEF Promise!vars, Traces

LEMMA StepSimulates ==
  PromiseInv /\ RequestsAre /\ RequestsAre' /\ [Next]_vars => [Promise!Next]_(Promise!vars)
<1>. SUFFICES ASSUME PromiseInv, RequestsAre, RequestsAre', [Next]_vars
              PROVE  Promise!Next \/ UNCHANGED Promise!vars
  OBVIOUS
<1>0. call \in [Token -> CallState]
  BY DEF PromiseInv, IInv, TypeOK
<1>1. CASE StartEngine \/ EngineFailed \/ EngineStarted \/ PollList \/ UNCHANGED vars
  <2>1. UNCHANGED Traces /\ call' = call /\ pendingURIs' = pendingURIs
    BY <1>1 DEF StartEngine, EngineFailed, EngineStarted, CoreStart, PollList, vars, coreVars,
                appVars, storeVars, history, Traces
  <2>2. \A f \in Token : call'[f] = "idle" <=> call[f] = "idle"
    BY <2>1
  <2>. QED BY <2>1, <2>2, UnseenSimulates
<1>2. ASSUME NEW u \in Uri, OpenUri(u) \/ AddBeforeStart(u) \/ AddRefused(u)
      PROVE  UNCHANGED Promise!vars
  <2>1. UNCHANGED Traces /\ call' = call /\ pendingURIs' = pendingURIs
    BY <1>2 DEF OpenUri, AddBeforeStart, AddRefused, coreVars, storeVars, history, Traces
  <2>2. \A f \in Token : call'[f] = "idle" <=> call[f] = "idle"
    BY <2>1
  <2>. QED BY <2>1, <2>2, UnseenSimulates
<1>3. ASSUME NEW e \in Token, FfiSpawn(e) \/ FfiRegister(e) \/ FfiReturn(e) \/ UndoReturns(e)
      PROVE  UNCHANGED Promise!vars
  <2>1. call[e] \notin {"idle", "lost"} /\ call'[e] # "idle" /\ \A f \in Token \ {e} : call'[f] = call[f]
    BY <1>0, <1>3 DEF FfiSpawn, FfiRegister, FfiReturn, UndoReturns
  <2>2. UNCHANGED Traces /\ (pendingURIs' = pendingURIs \/ Persist)
    BY <1>3 DEF FfiSpawn, Spawn, FfiRegister, FfiReturn, UndoReturns, coreVars, storeVars, history,
                Traces
  <2>. QED BY <2>1, <2>2, UnseenSimulates
<1>4. ASSUME NEW e \in Token, TaskStep(e) \/ AbortLands(e)
      PROVE  Promise!Next \/ UNCHANGED Promise!vars
  <2>1. CASE torrents' = torrents
    <3>1. UNCHANGED Traces /\ call' = call /\ pendingURIs' = pendingURIs
      BY <1>4, <2>1 DEF TaskStep, AbortLands, appVars, storeVars, history, Traces
    <3>2. \A f \in Token : call'[f] = "idle" <=> call[f] = "idle"
      BY <3>1
    <3>. QED BY <3>1, <3>2, UnseenSimulates
  <2>2. CASE torrents' # torrents
    <3>1. TaskStep(e)
      BY <1>4, <2>2 DEF AbortLands, TaskAborted
    <3>. QED BY <2>2, <3>1, InsertSimulates DEF Promise!Next
  <2>. QED BY <2>1, <2>2
<1>5. ASSUME NEW u \in Uri, NEW e \in Token, AddBegin(u, e) PROVE Promise!Next
  BY <1>5, BeginSimulates DEF Promise!Next
<1>6. ASSUME NEW e \in Token, Resume(e) \/ CancelPending(e)
      PROVE  Promise!Next \/ UNCHANGED Promise!vars
  BY <1>6, ResumeSimulates, CancelSimulates DEF Promise!Next
<1>7. CASE PollApply \/ Crash
  BY <1>7, ShownSimulates, CrashSimulates DEF Promise!Next
<1>8. CASE \/ \E id \in rows : UserRemove(id)
           \/ \E r \in removals : RemoveDone(r) \/ RemoveRefused(r)
  BY <1>8, RemovalSimulates
<1>. QED
  BY <1>1, <1>2, <1>3, <1>4, <1>5, <1>6, <1>7, <1>8 DEF Next, Engine, MainActor, UserAction

LEMMA InitSimulates == Init => Promise!Init
  BY DEF Init, CoreInit, Promise!Init, Request, Listed, Doomed

\* Whatever is cancelled, removed, refused or lost in a crash, in whatever
\* order the threads come to it, the adds keep what Adding promises: a
\* torrent comes by one request, leaves only when the user asked for that
\* torrent to go or cancelled that request, and the URIs saved are those of
\* the requests still open (NeoTorrentApp.swift:309-364, lib.rs:188-229).
THEOREM AddsKeepTheirPromise == Spec => KeepsPromise
<1>1. PromiseInv /\ PromiseInv' /\ [Next]_vars => [Promise!Next]_(Promise!vars)
  <2>1. PromiseInv' => RequestsAre'
    BY RequestCases, PTL
  <2>. QED BY <2>1, RequestCases, StepSimulates
<1>. QED
  BY <1>1, InitSimulates, PromiseInvariant, PTL DEF Spec, KeepsPromise, Promise!Spec

=============================================================================
