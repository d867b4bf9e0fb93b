-------------------------- MODULE StateLockProofs --------------------------
(***************************************************************************)
(* Proofs about StateLock.  Type correctness holds for every value of the  *)
(* constants.  The safety properties hold when no recoverer is killed      *)
(* under the guard (~GuardCrash) and no process is suspended for           *)
(* TORN_LOCK_MS between two calls (Slow = {}).                             *)
(***************************************************************************)
EXTENDS StateLock, TLAPS

USE DEF Held, Torn, Vanished, NoFile, Goto, Step

\* Every reachable state is well typed.
THEOREM TypeCorrect == Spec => []TypeOK
<1> USE DEF PC, Acquiring, Waiting, Breaking, Guarded, Releasing, Ended, Gone,
            Results, LockFile, GuardFile
<1>1. Init => TypeOK
  BY DEF Init, TypeOK
<1>2. TypeOK /\ [Next]_vars => TypeOK'
  <2> SUFFICES ASSUME TypeOK, [Next]_vars PROVE TypeOK'
    OBVIOUS
  <2> USE DEF TypeOK
  <2>1. ASSUME NEW p \in Proc, Start(p) PROVE TypeOK'
    BY <2>1 DEF Start
  <2>2. ASSUME NEW p \in Proc, Create(p) PROVE TypeOK'
    BY <2>2 DEF Create
  <2>3. ASSUME NEW p \in Proc, Exists(p) PROVE TypeOK'
    BY <2>3 DEF Exists
  <2>4. ASSUME NEW p \in Proc, Write(p) PROVE TypeOK'
    BY <2>4 DEF Write
  <2>5. ASSUME NEW p \in Proc, Sync(p) PROVE TypeOK'
    BY <2>5 DEF Sync
  <2>6. ASSUME NEW p \in Proc, AcquireError(p) PROVE TypeOK'
    BY <2>6 DEF AcquireError
  <2>7. ASSUME NEW p \in Proc, Undo(p) PROVE TypeOK'
    BY <2>7 DEF Undo
  <2>8. ASSUME NEW p \in Proc, Read(p) PROVE TypeOK'
    BY <2>8 DEF Read, ReadHolder
  <2>9. ASSUME NEW p \in Proc, Judge(p) PROVE TypeOK'
    BY <2>9 DEF Judge
  <2>10. ASSUME NEW p \in Proc, Poll(p) PROVE TypeOK'
    BY <2>10 DEF Poll
  <2>11. ASSUME NEW p \in Proc, Busy(p) PROVE TypeOK'
    BY <2>11 DEF Busy
  <2>12. ASSUME NEW p \in Proc, OpenGuard(p) PROVE TypeOK'
    BY <2>12 DEF OpenGuard
  <2>13. ASSUME NEW p \in Proc, GuardExists(p) PROVE TypeOK'
    BY <2>13 DEF GuardExists
  <2>14. ASSUME NEW p \in Proc, StatGuard(p) PROVE TypeOK'
    BY <2>14 DEF StatGuard
  <2>15. ASSUME NEW p \in Proc, RmOldGuard(p) PROVE TypeOK'
    BY <2>15 DEF RmOldGuard
  <2>16. ASSUME NEW p \in Proc, Recheck(p) PROVE TypeOK'
    BY <2>16 DEF Recheck
  <2>17. ASSUME NEW p \in Proc, Restale(p) PROVE TypeOK'
    BY <2>17 DEF Restale
  <2>18. ASSUME NEW p \in Proc, Unlink(p) PROVE TypeOK'
    BY <2>18 DEF Unlink
  <2>19. ASSUME NEW p \in Proc, UnlinkError(p) PROVE TypeOK'
    BY <2>19 DEF UnlinkError
  <2>20. ASSUME NEW p \in Proc, RmGuard(p) PROVE TypeOK'
    BY <2>20 DEF RmGuard
  <2>21. ASSUME NEW p \in Proc, Release(p) PROVE TypeOK'
    BY <2>21 DEF Release
  <2>22. ASSUME NEW p \in Proc, ReleaseRead(p) PROVE TypeOK'
    BY <2>22 DEF ReleaseRead
  <2>23. ASSUME NEW p \in Proc, ReleaseUnlink(p) PROVE TypeOK'
    BY <2>23 DEF ReleaseUnlink
  <2>24. ASSUME NEW p \in Proc, ReleaseError(p) PROVE TypeOK'
    BY <2>24 DEF ReleaseError
  <2>25. ASSUME NEW p \in Proc, Exit(p) PROVE TypeOK'
    BY <2>25 DEF Exit
  <2>26. ASSUME NEW p \in Proc, Kill(p) PROVE TypeOK'
    BY <2>26 DEF Kill
  <2>27. CASE AgeLock
    BY <2>27 DEF AgeLock
  <2>28. CASE AgeGuard
    BY <2>28 DEF AgeGuard
  <2>29. CASE UNCHANGED vars
    BY <2>29 DEF vars
  <2> QED
    BY <2>1, <2>2, <2>3, <2>4, <2>5, <2>6, <2>7, <2>8, <2>9, <2>10, <2>11, <2>12, <2>13, <2>14, <2>15, <2>16, <2>17, <2>18, <2>19, <2>20, <2>21, <2>22, <2>23, <2>24, <2>25, <2>26, <2>27, <2>28, <2>29
       DEF Next, Run, Acquire, Wait, Break, ReleaseLock, AllGone
<1> QED
  BY <1>1, <1>2, PTL DEF Spec

\* Under the hypotheses every step preserves the rest of the invariant: a live
\* owner's file stays in place, and a recoverer removes only a dead one's.
LEMMA StepKeepsInv ==
  ASSUME ~GuardCrash, Slow = {}, IInv, [Next]_vars
  PROVE  OwnerNamed' /\ RecoverersRight'
<1> USE DEF PC, Acquiring, Waiting, Breaking, Guarded, Releasing, Ended, Gone,
            Owning, Results, LockFile, GuardFile
<1> USE DEF IInv, RecoverersRight, TypeOK
<1>1. ASSUME NEW p \in Proc, Start(p)
      PROVE  OwnerNamed' /\ RecoverersRight'
  BY <1>1 DEF Start, OwnerNamed, GuardNamed, LockOwned, JudgedDead,
       RecheckedUnchanged, UnlinkedDead
<1>2. ASSUME NEW p \in Proc, Create(p)
      PROVE  OwnerNamed' /\ RecoverersRight'
  <2>1. LockOwned'
    BY <1>2 DEF Create, LockOwned
  <2>2. OwnerNamed' /\ GuardNamed' /\ JudgedDead' /\ RecheckedUnchanged' /\ UnlinkedDead'
    BY <1>2 DEF Create, OwnerNamed, GuardNamed, JudgedDead, RecheckedUnchanged,
         UnlinkedDead
  <2> QED
    BY <2>1, <2>2
<1>3. ASSUME NEW p \in Proc, Exists(p)
      PROVE  OwnerNamed' /\ RecoverersRight'
  BY <1>3 DEF Exists, OwnerNamed, GuardNamed, LockOwned, JudgedDead,
       RecheckedUnchanged, UnlinkedDead
<1>4. ASSUME NEW p \in Proc, Write(p)
      PROVE  OwnerNamed' /\ RecoverersRight'
  BY <1>4 DEF Write, OwnerNamed, GuardNamed, LockOwned, JudgedDead,
       RecheckedUnchanged, UnlinkedDead
<1>5. ASSUME NEW p \in Proc, Sync(p)
      PROVE  OwnerNamed' /\ RecoverersRight'
  BY <1>5 DEF Sync, OwnerNamed, GuardNamed, LockOwned, JudgedDead,
       RecheckedUnchanged, UnlinkedDead
<1>6. ASSUME NEW p \in Proc, AcquireError(p)
      PROVE  OwnerNamed' /\ RecoverersRight'
  BY <1>6 DEF AcquireError, OwnerNamed, GuardNamed, LockOwned, JudgedDead,
       RecheckedUnchanged, UnlinkedDead
<1>7. ASSUME NEW p \in Proc, Undo(p)
      PROVE  OwnerNamed' /\ RecoverersRight'
  <2>1. OwnerNamed'
    BY <1>7 DEF Undo, OwnerNamed
  <2>2. RecheckedUnchanged'
    BY <1>7 DEF Undo, RecheckedUnchanged, OwnerNamed, JudgedDead
  <2>3. UnlinkedDead'
    BY <1>7 DEF Undo, UnlinkedDead, OwnerNamed
  <2>4. GuardNamed' /\ LockOwned' /\ JudgedDead'
    BY <1>7 DEF Undo, GuardNamed, LockOwned, JudgedDead
  <2> QED
    BY <2>1, <2>2, <2>3, <2>4
<1>8. ASSUME NEW p \in Proc, Read(p)
      PROVE  OwnerNamed' /\ RecoverersRight'
  BY <1>8 DEF Read, OwnerNamed, GuardNamed, LockOwned, JudgedDead,
       RecheckedUnchanged, UnlinkedDead
<1>9. ASSUME NEW p \in Proc, Judge(p)
      PROVE  OwnerNamed' /\ RecoverersRight'
  <2>1. JudgedDead'
    BY <1>9 DEF Judge, JudgedDead, IsStale, PidDead
  <2>2. OwnerNamed' /\ GuardNamed' /\ LockOwned' /\ RecheckedUnchanged' /\ UnlinkedDead'
    BY <1>9 DEF Judge, OwnerNamed, GuardNamed, LockOwned, RecheckedUnchanged,
         UnlinkedDead
  <2> QED
    BY <2>1, <2>2
<1>10. ASSUME NEW p \in Proc, Poll(p)
      PROVE  OwnerNamed' /\ RecoverersRight'
  BY <1>10 DEF Poll, OwnerNamed, GuardNamed, LockOwned, JudgedDead,
       RecheckedUnchanged, UnlinkedDead
<1>11. ASSUME NEW p \in Proc, Busy(p)
      PROVE  OwnerNamed' /\ RecoverersRight'
  BY <1>11 DEF Busy, OwnerNamed, GuardNamed, LockOwned, JudgedDead,
       RecheckedUnchanged, UnlinkedDead
<1>12. ASSUME NEW p \in Proc, OpenGuard(p)
      PROVE  OwnerNamed' /\ RecoverersRight'
  <2>1. GuardNamed'
    BY <1>12 DEF OpenGuard, GuardNamed
  <2>2. OwnerNamed' /\ LockOwned' /\ JudgedDead' /\ RecheckedUnchanged' /\ UnlinkedDead'
    BY <1>12 DEF OpenGuard, OwnerNamed, LockOwned, JudgedDead,
         RecheckedUnchanged, UnlinkedDead
  <2> QED
    BY <2>1, <2>2
<1>13. ASSUME NEW p \in Proc, GuardExists(p)
      PROVE  OwnerNamed' /\ RecoverersRight'
  BY <1>13 DEF GuardExists, OwnerNamed, GuardNamed, LockOwned, JudgedDead,
       RecheckedUnchanged, UnlinkedDead
<1>14. ASSUME NEW p \in Proc, StatGuard(p)
      PROVE  OwnerNamed' /\ RecoverersRight'
  BY <1>14 DEF StatGuard, OwnerNamed, GuardNamed, LockOwned, JudgedDead,
       RecheckedUnchanged, UnlinkedDead
<1>15. ASSUME NEW p \in Proc, RmOldGuard(p)
      PROVE  OwnerNamed' /\ RecoverersRight'
  BY <1>15 DEF RmOldGuard, OwnerNamed, GuardNamed, LockOwned, JudgedDead,
       RecheckedUnchanged, UnlinkedDead
<1>16. ASSUME NEW p \in Proc, Recheck(p)
      PROVE  OwnerNamed' /\ RecoverersRight'
  <2>1. RecheckedUnchanged'
    BY <1>16 DEF Recheck, RecheckedUnchanged, ReadHolder, LockOwned
  <2>2. OwnerNamed' /\ GuardNamed' /\ LockOwned' /\ JudgedDead' /\ UnlinkedDead'
    BY <1>16 DEF Recheck, OwnerNamed, GuardNamed, LockOwned, JudgedDead,
         UnlinkedDead
  <2> QED
    BY <2>1, <2>2
<1>17. ASSUME NEW p \in Proc, Restale(p)
      PROVE  OwnerNamed' /\ RecoverersRight'
  <2>1. UnlinkedDead'
    BY <1>17 DEF Restale, UnlinkedDead, IsStale, PidDead, RecheckedUnchanged,
         JudgedDead
  <2>2. OwnerNamed' /\ GuardNamed' /\ LockOwned' /\ JudgedDead' /\ RecheckedUnchanged'
    BY <1>17 DEF Restale, OwnerNamed, GuardNamed, LockOwned, JudgedDead,
         RecheckedUnchanged
  <2> QED
    BY <2>1, <2>2
<1>18. ASSUME NEW p \in Proc, Unlink(p)
      PROVE  OwnerNamed' /\ RecoverersRight'
  <2>1. OwnerNamed'
    BY <1>18 DEF Unlink, OwnerNamed, UnlinkedDead
  <2>2. RecheckedUnchanged'
    BY <1>18 DEF Unlink, RecheckedUnchanged, GuardNamed
  <2>3. UnlinkedDead'
    BY <1>18 DEF Unlink, UnlinkedDead, GuardNamed
  <2>4. GuardNamed' /\ LockOwned' /\ JudgedDead'
    BY <1>18 DEF Unlink, GuardNamed, LockOwned, JudgedDead
  <2> QED
    BY <2>1, <2>2, <2>3, <2>4
<1>19. ASSUME NEW p \in Proc, UnlinkError(p)
      PROVE  OwnerNamed' /\ RecoverersRight'
  <2>1. OwnerNamed'
    BY <1>19 DEF UnlinkError, OwnerNamed, UnlinkedDead
  <2>2. RecheckedUnchanged'
    BY <1>19 DEF UnlinkError, RecheckedUnchanged, GuardNamed
  <2>3. UnlinkedDead'
    BY <1>19 DEF UnlinkError, UnlinkedDead, GuardNamed
  <2>4. GuardNamed' /\ LockOwned' /\ JudgedDead'
    BY <1>19 DEF UnlinkError, GuardNamed, LockOwned, JudgedDead
  <2> QED
    BY <2>1, <2>2, <2>3, <2>4
<1>20. ASSUME NEW p \in Proc, RmGuard(p)
      PROVE  OwnerNamed' /\ RecoverersRight'
  <2>1. OwnerNamed'
    BY <1>20 DEF RmGuard, OwnerNamed
  <2>2. GuardNamed'
    BY <1>20 DEF RmGuard, GuardNamed
  <2>3. RecheckedUnchanged'
    BY <1>20 DEF RmGuard, RecheckedUnchanged
  <2>4. UnlinkedDead'
    BY <1>20 DEF RmGuard, UnlinkedDead
  <2>5. LockOwned' /\ JudgedDead'
    BY <1>20 DEF RmGuard, LockOwned, JudgedDead
  <2> QED
    BY <2>1, <2>2, <2>3, <2>4, <2>5
<1>21. ASSUME NEW p \in Proc, Release(p)
      PROVE  OwnerNamed' /\ RecoverersRight'
  BY <1>21 DEF Release, OwnerNamed, GuardNamed, LockOwned, JudgedDead,
       RecheckedUnchanged, UnlinkedDead
<1>22. ASSUME NEW p \in Proc, ReleaseRead(p)
      PROVE  OwnerNamed' /\ RecoverersRight'
  <2>1. LockOwned'
    BY <1>22 DEF ReleaseRead, LockOwned, OwnerNamed, ReadHolder
  <2>2. OwnerNamed' /\ GuardNamed' /\ JudgedDead' /\ RecheckedUnchanged' /\ UnlinkedDead'
    BY <1>22 DEF ReleaseRead, OwnerNamed, GuardNamed, JudgedDead,
         RecheckedUnchanged, UnlinkedDead
  <2> QED
    BY <2>1, <2>2
<1>23. ASSUME NEW p \in Proc, ReleaseUnlink(p)
      PROVE  OwnerNamed' /\ RecoverersRight'
  <2>1. OwnerNamed'
    BY <1>23 DEF ReleaseUnlink, OwnerNamed
  <2>2. RecheckedUnchanged'
    BY <1>23 DEF ReleaseUnlink, RecheckedUnchanged, OwnerNamed, JudgedDead
  <2>3. UnlinkedDead'
    BY <1>23 DEF ReleaseUnlink, UnlinkedDead, OwnerNamed
  <2>4. GuardNamed' /\ LockOwned' /\ JudgedDead'
    BY <1>23 DEF ReleaseUnlink, GuardNamed, LockOwned, JudgedDead
  <2> QED
    BY <2>1, <2>2, <2>3, <2>4
<1>24. ASSUME NEW p \in Proc, ReleaseError(p)
      PROVE  OwnerNamed' /\ RecoverersRight'
  BY <1>24 DEF ReleaseError, OwnerNamed, GuardNamed, LockOwned, JudgedDead,
       RecheckedUnchanged, UnlinkedDead
<1>25. ASSUME NEW p \in Proc, Exit(p)
      PROVE  OwnerNamed' /\ RecoverersRight'
  BY <1>25 DEF Exit, OwnerNamed, GuardNamed, LockOwned, JudgedDead,
       RecheckedUnchanged, UnlinkedDead
<1>26. ASSUME NEW p \in Proc, Kill(p)
      PROVE  OwnerNamed' /\ RecoverersRight'
  BY <1>26 DEF Kill, OwnerNamed, GuardNamed, LockOwned, JudgedDead,
       RecheckedUnchanged, UnlinkedDead
<1>27. CASE AgeLock
  <2>1. OwnerNamed'
    BY <1>27 DEF AgeLock, OwnerNamed
  <2>2. LockOwned'
    BY <1>27 DEF AgeLock, LockOwned, OwnerNamed
  <2>3. RecheckedUnchanged'
    BY <1>27 DEF AgeLock, RecheckedUnchanged, LockOwned
  <2>4. UnlinkedDead'
    BY <1>27 DEF AgeLock, UnlinkedDead
  <2>5. GuardNamed' /\ JudgedDead'
    BY <1>27 DEF AgeLock, GuardNamed, JudgedDead
  <2> QED
    BY <2>1, <2>2, <2>3, <2>4, <2>5
<1>28. CASE AgeGuard
  BY <1>28 DEF AgeGuard, OwnerNamed, GuardNamed, LockOwned, JudgedDead,
       RecheckedUnchanged, UnlinkedDead
<1>29. CASE UNCHANGED vars
  BY <1>29 DEF vars, OwnerNamed, GuardNamed, LockOwned, JudgedDead,
       RecheckedUnchanged, UnlinkedDead
<1> QED
  BY <1>1, <1>2, <1>3, <1>4, <1>5, <1>6, <1>7, <1>8, <1>9, <1>10,
     <1>11, <1>12, <1>13, <1>14, <1>15, <1>16, <1>17, <1>18, <1>19, <1>20,
     <1>21, <1>22, <1>23, <1>24, <1>25, <1>26, <1>27, <1>28, <1>29
     DEF Next, Run, Acquire, Wait, Break, ReleaseLock, AllGone

\* Under the hypotheses every step keeps recoverers to the torn locks and to the
\* complete ones of their own machine.
LEMMA StepBreaksAtHome ==
  ASSUME ~GuardCrash, Slow = {}, IInv, [Next]_vars
  PROVE  BreaksAtHome'
<1> USE DEF IInv, TypeOK, RecoverersRight, BreaksAtHome, LockFile
<1>1. ASSUME NEW p \in Proc, Create(p)
      PROVE  BreaksAtHome'
  BY <1>1 DEF Create
<1>2. ASSUME NEW p \in Proc, Write(p)
      PROVE  BreaksAtHome'
  BY <1>2 DEF Write, UnlinkedDead
<1>3. ASSUME NEW p \in Proc, Undo(p) \/ ReleaseUnlink(p)
      PROVE  BreaksAtHome'
  BY <1>3 DEF Undo, ReleaseUnlink
<1>4. ASSUME NEW p \in Proc, Unlink(p) \/ UnlinkError(p)
      PROVE  BreaksAtHome'
  BY <1>4 DEF Unlink, UnlinkError
<1>5. ASSUME NEW p \in Proc, Recheck(p)
      PROVE  BreaksAtHome'
  BY <1>5 DEF Recheck, ReadHolder
<1>6. ASSUME NEW p \in Proc, Restale(p)
      PROVE  BreaksAtHome'
  BY <1>6 DEF Restale, IsStale, PidDead, Gone, RecheckedUnchanged
<1>7. ASSUME NEW p \in Proc,
             Start(p) \/ Exists(p) \/ Sync(p) \/ AcquireError(p) \/ Read(p)
               \/ Judge(p) \/ Poll(p) \/ Busy(p) \/ OpenGuard(p) \/ GuardExists(p)
               \/ StatGuard(p) \/ RmOldGuard(p) \/ RmGuard(p) \/ Release(p)
               \/ ReleaseRead(p) \/ ReleaseError(p) \/ Exit(p) \/ Kill(p)
      PROVE  BreaksAtHome'
  <2>1. /\ lock' = lock
        /\ \A q \in Proc : pc'[q] \in {"restale", "unlink"} =>
             pc'[q] = pc[q] /\ judged'[q] = judged[q]
        /\ \A q \in Proc : pc[q] = "dead" => pc'[q] = "dead"
    BY <1>7 DEF Start, Exists, Sync, AcquireError, Read, Judge, Poll, Busy,
         OpenGuard, GuardExists, StatGuard, RmOldGuard, RmGuard, Release,
         ReleaseRead, ReleaseError, Exit, Kill, Ended, Gone, Results
  <2> QED
    BY <2>1
<1>8. CASE AgeLock
  BY <1>8 DEF AgeLock
<1>9. CASE UNCHANGED <<lock, pc, judged>>
  BY <1>9
<1> QED
  BY <1>1, <1>2, <1>3, <1>4, <1>5, <1>6, <1>7, <1>8, <1>9
     DEF Next, Run, Acquire, Wait, Break, ReleaseLock, AgeGuard, AllGone, vars

\* In every reachable state a live owner's lock is at the path, and recoverers are
\* where their earlier reads entitle them to be.
THEOREM InductiveInvariant ==
  ASSUME ~GuardCrash, Slow = {}
  PROVE  Spec => []IInv
<1>1. Init => IInv
  BY DEF Init, IInv, TypeOK, OwnerNamed, RecoverersRight, GuardNamed,
         LockOwned, JudgedDead, RecheckedUnchanged, UnlinkedDead, BreaksAtHome, PC, Owning,
         Acquiring, Waiting, Breaking, Guarded, Releasing, Ended, Gone, Results
<1>2. IInv /\ TypeOK' /\ [Next]_vars => IInv'
  BY StepKeepsInv, StepBreaksAtHome DEF IInv
<1> QED
  BY <1>1, <1>2, TypeCorrect, PTL DEF Spec

\* acquireStateLock is exclusive: at most one live command holds the lock.
THEOREM MutualExclusionHolds ==
  ASSUME ~GuardCrash, Slow = {}
  PROVE  Spec => []MutualExclusion
<1>1. IInv => MutualExclusion
  BY DEF IInv, OwnerNamed, MutualExclusion, Owning
<1> QED
  BY <1>1, InductiveInvariant, PTL

\* While a live command owns the lock, the file at the lock path is its own.
THEOREM OwnerNamedHolds ==
  ASSUME ~GuardCrash, Slow = {}
  PROVE  Spec => []OwnerNamed
<1>1. IInv => OwnerNamed
  BY DEF IInv
<1> QED
  BY <1>1, InductiveInvariant, PTL

\* breakStaleLock runs under its guard in one command at a time.
THEOREM GuardExclusiveHolds ==
  ASSUME ~GuardCrash, Slow = {}
  PROVE  Spec => []GuardExclusive
<1>1. IInv => GuardExclusive
  BY DEF IInv, RecoverersRight, GuardNamed, GuardExclusive
<1> QED
  BY <1>1, InductiveInvariant, PTL

\* Recoverers keep to the locks of dead commands.
THEOREM RecoverersRightHolds ==
  ASSUME ~GuardCrash, Slow = {}
  PROVE  Spec => []RecoverersRight
<1>1. IInv => RecoverersRight
  BY DEF IInv
<1> QED
  BY <1>1, InductiveInvariant, PTL

\* A complete lock leaves its path by a step of its own holder, or because a
\* recoverer on the holder's machine found it dead.
THEOREM ForeignLockKeptHolds ==
  ASSUME ~GuardCrash, Slow = {}
  PROVE  Spec => ForeignLockKept
<1> DEFINE Kept == \A q \in Proc :
             (lock # NoFile /\ lock.token = q /\ lock.written /\ lock' # lock
                /\ lock' = NoFile)
             => \/ pc[q] \in {"runlink", "undo"}
                \/ /\ pc[q] = "dead"
                   /\ \E p \in Proc : pc[p] = "unlink" /\ HostOf[p] = HostOf[q]
<1>1. IInv /\ [Next]_vars => [Kept]_vars
  <2> SUFFICES ASSUME IInv, [Next]_vars, lock # NoFile, lock' = NoFile
               PROVE  Kept
    OBVIOUS
  <2>1. PICK p \in Proc : Acquire(p) \/ Wait(p) \/ Break(p) \/ ReleaseLock(p)
    <3>1. ~AgeLock
      BY DEF AgeLock, IInv, TypeOK, LockFile
    <3> QED
      BY <3>1 DEF Next, Run, AgeGuard, AllGone, vars, Exit, Kill
  <2>2. CASE Undo(p) \/ ReleaseUnlink(p)
    BY <2>2 DEF Undo, ReleaseUnlink, IInv, OwnerNamed, Owning
  <2>3. CASE Unlink(p) \/ UnlinkError(p)
    BY <2>3 DEF Unlink, UnlinkError, IInv, BreaksAtHome
  <2>4. CASE Acquire(p) /\ ~Undo(p)
    BY <2>4 DEF Acquire, Start, Create, Exists, Write, Sync, AcquireError
  <2>5. CASE Wait(p)
    BY <2>5 DEF Wait, Read, Judge, Poll, Busy
  <2>6. CASE Break(p) /\ ~Unlink(p) /\ ~UnlinkError(p)
    BY <2>6 DEF Break, OpenGuard, GuardExists, StatGuard, RmOldGuard, Recheck,
         Restale, RmGuard
  <2>7. CASE ReleaseLock(p) /\ ~ReleaseUnlink(p)
    BY <2>7 DEF ReleaseLock, Release, ReleaseRead, ReleaseError
  <2> QED
    BY <2>1, <2>2, <2>3, <2>4, <2>5, <2>6, <2>7 DEF Acquire, Break, ReleaseLock
<1> QED
  BY <1>1, InductiveInvariant, PTL DEF Spec, ForeignLockKept

-----------------------------------------------------------------------------
(* StateLock implements SessionLock.                                       *)

\* A step moves at most one command: into its session from sync only, out of it
\* for good.
Moves(p, label) ==
  /\ pc' = [pc EXCEPT ![p] = label]
  /\ label = "held" => pc[p] = "sync"
  /\ pc[p] \in Over \cup {"held"} => label \in Over

\* A step moves one process only.
LEMMA StepMovesOne ==
  ASSUME TypeOK, [Next]_vars
  PROVE  pc' = pc \/ \E p \in Proc, label \in PC : Moves(p, label)
<1> USE DEF PC, Acquiring, Waiting, Breaking, Guarded, Releasing, Ended, Gone,
            Over, Moves, TypeOK
<1>1. ASSUME NEW p \in Proc, Acquire(p) \/ Wait(p)
      PROVE  \E label \in PC : Moves(p, label)
  BY <1>1 DEF Acquire, Wait, Start, Create, Exists, Write, Sync, AcquireError,
              Undo, Read, Judge, Poll, Busy
<1>2. ASSUME NEW p \in Proc, Break(p)
      PROVE  \E label \in PC : Moves(p, label)
  BY <1>2 DEF Break, OpenGuard, GuardExists, StatGuard, RmOldGuard, Recheck,
              Restale, Unlink, UnlinkError, RmGuard, Results
<1>3. ASSUME NEW p \in Proc, ReleaseLock(p) \/ Exit(p) \/ Kill(p)
      PROVE  \E label \in PC : Moves(p, label)
  BY <1>3 DEF ReleaseLock, Release, ReleaseRead, ReleaseUnlink, ReleaseError,
              Exit, Kill
<1>4. CASE AgeLock \/ AgeGuard \/ AllGone \/ UNCHANGED vars
  BY <1>4 DEF AgeLock, AgeGuard, AllGone, vars
<1> QED
  BY <1>1, <1>2, <1>3, <1>4 DEF Next, Run

\* The command in the session is the one that holds the lock.
LEMMA HolderIsHeld ==
  ASSUME MutualExclusion
  PROVE  /\ \A p \in Proc : pc[p] = "held" <=> SessionHolder = p
         /\ (\A p \in Proc : pc[p] # "held") <=> SessionHolder = Nobody
BY NobodyAssumption DEF SessionHolder, MutualExclusion

\* What the process at held means for the state after the step.
LEMMA HolderIsHeldNext ==
  ASSUME MutualExclusion'
  PROVE  /\ \A p \in Proc : pc'[p] = "held" <=> SessionHolder' = p
         /\ (\A p \in Proc : pc'[p] # "held") <=> SessionHolder' = Nobody
BY NobodyAssumption DEF SessionHolder, MutualExclusion

\* The lock implements the session: every step is a step of the session or none.
THEOREM SessionImplemented ==
  ASSUME ~GuardCrash, Slow = {}
  PROVE  Spec => ImplementsSession
<1> DEFINE left == {p \in Proc : pc[p] \in Over}
<1> USE DEF Over, Releasing, Ended, Gone
<1>1. Init => Session!Init
  BY DEF Init, Session!Init, SessionHolder
<1>2. IInv /\ IInv' /\ [Next]_vars => [Session!Next]_<<SessionHolder, left>>
  <2> SUFFICES ASSUME IInv, IInv', [Next]_vars
               PROVE  Session!Next \/ UNCHANGED <<SessionHolder, left>>
    OBVIOUS
  <2>1. MutualExclusion /\ MutualExclusion'
    BY DEF IInv, OwnerNamed, MutualExclusion, Owning
  <2>2. CASE pc' = pc
    BY <2>2 DEF SessionHolder
  <2>3. ASSUME NEW p \in Proc, NEW label \in PC, Moves(p, label)
        PROVE  Session!Next \/ UNCHANGED <<SessionHolder, left>>
    <3> USE <2>3 DEF Moves
    <3>1. /\ pc' = [pc EXCEPT ![p] = label]
          /\ pc \in [Proc -> PC]
      BY DEF IInv, TypeOK
    <3>2. CASE label = "held"
      <4>1. \A q \in Proc : pc[q] # "held"
        BY <3>2 DEF IInv, OwnerNamed, Owning
      <4>2. SessionHolder = Nobody /\ SessionHolder' = p
        BY <3>1, <3>2, <4>1, <2>1, HolderIsHeld, HolderIsHeldNext
      <4>3. p \notin left /\ left' = left
        BY <3>1, <3>2
      <4> QED
        BY <4>2, <4>3 DEF Session!Next, Session!Enter
    <3>3. CASE pc[p] = "held"
      <4>1. SessionHolder = p /\ left' = left \cup {p}
        BY <3>1, <3>3, <2>1, HolderIsHeld
      <4>2. SessionHolder' = Nobody
        <5>1. \A q \in Proc : pc'[q] # "held"
          BY <3>1, <3>3, <2>1 DEF MutualExclusion
        <5> QED
          BY <5>1 DEF SessionHolder
      <4> QED
        BY <4>1, <4>2 DEF Session!Next, Session!Leave
    <3>4. CASE label # "held" /\ pc[p] # "held"
      <4>1. \A q \in Proc : pc'[q] = "held" <=> pc[q] = "held"
        BY <3>1, <3>4
      <4>2. SessionHolder # p /\ UNCHANGED SessionHolder
        BY <3>4, <4>1, <2>1, HolderIsHeld, HolderIsHeldNext DEF SessionHolder
      <4>3. left' = left \/ left' = left \cup {p}
        BY <3>1
      <4> QED
        BY <4>2, <4>3 DEF Session!Next, Session!GiveUp
    <3> QED
      BY <3>2, <3>3, <3>4
  <2> QED
    BY <2>2, <2>3, StepMovesOne DEF IInv
<1> QED
  BY <1>1, <1>2, InductiveInvariant, PTL DEF Spec, Session!Spec, ImplementsSession
=============================================================================
