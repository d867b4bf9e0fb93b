----------------------------- MODULE StateLock -----------------------------
(***************************************************************************)
(* The exclusive state lock of the gateway (npm/ai-skills/lib/journal/     *)
(* journal.ts, acquireStateLock and its helpers).  Every mutating command  *)
(* is a process that takes the lock once, works, and releases it.  The     *)
(* lock is a file created with O_EXCL; a lock whose holder died is broken  *)
(* by a waiter, and waiters that break a lock serialise on a second O_EXCL *)
(* file, the recovery guard.  Each action is one file-system call of one   *)
(* process (one await of the code), so calls of different processes        *)
(* interleave between any two of them.                                     *)
(***************************************************************************)
EXTENDS Naturals

CONSTANTS
  Proc,        \* command processes; the lock's token is the process
  Host,        \* machines that may share one home directory
  HostOf,      \* the machine each process runs on
  Slow,        \* processes that may be suspended for longer than TORN_LOCK_MS
  Patient,     \* processes whose waitMs never runs out
  Faulty,      \* processes whose file writes and unlinks may fail
  GuardCrash,  \* whether a process may be killed while it has the guard
  Nobody       \* the holder of a free lock, as SessionLock sees it

ASSUME HostAssumption == HostOf \in [Proc -> Host]
ASSUME SubsetAssumption ==
  Slow \subseteq Proc /\ Patient \subseteq Proc /\ Faulty \subseteq Proc
ASSUME GuardCrashAssumption == GuardCrash \in BOOLEAN
ASSUME NobodyAssumption == Nobody \notin Proc

\* readLockHolder's two results that name no holder: no file, an unreadable file.
Vanished == [kind |-> "vanished"]
Torn     == [kind |-> "torn"]
Held(p)  == [kind |-> "held", token |-> p]

NoFile == [kind |-> "nofile"]

\* A lock file: who created it, whether its holder record is complete, and
\* whether its mtime is older than TORN_LOCK_MS.  A guard file has no content.
LockFile  == [kind : {"file"}, token : Proc, written : BOOLEAN, old : BOOLEAN]
GuardFile == [kind : {"file"}, token : Proc, old : BOOLEAN]

VARIABLES
  lock,    \* the file at the lock path
  guard,   \* the file at <lock>.recover
  pc,      \* the next call of each process
  judged,  \* the holder record each waiter last read
  result   \* what breakStaleLock will return once its guard is removed

vars == <<lock, guard, pc, judged, result>>

Acquiring == {"create", "write", "sync", "undo"}
Waiting   == {"read", "judge", "wait"}
Breaking  == {"guard", "statguard", "rmguard"}
Guarded   == {"recheck", "restale", "unlink", "unguard"}
Releasing == {"rread", "runlink"}
Ended     == {"done", "failed"}
Gone      == {"dead"}

PC == {"start", "held"} \cup Acquiring \cup Waiting \cup Breaking
        \cup Guarded \cup Releasing \cup Ended \cup Gone

\* Processes between the O_EXCL create of their own lock file and the unlink of it.
Owning == {"write", "sync", "undo", "held", "rread", "runlink"}

Results == {"unchanged", "broken", "error"}

TypeOK ==
  /\ lock \in {NoFile} \cup LockFile
  /\ guard \in {NoFile} \cup GuardFile
  /\ pc \in [Proc -> PC]
  /\ judged \in [Proc -> {Vanished, Torn} \cup {Held(p) : p \in Proc}]
  /\ result \in [Proc -> Results]

Init ==
  /\ lock = NoFile
  /\ guard = NoFile
  /\ pc = [p \in Proc |-> "start"]
  /\ judged = [p \in Proc |-> Vanished]
  /\ result = [p \in Proc |-> "unchanged"]

Goto(p, label) == pc' = [pc EXCEPT ![p] = label]

Step(p, from, to) == pc[p] = from /\ Goto(p, to)

-----------------------------------------------------------------------------
(* What a waiter can observe.                                              *)

\* readLockHolder: the record in the file at the lock path.
ReadHolder ==
  IF lock = NoFile THEN Vanished
  ELSE IF lock.written THEN Held(lock.token)
  ELSE Torn

\* pidAlive, as seen from p: a process that ended or was killed has no pid.
PidDead(q) == pc[q] \in Gone

\* Mutant: an unreadable lock is stale however young it is.
IsStaleTornAtOnce(p, holder) ==
  \/ holder = Torn /\ lock # NoFile
  \/ \E q \in Proc : holder = Held(q) /\ HostOf[q] = HostOf[p] /\ PidDead(q)

\* Mutant: the pid is looked up whatever host it ran on.
IsStaleAnyHost(p, holder) ==
  \/ holder = Torn /\ lock # NoFile /\ lock.old
  \/ \E q \in Proc : holder = Held(q) /\ PidDead(q)

\* isStaleLock: an unreadable lock is stale once its file is old; a readable
\* one is stale when its holder ran on p's host and its pid is dead.
IsStale(p, holder) ==
  \/ holder = Torn /\ lock # NoFile /\ lock.old
  \/ \E q \in Proc : holder = Held(q) /\ HostOf[q] = HostOf[p] /\ PidDead(q)

-----------------------------------------------------------------------------
(* acquireStateLock: create, write the holder record, flush.               *)

Start(p) ==
  /\ Step(p, "start", "create")
  /\ UNCHANGED <<lock, guard, judged, result>>

\* open(path, "wx") succeeds only when nothing is there.
Create(p) ==
  /\ Step(p, "create", "write")
  /\ lock = NoFile
  /\ lock' = [kind |-> "file", token |-> p, written |-> FALSE, old |-> FALSE]
  /\ UNCHANGED <<guard, judged, result>>

\* EEXIST: go and look at who has it.
Exists(p) ==
  /\ Step(p, "create", "read")
  /\ lock # NoFile
  /\ UNCHANGED <<lock, guard, judged, result>>

\* The write goes to the open file: it shows at the path only while that file
\* is still there.
Write(p) ==
  /\ Step(p, "write", "sync")
  /\ lock' = IF lock # NoFile /\ lock.token = p
             THEN [kind |-> "file", token |-> p, written |-> TRUE, old |-> FALSE]
             ELSE lock
  /\ UNCHANGED <<guard, judged, result>>

Sync(p) ==
  /\ Step(p, "sync", "held")
  /\ UNCHANGED <<lock, guard, judged, result>>

\* The write or a flush throws: the call takes its file back before failing.
AcquireError(p) ==
  /\ p \in Faulty
  /\ pc[p] \in {"write", "sync"}
  /\ Goto(p, "undo")
  /\ UNCHANGED <<lock, guard, judged, result>>

\* unlink(path).catch(() => undefined): removes what is at the path, or fails
\* silently and leaves it.
Undo(p) ==
  /\ Step(p, "undo", "failed")
  /\ lock' \in {NoFile, lock}
  /\ UNCHANGED <<guard, judged, result>>

-----------------------------------------------------------------------------
(* The wait loop.                                                          *)

\* A lock that vanished is retried at once.
Read(p) ==
  /\ pc[p] = "read"
  /\ judged' = [judged EXCEPT ![p] = ReadHolder]
  /\ Goto(p, IF lock = NoFile THEN "create" ELSE "judge")
  /\ UNCHANGED <<lock, guard, result>>

Judge(p) ==
  /\ pc[p] = "judge"
  /\ Goto(p, IF IsStale(p, judged[p]) THEN "guard" ELSE "wait")
  /\ UNCHANGED <<lock, guard, judged, result>>

\* The wait budget is left: sleep 50 ms and try to create the lock again.
Poll(p) ==
  /\ Step(p, "wait", "create")
  /\ UNCHANGED <<lock, guard, judged, result>>

\* The wait budget is spent: StateLockBusyError.
Busy(p) ==
  /\ p \notin Patient
  /\ Step(p, "wait", "failed")
  /\ UNCHANGED <<lock, guard, judged, result>>

-----------------------------------------------------------------------------
(* breakStaleLock.                                                         *)

OpenGuard(p) ==
  /\ Step(p, "guard", "recheck")
  /\ guard = NoFile
  /\ guard' = [kind |-> "file", token |-> p, old |-> FALSE]
  /\ result' = [result EXCEPT ![p] = "unchanged"]
  /\ UNCHANGED <<lock, judged>>

GuardExists(p) ==
  /\ Step(p, "guard", "statguard")
  /\ guard # NoFile
  /\ UNCHANGED <<lock, guard, judged, result>>

\* Another recoverer has the guard: leave it alone unless it is old.
StatGuard(p) ==
  /\ pc[p] = "statguard"
  /\ Goto(p, IF guard # NoFile /\ guard.old THEN "rmguard" ELSE "wait")
  /\ UNCHANGED <<lock, guard, judged, result>>

\* Mutant: an old guard is taken for a live recoverer's.
RmOldGuardNever(p) ==
  /\ Step(p, "rmguard", "wait")
  /\ UNCHANGED <<lock, guard, judged, result>>

\* rm(guard, { force: true }) removes whatever guard is there by now.
RmOldGuard(p) ==
  /\ Step(p, "rmguard", "wait")
  /\ guard' = NoFile
  /\ UNCHANGED <<lock, judged, result>>

\* Mutant: the lock judged before the guard was taken is trusted.
RecheckNothing(p) ==
  /\ pc[p] = "recheck"
  /\ Goto(p, IF lock # NoFile THEN "restale" ELSE "unguard")
  /\ UNCHANGED <<lock, guard, judged, result>>

\* Under the guard the lock is read again: it must be the one that was judged.
Recheck(p) ==
  /\ pc[p] = "recheck"
  /\ Goto(p, IF ReadHolder = judged[p] THEN "restale" ELSE "unguard")
  /\ UNCHANGED <<lock, guard, judged, result>>

Restale(p) ==
  /\ pc[p] = "restale"
  /\ Goto(p, IF IsStale(p, judged[p]) THEN "unlink" ELSE "unguard")
  /\ UNCHANGED <<lock, guard, judged, result>>

\* unlink(path) removes whatever lock is there by now.
Unlink(p) ==
  /\ Step(p, "unlink", "unguard")
  /\ lock' = NoFile
  /\ result' = [result EXCEPT ![p] = "broken"]
  /\ UNCHANGED <<guard, judged>>

\* The unlink, or the directory flush after it, throws.
UnlinkError(p) ==
  /\ p \in Faulty
  /\ Step(p, "unlink", "unguard")
  /\ lock' \in {NoFile, lock}
  /\ result' = [result EXCEPT ![p] = "error"]
  /\ UNCHANGED <<guard, judged>>

\* finally: rm(guard, { force: true }), then return or rethrow.
RmGuard(p) ==
  /\ pc[p] = "unguard"
  /\ guard' = NoFile
  /\ Goto(p, CASE result[p] = "broken"    -> "create"
               [] result[p] = "unchanged" -> "wait"
               [] result[p] = "error"     -> "failed")
  /\ UNCHANGED <<lock, judged, result>>

-----------------------------------------------------------------------------
(* releaseStateLock, the end of a process, and time.                       *)

Release(p) ==
  /\ Step(p, "held", "rread")
  /\ UNCHANGED <<lock, guard, judged, result>>

\* Only a lock that carries this call's token is removed.
ReleaseRead(p) ==
  /\ pc[p] = "rread"
  /\ Goto(p, IF ReadHolder = Held(p) THEN "runlink" ELSE "done")
  /\ UNCHANGED <<lock, guard, judged, result>>

ReleaseUnlink(p) ==
  /\ Step(p, "runlink", "done")
  /\ lock' = NoFile
  /\ UNCHANGED <<guard, judged, result>>

ReleaseError(p) ==
  /\ p \in Faulty
  /\ Step(p, "runlink", "failed")
  /\ UNCHANGED <<lock, guard, judged, result>>

\* A command that ended exits; its pid is then dead.
Exit(p) ==
  /\ pc[p] \in Ended
  /\ Goto(p, "dead")
  /\ UNCHANGED <<lock, guard, judged, result>>

\* A command is killed (SIGKILL, power loss) between two of its calls.
Kill(p) ==
  /\ pc[p] \notin Ended \cup Gone
  /\ pc[p] \in Guarded => GuardCrash
  /\ Goto(p, "dead")
  /\ UNCHANGED <<lock, guard, judged, result>>

\* TORN_LOCK_MS pass since the lock file's mtime.  A process that is not slow
\* makes its next call sooner than that: this much time cannot pass between the
\* create and the write of its own lock, and between the re-read of the path by a
\* recoverer and its stat of it no lock but an abandoned torn one grows old.
AgeLock ==
  /\ lock # NoFile
  /\ ~lock.old
  /\ \A p \in Proc \ Slow :
       /\ lock.token = p => pc[p] \notin {"write", "undo"}
       /\ pc[p] = "restale" => ~lock.written /\ pc[lock.token] \in Ended \cup Gone
  /\ lock' = [lock EXCEPT !.old = TRUE]
  /\ UNCHANGED <<guard, pc, judged, result>>

\* TORN_LOCK_MS pass since the guard was created.
AgeGuard ==
  /\ guard # NoFile
  /\ ~guard.old
  /\ guard.token \notin Slow => pc[guard.token] \notin Guarded
  /\ guard' = [guard EXCEPT !.old = TRUE]
  /\ UNCHANGED <<lock, pc, judged, result>>

-----------------------------------------------------------------------------
Acquire(p) == Start(p) \/ Create(p) \/ Exists(p) \/ Write(p) \/ Sync(p)
                \/ AcquireError(p) \/ Undo(p)

Wait(p) == Read(p) \/ Judge(p) \/ Poll(p) \/ Busy(p)

Break(p) == OpenGuard(p) \/ GuardExists(p) \/ StatGuard(p) \/ RmOldGuard(p)
              \/ Recheck(p) \/ Restale(p) \/ Unlink(p) \/ UnlinkError(p)
              \/ RmGuard(p)

ReleaseLock(p) == Release(p) \/ ReleaseRead(p) \/ ReleaseUnlink(p)
                    \/ ReleaseError(p)

\* What a process that is not killed does on its own.
Run(p) == Acquire(p) \/ Wait(p) \/ Break(p) \/ ReleaseLock(p) \/ Exit(p)

\* Every process has ended: nothing is left to happen.
AllGone == (\A p \in Proc : pc[p] = "dead") /\ UNCHANGED vars

Next ==
  \/ \E p \in Proc : Run(p) \/ Kill(p)
  \/ AgeLock
  \/ AgeGuard
  \/ AllGone

Spec == Init /\ [][Next]_vars

\* A live process keeps making calls, and time passes.
Fairness ==
  /\ \A p \in Proc : WF_vars(Run(p))
  /\ WF_vars(AgeLock)
  /\ WF_vars(AgeGuard)

LiveSpec == Spec /\ Fairness

-----------------------------------------------------------------------------
(* Properties.                                                             *)

\* At most one live command is between a successful acquireStateLock and its
\* release: no two sessions recover, plan or apply at the same time.
MutualExclusion ==
  \A p, q \in Proc : pc[p] = "held" /\ pc[q] = "held" => p = q

\* breakStaleLock: "A fresh lock is never moved or deleted, and the lock path is
\* never empty while a valid holder has it."  While a live process owns the lock
\* the file at the path is its own, whole as soon as it was written.
OwnerNamed ==
  \A p \in Proc :
    pc[p] \in Owning =>
      /\ lock # NoFile
      /\ lock.token = p
      /\ pc[p] \in {"sync", "held", "rread", "runlink"} => lock.written

\* Recoverers serialise on the guard: at most one is between the re-read of the
\* lock and the removal of it.
GuardExclusive ==
  \A p, q \in Proc : pc[p] \in Guarded /\ pc[q] \in Guarded => p = q

\* What a recoverer may rely on at each step, when no recoverer is killed under
\* the guard and none is suspended for TORN_LOCK_MS.  The guard is held by the
\* recoverer it names; a lock whose owner is not alive can only be removed by
\* that recoverer; and the lock it is about to remove is still the dead one.
GuardNamed ==
  /\ guard # NoFile => pc[guard.token] \in Guarded /\ ~guard.old
  /\ \A p \in Proc : /\ pc[p] \in Guarded => guard # NoFile /\ guard.token = p
                    /\ pc[p] # "rmguard"

LockOwned ==
  lock # NoFile =>
    /\ pc[lock.token] \in Owning \cup {"failed", "dead"}
    /\ lock.old /\ ~lock.written => pc[lock.token] \in {"failed", "dead"}

JudgedDead ==
  \A p, q \in Proc :
    pc[p] \in Breaking \cup Guarded /\ judged[p] = Held(q) => pc[q] = "dead"

RecheckedUnchanged ==
  \A p \in Proc :
    pc[p] = "restale" =>
      /\ judged[p] = Torn =>
           lock = NoFile \/ ~lock.old \/ pc[lock.token] \in {"failed", "dead"}
      /\ \A q \in Proc : judged[p] = Held(q) => lock # NoFile /\ lock.token = q

UnlinkedDead ==
  \A p \in Proc :
    pc[p] = "unlink" => lock # NoFile /\ pc[lock.token] \in {"failed", "dead"}

RecoverersRight == GuardNamed /\ LockOwned /\ JudgedDead
                     /\ RecheckedUnchanged /\ UnlinkedDead

\* What keeps a recoverer off the complete lock of another machine: a lock it
\* found torn is still torn once it is old, and a complete one it is about to
\* remove is that of a command of its own machine that it saw dead.
BreaksAtHome ==
  \A p \in Proc :
    /\ pc[p] = "restale" /\ judged[p] = Torn /\ lock # NoFile =>
         ~lock.old \/ ~lock.written
    /\ pc[p] = "unlink" /\ lock # NoFile =>
         \/ ~lock.written
         \/ pc[lock.token] = "dead" /\ HostOf[lock.token] = HostOf[p]

\* The lock of a live command stays at its path, whole, whatever waiters and
\* recoverers read of it at their earlier steps.  OwnerNamed alone is not
\* inductive: that a recoverer removes no live command's lock follows from what
\* it judged, re-read and judged again.
IInv == TypeOK /\ OwnerNamed /\ RecoverersRight /\ BreaksAtHome

\* acquireStateLock: a lock "on another host, whose liveness cannot be checked"
\* is never broken: a readable lock leaves the path by a step of its own holder
\* or because its holder is dead and ran on the breaker's host.
ForeignLockKept ==
  [][\A q \in Proc :
       (lock # NoFile /\ lock.token = q /\ lock.written /\ lock' # lock
          /\ lock' = NoFile)
       => \/ pc[q] \in {"runlink", "undo"}
          \/ /\ pc[q] = "dead"
             /\ \E p \in Proc : pc[p] = "unlink" /\ HostOf[p] = HostOf[q]]_vars

\* The session of SessionLock is the time between the return of acquireStateLock
\* and the call of its release.
SessionHolder ==
  IF \E p \in Proc : pc[p] = "held"
  THEN CHOOSE p \in Proc : pc[p] = "held"
  ELSE Nobody

\* The commands whose session is over.
Over == Releasing \cup Ended \cup Gone

Session == INSTANCE SessionLock WITH
  holder <- SessionHolder,
  left <- {p \in Proc : pc[p] \in Over}

\* The lock implements the session: commands have it one after another, each at
\* most once, whatever dead commands left at the lock path.
ImplementsSession == Session!Spec

\* A command that keeps waiting is not locked out by dead ones: whatever mix of
\* complete locks, torn locks and abandoned guards the other commands leave when
\* they are killed or their writes and unlinks fail, a patient command whose own
\* disk works gets the lock, unless it is killed first.
PatientAcquires ==
  \A p \in Patient \ Faulty : <>(pc[p] \in {"held", "dead"})
=============================================================================
