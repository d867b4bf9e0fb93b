------------------------------ MODULE Journal ------------------------------
(***************************************************************************)
(* One transaction of the gateway: JournalTxn (npm/ai-skills/lib/journal/  *)
(* journal.ts) as transact, recoverPending and commit (recover.ts) drive   *)
(* it.  Every op is write-ahead: its begin record is on disk before its    *)
(* effect, its done record after.  A command may be killed between any two *)
(* calls, its calls may fail, and the user edits files meanwhile; the next *)
(* command finds the journal directory and either finishes the plan or     *)
(* undoes it from the log.  Commands run one at a time: that is what       *)
(* SessionLock promises and StateLock implements.                          *)
(*                                                                         *)
(* What is on disk: disk, trash, staging, log, tail, journal, receipt.     *)
(* What a command has in memory: pc, mode, cur, mem, troubled.             *)
(***************************************************************************)
EXTENDS Naturals, Sequences, FiniteSets

CONSTANTS
  Plan,        \* the ops of the intent
  Dynamic,     \* the ops decided at run time, after the planned ones
  Path,        \* paths, and the registrations the host CLIs keep
  ParentOf,    \* the directory of a path, Root when it is always there
  Root,
  File, Link, Tree,  \* contents: of files, of symlinks, of directory trees
  InitDisk,    \* the content of each path when the transaction opens
  EditPath, EditValue,  \* what the user may write, and where
  Faults,      \* the kinds of faults that may happen
  MaxFaults    \* bound: how many faults and edits happen at most

Absent  == "absent"
Dir     == "dir"
Partial == "partial"   \* a tree some of whose files are removed already
On      == "on"        \* a registration the host knows

Content == File \cup Link \cup Tree \cup {Absent, Dir, Partial, On}

\* An op: what it does, where, the content it leaves (removals: the content it
\* expects to find), and for host commands whether an outcome of "already so" is
\* tolerated and whether the plan has a command that undoes it.
Kinds == {"mkdir", "write", "link", "remove", "rmdir", "exec"}
Op == [kind : Kinds, path : Path, val : Content,
       tolerant : BOOLEAN, undo : BOOLEAN]

Ops == Plan \o Dynamic
Idx == 1..Len(Ops)

FaultKind == {"crash",     \* the command is killed
              "io",        \* a file operation fails
              "exec",      \* a host command fails
              "append",    \* a log append throws, its line written or not
              "torn",      \* a log append throws half-way through its line
              "publish",   \* open throws after the journal was published
              "commit",    \* the receipt is not replaced
              "committed", \* the receipt is replaced and the call throws
              "archive",   \* the committed journal is not moved
              "discard",   \* the command is killed while it removes the journal
              "edit"}      \* the user changes a file

ASSUME OpAssumption == Plan \in Seq(Op) /\ Dynamic \in Seq(Op)
ASSUME PathAssumption ==
  /\ Root \notin Path
  /\ ParentOf \in [Path -> Path \cup {Root}]
  /\ InitDisk \in [Path -> Content]
  /\ EditPath \subseteq Path /\ EditValue \subseteq File
ASSUME FaultAssumption == Faults \subseteq FaultKind /\ MaxFaults \in Nat

VARIABLES
  disk,      \* the content at each path
  staging,   \* the ops whose staging file is on disk
  trash,     \* what each removal moved aside
  log,       \* the progress log.jsonl holds
  tail,      \* how its last line ends
  journal,   \* the transaction directory
  receipt,   \* the transaction the receipt names: "base" or "txn"
  pc, mode,  \* the command that runs, and whether it opened or recovers
  cur,       \* the op it is at
  mem,       \* the progress it has tracked
  troubled,  \* whether a step of its compensation failed
  reported,  \* the ops whose remains some command reported
  reply,     \* what the opening command told its caller
  user,      \* the content each path had, or the user's last edit of it
  faults     \* how many faults and edits happened

vars == <<disk, staging, trash, log, tail, journal, receipt, pc, mode, cur,
          mem, troubled, reported, reply, user, faults>>

files   == <<disk, staging, trash>>
logs    == <<log, tail, mem>>
outcome == <<journal, receipt, reply>>
ghosts  == <<user, faults>>

-----------------------------------------------------------------------------
(* The log.                                                                *)

None == "none"

\* OpProgress, per op: the preimage of its first begin record with the
\* directories it will create, how it was done, and whether it failed;
\* whether compensation was decided; and whether a torn tail is to be mended.
NoProgress == [pre     |-> [i \in Idx |-> None],
               missing |-> [i \in Idx |-> {}],
               done    |-> [i \in Idx |-> None],
               failed  |-> {},
               comp    |-> FALSE,
               mend    |-> FALSE]

Done == {"done", "kept", "tolerated", "uncertain"}

Progress == [pre     : [Idx -> Content \cup {None}],
             missing : [Idx -> SUBSET Path],
             done    : [Idx -> Done \cup {None}],
             failed  : SUBSET Idx,
             comp    : BOOLEAN,
             mend    : BOOLEAN]

IsBegun(p, i) == p.pre[i] # None
IsDone(p, i)  == p.done[i] # None

\* track: the first begin carries the preimage, a resumed op logs another.
\* Mutants: the last begin wins; the directories are not recorded.
WithLastBegin(p, i, pre, missing) ==
  [p EXCEPT !.pre[i] = pre, !.missing[i] = missing]
WithBareBegin(p, i, pre, missing) ==
  IF IsBegun(p, i) THEN p ELSE [p EXCEPT !.pre[i] = pre]

WithBegin(p, i, pre, missing) ==
  IF IsBegun(p, i) THEN p
  ELSE [p EXCEPT !.pre[i] = pre, !.missing[i] = missing]

WithDone(p, i, how) == [p EXCEPT !.done[i] = how]
WithFailed(p, i)    == [p EXCEPT !.failed = @ \cup {i}]
WithComp(p)         == [p EXCEPT !.comp = TRUE]

\* How the log's last line ends.  "torn" is half a record with no newline: load
\* skips it, and the loader's next append drops it first (mem.mend).  An append of
\* the command that tore the line is glued onto it: that line is then "bad", and
\* when another line follows it, load refuses the log ("corrupt").
Tails == {"clean", "torn", "bad", "corrupt"}

Glued == tail = "torn" /\ ~mem.mend

TailAfter == IF Glued THEN "bad" ELSE IF tail \in {"bad", "corrupt"} THEN "corrupt" ELSE "clean"

Fault(kind) == kind \in Faults /\ faults < MaxFaults /\ faults' = faults + 1

\* append: the record is on disk and tracked.
Log(newLog, newMem) ==
  /\ log' = IF Glued THEN log ELSE newLog
  /\ tail' = TailAfter
  /\ mem' = [newMem EXCEPT !.mend = FALSE]
  /\ UNCHANGED faults

\* append throws: the record is not tracked; it is on disk whole, in part or not.
LogThrows(newLog) ==
  \/ /\ Fault("append")
     /\ \/ log' = log /\ tail' = IF tail = "torn" /\ mem.mend THEN "clean" ELSE tail
        \/ log' = (IF Glued THEN log ELSE newLog) /\ tail' = TailAfter
  \/ /\ Fault("torn")
     /\ tail' = IF TailAfter = "clean" THEN "torn" ELSE TailAfter
     /\ UNCHANGED log

Untracked == mem' = [mem EXCEPT !.mend = FALSE]

-----------------------------------------------------------------------------
(* Paths.                                                                  *)

op == Ops[cur]
at == disk[op.path]

IsFile(c) == c \in File

\* Mutant: the walk up does not stop at the root.
MissingAndRoot(i) ==
  {d \in {ParentOf[Ops[i].path]} : d = Root \/ disk[d] = Absent}

\* The directories an op creates on its way, and disk once they are there.
Missing(i) ==
  {d \in {ParentOf[Ops[i].path]} \cup (IF Ops[i].kind = "mkdir" THEN {Ops[i].path} ELSE {}) :
     d # Root /\ disk[d] = Absent}
WithDirs(dsk, dirs) == [p \in Path |-> IF p \in dirs THEN Dir ELSE dsk[p]]
Parents(p) == {ParentOf[p]} \ {Root}

\* Nothing is in a directory: no content, no staging file, nothing moved aside.
EmptyDir(dsk, stg, d) ==
  /\ \A p \in Path : ParentOf[p] = d => dsk[p] = Absent
  /\ \A i \in Idx : ParentOf[Ops[i].path] = d => i \notin stg /\ trash[i] = Absent

\* removeCreatedDirs: the directories the op created go unless something is in them.
WithoutDirs(dsk, stg, dirs) ==
  [p \in Path |-> IF p \in dirs /\ dsk[p] = Dir /\ EmptyDir(dsk, stg, p)
                  THEN Absent ELSE dsk[p]]

\* openingExpectations: the ops that are the first to touch their path, and so
\* must find there what was there when the transaction opened.
FirstTouch(i) ==
  /\ Ops[i].kind \in {"write", "link"}
  /\ \A j \in 1..(i - 1) :
       Ops[j].kind \notin {"mkdir", "exec"} =>
         /\ Ops[j].path \notin {Ops[i].path, ParentOf[Ops[i].path]}
         /\ ParentOf[Ops[j].path] # Ops[i].path

\* resultHolds and inFlightResumable.
ResultHolds(i) ==
  CASE Ops[i].kind \in {"write", "link"} -> disk[Ops[i].path] = Ops[i].val
    [] Ops[i].kind = "mkdir"             -> disk[Ops[i].path] \in {Dir} \cup Tree
    [] Ops[i].kind = "remove"            -> disk[Ops[i].path] = Absent
    [] OTHER                             -> TRUE

Resumable(i) ==
  LET now == disk[Ops[i].path] IN
  CASE Ops[i].kind = "write"  -> now \in {Ops[i].val, mem.pre[i]}
    [] Ops[i].kind = "link"   -> now \in {Absent, Ops[i].val}
    [] Ops[i].kind = "remove" -> now = Absent \/ (now = Ops[i].val /\ trash[i] = Absent)
    [] Ops[i].kind = "exec"   -> Ops[i].tolerant
    [] OTHER                  -> TRUE

LastDoneAt(i) ==
  /\ IsDone(mem, i) /\ Ops[i].kind # "exec"
  /\ \A j \in Idx : j > i /\ Ops[j].path = Ops[i].path => ~IsDone(mem, j)

\* Mutant: a failed or compensating transaction is tried again.
CanTryAgain ==
  \A i \in Idx : LastDoneAt(i) => ResultHolds(i)

\* rollForwardBlocker returns null.
CanRollForward ==
  /\ Dynamic = <<>> /\ mem.failed = {} /\ ~mem.comp
  /\ \A i \in Idx :
       /\ LastDoneAt(i) => ResultHolds(i)
       /\ ~IsDone(mem, i) /\ IsBegun(mem, i) => Resumable(i)
       /\ ~IsDone(mem, i) /\ ~IsBegun(mem, i) /\ FirstTouch(i) =>
            disk[Ops[i].path] = InitDisk[Ops[i].path]

-----------------------------------------------------------------------------
(* Control.                                                                *)

Running == pc \notin {"open", "down"}

Goto(label) == pc' = label

\* Mutant: an op that was begun is not applied again.
GotoNextUnbegun(i, m) ==
  LET pending == {j \in Idx : j > i /\ ~IsBegun(m, j)} IN
  IF pending = {} THEN Goto("commit") /\ cur' = 0
  ELSE /\ Goto("apply")
       /\ cur' = CHOOSE j \in pending : \A k \in pending : j <= k

\* The op after i that is not done; past the last one, the commit.
GotoNext(i, m) ==
  LET pending == {j \in Idx : j > i /\ ~IsDone(m, j)} IN
  IF pending = {} THEN Goto("commit") /\ cur' = 0
  ELSE /\ Goto("apply")
       /\ cur' = CHOOSE j \in pending : \A k \in pending : j <= k

\* The begun op before i; before the first one, the end of the compensation.
GotoUndo(i, m) ==
  LET begun == {j \in Idx : j < i /\ IsBegun(m, j)} IN
  IF begun = {} THEN Goto("compensated") /\ cur' = 0
  ELSE /\ Goto("undo")
       /\ cur' = CHOOSE j \in begun : \A k \in begun : j >= k

\* The command is over: what it knew is gone.
End(answer) ==
  /\ pc' = "down"
  /\ mode' = "none"
  /\ cur' = 0
  /\ mem' = NoProgress
  /\ troubled' = FALSE
  /\ reply' = IF mode = "run" THEN answer ELSE reply

-----------------------------------------------------------------------------
(* JournalTxn.open: the directory is assembled under a temporary name and  *)
(* renamed into place.                                                     *)

Open ==
  /\ pc = "open"
  /\ journal' = "live"
  /\ mode' = "run"
  /\ GotoNext(0, mem)
  /\ UNCHANGED <<files, logs, receipt, reply, troubled, reported, ghosts>>

\* open throws before the rename, and cleans up, or after it; or the command is
\* killed before the rename.
OpenFails ==
  /\ pc = "open"
  /\ \/ Fault("io") /\ reply' = "error" /\ UNCHANGED journal
     \/ Fault("publish") /\ reply' = "error" /\ journal' = "live"
     \/ Fault("crash") /\ journal' = "tmp" /\ UNCHANGED reply
  /\ Goto("down")
  /\ UNCHANGED <<files, logs, receipt, mode, cur, troubled, reported, user>>

-----------------------------------------------------------------------------
(* applyAt: begin record, effect, done record.                             *)

\* The checks of each kind before its begin record.
MayBegin == CASE op.kind = "write"  -> IsFile(at) \/ at = Absent
              [] op.kind = "link"   -> at = Absent
              [] op.kind = "remove" -> at = op.val
              [] OTHER              -> TRUE

\* A resumed op whose effect is on disk only has its rest to do.
MayResume == IsBegun(mem, cur) /\ \/ op.kind = "link" /\ at = op.val
                                  \/ op.kind = "remove" /\ at = Absent

Captured == IF op.kind \in {"write", "remove"} THEN at ELSE Absent

Begin ==
  /\ pc = "apply" /\ MayBegin /\ ~MayResume
  /\ LET With(p) == WithBegin(p, cur, Captured, Missing(cur)) IN
       \/ /\ Log(With(log), With(mem))
          /\ Goto(CASE op.kind = "write" -> "stage"
                    [] op.kind = "exec" /\ IsBegun(mem, cur) -> "retry"
                    [] OTHER -> "effect")
       \/ LogThrows(With(log)) /\ Untracked /\ Goto("failed")
  /\ UNCHANGED <<files, outcome, mode, cur, troubled, reported, user>>

\* Mutant: the copy a resumed removal moved aside is forgotten.
ResumeUnswept ==
  /\ pc = "apply" /\ MayResume
  /\ Goto("done")
  /\ UNCHANGED <<files, logs, outcome, mode, cur, troubled, reported, ghosts>>

Resume ==
  /\ pc = "apply" /\ MayResume
  /\ Goto(IF op.kind = "link" THEN "done" ELSE "sweep")
  /\ UNCHANGED <<files, logs, outcome, mode, cur, troubled, reported, ghosts>>

Refuse ==
  /\ pc = "apply" /\ ~MayBegin /\ ~MayResume
  /\ Goto("failed")
  /\ UNCHANGED <<files, logs, outcome, mode, cur, troubled, reported, ghosts>>

\* A write's bytes go to a sibling file first.
Stage ==
  /\ pc = "stage"
  /\ \/ /\ disk' = WithDirs(disk, Parents(op.path))
        /\ staging' = staging \cup {cur}
        /\ Goto("effect") /\ UNCHANGED faults
     \/ /\ Fault("io")
        /\ disk' \in {disk, WithDirs(disk, Parents(op.path))}
        /\ Goto("failed") /\ UNCHANGED staging
  /\ UNCHANGED <<trash, logs, outcome, mode, cur, troubled, reported, user>>

\* What each kind does to the files, and the done record it then writes.
Effect(dsk, stg, tr) ==
  CASE op.kind \in {"write", "link"} ->
         /\ dsk = [WithDirs(disk, Parents(op.path)) EXCEPT ![op.path] = op.val]
         /\ stg = staging \ {cur} /\ tr = trash
    [] op.kind = "mkdir" ->
         dsk = WithDirs(disk, Missing(cur)) /\ stg = staging /\ tr = trash
    [] op.kind = "remove" ->
         /\ dsk = [disk EXCEPT ![op.path] = Absent]
         /\ stg = staging /\ tr = [trash EXCEPT ![cur] = at]
    [] op.kind = "rmdir" ->
         /\ dsk = [disk EXCEPT ![op.path] =
                     IF at = Dir /\ EmptyDir(disk, staging, op.path) THEN Absent ELSE @]
         /\ stg = staging /\ tr = trash
    [] op.kind = "exec" ->
         dsk = [disk EXCEPT ![op.path] = op.val] /\ stg = staging /\ tr = trash

AfterEffect ==
  CASE op.kind = "remove" -> "sweep"
    [] op.kind = "rmdir" /\ ~(at = Dir /\ EmptyDir(disk, staging, op.path)) -> "kept"
    [] op.kind = "exec" /\ at = op.val ->
         IF ~op.tolerant THEN "failed" ELSE IF pc = "retry" THEN "uncertain" ELSE "tolerated"
    [] OTHER -> "done"

Apply ==
  /\ pc \in {"effect", "retry"}
  /\ Effect(disk', staging', trash')
  /\ Goto(AfterEffect)
  /\ UNCHANGED <<logs, outcome, mode, cur, troubled, reported, ghosts>>

\* A call fails: nothing happened, or the flush after the effect threw.  A host
\* command that fails did nothing.
ApplyFails ==
  /\ pc \in {"effect", "retry"}
  /\ \/ /\ op.kind # "exec" /\ Fault("io")
        /\ \/ Effect(disk', staging', trash')
           \/ staging' = staging \ {cur} /\ UNCHANGED <<disk, trash>>
     \/ op.kind = "exec" /\ Fault("exec") /\ UNCHANGED files
  /\ Goto("failed")
  /\ UNCHANGED <<logs, outcome, mode, cur, troubled, reported, user>>

\* remove-owned deletes what it moved aside.
Sweep ==
  /\ pc = "sweep"
  /\ \/ trash' = [trash EXCEPT ![cur] = Absent] /\ Goto("done") /\ UNCHANGED faults
     \/ /\ Fault("io") /\ Goto("failed")
        /\ \/ UNCHANGED trash
           \/ trash[cur] \in Tree /\ trash' = [trash EXCEPT ![cur] = Partial]
  /\ UNCHANGED <<disk, staging, logs, outcome, mode, cur, troubled, reported, user>>

Finish ==
  /\ pc \in Done
  /\ LET With(p) == WithDone(p, cur, pc) IN
       \/ Log(With(log), With(mem)) /\ GotoNext(cur, mem')
       \/ LogThrows(With(log)) /\ Untracked /\ Goto("failed") /\ UNCHANGED cur
  /\ UNCHANGED <<files, outcome, mode, troubled, reported, user>>

\* The op threw: a failed record, best effort, then compensation.
LogFailure ==
  /\ pc = "failed"
  /\ LET With(p) == WithFailed(p, cur) IN
       Log(With(log), With(mem)) \/ (LogThrows(With(log)) /\ Untracked)
  /\ Goto("compensate")
  /\ UNCHANGED <<files, outcome, mode, cur, troubled, reported, user>>

-----------------------------------------------------------------------------
(* compensate: every begun op is undone, last first.                       *)

Compensate ==
  /\ pc = "compensate"
  /\ \/ /\ IF mem.comp THEN UNCHANGED <<logs, faults>>
           ELSE Log(WithComp(log), WithComp(mem))
        /\ GotoUndo(Len(Ops) + 1, mem)
        /\ UNCHANGED <<mode, troubled, reply>>
     \/ ~mem.comp /\ LogThrows(WithComp(log)) /\ End("error")
  /\ UNCHANGED <<files, journal, receipt, reported, user>>

pre == mem.pre[cur]

\* Directories go after their op is undone.
Undo(dsk, stg) == disk' = WithoutDirs(dsk, stg, mem.missing[cur]) /\ staging' = stg

\* Mutant: what the user made of the path since is not looked at.
NeedsRestoreAlways ==
  \/ op.kind = "write" /\ pre \notin {op.val, Absent}
  \/ op.kind = "remove" /\ at = Absent /\ trash[cur] # pre

\* A preimage is built at the staging path, then renamed into place.
NeedsRestore ==
  \/ op.kind = "write" /\ at = op.val /\ pre \notin {op.val, Absent}
  \/ op.kind = "remove" /\ at = Absent /\ trash[cur] # pre

\* Mutant: a host command killed while it ran is taken to have done nothing.
RemainsOfDone ==
  \/ op.kind = "exec" /\ mem.done[cur] = "done" /\ ~op.undo
  \/ op.kind = "remove" /\ at \notin {Absent, pre}

\* What stays when an op's undoing is over: the effect of a host command that is
\* not undone, or a path that is occupied again, and what was moved aside of it.
Remains ==
  \/ op.kind = "exec" /\ mem.done[cur] = None /\ cur \notin mem.failed
  \/ op.kind = "exec" /\ mem.done[cur] = "done" /\ ~op.undo
  \/ op.kind = "remove" /\ at \notin {Absent, pre}

Opposite(val) == IF val = On THEN Absent ELSE On

UndoEffect ==
  CASE op.kind \in {"write", "link"} ->
         /\ Undo(IF at = op.val /\ (op.kind = "link" \/ pre = Absent)
                 THEN [disk EXCEPT ![op.path] = Absent] ELSE disk,
                 staging \ {cur})
         /\ UNCHANGED trash
    [] op.kind = "mkdir" -> Undo(disk, staging) /\ UNCHANGED trash
    [] op.kind = "remove" ->
         /\ disk' = [disk EXCEPT ![op.path] = IF at = Absent THEN pre ELSE at]
         /\ trash' = [trash EXCEPT ![cur] = IF at \in {Absent, pre} THEN Absent ELSE @]
         /\ UNCHANGED staging
    [] op.kind = "rmdir" ->
         /\ disk' = [disk EXCEPT ![op.path] =
                       IF mem.done[cur] # "kept" /\ at = Absent THEN Dir ELSE at]
         /\ UNCHANGED <<staging, trash>>
    [] op.kind = "exec" ->
         /\ disk' = [disk EXCEPT ![op.path] =
                       IF mem.done[cur] = "done" /\ op.undo THEN Opposite(op.val) ELSE at]
         /\ UNCHANGED <<staging, trash>>

UndoOp ==
  /\ pc = "undo" /\ ~NeedsRestore
  /\ UndoEffect
  /\ reported' = IF Remains THEN reported \cup {cur} ELSE reported
  /\ GotoUndo(cur, mem)
  /\ UNCHANGED <<logs, outcome, mode, troubled, ghosts>>

UndoRestore ==
  /\ pc = "undo" /\ NeedsRestore
  /\ disk' = WithDirs(disk, Parents(op.path))
  /\ staging' = staging \cup {cur}
  /\ Goto("restore")
  /\ UNCHANGED <<trash, logs, outcome, mode, cur, troubled, reported, ghosts>>

Restore ==
  /\ pc = "restore"
  /\ Undo([disk EXCEPT ![op.path] = pre], staging \ {cur})
  /\ trash' = [trash EXCEPT ![cur] = Absent]
  /\ GotoUndo(cur, mem)
  /\ UNCHANGED <<logs, outcome, mode, troubled, reported, ghosts>>

\* A step of the compensation fails, before or after its effect; the other ops
\* are undone all the same.
UndoFails ==
  /\ pc \in {"undo", "restore"}
  /\ op.kind = "exec" => mem.done[cur] = "done" /\ op.undo
  /\ Fault(IF op.kind = "exec" THEN "exec" ELSE "io")
  /\ \/ pc = "undo" /\ UNCHANGED files
     \/ pc = "undo" /\ op.kind # "exec" /\ ~NeedsRestore /\ UndoEffect
     \/ pc = "restore" /\ staging' = staging \ {cur} /\ UNCHANGED <<disk, trash>>
  /\ troubled' = TRUE
  /\ GotoUndo(cur, mem)
  /\ UNCHANGED <<logs, outcome, mode, reported, user>>

\* All is undone; or the journal is kept for the next command.
Compensated ==
  /\ pc = "compensated"
  /\ \/ troubled /\ End("error") /\ UNCHANGED <<log, tail, faults>>
     \/ /\ ~troubled /\ Log(log, mem) /\ Goto("discard")
        /\ UNCHANGED <<mode, cur, troubled, reply>>
     \/ ~troubled /\ LogThrows(log) /\ End("error")
  /\ UNCHANGED <<files, journal, receipt, reported, user>>

\* discard: a recursive removal, which is not one step.
Discard ==
  /\ pc = "discard"
  /\ journal' = "broken"
  /\ Goto("discarded")
  /\ UNCHANGED <<files, logs, receipt, reply, mode, cur, troubled, reported, ghosts>>

Discarded ==
  /\ pc = "discarded"
  /\ journal' = "none"
  /\ End("error")
  /\ UNCHANGED <<files, log, tail, receipt, reported, ghosts>>

-----------------------------------------------------------------------------
(* commit and archive.                                                     *)

Commit ==
  /\ pc = "commit"
  /\ receipt' = "txn"
  /\ Goto("archive")
  /\ UNCHANGED <<files, logs, journal, reply, mode, cur, troubled, reported, ghosts>>

\* The receipt's replacement throws, before or after its rename.  transact lets
\* the error out; recoverPending goes on to compensate.
CommitFails ==
  /\ pc = "commit"
  /\ \/ Fault("commit") /\ UNCHANGED receipt
     \/ Fault("committed") /\ receipt' = "txn"
  /\ IF mode = "run" THEN End("error")
     ELSE Goto("compensate") /\ UNCHANGED <<mode, cur, mem, troubled, reply>>
  /\ UNCHANGED <<files, log, tail, journal, reported, user>>

\* The journal becomes a generation, in one rename.  A failure is only reported.
Archive ==
  /\ pc = "archive"
  /\ \/ journal' = "archived" /\ UNCHANGED faults
     \/ Fault("archive") /\ UNCHANGED journal
  /\ End("ok")
  /\ UNCHANGED <<files, log, tail, receipt, reported, user>>

-----------------------------------------------------------------------------
(* recoverPending: the next command.                                       *)

Recover ==
  /\ pc = "down" /\ journal \notin {"none", "archived"}
  /\ Goto("load")
  /\ mode' = "recover"
  /\ UNCHANGED <<files, logs, outcome, cur, troubled, reported, ghosts>>

\* An unpublished transaction is dropped; a journal that cannot be read stops the
\* command.
LoadNothing ==
  /\ pc = "load" /\ (journal # "live" \/ tail = "corrupt")
  /\ journal' = IF journal = "tmp" THEN "none" ELSE journal
  /\ End("error")
  /\ UNCHANGED <<files, log, tail, receipt, reported, ghosts>>

Load ==
  /\ pc = "load" /\ journal = "live" /\ tail # "corrupt"
  /\ mem' = [log EXCEPT !.mend = (tail = "torn")]
  /\ Goto("decide")
  /\ UNCHANGED <<files, log, tail, outcome, mode, cur, troubled, reported, ghosts>>

\* Mutant: the receipt is not looked at.
DecideBlindly ==
  /\ pc = "decide"
  /\ IF CanRollForward THEN GotoNext(0, mem) ELSE Goto("compensate") /\ UNCHANGED cur
  /\ UNCHANGED <<files, logs, outcome, mode, troubled, reported, ghosts>>

Decide ==
  /\ pc = "decide"
  /\ IF receipt = "txn" THEN Goto("archive") /\ UNCHANGED cur
     ELSE IF CanRollForward THEN GotoNext(0, mem)
     ELSE Goto("compensate") /\ UNCHANGED cur
  /\ UNCHANGED <<files, logs, outcome, mode, troubled, reported, ghosts>>

-----------------------------------------------------------------------------
(* Crashes and the user.                                                   *)

Appending == {"apply", "failed", "compensate", "compensated"} \cup Done

\* The command is killed between two calls, or in the middle of an append or of
\* the removal of a tree.
Crash ==
  /\ Running /\ pc # "discarded" /\ Fault("crash")
  /\ \/ UNCHANGED <<tail, trash>>
     \/ /\ pc \in Appending /\ TailAfter = "clean" /\ tail' = "torn"
        /\ UNCHANGED trash
     \/ /\ pc = "sweep" /\ trash[cur] \in Tree
        /\ trash' = [trash EXCEPT ![cur] = Partial] /\ UNCHANGED tail
  /\ End("killed")
  /\ UNCHANGED <<disk, staging, log, journal, receipt, reported, user>>

CrashInDiscard ==
  /\ pc = "discarded" /\ Fault("discard")
  /\ End("killed")
  /\ UNCHANGED <<files, log, tail, journal, receipt, reported, user>>

Settled == pc = "down" /\ journal \in {"none", "archived"}

\* Between the last look at a path and the rename over it an edit is lost, here
\* as in any program; the edits of that window are left out.
Window(p) ==
  /\ cur \in Idx /\ op.path = p
  /\ pc \in {"stage", "effect", "restore"} \/ (pc = "apply" /\ IsBegun(mem, cur))

Edit(p, v) ==
  /\ Fault("edit")
  /\ pc # "open" /\ ~Settled /\ ~Window(p)
  /\ disk[p] \notin {v, Dir} /\ \A d \in Parents(p) : disk[d] = Dir
  /\ disk' = [disk EXCEPT ![p] = v]
  /\ user' = [user EXCEPT ![p] = v]
  /\ UNCHANGED <<staging, trash, logs, outcome, pc, mode, cur, troubled, reported>>

-----------------------------------------------------------------------------
Init ==
  /\ disk = InitDisk /\ user = InitDisk
  /\ staging = {} /\ trash = [i \in Idx |-> Absent]
  /\ log = NoProgress /\ mem = NoProgress /\ tail = "clean"
  /\ journal = "none" /\ receipt = "base" /\ reply = "none"
  /\ pc = "open" /\ mode = "none" /\ cur = 0
  /\ troubled = FALSE /\ reported = {} /\ faults = 0

Execute == Begin \/ Resume \/ Refuse \/ Stage \/ Apply \/ ApplyFails \/ Sweep
             \/ Finish \/ LogFailure

Reverse == Compensate \/ UndoOp \/ UndoRestore \/ Restore \/ UndoFails
             \/ Compensated \/ Discard \/ Discarded

Complete == Commit \/ CommitFails \/ Archive

Recovery == Recover \/ LoadNothing \/ Load \/ Decide

Command == Open \/ OpenFails \/ Execute \/ Reverse \/ Complete \/ Recovery

\* The transaction is over.
Over == Settled /\ UNCHANGED vars

Next ==
  \/ Command \/ Over
  \/ Crash \/ CrashInDiscard
  \/ \E p \in EditPath, v \in EditValue : Edit(p, v)

Spec == Init /\ [][Next]_vars

\* A command keeps making calls, and the user runs another one after a crash.
\* Faults are finitely many, so that the calls succeed in the end.
LiveSpec == Spec /\ WF_vars(Command)

-----------------------------------------------------------------------------
(* Plans.                                                                  *)

Registration == {Ops[i].path : i \in {j \in Idx : Ops[j].kind = "exec"}}

FileOp(i) == Ops[i].kind \in {"write", "link", "remove"}
DirOp(i)  == Ops[i].kind \in {"mkdir", "rmdir"}
Result(i) == IF Ops[i].kind = "remove" THEN Absent ELSE Ops[i].val

\* The directories that an op may create on its way, and all directories.
MadeBy(i) == ({ParentOf[Ops[i].path]} \ {Root}) \cup (IF Ops[i].kind = "mkdir" THEN {Ops[i].path} ELSE {})
Dirs == {d \in Path : \/ \E p \in Path : ParentOf[p] = d
                      \/ \E i \in Idx : DirOp(i) /\ Ops[i].path = d}

\* What the plans of the adapters are like, as far as undoing them depends on it:
\* contents can be told apart; files, directories and registrations have paths of their
\* own, directories at the top level; what the ops on one path leave there differs, and
\* is nothing that the user writes; a path is removed before anything is put there; and
\* a directory is removed at most once.
ContentsApart == \A c \in File \cup Link \cup Tree : c \notin {Absent, Dir, Partial, On, None}
OpsTakeContents ==
  \A i \in Idx :
    /\ Ops[i].kind = "write" => Ops[i].val \in File
    /\ Ops[i].kind = "link" => Ops[i].val \in Link
    /\ Ops[i].kind = "remove" => Ops[i].val \in File \cup Link \cup Tree
    /\ Ops[i].val \notin EditValue
PathsApart ==
  /\ \A i \in Idx : FileOp(i) => Ops[i].path \notin Dirs \cup Registration
  /\ \A p \in Registration : p \notin Dirs \cup EditPath /\ ParentOf[p] = Root
  /\ \A d \in Dirs : d \notin EditPath /\ ParentOf[d] = Root /\ InitDisk[d] \in {Dir, Absent}
ResultsDiffer ==
  \A i, j \in Idx :
    i # j /\ Ops[i].path = Ops[j].path =>
      /\ FileOp(i) /\ FileOp(j) => Result(i) # Result(j)
      /\ FileOp(i) /\ Ops[j].kind = "remove" => j < i
      /\ ~(Ops[i].kind = "rmdir" /\ Ops[j].kind = "rmdir")
RemovesWhatWasThere == \A i \in Idx : Ops[i].kind = "rmdir" => InitDisk[Ops[i].path] = Dir

PlanShape == ContentsApart /\ OpsTakeContents /\ PathsApart /\ ResultsDiffer /\ RemovesWhatWasThere

\* A directory that a recovery removes again is recorded as kept: only plans that are
\* not rolled forward may remove one.
Restorable == Dynamic = << >> => \A i \in Idx : Ops[i].kind # "rmdir"

\* A directory is removed after what is removed from it.
EmptiedFirst ==
  \A i, j \in Idx :
    Ops[i].kind = "rmdir" /\ Ops[j].kind = "remove" /\ ParentOf[Ops[j].path] = Ops[i].path => j < i

\* What the user writes is told apart from what was there.
EditsDiffer == \A p \in EditPath : InitDisk[p] \notin EditValue

\* Torn lines can lose the decision to undo a host command, of which a recovery that
\* rolls forward sees nothing but the log.
HostsLogged == "torn" \in Faults /\ Dynamic = << >> => Registration = {}

\* A registration is there or it is not.
HostsOnOrOff == \A i \in Idx : Ops[i].kind = "exec" => {Ops[i].val, InitDisk[Ops[i].path]} \subseteq {On, Absent}

-----------------------------------------------------------------------------
(* Properties.                                                             *)

TypeOK ==
  /\ disk \in [Path -> Content] /\ user \in [Path -> Content]
  /\ staging \subseteq Idx /\ trash \in [Idx -> Content]
  /\ log \in Progress /\ mem \in Progress /\ tail \in Tails
  /\ journal \in {"none", "tmp", "live", "broken", "archived"}
  /\ receipt \in {"base", "txn"}
  /\ reply \in {"none", "ok", "error", "killed"}
  /\ pc \in {"open", "down", "load", "decide", "apply", "stage", "effect",
             "retry", "sweep", "failed", "compensate", "undo", "restore",
             "compensated", "discard", "discarded", "commit", "archive"} \cup Done
  /\ mode \in {"none", "run", "recover"}
  /\ cur \in 0..Len(Ops) /\ troubled \in BOOLEAN
  /\ reported \subseteq Idx /\ faults \in 0..MaxFaults

Committed == receipt = "txn"

Occupied(d) == \E p \in Path : ParentOf[p] = d /\ disk[p] # Absent

\* "Paths whose content no longer matches ... are kept": a transaction that is
\* undone leaves on every path what was there, or what the user put there since,
\* byte for byte; a directory it created stays only around content of the user.
UndoneLeavesNoTrace ==
  Settled /\ ~Committed =>
    \A p \in Path \ Registration :
      disk[p] = user[p] \/ (disk[p] = Dir /\ Occupied(p))

\* What the plan leaves at a path.
Final(p) ==
  LET touching == {i \in Idx : Ops[i].path = p}
      last == CHOOSE i \in touching : \A j \in touching : i >= j IN
  IF touching = {} THEN InitDisk[p]
  ELSE CASE Ops[last].kind \in {"write", "link", "exec"} -> Ops[last].val
         [] Ops[last].kind \in {"remove", "rmdir"}       -> Absent
         [] Ops[last].kind = "mkdir"                     -> Dir

\* A transaction that commits has done all of its plan, and stays done: no
\* recovery path skips an op, does half of one, or takes one back.  A path the
\* user edited since is the user's.
CommittedIsWhole ==
  Committed =>
    \A p \in Path :
      \/ disk[p] = Final(p)
      \/ user[p] # InitDisk[p]
      \/ disk[p] = Dir /\ (Occupied(p) \/ InitDisk[p] = Absent)

\* A transaction is over whole or without trace, whichever of its calls failed,
\* was interrupted, or was tried again by a later command.
AllOrNothing == UndoneLeavesNoTrace /\ CommittedIsWhole

\* "its begin record and preimage are flushed before it runs": at any moment the
\* log on disk, alone, names every change and holds what it replaced.
WriteAhead ==
  journal = "live" /\ ~Committed =>
    \A p \in Path :
      disk[p] # user[p] =>
        \E i \in Idx :
          /\ IsBegun(log, i)
          /\ \/ p \in log.missing[i]
             \/ /\ Ops[i].path = p
                /\ log.pre[i] = user[p] \/ Ops[i].kind \in {"rmdir", "exec"}

\* Neither a staging file nor a moved-aside tree outlives the transaction, unless
\* its path was occupied again and reported as kept.
NoLeftovers ==
  Settled =>
    \A i \in Idx : i \in staging \/ trash[i] # Absent => i \in reported

\* CompensationReport.remaining, "Host effects that remain (irreversible or of
\* unknown outcome)": what an undone transaction did to a host is undone or named.
HostEffectsReported ==
  Settled /\ ~Committed =>
    \A p \in Registration :
      disk[p] = user[p] \/ \E i \in reported : Ops[i].path = p

\* A command that reported the failure of its plan, and could write to the log
\* that it gave up, is not overruled: no later recovery commits the plan after all.
FailedStaysUndone ==
  reply = "error" /\ (log.failed # {} \/ log.comp) => ~Committed

\* The transaction is decided when the receipt names it, or when the log says
\* that it is compensated or there is no log any more.
Outcome == IF \/ log.comp \/ journal \in {"tmp", "broken"}
              \/ journal = "none" /\ pc # "open" THEN "aborted"
           ELSE IF Committed THEN "committed"
           ELSE "pending"

Atomic == INSTANCE AtomicTxn WITH outcome <- Outcome, over <- Settled

\* Every transaction is committed or aborted once: no crash, failing call, torn log
\* line or edit makes a later command take the decision back.
DecidedOnce == Atomic!Spec

\* Besides, it is over once commands are no longer interrupted.
ImplementsAtomicTxn == Atomic!LiveSpec
=============================================================================
