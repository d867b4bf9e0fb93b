------------------------ MODULE JournalOutcomeProofs ------------------------
(***************************************************************************)
(* Proofs about what a transaction of Journal that is over leaves: all of  *)
(* its plan, or what the user wrote there, when it is committed; no        *)
(* staging file or moved-aside tree beside the files; and nothing at a     *)
(* host that is neither undone nor reported.                               *)
(*                                                                         *)
(* A recovery that rolls forward looks at the files before it does, but    *)
(* takes the log's word for what host commands did.  So what each op done  *)
(* last on its path left stands while a plan is carried out, and what host *)
(* commands left stands for as long as the log has no decision to undo it. *)
(* What is beside the files, or at a host, belongs to an op that a command *)
(* has still to get to.                                                    *)
(***************************************************************************)
EXTENDS JournalProofs

-----------------------------------------------------------------------------
(* The invariant.                                                          *)

\* Op i is the last one done on its path.
LastDone(p, i) ==
  IsDone(p, i) /\ \A j \in Idx : j > i /\ Ops[j].path = Ops[i].path => ~IsDone(p, j)

\* What an op leaves at its path, and whether that is there: unless the user wrote
\* there, or a directory that is to go is not empty.
Leaves(i) == CASE Ops[i].kind \in {"write", "link", "exec"} -> Ops[i].val
               [] Ops[i].kind \in {"remove", "rmdir"}       -> Absent
               [] Ops[i].kind = "mkdir"                     -> Dir
Within(d, x) == \E y \in Path : ParentOf[y] = x /\ d[y] # Absent
Stands(d, u, i) ==
  \/ d[Ops[i].path] = Leaves(i)
  \/ u[Ops[i].path] # InitDisk[Ops[i].path]
  \/ Ops[i].kind = "rmdir" /\ Within(d, Ops[i].path)

\* The op at work may change what op i left.
InHand(i) ==
  /\ pc # "commit" /\ IsBegun(mem, cur)
  /\ \/ Ops[i].path = op.path
     \/ Ops[i].kind = "rmdir" /\ Ops[i].path = ParentOf[op.path]

InPlace == pc \in Forward => \A i \in Idx : LastDone(mem, i) => Stands(disk, user, i) \/ InHand(i)

InEffect ==
  pc \in {"sweep"} \cup Done =>
    /\ Stands(disk, user, cur)
    /\ op.kind \in {"write", "link"} => disk[op.path] # Absent

AllDone == pc = "commit" => \A i \in Idx : IsDone(mem, i)

\* A plan that no recovery resumes leaves nothing beside the files while it goes on.
Tidy ==
  pc \in Forward \cup {"open"} /\ Dynamic # << >> =>
    /\ \A i \in staging : i = cur /\ pc = "effect" /\ Ops[i].kind = "write"
    /\ \A i \in Idx : trash[i] # Absent => i = cur /\ pc = "sweep"

\* Without torn lines the decision to undo is in the log before anything is undone.
Undoing == {"undo", "restore", "compensated", "discard", "discarded"}
Logged ==
  "torn" \notin Faults =>
    /\ tail = "torn" => mem.mend \/ pc \in {"down", "load"}
    /\ pc \in Undoing \/ mem.comp => log.comp

\* What host commands did is still there until then.
HostsStand ==
  Dynamic = << >> /\ "torn" \notin Faults /\ ~log.comp /\ pc \notin Forward =>
    \A i \in Idx : Ops[i].kind = "exec" /\ LastDone(log, i) =>
      \/ disk[Ops[i].path] = Ops[i].val
      \/ \E k \in Idx : Ops[k].path = Ops[i].path /\ IsBegun(log, k) /\ ~IsDone(log, k)

\* The user writes only where, and what, users write.
UserWrites == \A x \in Path : user[x] = InitDisk[x] \/ (x \in EditPath /\ user[x] \in EditValue)

Standing == AllDone /\ Tidy /\ Logged /\ UserWrites /\ InEffect /\ InPlace /\ HostsStand

CInv == UInv /\ Decided /\ Standing /\ CommittedIsWhole

\* The hypotheses.
Whole == PlanShape /\ Restorable /\ EmptiedFirst /\ EditsDiffer /\ HostsLogged /\ "committed" \notin Faults

-----------------------------------------------------------------------------
(* Steps that carry the plan out.                                          *)

\* They are these.
LEMMA ForwardSteps ==
  ASSUME [Next]_vars, pc' \in Forward \cup {"open"}
  PROVE  \/ Open \/ Begin \/ Resume \/ Stage \/ Apply \/ Sweep \/ Finish \/ Decide
         \/ \E x \in EditPath, v \in EditValue : Edit(x, v)
         \/ UNCHANGED vars
<1> USE DEF Forward, Done, Goto
<1>1. ~OpenFails /\ ~Refuse /\ ~ApplyFails /\ ~LogFailure
  BY DEF OpenFails, Refuse, ApplyFails, LogFailure
<1>2. ~Compensate /\ ~UndoOp /\ ~Restore /\ ~UndoFails
  <2>1. \A i, m : GotoUndo(i, m) => pc' \in {"compensated", "undo"}
    BY DEF GotoUndo
  <2> QED BY <2>1 DEF Compensate, UndoOp, Restore, UndoFails, End
<1>3. ~UndoRestore /\ ~Compensated /\ ~Discard /\ ~Discarded
  BY DEF UndoRestore, Compensated, Discard, Discarded, End
<1>4. ~Commit /\ ~CommitFails /\ ~Archive /\ ~Recover /\ ~LoadNothing /\ ~Load
  BY DEF Commit, CommitFails, Archive, Recover, LoadNothing, Load, End
<1>5. ~Crash /\ ~CrashInDiscard
  BY DEF Crash, CrashInDiscard, End
<1> QED BY <1>1, <1>2, <1>3, <1>4, <1>5 DEF Next, Command, Over, Execute, Reverse, Complete, Recovery

\* When there is nothing left to do, all is done.
LEMMA GotoNextAll ==
  ASSUME NEW i \in Nat, NEW m, GotoNext(i, m), pc' = "commit"
  PROVE  \A j \in Idx : i < j => IsDone(m, j)
<1> DEFINE pending == {j \in Idx : j > i /\ ~IsDone(m, j)}
<1>1. pending = {}
  BY DEF GotoNext, Goto
<1> QED BY <1>1, IdxNat

\* What a done record does in memory.
LEMMA Finished ==
  ASSUME UInv, Finish, pc' # "failed"
  PROVE  /\ UNCHANGED <<disk, staging, trash, user, journal, receipt>>
         /\ cur \in Idx /\ cur \in Nat /\ GotoNext(cur, mem') /\ IsBegun(mem, cur) /\ ~IsDone(mem, cur)
         /\ \A i \in Idx : /\ IsDone(mem', i) <=> IsDone(mem, i) \/ i = cur
                           /\ IsBegun(mem', i) <=> IsBegun(mem, i)
         /\ \A i \in Idx : i < cur => IsDone(mem, i)
         /\ \A i \in Idx : cur < i => ~IsBegun(mem, i) /\ ~IsDone(mem, i)
<1> DEFINE m == WithDone(mem, cur, pc)
<1>1. pc \in Done /\ UNCHANGED <<disk, staging, trash, user, journal, receipt>>
  BY DEF Finish, files, outcome
<1>2. cur \in Idx /\ cur \in Nat /\ mem \in Progress
  BY <1>1, IdxNat DEF UInv, TypeOK, AtOp, Applying
<1>3. Log(WithDone(log, cur, pc), m) /\ GotoNext(cur, mem')
  BY DEF Finish, Goto
<1>4. /\ m \in Progress /\ m.pre = mem.pre
      /\ \A i \in Idx : m.done[i] = IF i = cur THEN pc ELSE mem.done[i]
  BY <1>1, <1>2, WithDoneIs
<1>5. Alike(m, mem')
  BY <1>2, <1>3, <1>4, Appended
<1>6. mem'.pre = mem.pre /\ \A i \in Idx : mem'.done[i] = IF i = cur THEN pc ELSE mem.done[i]
  BY <1>4, <1>5 DEF Alike
<1>7. /\ IsBegun(mem, cur) /\ ~IsDone(mem, cur)
      /\ \A i \in Idx : i < cur => IsDone(mem, i)
  BY <1>1 DEF UInv, Rest, InStep, Working, Forward, Done
<1>8. \A i \in Idx : cur < i => ~IsBegun(mem, i) /\ ~IsDone(mem, i)
  BY <1>2, <1>7 DEF UInv, Rest, Records, Ordered
<1>9. \A i \in Idx : /\ IsDone(mem', i) <=> IsDone(mem, i) \/ i = cur
                     /\ IsBegun(mem', i) <=> IsBegun(mem, i)
  BY <1>1, <1>6 DEF IsDone, IsBegun, Done, None
<1> QED BY <1>1, <1>2, <1>3, <1>7, <1>8, <1>9

\* The plan is committed when all of it is done.
LEMMA StepAllDone ==
  ASSUME UInv, AllDone, [Next]_vars
  PROVE  AllDone'
<1> SUFFICES ASSUME pc' = "commit" PROVE \A i \in Idx : IsDone(mem', i)
  BY DEF AllDone
<1> USE DEF Goto
<1>1. CASE Open \/ Decide
  <2>1. GotoNext(0, mem) /\ mem' = mem
    BY <1>1 DEF Open, Decide, logs
  <2> QED BY <2>1, GotoNextAll, IdxNat
<1>2. CASE Finish
  <2>1. /\ cur \in Idx /\ cur \in Nat /\ GotoNext(cur, mem')
        /\ \A i \in Idx : IsDone(mem', i) <=> IsDone(mem, i) \/ i = cur
        /\ \A i \in Idx : i < cur => IsDone(mem, i)
    BY <1>2, Finished
  <2>2. \A i \in Idx : cur < i => IsDone(mem', i)
    BY <2>1, GotoNextAll
  <2> QED BY <2>1, <2>2, IdxNat
<1>3. CASE Begin \/ Resume \/ Stage \/ Apply \/ Sweep
  BY <1>3 DEF Begin, Resume, Stage, Apply, Sweep, AfterEffect
<1>4. ASSUME NEW x \in EditPath, NEW v \in EditValue, Edit(x, v)
      PROVE  \A i \in Idx : IsDone(mem', i)
  BY <1>4 DEF Edit, logs, AllDone
<1>5. CASE UNCHANGED vars
  BY <1>5 DEF vars, AllDone
<1> QED BY <1>1, <1>2, <1>3, <1>4, <1>5, ForwardSteps DEF Forward

\* Nothing lies beside the files of a plan that no recovery resumes.
LEMMA StepTidy ==
  ASSUME CInv, [Next]_vars
  PROVE  Tidy'
<1> SUFFICES ASSUME pc' \in Forward \cup {"open"}, Dynamic # << >>
             PROVE  /\ \A i \in staging' : i = cur' /\ pc' = "effect" /\ Ops[i].kind = "write"
                    /\ \A i \in Idx : trash'[i] # Absent => i = cur' /\ pc' = "sweep"
  BY DEF Tidy
<1> DEFINE Clean == staging = {} /\ \A i \in Idx : trash[i] = Absent
<1> USE DEF Goto, Forward, Done
<1>1. pc \in {"open", "apply", "stage", "retry"} \cup Done => Clean
  BY DEF CInv, Standing, Tidy
<1>2. CASE Open
  BY <1>1, <1>2 DEF Open, files
<1>3. CASE Begin
  BY <1>1, <1>3 DEF Begin, files
<1>4. CASE Resume
  BY <1>4 DEF Resume, MayResume, CInv, UInv, Rest, InStep
<1>5. CASE Stage
  <2>1. pc = "stage" /\ pc' = "effect" /\ cur' = cur /\ trash' = trash /\ staging' = staging \cup {cur}
    BY <1>5 DEF Stage
  <2>2. Ops[cur].kind = "write"
    BY <2>1 DEF CInv, UInv, Rest, InStep, op
  <2> QED BY <1>1, <2>1, <2>2
<1>6. CASE Apply
  <2>1. pc \in {"effect", "retry"} /\ cur' = cur /\ pc' = AfterEffect /\ op = Ops[cur]
    BY <1>6 DEF Apply, op
  <2>2. /\ \A i \in staging : i = cur /\ op.kind = "write"
        /\ \A i \in Idx : trash[i] = Absent
        /\ staging \subseteq Idx /\ trash \in [Idx -> Content] /\ cur \in Idx
    BY <2>1 DEF CInv, Standing, Tidy, UInv, TypeOK, AtOp, Applying
  <2>3. op.kind \in Kinds
    BY <2>1, <2>2, OpsTyped DEF Op
  <2>4. staging' = {}
    BY <1>6, <2>2, <2>3 DEF Apply, Effect, Kinds
  <2>5. CASE op.kind = "remove"
    BY <1>6, <2>1, <2>2, <2>4, <2>5 DEF Apply, Effect, AfterEffect
  <2>6. CASE op.kind # "remove"
    <3>1. trash' = trash
      BY <1>6, <2>3, <2>6 DEF Apply, Effect, Kinds
    <3> QED BY <2>2, <2>4, <3>1
  <2> QED BY <2>5, <2>6
<1>7. CASE Sweep
  <2>1. pc = "sweep" /\ pc' = "done" /\ staging' = staging /\ trash' = [trash EXCEPT ![cur] = Absent]
    BY <1>7 DEF Sweep
  <2> QED BY <2>1 DEF CInv, Standing, Tidy, UInv, TypeOK
<1>8. CASE Finish
  BY <1>1, <1>8 DEF Finish, files
<1>9. CASE Decide
  BY <1>9 DEF Decide, CanRollForward
<1>10. ASSUME NEW x \in EditPath, NEW v \in EditValue, Edit(x, v) PROVE Tidy'
  BY <1>10 DEF Edit, CInv, Standing, Tidy
<1>11. CASE UNCHANGED vars
  BY <1>11 DEF vars, CInv, Standing, Tidy
<1> QED BY <1>2, <1>3, <1>4, <1>5, <1>6, <1>7, <1>8, <1>9, <1>10, <1>11, ForwardSteps DEF Tidy

\* What users write.
LEMMA StepUserWrites ==
  ASSUME UInv, UserWrites, [Next]_vars
  PROVE  UserWrites'
<1>1. CASE UNCHANGED user
  BY <1>1 DEF UserWrites
<1>2. ASSUME NEW x \in EditPath, NEW v \in EditValue, Edit(x, v) PROVE UserWrites'
  BY <1>2 DEF Edit, UserWrites, UInv, TypeOK
<1>3. Command \/ Over \/ Crash \/ CrashInDiscard \/ UNCHANGED vars => UNCHANGED user
  BY DEF Command, Execute, Reverse, Complete, Recovery, Over, Crash, CrashInDiscard, Open, OpenFails,
         Begin, Resume, Refuse, Stage, Apply, ApplyFails, Sweep, Finish, LogFailure, Compensate, UndoOp,
         UndoRestore, Restore, UndoFails, Compensated, Discard, Discarded, Commit, CommitFails, Archive,
         Recover, LoadNothing, Load, Decide, ghosts, vars
<1> QED BY <1>1, <1>2, <1>3 DEF Next

-----------------------------------------------------------------------------
(* The decision to undo.                                                   *)

\* Without torn lines an append mends the tail, and one that returns is in the log.
LEMMA AppendMends ==
  ASSUME "torn" \notin Faults, tail = "torn" => mem.mend, NEW newLog, NEW newMem,
         Log(newLog, newMem) \/ LogThrows(newLog)
  PROVE  tail' # "torn" /\ (Log(newLog, newMem) => log' = newLog) /\ log' \in {log, newLog}
BY DEF Log, LogThrows, Glued, TailAfter, Fault

\* Records but those of the decision leave the decision as it is.
LEMMA KeepsDecision ==
  ASSUME UInv, Begin \/ Finish \/ LogFailure, "torn" \notin Faults, tail = "torn" => mem.mend
  PROVE  tail' # "torn" /\ log'.comp = log.comp /\ mem'.comp = mem.comp
<1>1. /\ mem \in Progress /\ log \in Progress /\ cur \in Idx /\ op = Ops[cur]
      /\ op.path \in Path /\ at \in Content
  <2>1. cur \in Idx /\ op = Ops[cur]
    BY DEF Begin, Finish, LogFailure, UInv, AtOp, Applying, Done, op
  <2> QED BY <2>1, OpsTyped DEF Op, UInv, TypeOK, at
<1>2. \A p \in Progress, q \in Progress :
        Log(p, q) \/ (LogThrows(p) /\ Untracked) =>
          /\ tail' # "torn" /\ log' \in {log, p}
          /\ mem'.comp \in {mem.comp, q.comp}
  <2>1. \A p \in Progress : [p EXCEPT !.mend = FALSE].comp = p.comp
    BY DEF Progress
  <2> QED BY <1>1, <2>1, AppendMends DEF Log, Untracked
<1>3. CASE Begin
  <2> DEFINE l == WithBegin(log, cur, Captured, Missing(cur))
             m == WithBegin(mem, cur, Captured, Missing(cur))
  <2>1. Captured \in Content /\ Missing(cur) \in SUBSET Path
    <3>1. Captured \in Content
      BY <1>1 DEF Captured, Content
    <3>2. ParentOf[Ops[cur].path] \in Path \cup {Root}
      BY <1>1, PathAssumption
    <3> QED BY <1>1, <3>1, <3>2 DEF Missing
  <2>2. l \in Progress /\ m \in Progress /\ l.comp = log.comp /\ m.comp = mem.comp
    BY <1>1, <2>1, ProgressTyped
  <2>3. Log(l, m) \/ (LogThrows(l) /\ Untracked)
    BY <1>3 DEF Begin
  <2> QED BY <1>2, <2>2, <2>3
<1>4. CASE Finish
  <2> DEFINE l == WithDone(log, cur, pc)
             m == WithDone(mem, cur, pc)
  <2>1. l \in Progress /\ m \in Progress /\ l.comp = log.comp /\ m.comp = mem.comp
    BY <1>1, <1>4, ProgressTyped DEF Finish
  <2>2. Log(l, m) \/ (LogThrows(l) /\ Untracked)
    BY <1>4 DEF Finish
  <2> QED BY <1>2, <2>1, <2>2
<1>5. CASE LogFailure
  <2> DEFINE l == WithFailed(log, cur)
             m == WithFailed(mem, cur)
  <2>1. l \in Progress /\ m \in Progress /\ l.comp = log.comp /\ m.comp = mem.comp
    BY <1>1, ProgressTyped
  <2>2. Log(l, m) \/ (LogThrows(l) /\ Untracked)
    BY <1>5 DEF LogFailure
  <2> QED BY <1>2, <2>1, <2>2
<1> QED BY <1>3, <1>4, <1>5

\* Nothing is undone before the log says so.
LEMMA StepLogged ==
  ASSUME UInv, Logged, [Next]_vars
  PROVE  Logged'
<1> SUFFICES ASSUME "torn" \notin Faults
             PROVE  /\ tail' = "torn" => mem'.mend \/ pc' \in {"down", "load"}
                    /\ pc' \in Undoing \/ mem'.comp => log'.comp
  BY DEF Logged
<1> DEFINE Goal == /\ tail' = "torn" => mem'.mend \/ pc' \in {"down", "load"}
                   /\ pc' \in Undoing \/ mem'.comp => log'.comp
<1> USE DEF Goto, logs, Undoing
<1>1. /\ tail = "torn" => mem.mend \/ pc \in {"down", "load"}
      /\ pc \in Undoing \/ mem.comp => log.comp
      /\ mem \in Progress /\ log \in Progress
  BY DEF Logged, UInv, TypeOK
<1>2. CASE Begin \/ Finish \/ LogFailure
  <2>1. pc \notin {"down", "load"}
    BY <1>2 DEF Begin, Finish, LogFailure, Done
  <2>2. tail' # "torn" /\ log'.comp = log.comp /\ mem'.comp = mem.comp
    BY <1>1, <1>2, <2>1, KeepsDecision
  <2>3. pc' \notin Undoing
    BY <1>2 DEF Begin, Finish, LogFailure, GotoNext
  <2> QED BY <1>1, <2>2, <2>3
<1>3. ASSUME NEW answer, End(answer)
      PROVE  pc' = "down" /\ ~mem'.comp
  BY <1>3, NoProgressTyped DEF End
<1>4. CASE Compensate
  <2>1. pc = "compensate" /\ (tail = "torn" => mem.mend)
    BY <1>1, <1>4 DEF Compensate
  <2>2. CASE End("error")
    BY <1>3, <2>2
  <2>3. CASE mem.comp /\ UNCHANGED logs
    BY <1>1, <2>1, <2>3
  <2>4. CASE Log(WithComp(log), WithComp(mem))
    BY <1>1, <2>1, <2>4, AppendMends, ProgressFlags
  <2> QED BY <1>4, <2>2, <2>3, <2>4 DEF Compensate
<1>5. CASE Compensated
  <2>1. pc = "compensated" /\ log.comp /\ (tail = "torn" => mem.mend)
    BY <1>1, <1>5 DEF Compensated
  <2>2. CASE ~End("error")
    <3>1. Log(log, mem)
      BY <1>5, <2>2 DEF Compensated
    <3>2. log' = log /\ tail' # "torn"
      BY <2>1, <3>1, AppendMends
    <3> QED BY <2>1, <3>2
  <2> QED BY <1>3, <2>2
<1>6. CASE Open \/ Resume \/ Refuse \/ Stage \/ Apply \/ ApplyFails \/ Sweep \/ Commit \/ Decide
  <2>1. /\ UNCHANGED logs /\ pc' \notin Undoing
        /\ pc \notin {"down", "load"}
    BY <1>6 DEF Open, Resume, Refuse, Stage, Apply, ApplyFails, Sweep, Commit, Decide, GotoNext, AfterEffect
  <2> QED BY <1>1, <2>1
<1>7. CASE UndoOp \/ UndoRestore \/ Restore \/ UndoFails \/ Discard
  BY <1>1, <1>7 DEF UndoOp, UndoRestore, Restore, UndoFails, Discard
<1>8. CASE OpenFails \/ Recover
  BY <1>1, <1>8 DEF OpenFails, Recover
<1>9. CASE Discarded \/ LoadNothing \/ Archive \/ Crash \/ CrashInDiscard
  BY <1>3, <1>9 DEF Discarded, LoadNothing, Archive, Crash, CrashInDiscard
<1>10. CASE CommitFails
  <2>1. pc = "commit" /\ UNCHANGED <<log, tail>>
    BY <1>10 DEF CommitFails
  <2>2. End("error") \/ (pc' = "compensate" /\ mem' = mem)
    BY <1>10 DEF CommitFails
  <2> QED BY <1>1, <1>3, <2>1, <2>2
<1>11. CASE Load
  <2>1. mem' = [log EXCEPT !.mend = (tail = "torn")] /\ log' = log /\ tail' = tail /\ pc' = "decide"
    BY <1>11 DEF Load
  <2>2. mem'.comp = log.comp /\ mem'.mend = (tail = "torn")
    BY <1>1, <2>1 DEF Progress
  <2> QED BY <2>1, <2>2
<1>12. ASSUME NEW x \in EditPath, NEW v \in EditValue, Edit(x, v) PROVE Goal
  BY <1>1, <1>12 DEF Edit
<1>13. CASE UNCHANGED vars
  BY <1>1, <1>13 DEF vars
<1> QED BY <1>2, <1>4, <1>5, <1>6, <1>7, <1>8, <1>9, <1>10, <1>11, <1>12, <1>13
           DEF Next, Command, Over, Execute, Reverse, Complete, Recovery

-----------------------------------------------------------------------------
(* What ops left stands.                                                   *)

\* What is left on a path that does not change, in a directory in which nothing goes.
LEMMA StandsKept ==
  ASSUME NEW d, NEW e, NEW u, NEW i, Stands(d, u, i), e[Ops[i].path] = d[Ops[i].path],
         \A y \in Path : ParentOf[y] = Ops[i].path /\ d[y] # Absent => e[y] # Absent
  PROVE  Stands(e, u, i)
BY DEF Stands, Within

\* What the user writes is content, and not what was there.
LEMMA EditStands ==
  ASSUME Whole, CInv, NEW i \in Idx, NEW x \in EditPath, NEW v \in EditValue, Edit(x, v)
  PROVE  /\ Stands(disk, user, i) => Stands(disk', user', i)
         /\ \A y \in Path : disk[y] # Absent => disk'[y] # Absent
<1>1. disk' = [disk EXCEPT ![x] = v] /\ user' = [user EXCEPT ![x] = v]
  BY DEF Edit
<1>2. /\ x \in Path /\ v # InitDisk[x] /\ v # Absent
      /\ disk \in [Path -> Content] /\ user \in [Path -> Content]
  BY PathAssumption DEF Whole, EditsDiffer, PlanShape, ContentsApart, CInv, UInv, TypeOK
<1>3. \A y \in Path : disk'[y] = (IF y = x THEN v ELSE disk[y]) /\ user'[y] = (IF y = x THEN v ELSE user[y])
  BY <1>1, <1>2
<1>4. Ops[i].path \in Path
  BY OpsTyped DEF Op
<1>5. \A y \in Path : disk[y] # Absent => disk'[y] # Absent
  BY <1>2, <1>3
<1>6. CASE Ops[i].path = x
  BY <1>2, <1>3, <1>6 DEF Stands
<1>7. CASE Ops[i].path # x
  BY <1>3, <1>4, <1>5, <1>7 DEF Stands, Within
<1> QED BY <1>5, <1>6, <1>7

\* Where the op at work is.
LEMMA AtWork ==
  ASSUME PlanShape, UInv, cur \in Idx
  PROVE  /\ op = Ops[cur] /\ op.path \in Path /\ op.kind \in Kinds /\ at = disk[op.path]
         /\ op.kind \in {"mkdir", "rmdir"} => op.path \in Dirs /\ at \in {Dir, Absent} /\ ParentOf[op.path] = Root
         /\ op.kind = "exec" => op.path \in Registration /\ ParentOf[op.path] = Root
         /\ op.kind \in {"write", "link"} => op.val # Absent
         /\ disk \in [Path -> Content]
<1>1. op = Ops[cur] /\ op.path \in Path /\ op.kind \in Kinds
  BY PathsOfOps DEF op
<1>2. \A x \in Dirs : disk[x] \in {Dir, Absent} /\ ParentOf[x] = Root
  BY DEF UInv, Rest, Explained, DirsExplained, PlanShape, PathsApart
<1>3. \A x \in Registration : ParentOf[x] = Root
  BY DEF PlanShape, PathsApart
<1>4. op.kind \in {"write", "link"} => op.val # Absent
  BY <1>1 DEF PlanShape, OpsTakeContents, ContentsApart
<1> QED BY <1>1, <1>2, <1>3, <1>4, PathsOfOps DEF DirOp, at, UInv, TypeOK

\* An op that has had its effect left what it leaves.
LEMMA EffectStands ==
  ASSUME Whole, CInv, Apply, pc' \in {"sweep"} \cup Done
  PROVE  /\ Stands(disk', user, cur)
         /\ op.kind \in {"write", "link"} => disk'[op.path] # Absent
<1>1. /\ pc \in {"effect", "retry"} /\ pc' = AfterEffect /\ cur \in Idx
      /\ Effect(disk', staging', trash')
  BY DEF Apply, Goto, CInv, UInv, AtOp, Applying
<1>2. /\ op = Ops[cur] /\ op.path \in Path /\ op.kind \in Kinds /\ at = disk[op.path]
      /\ op.kind \in {"mkdir", "rmdir"} => op.path \in Dirs /\ at \in {Dir, Absent}
      /\ op.kind \in {"write", "link"} => op.val # Absent
      /\ disk \in [Path -> Content]
  BY <1>1, AtWork DEF Whole, CInv
<1>3. CASE op.kind \in {"write", "link"}
  <2>1. disk' = [WithDirs(disk, Parents(op.path)) EXCEPT ![op.path] = op.val]
    BY <1>1, <1>3 DEF Effect
  <2>2. disk'[op.path] = op.val
    BY <1>2, <2>1 DEF WithDirs
  <2> QED BY <1>2, <1>3, <2>2 DEF Stands, Leaves
<1>4. CASE op.kind = "mkdir"
  <2>1. disk' = WithDirs(disk, Missing(cur))
    BY <1>1, <1>4 DEF Effect
  <2>2. op.path # Root
    BY <1>2, PathAssumption
  <2>3. at = Absent => op.path \in Missing(cur)
    BY <1>2, <1>4, <2>2 DEF Missing
  <2>4. disk'[op.path] = Dir
    BY <1>2, <1>4, <2>1, <2>3 DEF WithDirs
  <2> QED BY <1>2, <1>4, <2>4 DEF Stands, Leaves
<1>5. CASE op.kind = "remove"
  BY <1>1, <1>2, <1>5 DEF Effect, Stands, Leaves
<1>6. CASE op.kind = "rmdir"
  <2>1. disk' = [disk EXCEPT ![op.path] = IF at = Dir /\ EmptyDir(disk, staging, op.path) THEN Absent ELSE @]
    BY <1>1, <1>6 DEF Effect
  <2>2. Dynamic # << >>
    BY <1>1, <1>2, <1>6 DEF Whole, Restorable
  <2>3. CASE at = Dir /\ ~EmptyDir(disk, staging, op.path)
    <3>1. disk' = disk
      BY <1>2, <2>1, <2>3
    <3>2. \A i \in Idx : i \notin staging /\ trash[i] = Absent
      BY <1>1, <1>2, <1>6, <2>2 DEF CInv, Standing, Tidy, Forward
    <3>3. Within(disk, op.path)
      BY <2>3, <3>2 DEF EmptyDir, Within
    <3> QED BY <1>2, <1>6, <3>1, <3>3 DEF Stands
  <2>4. CASE ~(at = Dir /\ ~EmptyDir(disk, staging, op.path))
    <3>1. disk'[op.path] = Absent
      BY <1>2, <1>6, <2>1, <2>4
    <3> QED BY <1>2, <1>6, <3>1 DEF Stands, Leaves
  <2> QED BY <2>3, <2>4
<1>7. CASE op.kind = "exec"
  BY <1>1, <1>2, <1>7 DEF Effect, Stands, Leaves
<1> QED BY <1>2, <1>3, <1>4, <1>5, <1>6, <1>7 DEF Kinds

\* So it is until the op is done.
LEMMA StepInEffect ==
  ASSUME Whole, CInv, [Next]_vars
  PROVE  InEffect'
<1> DEFINE Goal == /\ Stands(disk', user', cur')
                   /\ Ops[cur'].kind \in {"write", "link"} => disk'[Ops[cur'].path] # Absent
<1> SUFFICES ASSUME pc' \in {"sweep"} \cup Done PROVE Goal
  BY DEF InEffect, op
<1> USE DEF Goto
<1>1. CASE Resume
  <2>1. /\ pc = "apply" /\ UNCHANGED <<disk, user, cur>> /\ cur \in Idx
        /\ MayResume
    BY <1>1 DEF Resume, files, ghosts, CInv, UInv, AtOp, Applying
  <2>2. /\ op = Ops[cur] /\ at = disk[op.path]
        /\ op.kind \in {"write", "link"} => op.val # Absent
    BY <2>1, AtWork DEF Whole, CInv
  <2> QED BY <2>1, <2>2 DEF MayResume, Stands, Leaves
<1>2. CASE Apply
  BY <1>2, EffectStands DEF Apply, ghosts, op
<1>3. CASE Sweep
  <2>1. pc = "sweep" /\ UNCHANGED <<disk, user, cur>>
    BY <1>3 DEF Sweep
  <2> QED BY <2>1 DEF CInv, Standing, InEffect, op
<1>4. CASE Open \/ Begin \/ Stage \/ Finish \/ Decide
  BY <1>4 DEF Open, Begin, Stage, Finish, Decide, GotoNext, Done
<1>5. ASSUME NEW x \in EditPath, NEW v \in EditValue, Edit(x, v) PROVE Goal
  <2>1. UNCHANGED <<pc, cur>> /\ cur \in Idx
    BY <1>5 DEF Edit, CInv, UInv, AtOp, Applying
  <2>2. Stands(disk, user, cur) /\ (op.kind \in {"write", "link"} => disk[op.path] # Absent)
    BY <2>1 DEF CInv, Standing, InEffect
  <2>3. Ops[cur].path \in Path /\ op = Ops[cur]
    BY <2>1, OpsTyped DEF Op, op
  <2> QED BY <1>5, <2>1, <2>2, <2>3, EditStands
<1>6. CASE UNCHANGED vars
  BY <1>6 DEF vars, CInv, Standing, InEffect, op
<1> QED BY <1>1, <1>2, <1>3, <1>4, <1>5, <1>6, ForwardSteps DEF Forward, Done

\* A step that leaves the files and what was done as they are.
LEMMA SameStands ==
  ASSUME CInv, pc \in Forward, pc' # "commit", UNCHANGED <<disk, user, cur>>, NEW i \in Idx,
         \A j \in Idx : /\ IsDone(mem', j) <=> IsDone(mem, j)
                        /\ IsBegun(mem, j) => IsBegun(mem', j),
         pc = "commit" \/ cur \in Idx, LastDone(mem', i)
  PROVE  Stands(disk', user', i) \/ InHand(i)'
<1>1. LastDone(mem, i)
  BY DEF LastDone
<1>2. Stands(disk, user, i) \/ InHand(i)
  BY <1>1 DEF CInv, Standing, InPlace
<1> QED BY <1>2 DEF InHand, op

\* The effect of the op at work leaves alone what it has not in hand.
LEMMA EffectSpares ==
  ASSUME Whole, CInv, pc \in {"stage", "effect", "retry"}, NEW e, \A y \in Path : EffectAt(cur, disk, e, y),
         NEW i \in Idx, LastDone(mem, i), Ops[i].path # op.path,
         ~(Ops[i].kind = "rmdir" /\ Ops[i].path = ParentOf[op.path])
  PROVE  Stands(e, user, i)
<1>1. /\ cur \in Idx /\ op = Ops[cur]
      /\ Stands(disk, user, i)
  BY DEF CInv, Standing, InPlace, InHand, Forward, UInv, AtOp, Applying, op
<1>2. /\ Ops[i].path \in Path
      /\ Ops[i].kind \in Kinds
      /\ FileOp(i) \/ Ops[i].kind = "exec" => Ops[i].path \notin Dirs
      /\ MadeBy(cur) \subseteq Dirs
      /\ DirOp(cur) => op.path \in Dirs
      /\ op.kind = "exec" => op.path \in Registration
  <2>1. Ops[i].kind = "exec" => Ops[i].path \notin Dirs
    BY PathsOfOps DEF Whole, PlanShape, PathsApart
  <2> QED BY <1>1, <2>1, PathsOfOps DEF Whole
<1>3. CASE e[Ops[i].path] = disk[Ops[i].path]
  <2>1. CASE Ops[i].kind = "rmdir"
    <3>1. ASSUME NEW y \in Path, ParentOf[y] = Ops[i].path, disk[y] # Absent PROVE e[y] # Absent
      <4>1. Ops[i].path \in Dirs
        BY <2>1, PathsOfOps DEF Whole, DirOp
      <4>2. y \notin Dirs \cup Registration
        BY <3>1, <4>1, InDirs DEF Whole
      <4>3. y # op.path
        BY <2>1, <3>1
      <4>4. e[y] = disk[y]
        BY <1>1, <1>2, <4>2, <4>3 DEF EffectAt
      <4> QED BY <3>1, <4>4
    <3> QED BY <1>1, <1>3, <3>1, StandsKept
  <2>2. CASE Ops[i].kind # "rmdir"
    BY <1>1, <1>3, <2>2 DEF Stands
  <2> QED BY <2>1, <2>2
<1>4. CASE e[Ops[i].path] # disk[Ops[i].path]
  <2>1. Ops[i].path \in MadeBy(cur) /\ e[Ops[i].path] = Dir
    BY <1>1, <1>2, <1>4 DEF EffectAt
  <2>2. Ops[i].kind \in {"mkdir", "rmdir"}
    BY <1>2, <2>1 DEF FileOp, Kinds
  <2>3. Ops[i].path = ParentOf[op.path]
    BY <1>1, <2>1 DEF MadeBy
  <2> QED BY <2>1, <2>2, <2>3 DEF Stands, Leaves
<1> QED BY <1>3, <1>4

\* So does an op that is done: what it had in hand is what it left, or in what it left.
LEMMA FinishStands ==
  ASSUME Whole, CInv, Finish, pc' \in Forward, NEW i \in Idx, LastDone(mem', i)
  PROVE  Stands(disk', user', i)
<1>1. /\ UNCHANGED <<disk, user>>
      /\ cur \in Idx /\ cur \in Nat /\ ~IsDone(mem, cur)
      /\ \A j \in Idx : IsDone(mem', j) <=> IsDone(mem, j) \/ j = cur
      /\ \A j \in Idx : cur < j => ~IsBegun(mem, j) /\ ~IsDone(mem, j)
  BY Finished DEF CInv, Forward, Done
<1>2. pc \in Done /\ pc \in Forward
  BY DEF Finish, Forward
<1>3. /\ op = Ops[cur] /\ Stands(disk, user, cur)
      /\ op.kind \in {"write", "link"} => disk[op.path] # Absent
  BY <1>2 DEF CInv, Standing, InEffect, op
<1>4. CASE i = cur
  BY <1>1, <1>3, <1>4
<1>5. CASE i # cur
  <2>1. LastDone(mem, i) /\ i < cur
    <3>1. IsDone(mem, i) /\ ~(cur < i)
      BY <1>1, <1>5 DEF LastDone
    <3> QED BY <1>1, <1>5, <3>1, IdxNat DEF LastDone
  <2>2. Ops[i].path # op.path
    BY <1>1, <1>3, <2>1, IdxNat DEF LastDone
  <2>3. Stands(disk, user, i) \/ (Ops[i].kind = "rmdir" /\ Ops[i].path = ParentOf[op.path])
    BY <1>2, <2>1, <2>2 DEF CInv, Standing, InPlace, InHand
  <2>4. CASE Ops[i].kind = "rmdir" /\ Ops[i].path = ParentOf[op.path]
    <3>1. Ops[i].path \in Path
      BY OpsTyped DEF Op
    <3>2. op.path \in Path /\ op.kind \in {"write", "link", "remove"}
      BY <1>1, <1>3, <2>4, <3>1, AtWork, PathAssumption DEF Kinds, Whole, CInv
    <3>3. op.kind # "remove"
      <4>1. EmptiedFirst
        BY DEF Whole
      <4>2. op.kind = "remove" => cur < i
        BY <1>1, <1>3, <2>4, <4>1 DEF EmptiedFirst
      <4> QED BY <1>1, <2>1, <4>2, IdxNat
    <3>4. Within(disk, Ops[i].path)
      BY <1>3, <2>4, <3>2, <3>3 DEF Within
    <3> QED BY <1>1, <2>4, <3>4 DEF Stands
  <2> QED BY <1>1, <2>3, <2>4
<1> QED BY <1>4, <1>5

\* A recovery that goes on finds what was done last where the log says it is.
LEMMA DecideStands ==
  ASSUME Whole, CInv, Decide, pc' \in Forward, NEW i \in Idx, LastDone(mem', i)
  PROVE  Stands(disk', user', i) \/ InHand(i)'
<1>1. /\ pc = "decide" /\ CanRollForward /\ GotoNext(0, mem)
      /\ UNCHANGED <<disk, user, mem, log>>
  BY DEF Decide, files, logs, ghosts, Goto, Forward, Done
<1>2. /\ Dynamic = << >> /\ ~mem.comp
      /\ \A j \in Idx : LastDoneAt(j) => ResultHolds(j)
  BY <1>1 DEF CanRollForward
<1>3. ~log.comp /\ Alike(mem, log)
  BY <1>1, <1>2 DEF CInv, Decided, UInv, Rest, InStep
<1>4. LastDone(mem, i) /\ LastDone(log, i)
  BY <1>1, <1>3, AlikeSame DEF LastDone
<1>5. CASE Ops[i].kind # "exec"
  <2>1. ResultHolds(i)
    BY <1>2, <1>4, <1>5 DEF LastDoneAt, LastDone
  <2>2. Ops[i].kind \in Kinds \ {"exec", "rmdir"}
    BY <1>2, <1>5, PathsOfOps DEF Whole, Restorable
  <2>3. CASE Ops[i].kind = "mkdir"
    <3>1. disk[Ops[i].path] \in {Dir, Absent}
      BY <2>3, PathsOfOps DEF Whole, DirOp, CInv, UInv, Rest, Explained, DirsExplained
    <3>2. disk[Ops[i].path] = Dir
      BY <2>1, <2>3, <3>1 DEF ResultHolds, Whole, PlanShape, ContentsApart, Dir, Absent
    <3> QED BY <1>1, <2>3, <3>2 DEF Stands, Leaves
  <2>4. CASE Ops[i].kind \in {"write", "link", "remove"}
    BY <1>1, <2>1, <2>4 DEF ResultHolds, Stands, Leaves
  <2> QED BY <2>2, <2>3, <2>4 DEF Kinds
<1>6. CASE Ops[i].kind = "exec"
  <2>1. "torn" \notin Faults
    BY <1>2, <1>6, PathsOfOps DEF Whole, HostsLogged
  <2>2. \/ disk[Ops[i].path] = Ops[i].val
        \/ \E k \in Idx : Ops[k].path = Ops[i].path /\ IsBegun(log, k) /\ ~IsDone(log, k)
    BY <1>1, <1>2, <1>3, <1>4, <1>6, <2>1 DEF CInv, Standing, HostsStand, Forward, Done
  <2>3. CASE disk[Ops[i].path] = Ops[i].val
    BY <1>1, <1>6, <2>3 DEF Stands, Leaves
  <2>4. CASE \E k \in Idx : Ops[k].path = Ops[i].path /\ IsBegun(log, k) /\ ~IsDone(log, k)
    <3>1. PICK k \in Idx : Ops[k].path = Ops[i].path /\ IsBegun(mem, k) /\ ~IsDone(mem, k)
      BY <1>3, <2>4, AlikeSame
    <3>2. pc' # "commit"
      BY <1>1, <3>1, GotoNextAll, IdxNat
    <3>3. /\ cur' \in Idx /\ ~IsDone(mem, cur')
          /\ \A j \in Idx : 0 < j /\ j < cur' => IsDone(mem, j)
      BY <1>1, <3>2, GotoNextFirst
    <3>4. cur' = k
      <4>1. ~(k < cur')
        BY <3>1, <3>3, IdxNat
      <4>2. ~(cur' < k)
        BY <3>1, <3>3 DEF CInv, UInv, Rest, Records, Ordered
      <4> QED BY <3>3, <4>1, <4>2, IdxNat
    <3> QED BY <1>1, <3>1, <3>2, <3>4 DEF InHand, op
  <2> QED BY <2>2, <2>3, <2>4
<1> QED BY <1>5, <1>6

\* What the plan did stands as long as it goes on.
LEMMA StepInPlace ==
  ASSUME Whole, CInv, [Next]_vars
  PROVE  InPlace'
<1> SUFFICES ASSUME pc' \in Forward, NEW i \in Idx, LastDone(mem', i)
             PROVE  Stands(disk', user', i) \/ InHand(i)'
  BY DEF InPlace
<1> USE DEF Goto
<1>0. mem \in Progress /\ log \in Progress
  BY DEF CInv, UInv, TypeOK
<1>1. CASE Open
  <2>1. mem' = mem /\ pc = "open"
    BY <1>1 DEF Open, logs
  <2>2. \A j \in Idx : ~IsDone(mem, j)
    BY <2>1 DEF CInv, UInv, Rest, InStep, Records, Ordered
  <2> QED BY <2>1, <2>2 DEF LastDone
<1>2. CASE Begin
  <2> DEFINE m == WithBegin(mem, cur, Captured, Missing(cur))
             l == WithBegin(log, cur, Captured, Missing(cur))
  <2>1. /\ pc = "apply" /\ pc \in Forward /\ UNCHANGED <<disk, user, cur>> /\ cur \in Idx
        /\ pc' # "commit" /\ pc' # "failed"
    BY <1>2 DEF Begin, files, CInv, UInv, AtOp, Applying, Forward, Done
  <2>2. Log(l, m)
    BY <1>2, <2>1 DEF Begin
  <2>3. /\ m.done = mem.done /\ Extends(mem, m)
    BY <1>0, <2>1, WithBeginIs
  <2>4. m \in Progress
    <3>1. Captured \in Content /\ Missing(cur) \in SUBSET Path
      <4>1. op = Ops[cur] /\ op.path \in Path /\ at \in Content
        BY <2>1, OpsTyped DEF op, Op, at, CInv, UInv, TypeOK
      <4>2. ParentOf[Ops[cur].path] \in Path \cup {Root}
        BY <4>1, PathAssumption
      <4> QED BY <4>1, <4>2 DEF Captured, Content, Missing
    <3> QED BY <1>0, <2>1, <3>1, ProgressTyped
  <2>5. Alike(m, mem')
    BY <1>0, <2>2, <2>4, Appended
  <2>6. \A j \in Idx : /\ IsDone(mem', j) <=> IsDone(mem, j)
                       /\ IsBegun(mem, j) => IsBegun(mem', j)
    BY <2>3, <2>5 DEF Alike, Extends, IsDone, IsBegun
  <2> QED BY <2>1, <2>6, SameStands
<1>3. CASE Resume \/ Sweep
  <2>1. /\ pc \in {"apply", "sweep"} /\ pc \in Forward /\ UNCHANGED <<disk, user, cur, mem>> /\ cur \in Idx
        /\ pc' # "commit"
    BY <1>3 DEF Resume, Sweep, files, logs, ghosts, CInv, UInv, AtOp, Applying, Forward
  <2> QED BY <2>1, SameStands
<1>4. CASE Stage \/ Apply
  <2>1. /\ pc \in {"stage", "effect", "retry"} /\ UNCHANGED <<user, cur, mem>> /\ cur \in Idx
        /\ pc' # "commit" /\ IsBegun(mem, cur)
    BY <1>4 DEF Stage, Apply, logs, ghosts, CInv, UInv, AtOp, Applying, Rest, InStep, Working, AfterEffect
  <2>2. \A y \in Path : EffectAt(cur, disk, disk', y)
    <3>1. CASE Apply
      BY <2>1, <3>1, EffectIsAt DEF Whole, CInv, UInv, Apply
    <3>2. CASE Stage
      <4>1. disk' \in {disk, WithDirs(disk, Parents(op.path))} /\ op = Ops[cur]
        BY <3>2 DEF Stage, op
      <4>2. \A y \in Path : y \in Parents(op.path) => y \in MadeBy(cur)
        BY <4>1 DEF Parents, MadeBy
      <4> QED BY <4>1, <4>2 DEF EffectAt, WithDirs
    <3> QED BY <1>4, <3>1, <3>2
  <2>3. CASE Ops[i].path = op.path \/ (Ops[i].kind = "rmdir" /\ Ops[i].path = ParentOf[op.path])
    BY <2>1, <2>3 DEF InHand, op
  <2>4. CASE ~(Ops[i].path = op.path \/ (Ops[i].kind = "rmdir" /\ Ops[i].path = ParentOf[op.path]))
    BY <2>1, <2>2, <2>4, EffectSpares
  <2> QED BY <2>3, <2>4
<1>5. CASE Finish
  BY <1>5, FinishStands
<1>6. CASE Decide
  BY <1>6, DecideStands
<1>7. ASSUME NEW x \in EditPath, NEW v \in EditValue, Edit(x, v)
      PROVE  Stands(disk', user', i) \/ InHand(i)'
  <2>1. UNCHANGED <<pc, cur, mem>>
    BY <1>7 DEF Edit, logs
  <2>2. Stands(disk, user, i) \/ InHand(i)
    BY <2>1 DEF CInv, Standing, InPlace
  <2>3. InHand(i) => InHand(i)'
    BY <2>1 DEF InHand, op
  <2> QED BY <1>7, <2>2, <2>3, EditStands
<1>8. CASE UNCHANGED vars
  BY <1>8 DEF vars, CInv, Standing, InPlace, InHand, op
<1> QED BY <1>1, <1>2, <1>3, <1>4, <1>5, <1>6, <1>7, <1>8, ForwardSteps

-----------------------------------------------------------------------------
(* What host commands did.                                                 *)

\* While the plan is carried out, it is there, or another command for the same
\* registration is begun.
LEMMA HostsInPlace ==
  ASSUME Whole, CInv, pc \in Forward, NEW i \in Idx, Ops[i].kind = "exec", LastDone(log, i)
  PROVE  \/ disk[Ops[i].path] = Ops[i].val
         \/ /\ pc # "commit" /\ cur \in Idx /\ Ops[cur].path = Ops[i].path
            /\ IsBegun(log, cur) /\ ~IsDone(log, cur)
<1>1. Alike(mem, log) /\ LastDone(mem, i)
  BY AlikeSame DEF CInv, UInv, Rest, InStep, LastDone
<1>2. user[Ops[i].path] = InitDisk[Ops[i].path]
  BY PathsOfOps DEF Whole, PlanShape, PathsApart, CInv, Standing, UserWrites
<1>3. Stands(disk, user, i) \/ InHand(i)
  BY <1>1 DEF CInv, Standing, InPlace
<1>4. CASE Stands(disk, user, i)
  BY <1>2, <1>4 DEF Stands, Leaves
<1>5. CASE InHand(i)
  <2>1. pc # "commit" /\ IsBegun(mem, cur) /\ Ops[i].path = Ops[cur].path
    BY <1>5 DEF InHand, op
  <2>2. cur \in Idx /\ ~IsDone(mem, cur)
    BY <2>1 DEF CInv, UInv, AtOp, Applying, Rest, InStep, Forward
  <2> QED BY <1>1, <2>1, <2>2, AlikeSame
<1> QED BY <1>3, <1>4, <1>5

\* A step that goes on with neither registrations nor records.
LEMMA HostsKept ==
  ASSUME CInv, pc \notin Forward, Alike(log, log'), log.comp => log'.comp,
         \A x \in Registration : disk'[x] = disk[x]
  PROVE  HostsStand'
<1> SUFFICES ASSUME Dynamic = << >>, "torn" \notin Faults, ~log'.comp, NEW i \in Idx,
                    Ops[i].kind = "exec", LastDone(log', i)
             PROVE  \/ disk'[Ops[i].path] = Ops[i].val
                    \/ \E k \in Idx : Ops[k].path = Ops[i].path /\ IsBegun(log', k) /\ ~IsDone(log', k)
  BY DEF HostsStand
<1>1. LastDone(log, i)
  BY AlikeSame DEF LastDone
<1>2. \/ disk[Ops[i].path] = Ops[i].val
      \/ \E k \in Idx : Ops[k].path = Ops[i].path /\ IsBegun(log, k) /\ ~IsDone(log, k)
  BY <1>1 DEF CInv, Standing, HostsStand
<1>3. Ops[i].path \in Registration
  BY DEF Registration
<1> QED BY <1>2, <1>3, AlikeSame

\* A command that stops carrying the plan out leaves them as the log says.
LEMMA HostsLeft ==
  ASSUME Whole, CInv, pc \in Forward, UNCHANGED log,
         \A x \in Registration : disk'[x] = disk[x] \/ (cur \in Idx /\ IsBegun(mem, cur) /\ x = Ops[cur].path /\ pc # "commit")
  PROVE  HostsStand'
<1> SUFFICES ASSUME NEW i \in Idx, Ops[i].kind = "exec", LastDone(log, i)
             PROVE  \/ disk'[Ops[i].path] = Ops[i].val
                    \/ \E k \in Idx : Ops[k].path = Ops[i].path /\ IsBegun(log, k) /\ ~IsDone(log, k)
  BY DEF HostsStand
<1>1. Ops[i].path \in Registration
  BY DEF Registration
<1>2. CASE disk'[Ops[i].path] = disk[Ops[i].path]
  BY <1>2, HostsInPlace
<1>3. CASE cur \in Idx /\ IsBegun(mem, cur) /\ Ops[i].path = Ops[cur].path /\ pc # "commit"
  <2>1. ~IsDone(mem, cur) /\ Alike(mem, log)
    BY <1>3 DEF CInv, UInv, Rest, InStep, Forward, Done
  <2>2. IsBegun(log, cur) /\ ~IsDone(log, cur)
    BY <1>3, <2>1, AlikeSame
  <2> QED BY <1>3, <2>2
<1> QED BY <1>1, <1>2, <1>3

\* So does one whose begin or done record is not known to be in the log.
LEMMA HostsThrown ==
  ASSUME Whole, CInv, Begin \/ Finish, pc' = "failed"
  PROVE  HostsStand'
<1> DEFINE l == IF pc = "apply" THEN WithBegin(log, cur, Captured, Missing(cur)) ELSE WithDone(log, cur, pc)
<1>1. /\ pc \in {"apply"} \cup Done /\ pc \in Forward /\ pc # "commit" /\ UNCHANGED disk
      /\ cur \in Idx /\ op = Ops[cur] /\ log \in Progress /\ mem \in Progress
  BY DEF Begin, Finish, files, Forward, Done, CInv, UInv, TypeOK, AtOp, Applying, op
<1>2. log' \in {log, l}
  <2>1. CASE Begin
    BY <2>1 DEF Begin, Log, LogThrows
  <2>2. CASE Finish
    BY <2>2 DEF Finish, Log, LogThrows, Done
  <2> QED BY <2>1, <2>2
<1>3. CASE log' = log
  BY <1>1, <1>3, HostsLeft
<1>4. CASE log' = l
  <2> SUFFICES ASSUME NEW i \in Idx, Ops[i].kind = "exec", LastDone(l, i)
               PROVE  \/ disk[Ops[i].path] = Ops[i].val
                      \/ \E k \in Idx : Ops[k].path = Ops[i].path /\ IsBegun(l, k) /\ ~IsDone(l, k)
    BY <1>1, <1>4 DEF HostsStand
  <2>1. CASE pc = "apply"
    <3>1. l.done = log.done /\ Extends(log, l)
      BY <1>1, <2>1, WithBeginIs
    <3>2. \A k \in Idx : (IsDone(l, k) <=> IsDone(log, k)) /\ (IsBegun(log, k) => IsBegun(l, k))
      BY <3>1 DEF Extends, IsBegun, IsDone
    <3>3. LastDone(log, i)
      BY <3>2 DEF LastDone
    <3> QED BY <1>1, <3>2, <3>3, HostsInPlace
  <2>2. CASE pc \in Done
    <3>1. \A k \in Idx : l.done[k] = IF k = cur THEN pc ELSE log.done[k]
      <4>1. pc # "apply"
        BY <2>2 DEF Done
      <4> QED BY <1>1, <2>2, <4>1, WithDoneIs
    <3>2. \A k \in Idx : IsDone(l, k) <=> IsDone(log, k) \/ k = cur
      BY <2>2, <3>1 DEF IsDone, Done, None
    <3>3. ~IsDone(log, cur) /\ \A k \in Idx : cur < k => ~IsDone(log, k)
      <4>1. Alike(mem, log) /\ ~IsDone(mem, cur)
        BY <1>1 DEF CInv, UInv, Rest, InStep
      <4>2. Ordered(log)
        BY DEF CInv, UInv, Rest, Records
      <4> QED BY <1>1, <4>1, <4>2, AlikeSame DEF Ordered
    <3>4. CASE i = cur
      <4>1. Stands(disk, user, cur)
        BY <2>2 DEF CInv, Standing, InEffect
      <4>2. user[Ops[i].path] = InitDisk[Ops[i].path]
        BY PathsOfOps DEF Whole, PlanShape, PathsApart, CInv, Standing, UserWrites
      <4> QED BY <3>4, <4>1, <4>2 DEF Stands, Leaves
    <3>5. CASE i # cur
      <4>1. IsDone(log, i) /\ i < cur
        BY <1>1, <3>2, <3>3, <3>5, IdxNat DEF LastDone
      <4>2. LastDone(log, i)
        BY <3>2, <4>1 DEF LastDone
      <4>3. Ops[cur].path # Ops[i].path
        BY <1>1, <3>2, <4>1, IdxNat DEF LastDone
      <4> QED BY <1>1, <4>2, <4>3, HostsInPlace
    <3> QED BY <3>4, <3>5
  <2> QED BY <1>1, <2>1, <2>2
<1> QED BY <1>2, <1>3, <1>4

\* What host commands did stands until the decision to undo it is logged.
LEMMA StepHostsStand ==
  ASSUME Whole, CInv, [Next]_vars
  PROVE  HostsStand'
<1> USE DEF Goto
<1>1. ASSUME pc' \in Forward PROVE HostsStand'
  BY <1>1 DEF HostsStand
<1>2. CASE Open \/ Resume
  <2>1. pc' \in Forward
    BY <1>2 DEF Open, Resume, GotoNext, Forward, Done
  <2> QED BY <1>1, <2>1
<1>3. CASE Begin \/ Finish
  <2>1. pc' \in Forward \cup {"failed"}
    BY <1>3 DEF Begin, Finish, GotoNext, Forward
  <2> QED BY <1>1, <1>3, <2>1, HostsThrown
<1>4. CASE Stage \/ Apply \/ ApplyFails
  <2>1. /\ pc \in {"stage", "effect", "retry"} /\ UNCHANGED log /\ cur \in Idx /\ IsBegun(mem, cur)
        /\ pc \in Forward /\ TypeOK /\ op = Ops[cur]
    BY <1>4 DEF Stage, Apply, ApplyFails, logs, CInv, UInv, AtOp, Applying, Rest, InStep, Working, Forward, op
  <2>2. \A y \in Path : EffectAt(cur, disk, disk', y)
    <3>1. CASE Effect(disk', staging', trash')
      BY <2>1, <3>1, EffectIsAt DEF Whole
    <3>2. CASE disk' \in {disk, WithDirs(disk, Parents(op.path))}
      <4>1. \A y \in Path : y \in Parents(op.path) => y \in MadeBy(cur)
        BY <2>1 DEF Parents, MadeBy
      <4> QED BY <3>2, <4>1 DEF EffectAt, WithDirs
    <3> QED BY <1>4, <3>1, <3>2 DEF Stage, Apply, ApplyFails, files
  <2>3. ASSUME NEW x \in Registration, x # Ops[cur].path PROVE disk'[x] = disk[x]
    <3>1. x \in Path /\ x \notin Dirs /\ MadeBy(cur) \subseteq Dirs
      BY <2>1, PathsOfOps DEF Whole, PlanShape, PathsApart, Registration
    <3> QED BY <2>2, <2>3, <3>1 DEF EffectAt
  <2> QED BY <2>1, <2>3, HostsLeft DEF Done
<1>5. CASE Refuse \/ Sweep \/ Commit \/ CommitFails
  <2>1. pc \in Forward /\ UNCHANGED <<disk, log>>
    BY <1>5 DEF Refuse, Sweep, Commit, CommitFails, files, logs, Forward
  <2> QED BY <2>1, HostsLeft
<1>6. CASE Crash \/ CrashInDiscard
  <2>1. UNCHANGED <<disk, log>> /\ log \in Progress
    BY <1>6 DEF Crash, CrashInDiscard, files, CInv, UInv, TypeOK
  <2>2. CASE pc \in Forward
    BY <2>1, <2>2, HostsLeft
  <2>3. CASE pc \notin Forward
    BY <2>1, <2>3, HostsKept, Flagged
  <2> QED BY <2>2, <2>3
<1>7. CASE LogFailure \/ Compensate \/ Compensated
  <2>1. pc \notin Forward /\ UNCHANGED disk /\ log \in Progress
    BY <1>7 DEF LogFailure, Compensate, Compensated, files, Forward, Done, CInv, UInv, TypeOK
  <2>2. log' \in {log, WithComp(log), WithFailed(log, cur)}
    BY <1>7 DEF LogFailure, Compensate, Compensated, Log, LogThrows, End, logs
  <2>3. Alike(log, log') /\ (log.comp => log'.comp)
    <3>1. WithFailed(log, cur).comp = log.comp
      BY <2>1 DEF WithFailed, Progress
    <3> QED BY <2>1, <2>2, <3>1, Flagged, ProgressFlags
  <2> QED BY <2>1, <2>3, HostsKept
<1>8. CASE UndoOp \/ UndoRestore \/ Restore \/ UndoFails
  <2>1. pc \in Undoing /\ UNCHANGED log
    BY <1>8 DEF UndoOp, UndoRestore, Restore, UndoFails, logs, Undoing
  <2> QED BY <2>1 DEF CInv, Standing, Logged, HostsStand
<1>9. CASE OpenFails \/ Discard \/ Discarded \/ Archive \/ Recover \/ LoadNothing \/ Load \/ Decide
  <2>1. pc \notin Forward /\ UNCHANGED <<disk, log>> /\ log \in Progress
    BY <1>9 DEF OpenFails, Discard, Discarded, Archive, Recover, LoadNothing, Load, Decide, files, logs, Forward,
                Done, CInv, UInv, TypeOK
  <2> QED BY <2>1, HostsKept, Flagged
<1>10. ASSUME NEW x \in EditPath, NEW v \in EditValue, Edit(x, v) PROVE HostsStand'
  <2>1. UNCHANGED <<pc, log>> /\ disk' = [disk EXCEPT ![x] = v] /\ log \in Progress /\ disk \in [Path -> Content]
    BY <1>10 DEF Edit, logs, CInv, UInv, TypeOK
  <2>2. \A y \in Registration : disk'[y] = disk[y]
    <3>1. \A y \in Registration : y \in Path /\ y # x
      BY PathsOfOps DEF Whole, PlanShape, PathsApart, Registration
    <3> QED BY <2>1, <3>1
  <2> QED BY <1>1, <2>1, <2>2, HostsKept, Flagged
<1>11. CASE UNCHANGED vars
  <2>1. UNCHANGED <<pc, log, disk>> /\ log \in Progress
    BY <1>11 DEF vars, CInv, UInv, TypeOK
  <2> QED BY <1>1, <2>1, HostsKept, Flagged
<1> QED BY <1>2, <1>3, <1>4, <1>5, <1>6, <1>7, <1>8, <1>9, <1>10, <1>11
           DEF Next, Command, Over, Execute, Reverse, Complete, Recovery

-----------------------------------------------------------------------------
(* What is committed.                                                      *)

\* The op that is the last one on a path of the plan.
LEMMA LastAt ==
  ASSUME NEW x, \E i \in Idx : Ops[i].path = x, \A i \in Idx : IsDone(mem, i)
  PROVE  \E i \in Idx : Ops[i].path = x /\ LastDone(mem, i) /\ Final(x) = Leaves(i)
<1> DEFINE touching == {i \in Idx : Ops[i].path = x}
           last == CHOOSE i \in touching : \A j \in touching : i >= j
<1>1. touching \in SUBSET (0..Len(Ops)) /\ touching # {}
  BY IdxNat
<1>2. \E i \in touching : \A j \in touching : i >= j
  BY <1>1, OpsTyped, GreatestExists, Zenon
<1>3. last \in touching /\ \A j \in touching : last >= j
  BY <1>2, Zenon
<1>4. last \in Idx /\ Ops[last].path = x /\ Ops[last].kind \in Kinds
  BY <1>3, OpsTyped DEF Op
<1>5. \A j \in Idx : j > last => Ops[j].path # x
  <2> HIDE DEF last
  <2>1. ASSUME NEW j \in Idx, Ops[j].path = x PROVE last >= j
    BY <1>3, <2>1
  <2>2. ASSUME NEW j \in Idx, j > last PROVE ~(last >= j)
    BY <1>4, <2>2, IdxNat
  <2> QED BY <2>1, <2>2
<1>6. LastDone(mem, last)
  BY <1>4, <1>5 DEF LastDone
<1>7. Final(x) = Leaves(last)
  <2>1. Final(x) = CASE Ops[last].kind \in {"write", "link", "exec"} -> Ops[last].val
                     [] Ops[last].kind \in {"remove", "rmdir"}       -> Absent
                     [] Ops[last].kind = "mkdir"                     -> Dir
    BY <1>1, Zenon DEF Final
  <2> QED BY <2>1, Zenon DEF Leaves
<1> QED BY <1>4, <1>6, <1>7

\* When all is done, each path has what the plan leaves there, or what the user does.
LEMMA DoneIsWhole ==
  ASSUME Whole, CInv, pc = "commit", NEW p \in Path
  PROVE  \/ disk[p] = Final(p)
         \/ user[p] # InitDisk[p]
         \/ disk[p] = Dir /\ (Occupied(p) \/ InitDisk[p] = Absent)
<1>1. /\ \A i \in Idx : IsDone(mem, i)
      /\ \A i \in Idx : LastDone(mem, i) => Stands(disk, user, i)
  BY DEF CInv, Standing, AllDone, InPlace, InHand, Forward
<1>2. Explained(disk, staging, trash, mem, user, Bound) /\ Created(mem)
  BY DEF CInv, UInv, Rest, View, Records
<1>3. CASE \E i \in Idx : Ops[i].path = p
  <2>1. PICK i \in Idx : Ops[i].path = p /\ LastDone(mem, i) /\ Final(p) = Leaves(i)
    BY <1>1, <1>3, LastAt
  <2>2. Stands(disk, user, i)
    BY <1>1, <2>1
  <2>3. CASE Ops[i].kind = "rmdir" /\ Within(disk, p)
    <3>1. disk[p] \in {Dir, Absent}
      BY <1>2, <2>1, <2>3, PathsOfOps DEF Whole, DirOp, Explained, DirsExplained
    <3>2. Leaves(i) = Absent
      BY <2>3 DEF Leaves
    <3> QED BY <2>1, <2>3, <3>1, <3>2 DEF Within, Occupied
  <2> QED BY <2>1, <2>2, <2>3 DEF Stands
<1>4. CASE ~\E i \in Idx : Ops[i].path = p
  <2>1. Final(p) = InitDisk[p]
    BY <1>4 DEF Final
  <2>2. CASE p \in Dirs
    <3>1. /\ disk[p] \in {Dir, Absent} /\ InitDisk[p] \in {Dir, Absent}
          /\ InitDisk[p] = Dir /\ disk[p] = Absent => \E i \in Idx : Ops[i].path = p
      BY <1>2, <2>2 DEF Explained, DirsExplained, Whole, PlanShape, PathsApart
    <3> QED BY <1>4, <2>1, <3>1
  <2>3. CASE p \in Registration
    BY <1>4, <2>3 DEF Registration
  <2>4. CASE p \notin Dirs \cup Registration
    BY <1>2, <1>4, <2>1, <2>4 DEF Explained, FilesExplained
  <2> QED BY <2>2, <2>3, <2>4
<1> QED BY <1>3, <1>4

\* What is committed stays, but for what the user writes.
LEMMA StepWhole ==
  ASSUME Whole, CInv, [Next]_vars
  PROVE  CommittedIsWhole'
<1> SUFFICES ASSUME Committed', NEW p \in Path
             PROVE  \/ disk'[p] = Final(p)
                    \/ user'[p] # InitDisk[p]
                    \/ disk'[p] = Dir /\ (Occupied(p)' \/ InitDisk[p] = Absent)
  BY DEF CommittedIsWhole
<1> DEFINE Goal == \/ disk'[p] = Final(p)
                   \/ user'[p] # InitDisk[p]
                   \/ disk'[p] = Dir /\ (Occupied(p)' \/ InitDisk[p] = Absent)
<1>1. CASE ~Committed
  <2>1. Commit \/ CommitFails
    BY <1>1 DEF Next, Command, Over, Execute, Reverse, Complete, Recovery, Crash, CrashInDiscard, Open, OpenFails,
         Begin, Resume, Refuse, Stage, Apply, ApplyFails, Sweep, Finish, LogFailure, Compensate, UndoOp,
         UndoRestore, Restore, UndoFails, Compensated, Discard, Discarded, Archive, Edit,
         Recover, LoadNothing, Load, Decide, outcome, vars, Committed
  <2>2. pc = "commit" /\ UNCHANGED <<disk, user>>
    BY <2>1 DEF Commit, CommitFails, files, ghosts
  <2>3. \/ disk[p] = Final(p)
        \/ user[p] # InitDisk[p]
        \/ disk[p] = Dir /\ (Occupied(p) \/ InitDisk[p] = Absent)
    BY <2>2, DoneIsWhole
  <2> QED BY <2>2, <2>3 DEF Occupied
<1>2. CASE Committed
  <2>1. pc \in {"down", "load", "decide", "archive"}
    BY <1>2 DEF CInv, Decided
  <2>2. \/ disk[p] = Final(p)
        \/ user[p] # InitDisk[p]
        \/ disk[p] = Dir /\ (Occupied(p) \/ InitDisk[p] = Absent)
    BY <1>2 DEF CInv, CommittedIsWhole
  <2>3. CASE UNCHANGED <<disk, user>>
    BY <2>2, <2>3 DEF Occupied
  <2>4. ASSUME NEW x \in EditPath, NEW v \in EditValue, Edit(x, v) PROVE Goal
    <3>1. disk' = [disk EXCEPT ![x] = v] /\ user' = [user EXCEPT ![x] = v]
      BY <2>4 DEF Edit
    <3>2. /\ x \in Path /\ v # InitDisk[x] /\ v # Absent
          /\ disk \in [Path -> Content] /\ user \in [Path -> Content]
      BY PathAssumption DEF Whole, EditsDiffer, PlanShape, ContentsApart, CInv, UInv, TypeOK
    <3>3. Occupied(p) => Occupied(p)'
      BY <3>1, <3>2 DEF Occupied
    <3> QED BY <2>2, <3>1, <3>2, <3>3
  <2>5. UNCHANGED <<disk, user>> \/ \E x \in EditPath, v \in EditValue : Edit(x, v)
    BY <2>1 DEF Next, Command, Over, Execute, Reverse, Complete, Recovery, Crash, CrashInDiscard, Open, OpenFails,
         Begin, Resume, Refuse, Stage, Apply, ApplyFails, Sweep, Finish, LogFailure, Compensate, UndoOp,
         UndoRestore, Restore, UndoFails, Compensated, Discard, Discarded, Commit, CommitFails, Archive,
         Recover, LoadNothing, Load, Decide, files, ghosts, vars, Done
  <2> QED BY <2>3, <2>4, <2>5
<1> QED BY <1>1, <1>2

\* The invariant holds at first, and every step keeps it.
LEMMA InitCommits ==
  ASSUME PlanShape, Init
  PROVE  CInv
<1>1. UInv
  BY InitUndoable
<1>2. Decided
  BY NoProgressTyped DEF Init, Decided, Committed, GaveUp, Forward, Done
<1>3. /\ \A i \in Idx : ~IsDone(log, i)
      /\ ~mem.comp /\ pc = "open" /\ ~Committed
  BY NoProgressTyped DEF Init, NoProgress, IsDone, Committed
<1>4. AllDone /\ UserWrites /\ InEffect /\ InPlace
  BY <1>3 DEF Init, AllDone, UserWrites, InEffect, InPlace, Forward, Done
<1>5. Tidy /\ Logged
  BY <1>3 DEF Init, Tidy, Logged, Undoing, Absent
<1>6. HostsStand
  BY <1>3 DEF HostsStand, LastDone
<1>7. CommittedIsWhole
  BY <1>3 DEF CommittedIsWhole
<1> QED BY <1>1, <1>2, <1>4, <1>5, <1>6, <1>7 DEF CInv, Standing

\* Every step keeps CommittedIsWhole, given the invariant of the running transaction.
LEMMA StepCommits ==
  ASSUME Whole, CInv, [Next]_vars
  PROVE  CInv'
<1>1. UInv'
  BY StepUndoable DEF CInv, Whole
<1>2. Decided'
  BY StepDecides DEF CInv, UInv, IInv, Whole
<1>3. Standing'
  <2>1. AllDone' /\ Logged'
    BY StepAllDone, StepLogged DEF CInv, Standing
  <2>2. UserWrites'
    BY StepUserWrites DEF CInv, Standing
  <2> QED BY <2>1, <2>2, StepTidy, StepInEffect, StepInPlace, StepHostsStand DEF Standing
<1>4. CommittedIsWhole'
  BY StepWhole
<1> QED BY <1>1, <1>2, <1>3, <1>4 DEF CInv

\* A transaction is over whole or without trace, whichever of its calls failed, was
\* interrupted or was tried again, for every plan of the shape the planner makes, and as
\* long as no call that throws has replaced the receipt.
THEOREM AllOrNothingHolds ==
  ASSUME PlanShape, Restorable, EmptiedFirst, EditsDiffer, HostsLogged, "committed" \notin Faults
  PROVE  Spec => []AllOrNothing
<1>1. Whole
  BY DEF Whole
<1>2. Init => CInv
  BY InitCommits
<1>3. CInv /\ [Next]_vars => CInv'
  BY <1>1, StepCommits
<1>4. CInv => CommittedIsWhole
  BY DEF CInv
<1>5. CommittedIsWhole /\ UndoneLeavesNoTrace => AllOrNothing
  BY DEF AllOrNothing
<1> QED BY <1>2, <1>3, <1>4, <1>5, UndoneLeavesNoTraceHolds, PTL DEF Spec

-----------------------------------------------------------------------------
(* What is left beside the files.                                          *)

\* Op i has a staging file, or something moved aside.
Beside(i) == i \in staging \/ trash[i] # Absent

\* The ops up to this one are still to be undone, as far as the log or memory says.
Pending == IF Undone THEN 0
           ELSE IF pc \in {"undo", "restore"} /\ ~troubled THEN cur
           ELSE Len(Ops)

\* What is beside the files belongs to an op that is still to be undone, or was reported;
\* while the plan goes on, to one that is not done.
Accounted  == \A i \in Idx : Beside(i) => i <= Pending \/ i \in reported
NotYetDone == ~log.comp => \A i \in Idx : Beside(i) => ~IsDone(log, i)
SweptUp    == /\ pc \in Done => ~Beside(cur)
              /\ pc = "sweep" => op.kind = "remove"

\* A copy that a compensation stages for a removed file or tree waits until the path is free.
StagedRemovals ==
  \A i \in staging : Ops[i].kind = "remove" =>
    log.comp /\ trash[i] # Ops[i].val /\ disk[Ops[i].path] \in {Absent} \cup EditValue

CleanCommit == Committed => \A i \in Idx : ~Beside(i)

Aside == Accounted /\ NotYetDone /\ SweptUp /\ StagedRemovals /\ CleanCommit

LInv == UInv /\ Decided /\ AllDone /\ Logged /\ Aside

\* Only ops that were begun left anything, and only removals and writes.
LEMMA BesideBegun ==
  ASSUME UInv, NEW i \in Idx, Beside(i)
  PROVE  /\ IsBegun(View, i) /\ Ops[i].kind \in {"write", "remove"}
         /\ trash[i] # Absent => Ops[i].kind = "remove"
BY DEF Beside, UInv, Rest, Explained, AsideExplained

\* What comes to be beside the files is put there by the op at work.
LEMMA PutBeside ==
  ASSUME PlanShape, UInv, [Next]_vars, NEW i \in Idx,
         (i \in staging' /\ i \notin staging) \/ (trash'[i] # Absent /\ trash[i] = Absent)
  PROVE  /\ i = cur /\ UNCHANGED <<log, mem, cur, journal, receipt, troubled>>
         /\ \/ pc = "stage" /\ pc' \in {"effect", "failed"}
            \/ pc \in {"effect", "retry"} /\ pc' \in {"sweep", "failed"} /\ staging' = staging
            \/ UndoRestore
<1> USE DEF Goto
<1> DEFINE Goal == /\ i = cur /\ UNCHANGED <<log, mem, cur, journal, receipt, troubled>>
                   /\ \/ pc = "stage" /\ pc' \in {"effect", "failed"}
                      \/ pc \in {"effect", "retry"} /\ pc' \in {"sweep", "failed"} /\ staging' = staging
                      \/ UndoRestore
<1>1. (i \in staging' /\ i \notin staging) \/ (trash'[i] # Absent /\ trash[i] = Absent)
  OBVIOUS
<1>2. staging \subseteq Idx /\ trash \in [Idx -> Content]
  BY DEF UInv, TypeOK
<1>3. CASE Stage
  BY <1>1, <1>3 DEF Stage, logs, outcome
<1>4. CASE Apply \/ ApplyFails
  <2>1. /\ pc \in {"effect", "retry"} /\ UNCHANGED <<log, mem, cur, journal, receipt, troubled>>
        /\ cur \in Idx /\ op.kind \in Kinds
        /\ pc' \in {AfterEffect, "failed"}
    <3>1. pc \in {"effect", "retry"} /\ UNCHANGED <<log, mem, cur, journal, receipt, troubled>>
          /\ pc' \in {AfterEffect, "failed"}
      BY <1>4 DEF Apply, ApplyFails, logs, outcome
    <3>2. cur \in Idx
      BY <3>1 DEF UInv, AtOp, Applying
    <3> QED BY <3>1, <3>2, OpsTyped DEF op, Op
  <2>2. CASE Effect(disk', staging', trash')
    <3>1. op.kind = "remove" /\ trash' = [trash EXCEPT ![cur] = at] /\ staging' = staging
      BY <1>1, <2>1, <2>2 DEF Effect, Kinds
    <3> QED BY <1>1, <1>2, <2>1, <3>1 DEF AfterEffect
  <2>3. CASE staging' \in {staging, staging \ {cur}} /\ trash' = trash
    BY <1>1, <2>3
  <2> QED BY <1>4, <2>2, <2>3 DEF Apply, ApplyFails, files
<1>5. CASE UndoRestore
  BY <1>1, <1>5 DEF UndoRestore, logs, outcome
<1>6. CASE Sweep \/ Crash
  <2>1. staging' = staging /\ (trash' = trash \/ \E c : trash' = [trash EXCEPT ![cur] = c] /\ (c # Absent => trash[cur] \in Tree))
    BY <1>6 DEF Sweep, Crash, files
  <2>2. \A t \in Tree : t # Absent
    BY DEF PlanShape, ContentsApart
  <2> QED BY <1>1, <1>2, <2>1, <2>2
<1>7. CASE UndoOp \/ UndoFails \/ Restore
  <2>1. CASE UndoEffect /\ pc = "undo" /\ ~NeedsRestore
    BY <1>1, <2>1, UndoEffectIsAt
  <2>2. CASE staging' \in {staging, staging \ {cur}} /\ trash' = trash
    BY <1>1, <2>2
  <2>3. CASE Restore
    BY <1>1, <1>2, <2>3 DEF Restore, Undo
  <2> QED BY <1>7, <2>1, <2>2, <2>3 DEF UndoOp, UndoFails, files
<1>8. UNCHANGED <<staging, trash>> => FALSE
  BY <1>1
<1>9. ~Open /\ ~OpenFails /\ ~Begin /\ ~Resume /\ ~Refuse /\ ~Finish /\ ~LogFailure
  BY <1>8 DEF Open, OpenFails, Begin, Resume, Refuse, Finish, LogFailure, files
<1>10. ~Compensate /\ ~Compensated /\ ~Discard /\ ~Discarded /\ ~Complete /\ ~Recovery
  BY <1>8 DEF Compensate, Compensated, Discard, Discarded, Complete, Commit, CommitFails, Archive,
              Recovery, Recover, LoadNothing, Load, Decide, files
<1>11. /\ ~Over /\ ~CrashInDiscard /\ vars' # vars
       /\ \A x \in EditPath, v \in EditValue : ~Edit(x, v)
  BY <1>8 DEF Over, CrashInDiscard, vars, files, Edit
<1> QED BY <1>3, <1>4, <1>5, <1>6, <1>7, <1>9, <1>10, <1>11
           DEF Next, Command, Execute, Reverse

\* The log takes no record back, and ops are recorded as done after their effect.
LEMMA LogGrows ==
  ASSUME UInv, [Next]_vars
  PROVE  /\ log.comp => log'.comp
         /\ \A i \in Idx : IsDone(log', i) => IsDone(log, i) \/ (i = cur /\ pc \in Done)
         /\ reported \subseteq reported'
<1> DEFINE Goal == /\ log.comp => log'.comp
                   /\ \A i \in Idx : IsDone(log', i) => IsDone(log, i) \/ (i = cur /\ pc \in Done)
<1>1. reported \subseteq reported'
  <2>1. Open \/ OpenFails \/ Execute \/ Complete \/ Recovery => reported' = reported
    BY DEF Open, OpenFails, Execute, Begin, Resume, Refuse, Stage, Apply, ApplyFails, Sweep, Finish, LogFailure,
           Complete, Commit, CommitFails, Archive, Recovery, Recover, LoadNothing, Load, Decide
  <2>2. Reverse => reported \subseteq reported'
    BY DEF Reverse, Compensate, UndoOp, UndoRestore, Restore, UndoFails, Compensated, Discard, Discarded
  <2>3. /\ Over \/ Crash \/ CrashInDiscard \/ vars' = vars => reported' = reported
        /\ \A x \in EditPath, v \in EditValue : Edit(x, v) => reported' = reported
    BY DEF Over, Crash, CrashInDiscard, vars, Edit
  <2> QED BY <2>1, <2>2, <2>3 DEF Next, Command
<1> SUFFICES Goal
  BY <1>1
<1>2. log \in Progress /\ mem \in Progress
  BY DEF UInv, TypeOK
<1>3. \A p, q : Log(p, q) \/ LogThrows(p) => log' \in {log, p}
  BY DEF Log, LogThrows
<1>4. CASE log' = log
  BY <1>4
<1>5. CASE Begin
  <2> DEFINE l == WithBegin(log, cur, Captured, Missing(cur))
  <2>1. l.comp = log.comp /\ l.done = log.done
    BY <1>2 DEF WithBegin, Progress
  <2>2. log' \in {log, l}
    BY <1>3, <1>5 DEF Begin
  <2> QED BY <2>1, <2>2 DEF IsDone
<1>6. CASE Finish
  <2> DEFINE l == WithDone(log, cur, pc)
  <2>1. pc \in Done /\ cur \in Idx
    BY <1>6 DEF Finish, UInv, AtOp, Applying
  <2>2. l.comp = log.comp /\ \A i \in Idx : i # cur => l.done[i] = log.done[i]
    BY <1>2, <2>1 DEF WithDone, Progress
  <2>3. log' \in {log, l}
    BY <1>3, <1>6 DEF Finish
  <2> QED BY <2>1, <2>2, <2>3 DEF IsDone
<1>7. CASE LogFailure
  <2> DEFINE l == WithFailed(log, cur)
  <2>1. l.comp = log.comp /\ l.done = log.done
    BY <1>2 DEF WithFailed, Progress
  <2>2. log' \in {log, l}
    BY <1>3, <1>7 DEF LogFailure
  <2> QED BY <2>1, <2>2 DEF IsDone
<1>8. CASE Compensate
  <2> DEFINE l == WithComp(log)
  <2>1. l.comp /\ l.done = log.done
    BY <1>2 DEF WithComp, Progress
  <2>2. log' \in {log, l}
    BY <1>3, <1>8 DEF Compensate, logs
  <2> QED BY <2>1, <2>2 DEF IsDone
<1>9. CASE Compensated
  BY <1>3, <1>4, <1>9 DEF Compensated
<1>10. Open \/ OpenFails \/ Resume \/ Refuse \/ Stage \/ Apply \/ ApplyFails \/ Sweep => log' = log
  BY DEF Open, OpenFails, Resume, Refuse, Stage, Apply, ApplyFails, Sweep, logs
<1>11. UndoOp \/ UndoRestore \/ Restore \/ UndoFails \/ Discard \/ Discarded \/ Complete \/ Recovery => log' = log
  BY DEF UndoOp, UndoRestore, Restore, UndoFails, Discard, Discarded, Complete, Commit, CommitFails, Archive,
         Recovery, Recover, LoadNothing, Load, Decide, logs
<1>12. /\ Over \/ Crash \/ CrashInDiscard \/ vars' = vars => log' = log
       /\ \A x \in EditPath, v \in EditValue : Edit(x, v) => log' = log
  BY DEF Over, Crash, CrashInDiscard, vars, Edit, logs
<1> QED BY <1>4, <1>5, <1>6, <1>7, <1>8, <1>9, <1>10, <1>11, <1>12
           DEF Next, Command, Execute, Reverse

\* What is beside the files belongs to an op that is not done.
LEMMA StepNotYetDone ==
  ASSUME PlanShape, LInv, [Next]_vars, "torn" \notin Faults
  PROVE  NotYetDone'
<1> SUFFICES ASSUME ~log'.comp, NEW i \in Idx, Beside(i)', IsDone(log', i) PROVE FALSE
  BY DEF NotYetDone
<1>1. ~log.comp /\ (IsDone(log, i) \/ (i = cur /\ pc \in Done))
  BY LogGrows DEF LInv
<1>2. CASE Beside(i)
  BY <1>1, <1>2 DEF LInv, Aside, NotYetDone, SweptUp
<1>3. CASE ~Beside(i)
  <2>1. /\ i = cur /\ UNCHANGED <<log, mem>>
        /\ pc \in {"stage", "effect", "retry", "undo"}
    BY <1>3, PutBeside DEF LInv, Beside, UndoRestore
  <2>2. pc # "undo"
    BY <1>1 DEF LInv, Logged, Undoing
  <2>3. ~IsDone(mem, cur) /\ Alike(mem, log)
    BY <2>1, <2>2 DEF LInv, UInv, Rest, InStep, Forward
  <2> QED BY <2>1, <2>3 DEF Alike, IsDone
<1> QED BY <1>2, <1>3

\* When an op that leaves something is over, what it left aside is gone.
LEMMA StepSweptUp ==
  ASSUME PlanShape, LInv, [Next]_vars, "torn" \notin Faults, UInv'
  PROVE  SweptUp'
<1> USE DEF Goto
<1>1. \A i \in staging : Ops[i].kind = "remove" => pc \notin Forward
  BY DEF LInv, Aside, StagedRemovals, Decided, GaveUp
<1>2. CASE Resume
  <2>1. /\ cur' = cur /\ UNCHANGED <<staging, trash, mem, log>> /\ op' = op /\ cur \in Idx
        /\ pc = "apply"
    BY <1>2 DEF Resume, files, logs, LInv, UInv, AtOp, Applying, op
  <2>2. pc' = "sweep" => op.kind = "remove"
    BY <1>2 DEF Resume, MayResume
  <2>3. pc' \in Done => op.kind = "link"
    BY <1>2 DEF Resume, Done
  <2>4. op.kind = "link" => ~Beside(cur)'
    BY <2>1, BesideBegun DEF LInv, Beside, op
  <2> QED BY <2>1, <2>2, <2>3, <2>4 DEF SweptUp
<1>3. CASE Apply
  <2>1. /\ pc \in {"effect", "retry"} /\ cur' = cur /\ op' = op /\ op = Ops[cur] /\ cur \in Idx
        /\ Effect(disk', staging', trash') /\ pc' = AfterEffect /\ op.kind \in Kinds
    <3>1. pc \in {"effect", "retry"} /\ cur' = cur
      BY <1>3 DEF Apply
    <3>2. cur \in Idx
      BY <3>1 DEF LInv, UInv, AtOp, Applying
    <3> QED BY <1>3, <3>1, <3>2, OpsTyped DEF Apply, op, Op
  <2>2. op.kind = "remove" => pc' = "sweep"
    BY <2>1 DEF AfterEffect
  <2>3. op.kind # "remove" => pc' # "sweep"
    BY <2>1 DEF AfterEffect
  <2>4. op.kind # "remove" => trash' = trash /\ staging' \subseteq staging
    BY <2>1 DEF Effect, Kinds
  <2>5. op.kind = "write" => cur \notin staging'
    BY <2>1 DEF Effect
  <2>6. op.kind # "remove" => ~Beside(cur)'
    BY <2>1, <2>4, <2>5, BesideBegun DEF LInv, Beside
  <2> QED BY <2>1, <2>2, <2>3, <2>6 DEF SweptUp, Done
<1>4. CASE Sweep
  <2>1. /\ pc = "sweep" /\ cur' = cur /\ op' = op /\ op = Ops[cur] /\ cur \in Idx /\ staging' = staging
        /\ pc' \in Done => trash' = [trash EXCEPT ![cur] = Absent]
        /\ pc' # "sweep"
    BY <1>4 DEF Sweep, LInv, UInv, AtOp, Applying, op, Done
  <2>2. op.kind = "remove"
    BY <2>1 DEF LInv, Aside, SweptUp
  <2>3. cur \notin staging
    BY <1>1, <2>1, <2>2 DEF Forward
  <2>4. pc' \in Done => trash'[cur] = Absent
    BY <2>1 DEF LInv, UInv, TypeOK
  <2> QED BY <2>1, <2>3, <2>4 DEF SweptUp, Beside
<1>5. ASSUME NEW x \in EditPath, NEW v \in EditValue, Edit(x, v) PROVE SweptUp'
  BY <1>5 DEF Edit, LInv, Aside, SweptUp, Beside, op
<1>6. CASE UNCHANGED vars
  BY <1>6 DEF vars, LInv, Aside, SweptUp, Beside, op
<1>7. CASE Open \/ Begin \/ Stage \/ Finish \/ Decide
  BY <1>7 DEF Open, Begin, Stage, Finish, Decide, GotoNext, SweptUp, Done
<1>8. pc' \in Done \cup {"sweep"} => pc' \in Forward
  BY DEF Forward
<1> QED BY <1>2, <1>3, <1>4, <1>5, <1>6, <1>7, <1>8, ForwardSteps DEF SweptUp

\* What a compensation stages for a removal waits for the removal to be undone.
LEMMA StepStagedRemovals ==
  ASSUME PlanShape, LInv, [Next]_vars, "torn" \notin Faults
  PROVE  StagedRemovals'
<1> SUFFICES ASSUME NEW i \in staging', Ops[i].kind = "remove"
             PROVE  /\ log'.comp /\ trash'[i] # Ops[i].val
                    /\ disk'[Ops[i].path] \in {Absent} \cup EditValue
  BY DEF StagedRemovals
<1> DEFINE x == Ops[i].path
           Goal == log'.comp /\ trash'[i] # Ops[i].val /\ disk'[x] \in {Absent} \cup EditValue
<1>1. /\ i \in Idx /\ x \in Path /\ x \notin Dirs \cup Registration /\ Ops[i].val \notin EditValue
      /\ Ops[i].val \notin {Absent, Partial} /\ Absent \notin EditValue
  <2>1. i \in Idx
    BY StepTyped DEF LInv, UInv, TypeOK
  <2>2. Ops[i].val \notin EditValue /\ Ops[i].val \notin {Absent, Partial} /\ Absent \notin EditValue
    BY <2>1, PathAssumption DEF PlanShape, OpsTakeContents, ContentsApart
  <2> QED BY <2>1, <2>2, PathsOfOps DEF FileOp
<1>2. /\ disk \in [Path -> Content] /\ trash \in [Idx -> Content] /\ mem \in Progress
      /\ log.comp => log'.comp
  BY LogGrows DEF LInv, UInv, TypeOK
<1>3. CASE i \notin staging
  <2>1. UndoRestore /\ i = cur /\ log' = log
    <3>1. /\ i = cur /\ log' = log
          /\ pc = "stage" \/ UndoRestore
      BY <1>1, <1>3, PutBeside DEF LInv
    <3>2. pc # "stage"
      BY <3>1 DEF LInv, UInv, Rest, InStep, op
    <3> QED BY <3>1, <3>2
  <2>2. /\ pc = "undo" /\ op = Ops[i] /\ IsBegun(mem, i) /\ trash' = trash
        /\ disk' = WithDirs(disk, Parents(x)) /\ disk[x] = Absent /\ trash[i] # mem.pre[i]
    BY <2>1 DEF UndoRestore, NeedsRestore, pre, at, op, LInv, UInv, AtOp
  <2>3. mem.pre[i] = Ops[i].val
    BY <1>1, <2>2 DEF LInv, UInv, Rest, Records, Preimages
  <2>4. log.comp
    BY <2>2 DEF LInv, Logged, Undoing
  <2>5. x \notin Parents(x)
    BY <1>1, PathsOfOps DEF Parents
  <2> QED BY <1>1, <2>1, <2>2, <2>3, <2>4, <2>5 DEF WithDirs
<1>4. CASE i \in staging
  <2>1. log.comp /\ trash[i] # Ops[i].val /\ disk[x] \in {Absent} \cup EditValue
    BY <1>4 DEF LInv, Aside, StagedRemovals
  <2>2. pc \notin Forward \cup {"open"}
    BY <2>1 DEF LInv, Decided, GaveUp
  <2>3. log'.comp
    BY <1>2, <2>1
  <2>4. CASE UndoOp \/ UndoFails \/ UndoRestore \/ Restore
    <3>1. /\ pc \in {"undo", "restore"} /\ cur \in Idx /\ op = Ops[cur] /\ IsBegun(mem, cur)
          /\ mem.missing[cur] \subseteq Dirs
      <4>1. pc \in {"undo", "restore"}
        BY <2>4 DEF UndoOp, UndoFails, UndoRestore, Restore
      <4>2. cur \in Idx /\ op = Ops[cur] /\ IsBegun(mem, cur)
        BY <4>1 DEF LInv, UInv, AtOp, op
      <4> QED BY <4>1, <4>2, PathsOfOps DEF LInv, UInv, Rest, Records, Created
    <3>2. cur # i /\ Ops[cur].path = x => FileOp(cur) /\ Result(cur) \notin {Absent} \cup EditValue
      <4>1. ASSUME cur # i, Ops[cur].path = x PROVE FileOp(cur)
        BY <1>1, <3>1, <4>1, PathsOfOps DEF FileOp, DirOp, Kinds
      <4>2. ASSUME cur # i, Ops[cur].path = x, FileOp(cur) PROVE Ops[cur].kind # "remove"
        BY <1>1, <3>1, <4>2 DEF PlanShape, ResultsDiffer, FileOp, Result
      <4>3. Ops[cur].kind \in {"write", "link"} => Ops[cur].val \notin {Absent} \cup EditValue
        BY <3>1 DEF PlanShape, OpsTakeContents, ContentsApart
      <4> QED BY <4>1, <4>2, <4>3 DEF FileOp, Result
    <3>3. CASE UndoEffect /\ pc = "undo" /\ ~NeedsRestore
      <4>1. UndoneAt(mem, cur, disk, disk', x)
        BY <1>1, <3>3, UndoEffectIsAt DEF LInv
      <4>2. cur = i => disk[x] # Absent
        <5> SUFFICES ASSUME cur = i, disk[x] = Absent PROVE FALSE
          OBVIOUS
        <5>1. mem.pre[i] = Ops[i].val
          BY <1>1, <3>1 DEF LInv, UInv, Rest, Records, Preimages
        <5> QED BY <2>1, <3>1, <3>3, <5>1 DEF NeedsRestore, at, pre
      <4>3. disk'[x] = disk[x]
        BY <1>1, <2>1, <3>1, <3>2, <4>1, <4>2, PathsOfOps DEF UndoneAt, Result
      <4>4. trash'[i] \in {trash[i], Absent}
        <5>1. op.kind \in Kinds
          BY <3>1, PathsOfOps
        <5>2. trash' = trash \/ \E c \in {trash[cur], Absent} : trash' = [trash EXCEPT ![cur] = c]
          BY <3>3, <5>1 DEF UndoEffect, Kinds
        <5> QED BY <1>1, <1>2, <5>2
      <4> QED BY <1>1, <2>1, <2>3, <4>3, <4>4
    <3>4. CASE UNCHANGED <<disk, trash>>
      BY <2>1, <2>3, <3>4
    <3>5. CASE UndoRestore
      <4>1. disk' = WithDirs(disk, Parents(op.path)) /\ trash' = trash
        BY <3>5 DEF UndoRestore
      <4>2. x \notin Parents(op.path)
        BY <1>1, <3>1, PathsOfOps DEF Parents
      <4> QED BY <1>1, <2>1, <2>3, <4>1, <4>2 DEF WithDirs
    <3>6. CASE Restore
      <4>1. /\ pc = "restore" /\ i # cur /\ trash'[i] = trash[i]
            /\ disk' = WithoutDirs([disk EXCEPT ![op.path] = pre], staging \ {cur}, mem.missing[cur])
        BY <1>1, <1>2, <3>6 DEF Restore, Undo
      <4>2. disk[op.path] = Result(cur)
        BY <4>1 DEF LInv, UInv, Rest, AtHand
      <4>3. op.path # x
        BY <2>1, <3>1, <3>2, <4>1, <4>2
      <4>4. disk'[x] = disk[x]
        BY <1>1, <1>2, <3>1, <4>1, <4>3 DEF WithoutDirs
      <4> QED BY <2>1, <2>3, <4>1, <4>4
    <3> QED BY <2>4, <3>3, <3>4, <3>5, <3>6 DEF UndoOp, UndoFails, files
  <2>5. CASE Crash
    <3>1. disk' = disk /\ (trash' = trash \/ trash' = [trash EXCEPT ![cur] = Partial])
      BY <2>5 DEF Crash, files
    <3> QED BY <1>1, <1>2, <2>1, <2>3, <3>1
  <2>6. ASSUME NEW y \in EditPath, NEW v \in EditValue, Edit(y, v) PROVE Goal
    BY <1>1, <1>2, <2>1, <2>3, <2>6 DEF Edit
  <2>7. UNCHANGED <<disk, trash>> => Goal
    BY <2>1, <2>3
  <2>8. ~Begin /\ ~Resume /\ ~Refuse /\ ~Stage /\ ~Apply /\ ~ApplyFails /\ ~Sweep /\ ~Finish
    BY <2>2 DEF Begin, Resume, Refuse, Stage, Apply, ApplyFails, Sweep, Finish, Forward
  <2>9. Open \/ OpenFails \/ LogFailure \/ Compensate \/ Compensated \/ Discard \/ Discarded => UNCHANGED <<disk, trash>>
    BY DEF Open, OpenFails, LogFailure, Compensate, Compensated, Discard, Discarded, files
  <2>10. Complete \/ Recovery \/ Over \/ CrashInDiscard \/ UNCHANGED vars => UNCHANGED <<disk, trash>>
    BY DEF Complete, Commit, CommitFails, Archive, Recovery, Recover, LoadNothing, Load, Decide,
           Over, CrashInDiscard, vars, files
  <2> QED BY <2>4, <2>5, <2>6, <2>7, <2>8, <2>9, <2>10 DEF Next, Command, Execute, Reverse
<1> QED BY <1>3, <1>4

\* Nothing is left when a transaction is committed.
LEMMA StepCleanCommit ==
  ASSUME PlanShape, LInv, [Next]_vars, "committed" \notin Faults
  PROVE  CleanCommit'
<1> SUFFICES ASSUME Committed', NEW i \in Idx, Beside(i)' PROVE FALSE
  BY DEF CleanCommit
<1>1. Committed \/ pc' = "archive"
  BY StepDecides DEF LInv, UInv, IInv, NoWayBack
<1>2. CASE Committed
  <2>1. ~Beside(i) /\ pc \in {"down", "load", "decide", "archive"}
    BY <1>2 DEF LInv, Aside, CleanCommit, Decided
  <2> QED BY <2>1, PutBeside DEF LInv, Beside, UndoRestore
<1>3. CASE ~Committed
  <2>1. Commit
    <3>1. receipt' # receipt
      BY <1>3 DEF Committed
    <3>2. Open \/ OpenFails \/ Execute \/ Reverse \/ Recovery \/ Archive => receipt' = receipt
      BY DEF Open, OpenFails, Execute, Begin, Resume, Refuse, Stage, Apply, ApplyFails, Sweep, Finish, LogFailure,
             Reverse, Compensate, UndoOp, UndoRestore, Restore, UndoFails, Compensated, Discard, Discarded,
             Recovery, Recover, LoadNothing, Load, Decide, Archive, outcome
    <3>3. /\ Over \/ Crash \/ CrashInDiscard \/ UNCHANGED vars => receipt' = receipt
          /\ \A y \in EditPath, v \in EditValue : Edit(y, v) => receipt' = receipt
      BY DEF Over, Crash, CrashInDiscard, vars, Edit, outcome
    <3>4. CommitFails => receipt' = receipt
      BY DEF CommitFails, Fault
    <3> QED BY <3>1, <3>2, <3>3, <3>4 DEF Next, Command, Complete
  <2>2. pc = "commit" /\ Beside(i)
    BY <2>1 DEF Commit, files, Beside
  <2>3. IsDone(mem, i) /\ Alike(mem, log) /\ ~log.comp
    BY <2>2 DEF LInv, AllDone, UInv, Rest, InStep, Forward, Decided, GaveUp
  <2> QED BY <2>2, <2>3, AlikeSame DEF LInv, Aside, NotYetDone
<1> QED BY <1>2, <1>3

\* Undoing an op clears what it left, or reports it.
LEMMA UndoneOrReported ==
  ASSUME PlanShape, LInv, UndoOp \/ Restore, cur \in staging' \/ trash'[cur] # Absent
  PROVE  cur \in reported'
<1>1. /\ cur \in Idx /\ op = Ops[cur] /\ IsBegun(mem, cur) /\ op.kind \in Kinds /\ View = mem
      /\ trash \in [Idx -> Content]
  <2>1. pc \in {"undo", "restore"}
    BY DEF UndoOp, Restore
  <2>2. cur \in Idx /\ op = Ops[cur] /\ IsBegun(mem, cur) /\ View = mem
    BY <2>1 DEF LInv, UInv, AtOp, op, View
  <2> QED BY <2>2, PathsOfOps DEF LInv, UInv, TypeOK
<1>2. ~Restore
  <2> SUFFICES ASSUME Restore PROVE FALSE
    OBVIOUS
  <2>1. staging' = staging \ {cur} /\ trash' = [trash EXCEPT ![cur] = Absent]
    BY DEF Restore, Undo
  <2> QED BY <1>1, <2>1
<1>3. /\ pc = "undo" /\ ~NeedsRestore /\ UndoEffect
      /\ reported' = IF Remains THEN reported \cup {cur} ELSE reported
  BY <1>2 DEF UndoOp
<1>4. CASE op.kind \in {"write", "link"}
  <2>1. cur \notin staging' /\ trash' = trash
    BY <1>3, <1>4 DEF UndoEffect, Undo
  <2>2. trash[cur] = Absent
    BY <1>1, <1>4, BesideBegun DEF LInv, Beside
  <2> QED BY <2>1, <2>2
<1>5. CASE op.kind \in {"mkdir", "rmdir", "exec"}
  <2>1. staging' = staging /\ trash' = trash
    BY <1>3, <1>5 DEF UndoEffect, Undo
  <2> QED BY <1>1, <1>5, <2>1, BesideBegun DEF LInv, Beside
<1>6. CASE op.kind = "remove" /\ at \in {Absent, pre}
  <2>1. staging' = staging /\ trash' = [trash EXCEPT ![cur] = Absent]
    BY <1>3, <1>6 DEF UndoEffect
  <2>2. cur \in staging
    BY <1>1, <2>1
  <2>3. trash[cur] # op.val /\ at \in {Absent} \cup EditValue
    BY <1>1, <1>6, <2>2 DEF LInv, Aside, StagedRemovals, at
  <2>4. pre = op.val
    BY <1>1, <1>6 DEF LInv, UInv, Rest, Records, Preimages, pre
  <2>5. at = Absent
    BY <1>1, <1>6, <2>3, <2>4 DEF PlanShape, OpsTakeContents
  <2> QED BY <1>3, <1>6, <2>3, <2>4, <2>5 DEF NeedsRestore
<1>7. CASE op.kind = "remove" /\ at \notin {Absent, pre}
  BY <1>3, <1>7 DEF Remains
<1> QED BY <1>1, <1>4, <1>5, <1>6, <1>7 DEF Kinds

\* An op that is still to be undone stays so, unless it is the one that is undone now.
LEMMA PendingAfter ==
  ASSUME UInv, [Next]_vars, NEW i \in Idx, IsBegun(View, i), i <= Pending, UndoOp \/ Restore => i # cur
  PROVE  i <= Pending'
<1>1. i \in Nat /\ 1 <= i /\ i <= Len(Ops) /\ Len(Ops) \in Nat
  BY IdxNat
<1>2. CASE Pending' = Len(Ops)
  BY <1>1, <1>2
<1>3. ~Undone
  BY <1>1 DEF Pending
<1>4. CASE Pending' # Len(Ops)
  <2>2. Undone' \/ (pc' \in {"undo", "restore"} /\ ~troubled')
    BY <1>4 DEF Pending
  <2>3. CASE UndoOp \/ Restore
    <3>1. /\ pc \in {"undo", "restore"} /\ GotoUndo(cur, mem) /\ UNCHANGED <<troubled, journal>>
      BY <2>3 DEF UndoOp, Restore, outcome
    <3>2. cur \in Nat /\ View = mem /\ journal = "live"
      BY <3>1, IdxNat DEF UInv, AtOp, View, JournalAt, Done
    <3>3. pc' \in {"undo", "compensated"}
      BY <3>1 DEF GotoUndo, Goto
    <3>4. ~troubled'
      BY <2>2, <3>1, <3>2, <3>3 DEF Undone
    <3>5. i < cur
      <4>1. Pending = cur
        BY <1>3, <3>1, <3>4 DEF Pending
      <4> QED BY <1>1, <2>3, <3>2, <4>1
    <3>6. pc' = "undo" /\ i <= cur'
      BY <3>1, <3>2, <3>5, GotoUndoLast
    <3>7. Pending' = cur'
      BY <3>1, <3>2, <3>4, <3>6 DEF Pending, Undone
    <3> QED BY <3>6, <3>7
  <2>4. CASE Compensate
    <3>1. pc = "compensate" /\ journal' = journal /\ journal = "live" /\ View = mem
      BY <2>4 DEF Compensate, UInv, JournalAt, Done, View
    <3>2. GotoUndo(Len(Ops) + 1, mem) /\ UNCHANGED troubled
      BY <2>2, <2>4, <3>1 DEF Compensate, End, Undone
    <3>3. pc' = "undo" /\ i <= cur'
      BY <1>1, <3>1, <3>2, GotoUndoLast
    <3>4. Pending' \in {cur', Len(Ops)}
      BY <3>1, <3>3 DEF Pending, Undone
    <3> QED BY <1>1, <3>3, <3>4
  <2>5. CASE UndoRestore
    <3>1. UNCHANGED <<cur, troubled, journal>> /\ pc = "undo" /\ pc' = "restore"
      BY <2>5 DEF UndoRestore, outcome, Goto
    <3> QED BY <1>1, <1>3, <3>1 DEF Pending, Undone
  <2>6. ASSUME UNCHANGED <<pc, cur, troubled, journal>> PROVE i <= Pending'
    BY <1>1, <1>3, <2>6 DEF Pending, Undone
  <2>7. ~UndoFails
    <3>1. UndoFails => troubled' /\ journal' = journal /\ pc \in {"undo", "restore"} /\ pc' \in {"undo", "compensated"}
      BY DEF UndoFails, outcome, GotoUndo, Goto
    <3> QED BY <2>2, <3>1 DEF UInv, JournalAt, Done, Undone
  <2>8. ~Discard /\ ~Discarded /\ ~Open
    BY <1>3 DEF Discard, Discarded, Open, Undone, UInv, JournalAt
  <2>9. ~Compensated
    <3>1. Compensated => pc = "compensated" /\ journal' = journal /\ troubled /\ End("error")
      BY <1>3, <2>2 DEF Compensated, Undone, End
    <3> QED BY <1>3, <2>2, <3>1 DEF End, Undone
  <2>10. ~OpenFails /\ ~LoadNothing /\ ~Load /\ ~Recover /\ ~Decide
    BY <1>3, <2>2 DEF OpenFails, LoadNothing, Load, Recover, Decide, Goto, GotoNext, End, outcome, Undone, UInv, JournalAt
  <2>11. ~Execute
    <3>1. Execute => journal' = journal /\ pc' \notin {"undo", "restore", "compensated", "discard", "discarded"}
      BY DEF Execute, Begin, Resume, Refuse, Stage, Apply, ApplyFails, Sweep, Finish, LogFailure, outcome, Goto,
             GotoNext, AfterEffect
    <3> QED BY <1>3, <2>2, <3>1 DEF Undone
  <2>12. ~Complete /\ ~Crash /\ ~CrashInDiscard
    BY <1>3, <2>2 DEF Complete, Commit, CommitFails, Archive, Crash, CrashInDiscard, End, outcome, Goto, Undone
  <2> QED BY <2>3, <2>4, <2>5, <2>6, <2>7, <2>8, <2>9, <2>10, <2>11, <2>12
             DEF Next, Command, Reverse, Recovery, Over, Edit, outcome, vars
<1> QED BY <1>2, <1>4

\* What is left belongs to an op that is still to be undone, or was reported.
LEMMA StepAccounted ==
  ASSUME PlanShape, LInv, [Next]_vars
  PROVE  Accounted'
<1> SUFFICES ASSUME NEW i \in Idx, Beside(i)' PROVE i <= Pending' \/ i \in reported'
  BY DEF Accounted
<1>1. /\ i \in Nat /\ 1 <= i /\ i <= Len(Ops) /\ Len(Ops) \in Nat
      /\ reported \subseteq reported'
      /\ Beside(i) => i <= Pending \/ i \in reported
  BY IdxNat, LogGrows DEF LInv, Aside, Accounted
<1>2. CASE ~Beside(i)
  <2>1. /\ i = cur /\ cur' = cur /\ UNCHANGED <<journal, troubled>>
        /\ pc \in {"stage", "effect", "retry", "undo"}
        /\ pc' \in {"effect", "sweep", "failed", "restore"}
    BY <1>2, PutBeside DEF LInv, Beside, UndoRestore, Goto
  <2>2. journal = "live"
    BY <2>1 DEF LInv, UInv, JournalAt, Done
  <2>3. Pending' \in {cur, Len(Ops)}
    BY <2>1, <2>2 DEF Pending, Undone
  <2> QED BY <1>1, <2>1, <2>3
<1>3. CASE Beside(i) /\ i \notin reported'
  <2>1. IsBegun(View, i)
    BY <1>3, BesideBegun DEF LInv
  <2>2. UndoOp \/ Restore => i # cur
    BY <1>3, UndoneOrReported DEF Beside
  <2> QED BY <1>1, <1>3, <2>1, <2>2, PendingAfter DEF LInv
<1> QED BY <1>2, <1>3

\* Neither a staging file nor a moved-aside tree outlives the transaction, unless it was
\* reported: whatever calls fail, are killed or are tried again, when no call that throws
\* has replaced the receipt and no line of the log was torn by a call that then went on.
THEOREM NoLeftoversHolds ==
  ASSUME PlanShape, "torn" \notin Faults, "committed" \notin Faults
  PROVE  Spec => []NoLeftovers
<1>1. Init => LInv
  <2> SUFFICES ASSUME Init PROVE LInv
    OBVIOUS
  <2>1. UInv
    BY InitUndoable
  <2>2. Decided /\ AllDone /\ Logged
    BY NoProgressTyped DEF Init, Decided, Committed, GaveUp, Forward, Done, NoProgress, AllDone, Logged, Undoing
  <2>3. \A i \in Idx : ~Beside(i)
    BY DEF Init, Beside
  <2> QED BY <2>1, <2>2, <2>3 DEF LInv, Aside, Accounted, NotYetDone, SweptUp, StagedRemovals, CleanCommit,
                                  Init, Done
<1>2. LInv /\ [Next]_vars => LInv'
  <2> SUFFICES ASSUME LInv, [Next]_vars PROVE LInv'
    OBVIOUS
  <2>1. UInv' /\ Decided' /\ AllDone' /\ Logged'
    BY StepUndoable, StepDecides, StepAllDone, StepLogged DEF LInv, UInv, IInv
  <2>2. Aside'
    BY <2>1, StepAccounted, StepNotYetDone, StepSweptUp, StepStagedRemovals, StepCleanCommit DEF Aside
  <2> QED BY <2>1, <2>2 DEF LInv
<1>3. LInv => NoLeftovers
  <2> SUFFICES ASSUME LInv, Settled, NEW i \in Idx, Beside(i) PROVE i \in reported
    BY DEF NoLeftovers, Beside
  <2>1. ~Committed
    BY DEF LInv, Aside, CleanCommit
  <2>2. journal # "archived"
    BY <2>1 DEF LInv, Decided
  <2>3. Pending = 0
    BY <2>2 DEF Settled, Pending, Undone
  <2> QED BY <2>3, IdxNat DEF LInv, Aside, Accounted
<1> QED BY <1>1, <1>2, <1>3, PTL DEF Spec

-----------------------------------------------------------------------------
(* What host commands did is undone or reported.                           *)

\* As far as the log says, what host command i did is there; the one at work has done
\* nothing yet, or nothing that it had to do.
Felt(i)  == log.done[i] = "done" \/ (IsBegun(log, i) /\ ~IsDone(log, i) /\ i \notin log.failed)
Idle(i)  == i = cur /\ pc \in {"apply", "effect", "failed", "tolerated"}
HostOps(x) == {i \in Idx : Ops[i].kind = "exec" /\ Ops[i].path = x}

\* A registration that changed was changed by a command that is still to be undone, or one
\* of its commands was reported.
HostsAccounted ==
  \A x \in Registration : disk[x] # InitDisk[x] =>
    \/ \E i \in HostOps(x) : i <= Pending /\ Felt(i) /\ ~Idle(i)
    \/ Committed
    \/ \E i \in reported : Ops[i].path = x

\* The first host command that did something to a registration did not find it that way.
Switches ==
  \A i \in Idx :
    /\ Ops[i].kind = "exec" /\ (log.done[i] = "done" \/ (i = cur /\ pc = "done"))
    /\ \A j \in HostOps(Ops[i].path) : j < i => log.done[j] # "done"
    => Opposite(Ops[i].val) = InitDisk[Ops[i].path]

\* What the command knows is in the log; and a plan that no recovery resumes is carried out
\* by the first command only.
Remembered == pc \notin {"down", "load"} => mem.pre = log.pre /\ mem.done = log.done /\ mem.failed = log.failed
OnePass ==
  /\ pc \in Forward \cup {"open"} => log.failed = {} /\ reported = {} /\ ~Committed
  /\ pc \notin {"retry", "uncertain"}
  /\ pc = "sweep" => op.kind = "remove"

EInv == UInv /\ Logged /\ UserWrites /\ Remembered /\ OnePass /\ HostsAccounted /\ Switches

\* The hypotheses.
Unresumed == PlanShape /\ HostsOnOrOff /\ Dynamic # << >> /\ {"append", "torn"} \cap Faults = {}

\* An append returns with its record in the log.
LEMMA Returns ==
  ASSUME Unresumed, Logged, pc \notin {"down", "load"}, NEW l, NEW m
  PROVE  ~LogThrows(l) /\ (Log(l, m) => log' = l /\ mem' = [m EXCEPT !.mend = FALSE])
BY DEF Unresumed, Logged, Log, LogThrows, Fault, Glued

\* What each step adds to the log.
LEMMA Recorded ==
  ASSUME Unresumed, UInv, Logged, [Next]_vars
  PROVE  \/ log'.pre = log.pre /\ log'.done = log.done /\ log'.failed = log.failed
         \/ /\ Begin /\ log'.done = log.done /\ log'.failed = log.failed
            /\ \A i \in Idx : i # cur => log'.pre[i] = log.pre[i]
         \/ /\ Finish /\ cur \in Idx /\ log'.pre = log.pre /\ log'.failed = log.failed
            /\ \A i \in Idx : log'.done[i] = IF i = cur THEN pc ELSE log.done[i]
         \/ LogFailure /\ log'.pre = log.pre /\ log'.done = log.done /\ log'.failed = log.failed \cup {cur}
<1> DEFINE Same == log'.pre = log.pre /\ log'.done = log.done /\ log'.failed = log.failed
<1>1. log \in Progress
  BY DEF UInv, TypeOK
<1>2. CASE Begin
  <2> DEFINE l == WithBegin(log, cur, Captured, Missing(cur))
  <2>1. pc = "apply" /\ cur \in Idx
    BY <1>2 DEF Begin, UInv, AtOp, Applying
  <2>2. log' = l
    BY <1>2, <2>1, Returns DEF Begin
  <2>3. l.failed = log.failed
    BY <1>1 DEF WithBegin, Progress
  <2> QED BY <1>1, <1>2, <2>1, <2>2, <2>3, WithBeginIs
<1>3. CASE Finish
  <2> DEFINE l == WithDone(log, cur, pc)
  <2>1. pc \in Done /\ cur \in Idx /\ pc \notin {"down", "load"}
    BY <1>3 DEF Finish, UInv, AtOp, Applying, Done
  <2>2. log' = l
    BY <1>3, <2>1, Returns DEF Finish
  <2>3. l.failed = log.failed
    BY <1>1 DEF WithDone, Progress
  <2> QED BY <1>1, <1>3, <2>1, <2>2, <2>3, WithDoneIs
<1>4. CASE LogFailure
  <2>1. log' = WithFailed(log, cur)
    BY <1>4, Returns DEF LogFailure
  <2> QED BY <1>1, <1>4, <2>1 DEF WithFailed, Progress
<1>5. CASE Compensate
  <2>1. log' \in {log, WithComp(log)}
    BY <1>5, Returns DEF Compensate, logs
  <2> QED BY <1>1, <2>1 DEF WithComp, Progress
<1>6. CASE Compensated
  BY <1>6, Returns DEF Compensated
<1>7. Open \/ OpenFails \/ Resume \/ Refuse \/ Stage \/ Apply \/ ApplyFails \/ Sweep => log' = log
  BY DEF Open, OpenFails, Resume, Refuse, Stage, Apply, ApplyFails, Sweep, logs
<1>8. UndoOp \/ UndoRestore \/ Restore \/ UndoFails \/ Discard \/ Discarded \/ Complete \/ Recovery => log' = log
  BY DEF UndoOp, UndoRestore, Restore, UndoFails, Discard, Discarded, Complete, Commit, CommitFails, Archive,
         Recovery, Recover, LoadNothing, Load, Decide, logs
<1>9. /\ Over \/ Crash \/ CrashInDiscard \/ vars' = vars => log' = log
      /\ \A x \in EditPath, v \in EditValue : Edit(x, v) => log' = log
  BY DEF Over, Crash, CrashInDiscard, vars, Edit, logs
<1> QED BY <1>2, <1>3, <1>4, <1>5, <1>6, <1>7, <1>8, <1>9 DEF Next, Command, Execute, Reverse

\* A command remembers what the log says.
LEMMA StepRemembered ==
  ASSUME Unresumed, UInv, Logged, Remembered, [Next]_vars
  PROVE  Remembered'
<1> DEFINE Agree(p, q) == p.pre = q.pre /\ p.done = q.done /\ p.failed = q.failed
<1> SUFFICES ASSUME pc' \notin {"down", "load"} PROVE Agree(mem', log')
  BY DEF Remembered
<1>1. /\ log \in Progress /\ mem \in Progress
      /\ pc \notin {"down", "load"} => Agree(mem, log)
      /\ \A p \in Progress, b \in BOOLEAN : Agree([p EXCEPT !.mend = b], p)
  BY DEF UInv, TypeOK, Remembered, Progress
<1>2. CASE Begin
  <2> DEFINE With(p) == WithBegin(p, cur, Captured, Missing(cur))
  <2>1. pc = "apply" /\ log' = With(log) /\ mem' = [With(mem) EXCEPT !.mend = FALSE]
    BY <1>2, Returns DEF Begin
  <2>2. IsBegun(mem, cur) <=> IsBegun(log, cur)
    BY <1>1, <2>1 DEF IsBegun
  <2> QED BY <1>1, <2>1, <2>2 DEF WithBegin, Progress
<1>3. CASE Finish
  <2>1. log' = WithDone(log, cur, pc) /\ mem' = [WithDone(mem, cur, pc) EXCEPT !.mend = FALSE] /\ pc \notin {"down", "load"}
    BY <1>3, Returns DEF Finish, Done
  <2> QED BY <1>1, <2>1 DEF WithDone, Progress
<1>4. CASE LogFailure
  <2>1. log' = WithFailed(log, cur) /\ mem' = [WithFailed(mem, cur) EXCEPT !.mend = FALSE] /\ pc \notin {"down", "load"}
    BY <1>4, Returns DEF LogFailure
  <2> QED BY <1>1, <2>1 DEF WithFailed, Progress
<1>5. CASE Compensate
  <2>1. pc = "compensate"
    BY <1>5 DEF Compensate
  <2>2. \/ UNCHANGED logs
        \/ log' = WithComp(log) /\ mem' = [WithComp(mem) EXCEPT !.mend = FALSE]
    BY <1>5, <2>1, Returns DEF Compensate
  <2> QED BY <1>1, <2>1, <2>2 DEF WithComp, Progress, logs
<1>6. CASE Compensated
  <2>1. pc = "compensated" /\ log' = log /\ mem' = [mem EXCEPT !.mend = FALSE]
    BY <1>6, Returns DEF Compensated, End
  <2> QED BY <1>1, <2>1
<1>7. CASE Load
  <2>1. log' = log /\ mem' = [log EXCEPT !.mend = (tail = "torn")]
    BY <1>7 DEF Load
  <2> QED BY <1>1, <2>1
<1>8. CASE UNCHANGED <<log, mem>> /\ pc \notin {"down", "load"}
  BY <1>1, <1>8
<1>9. Open \/ Resume \/ Refuse \/ Stage \/ Apply \/ ApplyFails \/ Sweep \/ UndoOp \/ UndoRestore \/ Restore \/ UndoFails
        \/ Discard \/ Commit \/ CommitFails \/ Decide
      => UNCHANGED <<log, mem>> /\ pc \notin {"down", "load"}
  BY DEF Open, Resume, Refuse, Stage, Apply, ApplyFails, Sweep, UndoOp, UndoRestore, Restore, UndoFails, Discard,
         Commit, CommitFails, Decide, logs, End
<1>10. ~OpenFails /\ ~Discarded /\ ~Archive /\ ~Recover /\ ~LoadNothing /\ ~Crash /\ ~CrashInDiscard
  BY DEF OpenFails, Discarded, Archive, Recover, LoadNothing, Crash, CrashInDiscard, End, Goto
<1>11. /\ Over \/ vars' = vars => UNCHANGED <<log, mem, pc>>
       /\ \A x \in EditPath, v \in EditValue : Edit(x, v) => UNCHANGED <<log, mem, pc>>
  BY DEF Over, vars, Edit, logs
<1> QED BY <1>2, <1>3, <1>4, <1>5, <1>6, <1>7, <1>8, <1>9, <1>10, <1>11
           DEF Next, Command, Execute, Reverse, Complete, Recovery

\* Such a plan is carried out by the first command, which has nothing to report.
LEMMA StepOnePass ==
  ASSUME Unresumed, UInv, Logged, OnePass, [Next]_vars
  PROVE  OnePass'
<1> USE DEF Goto
<1>1. pc' \notin {"retry", "uncertain"} /\ (pc' = "sweep" => op'.kind = "remove")
  <2> SUFFICES ASSUME pc' \in {"retry", "uncertain", "sweep"} PROVE pc' = "sweep" /\ op'.kind = "remove"
    OBVIOUS
  <2>1. CASE Begin
    <3>1. pc = "apply" /\ IsBegun(mem, cur)
      BY <2>1, Returns DEF Begin
    <3> QED BY <3>1 DEF UInv, Rest, InStep, Unresumed
  <2>2. CASE Resume
    BY <2>2 DEF Resume, MayResume, op
  <2>3. CASE Apply
    BY <2>3 DEF Apply, AfterEffect, OnePass, op
  <2>4. ~Open /\ ~Stage /\ ~Sweep /\ ~Finish /\ ~Decide
    BY DEF Open, Stage, Sweep, Finish, Decide, GotoNext
  <2>5. ASSUME NEW x \in EditPath, NEW v \in EditValue, Edit(x, v) PROVE pc' = "sweep" /\ op'.kind = "remove"
    BY <2>5 DEF Edit, OnePass, op
  <2>6. CASE UNCHANGED vars
    BY <2>6 DEF vars, OnePass, op
  <2> QED BY <2>1, <2>2, <2>3, <2>4, <2>5, <2>6, ForwardSteps DEF Forward, Done
<1>2. ASSUME pc' \in Forward \cup {"open"} PROVE log'.failed = {} /\ reported' = {} /\ ~Committed'
  <2>1. ~Decide
    BY <1>2 DEF Decide, CanRollForward, Unresumed, Forward, Done
  <2>2. /\ pc \in Forward \cup {"open"} /\ UNCHANGED <<reported, receipt>>
        /\ ~LogFailure
    <3>1. Open \/ Begin \/ Resume \/ Stage \/ Apply \/ Sweep \/ Finish
            => pc \in Forward \cup {"open"} /\ UNCHANGED <<reported, receipt>>
      BY DEF Open, Begin, Resume, Stage, Apply, Sweep, Finish, outcome, Forward
    <3>2. /\ UNCHANGED vars => UNCHANGED <<pc, reported, receipt>>
          /\ \A x \in EditPath, v \in EditValue : Edit(x, v) => UNCHANGED <<pc, reported, receipt>>
      BY DEF vars, Edit, outcome
    <3>3. ~LogFailure
      BY <1>2 DEF LogFailure, Forward, Done
    <3> QED BY <1>2, <2>1, <3>1, <3>2, <3>3, ForwardSteps
  <2>3. log'.failed = log.failed
    BY <2>2, Recorded
  <2> QED BY <2>2, <2>3 DEF OnePass, Committed
<1> QED BY <1>1, <1>2 DEF OnePass

\* Registrations are changed by host commands and by undoing them only.
LEMMA HostChanges ==
  ASSUME Unresumed, EInv, [Next]_vars, NEW x \in Registration, disk'[x] # disk[x]
  PROVE  /\ cur \in Idx /\ op = Ops[cur] /\ op.kind = "exec" /\ op.path = x
         /\ \/ /\ Apply /\ pc = "effect" /\ pc' = "done" /\ at # op.val
               /\ disk'[x] = op.val
            \/ /\ UndoOp /\ mem.done[cur] = "done" /\ op.undo
               /\ disk'[x] = Opposite(op.val)
<1> DEFINE Goal == /\ cur \in Idx /\ op = Ops[cur] /\ op.kind = "exec" /\ op.path = x
                   /\ \/ /\ Apply /\ pc = "effect" /\ pc' = "done" /\ at # op.val
                         /\ disk'[x] = op.val
                      \/ /\ UndoOp /\ mem.done[cur] = "done" /\ op.undo
                         /\ disk'[x] = Opposite(op.val)
<1> SUFFICES Goal
  OBVIOUS
<1> USE DEF Goto
<1>1. /\ x \in Path /\ x \notin Dirs /\ PlanShape /\ UInv /\ TypeOK
      /\ disk \in [Path -> Content]
  BY PathsOfOps DEF Unresumed, PlanShape, PathsApart, Registration, EInv, UInv, TypeOK
<1>2. disk' # disk
  OBVIOUS
<1>3. CASE Apply \/ ApplyFails
  <2>1. pc = "effect" /\ cur \in Idx /\ op = Ops[cur]
    BY <1>3 DEF Apply, ApplyFails, EInv, OnePass, UInv, AtOp, Applying, op
  <2>2. Effect(disk', staging', trash') /\ (Apply \/ op.kind # "exec")
    BY <1>2, <1>3 DEF Apply, ApplyFails, files
  <2>3. EffectAt(cur, disk, disk', x) /\ MadeBy(cur) \subseteq Dirs
    BY <1>1, <2>1, <2>2, EffectIsAt, PathsOfOps
  <2>4. op.kind = "exec" /\ op.path = x
    BY <1>1, <2>1, <2>3, PathsOfOps DEF EffectAt, DirOp
  <2>5. Apply /\ disk' = [disk EXCEPT ![op.path] = op.val]
    BY <2>2, <2>4 DEF Effect
  <2>6. disk'[x] = op.val /\ at # op.val
    BY <1>1, <2>4, <2>5 DEF at
  <2>7. pc' = "done"
    BY <2>4, <2>5, <2>6 DEF Apply, AfterEffect
  <2> QED BY <2>1, <2>4, <2>5, <2>6, <2>7
<1>4. CASE UndoOp \/ UndoFails
  <2>1. pc = "undo" /\ ~NeedsRestore /\ UndoEffect /\ (UndoOp \/ op.kind # "exec")
    BY <1>2, <1>4 DEF UndoOp, UndoFails, files
  <2>2. cur \in Idx /\ op = Ops[cur]
    BY <2>1 DEF EInv, UInv, AtOp, op
  <2>3. UndoneAt(mem, cur, disk, disk', x)
    BY <1>1, <2>1, UndoEffectIsAt
  <2>4. op.kind = "exec" /\ op.path = x
    BY <1>1, <2>2, <2>3, PathsOfOps DEF UndoneAt
  <2>5. UndoOp /\ disk' = [disk EXCEPT ![op.path] = IF mem.done[cur] = "done" /\ op.undo THEN Opposite(op.val) ELSE at]
    BY <2>1, <2>4 DEF UndoEffect
  <2> QED BY <1>1, <2>2, <2>4, <2>5 DEF at
<1>5. CASE Restore
  <2>1. pc = "restore" /\ cur \in Idx /\ op = Ops[cur] /\ op.kind \in {"write", "remove"} /\ FileOp(cur)
    BY <1>5 DEF Restore, EInv, UInv, AtOp, Rest, AtHand, op, FileOp
  <2>2. op.path # x /\ mem.missing[cur] \subseteq Dirs
    <3>1. IsBegun(mem, cur)
      BY <2>1 DEF EInv, UInv, AtOp
    <3> QED BY <1>1, <2>1, <3>1, PathsOfOps DEF UInv, Rest, Records, Created
  <2>3. disk' = WithoutDirs([disk EXCEPT ![op.path] = pre], staging \ {cur}, mem.missing[cur])
    BY <1>5 DEF Restore, Undo
  <2> QED BY <1>1, <2>2, <2>3 DEF WithoutDirs
<1>6. CASE Stage \/ UndoRestore
  <2>1. disk' \in {disk, WithDirs(disk, Parents(op.path))} /\ cur \in Idx /\ op = Ops[cur]
    BY <1>6 DEF Stage, UndoRestore, EInv, UInv, AtOp, Applying, op
  <2>2. x \notin Parents(op.path)
    BY <1>1, <2>1, PathsOfOps DEF Parents
  <2> QED BY <1>1, <2>1, <2>2 DEF WithDirs
<1>7. ASSUME NEW y \in EditPath, NEW v \in EditValue, Edit(y, v) PROVE Goal
  <2>1. disk' = [disk EXCEPT ![y] = v] /\ x # y
    BY <1>1, <1>7 DEF Edit, PlanShape, PathsApart
  <2> QED BY <1>1, <2>1
<1>8. ~Open /\ ~OpenFails /\ ~Begin /\ ~Resume /\ ~Refuse /\ ~Sweep /\ ~Finish /\ ~LogFailure
  BY <1>2 DEF Open, OpenFails, Begin, Resume, Refuse, Sweep, Finish, LogFailure, files
<1>9. ~Compensate /\ ~Compensated /\ ~Discard /\ ~Discarded /\ ~Complete /\ ~Recovery
  BY <1>2 DEF Compensate, Compensated, Discard, Discarded, Complete, Commit, CommitFails, Archive,
              Recovery, Recover, LoadNothing, Load, Decide, files
<1>10. ~Over /\ ~Crash /\ ~CrashInDiscard /\ vars' # vars
  BY <1>2 DEF Over, Crash, CrashInDiscard, vars, files
<1> QED BY <1>3, <1>4, <1>5, <1>6, <1>7, <1>8, <1>9, <1>10 DEF Next, Command, Execute, Reverse

\* The op at work, when it has done nothing yet: those before it are done, those after it
\* are not begun.
LEMMA AroundOp ==
  ASSUME EInv, pc \in Forward \ {"commit"}, NEW i \in Idx, i # cur, Felt(i)
  PROVE  i < cur /\ log.done[i] = "done"
<1>1. cur \in Idx /\ ~IsDone(mem, cur) /\ Alike(mem, log) /\ \A j \in Idx : j < cur => IsDone(mem, j)
  BY DEF EInv, UInv, AtOp, Applying, Rest, InStep, Forward
<1>2. Ordered(log) /\ ~IsDone(log, cur) /\ \A j \in Idx : j < cur => IsDone(log, j)
  BY <1>1, AlikeSame DEF EInv, UInv, Rest, Records
<1>3. IsBegun(log, i)
  BY <1>2 DEF Felt, Ordered, IsDone, None
<1>4. i < cur
  BY <1>1, <1>2, <1>3, IdxNat DEF Ordered
<1> QED BY <1>2, <1>4 DEF Felt

\* The first host command for a registration finds it as it was.
LEMMA StepSwitches ==
  ASSUME Unresumed, EInv, [Next]_vars
  PROVE  Switches'
<1> SUFFICES ASSUME NEW i \in Idx, Ops[i].kind = "exec",
                    log'.done[i] = "done" \/ (i = cur' /\ pc' = "done"),
                    \A j \in HostOps(Ops[i].path) : j < i => log'.done[j] # "done"
             PROVE  Opposite(Ops[i].val) = InitDisk[Ops[i].path]
  BY DEF Switches, HostOps
<1>0. UInv /\ Logged /\ OnePass
  BY DEF EInv
<1>1. \A j \in Idx : log.done[j] = "done" => log'.done[j] = "done"
  <2>1. Finish => ~IsDone(log, cur)
    <3>1. Finish => pc \in Done /\ pc \in Forward \ {"commit"}
      BY DEF Finish, Forward, Done
    <3>2. Finish => ~IsDone(mem, cur) /\ Alike(mem, log)
      BY <3>1 DEF EInv, UInv, Rest, InStep
    <3>3. \A j : mem.done = log.done => (IsDone(mem, j) <=> IsDone(log, j))
      BY DEF IsDone
    <3> QED BY <3>2, <3>3 DEF Alike
  <2>2. log.done[cur] = "done" => IsDone(log, cur)
    BY DEF IsDone, None
  <2> QED BY <1>0, <2>1, <2>2, Recorded
<1>2. \A j \in HostOps(Ops[i].path) : j < i => log.done[j] # "done"
  BY <1>1 DEF HostOps
<1>3. CASE log.done[i] = "done" \/ (i = cur /\ pc = "done")
  BY <1>2, <1>3 DEF EInv, Switches
<1>4. CASE log.done[i] # "done" /\ ~(i = cur /\ pc = "done")
  <2>1. log'.done[i] # "done"
    BY <1>0, <1>4, Recorded
  <2>2. i = cur' /\ pc' = "done"
    BY <2>1
  <2>3. Apply
    <3>1. ~Open /\ ~Begin /\ ~Stage /\ ~Decide /\ ~Finish
      BY <2>2, Returns, <1>0 DEF Open, Begin, Stage, Decide, Finish, GotoNext, Goto
    <3>2. ~Resume
      BY <2>2 DEF Resume, MayResume, op, Goto
    <3>3. ~Sweep
      BY <1>0, <2>2 DEF Sweep, OnePass, op
    <3>4. ~UNCHANGED vars /\ \A x \in EditPath, v \in EditValue : ~Edit(x, v)
      BY <1>4, <2>2 DEF vars, Edit
    <3> QED BY <2>2, <3>1, <3>2, <3>3, <3>4, ForwardSteps DEF Forward, Done
  <2>4. pc = "effect" /\ i = cur /\ op = Ops[i] /\ at # op.val /\ op.path = Ops[i].path
    BY <1>0, <2>2, <2>3 DEF Apply, AfterEffect, OnePass, op, Goto
  <2>5. at = InitDisk[op.path]
    <3> SUFFICES ASSUME disk[op.path] # InitDisk[op.path] PROVE FALSE
      BY DEF at
    <3>1. op.path \in Registration
      BY <2>4 DEF Registration
    <3>2. pc \in Forward \ {"commit"}
      BY <2>4 DEF Forward
    <3>3. PICK j \in HostOps(op.path) : Felt(j) /\ ~Idle(j)
      BY <1>0, <3>1, <3>2 DEF EInv, HostsAccounted, OnePass
    <3>4. j # cur /\ j \in Idx
      BY <2>4, <3>3 DEF Idle, HostOps
    <3>5. j < cur /\ log.done[j] = "done"
      BY <3>2, <3>3, <3>4, AroundOp
    <3> QED BY <1>2, <2>4, <3>3, <3>5
  <2> QED BY <2>4, <2>5 DEF Unresumed, HostsOnOrOff, Opposite
<1> QED BY <1>3, <1>4

\* A host command that may have done something was begun.
LEMMA FeltBegun ==
  ASSUME EInv, NEW i \in Idx, Felt(i)
  PROVE  IsBegun(View, i)
<1>1. IsBegun(log, i)
  BY DEF Felt, IsDone, None, EInv, UInv, Rest, Records, Ordered
<1> QED BY <1>1 DEF View, EInv, Remembered, IsBegun

\* It is still felt after a step that does not undo it, and not idle then.
LEMMA StepFelt ==
  ASSUME Unresumed, EInv, [Next]_vars, NEW i \in Idx, Ops[i].kind = "exec", Felt(i), ~Idle(i)
  PROVE  Felt(i)' /\ ~Idle(i)'
<1> USE DEF Goto
<1>0. UInv /\ Logged /\ OnePass /\ UInv' /\ Remembered'
  BY StepUndoable, StepRemembered DEF EInv, Unresumed
<1>1. Felt(i)'
  <2>1. ASSUME log'.pre = log.pre, log'.done = log.done, log'.failed = log.failed PROVE Felt(i)'
    BY <2>1 DEF Felt, IsBegun, IsDone
  <2>2. CASE Begin
    <3>1. i # cur
      BY <2>2 DEF Begin, Idle
    <3>2. log'.pre[i] = log.pre[i] /\ log'.done = log.done /\ log'.failed = log.failed
      BY <1>0, <2>2, <3>1, Recorded DEF Begin, Finish, LogFailure, Done
    <3> QED BY <3>2 DEF Felt, IsBegun, IsDone
  <2>3. CASE Finish
    <3>1. \/ log'.pre = log.pre /\ log'.done = log.done /\ log'.failed = log.failed
          \/ /\ cur \in Idx /\ log'.pre = log.pre /\ log'.failed = log.failed
             /\ log'.done[i] = IF i = cur THEN pc ELSE log.done[i]
      BY <1>0, <2>3, Recorded DEF Begin, Finish, LogFailure, Done
    <3>2. i = cur => pc = "done"
      <4>1. pc \in Done
        BY <2>3 DEF Finish
      <4>2. pc = "kept" => op.kind = "rmdir"
        BY <1>0 DEF UInv, Rest, KeptStays, Unresumed, Restorable
      <4> QED BY <1>0, <4>1, <4>2 DEF Done, Idle, OnePass, op
    <3> QED BY <2>1, <3>1, <3>2 DEF Felt, IsBegun, IsDone
  <2>4. CASE LogFailure
    <3>1. i # cur
      BY <2>4 DEF LogFailure, Idle
    <3>2. log'.pre = log.pre /\ log'.done = log.done /\ log'.failed \in {log.failed, log.failed \cup {cur}}
      BY <1>0, <2>4, Recorded DEF Begin, Finish, LogFailure, Done
    <3> QED BY <3>1, <3>2 DEF Felt, IsBegun, IsDone
  <2> QED BY <1>0, <2>1, <2>2, <2>3, <2>4, Recorded
<1>2. ~Idle(i)'
  <2> SUFFICES ASSUME i = cur', pc' \in {"apply", "effect", "failed", "tolerated"} PROVE FALSE
    BY DEF Idle
  <2>1. CASE pc' = "apply"
    <3>1. ~IsDone(mem', cur') /\ ~IsBegun(mem', cur')
      BY <1>0, <2>1 DEF UInv, Rest, InStep, Forward, Unresumed
    <3>2. ~IsDone(log', i) /\ ~IsBegun(log', i)
      BY <1>0, <2>1, <3>1 DEF Remembered, IsDone, IsBegun
    <3> QED BY <1>1, <3>2 DEF Felt, IsDone, None
  <2>2. CASE pc' # "apply"
    <3>1. pc' \in {"effect", "failed", "tolerated"}
      BY <2>2
    <3>2. cur' = cur /\ (pc \in {"apply", "effect", "failed", "tolerated"} \/ op.kind \in {"write", "remove"})
      <4>1. CASE Begin \/ Refuse
        BY <4>1 DEF Begin, Refuse
      <4>2. CASE Stage
        BY <1>0, <4>2 DEF Stage, UInv, Rest, InStep
      <4>3. CASE Apply \/ ApplyFails
        BY <1>0, <4>3 DEF Apply, ApplyFails, OnePass
      <4>4. CASE Sweep
        BY <1>0, <4>4 DEF Sweep, OnePass
      <4>5. CASE Finish
        <5>1. pc \in Done /\ pc' \in {"apply", "commit"}
          BY <4>5, <1>0, Returns DEF Finish, Done, GotoNext
        <5> QED BY <3>1, <5>1
      <4>6. ~Open /\ ~OpenFails /\ ~Resume /\ ~LogFailure
        BY <3>1 DEF Open, OpenFails, Resume, LogFailure, GotoNext
      <4>7. ~Reverse
        <5>1. \A j, m : GotoUndo(j, m) => pc' \in {"compensated", "undo"}
          BY DEF GotoUndo
        <5> QED BY <3>1, <5>1 DEF Reverse, Compensate, UndoOp, UndoRestore, Restore, UndoFails, Compensated, Discard,
                                  Discarded, End
      <4>8. ~Complete /\ ~Recovery /\ ~Crash /\ ~CrashInDiscard
        BY <3>1 DEF Complete, Commit, CommitFails, Archive, Recovery, Recover, LoadNothing, Load, Decide, Crash,
                    CrashInDiscard, End, GotoNext
      <4>9. /\ Over \/ vars' = vars => UNCHANGED <<pc, cur>>
            /\ \A x \in EditPath, v \in EditValue : Edit(x, v) => UNCHANGED <<pc, cur>>
        BY DEF Over, vars, Edit
      <4> QED BY <3>1, <4>1, <4>2, <4>3, <4>4, <4>5, <4>6, <4>7, <4>8, <4>9 DEF Next, Command, Execute
    <3> QED BY <3>2 DEF Idle, op
  <2> QED BY <2>1, <2>2
<1> QED BY <1>1, <1>2

\* A host command that is undone leaves what an earlier one did, or what was there; or it
\* is reported.
LEMMA UndoneHost ==
  ASSUME Unresumed, EInv, [Next]_vars, UndoOp, op.kind = "exec", disk'[op.path] # InitDisk[op.path], cur \notin reported'
  PROVE  \/ mem.done[cur] = "done" /\ \E j \in HostOps(op.path) : j < cur /\ log.done[j] = "done"
         \/ ~Felt(cur) /\ disk' = disk
<1>1. /\ pc = "undo" /\ UndoEffect /\ ~Remains /\ cur \in Idx /\ op = Ops[cur] /\ op.path \in Path
      /\ disk \in [Path -> Content] /\ PlanShape
  <2>1. pc = "undo" /\ UndoEffect /\ ~Remains
    BY DEF UndoOp
  <2>2. cur \in Idx /\ op = Ops[cur]
    BY <2>1 DEF EInv, UInv, AtOp, op
  <2> QED BY <2>1, <2>2, PathsOfOps DEF Unresumed, EInv, UInv, TypeOK
<1>2. mem.done = log.done /\ mem.failed = log.failed
  BY <1>1 DEF EInv, Remembered
<1>3. disk' = [disk EXCEPT ![op.path] = IF mem.done[cur] = "done" /\ op.undo THEN Opposite(op.val) ELSE at]
  BY <1>1 DEF UndoEffect
<1>4. CASE mem.done[cur] = "done"
  <2>1. disk'[op.path] = Opposite(op.val)
    BY <1>1, <1>3, <1>4 DEF Remains
  <2>2. \E j \in HostOps(op.path) : j < cur /\ log.done[j] = "done"
    BY <1>1, <1>2, <1>4, <2>1 DEF EInv, Switches
  <2> QED BY <1>4, <2>2
<1>5. CASE mem.done[cur] # "done"
  <2>1. disk' = disk
    BY <1>1, <1>3, <1>5 DEF at
  <2>2. ~Felt(cur)
    BY <1>1, <1>2, <1>5 DEF Remains, Felt, IsDone
  <2> QED BY <2>1, <2>2
<1> QED BY <1>4, <1>5

\* What is committed stays so.
LEMMA StaysCommitted ==
  ASSUME [Next]_vars, Committed
  PROVE  Committed'
<1>1. Open \/ OpenFails \/ Execute \/ Reverse \/ Recovery \/ Archive => receipt' = receipt
  BY DEF Open, OpenFails, Execute, Begin, Resume, Refuse, Stage, Apply, ApplyFails, Sweep, Finish, LogFailure,
         Reverse, Compensate, UndoOp, UndoRestore, Restore, UndoFails, Compensated, Discard, Discarded,
         Recovery, Recover, LoadNothing, Load, Decide, Archive, outcome
<1>2. Commit \/ CommitFails => receipt' \in {receipt, "txn"}
  BY DEF Commit, CommitFails
<1>3. /\ Over \/ Crash \/ CrashInDiscard \/ UNCHANGED vars => receipt' = receipt
      /\ \A y \in EditPath, v \in EditValue : Edit(y, v) => receipt' = receipt
  BY DEF Over, Crash, CrashInDiscard, vars, Edit, outcome
<1> QED BY <1>1, <1>2, <1>3 DEF Next, Command, Complete, Committed

\* What host commands did to a registration is still to be undone, or was reported.
LEMMA StepHostsAccounted ==
  ASSUME Unresumed, EInv, [Next]_vars
  PROVE  HostsAccounted'
<1> SUFFICES ASSUME NEW x \in Registration, disk'[x] # InitDisk[x], ~Committed',
                    ~\E i \in reported' : Ops[i].path = x
             PROVE  \E i \in HostOps(x) : i <= Pending' /\ Felt(i)' /\ ~Idle(i)'
  BY DEF HostsAccounted, HostOps
<1>1. UInv /\ ~Committed /\ ~\E i \in reported : Ops[i].path = x
  BY LogGrows, StaysCommitted DEF EInv
<1>2. ASSUME NEW i \in HostOps(x), i <= Pending, Felt(i), ~Idle(i), UndoOp => i # cur
      PROVE  i <= Pending' /\ Felt(i)' /\ ~Idle(i)'
  <2>1. i \in Idx /\ Ops[i].kind = "exec"
    BY DEF HostOps
  <2>2. Felt(i)' /\ ~Idle(i)' /\ IsBegun(View, i)
    BY <1>2, <2>1, StepFelt, FeltBegun
  <2>3. Restore => i # cur
    BY <1>1, <2>1 DEF Restore, UInv, Rest, AtHand, op
  <2> QED BY <1>1, <1>2, <2>1, <2>2, <2>3, PendingAfter
<1>3. CASE UndoOp /\ op.kind = "exec" /\ op.path = x
  <2>1. pc = "undo" /\ cur \in Idx /\ op = Ops[cur] /\ journal = "live" /\ cur \in Nat
    BY <1>1, <1>3, IdxNat DEF UndoOp, UInv, AtOp, JournalAt, op, Done
  <2>2. cur \notin reported'
    BY <1>3, <2>1
  <2>3. CASE \E j \in HostOps(x) : j < cur /\ log.done[j] = "done"
    <3>1. PICK j \in HostOps(x) : j < cur /\ log.done[j] = "done"
      BY <2>3
    <3>2. Felt(j) /\ ~Idle(j)
      BY <2>1, <3>1 DEF Felt, Idle
    <3>3. j <= Pending /\ j # cur
      <4>1. j \in Nat /\ j <= Len(Ops) /\ Len(Ops) \in Nat
        BY <3>1, IdxNat DEF HostOps
      <4>2. Pending \in {cur, Len(Ops)}
        BY <2>1 DEF Pending, Undone
      <4> QED BY <2>1, <3>1, <4>1, <4>2
    <3> QED BY <1>2, <3>2, <3>3
  <2>4. CASE ~Felt(cur) /\ disk' = disk
    <3>1. PICK i \in HostOps(x) : i <= Pending /\ Felt(i) /\ ~Idle(i)
      BY <1>1, <2>4 DEF EInv, HostsAccounted
    <3> QED BY <1>2, <2>4, <3>1
  <2> QED BY <1>3, <2>2, <2>3, <2>4, UndoneHost
<1>4. CASE ~(UndoOp /\ op.kind = "exec" /\ op.path = x) /\ disk'[x] = disk[x]
  <2>1. PICK i \in HostOps(x) : i <= Pending /\ Felt(i) /\ ~Idle(i)
    BY <1>1, <1>4 DEF EInv, HostsAccounted
  <2>2. UndoOp => i # cur
    BY <1>4, <2>1 DEF HostOps, op
  <2> QED BY <1>2, <2>1, <2>2
<1>5. CASE ~(UndoOp /\ op.kind = "exec" /\ op.path = x) /\ disk'[x] # disk[x]
  <2>1. /\ cur \in Idx /\ op = Ops[cur] /\ op.kind = "exec" /\ op.path = x
        /\ Apply /\ pc = "effect" /\ pc' = "done"
    BY <1>5, HostChanges
  <2>2. UNCHANGED <<log, journal, cur>> /\ journal = "live"
    BY <1>1, <2>1 DEF Apply, logs, outcome, UInv, JournalAt, Done
  <2>3. IsBegun(mem, cur) /\ ~IsDone(mem, cur) /\ Alike(mem, log) /\ log.failed = {}
    BY <1>1, <2>1 DEF UInv, Rest, InStep, Working, Forward, EInv, OnePass
  <2>4. Felt(cur)' /\ ~Idle(cur)'
    BY <2>1, <2>2, <2>3, AlikeSame DEF Felt, Idle, IsBegun, IsDone
  <2>5. Pending' = Len(Ops)
    BY <2>1, <2>2 DEF Pending, Undone
  <2> QED BY <2>1, <2>4, <2>5, <2>2, IdxNat DEF HostOps
<1> QED BY <1>3, <1>4, <1>5

\* What an undone transaction did to a host is undone, or named in a report: when the plan
\* is one that no recovery resumes, and the log loses no record.
THEOREM HostEffectsReportedHolds ==
  ASSUME Unresumed
  PROVE  Spec => []HostEffectsReported
<1>1. Init => EInv
  <2> SUFFICES ASSUME Init PROVE EInv
    OBVIOUS
  <2>1. UInv
    BY InitUndoable DEF Unresumed
  <2>2. \A i \in Idx : log.done[i] = None
    BY DEF Init, NoProgress
  <2>3. Switches
    BY <2>2 DEF Switches, Init, None
  <2> QED BY <2>1, <2>3, NoProgressTyped DEF EInv, Init, Logged, Undoing, UserWrites, Remembered, OnePass, Committed, HostsAccounted
<1>2. EInv /\ [Next]_vars => EInv'
  <2> SUFFICES ASSUME EInv, [Next]_vars PROVE EInv'
    OBVIOUS
  <2>1. UInv' /\ Logged' /\ UserWrites' /\ Remembered' /\ OnePass'
    BY StepUndoable, StepLogged, StepUserWrites, StepRemembered, StepOnePass DEF EInv, Unresumed
  <2> QED BY <2>1, StepHostsAccounted, StepSwitches DEF EInv
<1>3. EInv => HostEffectsReported
  <2> SUFFICES ASSUME EInv, Settled, ~Committed, NEW x \in Registration, disk[x] # user[x]
               PROVE  \E i \in reported : Ops[i].path = x
    BY DEF HostEffectsReported
  <2>1. x \in Path /\ user[x] = InitDisk[x]
    BY PathsOfOps DEF EInv, UserWrites, Unresumed, PlanShape, PathsApart, Registration
  <2>2. journal # "archived" /\ pc = "down"
    BY DEF EInv, UInv, Rest, InStep, Settled
  <2>3. Pending = 0
    BY <2>2 DEF Settled, Pending, Undone
  <2>4. \A i \in HostOps(x) : ~(i <= 0)
    BY IdxNat DEF HostOps
  <2> QED BY <2>1, <2>3, <2>4 DEF EInv, HostsAccounted
<1> QED BY <1>1, <1>2, <1>3, PTL DEF Spec
=============================================================================
