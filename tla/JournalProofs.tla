--------------------------- MODULE JournalProofs ---------------------------
(***************************************************************************)
(* Proofs about Journal, for any plan, contents and faults.  Type          *)
(* correctness has no hypothesis.  That a transaction is decided once      *)
(* holds when no call that throws has replaced the receipt ("committed" is *)
(* not a fault): the run JournalCommitted shows that this is needed.       *)
(*                                                                         *)
(* From Tracing on: what a transaction leaves on disk.  The log always     *)
(* names every change with what it replaced, and a transaction that is     *)
(* over without being committed leaves what was there, or what the user    *)
(* put there since.  Both are for any plan of the shape PlanShape, any     *)
(* edits and faults, torn log lines included.                              *)
(***************************************************************************)
EXTENDS Journal, Integers, WellFoundedInduction, TLAPS

-----------------------------------------------------------------------------
(* The order of the ops.                                                   *)

\* A nonempty set of naturals has a least element.
LEMMA LeastExists ==
  ASSUME NEW S \in SUBSET Nat, S # {}
  PROVE  \E i \in S : \A j \in S : i <= j
<1>1. PICK i \in S : \A j \in S : <<j, i>> \notin OpToRel(<, Nat)
  BY NatLessThanWellFounded, WFMin, Zenon
<1>2. \A j \in S : ~(j < i)
  BY <1>1, Zenon DEF OpToRel
<1> QED
  BY <1>2

\* A nonempty bounded set of naturals has a greatest element.
LEMMA GreatestExists ==
  ASSUME NEW n \in Nat, NEW S \in SUBSET (0..n), S # {}
  PROVE  \E i \in S : \A j \in S : i >= j
<1> DEFINE T == {n - i : i \in S}
<1>1. T \in SUBSET Nat
  <2>1. \A i \in S : n - i \in Nat
    OBVIOUS
  <2> QED
    BY <2>1
<1>2. T # {}
  OBVIOUS
<1>3. PICK k \in T : \A j \in T : k <= j
  BY <1>1, <1>2, LeastExists, Zenon
<1>4. PICK i \in S : k = n - i
  BY <1>3
<1>5. ASSUME NEW j \in S PROVE i >= j
  <2>1. n - j \in T
    OBVIOUS
  <2>2. n - i <= n - j
    BY <2>1, <1>3, <1>4
  <2> QED
    BY <2>2
<1> QED
  BY <1>5

\* The ops of the plan are ops, and their numbers are naturals.
LEMMA OpsTyped ==
  /\ Len(Ops) \in Nat
  /\ Idx \subseteq 1..Len(Ops)
  /\ \A i \in Idx : Ops[i] \in Op
BY OpAssumption DEF Ops, Idx

\* Going on to the next op or to the commit leads to an op of the plan, or past it.
LEMMA GotoNextTyped ==
  ASSUME NEW i \in Nat, NEW m, GotoNext(i, m)
  PROVE  \/ pc' = "commit" /\ cur' = 0
         \/ pc' = "apply" /\ cur' \in Idx /\ ~IsDone(m, cur')
<1> DEFINE pending == {j \in Idx : j > i /\ ~IsDone(m, j)}
<1>1. CASE pending = {}
  BY <1>1 DEF GotoNext, Goto
<1>2. CASE pending # {}
  <2>1. pending \in SUBSET Nat
    BY OpsTyped DEF Idx
  <2>2. \E j \in pending : \A k \in pending : j <= k
    BY <1>2, <2>1, LeastExists, Zenon
  <2>3. cur' = CHOOSE j \in pending : \A k \in pending : j <= k
    BY <1>2 DEF GotoNext
  <2>4. cur' \in pending
    BY <2>2, <2>3, Zenon
  <2> QED
    BY <1>2, <2>4 DEF GotoNext, Goto
<1> QED
  BY <1>1, <1>2

\* Going back to the op to be undone leads to a begun one, or to the end.
LEMMA GotoUndoTyped ==
  ASSUME NEW i \in Nat, NEW m, GotoUndo(i, m)
  PROVE  \/ pc' = "compensated" /\ cur' = 0
         \/ pc' = "undo" /\ cur' \in Idx /\ IsBegun(m, cur')
<1> DEFINE begun == {j \in Idx : j < i /\ IsBegun(m, j)}
<1>1. CASE begun = {}
  BY <1>1 DEF GotoUndo, Goto
<1>2. CASE begun # {}
  <2>1. begun \in SUBSET (0..Len(Ops))
    BY OpsTyped DEF Idx
  <2>2. \E j \in begun : \A k \in begun : j >= k
    BY <1>2, <2>1, OpsTyped, GreatestExists, Zenon
  <2>3. cur' = CHOOSE j \in begun : \A k \in begun : j >= k
    BY <1>2 DEF GotoUndo
  <2>4. cur' \in begun
    BY <2>2, <2>3, Zenon
  <2> QED
    BY <1>2, <2>4 DEF GotoUndo, Goto
<1> QED
  BY <1>1, <1>2

-----------------------------------------------------------------------------
(* The log.                                                                *)

\* What each record adds to the progress, and what it leaves alone.
LEMMA ProgressTyped ==
  ASSUME NEW p \in Progress, NEW i \in Idx
  PROVE  /\ \A c \in Content, dirs \in SUBSET Path :
              LET q == WithBegin(p, i, c, dirs) IN
                q \in Progress /\ q.failed = p.failed /\ q.comp = p.comp
         /\ \A how \in Done :
              LET q == WithDone(p, i, how) IN
                q \in Progress /\ q.failed = p.failed /\ q.comp = p.comp
         /\ LET q == WithFailed(p, i) IN
              q \in Progress /\ q.failed # {} /\ q.comp = p.comp
<1> USE DEF Progress
<1>1. ASSUME NEW c \in Content, NEW dirs \in SUBSET Path
      PROVE  LET q == WithBegin(p, i, c, dirs) IN
               q \in Progress /\ q.failed = p.failed /\ q.comp = p.comp
  <2>1. /\ [p.pre EXCEPT ![i] = c] \in [Idx -> Content \cup {None}]
        /\ [p.missing EXCEPT ![i] = dirs] \in [Idx -> SUBSET Path]
    OBVIOUS
  <2> QED
    BY <2>1 DEF WithBegin
<1>2. ASSUME NEW how \in Done
      PROVE  LET q == WithDone(p, i, how) IN
               q \in Progress /\ q.failed = p.failed /\ q.comp = p.comp
  <2>1. [p.done EXCEPT ![i] = how] \in [Idx -> Done \cup {None}]
    OBVIOUS
  <2> QED
    BY <2>1 DEF WithDone
<1>3. LET q == WithFailed(p, i) IN
        q \in Progress /\ q.failed # {} /\ q.comp = p.comp
  BY DEF WithFailed
<1> QED
  BY <1>1, <1>2, <1>3

\* The decision to compensate, and the mending of a torn tail.
LEMMA ProgressFlags ==
  ASSUME NEW p \in Progress
  PROVE  /\ WithComp(p) \in Progress /\ WithComp(p).comp /\ WithComp(p).failed = p.failed
         /\ \A b \in BOOLEAN :
              LET q == [p EXCEPT !.mend = b] IN
                q \in Progress /\ q.failed = p.failed /\ q.comp = p.comp
BY DEF Progress, WithComp

\* Nothing is begun, done or given up in the empty log.
LEMMA NoProgressTyped ==
  NoProgress \in Progress /\ NoProgress.failed = {} /\ ~NoProgress.comp
BY DEF NoProgress, Progress, Content, Absent

\* An append that succeeds or throws: the record is in the log or it is not.
LEMMA AppendTyped ==
  ASSUME TypeOK, NEW newLog \in Progress, NEW newMem \in Progress,
         Log(newLog, newMem) \/ LogThrows(newLog)
  PROVE  /\ log' \in {log, newLog} /\ log' \in Progress
         /\ tail' \in Tails /\ faults' \in 0..MaxFaults
         /\ Log(newLog, newMem) \/ Untracked => mem' \in Progress
<1>1. log' \in {log, newLog}
  BY DEF Log, LogThrows
<1>2. ASSUME Log(newLog, newMem) \/ Untracked PROVE mem' \in Progress
  <2>1. mem' \in {[newMem EXCEPT !.mend = FALSE], [mem EXCEPT !.mend = FALSE]}
    BY <1>2 DEF Log, Untracked
  <2> QED
    BY <2>1, ProgressFlags DEF TypeOK
<1>3. tail' \in Tails /\ faults' \in 0..MaxFaults
  BY FaultAssumption DEF TypeOK, Log, LogThrows, Fault, TailAfter, Tails
<1> QED
  BY <1>1, <1>2, <1>3 DEF TypeOK

-----------------------------------------------------------------------------
(* Type correctness.                                                       *)

Applying == {"apply", "stage", "effect", "retry", "sweep", "failed"} \cup Done

\* A command that works on an op is at one, and undoes only what was begun.
AtOp ==
  /\ pc \in Applying => cur \in Idx
  /\ pc \in {"undo", "restore"} => cur \in Idx /\ IsBegun(mem, cur)

\* The command is over: what it knew is forgotten, and the journal stays as it is.
LEMMA EndTyped ==
  ASSUME NEW answer \in {"ok", "error", "killed"}, TypeOK, End(answer)
  PROVE  /\ pc' = "down" /\ mode' = "none" /\ cur' = 0 /\ mem' \in Progress
         /\ troubled' = FALSE /\ reply' \in {reply, answer}
         /\ reply' \in {"none", "ok", "error", "killed"} /\ cur' \in 0..Len(Ops)
BY NoProgressTyped, OpsTyped DEF End, TypeOK

\* Creating and removing directories leaves the paths well typed.
LEMMA DirsTyped ==
  ASSUME NEW dsk \in [Path -> Content], NEW dirs, NEW stg
  PROVE  /\ WithDirs(dsk, dirs) \in [Path -> Content]
         /\ WithoutDirs(dsk, stg, dirs) \in [Path -> Content]
BY DEF WithDirs, WithoutDirs, Content

\* An op leaves its paths and what it moved aside well typed.
LEMMA EffectTyped ==
  ASSUME TypeOK, cur \in Idx, Effect(disk', staging', trash')
  PROVE  disk' \in [Path -> Content] /\ staging' \subseteq Idx /\ trash' \in [Idx -> Content]
<1>1. op.path \in Path /\ op.val \in Content /\ op.kind \in Kinds
  BY OpsTyped DEF op, Op
<1>2. at \in Content
  BY <1>1 DEF at, TypeOK
<1>3. /\ WithDirs(disk, Parents(op.path)) \in [Path -> Content]
      /\ WithDirs(disk, Missing(cur)) \in [Path -> Content]
  BY DirsTyped DEF TypeOK
<1>4. CASE op.kind \in {"write", "link"}
  BY <1>1, <1>3, <1>4 DEF Effect, TypeOK
<1>5. CASE op.kind = "mkdir"
  BY <1>3, <1>5 DEF Effect, TypeOK
<1>6. CASE op.kind = "remove"
  BY <1>1, <1>2, <1>6 DEF Effect, TypeOK, Content
<1>7. CASE op.kind \in {"rmdir", "exec"}
  BY <1>1, <1>2, <1>7 DEF Effect, TypeOK, Content
<1> QED
  BY <1>1, <1>4, <1>5, <1>6, <1>7 DEF Kinds

\* So does undoing it.
LEMMA UndoEffectTyped ==
  ASSUME TypeOK, cur \in Idx, IsBegun(mem, cur), UndoEffect
  PROVE  disk' \in [Path -> Content] /\ staging' \subseteq Idx /\ trash' \in [Idx -> Content]
<1>1. op.path \in Path /\ op.val \in Content /\ op.kind \in Kinds
  BY OpsTyped DEF op, Op
<1>2. at \in Content /\ Opposite(op.val) \in Content
  BY <1>1 DEF at, TypeOK, Opposite, Content
<1>3. pre \in Content
  BY DEF pre, TypeOK, Progress, IsBegun
<1>4. \A dsk \in [Path -> Content], stg \in SUBSET Idx :
        Undo(dsk, stg) => disk' \in [Path -> Content] /\ staging' \subseteq Idx
  BY DirsTyped DEF Undo
<1>5. CASE op.kind \in {"write", "link"}
  <2>1. [disk EXCEPT ![op.path] = Absent] \in [Path -> Content]
    BY DEF TypeOK, Content
  <2>2. disk \in [Path -> Content] /\ staging \ {cur} \in SUBSET Idx
    BY DEF TypeOK
  <2>3. \E dsk \in {disk, [disk EXCEPT ![op.path] = Absent]} : Undo(dsk, staging \ {cur})
    BY <1>5 DEF UndoEffect
  <2>4. UNCHANGED trash
    BY <1>5 DEF UndoEffect
  <2> QED
    BY <1>4, <2>1, <2>2, <2>3, <2>4 DEF TypeOK
<1>6. CASE op.kind = "mkdir"
  BY <1>4, <1>6 DEF UndoEffect, TypeOK
<1>7. CASE op.kind = "remove"
  BY <1>1, <1>2, <1>3, <1>7 DEF UndoEffect, TypeOK, Content
<1>8. CASE op.kind \in {"rmdir", "exec"}
  BY <1>1, <1>2, <1>8 DEF UndoEffect, TypeOK, Content
<1> QED
  BY <1>1, <1>5, <1>6, <1>7, <1>8 DEF Kinds

\* The type invariant is inductive together with AtOp.
LEMMA StepTyped ==
  ASSUME TypeOK, AtOp, [Next]_vars
  PROVE  TypeOK' /\ AtOp'
<1> USE DEF Goto, Untracked, Fault, files, logs, outcome, ghosts
<1> USE FaultAssumption
<1>1. CASE Open
  <2>1. GotoNext(0, mem)
    BY <1>1 DEF Open
  <2>2. \/ pc' = "commit" /\ cur' = 0
        \/ pc' = "apply" /\ cur' \in Idx
    BY <2>1, GotoNextTyped, Zenon
  <2>3. cur' \in 0..Len(Ops)
    BY <2>2, OpsTyped DEF Idx
  <2> QED
    BY <1>1, <2>2, <2>3 DEF Open, TypeOK, AtOp, Applying, Done
<1>2. CASE OpenFails
  BY <1>2 DEF OpenFails, TypeOK, AtOp, Applying, Done
<1>3. CASE Begin
  <2>1. cur \in Idx /\ Captured \in Content /\ Missing(cur) \in SUBSET Path
    BY <1>3, OpsTyped, PathAssumption
       DEF Begin, AtOp, Applying, Captured, TypeOK, at, op, Op, Missing, Content
  <2>2. /\ WithBegin(log, cur, Captured, Missing(cur)) \in Progress
        /\ WithBegin(mem, cur, Captured, Missing(cur)) \in Progress
    BY <2>1, ProgressTyped DEF TypeOK
  <2>3. /\ log' \in Progress /\ mem' \in Progress
        /\ tail' \in Tails /\ faults' \in 0..MaxFaults
    BY <1>3, <2>2, AppendTyped DEF Begin
  <2>4. pc' \in {"stage", "retry", "effect", "failed"} /\ cur' = cur
    BY <1>3 DEF Begin
  <2> QED
    BY <1>3, <2>1, <2>3, <2>4 DEF Begin, TypeOK, AtOp, Applying
<1>4. CASE Resume
  BY <1>4 DEF Resume, TypeOK, AtOp, Applying, Done
<1>5. CASE Refuse
  BY <1>5 DEF Refuse, TypeOK, AtOp, Applying
<1>6. CASE Stage
  <2>1. WithDirs(disk, Parents(op.path)) \in [Path -> Content]
    BY DirsTyped DEF TypeOK
  <2> QED
    BY <1>6, <2>1 DEF Stage, TypeOK, AtOp, Applying
<1>7. CASE Apply
  <2>1. cur \in Idx
    BY <1>7 DEF Apply, AtOp, Applying
  <2>2. /\ disk' \in [Path -> Content] /\ staging' \subseteq Idx
        /\ trash' \in [Idx -> Content]
    BY <1>7, <2>1, EffectTyped DEF Apply
  <2>3. pc' \in {"sweep", "kept", "failed", "uncertain", "tolerated", "done"}
    BY <1>7 DEF Apply, AfterEffect
  <2> QED
    BY <1>7, <2>1, <2>2, <2>3 DEF Apply, TypeOK, AtOp, Applying, Done
<1>8. CASE ApplyFails
  <2>1. cur \in Idx
    BY <1>8 DEF ApplyFails, AtOp, Applying
  <2>2. /\ disk' \in [Path -> Content] /\ staging' \subseteq Idx
        /\ trash' \in [Idx -> Content]
    BY <1>8, <2>1, EffectTyped DEF ApplyFails, TypeOK
  <2> QED
    BY <1>8, <2>1, <2>2 DEF ApplyFails, TypeOK, AtOp, Applying
<1>9. CASE Sweep
  BY <1>9 DEF Sweep, TypeOK, AtOp, Applying, Done, Content
<1>10. CASE Finish
  <2>1. cur \in Idx /\ pc \in Done
    BY <1>10 DEF Finish, AtOp, Applying
  <2>2. WithDone(log, cur, pc) \in Progress /\ WithDone(mem, cur, pc) \in Progress
    BY <2>1, ProgressTyped DEF TypeOK
  <2>3. /\ log' \in Progress /\ mem' \in Progress
        /\ tail' \in Tails /\ faults' \in 0..MaxFaults
    BY <1>10, <2>2, AppendTyped DEF Finish
  <2>4. cur \in Nat
    BY <2>1, OpsTyped DEF Idx
  <2>5. \/ pc' = "commit" /\ cur' = 0
        \/ pc' = "apply" /\ cur' \in Idx
        \/ pc' = "failed" /\ cur' = cur
    <3>1. CASE GotoNext(cur, mem')
      BY <2>4, <3>1, GotoNextTyped, Zenon
    <3> QED
      BY <1>10, <3>1 DEF Finish
  <2> QED
    BY <1>10, <2>1, <2>3, <2>5, OpsTyped DEF Finish, TypeOK, AtOp, Applying, Done
<1>11. CASE LogFailure
  <2>1. cur \in Idx
    BY <1>11 DEF LogFailure, AtOp, Applying
  <2>2. WithFailed(log, cur) \in Progress /\ WithFailed(mem, cur) \in Progress
    BY <2>1, ProgressTyped DEF TypeOK
  <2>3. /\ log' \in Progress /\ mem' \in Progress
        /\ tail' \in Tails /\ faults' \in 0..MaxFaults
    BY <1>11, <2>2, AppendTyped DEF LogFailure
  <2> QED
    BY <1>11, <2>1, <2>3 DEF LogFailure, TypeOK, AtOp, Applying, Done
<1>12. CASE Compensate
  <2>1. WithComp(log) \in Progress /\ WithComp(mem) \in Progress /\ Len(Ops) + 1 \in Nat
    BY ProgressFlags, OpsTyped DEF TypeOK
  <2>2. CASE /\ mem.comp /\ UNCHANGED <<logs, faults>> /\ GotoUndo(Len(Ops) + 1, mem)
             /\ UNCHANGED <<mode, troubled, reply>>
    <3>1. \/ pc' = "compensated" /\ cur' = 0
          \/ pc' = "undo" /\ cur' \in Idx /\ IsBegun(mem, cur')
      BY <2>1, <2>2, GotoUndoTyped, Zenon
    <3>2. cur' \in 0..Len(Ops)
      BY <3>1, OpsTyped DEF Idx
    <3> QED
      BY <1>12, <2>2, <3>1, <3>2 DEF Compensate, TypeOK, AtOp, Applying, Done
  <2>3. CASE /\ Log(WithComp(log), WithComp(mem)) /\ GotoUndo(Len(Ops) + 1, mem)
             /\ UNCHANGED <<mode, troubled, reply>>
    <3>1. \/ pc' = "compensated" /\ cur' = 0
          \/ pc' = "undo" /\ cur' \in Idx /\ IsBegun(mem, cur')
      BY <2>1, <2>3, GotoUndoTyped, Zenon
    <3>2. cur' \in 0..Len(Ops)
      BY <3>1, OpsTyped DEF Idx
    <3>3. /\ log' \in Progress /\ mem' \in Progress
          /\ tail' \in Tails /\ faults' \in 0..MaxFaults
      BY <2>1, <2>3, AppendTyped
    <3>4. mem'.pre = mem.pre
      BY <2>3 DEF Log, WithComp, TypeOK, Progress
    <3> QED
      BY <1>12, <2>3, <3>1, <3>2, <3>3, <3>4
         DEF Compensate, TypeOK, AtOp, Applying, Done, IsBegun
  <2>4. CASE LogThrows(WithComp(log)) /\ End("error")
    <3>1. log' \in Progress /\ tail' \in Tails /\ faults' \in 0..MaxFaults
      BY <2>1, <2>4, AppendTyped
    <3> QED
      BY <1>12, <2>4, <3>1, EndTyped DEF Compensate, TypeOK, AtOp, Applying, Done
  <2> QED
    BY <1>12, <2>2, <2>3, <2>4 DEF Compensate
<1>13. CASE UndoOp
  <2>1. cur \in Idx /\ IsBegun(mem, cur) /\ cur \in Nat
    BY <1>13, OpsTyped DEF UndoOp, AtOp, Idx
  <2>2. /\ disk' \in [Path -> Content] /\ staging' \subseteq Idx
        /\ trash' \in [Idx -> Content]
    BY <1>13, <2>1, UndoEffectTyped DEF UndoOp
  <2>3. \/ pc' = "compensated" /\ cur' = 0
        \/ pc' = "undo" /\ cur' \in Idx /\ IsBegun(mem, cur')
    <3>1. GotoUndo(cur, mem)
      BY <1>13 DEF UndoOp
    <3> QED
      BY <2>1, <3>1, GotoUndoTyped, Zenon
  <2>4. cur' \in 0..Len(Ops)
    BY <2>3, OpsTyped DEF Idx
  <2> QED
    BY <1>13, <2>1, <2>2, <2>3, <2>4 DEF UndoOp, TypeOK, AtOp, Applying, Done
<1>14. CASE UndoRestore
  <2>1. WithDirs(disk, Parents(op.path)) \in [Path -> Content]
    BY DirsTyped DEF TypeOK
  <2> QED
    BY <1>14, <2>1 DEF UndoRestore, TypeOK, AtOp, Applying, Done
<1>15. CASE Restore
  <2>1. cur \in Idx /\ IsBegun(mem, cur) /\ cur \in Nat
    BY <1>15, OpsTyped DEF Restore, AtOp, Idx
  <2>2. disk' \in [Path -> Content] /\ staging' \subseteq Idx
    <3>1. pre \in Content
      BY <2>1 DEF pre, TypeOK, Progress, IsBegun
    <3>2. [disk EXCEPT ![op.path] = pre] \in [Path -> Content]
      BY <3>1 DEF TypeOK
    <3> QED
      BY <1>15, <3>2, DirsTyped DEF Restore, Undo, TypeOK
  <2>3. \/ pc' = "compensated" /\ cur' = 0
        \/ pc' = "undo" /\ cur' \in Idx /\ IsBegun(mem, cur')
    <3>1. GotoUndo(cur, mem)
      BY <1>15 DEF Restore
    <3> QED
      BY <2>1, <3>1, GotoUndoTyped, Zenon
  <2>4. cur' \in 0..Len(Ops)
    BY <2>3, OpsTyped DEF Idx
  <2> QED
    BY <1>15, <2>2, <2>3, <2>4 DEF Restore, TypeOK, AtOp, Applying, Done, Content
<1>16. CASE UndoFails
  <2>1. cur \in Idx /\ IsBegun(mem, cur) /\ cur \in Nat
    BY <1>16, OpsTyped DEF UndoFails, AtOp, Idx
  <2>2. /\ disk' \in [Path -> Content] /\ staging' \subseteq Idx
        /\ trash' \in [Idx -> Content]
    BY <1>16, <2>1, UndoEffectTyped DEF UndoFails, TypeOK
  <2>3. \/ pc' = "compensated" /\ cur' = 0
        \/ pc' = "undo" /\ cur' \in Idx /\ IsBegun(mem, cur')
    <3>1. GotoUndo(cur, mem)
      BY <1>16 DEF UndoFails
    <3> QED
      BY <2>1, <3>1, GotoUndoTyped, Zenon
  <2>4. cur' \in 0..Len(Ops)
    BY <2>3, OpsTyped DEF Idx
  <2> QED
    BY <1>16, <2>2, <2>3, <2>4 DEF UndoFails, TypeOK, AtOp, Applying, Done
<1>17. CASE Compensated
  <2>1. CASE Log(log, mem) \/ LogThrows(log)
    <3>1. /\ log' \in Progress /\ tail' \in Tails /\ faults' \in 0..MaxFaults
          /\ Log(log, mem) => mem' \in Progress
      BY <2>1, AppendTyped DEF TypeOK
    <3> QED
      BY <1>17, <3>1, EndTyped DEF Compensated, TypeOK, AtOp, Applying, Done
  <2>2. CASE End("error") /\ UNCHANGED <<log, tail, faults>>
    BY <1>17, <2>2, EndTyped DEF Compensated, TypeOK, AtOp, Applying, Done
  <2> QED
    BY <1>17, <2>1, <2>2 DEF Compensated
<1>18. CASE Discard
  BY <1>18 DEF Discard, TypeOK, AtOp, Applying, Done
<1>19. CASE Discarded
  BY <1>19, EndTyped DEF Discarded, TypeOK, AtOp, Applying, Done
<1>20. CASE Commit
  BY <1>20 DEF Commit, TypeOK, AtOp, Applying, Done
<1>21. CASE CommitFails
  <2>1. faults' \in 0..MaxFaults /\ receipt' \in {"base", "txn"}
    BY <1>21 DEF CommitFails, TypeOK
  <2>2. CASE End("error")
    <3>1. /\ pc' = "down" /\ mode' = "none" /\ cur' \in 0..Len(Ops) /\ mem' \in Progress
          /\ troubled' = FALSE /\ reply' \in {"none", "ok", "error", "killed"}
      BY <2>2, EndTyped
    <3> QED
      BY <1>21, <2>1, <3>1 DEF CommitFails, TypeOK, AtOp, Applying, Done
  <2>3. CASE pc' = "compensate" /\ UNCHANGED <<mode, cur, mem, troubled, reply>>
    BY <1>21, <2>1, <2>3 DEF CommitFails, TypeOK, AtOp, Applying, Done
  <2> QED
    BY <1>21, <2>2, <2>3 DEF CommitFails
<1>22. CASE Archive
  <2>1. /\ pc' = "down" /\ mode' = "none" /\ cur' \in 0..Len(Ops) /\ mem' \in Progress
        /\ troubled' = FALSE /\ reply' \in {"none", "ok", "error", "killed"}
    BY <1>22, EndTyped DEF Archive
  <2>2. faults' \in 0..MaxFaults /\ journal' \in {"archived", journal}
    BY <1>22 DEF Archive, TypeOK
  <2> QED
    BY <1>22, <2>1, <2>2 DEF Archive, TypeOK, AtOp, Applying, Done
<1>23. CASE Recover
  BY <1>23 DEF Recover, TypeOK, AtOp, Applying, Done
<1>24. CASE LoadNothing
  BY <1>24, EndTyped DEF LoadNothing, TypeOK, AtOp, Applying, Done
<1>25. CASE Load
  <2>1. mem' \in Progress
    BY <1>25, ProgressFlags DEF Load, TypeOK
  <2> QED
    BY <1>25, <2>1 DEF Load, TypeOK, AtOp, Applying, Done
<1>26. CASE Decide
  <2>1. CASE GotoNext(0, mem)
    <3>1. \/ pc' = "commit" /\ cur' = 0
          \/ pc' = "apply" /\ cur' \in Idx
      BY <2>1, GotoNextTyped, Zenon
    <3>2. cur' \in 0..Len(Ops)
      BY <3>1, OpsTyped DEF Idx
    <3> QED
      BY <1>26, <3>1, <3>2 DEF Decide, TypeOK, AtOp, Applying, Done
  <2>2. CASE pc' \in {"archive", "compensate"} /\ UNCHANGED cur
    BY <1>26, <2>2 DEF Decide, TypeOK, AtOp, Applying, Done
  <2> QED
    BY <1>26, <2>1, <2>2 DEF Decide
<1>27. CASE Crash
  <2>1. /\ pc' = "down" /\ mode' = "none" /\ cur' \in 0..Len(Ops) /\ mem' \in Progress
        /\ troubled' = FALSE /\ reply' \in {"none", "ok", "error", "killed"}
    BY <1>27, EndTyped DEF Crash
  <2>2. /\ faults' \in 0..MaxFaults /\ tail' \in Tails
        /\ trash' \in [Idx -> Content]
    BY <1>27 DEF Crash, TypeOK, Tails, Content
  <2> QED
    BY <1>27, <2>1, <2>2 DEF Crash, TypeOK, AtOp, Applying, Done
<1>28. CASE CrashInDiscard
  <2>1. /\ pc' = "down" /\ mode' = "none" /\ cur' \in 0..Len(Ops) /\ mem' \in Progress
        /\ troubled' = FALSE /\ reply' \in {"none", "ok", "error", "killed"}
    BY <1>28, EndTyped DEF CrashInDiscard
  <2>2. faults' \in 0..MaxFaults
    BY <1>28 DEF CrashInDiscard, TypeOK
  <2> QED
    BY <1>28, <2>1, <2>2 DEF CrashInDiscard, TypeOK, AtOp, Applying, Done
<1>29. ASSUME NEW p \in EditPath, NEW v \in EditValue, Edit(p, v)
       PROVE  TypeOK' /\ AtOp'
  <2>1. /\ [disk EXCEPT ![p] = v] \in [Path -> Content]
        /\ [user EXCEPT ![p] = v] \in [Path -> Content]
    BY <1>29, PathAssumption DEF TypeOK, Content
  <2> QED
    BY <1>29, <2>1 DEF Edit, TypeOK, AtOp, Applying, Done
<1>30. CASE UNCHANGED vars
  BY <1>30 DEF vars, TypeOK, AtOp, Applying, Done
<1> QED
  BY <1>1, <1>2, <1>3, <1>4, <1>5, <1>6, <1>7, <1>8, <1>9, <1>10, <1>11, <1>12,
     <1>13, <1>14, <1>15, <1>16, <1>17, <1>18, <1>19, <1>20, <1>21, <1>22, <1>23,
     <1>24, <1>25, <1>26, <1>27, <1>28, <1>29, <1>30
     DEF Next, Command, Over, Execute, Reverse, Complete, Recovery

\* The initial state is well typed.
LEMMA InitTyped == Init => TypeOK /\ AtOp
<1> SUFFICES ASSUME Init PROVE TypeOK /\ AtOp
  OBVIOUS
<1>1. trash \in [Idx -> Content]
  BY DEF Init, Content
<1>2. /\ log \in Progress /\ mem \in Progress
      /\ faults \in 0..MaxFaults /\ cur \in 0..Len(Ops)
  BY NoProgressTyped, FaultAssumption, OpsTyped DEF Init
<1>3. disk \in [Path -> Content] /\ user \in [Path -> Content]
  BY PathAssumption DEF Init
<1> QED
  BY <1>1, <1>2, <1>3 DEF Init, TypeOK, AtOp, Applying, Done, Tails

\* Every reachable state is well typed.
THEOREM TypeCorrect == Spec => []TypeOK
<1>1. Init => TypeOK /\ AtOp
  BY InitTyped
<1>2. TypeOK /\ AtOp /\ [Next]_vars => (TypeOK /\ AtOp)'
  BY StepTyped
<1> QED
  BY <1>1, <1>2, PTL DEF Spec

-----------------------------------------------------------------------------
(* The transaction is decided once.                                        *)

Forward == {"apply", "stage", "effect", "retry", "sweep", "commit"} \cup Done

\* The log on disk says that a command gave the plan up.
GaveUp == log.failed # {} \/ log.comp

Aborted == \/ log.comp
           \/ journal \in {"tmp", "broken"}
           \/ journal = "none" /\ pc # "open"

\* A command that has opened or loaded the transaction finds it published until
\* it archives or removes it.
JournalAt ==
  /\ pc = "open" => journal = "none"
  /\ pc = "load" => journal \in {"tmp", "live", "broken"}
  /\ pc = "discarded" => journal = "broken"
  /\ pc \notin {"open", "load", "discarded", "down"} => journal = "live"

\* The receipt decides: a transaction it names is only archived, and one that was
\* given up is not carried on with.
Decided ==
  /\ Committed => /\ pc \in {"down", "load", "decide", "archive"}
                  /\ journal \in {"live", "archived"}
                  /\ ~GaveUp
  /\ pc = "archive" \/ journal = "archived" => Committed
  /\ pc \in Forward \cup {"open"} => ~GaveUp
  /\ pc = "decide" => mem.failed = log.failed /\ mem.comp = log.comp

\* The inductive invariant.
IInv == TypeOK /\ AtOp /\ JournalAt /\ Decided

\* A step takes neither decision back, and commits before it archives.
NoWayBack ==
  /\ Committed => Committed'
  /\ Aborted => Aborted'
  /\ Settled => Settled'
  /\ Committed' => Committed \/ pc' = "archive"

\* Every step keeps the invariant and takes no decision back.
LEMMA StepDecides ==
  ASSUME "committed" \notin Faults, IInv, [Next]_vars
  PROVE  JournalAt' /\ Decided' /\ NoWayBack
<1> DEFINE Goal == JournalAt' /\ Decided' /\ NoWayBack
<1> USE DEF IInv, JournalAt, Decided, NoWayBack, Committed, Aborted, Settled,
            GaveUp, Forward, Goto, Fault, logs, outcome, files, Done
<1>1. CASE Open
  <2>1. GotoNext(0, mem)
    BY <1>1 DEF Open
  <2>2. pc' \in {"commit", "apply"}
    BY <2>1, GotoNextTyped, Zenon
  <2> QED
    BY <1>1, <2>2 DEF Open
<1>2. CASE OpenFails
  BY <1>2 DEF OpenFails
<1>3. CASE Begin
  <2>1. cur \in Idx /\ Captured \in Content /\ Missing(cur) \in SUBSET Path
    BY <1>3, OpsTyped, PathAssumption
       DEF Begin, AtOp, Applying, Captured, TypeOK, at, op, Op, Missing, Content
  <2>2. log' \in {log, WithBegin(log, cur, Captured, Missing(cur))}
    BY <1>3 DEF Begin, Log, LogThrows
  <2>3. log'.failed = log.failed /\ log'.comp = log.comp
    <3>1. log \in Progress
      BY DEF TypeOK
    <3>2. LET q == WithBegin(log, cur, Captured, Missing(cur)) IN
            q.failed = log.failed /\ q.comp = log.comp
      BY <2>1, <3>1, ProgressTyped
    <3> QED
      BY <2>2, <3>2
  <2>4. pc' \in {"stage", "retry", "effect", "failed"}
    BY <1>3 DEF Begin
  <2> QED
    BY <1>3, <2>3, <2>4 DEF Begin
<1>4. CASE Resume
  BY <1>4 DEF Resume
<1>5. CASE Refuse
  BY <1>5 DEF Refuse
<1>6. CASE Stage
  BY <1>6 DEF Stage
<1>7. CASE Apply
  <2>1. pc' \in {"sweep", "kept", "failed", "uncertain", "tolerated", "done"}
    BY <1>7 DEF Apply, AfterEffect
  <2> QED
    BY <1>7, <2>1 DEF Apply
<1>8. CASE ApplyFails
  BY <1>8 DEF ApplyFails
<1>9. CASE Sweep
  BY <1>9 DEF Sweep
<1>10. CASE Finish
  <2>1. cur \in Idx /\ cur \in Nat
    BY <1>10, OpsTyped DEF Finish, AtOp, Applying, Idx
  <2>2. log' \in {log, WithDone(log, cur, pc)}
    BY <1>10 DEF Finish, Log, LogThrows
  <2>3. log'.failed = log.failed /\ log'.comp = log.comp
    <3>1. LET q == WithDone(log, cur, pc) IN q.failed = log.failed /\ q.comp = log.comp
      BY <1>10, <2>1, ProgressTyped, Zenon DEF Finish, TypeOK
    <3> QED
      BY <2>2, <3>1
  <2>4. pc' \in {"commit", "apply", "failed"}
    <3>1. CASE GotoNext(cur, mem')
      BY <2>1, <3>1, GotoNextTyped, Zenon
    <3> QED
      BY <1>10, <3>1 DEF Finish
  <2> QED
    BY <1>10, <2>3, <2>4 DEF Finish
<1>11. CASE LogFailure
  <2>1. cur \in Idx
    BY <1>11 DEF LogFailure, AtOp, Applying
  <2>2. log' \in {log, WithFailed(log, cur)}
    BY <1>11 DEF LogFailure, Log, LogThrows
  <2>3. log'.comp = log.comp
    <3>1. WithFailed(log, cur).comp = log.comp
      BY <2>1, ProgressTyped, Zenon DEF TypeOK
    <3> QED
      BY <2>2, <3>1
  <2> QED
    BY <1>11, <2>3 DEF LogFailure
<1>12. CASE Compensate
  <2>1. log' \in {log, WithComp(log)}
    BY <1>12 DEF Compensate, Log, LogThrows
  <2>2. log.comp => log'.comp
    BY <2>1, ProgressFlags DEF TypeOK
  <2>3. pc' \in {"compensated", "undo", "down"}
    <3>1. CASE GotoUndo(Len(Ops) + 1, mem)
      BY <3>1, OpsTyped, GotoUndoTyped
    <3> QED
      BY <1>12, <3>1 DEF Compensate, End
  <2> QED
    BY <1>12, <2>2, <2>3 DEF Compensate
<1>13. CASE UndoOp \/ Restore \/ UndoFails
  <2>1. cur \in Nat /\ GotoUndo(cur, mem)
    BY <1>13, OpsTyped DEF UndoOp, Restore, UndoFails, AtOp, Idx
  <2>2. pc' \in {"compensated", "undo"}
    BY <2>1, GotoUndoTyped, Zenon
  <2>3. pc \in {"undo", "restore"} /\ UNCHANGED <<logs, outcome>>
    BY <1>13 DEF UndoOp, Restore, UndoFails
  <2> QED
    BY <2>2, <2>3
<1>14. CASE UndoRestore
  BY <1>14 DEF UndoRestore
<1>15. CASE Compensated
  <2>1. log' = log /\ pc' \in {"down", "discard"}
    BY <1>15 DEF Compensated, Log, LogThrows, End
  <2> QED
    BY <1>15, <2>1 DEF Compensated
<1>16. CASE Discard
  BY <1>16 DEF Discard
<1>17. CASE Discarded
  BY <1>17 DEF Discarded, End
<1>18. CASE Commit
  BY <1>18 DEF Commit
<1>19. CASE CommitFails
  BY <1>19 DEF CommitFails, End
<1>20. CASE Archive
  BY <1>20 DEF Archive, End
<1>21. CASE Recover
  BY <1>21 DEF Recover, TypeOK
<1>22. CASE LoadNothing
  BY <1>22 DEF LoadNothing, End
<1>23. CASE Load
  <2>1. mem'.failed = log.failed /\ mem'.comp = log.comp
    BY <1>23, ProgressFlags DEF Load, TypeOK
  <2> QED
    BY <1>23, <2>1 DEF Load
<1>24. CASE Decide
  <2>1. CASE receipt = "txn"
    BY <1>24, <2>1 DEF Decide
  <2>2. CASE receipt # "txn" /\ CanRollForward
    <3>1. mem.failed = {} /\ ~mem.comp /\ GotoNext(0, mem)
      BY <1>24, <2>2 DEF Decide, CanRollForward
    <3>2. pc' \in {"commit", "apply"}
      BY <3>1, GotoNextTyped, Zenon
    <3> QED
      BY <1>24, <2>2, <3>1, <3>2 DEF Decide
  <2>3. CASE receipt # "txn" /\ ~CanRollForward
    BY <1>24, <2>3 DEF Decide
  <2> QED
    BY <2>1, <2>2, <2>3
<1>25. CASE Crash
  BY <1>25 DEF Crash, End, Running
<1>26. CASE CrashInDiscard
  BY <1>26 DEF CrashInDiscard, End
<1>27. ASSUME NEW p \in EditPath, NEW v \in EditValue, Edit(p, v) PROVE Goal
  BY <1>27 DEF Edit
<1>28. CASE UNCHANGED vars
  BY <1>28 DEF vars
<1> QED
  BY <1>1, <1>2, <1>3, <1>4, <1>5, <1>6, <1>7, <1>8, <1>9, <1>10, <1>11, <1>12,
     <1>13, <1>14, <1>15, <1>16, <1>17, <1>18, <1>19, <1>20, <1>21, <1>22, <1>23,
     <1>24, <1>25, <1>26, <1>27, <1>28
     DEF Next, Command, Over, Execute, Reverse, Complete, Recovery

\* The invariant holds in every reachable state.
THEOREM InductiveInvariant ==
  ASSUME "committed" \notin Faults
  PROVE  Spec => []IInv
<1>1. Init => IInv
  <2>1. Init => TypeOK /\ AtOp
    BY InitTyped
  <2> QED
    BY <2>1, NoProgressTyped
       DEF Init, IInv, JournalAt, Decided, Committed, GaveUp, Forward, Done
<1>2. IInv /\ [Next]_vars => IInv'
  BY StepTyped, StepDecides DEF IInv
<1> QED
  BY <1>1, <1>2, PTL DEF Spec

\* A command that reported the failure of its plan, and whose log says that it gave
\* up, is not overruled by a later recovery.
THEOREM FailedStaysUndoneHolds ==
  ASSUME "committed" \notin Faults
  PROVE  Spec => []FailedStaysUndone
<1>1. IInv => FailedStaysUndone
  BY DEF IInv, Decided, GaveUp, FailedStaysUndone
<1> QED
  BY <1>1, InductiveInvariant, PTL

\* The journal implements AtomicTxn but for its liveness: every transaction is
\* committed or aborted once, whatever crashes, failing calls, torn log lines and
\* edits there are, and then it is over.
THEOREM DecidedOnceHolds ==
  ASSUME "committed" \notin Faults
  PROVE  Spec => DecidedOnce
<1> USE DEF Outcome, Aborted, Committed, Settled
<1>1. Init => Atomic!Init
  BY NoProgressTyped DEF Init, Atomic!Init
<1>2. IInv /\ IInv' /\ [Next]_vars => [Atomic!Next]_(Atomic!vars)
  <2> SUFFICES ASSUME IInv, IInv', [Next]_vars PROVE [Atomic!Next]_(Atomic!vars)
    OBVIOUS
  <2>1. NoWayBack
    BY StepDecides
  <2>2. Committed => ~Aborted /\ ~Aborted' /\ Committed'
    BY <2>1 DEF NoWayBack, IInv, Decided, GaveUp
  <2>3. Aborted => ~Committed /\ ~Committed' /\ Aborted'
    BY <2>1 DEF NoWayBack, IInv, Decided, GaveUp
  <2>4. Settled => Committed \/ Aborted
    BY DEF IInv, Decided
  <2>5. Settled => Settled'
    BY <2>1 DEF NoWayBack
  <2>6. Committed' => Committed \/ ~Settled'
    BY <2>1 DEF NoWayBack
  <2>7. Settled' => Committed' \/ Aborted'
    BY DEF IInv, Decided
  <2> QED
    BY <2>2, <2>3, <2>4, <2>5, <2>6, <2>7
       DEF Atomic!Next, Atomic!vars, Atomic!Decide, Atomic!Reject, Atomic!Finish
<1> QED
  BY <1>1, <1>2, InductiveInvariant, PTL DEF Spec, DecidedOnce, Atomic!Spec

-----------------------------------------------------------------------------
(* Tracing: what the log says.                                             *)

\* The begun ops on the path of j.
Touching(p, j) == {k \in Idx : FileOp(k) /\ Ops[k].path = Ops[j].path /\ IsBegun(p, k)}

\* What op j replaced goes back, op by op, to what was there or to what the user put there.
Traced(p, u, j) ==
  \E L \in SUBSET Touching(p, j) :
    /\ j \in L
    /\ \A k \in L : \/ p.pre[k] = u[Ops[j].path]
                    \/ \E i \in L : i < k /\ p.pre[k] = Result(i)

\* Ops are begun one after the other, and done after they are begun.
Ordered(p) ==
  /\ \A i, j \in Idx : i < j /\ IsBegun(p, j) => IsDone(p, i)
  /\ \A i \in Idx : IsDone(p, i) => IsBegun(p, i)

\* Begin records hold what was there, and the directories to be created.
Preimages(p, u) ==
  \A i \in Idx : IsBegun(p, i) =>
    /\ Ops[i].kind = "link" => p.pre[i] = Absent
    /\ Ops[i].kind = "remove" => p.pre[i] = Ops[i].val /\ u[Ops[i].path] # Absent
    /\ FileOp(i) => Traced(p, u, i) \/ u[Ops[i].path] \in EditValue
Created(p) ==
  \A i \in Idx : IsBegun(p, i) =>
    /\ p.missing[i] \subseteq MadeBy(i)
    /\ \A d \in MadeBy(i) : InitDisk[d] = Absent =>
         \E k \in Idx : k <= i /\ IsBegun(p, k) /\ d \in p.missing[k]
    /\ \A d \in p.missing[i] : InitDisk[d] = Dir =>
         \E k \in Idx : /\ k < i /\ IsBegun(p, k) /\ Ops[k].kind = "rmdir" /\ Ops[k].path = d
                        /\ Restorable => p.done[k] # "kept"
Records(p, u) == Ordered(p) /\ Preimages(p, u) /\ Created(p)

\* What the records of p say, those of q say.
Extends(p, q) ==
  \A i \in Idx : IsBegun(p, i) => q.pre[i] = p.pre[i] /\ q.missing[i] = p.missing[i]
Alike(p, q) == p.pre = q.pre /\ p.missing = q.missing /\ p.done = q.done

-----------------------------------------------------------------------------
(* What is on disk, and which of the first b ops explains it.              *)

FilesExplained(d, p, u, b) ==
  \A x \in Path \ (Dirs \cup Registration) :
    d[x] # u[x] =>
      \E i \in Idx : i <= b /\ FileOp(i) /\ Ops[i].path = x /\ Traced(p, u, i) /\ Result(i) = d[x]

UserOccupied(d, u, x) == \E y \in Path : ParentOf[y] = x /\ d[y] # Absent /\ d[y] = u[y]

DirsExplained(d, p, u, b) ==
  \A x \in Dirs :
    /\ d[x] \in {Dir, Absent} /\ u[x] = InitDisk[x]
    /\ InitDisk[x] = Dir /\ d[x] = Absent =>
         \E i \in Idx : i <= b /\ IsBegun(p, i) /\ Ops[i].kind = "rmdir" /\ Ops[i].path = x
    /\ InitDisk[x] = Absent /\ d[x] = Dir =>
         /\ \E i \in Idx : IsBegun(p, i) /\ x \in p.missing[i]
         /\ \/ \E i \in Idx : i <= b /\ IsBegun(p, i) /\ x \in p.missing[i]
            \/ UserOccupied(d, u, x)

HostsExplained(d, p, u) ==
  \A x \in Registration : d[x] # u[x] =>
    \E i \in Idx : IsBegun(p, i) /\ Ops[i].kind = "exec" /\ Ops[i].path = x

AsideExplained(s, t, p, b) ==
  /\ \A i \in s : /\ IsBegun(p, i)
                  /\ Ops[i].kind = "remove" \/ (Ops[i].kind = "write" /\ i <= b)
  /\ \A i \in Idx : t[i] # Absent => IsBegun(p, i) /\ Ops[i].kind = "remove"

Explained(d, s, t, p, u, b) ==
  FilesExplained(d, p, u, b) /\ DirsExplained(d, p, u, b) /\ HostsExplained(d, p, u) /\ AsideExplained(s, t, p, b)

-----------------------------------------------------------------------------
(* The invariant.                                                          *)

View == IF pc \in {"open", "down", "load"} THEN log ELSE mem

Undone == \/ journal \notin {"live", "archived"}
          \/ pc \in {"discard", "discarded"}
          \/ pc = "compensated" /\ ~troubled

Bound == IF ~Restorable THEN Len(Ops)
         ELSE IF Undone THEN 0
         ELSE IF pc \in {"undo", "restore"} /\ ~troubled THEN cur
         ELSE Len(Ops)

Working == {"stage", "effect", "retry", "sweep"} \cup Done

InStep ==
  /\ Extends(mem, log)
  /\ pc \in Forward \cup {"open", "decide"} => Alike(mem, log) /\ ~Glued
  /\ pc \in Forward \ {"commit"} =>
       ~IsDone(mem, cur) /\ \A i \in Idx : i < cur => IsDone(mem, i)
  /\ pc = "open" => \A i \in Idx : ~IsBegun(mem, i)
  /\ pc \in Working => IsBegun(mem, cur)
  /\ pc = "apply" /\ IsBegun(mem, cur) => Dynamic = << >>
  /\ pc = "stage" => op.kind = "write"
  /\ pc = "retry" => op.kind = "exec"
  /\ troubled => pc \in {"undo", "restore", "compensated"}
  /\ pc = "archive" \/ journal = "archived" => Committed

AtHand ==
  /\ pc \in {"apply", "stage", "effect"} /\ FileOp(cur) /\ IsBegun(mem, cur) => Traced(mem, user, cur)
  /\ pc = "restore" => /\ op.kind \in {"write", "remove"} /\ disk[op.path] = Result(cur)
                       /\ Traced(mem, user, cur)

KeptStays ==
  Restorable =>
    /\ pc \in {"effect", "kept"} /\ op.kind = "rmdir" => disk[op.path] = Dir
    /\ pc = "kept" => op.kind = "rmdir"
    /\ \A i \in Idx : Ops[i].kind = "rmdir" /\ "kept" \in {mem.done[i], log.done[i]} =>
         disk[Ops[i].path] = Dir

Rest == /\ InStep /\ AtHand /\ KeptStays
        /\ Records(log, user) /\ Records(mem, user)
        /\ Explained(disk, staging, trash, View, user, Bound)

UInv == TypeOK /\ AtOp /\ JournalAt /\ Rest

-----------------------------------------------------------------------------
(* Tracing ops back.                                                       *)

\* Op numbers are naturals.
LEMMA IdxNat == /\ Len(Ops) \in Nat
                /\ \A i \in Idx : i \in Nat /\ 1 <= i /\ i <= Len(Ops)
BY OpsTyped DEF Idx

\* What is traced is a file op, and begun.
LEMMA TracedBegun ==
  ASSUME NEW p, NEW u, NEW j \in Idx, Traced(p, u, j)
  PROVE  IsBegun(p, j) /\ FileOp(j)
BY DEF Traced, Touching

\* More records do not change what is traced.
LEMMA TracedGrows ==
  ASSUME NEW p, NEW q, Extends(p, q), NEW u, NEW j \in Idx, Traced(p, u, j)
  PROVE  Traced(q, u, j)
<1>1. PICK L \in SUBSET Touching(p, j) :
        /\ j \in L
        /\ \A k \in L : p.pre[k] = u[Ops[j].path] \/ \E i \in L : i < k /\ p.pre[k] = Result(i)
  BY DEF Traced
<1>2. \A k \in L : k \in Idx /\ IsBegun(p, k) /\ q.pre[k] = p.pre[k]
  BY <1>1 DEF Touching, Extends
<1>3. L \in SUBSET Touching(q, j)
  BY <1>1, <1>2 DEF Touching, IsBegun
<1>4. \A k \in L : q.pre[k] = u[Ops[j].path] \/ \E i \in L : i < k /\ q.pre[k] = Result(i)
  BY <1>1, <1>2
<1> QED BY <1>1, <1>3, <1>4 DEF Traced

\* Nor does what the user does elsewhere.
LEMMA TracedElsewhere ==
  ASSUME NEW p, NEW u, NEW v, NEW j \in Idx, v[Ops[j].path] = u[Ops[j].path], Traced(p, u, j)
  PROVE  Traced(p, v, j)
BY DEF Traced

\* One step back: what a traced op replaced was the user's, or an earlier traced op's.
LEMMA TracedBack ==
  ASSUME NEW p, NEW u, NEW j \in Idx, Traced(p, u, j)
  PROVE  \/ p.pre[j] = u[Ops[j].path]
         \/ \E i \in Idx : /\ i < j /\ Ops[i].path = Ops[j].path
                           /\ Traced(p, u, i) /\ Result(i) = p.pre[j]
<1>1. PICK L \in SUBSET Touching(p, j) :
        /\ j \in L
        /\ \A k \in L : p.pre[k] = u[Ops[j].path] \/ \E i \in L : i < k /\ p.pre[k] = Result(i)
  BY DEF Traced
<1>2. ASSUME NEW i \in L PROVE i \in Idx /\ Ops[i].path = Ops[j].path /\ Traced(p, u, i)
  <2>1. i \in Idx /\ Ops[i].path = Ops[j].path
    BY <1>1 DEF Touching
  <2>2. Touching(p, i) = Touching(p, j)
    BY <2>1 DEF Touching
  <2> QED BY <1>1, <2>1, <2>2 DEF Traced
<1> QED BY <1>1, <1>2

\* An op is traced when what it replaces is the user's, or an earlier traced op's.
LEMMA TracedNext ==
  ASSUME NEW p, NEW u, NEW j \in Idx, FileOp(j), IsBegun(p, j),
         \/ p.pre[j] = u[Ops[j].path]
         \/ \E i \in Idx : /\ i < j /\ Ops[i].path = Ops[j].path
                           /\ Traced(p, u, i) /\ Result(i) = p.pre[j]
  PROVE  Traced(p, u, j)
<1>0. j \in Touching(p, j)
  BY DEF Touching
<1>1. CASE p.pre[j] = u[Ops[j].path]
  <2>1. {j} \in SUBSET Touching(p, j) /\ j \in {j}
    BY <1>0
  <2> QED BY <1>1, <2>1 DEF Traced
<1>2. CASE \E i \in Idx : /\ i < j /\ Ops[i].path = Ops[j].path
                          /\ Traced(p, u, i) /\ Result(i) = p.pre[j]
  <2>1. PICK i \in Idx : /\ i < j /\ Ops[i].path = Ops[j].path
                         /\ Traced(p, u, i) /\ Result(i) = p.pre[j]
    BY <1>2
  <2>2. PICK L \in SUBSET Touching(p, i) :
          /\ i \in L
          /\ \A k \in L : p.pre[k] = u[Ops[i].path] \/ \E m \in L : m < k /\ p.pre[k] = Result(m)
    BY <2>1 DEF Traced
  <2>3. Touching(p, i) = Touching(p, j)
    BY <2>1 DEF Touching
  <2> DEFINE M == L \cup {j}
  <2>4. M \in SUBSET Touching(p, j) /\ j \in M
    BY <1>0, <2>2, <2>3
  <2>5. \A k \in M : p.pre[k] = u[Ops[j].path] \/ \E m \in M : m < k /\ p.pre[k] = Result(m)
    <3>1. ASSUME NEW k \in L
          PROVE  p.pre[k] = u[Ops[j].path] \/ \E m \in M : m < k /\ p.pre[k] = Result(m)
      BY <2>1, <2>2
    <3>2. i \in M /\ i < j /\ p.pre[j] = Result(i)
      BY <2>1, <2>2
    <3> QED BY <3>1, <3>2
  <2> HIDE DEF M
  <2> QED BY <2>4, <2>5 DEF Traced
<1> QED BY <1>1, <1>2

\* At the end of the trace is an op that replaced what the user had.
LEMMA TracedRoot ==
  ASSUME NEW p, NEW u, NEW j \in Idx, Traced(p, u, j)
  PROVE  \E k \in Idx : IsBegun(p, k) /\ Ops[k].path = Ops[j].path /\ p.pre[k] = u[Ops[j].path]
<1>1. PICK L \in SUBSET Touching(p, j) :
        /\ j \in L
        /\ \A k \in L : p.pre[k] = u[Ops[j].path] \/ \E i \in L : i < k /\ p.pre[k] = Result(i)
  BY DEF Traced
<1>2. L \in SUBSET Nat /\ L # {}
  BY <1>1, IdxNat DEF Touching
<1>3. PICK k \in L : \A i \in L : k <= i
  BY <1>2, LeastExists, Zenon
<1>4. p.pre[k] = u[Ops[j].path]
  <2>1. \A i \in L : ~(i < k)
    BY <1>2, <1>3
  <2> QED BY <1>1, <2>1
<1>5. k \in Idx /\ IsBegun(p, k) /\ Ops[k].path = Ops[j].path
  BY <1>1 DEF Touching
<1> QED BY <1>4, <1>5


-----------------------------------------------------------------------------
(* Records.                                                                *)

\* Where ops work: files and directories have paths of their own.
LEMMA PathsOfOps ==
  ASSUME PlanShape, NEW j \in Idx
  PROVE  /\ Ops[j].path \in Path /\ Ops[j].val \in Content /\ Ops[j].kind \in Kinds
         /\ FileOp(j) => Ops[j].path \notin Dirs \cup Registration
         /\ DirOp(j) => Ops[j].path \in Dirs
         /\ Ops[j].kind = "exec" => Ops[j].path \in Registration
         /\ MadeBy(j) \subseteq Dirs
         /\ Ops[j].kind \in {"rmdir", "exec"} => MadeBy(j) = {}
         /\ ParentOf[Ops[j].path] # Root => ParentOf[Ops[j].path] \in MadeBy(j)
<1>1. Ops[j] \in Op
  BY OpsTyped
<1>2. Ops[j].path \in Path /\ Ops[j].val \in Content /\ Ops[j].kind \in Kinds
  BY <1>1 DEF Op
<1>3. ParentOf[Ops[j].path] \in Path \cup {Root}
  BY <1>2, PathAssumption
<1>4. /\ DirOp(j) => Ops[j].path \in Dirs
      /\ ParentOf[Ops[j].path] # Root => ParentOf[Ops[j].path] \in Dirs
  BY <1>2, <1>3 DEF Dirs
<1>5. Ops[j].kind = "exec" => Ops[j].path \in Registration
  BY DEF Registration
<1>6. Ops[j].kind \in {"rmdir", "exec"} => ParentOf[Ops[j].path] = Root
  BY <1>4, <1>5 DEF PlanShape, PathsApart, DirOp
<1>7. FileOp(j) => Ops[j].path \notin Dirs \cup Registration
  BY DEF PlanShape, PathsApart
<1> QED BY <1>2, <1>4, <1>5, <1>6, <1>7 DEF MadeBy, DirOp

\* A directory has no directory and no registration in it.
LEMMA InDirs ==
  ASSUME PlanShape, NEW x \in Dirs, NEW y \in Path, ParentOf[y] = x
  PROVE  y \notin Dirs \cup Registration /\ x \in Path /\ x # Root
<1>1. x \in Path /\ x # Root
  BY PathAssumption DEF Dirs
<1> QED BY <1>1 DEF PlanShape, PathsApart

\* The empty log.
LEMMA RecordsNone ==
  ASSUME NEW u
  PROVE  Records(NoProgress, u)
<1>1. \A i \in Idx : ~IsBegun(NoProgress, i) /\ ~IsDone(NoProgress, i)
  BY DEF NoProgress, IsBegun, IsDone
<1> QED BY <1>1 DEF Records, Ordered, Preimages, Created

\* Records that differ in their flags only say the same.
LEMMA RecordsSame ==
  ASSUME NEW p, NEW q, Alike(p, q), NEW u, Records(p, u)
  PROVE  Records(q, u)
<1>1. \A i \in Idx : (IsBegun(q, i) <=> IsBegun(p, i)) /\ (IsDone(q, i) <=> IsDone(p, i))
  BY DEF Alike, IsBegun, IsDone
<1>2. \A i \in Idx : Traced(p, u, i) => Traced(q, u, i)
  <2>1. Extends(p, q)
    BY DEF Extends, Alike
  <2> QED BY <2>1, TracedGrows
<1>3. Ordered(q)
  BY <1>1 DEF Records, Ordered
<1>4. Preimages(q, u)
  BY <1>1, <1>2 DEF Records, Preimages, Alike
<1>5. Created(q)
  BY <1>1 DEF Records, Created, Alike
<1> QED BY <1>3, <1>4, <1>5 DEF Records

\* The ops begun are those before one that is not.
LEMMA BegunBefore ==
  ASSUME NEW p, Ordered(p), NEW j \in Idx, ~IsDone(p, j), NEW i \in Idx, IsBegun(p, i), i # j
  PROVE  i < j
<1>1. ~(j < i)
  BY DEF Ordered
<1> QED BY <1>1, IdxNat

\* A done record.
LEMMA RecordsDone ==
  ASSUME NEW p \in Progress, NEW u, Records(p, u), NEW j \in Idx, NEW how \in Done,
         IsBegun(p, j), ~IsDone(p, j)
  PROVE  Records(WithDone(p, j, how), u)
<1> DEFINE q == WithDone(p, j, how)
<1>1. /\ q.pre = p.pre /\ q.missing = p.missing
      /\ \A i \in Idx : q.done[i] = IF i = j THEN how ELSE p.done[i]
  BY DEF WithDone, Progress
<1> HIDE DEF q
<1>2. \A i \in Idx : (IsBegun(q, i) <=> IsBegun(p, i)) /\ (IsDone(p, i) => IsDone(q, i))
                     /\ (IsDone(q, i) => IsDone(p, i) \/ i = j)
  BY <1>1 DEF IsBegun, IsDone, Done, None
<1>3. \A i \in Idx : Traced(p, u, i) => Traced(q, u, i)
  <2>1. Extends(p, q)
    BY <1>1 DEF Extends
  <2> QED BY <2>1, TracedGrows
<1>4. Ordered(q)
  BY <1>2 DEF Records, Ordered
<1>5. Preimages(q, u)
  BY <1>1, <1>2, <1>3 DEF Records, Preimages
<1>6. Created(q)
  <2> SUFFICES ASSUME NEW i \in Idx, IsBegun(p, i), NEW d \in p.missing[i], InitDisk[d] = Dir
               PROVE  \E k \in Idx : /\ k < i /\ IsBegun(p, k) /\ Ops[k].kind = "rmdir" /\ Ops[k].path = d
                                     /\ Restorable => q.done[k] # "kept"
    BY <1>1, <1>2 DEF Records, Created
  <2>1. PICK k \in Idx : /\ k < i /\ IsBegun(p, k) /\ Ops[k].kind = "rmdir" /\ Ops[k].path = d
                         /\ Restorable => p.done[k] # "kept"
    BY DEF Records, Created
  <2>2. IsDone(p, k)
    BY <2>1 DEF Records, Ordered
  <2> QED BY <1>1, <2>1, <2>2
<1> QED BY <1>4, <1>5, <1>6 DEF Records, q


\* What is on disk where a begun op left something is traced to that op.
LEMMA AtResult ==
  ASSUME PlanShape, NEW p, NEW u, NEW d, NEW b, FilesExplained(d, p, u, b), Preimages(p, u),
         NEW j \in Idx, FileOp(j), IsBegun(p, j), d[Ops[j].path] = Result(j)
  PROVE  Traced(p, u, j)
<1>1. CASE u[Ops[j].path] \in EditValue
  <2>1. Result(j) \notin EditValue
    <3>1. Absent \notin EditValue
      BY PathAssumption DEF PlanShape, ContentsApart
    <3> QED BY <3>1 DEF Result, PlanShape, OpsTakeContents
  <2>2. d[Ops[j].path] # u[Ops[j].path]
    BY <1>1, <2>1
  <2>3. PICK i \in Idx : FileOp(i) /\ Ops[i].path = Ops[j].path /\ Traced(p, u, i) /\ Result(i) = Result(j)
    BY <2>2, PathsOfOps DEF FilesExplained
  <2>4. i = j
    BY <2>3 DEF PlanShape, ResultsDiffer
  <2> QED BY <2>3, <2>4
<1> QED BY <1>1 DEF Preimages

\* Only a removal comes first on a path: what is on disk before it is the user's.
LEMMA BeforeRemoval ==
  ASSUME PlanShape, NEW p, NEW u, NEW d, NEW b \in Nat, FilesExplained(d, p, u, b),
         NEW j \in Idx, Ops[j].kind = "remove",
         \A i \in Idx : IsBegun(p, i) /\ i <= b /\ i # j => i < j,
         b < j \/ ~IsBegun(p, j)
  PROVE  d[Ops[j].path] = u[Ops[j].path]
<1> SUFFICES ASSUME d[Ops[j].path] # u[Ops[j].path] PROVE FALSE
  OBVIOUS
<1>1. FileOp(j)
  BY DEF FileOp
<1>2. PICK i \in Idx : i <= b /\ FileOp(i) /\ Ops[i].path = Ops[j].path /\ Traced(p, u, i)
  BY <1>1, PathsOfOps DEF FilesExplained
<1>3. IsBegun(p, i)
  BY <1>2, TracedBegun
<1>4. i # j
  BY <1>2, <1>3, IdxNat
<1>5. i < j
  BY <1>2, <1>3, <1>4
<1>6. j < i
  BY <1>1, <1>2, <1>4 DEF PlanShape, ResultsDiffer
<1> QED BY <1>5, <1>6, IdxNat

\* A begin record: what it holds is what is on disk.
LEMMA RecordsBegin ==
  ASSUME PlanShape, NEW p, NEW q, Extends(p, q), NEW u, NEW d, NEW b \in Nat, NEW j \in Idx,
         Records(p, u), FilesExplained(d, p, u, b), DirsExplained(d, p, u, b),
         ~IsBegun(p, j), \A i \in Idx : i < j => IsDone(p, i),
         q.done = p.done, IsBegun(q, j), \A i \in Idx : IsBegun(q, i) => i = j \/ IsBegun(p, i),
         FileOp(j) => q.pre[j] = d[Ops[j].path],
         Ops[j].kind = "link" => d[Ops[j].path] = Absent,
         Ops[j].kind = "remove" => d[Ops[j].path] = Ops[j].val,
         q.missing[j] = {x \in MadeBy(j) : d[x] = Absent},
         Restorable => \A i \in Idx : Ops[i].kind = "rmdir" /\ p.done[i] = "kept" => d[Ops[i].path] = Dir
  PROVE  Records(q, u) /\ (FileOp(j) => Traced(q, u, j))
<1>1. \A i \in Idx : IsBegun(p, i) => i < j
  <2>1. ~IsDone(p, j)
    BY DEF Records, Ordered
  <2> QED BY <2>1, BegunBefore DEF Records
<1>2. \A i \in Idx : (IsBegun(p, i) => IsBegun(q, i)) /\ (IsDone(q, i) <=> IsDone(p, i))
  BY DEF Extends, IsBegun, IsDone
<1>3. \A i \in Idx : Traced(p, u, i) => Traced(q, u, i)
  BY TracedGrows
<1>4. Ordered(q)
  BY <1>1, <1>2, IdxNat DEF Records, Ordered
<1>5. ASSUME FileOp(j) PROVE Traced(q, u, j)
  <2>1. CASE d[Ops[j].path] = u[Ops[j].path]
    BY <1>5, <2>1, TracedNext
  <2>2. CASE d[Ops[j].path] # u[Ops[j].path]
    <3>1. PICK i \in Idx : FileOp(i) /\ Ops[i].path = Ops[j].path /\ Traced(p, u, i)
                           /\ Result(i) = d[Ops[j].path]
      BY <1>5, <2>2, PathsOfOps DEF FilesExplained
    <3>2. i < j
      BY <1>1, <3>1, TracedBegun
    <3>3. Traced(q, u, i)
      BY <1>3, <3>1
    <3> QED BY <1>5, <3>1, <3>2, <3>3, TracedNext
  <2> QED BY <2>1, <2>2
<1>6. Preimages(q, u)
  <2>1. ASSUME Ops[j].kind = "remove" PROVE u[Ops[j].path] # Absent
    <3>1. d[Ops[j].path] = u[Ops[j].path]
      BY <1>1, <2>1, BeforeRemoval
    <3> QED BY <2>1, <3>1 DEF PlanShape, OpsTakeContents, ContentsApart
  <2>2. ASSUME NEW i \in Idx, IsBegun(p, i)
        PROVE  /\ Ops[i].kind = "link" => q.pre[i] = Absent
               /\ Ops[i].kind = "remove" => q.pre[i] = Ops[i].val /\ u[Ops[i].path] # Absent
               /\ FileOp(i) => Traced(q, u, i) \/ u[Ops[i].path] \in EditValue
    BY <1>3, <2>2 DEF Records, Preimages, Extends
  <2>3. /\ Ops[j].kind = "link" => q.pre[j] = Absent
        /\ Ops[j].kind = "remove" => q.pre[j] = Ops[j].val /\ u[Ops[j].path] # Absent
    BY <2>1 DEF FileOp
  <2> QED BY <1>5, <2>2, <2>3 DEF Preimages
<1>7. Created(q)
  <2>1. ASSUME NEW i \in Idx, IsBegun(p, i)
        PROVE  /\ q.missing[i] \subseteq MadeBy(i)
               /\ \A x \in MadeBy(i) : InitDisk[x] = Absent =>
                    \E k \in Idx : k <= i /\ IsBegun(q, k) /\ x \in q.missing[k]
               /\ \A x \in q.missing[i] : InitDisk[x] = Dir =>
                    \E k \in Idx : /\ k < i /\ IsBegun(q, k) /\ Ops[k].kind = "rmdir" /\ Ops[k].path = x
                                   /\ Restorable => q.done[k] # "kept"
    BY <1>2, <2>1 DEF Records, Created, Extends
  <2>2. ASSUME NEW x \in MadeBy(j), InitDisk[x] = Absent
        PROVE  \E k \in Idx : k <= j /\ IsBegun(q, k) /\ x \in q.missing[k]
    <3>1. CASE d[x] = Absent
      BY <2>2, <3>1, IdxNat
    <3>2. CASE d[x] # Absent
      <4>1. d[x] = Dir
        BY <3>2, PathsOfOps DEF DirsExplained
      <4>2. PICK k \in Idx : IsBegun(p, k) /\ x \in p.missing[k]
        BY <2>2, <4>1, PathsOfOps DEF DirsExplained
      <4>3. k <= j /\ IsBegun(q, k) /\ x \in q.missing[k]
        BY <1>1, <1>2, <4>2, IdxNat DEF Extends
      <4> QED BY <4>3
    <3> QED BY <3>1, <3>2
  <2>3. ASSUME NEW x \in q.missing[j], InitDisk[x] = Dir
        PROVE  \E k \in Idx : /\ k < j /\ IsBegun(q, k) /\ Ops[k].kind = "rmdir" /\ Ops[k].path = x
                              /\ Restorable => q.done[k] # "kept"
    <3>1. x \in Dirs /\ d[x] = Absent /\ Absent # Dir
      BY PathsOfOps DEF Absent, Dir
    <3>2. PICK k \in Idx : IsBegun(p, k) /\ Ops[k].kind = "rmdir" /\ Ops[k].path = x
      BY <2>3, <3>1 DEF DirsExplained
    <3>3. Restorable => q.done[k] # "kept"
      BY <3>1, <3>2
    <3>4. k < j /\ IsBegun(q, k)
      BY <1>1, <1>2, <3>2
    <3> QED BY <3>2, <3>3, <3>4
  <2> QED BY <2>1, <2>2, <2>3 DEF Created
<1> QED BY <1>4, <1>5, <1>6, <1>7 DEF Records

\* An edit of the user.
LEMMA RecordsEdit ==
  ASSUME PlanShape, NEW p, NEW u, NEW v, NEW x \in EditPath,
         \A y \in Path : y # x => v[y] = u[y], v[x] \in EditValue, Records(p, u)
  PROVE  Records(p, v)
<1>1. ASSUME NEW i \in Idx, Ops[i].path # x
      PROVE  v[Ops[i].path] = u[Ops[i].path] /\ (Traced(p, u, i) => Traced(p, v, i))
  BY <1>1, PathsOfOps, TracedElsewhere
<1>2. v[x] # Absent
  BY PathAssumption DEF PlanShape, ContentsApart
<1>3. Preimages(p, v)
  BY <1>1, <1>2 DEF Records, Preimages
<1> QED BY <1>3 DEF Records


-----------------------------------------------------------------------------
(* Explanations.                                                           *)

\* More records, and a bound below which there are the same ops or more.
LEMMA StillExplained ==
  ASSUME NEW p, NEW q, Extends(p, q), NEW b \in Nat, NEW c \in Nat,
         \A i \in Idx : IsBegun(p, i) /\ i <= b => i <= c,
         NEW u, NEW d, NEW s \in SUBSET Idx, NEW t, Explained(d, s, t, p, u, b)
  PROVE  Explained(d, s, t, q, u, c)
<1>1. \A i \in Idx : IsBegun(p, i) => IsBegun(q, i) /\ p.missing[i] = q.missing[i] /\ (i <= b => i <= c)
  BY DEF Extends, IsBegun
<1>2. \A i \in Idx : Traced(p, u, i) => Traced(q, u, i) /\ (i <= b => i <= c)
  BY TracedGrows, TracedBegun
<1>3. FilesExplained(d, q, u, c)
  <2> SUFFICES ASSUME NEW x \in Path \ (Dirs \cup Registration), d[x] # u[x]
               PROVE  \E i \in Idx : i <= c /\ FileOp(i) /\ Ops[i].path = x /\ Traced(q, u, i) /\ Result(i) = d[x]
    BY DEF FilesExplained
  <2>1. PICK i \in Idx : i <= b /\ FileOp(i) /\ Ops[i].path = x /\ Traced(p, u, i) /\ Result(i) = d[x]
    BY DEF Explained, FilesExplained
  <2> QED BY <1>2, <2>1
<1>4. DirsExplained(d, q, u, c)
  <2> SUFFICES ASSUME NEW x \in Dirs
               PROVE  /\ d[x] \in {Dir, Absent} /\ u[x] = InitDisk[x]
                      /\ InitDisk[x] = Dir /\ d[x] = Absent =>
                           \E i \in Idx : i <= c /\ IsBegun(q, i) /\ Ops[i].kind = "rmdir" /\ Ops[i].path = x
                      /\ InitDisk[x] = Absent /\ d[x] = Dir =>
                           /\ \E i \in Idx : IsBegun(q, i) /\ x \in q.missing[i]
                           /\ \/ \E i \in Idx : i <= c /\ IsBegun(q, i) /\ x \in q.missing[i]
                              \/ UserOccupied(d, u, x)
    BY DEF DirsExplained
  <2>1. DirsExplained(d, p, u, b)
    BY DEF Explained
  <2> QED BY <1>1, <2>1 DEF DirsExplained
<1>5. HostsExplained(d, q, u)
  BY <1>1 DEF Explained, HostsExplained
<1>6. AsideExplained(s, t, q, c)
  BY <1>1 DEF Explained, AsideExplained
<1> QED BY <1>3, <1>4, <1>5, <1>6 DEF Explained

\* An op leaves its result.
LEMMA FilesPut ==
  ASSUME PlanShape, NEW p, NEW u, NEW b, NEW d, FilesExplained(d, p, u, b),
         NEW j \in Idx, j <= b, NEW e,
         \A y \in Path \ (Dirs \cup Registration) : y # Ops[j].path => e[y] = d[y],
         FileOp(j) => \/ Traced(p, u, j) /\ e[Ops[j].path] = Result(j)
                      \/ e[Ops[j].path] = d[Ops[j].path]
  PROVE  FilesExplained(e, p, u, b)
<1> SUFFICES ASSUME NEW x \in Path \ (Dirs \cup Registration), e[x] # u[x]
             PROVE  \E i \in Idx : i <= b /\ FileOp(i) /\ Ops[i].path = x /\ Traced(p, u, i) /\ Result(i) = e[x]
  BY DEF FilesExplained
<1>1. CASE e[x] = d[x]
  BY <1>1 DEF FilesExplained
<1>2. CASE e[x] # d[x]
  <2>1. x = Ops[j].path
    BY <1>2
  <2>2. FileOp(j)
    BY <2>1, PathsOfOps DEF FileOp, DirOp, Kinds
  <2> QED BY <1>2, <2>1, <2>2
<1> QED BY <1>1, <1>2

\* The ops that are left to undo after j.
Left(p, j, b, c) == \A i \in Idx : IsBegun(p, i) /\ (i < j \/ (i <= b /\ i # j)) => i <= c

\* An op is undone: what it left gives way to what it replaced, and what is not its
\* result stays.
LEMMA FilesUndone ==
  ASSUME PlanShape, NEW p, NEW u, NEW b, NEW d, FilesExplained(d, p, u, b), Preimages(p, u),
         NEW j \in Idx, IsBegun(p, j), NEW c, Left(p, j, b, c), NEW e,
         \A y \in Path \ (Dirs \cup Registration) : y # Ops[j].path => e[y] = d[y],
         FileOp(j) => e[Ops[j].path] = IF d[Ops[j].path] = Result(j) THEN p.pre[j] ELSE d[Ops[j].path]
  PROVE  FilesExplained(e, p, u, c)
<1> SUFFICES ASSUME NEW x \in Path \ (Dirs \cup Registration), e[x] # u[x]
             PROVE  \E i \in Idx : i <= c /\ FileOp(i) /\ Ops[i].path = x /\ Traced(p, u, i) /\ Result(i) = e[x]
  BY DEF FilesExplained
<1>1. CASE FileOp(j) /\ x = Ops[j].path /\ d[x] = Result(j)
  <2>1. Traced(p, u, j) /\ e[x] = p.pre[j]
    BY <1>1, AtResult
  <2>2. PICK i \in Idx : i < j /\ Ops[i].path = x /\ Traced(p, u, i) /\ Result(i) = e[x]
    BY <1>1, <2>1, TracedBack
  <2>3. IsBegun(p, i) /\ FileOp(i)
    BY <2>2, TracedBegun
  <2> QED BY <2>2, <2>3 DEF Left
<1>2. CASE ~(FileOp(j) /\ x = Ops[j].path /\ d[x] = Result(j))
  <2>1. e[x] = d[x]
    <3>1. x = Ops[j].path => FileOp(j)
      BY PathsOfOps DEF FileOp, DirOp, Kinds
    <3> QED BY <1>2, <3>1
  <2>2. PICK i \in Idx : i <= b /\ FileOp(i) /\ Ops[i].path = x /\ Traced(p, u, i) /\ Result(i) = d[x]
    BY <2>1 DEF FilesExplained
  <2>3. i # j
    BY <1>2, <2>2
  <2>4. IsBegun(p, i)
    BY <2>2, TracedBegun
  <2> QED BY <2>1, <2>2, <2>3, <2>4 DEF Left
<1> QED BY <1>1, <1>2

\* What a command has in a directory that was not there explains the directory, or it
\* is the user's.
LEMMA WhyOccupied ==
  ASSUME PlanShape, NEW p, NEW u, NEW e, NEW s, NEW t, NEW c \in Nat, Records(p, u),
         FilesExplained(e, p, u, c), AsideExplained(s, t, p, c), s \subseteq Idx,
         NEW x \in Dirs, InitDisk[x] = Absent,
         \/ \E y \in Path : ParentOf[y] = x /\ e[y] # Absent
         \/ \E i \in Idx : ParentOf[Ops[i].path] = x /\ (i \in s \/ t[i] # Absent)
  PROVE  \/ \E k \in Idx : k <= c /\ IsBegun(p, k) /\ x \in p.missing[k]
         \/ UserOccupied(e, u, x)
<1>1. ASSUME NEW i \in Idx, IsBegun(p, i), ParentOf[Ops[i].path] = x, i <= c
      PROVE  \E k \in Idx : k <= c /\ IsBegun(p, k) /\ x \in p.missing[k]
  <2>1. x \in MadeBy(i)
    BY <1>1, PathsOfOps, InDirs
  <2>2. PICK k \in Idx : k <= i /\ IsBegun(p, k) /\ x \in p.missing[k]
    BY <1>1, <2>1 DEF Records, Created
  <2> QED BY <1>1, <2>2, IdxNat
<1>2. ASSUME NEW y \in Path, ParentOf[y] = x, e[y] # Absent
      PROVE  \/ \E k \in Idx : k <= c /\ IsBegun(p, k) /\ x \in p.missing[k]
             \/ UserOccupied(e, u, x)
  <2>1. CASE e[y] = u[y]
    BY <1>2, <2>1 DEF UserOccupied
  <2>2. CASE e[y] # u[y]
    <3>1. PICK i \in Idx : i <= c /\ Ops[i].path = y /\ Traced(p, u, i)
      BY <1>2, <2>2, InDirs DEF FilesExplained
    <3> QED BY <1>1, <1>2, <3>1, TracedBegun
  <2> QED BY <2>1, <2>2
<1>3. ASSUME NEW i \in Idx, ParentOf[Ops[i].path] = x, i \in s \/ t[i] # Absent
      PROVE  \/ \E k \in Idx : k <= c /\ IsBegun(p, k) /\ x \in p.missing[k]
             \/ UserOccupied(e, u, x)
  <2>1. IsBegun(p, i) /\ (Ops[i].kind = "remove" \/ i <= c)
    BY <1>3 DEF AsideExplained
  <2>2. CASE i <= c
    BY <1>1, <1>3, <2>1, <2>2
  <2>3. CASE ~(i <= c)
    <3>1. c < i
      BY <2>3, IdxNat
    <3>2. \A k \in Idx : IsBegun(p, k) /\ k <= c /\ k # i => k < i
      BY <3>1, IdxNat
    <3>3. e[Ops[i].path] = u[Ops[i].path]
      BY <2>1, <2>3, <3>1, <3>2, BeforeRemoval
    <3>4. u[Ops[i].path] # Absent
      BY <2>1, <2>3 DEF Records, Preimages
    <3> QED BY <1>3, <3>3, <3>4, PathsOfOps DEF UserOccupied
  <2> QED BY <2>2, <2>3
<1> QED BY <1>2, <1>3

\* Directories come and go, each with an op that explains it.
LEMMA DirsMade ==
  ASSUME PlanShape, NEW p, NEW u, NEW b \in Nat, NEW d, DirsExplained(d, p, u, b), Records(p, u),
         NEW j \in Idx, IsBegun(p, j), j <= b, NEW e,
         \A x \in Dirs : e[x] = d[x] \/ (e[x] = Dir /\ x \in MadeBy(j)),
         b = Len(Ops) \/ \A y \in Path \ (Dirs \cup Registration) : e[y] = d[y]
  PROVE  DirsExplained(e, p, u, b)
<1> SUFFICES ASSUME NEW x \in Dirs
             PROVE  /\ e[x] \in {Dir, Absent} /\ u[x] = InitDisk[x]
                    /\ InitDisk[x] = Dir /\ e[x] = Absent =>
                         \E i \in Idx : i <= b /\ IsBegun(p, i) /\ Ops[i].kind = "rmdir" /\ Ops[i].path = x
                    /\ InitDisk[x] = Absent /\ e[x] = Dir =>
                         /\ \E i \in Idx : IsBegun(p, i) /\ x \in p.missing[i]
                         /\ \/ \E i \in Idx : i <= b /\ IsBegun(p, i) /\ x \in p.missing[i]
                            \/ UserOccupied(e, u, x)
  BY DEF DirsExplained
<1>1. CASE e[x] = d[x]
  <2>1. UserOccupied(d, u, x) => b = Len(Ops) \/ UserOccupied(e, u, x)
    BY InDirs DEF UserOccupied
  <2>2. b = Len(Ops) => \A i \in Idx : i <= b
    BY IdxNat
  <2> QED BY <1>1, <2>1, <2>2 DEF DirsExplained
<1>2. CASE e[x] = Dir /\ x \in MadeBy(j)
  <2>1. InitDisk[x] = Absent => \E k \in Idx : k <= b /\ IsBegun(p, k) /\ x \in p.missing[k]
    <3> SUFFICES ASSUME InitDisk[x] = Absent PROVE \E k \in Idx : k <= b /\ IsBegun(p, k) /\ x \in p.missing[k]
      OBVIOUS
    <3>1. PICK k \in Idx : k <= j /\ IsBegun(p, k) /\ x \in p.missing[k]
      BY <1>2 DEF Records, Created
    <3> QED BY <3>1, IdxNat
  <2> QED BY <1>2, <2>1 DEF DirsExplained, Dir, Absent
<1> QED BY <1>1, <1>2

\* An empty directory is removed by its op.
LEMMA DirsRemoved ==
  ASSUME PlanShape, NEW p, NEW u, NEW b \in Nat, NEW d, DirsExplained(d, p, u, b),
         NEW j \in Idx, IsBegun(p, j), j <= b, Ops[j].kind = "rmdir", NEW e,
         \A y \in Path : e[y] = d[y] \/ (y = Ops[j].path /\ e[y] = Absent)
  PROVE  DirsExplained(e, p, u, b)
<1>1. Ops[j].path \in Dirs /\ InitDisk[Ops[j].path] = Dir /\ Dir # Absent
  BY PathsOfOps DEF DirOp, PlanShape, RemovesWhatWasThere, Dir, Absent
<1>2. \A x \in Dirs : UserOccupied(d, u, x) => UserOccupied(e, u, x)
  BY <1>1, InDirs DEF UserOccupied
<1>3. \A x \in Dirs : x \in Path
  BY DEF Dirs
<1> QED BY <1>1, <1>2, <1>3 DEF DirsExplained

\* An op is undone: a directory it made goes, or it stays around what explains it; one
\* that it removed is back.
LEMMA DirsUndone ==
  ASSUME PlanShape, NEW p, NEW u, NEW b \in Nat, NEW d, DirsExplained(d, p, u, b), Records(p, u),
         NEW j \in Idx, IsBegun(p, j), NEW c \in Nat, Left(p, j, b, c),
         NEW e, NEW s, NEW t, s \subseteq Idx, FilesExplained(e, p, u, c), AsideExplained(s, t, p, c),
         \A x \in Dirs : \/ e[x] = d[x]
                         \/ e[x] = Dir /\ InitDisk[x] = Dir
                         \/ e[x] = Absent /\ x \in p.missing[j],
         \A x \in p.missing[j] : e[x] = Dir =>
            \/ \E y \in Path : ParentOf[y] = x /\ e[y] # Absent
            \/ \E i \in Idx : ParentOf[Ops[i].path] = x /\ (i \in s \/ t[i] # Absent),
         Ops[j].kind = "rmdir" /\ ~(j <= c) => e[Ops[j].path] = Dir
  PROVE  DirsExplained(e, p, u, c)
<1> SUFFICES ASSUME NEW x \in Dirs
             PROVE  /\ e[x] \in {Dir, Absent} /\ u[x] = InitDisk[x]
                    /\ InitDisk[x] = Dir /\ e[x] = Absent =>
                         \E i \in Idx : i <= c /\ IsBegun(p, i) /\ Ops[i].kind = "rmdir" /\ Ops[i].path = x
                    /\ InitDisk[x] = Absent /\ e[x] = Dir =>
                         /\ \E i \in Idx : IsBegun(p, i) /\ x \in p.missing[i]
                         /\ \/ \E i \in Idx : i <= c /\ IsBegun(p, i) /\ x \in p.missing[i]
                            \/ UserOccupied(e, u, x)
  BY DEF DirsExplained
<1>0. /\ e[x] \in {Dir, Absent} /\ d[x] \in {Dir, Absent} /\ u[x] = InitDisk[x] /\ Dir # Absent
  BY DEF DirsExplained, Dir, Absent
<1>1. ASSUME InitDisk[x] = Dir, e[x] = Absent
      PROVE  \E i \in Idx : i <= c /\ IsBegun(p, i) /\ Ops[i].kind = "rmdir" /\ Ops[i].path = x
  <2>1. CASE d[x] = Absent
    <3>1. PICK i \in Idx : i <= b /\ IsBegun(p, i) /\ Ops[i].kind = "rmdir" /\ Ops[i].path = x
      BY <1>1, <2>1 DEF DirsExplained
    <3>2. i <= c
      BY <1>0, <1>1, <3>1 DEF Left
    <3> QED BY <3>1, <3>2
  <2>2. CASE d[x] # Absent
    <3>1. x \in p.missing[j]
      BY <1>0, <1>1, <2>2
    <3>2. PICK k \in Idx : k < j /\ IsBegun(p, k) /\ Ops[k].kind = "rmdir" /\ Ops[k].path = x
      BY <1>1, <3>1 DEF Records, Created
    <3> QED BY <3>2 DEF Left
  <2> QED BY <2>1, <2>2
<1>2. ASSUME InitDisk[x] = Absent, e[x] = Dir
      PROVE  /\ \E i \in Idx : IsBegun(p, i) /\ x \in p.missing[i]
             /\ \/ \E i \in Idx : i <= c /\ IsBegun(p, i) /\ x \in p.missing[i]
                \/ UserOccupied(e, u, x)
  <2>1. d[x] = Dir
    BY <1>0, <1>2
  <2>2. CASE x \in p.missing[j]
    <3>1. \/ \E i \in Idx : i <= c /\ IsBegun(p, i) /\ x \in p.missing[i]
          \/ UserOccupied(e, u, x)
      BY <1>2, <2>2, WhyOccupied
    <3> QED BY <2>2, <3>1
  <2>3. CASE x \notin p.missing[j] /\ \E i \in Idx : i <= b /\ IsBegun(p, i) /\ x \in p.missing[i]
    <3>1. PICK i \in Idx : i <= b /\ IsBegun(p, i) /\ x \in p.missing[i]
      BY <2>3
    <3>2. i <= c
      BY <2>3, <3>1 DEF Left
    <3> QED BY <3>1, <3>2
  <2>4. CASE UserOccupied(d, u, x)
    <3>1. PICK y \in Path : ParentOf[y] = x /\ d[y] # Absent /\ d[y] = u[y]
      BY <2>4 DEF UserOccupied
    <3>2. CASE e[y] = u[y]
      <4>1. UserOccupied(e, u, x)
        BY <3>1, <3>2 DEF UserOccupied
      <4>2. \E i \in Idx : IsBegun(p, i) /\ x \in p.missing[i]
        BY <1>2, <2>1 DEF DirsExplained
      <4> QED BY <4>1, <4>2
    <3>3. CASE e[y] # u[y]
      <4>1. PICK i \in Idx : i <= c /\ Ops[i].path = y /\ Traced(p, u, i)
        BY <3>1, <3>3, InDirs DEF FilesExplained
      <4>2. x \in MadeBy(i) /\ IsBegun(p, i)
        BY <3>1, <4>1, PathsOfOps, InDirs, TracedBegun
      <4>3. PICK k \in Idx : k <= i /\ IsBegun(p, k) /\ x \in p.missing[k]
        BY <1>2, <4>2 DEF Records, Created
      <4> QED BY <4>1, <4>3, IdxNat
    <3> QED BY <3>2, <3>3
  <2> QED BY <1>2, <2>1, <2>2, <2>3, <2>4 DEF DirsExplained
<1> QED BY <1>0, <1>1, <1>2


\* The user changes a path: it is the user's now.
LEMMA EditExplained ==
  ASSUME PlanShape, NEW p, NEW u, NEW v, NEW d, NEW e, NEW s, NEW t, NEW b, NEW x \in EditPath,
         \A y \in Path : y # x => e[y] = d[y] /\ v[y] = u[y], e[x] \in EditValue, v[x] = e[x],
         Explained(d, s, t, p, u, b)
  PROVE  Explained(e, s, t, p, v, b)
<1>1. x \in Path /\ x \notin Dirs \cup Registration /\ e[x] # Absent
  BY PathAssumption DEF PlanShape, PathsApart, ContentsApart
<1>2. FilesExplained(e, p, v, b)
  <2> SUFFICES ASSUME NEW y \in Path \ (Dirs \cup Registration), e[y] # v[y]
               PROVE  \E i \in Idx : i <= b /\ FileOp(i) /\ Ops[i].path = y /\ Traced(p, v, i) /\ Result(i) = e[y]
    BY DEF FilesExplained
  <2>1. y # x /\ e[y] = d[y] /\ v[y] = u[y]
    OBVIOUS
  <2>2. PICK i \in Idx : i <= b /\ FileOp(i) /\ Ops[i].path = y /\ Traced(p, u, i) /\ Result(i) = d[y]
    BY <2>1 DEF Explained, FilesExplained
  <2> QED BY <2>1, <2>2, TracedElsewhere
<1>3. DirsExplained(e, p, v, b)
  <2>1. \A y \in Dirs : y \in Path /\ e[y] = d[y] /\ v[y] = u[y]
    BY <1>1 DEF Dirs
  <2>2. \A y \in Dirs : UserOccupied(d, u, y) => UserOccupied(e, v, y)
    BY <1>1 DEF UserOccupied
  <2> QED BY <2>1, <2>2 DEF Explained, DirsExplained
<1>4. HostsExplained(e, p, v)
  <2>1. \A y \in Registration : y \in Path
    BY OpsTyped DEF Registration, Op
  <2> QED BY <1>1, <2>1 DEF Explained, HostsExplained
<1> QED BY <1>2, <1>3, <1>4 DEF Explained

-----------------------------------------------------------------------------
(* Control.                                                                *)

\* The next op is the first that is not done.
LEMMA GotoNextFirst ==
  ASSUME NEW i \in Nat, NEW m, GotoNext(i, m)
  PROVE  \/ pc' = "commit" /\ cur' = 0
         \/ /\ pc' = "apply" /\ cur' \in Idx /\ ~IsDone(m, cur')
            /\ \A j \in Idx : i < j /\ j < cur' => IsDone(m, j)
<1> DEFINE pending == {j \in Idx : j > i /\ ~IsDone(m, j)}
<1>1. CASE pending = {}
  BY <1>1 DEF GotoNext, Goto
<1>2. CASE pending # {}
  <2>1. pending \in SUBSET Nat
    BY IdxNat
  <2>2. \E j \in pending : \A k \in pending : j <= k
    BY <1>2, <2>1, LeastExists, Zenon
  <2>3. cur' = CHOOSE j \in pending : \A k \in pending : j <= k
    BY <1>2 DEF GotoNext
  <2>4. cur' \in pending /\ \A k \in pending : cur' <= k
    BY <2>2, <2>3, Zenon
  <2>5. \A j \in Idx : i < j /\ j < cur' => IsDone(m, j)
    BY <2>1, <2>4, IdxNat
  <2> QED BY <1>2, <2>4, <2>5 DEF GotoNext, Goto
<1> QED BY <1>1, <1>2

\* The op to be undone next is the last begun one.
LEMMA GotoUndoLast ==
  ASSUME NEW i \in Nat, NEW m, GotoUndo(i, m)
  PROVE  \/ pc' = "compensated" /\ cur' = 0 /\ \A j \in Idx : j < i => ~IsBegun(m, j)
         \/ /\ pc' = "undo" /\ cur' \in Idx /\ IsBegun(m, cur') /\ cur' < i
            /\ \A j \in Idx : j < i /\ IsBegun(m, j) => j <= cur'
<1> DEFINE begun == {j \in Idx : j < i /\ IsBegun(m, j)}
<1>1. CASE begun = {}
  BY <1>1 DEF GotoUndo, Goto
<1>2. CASE begun # {}
  <2>1. begun \in SUBSET (0..Len(Ops))
    BY IdxNat
  <2>2. \E j \in begun : \A k \in begun : j >= k
    BY <1>2, <2>1, OpsTyped, GreatestExists, Zenon
  <2>3. cur' = CHOOSE j \in begun : \A k \in begun : j >= k
    BY <1>2 DEF GotoUndo
  <2>4. cur' \in begun /\ \A k \in begun : cur' >= k
    BY <2>2, <2>3, Zenon
  <2>5. \A j \in Idx : j < i /\ IsBegun(m, j) => j <= cur'
    BY <2>1, <2>4, IdxNat
  <2> QED BY <1>2, <2>4, <2>5 DEF GotoUndo, Goto
<1> QED BY <1>1, <1>2

\* Bounds are naturals.
LEMMA BoundTyped ==
  ASSUME TypeOK
  PROVE  Bound \in Nat /\ (Bound = 0 \/ Bound = cur \/ Bound = Len(Ops))
BY OpsTyped DEF Bound, TypeOK


\* Where the journal is.
LEMMA StepJournalAt ==
  ASSUME TypeOK, AtOp, JournalAt, [Next]_vars
  PROVE  JournalAt'
<1> USE DEF JournalAt, Goto, logs, outcome, files
<1>1. CASE Open
  <2>1. pc' \in {"commit", "apply"}
    <3>1. GotoNext(0, mem)
      BY <1>1 DEF Open
    <3> QED BY <3>1, GotoNextTyped, Zenon
  <2> QED BY <1>1, <2>1 DEF Open
<1>2. CASE Begin \/ Resume \/ Refuse \/ Stage \/ Apply \/ ApplyFails \/ Sweep \/ LogFailure
  <2>1. /\ pc' \in Applying \cup {"compensate"} /\ journal' = journal
        /\ pc \in {"apply", "stage", "effect", "retry", "sweep", "failed"}
    BY <1>2 DEF Begin, Resume, Refuse, Stage, Apply, ApplyFails, Sweep, LogFailure, AfterEffect, Applying, Done
  <2> QED BY <2>1 DEF Applying, Done
<1>3. CASE Finish
  <2>1. pc' \in {"commit", "apply", "failed"}
    <3>1. cur \in Nat
      BY <1>3, IdxNat DEF Finish, AtOp, Applying
    <3>2. CASE GotoNext(cur, mem')
      BY <3>1, <3>2, GotoNextTyped, Zenon
    <3> QED BY <1>3, <3>2 DEF Finish
  <2> QED BY <1>3, <2>1 DEF Finish, Done
<1>4. CASE Compensate
  <2>1. pc' \in {"compensated", "undo", "down"}
    <3>1. CASE GotoUndo(Len(Ops) + 1, mem)
      BY <3>1, OpsTyped, GotoUndoTyped
    <3> QED BY <1>4, <3>1 DEF Compensate, End
  <2> QED BY <1>4, <2>1 DEF Compensate
<1>5. CASE UndoOp \/ Restore \/ UndoFails
  <2>1. cur \in Nat /\ GotoUndo(cur, mem)
    BY <1>5, OpsTyped DEF UndoOp, Restore, UndoFails, AtOp, Idx
  <2>2. pc' \in {"compensated", "undo"}
    BY <2>1, GotoUndoTyped, Zenon
  <2>3. pc \in {"undo", "restore"} /\ journal' = journal
    BY <1>5 DEF UndoOp, Restore, UndoFails
  <2> QED BY <2>2, <2>3
<1>6. CASE UndoRestore \/ Compensated \/ Discard
  BY <1>6 DEF UndoRestore, Compensated, Discard, End
<1>7. CASE Commit \/ CommitFails \/ Archive
  BY <1>7 DEF Commit, CommitFails, Archive, End
<1>8. CASE Recover \/ LoadNothing \/ Load
  BY <1>8 DEF Recover, LoadNothing, Load, End, TypeOK
<1>9. CASE Decide
  <2>1. pc' \in {"archive", "compensate", "commit", "apply"}
    <3>1. CASE GotoNext(0, mem)
      BY <3>1, GotoNextTyped, Zenon
    <3> QED BY <1>9, <3>1 DEF Decide
  <2> QED BY <1>9, <2>1 DEF Decide
<1>10. CASE OpenFails \/ Discarded \/ Crash \/ CrashInDiscard
  BY <1>10 DEF OpenFails, Discarded, Crash, CrashInDiscard, End
<1>11. ASSUME NEW p \in EditPath, NEW v \in EditValue, Edit(p, v) PROVE JournalAt'
  BY <1>11 DEF Edit
<1>12. CASE UNCHANGED vars
  BY <1>12 DEF vars
<1> QED
  BY <1>1, <1>2, <1>3, <1>4, <1>5, <1>6, <1>7, <1>8, <1>9, <1>10, <1>11, <1>12
     DEF Next, Command, Over, Execute, Reverse, Complete, Recovery

\* When a step leaves the files alone, what explained them still does.
LEMMA QuietExplained ==
  ASSUME UInv, TypeOK', UNCHANGED <<disk, staging, user>>,
         \A i \in Idx : trash'[i] # Absent => trash[i] # Absent,
         Extends(View, View'), \A i \in Idx : IsBegun(View, i) /\ i <= Bound => i <= Bound'
  PROVE  Explained(disk, staging, trash, View, user, Bound)'
<1>1. Bound \in Nat /\ staging \in SUBSET Idx
  BY BoundTyped DEF UInv, TypeOK
<1>2. Bound' \in Nat
  BY OpsTyped DEF Bound, TypeOK
<1>3. Explained(disk, staging, trash, View, user, Bound)
  BY DEF UInv, Rest
<1>4. Explained(disk, staging, trash', View, user, Bound)
  BY <1>3 DEF Explained, AsideExplained
<1>5. Explained(disk, staging, trash', View', user, Bound')
  BY <1>1, <1>2, <1>4, StillExplained
<1> QED BY <1>5

\* A record that is tracked or not: what an append leaves in the log and in memory.
LEMMA Appended ==
  ASSUME NEW newLog, NEW newMem \in Progress, mem \in Progress
  PROVE  /\ Log(newLog, newMem) =>
              /\ log' \in {log, newLog} /\ Alike(newMem, mem') /\ ~Glued' /\ (~Glued => log' = newLog)
         /\ LogThrows(newLog) => log' \in {log, newLog}
         /\ Untracked => Alike(mem, mem')
<1>1. \A p \in Progress, b \in BOOLEAN : Alike(p, [p EXCEPT !.mend = b])
  BY DEF Progress, Alike
<1>2. Log(newLog, newMem) => tail' # "torn"
  BY DEF Log, TailAfter
<1> QED BY <1>1, <1>2 DEF Log, LogThrows, Untracked, Glued

\* Alike is being the same as far as the ops go.
LEMMA AlikeSame ==
  ASSUME NEW p, NEW q, Alike(p, q)
  PROVE  /\ Extends(p, q) /\ Extends(q, p) /\ Alike(q, p)
         /\ \A i \in Idx : (IsBegun(p, i) <=> IsBegun(q, i)) /\ (IsDone(p, i) <=> IsDone(q, i))
         /\ \A u : \A i \in Idx : Traced(p, u, i) => Traced(q, u, i)
<1>1. Extends(p, q) /\ Extends(q, p) /\ Alike(q, p)
  BY DEF Alike, Extends
<1>2. \A i \in Idx : (IsBegun(p, i) <=> IsBegun(q, i)) /\ (IsDone(p, i) <=> IsDone(q, i))
  BY DEF Alike, IsBegun, IsDone
<1>3. \A u : \A i \in Idx : Traced(p, u, i) => Traced(q, u, i)
  BY <1>1, TracedGrows
<1> QED BY <1>1, <1>2, <1>3

-----------------------------------------------------------------------------
(* Steps that leave the files alone.                                       *)

\* No op is left out of the bound.
LEMMA BoundKept ==
  ASSUME UInv, Undone' => Undone, pc' \notin {"undo", "restore"} \/ troubled'
  PROVE  \A i \in Idx : i <= Bound => i <= Bound'
<1>1. CASE Bound' = Len(Ops)
  BY <1>1, IdxNat
<1>2. CASE Bound' # Len(Ops)
  <2>1. Restorable /\ Undone'
    BY <1>2 DEF Bound
  <2>2. Bound = 0
    BY <2>1 DEF Bound
  <2> QED BY <2>2, IdxNat
<1> QED BY <1>1, <1>2

\* What such a step has to keep.
LEMMA QuietRest ==
  ASSUME UInv, TypeOK', UNCHANGED <<disk, staging, user>>,
         \A i \in Idx : trash'[i] # Absent => trash[i] # Absent,
         InStep', AtHand', pc' \notin {"effect", "kept"},
         Records(log', user), Records(mem', user),
         \A i \in Idx : "kept" \in {mem'.done[i], log'.done[i]} => "kept" \in {mem.done[i], log.done[i]},
         Extends(View, View'), \A i \in Idx : IsBegun(View, i) /\ i <= Bound => i <= Bound'
  PROVE  Rest'
<1>1. Explained(disk, staging, trash, View, user, Bound)'
  BY QuietExplained
<1>2. KeptStays'
  BY DEF UInv, Rest, KeptStays
<1>3. Records(log, user)' /\ Records(mem, user)'
  OBVIOUS
<1> QED BY <1>1, <1>2, <1>3 DEF Rest

\* The command is over, and its log as it was.
LEMMA EndRest ==
  ASSUME UInv, TypeOK', NEW answer, End(answer), Alike(log, log'), UNCHANGED <<disk, staging, user>>,
         \A i \in Idx : trash'[i] # Absent => trash[i] # Absent,
         journal' = "archived" => Committed', Undone' => Undone
  PROVE  Rest'
<1>1. pc' = "down" /\ mem' = NoProgress /\ troubled' = FALSE
  BY DEF End
<1>2. \A i \in Idx : ~IsBegun(mem', i) /\ mem'.done[i] # "kept"
  BY <1>1 DEF NoProgress, IsBegun, None
<1>3. Extends(log, log')
  BY AlikeSame
<1>4. Extends(View, View')
  <2>1. Extends(mem, log')
    BY <1>3 DEF UInv, Rest, InStep, Extends, IsBegun
  <2> QED BY <1>1, <1>3, <2>1 DEF View
<1>5. InStep'
  BY <1>1, <1>2 DEF InStep, Extends, Forward, Working, Done
<1>6. AtHand'
  BY <1>1 DEF AtHand
<1>7. Records(log', user) /\ Records(mem', user)
  BY <1>1, RecordsSame, RecordsNone DEF UInv, Rest
<1>8. \A i \in Idx : i <= Bound => i <= Bound'
  BY <1>1, BoundKept
<1>9. \A i \in Idx : "kept" \in {mem'.done[i], log'.done[i]} => "kept" \in {mem.done[i], log.done[i]}
  BY <1>2 DEF Alike
<1> QED BY <1>1, <1>4, <1>5, <1>6, <1>7, <1>8, <1>9, QuietRest

\* Alike is an equivalence.
LEMMA AlikeTrans ==
  ASSUME NEW p, NEW q, NEW r, Alike(p, q), Alike(q, r)
  PROVE  Alike(p, r)
BY DEF Alike

\* A step that leaves the records alone and goes on.
LEMMA SameRecords ==
  ASSUME UInv, TypeOK', UNCHANGED <<disk, staging, user>>,
         \A i \in Idx : trash'[i] # Absent => trash[i] # Absent,
         Alike(log, log'), Alike(mem, mem'), pc \notin {"open", "down", "load"} \/ Alike(mem, log) \/ pc' = "load",
         InStep', AtHand', pc' \notin {"open", "down", "effect", "kept"}, pc' = "load" => pc = "down",
         \A i \in Idx : IsBegun(View, i) /\ i <= Bound => i <= Bound'
  PROVE  Rest'
<1>1. Extends(log, log') /\ Extends(mem, mem')
  BY AlikeSame
<1>2. Extends(View, View')
  <2>1. CASE pc' = "load"
    BY <1>1, <2>1 DEF View
  <2>2. CASE pc' # "load" /\ pc \notin {"open", "down", "load"}
    BY <1>1, <2>2 DEF View
  <2>3. CASE pc' # "load" /\ Alike(mem, log)
    <3>1. Alike(log, mem')
      BY <2>3, AlikeSame, AlikeTrans
    <3>2. Extends(log, mem')
      BY <3>1, AlikeSame
    <3> QED BY <1>1, <2>3, <3>2 DEF View
  <2> QED BY <2>1, <2>2, <2>3
<1>3. Records(log', user) /\ Records(mem', user)
  BY RecordsSame DEF UInv, Rest
<1>4. \A i \in Idx : "kept" \in {mem'.done[i], log'.done[i]} => "kept" \in {mem.done[i], log.done[i]}
  BY DEF Alike
<1> QED BY <1>2, <1>3, <1>4, QuietRest

\* Records of failure and of the decision to compensate.
LEMMA Flagged ==
  ASSUME NEW p \in Progress, NEW i
  PROVE  /\ Alike(p, WithFailed(p, i)) /\ Alike(p, WithComp(p)) /\ Alike(p, p)
         /\ \A b \in BOOLEAN : Alike(p, [p EXCEPT !.mend = b])
BY DEF Alike, WithFailed, WithComp, Progress

\* Appending one of them.
LEMMA FlagAppended ==
  ASSUME UInv, NEW newLog, NEW newMem \in Progress, Alike(log, newLog), Alike(mem, newMem),
         Log(newLog, newMem) \/ LogThrows(newLog)
  PROVE  Alike(log, log') /\ (Log(newLog, newMem) \/ Untracked => Alike(mem, mem'))
<1>1. mem \in Progress /\ log \in Progress
  BY DEF UInv, TypeOK
<1>2. Alike(log, log')
  BY <1>1, Appended, Flagged
<1>3. CASE Log(newLog, newMem)
  <2>1. Alike(newMem, mem')
    BY <1>1, <1>3, Appended
  <2> QED BY <1>2, <2>1, AlikeTrans, <1>1, Appended
<1>4. CASE Untracked
  BY <1>1, <1>2, <1>4, Appended
<1> QED BY <1>2, <1>3, <1>4

\* The failure is logged: the disk, the trash and the records of the ops stay.
LEMMA LogFailureRest ==
  ASSUME UInv, TypeOK', LogFailure
  PROVE  Rest'
<1>1. pc = "failed" /\ pc' = "compensate" /\ UNCHANGED <<disk, staging, trash, journal, receipt, cur, troubled, user>>
  BY DEF LogFailure, Goto, files, outcome
<1>2. mem \in Progress /\ log \in Progress /\ cur \in Idx
  BY <1>1 DEF UInv, TypeOK, AtOp, Applying
<1>3. WithFailed(mem, cur) \in Progress /\ Alike(log, WithFailed(log, cur)) /\ Alike(mem, WithFailed(mem, cur))
  BY <1>2, Flagged, ProgressTyped
<1>4. Alike(log, log') /\ Alike(mem, mem')
  BY <1>3, FlagAppended DEF LogFailure
<1>5. Extends(mem', log')
  BY <1>4 DEF UInv, Rest, InStep, Extends, Alike, IsBegun
<1>6. InStep'
  BY <1>1, <1>5 DEF UInv, Rest, InStep, Forward, Working, Done, Committed
<1>7. AtHand'
  BY <1>1 DEF AtHand
<1>8. \A i \in Idx : i <= Bound => i <= Bound'
  BY <1>1, BoundKept DEF Undone
<1> QED BY <1>1, <1>4, <1>6, <1>7, <1>8, SameRecords

\* The decision to undo: from here on each op counts as done only when its record says so.
LEMMA CompensateRest ==
  ASSUME UInv, TypeOK', Compensate
  PROVE  Rest'
<1>1. /\ pc = "compensate" /\ UNCHANGED <<disk, staging, trash, journal, receipt, user>>
      /\ journal = "live" /\ ~troubled
  BY DEF Compensate, files, UInv, JournalAt, Done, Rest, InStep
<1>2. mem \in Progress /\ log \in Progress
  BY DEF UInv, TypeOK
<1>3. WithComp(mem) \in Progress /\ Alike(log, WithComp(log)) /\ Alike(mem, WithComp(mem))
  BY <1>2, Flagged, ProgressFlags
<1>4. CASE End("error") /\ LogThrows(WithComp(log))
  <2>1. Alike(log, log')
    BY <1>3, <1>4, FlagAppended
  <2> QED BY <1>1, <1>4, <2>1, EndRest DEF Undone, End
<1>5. CASE /\ IF mem.comp THEN UNCHANGED <<logs, faults>> ELSE Log(WithComp(log), WithComp(mem))
           /\ GotoUndo(Len(Ops) + 1, mem) /\ UNCHANGED <<mode, troubled, reply>>
  <2>1. Alike(log, log') /\ Alike(mem, mem')
    <3>1. CASE mem.comp
      BY <1>2, <1>5, <3>1, Flagged DEF logs
    <3>2. CASE ~mem.comp
      BY <1>3, <1>5, <3>2, FlagAppended
    <3> QED BY <3>1, <3>2
  <2>2. Extends(mem', log')
    BY <2>1 DEF UInv, Rest, InStep, Extends, Alike, IsBegun
  <2>3. \/ pc' = "compensated" /\ \A j \in Idx : ~IsBegun(mem, j)
        \/ /\ pc' = "undo" /\ cur' \in Idx
           /\ \A j \in Idx : IsBegun(mem, j) => j <= cur'
    <3>1. Len(Ops) + 1 \in Nat /\ \A j \in Idx : j < Len(Ops) + 1
      BY IdxNat
    <3>2. GotoUndo(Len(Ops) + 1, mem)
      BY <1>5
    <3>3. \/ pc' = "compensated" /\ cur' = 0 /\ \A j \in Idx : j < Len(Ops) + 1 => ~IsBegun(mem, j)
          \/ /\ pc' = "undo" /\ cur' \in Idx /\ IsBegun(mem, cur') /\ cur' < Len(Ops) + 1
             /\ \A j \in Idx : j < Len(Ops) + 1 /\ IsBegun(mem, j) => j <= cur'
      BY <3>1, <3>2, GotoUndoLast
    <3> QED BY <3>1, <3>3
  <2>4. InStep'
    BY <1>1, <1>5, <2>2, <2>3 DEF UInv, Rest, InStep, Forward, Working, Done, Committed
  <2>5. AtHand'
    BY <2>3 DEF AtHand
  <2>6. View = mem
    BY <1>1 DEF View
  <2>7. \A i \in Idx : IsBegun(View, i) /\ i <= Bound => i <= Bound'
    <3>1. CASE pc' = "compensated"
      BY <2>3, <2>6, <3>1
    <3>2. CASE pc' = "undo"
      <4>1. Bound' \in {cur', Len(Ops)}
        BY <1>1, <3>2 DEF Bound, Undone
      <4> QED BY <2>3, <2>6, <3>2, <4>1, IdxNat
    <3> QED BY <2>3, <3>1, <3>2
  <2> QED BY <1>1, <2>1, <2>3, <2>4, <2>5, <2>7, SameRecords
<1> QED BY <1>4, <1>5 DEF Compensate

\* All ops are undone, and the log says so before the directory goes.
LEMMA CompensatedRest ==
  ASSUME UInv, TypeOK', Compensated
  PROVE  Rest'
<1>1. pc = "compensated" /\ UNCHANGED <<disk, staging, trash, journal, receipt, user>> /\ journal = "live"
  BY DEF Compensated, files, UInv, JournalAt, Done
<1>2. mem \in Progress /\ log \in Progress /\ Alike(log, log) /\ Alike(mem, mem)
  BY Flagged DEF UInv, TypeOK
<1>3. CASE End("error") /\ (LogThrows(log) \/ log' = log)
  <2>1. Alike(log, log')
    BY <1>2, <1>3, FlagAppended
  <2> QED BY <1>1, <1>3, <2>1, EndRest DEF Undone, End
<1>4. CASE ~troubled /\ Log(log, mem) /\ pc' = "discard" /\ UNCHANGED <<mode, cur, troubled, reply>>
  <2>1. Alike(log, log') /\ Alike(mem, mem')
    BY <1>2, <1>4, FlagAppended
  <2>2. Extends(mem', log')
    BY <2>1 DEF UInv, Rest, InStep, Extends, Alike, IsBegun
  <2>3. InStep'
    BY <1>1, <1>4, <2>2 DEF UInv, Rest, InStep, Forward, Working, Done, Committed
  <2>4. AtHand'
    BY <1>4 DEF AtHand
  <2>5. \A i \in Idx : i <= Bound => i <= Bound'
    BY <1>1, <1>4, BoundKept DEF Undone
  <2> QED BY <1>1, <1>4, <2>1, <2>3, <2>4, <2>5, SameRecords
<1> QED BY <1>3, <1>4 DEF Compensated, Goto

\* A directory is published with its intent: nothing is begun and nothing on disk has changed.
LEMMA OpenRest ==
  ASSUME UInv, TypeOK', Open
  PROVE  Rest'
<1>1. /\ pc = "open" /\ UNCHANGED <<disk, staging, trash, log, mem, tail, receipt, troubled, user>>
      /\ journal' = "live" /\ ~troubled
  BY DEF Open, files, logs, ghosts, UInv, Rest, InStep
<1>2. mem \in Progress /\ log \in Progress /\ Alike(log, log) /\ Alike(mem, mem)
  BY Flagged DEF UInv, TypeOK
<1>3. \/ pc' = "commit" /\ cur' = 0
      \/ /\ pc' = "apply" /\ cur' \in Idx /\ ~IsDone(mem, cur')
         /\ \A j \in Idx : 0 < j /\ j < cur' => IsDone(mem, j)
  BY GotoNextFirst DEF Open
<1>4. Alike(mem, log) /\ ~Glued /\ \A i \in Idx : ~IsBegun(mem, i)
  BY <1>1 DEF UInv, Rest, InStep
<1>5. ~Glued'
  BY <1>1, <1>4 DEF Glued
<1>6. \A i \in Idx : i < cur' => pc' = "commit" \/ IsDone(mem, i)
  BY <1>3, IdxNat
<1>7. InStep'
  BY <1>1, <1>3, <1>4, <1>5, <1>6 DEF UInv, Rest, InStep, Forward, Working, Done, Committed, JournalAt
<1>8. AtHand'
  BY <1>1, <1>3, <1>4 DEF AtHand
<1>9. \A i \in Idx : i <= Bound => i <= Bound'
  BY <1>1, <1>3, BoundKept DEF Undone
<1> QED BY <1>1, <1>2, <1>3, <1>4, <1>7, <1>8, <1>9, SameRecords

\* An opening that fails leaves no journal and a disk as it was.
LEMMA OpenFailsRest ==
  ASSUME UInv, TypeOK', OpenFails
  PROVE  Rest'
<1>1. /\ pc = "open" /\ UNCHANGED <<disk, staging, trash, log, mem, tail, receipt, troubled, user>>
      /\ journal' # "archived" /\ ~troubled /\ journal = "none" /\ pc' = "down"
  BY DEF OpenFails, files, logs, Goto, UInv, Rest, InStep, JournalAt
<1>2. Extends(log, log) /\ View' = View /\ View = log
  BY <1>1 DEF Extends, View
<1>3. InStep'
  BY <1>1 DEF UInv, Rest, InStep, Forward, Working, Done
<1>4. AtHand'
  BY <1>1 DEF AtHand
<1>5. \A i \in Idx : i <= Bound => i <= Bound'
  BY <1>1, BoundKept DEF Undone
<1>6. Records(log', user) /\ Records(mem', user)
  BY <1>1 DEF UInv, Rest
<1> QED BY <1>1, <1>2, <1>3, <1>4, <1>5, <1>6, QuietRest

\* A command carries on with a journal that a killed one left.
LEMMA ResumeRest ==
  ASSUME UInv, TypeOK', Resume \/ Refuse
  PROVE  Rest'
<1>1. /\ pc = "apply" /\ UNCHANGED <<disk, staging, trash, log, mem, tail, journal, receipt, cur, troubled, user>>
      /\ pc' \in {"done", "sweep", "failed"}
      /\ pc' # "failed" => IsBegun(mem, cur)
  BY DEF Resume, Refuse, files, logs, outcome, ghosts, Goto, MayResume
<1>2. mem \in Progress /\ log \in Progress /\ Alike(log, log) /\ Alike(mem, mem)
  BY Flagged DEF UInv, TypeOK
<1>3. InStep'
  BY <1>1 DEF UInv, Rest, InStep, Forward, Working, Done, Committed, Glued
<1>4. AtHand'
  BY <1>1 DEF AtHand
<1>5. \A i \in Idx : i <= Bound => i <= Bound'
  BY <1>1, BoundKept DEF Undone
<1> QED BY <1>1, <1>2, <1>3, <1>4, <1>5, SameRecords

\* The directory of an undone transaction goes, with its log and its trash.
LEMMA DiscardRest ==
  ASSUME UInv, TypeOK', Discard
  PROVE  Rest'
<1>1. /\ pc = "discard" /\ UNCHANGED <<disk, staging, trash, log, mem, tail, receipt, cur, troubled, user>>
      /\ pc' = "discarded" /\ journal' = "broken"
  BY DEF Discard, files, logs, ghosts, Goto
<1>2. mem \in Progress /\ log \in Progress /\ Alike(log, log) /\ Alike(mem, mem)
  BY Flagged DEF UInv, TypeOK
<1>3. InStep'
  BY <1>1 DEF UInv, Rest, InStep, Forward, Working, Done, Committed, Glued
<1>4. AtHand'
  BY <1>1 DEF AtHand
<1>5. \A i \in Idx : i <= Bound => i <= Bound'
  BY <1>1, BoundKept DEF Undone
<1> QED BY <1>1, <1>2, <1>3, <1>4, <1>5, SameRecords

\* The receipt is replaced: nothing is claimed of the ops any more.
LEMMA CommitRest ==
  ASSUME UInv, TypeOK', Commit \/ (CommitFails /\ mode # "run")
  PROVE  Rest'
<1>1. /\ pc = "commit" /\ UNCHANGED <<disk, staging, trash, log, mem, tail, journal, cur, troubled, user>>
      /\ pc' \in {"archive", "compensate"}
      /\ pc' = "archive" => Committed'
      /\ Committed => Committed'
  BY DEF Commit, CommitFails, files, logs, ghosts, Goto, Committed
<1>2. mem \in Progress /\ log \in Progress /\ Alike(log, log) /\ Alike(mem, mem)
  BY Flagged DEF UInv, TypeOK
<1>3. InStep'
  BY <1>1 DEF UInv, Rest, InStep, Forward, Working, Done, Glued
<1>4. AtHand'
  BY <1>1 DEF AtHand
<1>5. \A i \in Idx : i <= Bound => i <= Bound'
  BY <1>1, BoundKept DEF Undone
<1> QED BY <1>1, <1>2, <1>3, <1>4, <1>5, SameRecords

\* A command ends: it is done, it fails, or it is killed.
LEMMA OverRest ==
  ASSUME PlanShape, UInv, TypeOK',
         \/ Discarded \/ (CommitFails /\ mode = "run") \/ Archive
         \/ LoadNothing \/ Crash \/ CrashInDiscard
  PROVE  Rest'
<1>1. mem \in Progress /\ log \in Progress /\ Alike(log, log)
  BY Flagged DEF UInv, TypeOK
<1>2. UNCHANGED <<disk, staging, log, user>>
  BY DEF Discarded, CommitFails, Archive, LoadNothing, Crash, CrashInDiscard, files, ghosts
<1>3. \E answer : End(answer)
  BY DEF Discarded, CommitFails, Archive, LoadNothing, Crash, CrashInDiscard
<1>4. journal' = "archived" => Committed'
  BY DEF Discarded, CommitFails, Archive, LoadNothing, Crash, CrashInDiscard,
         UInv, Rest, InStep, Committed, JournalAt, Done
<1>5. \A i \in Idx : trash'[i] # Absent => trash[i] # Absent
  <2>1. CASE UNCHANGED trash
    BY <2>1
  <2>2. CASE trash[cur] \in Tree /\ trash' = [trash EXCEPT ![cur] = Partial]
    <3>1. trash[cur] # Absent
      BY <2>2 DEF PlanShape, ContentsApart
    <3> QED BY <2>2, <3>1 DEF UInv, TypeOK
  <2> QED BY <2>1, <2>2 DEF Discarded, CommitFails, Archive, LoadNothing, Crash, CrashInDiscard, files
<1>6. Undone' => Undone
  <2>1. pc' = "down"
    BY <1>3 DEF End
  <2>2. CASE UNCHANGED journal
    BY <2>1, <2>2 DEF Undone
  <2>3. CASE Discarded \/ Archive \/ LoadNothing
    BY <2>1, <2>3 DEF Undone, Discarded, Archive, LoadNothing, UInv, JournalAt
  <2> QED BY <2>2, <2>3 DEF CommitFails, Crash, CrashInDiscard
<1> QED BY <1>1, <1>2, <1>3, <1>4, <1>5, <1>6, EndRest

\* A recovery starts at the directory that it finds.
LEMMA RecoverRest ==
  ASSUME UInv, TypeOK', Recover
  PROVE  Rest'
<1>1. /\ pc = "down" /\ UNCHANGED <<disk, staging, trash, log, mem, tail, journal, receipt, cur, troubled, user>>
      /\ pc' = "load"
  BY DEF Recover, files, logs, outcome, ghosts, Goto
<1>2. mem \in Progress /\ log \in Progress /\ Alike(log, log) /\ Alike(mem, mem)
  BY Flagged DEF UInv, TypeOK
<1>3. InStep'
  BY <1>1 DEF UInv, Rest, InStep, Forward, Working, Done, Committed, Glued
<1>4. AtHand'
  BY <1>1 DEF AtHand
<1>5. \A i \in Idx : i <= Bound => i <= Bound'
  BY <1>1, BoundKept DEF Undone
<1> QED BY <1>1, <1>2, <1>3, <1>4, <1>5, SameRecords

\* A recovery reads the log; what it may decide depends on the records and the disk only.
LEMMA LoadRest ==
  ASSUME UInv, TypeOK', Load
  PROVE  Rest'
<1>1. /\ pc = "load" /\ UNCHANGED <<disk, staging, trash, log, tail, journal, receipt, cur, troubled, user>>
      /\ pc' = "decide" /\ mem' = [log EXCEPT !.mend = (tail = "torn")] /\ journal = "live"
  BY DEF Load, files, outcome, ghosts, Goto
<1>2. log \in Progress /\ mem' \in Progress
  BY DEF UInv, TypeOK
<1>3. Alike(log, mem') /\ mem'.mend = (tail = "torn")
  BY <1>1, <1>2, Flagged DEF Progress
<1>4. Alike(mem', log') /\ Extends(mem', log') /\ Extends(log, mem')
  BY <1>1, <1>3, AlikeSame
<1>5. ~Glued'
  BY <1>1, <1>3 DEF Glued
<1>6. InStep'
  BY <1>1, <1>4, <1>5 DEF UInv, Rest, InStep, Forward, Working, Done, Committed
<1>7. AtHand'
  BY <1>1 DEF AtHand
<1>8. \A i \in Idx : i <= Bound => i <= Bound'
  BY <1>1, BoundKept DEF Undone
<1>9. Records(log', user) /\ Records(mem', user)
  BY <1>1, <1>3, RecordsSame DEF UInv, Rest
<1>10. \A i \in Idx : "kept" \in {mem'.done[i], log'.done[i]} => "kept" \in {mem.done[i], log.done[i]}
  BY <1>1, <1>3 DEF Alike
<1>11. Extends(View, View')
  BY <1>1, <1>4 DEF View
<1> QED BY <1>1, <1>6, <1>7, <1>8, <1>9, <1>10, <1>11, QuietRest

\* An op that may be resumed finds what it replaced, or what it left.
LEMMA ResumedTraced ==
  ASSUME PlanShape, UInv, pc = "decide", NEW j \in Idx, FileOp(j), IsBegun(mem, j), ~IsDone(mem, j), Resumable(j)
  PROVE  Traced(mem, user, j)
<1>1. FilesExplained(disk, mem, user, Bound) /\ Preimages(mem, user) /\ Ordered(mem)
  BY DEF UInv, Rest, Explained, View, Records
<1>2. CASE disk[Ops[j].path] = Result(j)
  BY <1>1, <1>2, AtResult
<1>3. CASE disk[Ops[j].path] # Result(j)
  <2>1. mem.pre[j] = disk[Ops[j].path]
    BY <1>1, <1>3 DEF Resumable, Preimages, FileOp, Result
  <2>2. CASE disk[Ops[j].path] = user[Ops[j].path]
    BY <2>1, <2>2, TracedNext
  <2>3. CASE disk[Ops[j].path] # user[Ops[j].path]
    <3>1. PICK i \in Idx : FileOp(i) /\ Ops[i].path = Ops[j].path /\ Traced(mem, user, i)
                           /\ Result(i) = disk[Ops[j].path]
      BY <1>1, <2>3, PathsOfOps DEF FilesExplained
    <3>2. i # j
      BY <1>3, <3>1
    <3>3. i < j
      BY <1>1, <3>1, <3>2, TracedBegun, BegunBefore
    <3> QED BY <2>1, <3>1, <3>3, TracedNext
  <2> QED BY <2>2, <2>3
<1> QED BY <1>2, <1>3

\* A recovery decides between carrying on and undoing.
LEMMA DecideRest ==
  ASSUME PlanShape, UInv, TypeOK', Decide
  PROVE  Rest'
<1>1. /\ pc = "decide" /\ UNCHANGED <<disk, staging, trash, log, mem, tail, journal, receipt, troubled, user>>
      /\ journal = "live" /\ ~troubled
  BY DEF Decide, files, logs, outcome, ghosts, UInv, JournalAt, Rest, InStep, Done
<1>2. mem \in Progress /\ log \in Progress /\ Alike(log, log) /\ Alike(mem, mem)
  BY Flagged DEF UInv, TypeOK
<1>3. Alike(mem, log) /\ ~Glued /\ ~Glued'
  BY <1>1 DEF UInv, Rest, InStep, Glued
<1>4. CASE pc' = "compensate" \/ (pc' = "archive" /\ Committed)
  <2>1. InStep'
    BY <1>1, <1>4 DEF UInv, Rest, InStep, Forward, Working, Done, Committed
  <2>2. AtHand'
    BY <1>4 DEF AtHand
  <2>3. \A i \in Idx : i <= Bound => i <= Bound'
    BY <1>1, <1>4, BoundKept DEF Undone
  <2> QED BY <1>1, <1>2, <1>4, <2>1, <2>2, <2>3, SameRecords
<1>5. CASE CanRollForward /\ GotoNext(0, mem)
  <2>1. \/ pc' = "commit" /\ cur' = 0
        \/ /\ pc' = "apply" /\ cur' \in Idx /\ ~IsDone(mem, cur')
           /\ \A j \in Idx : 0 < j /\ j < cur' => IsDone(mem, j)
    BY <1>5, GotoNextFirst
  <2>2. \A i \in Idx : i < cur' => pc' = "commit" \/ IsDone(mem, i)
    BY <2>1, IdxNat
  <2>3. Dynamic = << >>
    BY <1>5 DEF CanRollForward
  <2>4. InStep'
    BY <1>1, <1>3, <2>1, <2>2, <2>3 DEF UInv, Rest, InStep, Forward, Working, Done, Committed
  <2>5. AtHand'
    <3>1. CASE pc' = "apply" /\ FileOp(cur') /\ IsBegun(mem, cur')
      <4>1. Resumable(cur')
        BY <1>5, <2>1, <3>1 DEF CanRollForward
      <4>2. Traced(mem, user, cur')
        BY <1>1, <2>1, <3>1, <4>1, ResumedTraced
      <4>3. Traced(mem, user, cur)'
        BY <1>1, <4>2
      <4> QED BY <3>1, <4>3 DEF AtHand
    <3>2. CASE ~(pc' = "apply" /\ FileOp(cur') /\ IsBegun(mem, cur'))
      BY <1>1, <2>1, <3>2 DEF AtHand
    <3> QED BY <3>1, <3>2
  <2>6. \A i \in Idx : i <= Bound => i <= Bound'
    BY <1>1, <2>1, BoundKept DEF Undone
  <2> QED BY <1>1, <1>2, <2>1, <2>4, <2>5, <2>6, SameRecords
<1> QED BY <1>4, <1>5 DEF Decide, Goto, Committed

\* The user edits a file between two steps of a command.
LEMMA EditRest ==
  ASSUME PlanShape, UInv, TypeOK', NEW x \in EditPath, NEW v \in EditValue, Edit(x, v)
  PROVE  Rest'
<1>1. /\ disk' = [disk EXCEPT ![x] = v] /\ user' = [user EXCEPT ![x] = v] /\ ~Window(x) /\ pc # "open"
      /\ UNCHANGED <<staging, trash, log, tail, mem, journal, receipt, pc, cur, troubled>>
  BY DEF Edit, logs, outcome
<1>2. x \in Path /\ x \notin Dirs
  BY PathAssumption DEF PlanShape, PathsApart
<1>3. /\ \A y \in Path : y # x => disk'[y] = disk[y] /\ user'[y] = user[y]
      /\ disk'[x] = v /\ user'[x] = v
  BY <1>1, <1>2 DEF UInv, TypeOK
<1>4. Records(log', user') /\ Records(mem', user')
  BY <1>1, <1>3, RecordsEdit DEF UInv, Rest
<1>5. Explained(disk, staging, trash, View, user, Bound)'
  <2>1. Explained(disk', staging, trash, View, user', Bound)
    BY <1>3, EditExplained DEF UInv, Rest
  <2>2. View' = View /\ Bound' = Bound
    BY <1>1 DEF View, Bound, Undone
  <2> QED BY <1>1, <2>1, <2>2
<1>6. InStep'
  BY <1>1 DEF UInv, Rest, InStep, Committed, Glued, op
<1>7. AtHand'
  <2> DEFINE A == pc \in {"apply", "stage", "effect"} /\ FileOp(cur) /\ IsBegun(mem, cur)
  <2>1. A \/ pc = "restore" => cur \in Idx /\ Ops[cur].path # x
    BY <1>1 DEF UInv, AtOp, Applying, Window, op
  <2>2. A \/ pc = "restore" => user'[Ops[cur].path] = user[Ops[cur].path] /\ disk'[Ops[cur].path] = disk[Ops[cur].path]
    BY <1>3, <2>1, PathsOfOps
  <2>3. A \/ pc = "restore" => Traced(mem, user, cur)
    BY DEF UInv, Rest, AtHand
  <2>4. A \/ pc = "restore" => Traced(mem, user', cur)
    BY <2>1, <2>2, <2>3, TracedElsewhere
  <2> QED BY <1>1, <2>2, <2>4 DEF UInv, Rest, AtHand, op
<1>8. KeptStays'
  <2>1. \A i \in Idx : Ops[i].kind = "rmdir" => disk'[Ops[i].path] = disk[Ops[i].path]
    BY <1>2, <1>3, PathsOfOps DEF DirOp
  <2>2. pc = "effect" => cur \in Idx
    BY DEF UInv, AtOp, Applying
  <2> QED BY <1>1, <2>1, <2>2 DEF UInv, Rest, KeptStays, op, AtOp, Applying, Done
<1> QED BY <1>4, <1>5, <1>6, <1>7, <1>8 DEF Rest

-----------------------------------------------------------------------------
(* Begin and done records.                                                 *)

\* What a done record changes.
LEMMA WithDoneIs ==
  ASSUME NEW p \in Progress, NEW j \in Idx, NEW how \in Done
  PROVE  LET q == WithDone(p, j, how) IN
           /\ q \in Progress /\ q.pre = p.pre /\ q.missing = p.missing /\ Extends(p, q)
           /\ \A i \in Idx : q.done[i] = IF i = j THEN how ELSE p.done[i]
<1>1. WithDone(p, j, how) \in Progress
  BY ProgressTyped
<1> QED BY <1>1 DEF WithDone, Progress, Extends

\* A done record is appended, whole or torn, after the op's effect.
LEMMA FinishRest ==
  ASSUME UInv, TypeOK', Finish
  PROVE  Rest'
<1> DEFINE l == WithDone(log, cur, pc)
           m == WithDone(mem, cur, pc)
<1>1. /\ pc \in Done /\ UNCHANGED <<disk, staging, trash, journal, receipt, troubled, user>>
      /\ journal = "live" /\ ~troubled /\ pc \in Forward
  BY DEF Finish, files, outcome, UInv, JournalAt, Rest, InStep, Done, Forward, Working
<1>2. mem \in Progress /\ log \in Progress /\ cur \in Idx /\ cur \in Nat
  BY <1>1, IdxNat DEF UInv, TypeOK, AtOp, Applying
<1>3. /\ IsBegun(mem, cur) /\ ~IsDone(mem, cur) /\ Alike(mem, log) /\ ~Glued
      /\ \A i \in Idx : i < cur => IsDone(mem, i)
  BY <1>1 DEF UInv, Rest, InStep, Working, Forward, Done
<1>4. IsBegun(log, cur) /\ ~IsDone(log, cur)
  BY <1>2, <1>3, AlikeSame
<1>5. /\ m \in Progress /\ m.pre = mem.pre /\ m.missing = mem.missing /\ Extends(mem, m)
      /\ \A i \in Idx : m.done[i] = IF i = cur THEN pc ELSE mem.done[i]
  BY <1>1, <1>2, WithDoneIs
<1>6. /\ l \in Progress /\ l.pre = log.pre /\ l.missing = log.missing /\ Extends(log, l)
      /\ \A i \in Idx : l.done[i] = IF i = cur THEN pc ELSE log.done[i]
  BY <1>1, <1>2, WithDoneIs
<1>7. Records(m, user) /\ Records(l, user)
  BY <1>1, <1>2, <1>3, <1>4, RecordsDone DEF UInv, Rest
<1>8. Alike(m, l)
  <2>1. m.done = l.done
    BY <1>2, <1>3 DEF Alike, WithDone, Progress
  <2> QED BY <1>3, <1>5, <1>6, <2>1 DEF Alike
<1> HIDE DEF l, m
<1>9. log' \in {log, l} /\ (Alike(m, mem') \/ Alike(mem, mem'))
  BY <1>2, <1>5, Appended DEF Finish, l, m
<1>10. Records(log', user) /\ Records(mem', user)
  BY <1>7, <1>9, RecordsSame DEF UInv, Rest
<1>11. KeptStays'
  <2>1. \A i \in Idx : "kept" \in {mem'.done[i], log'.done[i]} =>
           "kept" \in {mem.done[i], log.done[i]} \/ (i = cur /\ pc = "kept")
    BY <1>5, <1>6, <1>9 DEF Alike
  <2>2. pc' \notin {"effect", "kept"}
    BY <1>2, GotoNextFirst DEF Finish, Goto
  <2>3. Restorable /\ pc = "kept" => op.kind = "rmdir" /\ disk[op.path] = Dir
    BY DEF UInv, Rest, KeptStays
  <2> QED BY <1>1, <2>1, <2>2, <2>3 DEF UInv, Rest, KeptStays, op
<1>12. Extends(View, View')
  <2>1. View = mem
    BY <1>1 DEF View, Done
  <2>2. View' = mem'
    BY <1>2, GotoNextFirst DEF Finish, Goto, View
  <2>3. Extends(mem, mem')
    BY <1>5, <1>9 DEF Alike, Extends
  <2> QED BY <2>1, <2>2, <2>3
<1>13. CASE Log(l, m) /\ GotoNext(cur, mem')
  <2>1. log' = l /\ Alike(m, mem') /\ ~Glued'
    BY <1>2, <1>3, <1>5, <1>13, Appended
  <2>2. Alike(mem', log') /\ Extends(mem', log')
    BY <1>8, <2>1, AlikeSame, AlikeTrans
  <2>3. \/ pc' = "commit" /\ cur' = 0
        \/ /\ pc' = "apply" /\ cur' \in Idx /\ ~IsDone(mem', cur')
           /\ \A j \in Idx : cur < j /\ j < cur' => IsDone(mem', j)
    BY <1>2, <1>13, GotoNextFirst
  <2>4. \A i \in Idx : IsDone(mem', i) <=> (i = cur \/ IsDone(mem, i))
    BY <1>1, <1>5, <2>1 DEF Alike, IsDone, Done, None
  <2>5. \A i \in Idx : i < cur' => pc' = "commit" \/ IsDone(mem', i)
    BY <1>2, <1>3, <2>3, <2>4, IdxNat
  <2>6. pc' = "apply" => ~IsBegun(mem', cur')
    <3> SUFFICES ASSUME pc' = "apply", IsBegun(mem', cur') PROVE FALSE
      OBVIOUS
    <3>1. cur' \in Idx /\ ~IsDone(mem', cur') /\ cur' # cur
      BY <2>3, <2>4
    <3>2. IsBegun(mem, cur')
      BY <1>5, <2>1 DEF Alike, IsBegun
    <3>3. Ordered(mem)
      BY DEF UInv, Rest, Records
    <3>4. cur' < cur
      BY <1>2, <1>3, <3>1, <3>2, <3>3, BegunBefore
    <3> QED BY <1>3, <2>4, <3>1, <3>4
  <2>7. InStep'
    BY <1>1, <2>1, <2>2, <2>3, <2>5, <2>6 DEF UInv, Rest, InStep, Forward, Working, Done, Committed
  <2>8. AtHand'
    BY <2>3, <2>6 DEF AtHand
  <2>9. \A i \in Idx : i <= Bound => i <= Bound'
    BY <1>1, <2>3, BoundKept DEF Undone
  <2>10. Explained(disk, staging, trash, View, user, Bound)'
    BY <1>1, <1>12, <2>9, QuietExplained
  <2>11. Records(log, user)' /\ Records(mem, user)'
    BY <1>1, <1>10
  <2> QED BY <1>11, <2>7, <2>8, <2>10, <2>11 DEF Rest
<1>14. CASE LogThrows(l) /\ Untracked /\ pc' = "failed" /\ UNCHANGED cur
  <2>1. Alike(mem, mem')
    BY <1>2, <1>14, Appended
  <2>2. Extends(mem', log')
    BY <1>3, <1>6, <1>9, <2>1 DEF Alike, Extends
  <2>3. InStep'
    BY <1>1, <1>14, <2>2 DEF UInv, Rest, InStep, Forward, Working, Done, Committed
  <2>4. AtHand'
    BY <1>14 DEF AtHand
  <2>5. \A i \in Idx : i <= Bound => i <= Bound'
    BY <1>1, <1>14, BoundKept DEF Undone
  <2>6. Explained(disk, staging, trash, View, user, Bound)'
    BY <1>1, <1>12, <2>5, QuietExplained
  <2>7. Records(log, user)' /\ Records(mem, user)'
    BY <1>1, <1>10
  <2> QED BY <1>11, <2>3, <2>4, <2>6, <2>7 DEF Rest
<1> QED BY <1>13, <1>14 DEF Finish, Goto, l, m

\* What a begin record changes.
LEMMA WithBeginIs ==
  ASSUME NEW p \in Progress, NEW j \in Idx, NEW c, NEW dirs
  PROVE  LET q == WithBegin(p, j, c, dirs) IN
           /\ q.done = p.done /\ Extends(p, q)
           /\ \A i \in Idx : i # j => q.pre[i] = p.pre[i] /\ q.missing[i] = p.missing[i]
           /\ IsBegun(p, j) => q = p
           /\ ~IsBegun(p, j) => q.pre[j] = c /\ q.missing[j] = dirs
BY DEF WithBegin, Progress, Extends, IsBegun

\* A directory that is to be removed is there until it is.
LEMMA ThereBefore ==
  ASSUME PlanShape, UInv, pc = "apply", op.kind = "rmdir", Restorable
  PROVE  disk[op.path] = Dir
<1>1. cur \in Idx /\ op = Ops[cur]
  BY DEF UInv, AtOp, Applying, op
<1>2. op.path \in Dirs /\ InitDisk[op.path] = Dir
  BY <1>1, PathsOfOps DEF DirOp, PlanShape, RemovesWhatWasThere
<1>3. DirsExplained(disk, mem, user, Bound)
  BY DEF UInv, Rest, Explained, View
<1> SUFFICES ASSUME disk[op.path] = Absent PROVE FALSE
  BY <1>2, <1>3 DEF DirsExplained
<1>4. PICK i \in Idx : IsBegun(mem, i) /\ Ops[i].kind = "rmdir" /\ Ops[i].path = op.path
  BY <1>2, <1>3 DEF DirsExplained
<1>5. i = cur
  BY <1>1, <1>4 DEF PlanShape, ResultsDiffer
<1>6. Dynamic = << >>
  BY <1>4, <1>5 DEF UInv, Rest, InStep
<1> QED BY <1>1, <1>6 DEF Restorable

\* A begin record holds what is on disk, in memory and in the log.
LEMMA BeginRecords ==
  ASSUME PlanShape, UInv, Begin,
         NEW m, m = WithBegin(mem, cur, Captured, Missing(cur)),
         NEW l, l = WithBegin(log, cur, Captured, Missing(cur))
  PROVE  /\ Records(m, user) /\ Records(l, user) /\ Alike(m, l)
         /\ IsBegun(m, cur) /\ (FileOp(cur) => Traced(m, user, cur))
<1>1. /\ pc = "apply" /\ mem \in Progress /\ log \in Progress /\ cur \in Idx /\ op = Ops[cur]
      /\ MayBegin
  BY DEF Begin, UInv, TypeOK, AtOp, Applying, op
<1>2. Alike(mem, log) /\ ~IsDone(mem, cur) /\ \A i \in Idx : i < cur => IsDone(mem, i)
  BY <1>1 DEF UInv, Rest, InStep, Forward
<1>3. Alike(m, l)
  <2>1. m.pre = l.pre /\ m.missing = l.missing
    BY <1>1, <1>2 DEF WithBegin, Progress, Alike, IsBegun
  <2>2. m.done = l.done
    BY <1>1, <1>2, WithBeginIs DEF Alike
  <2> QED BY <2>1, <2>2 DEF Alike
<1>4. Records(m, user) /\ IsBegun(m, cur) /\ (FileOp(cur) => Traced(m, user, cur))
  <2>1. CASE IsBegun(mem, cur)
    <3>1. m = mem
      BY <1>1, <2>1, WithBeginIs
    <3> QED BY <1>1, <2>1, <3>1 DEF UInv, Rest, AtHand
  <2>2. CASE ~IsBegun(mem, cur)
    <3>1. /\ m.done = mem.done /\ Extends(mem, m) /\ m.pre[cur] = Captured /\ m.missing[cur] = Missing(cur)
          /\ \A i \in Idx : i # cur => m.pre[i] = mem.pre[i]
      BY <1>1, <2>2, WithBeginIs
    <3>2. \A i \in Idx : IsBegun(m, i) => i = cur \/ IsBegun(mem, i)
      BY <3>1 DEF IsBegun
    <3>3. Captured # None
      <4>1. Absent # None
        BY DEF Absent, None
      <4>2. op.kind = "remove" => op.val # None
        BY <1>1 DEF PlanShape, OpsTakeContents, ContentsApart
      <4>3. op.kind = "write" => at # None
        BY <1>1, <4>1 DEF MayBegin, IsFile, PlanShape, ContentsApart
      <4>4. op.kind = "remove" => at # None
        BY <1>1, <4>2 DEF MayBegin
      <4> QED BY <4>1, <4>3, <4>4 DEF Captured
    <3>4. IsBegun(m, cur)
      BY <3>1, <3>3 DEF IsBegun
    <3>5. /\ FileOp(cur) => m.pre[cur] = disk[Ops[cur].path]
          /\ Ops[cur].kind = "link" => disk[Ops[cur].path] = Absent
          /\ Ops[cur].kind = "remove" => disk[Ops[cur].path] = Ops[cur].val
      BY <1>1, <3>1 DEF FileOp, Captured, MayBegin, at
    <3>6. m.missing[cur] = {x \in MadeBy(cur) : disk[x] = Absent}
      <4>1. \A x : x = Ops[cur].path => x # Root
        BY <1>1, PathsOfOps, PathAssumption
      <4> QED BY <3>1, <4>1 DEF Missing, MadeBy
    <3>7. /\ Restorable => \A i \in Idx : Ops[i].kind = "rmdir" /\ mem.done[i] = "kept" => disk[Ops[i].path] = Dir
          /\ Records(mem, user) /\ FilesExplained(disk, mem, user, Bound) /\ DirsExplained(disk, mem, user, Bound)
          /\ Bound \in Nat
      BY <1>1, BoundTyped DEF UInv, Rest, KeptStays, Explained, View
    <3> QED BY <1>1, <1>2, <2>2, <3>1, <3>2, <3>4, <3>5, <3>6, <3>7, RecordsBegin
  <2> QED BY <2>1, <2>2
<1> QED BY <1>3, <1>4, RecordsSame

\* A begin record is appended before the op touches anything.
LEMMA BeginRest ==
  ASSUME PlanShape, UInv, TypeOK', Begin
  PROVE  Rest'
<1>1. PICK m, l : /\ m = WithBegin(mem, cur, Captured, Missing(cur))
                  /\ l = WithBegin(log, cur, Captured, Missing(cur))
  OBVIOUS
<1>2. /\ pc = "apply" /\ UNCHANGED <<disk, staging, trash, journal, receipt, cur, troubled, user>>
      /\ journal = "live" /\ ~troubled /\ cur \in Idx
  BY DEF Begin, files, outcome, UInv, JournalAt, Rest, InStep, Done, AtOp, Applying
<1>3. mem \in Progress /\ log \in Progress /\ m \in Progress
  <2>1. Captured \in Content /\ Missing(cur) \in SUBSET Path
    BY <1>2, OpsTyped, PathAssumption DEF UInv, Captured, TypeOK, at, op, Op, Missing, Content
  <2> QED BY <1>1, <1>2, <2>1, ProgressTyped DEF UInv, TypeOK
<1>4. /\ Records(m, user) /\ Records(l, user) /\ Alike(m, l)
      /\ IsBegun(m, cur) /\ (FileOp(cur) => Traced(m, user, cur))
  BY <1>1, BeginRecords
<1>5. Extends(mem, m) /\ Extends(log, l) /\ m.done = mem.done /\ l.done = log.done
  BY <1>1, <1>2, <1>3, WithBeginIs
<1>6. /\ Alike(mem, log) /\ ~Glued /\ ~IsDone(mem, cur) /\ \A i \in Idx : i < cur => IsDone(mem, i)
      /\ IsBegun(mem, cur) => Dynamic = << >>
  BY <1>2 DEF UInv, Rest, InStep, Forward
<1>7. \/ /\ Log(l, m)
         /\ pc' \in {"stage", "retry", "effect"}
         /\ pc' = "stage" => op.kind = "write"
         /\ pc' = "retry" => op.kind = "exec"
      \/ LogThrows(l) /\ Untracked /\ pc' = "failed"
  BY <1>1 DEF Begin, Goto
<1>8. log' \in {log, l} /\ (Alike(m, mem') \/ Alike(mem, mem'))
  BY <1>3, <1>7, Appended
<1>9. Records(log', user) /\ Records(mem', user)
  BY <1>4, <1>8, RecordsSame DEF UInv, Rest
<1>10. Explained(disk, staging, trash, View, user, Bound)'
  <2>1. pc' \in {"stage", "retry", "effect", "failed"}
    BY <1>7
  <2>2. View = mem /\ View' = mem'
    BY <1>2, <2>1 DEF View
  <2>3. Extends(mem, mem')
    BY <1>5, <1>8 DEF Alike, Extends
  <2>4. \A i \in Idx : i <= Bound => i <= Bound'
    BY <1>2, <2>1, BoundKept DEF Undone
  <2> QED BY <1>2, <2>2, <2>3, <2>4, QuietExplained
<1>11. KeptStays'
  <2>1. \A i \in Idx : "kept" \in {mem'.done[i], log'.done[i]} => "kept" \in {mem.done[i], log.done[i]}
    BY <1>5, <1>8 DEF Alike
  <2>2. Restorable /\ op.kind = "rmdir" => disk[op.path] = Dir
    BY <1>2, ThereBefore
  <2>3. pc' # "kept"
    BY <1>7
  <2> QED BY <1>2, <2>1, <2>2, <2>3 DEF UInv, Rest, KeptStays, op
<1>12. InStep' /\ AtHand'
  <2>1. CASE /\ Log(l, m)
             /\ pc' \in {"stage", "retry", "effect"}
             /\ pc' = "stage" => op.kind = "write"
             /\ pc' = "retry" => op.kind = "exec"
    <3>1. log' = l /\ Alike(m, mem') /\ ~Glued'
      BY <1>3, <1>6, <2>1, Appended
    <3>2. Alike(mem', log') /\ Extends(mem', log')
      BY <1>4, <3>1, AlikeSame, AlikeTrans
    <3>3. \A i \in Idx : IsDone(mem', i) <=> IsDone(mem, i)
      BY <1>5, <3>1 DEF Alike, IsDone
    <3>4. IsBegun(mem', cur) /\ (FileOp(cur) => Traced(mem', user, cur))
      BY <1>2, <1>4, <3>1, AlikeSame
    <3>5. InStep'
      <4>1. ~IsDone(mem', cur) /\ \A i \in Idx : i < cur => IsDone(mem', i)
        BY <1>2, <1>6, <3>3
      <4>2. journal' # "archived" /\ pc' \notin {"apply", "open", "archive"}
        BY <1>2, <2>1
      <4> QED BY <1>2, <2>1, <3>1, <3>2, <3>4, <4>1, <4>2 DEF InStep, op
    <3>6. AtHand'
      BY <1>2, <2>1, <3>4 DEF AtHand
    <3> QED BY <3>5, <3>6
  <2>2. CASE LogThrows(l) /\ Untracked /\ pc' = "failed"
    <3>1. Alike(mem, mem')
      BY <1>3, <2>2, Appended
    <3>2. Extends(mem', log')
      BY <1>5, <1>6, <1>8, <3>1 DEF Alike, Extends, IsBegun
    <3>3. InStep'
      BY <1>2, <2>2, <3>2 DEF UInv, Rest, InStep, Forward, Working, Done, Committed
    <3>4. AtHand'
      BY <2>2 DEF AtHand
    <3> QED BY <3>3, <3>4
  <2> QED BY <1>7, <2>1, <2>2
<1> QED BY <1>2, <1>9, <1>10, <1>11, <1>12 DEF Rest

-----------------------------------------------------------------------------
(* Effects.                                                                *)

\* What an op may do to a path: put its result there, make a directory on its way,
\* remove its directory, register.
EffectAt(j, d, e, y) ==
  \/ e[y] = d[y]
  \/ y \in MadeBy(j) /\ e[y] = Dir
  \/ y = Ops[j].path /\ FileOp(j) /\ e[y] = Result(j)
  \/ y = Ops[j].path /\ Ops[j].kind = "rmdir" /\ e[y] = Absent
  \/ y = Ops[j].path /\ Ops[j].kind = "exec"

\* Effects are explained by their op, and no directory that was kept goes.
LEMMA EffectExplained ==
  ASSUME PlanShape, UInv, pc \in {"stage", "effect", "retry"},
         NEW e, \A y \in Path : EffectAt(cur, disk, e, y),
         NEW s, \A i \in s : i \in staging \/ (i = cur /\ op.kind = "write"),
         NEW t, \A i \in Idx : t[i] # Absent => trash[i] # Absent \/ (i = cur /\ op.kind = "remove")
  PROVE  /\ Explained(e, s, t, mem, user, Len(Ops))
         /\ Restorable => \A i \in Idx : Ops[i].kind = "rmdir" /\ "kept" \in {mem.done[i], log.done[i]} =>
                            e[Ops[i].path] = Dir
<1>1. /\ cur \in Idx /\ op = Ops[cur] /\ IsBegun(mem, cur) /\ ~IsDone(mem, cur) /\ Alike(mem, log)
      /\ pc = "stage" => op.kind = "write"
      /\ pc = "retry" => op.kind = "exec"
  BY DEF UInv, AtOp, Applying, op, Rest, InStep, Forward, Working
<1>2. Bound = Len(Ops) /\ View = mem
  BY DEF Bound, Undone, View, UInv, JournalAt, Done
<1>3. /\ FilesExplained(disk, mem, user, Len(Ops)) /\ DirsExplained(disk, mem, user, Len(Ops))
      /\ HostsExplained(disk, mem, user) /\ AsideExplained(staging, trash, mem, Len(Ops))
      /\ Records(mem, user)
  BY <1>2 DEF UInv, Rest, Explained
<1>4. Len(Ops) \in Nat /\ cur <= Len(Ops) /\ \A i \in Idx : i <= Len(Ops)
  BY <1>1, IdxNat
<1>5. /\ FileOp(cur) => op.path \notin Dirs \cup Registration /\ Traced(mem, user, cur)
      /\ op.kind = "rmdir" => op.path \in Dirs
      /\ op.kind = "exec" => op.path \in Registration
      /\ MadeBy(cur) \subseteq Dirs /\ \A x \in Dirs : x \in Path /\ x \notin Registration
      /\ \A x \in Registration : x \in Path
      /\ op.kind \in {"rmdir", "exec"} => MadeBy(cur) = {}
  <2>1. FileOp(cur) => pc # "retry"
    BY <1>1 DEF FileOp
  <2>2. FileOp(cur) => Traced(mem, user, cur)
    BY <1>1, <2>1 DEF UInv, Rest, AtHand
  <2>3. \A x \in Dirs : x \in Path /\ x \notin Registration
    BY DEF Dirs, PlanShape, PathsApart
  <2>4. \A x \in Registration : x \in Path
    BY OpsTyped DEF Registration, Op
  <2> QED BY <1>1, <2>2, <2>3, <2>4, PathsOfOps DEF DirOp
<1>6. FilesExplained(e, mem, user, Len(Ops))
  <2>1. \A y \in Path \ (Dirs \cup Registration) : y # Ops[cur].path => e[y] = disk[y]
    BY <1>5 DEF EffectAt
  <2>2. FileOp(cur) => \/ Traced(mem, user, cur) /\ e[Ops[cur].path] = Result(cur)
                       \/ e[Ops[cur].path] = disk[Ops[cur].path]
    BY <1>1, <1>5, PathsOfOps DEF EffectAt, FileOp
  <2> QED BY <1>1, <1>3, <1>4, <2>1, <2>2, FilesPut
<1>7. DirsExplained(e, mem, user, Len(Ops))
  <2>1. CASE op.kind = "rmdir"
    <3>1. \A y \in Path : e[y] = disk[y] \/ (y = Ops[cur].path /\ e[y] = Absent)
      BY <1>1, <1>5, <2>1 DEF EffectAt, FileOp
    <3> QED BY <1>1, <1>3, <1>4, <2>1, <3>1, DirsRemoved
  <2>2. CASE op.kind # "rmdir"
    <3>1. \A x \in Dirs : e[x] = disk[x] \/ (e[x] = Dir /\ x \in MadeBy(cur))
      BY <1>1, <1>5, <2>2 DEF EffectAt
    <3> QED BY <1>1, <1>3, <1>4, <3>1, DirsMade
  <2> QED BY <2>1, <2>2
<1>8. HostsExplained(e, mem, user)
  <2> SUFFICES ASSUME NEW x \in Registration, e[x] # user[x]
               PROVE  \E i \in Idx : IsBegun(mem, i) /\ Ops[i].kind = "exec" /\ Ops[i].path = x
    BY DEF HostsExplained
  <2>1. CASE e[x] = disk[x]
    BY <1>3, <2>1 DEF HostsExplained
  <2>2. CASE e[x] # disk[x]
    BY <1>1, <1>5, <2>2 DEF EffectAt
  <2> QED BY <2>1, <2>2
<1>9. AsideExplained(s, t, mem, Len(Ops))
  BY <1>1, <1>3, <1>4 DEF AsideExplained
<1>10. ASSUME Restorable, NEW i \in Idx, Ops[i].kind = "rmdir", "kept" \in {mem.done[i], log.done[i]}
       PROVE  e[Ops[i].path] = Dir
  <2>1. disk[Ops[i].path] = Dir
    BY <1>10 DEF UInv, Rest, KeptStays
  <2>2. i # cur
    BY <1>1, <1>10 DEF IsDone, Alike, None
  <2>3. Ops[i].path \in Dirs /\ ~(op.kind = "rmdir" /\ op.path = Ops[i].path)
    BY <1>1, <1>10, <2>2, PathsOfOps DEF DirOp, PlanShape, ResultsDiffer
  <2> QED BY <1>1, <1>5, <2>1, <2>3 DEF EffectAt
<1> QED BY <1>6, <1>7, <1>8, <1>9, <1>10 DEF Explained

\* What Effect does is such an effect.
LEMMA EffectIsAt ==
  ASSUME PlanShape, TypeOK, cur \in Idx, NEW dsk, NEW stg, NEW tr, Effect(dsk, stg, tr)
  PROVE  /\ \A y \in Path : EffectAt(cur, disk, dsk, y)
         /\ \A i \in stg : i \in staging
         /\ \A i \in Idx : tr[i] # Absent => trash[i] # Absent \/ (i = cur /\ op.kind = "remove")
         /\ op.kind = "rmdir" => \/ dsk = disk
                                 \/ at = Dir /\ EmptyDir(disk, staging, op.path)
<1>1. op = Ops[cur] /\ op.path \in Path /\ op.kind \in Kinds
  BY PathsOfOps DEF op
<1>2. \A y \in Path : y \in Parents(op.path) => y \in MadeBy(cur)
  BY <1>1 DEF Parents, MadeBy
<1>3. \A y \in Path : y \in Missing(cur) => y \in MadeBy(cur)
  BY <1>1 DEF Missing, MadeBy
<1>4. CASE op.kind \in {"write", "link"}
  <2>1. /\ dsk = [WithDirs(disk, Parents(op.path)) EXCEPT ![op.path] = op.val]
        /\ stg = staging \ {cur} /\ tr = trash
    BY <1>4 DEF Effect
  <2>2. FileOp(cur) /\ Result(cur) = op.val
    BY <1>1, <1>4 DEF FileOp, Result
  <2>3. \A y \in Path : EffectAt(cur, disk, dsk, y)
    BY <1>1, <1>2, <2>1, <2>2 DEF EffectAt, WithDirs
  <2> QED BY <1>4, <2>1, <2>3
<1>5. CASE op.kind = "mkdir"
  <2>1. dsk = WithDirs(disk, Missing(cur)) /\ stg = staging /\ tr = trash
    BY <1>5 DEF Effect
  <2>2. \A y \in Path : EffectAt(cur, disk, dsk, y)
    BY <1>3, <2>1 DEF EffectAt, WithDirs
  <2> QED BY <1>5, <2>1, <2>2
<1>6. CASE op.kind = "remove"
  <2>1. /\ dsk = [disk EXCEPT ![op.path] = Absent]
        /\ stg = staging /\ tr = [trash EXCEPT ![cur] = at]
    BY <1>6 DEF Effect
  <2>2. FileOp(cur) /\ Result(cur) = Absent
    BY <1>1, <1>6 DEF FileOp, Result
  <2>3. \A y \in Path : EffectAt(cur, disk, dsk, y)
    BY <1>1, <2>1, <2>2 DEF EffectAt, TypeOK
  <2> QED BY <1>6, <2>1, <2>3 DEF TypeOK
<1>7. CASE op.kind = "rmdir"
  <2>1. /\ dsk = [disk EXCEPT ![op.path] =
                    IF at = Dir /\ EmptyDir(disk, staging, op.path) THEN Absent ELSE @]
        /\ stg = staging /\ tr = trash
    BY <1>7 DEF Effect
  <2>2. \A y \in Path : EffectAt(cur, disk, dsk, y)
    BY <1>1, <1>7, <2>1 DEF EffectAt, TypeOK
  <2>3. dsk = disk \/ (at = Dir /\ EmptyDir(disk, staging, op.path))
    BY <2>1 DEF TypeOK
  <2> QED BY <2>1, <2>2, <2>3
<1>8. CASE op.kind = "exec"
  <2>1. dsk = [disk EXCEPT ![op.path] = op.val] /\ stg = staging /\ tr = trash
    BY <1>8 DEF Effect
  <2>2. \A y \in Path : EffectAt(cur, disk, dsk, y)
    BY <1>1, <1>8, <2>1 DEF EffectAt, TypeOK
  <2> QED BY <1>8, <2>1, <2>2
<1> QED BY <1>1, <1>4, <1>5, <1>6, <1>7, <1>8 DEF Kinds

\* What an op will put in place is staged beside the journal.
LEMMA StageRest ==
  ASSUME PlanShape, UInv, TypeOK', Stage
  PROVE  Rest'
<1>1. /\ pc = "stage" /\ UNCHANGED <<trash, log, tail, mem, journal, receipt, cur, troubled, user>>
      /\ journal = "live" /\ ~troubled /\ cur \in Idx /\ op.kind = "write" /\ op = Ops[cur]
      /\ pc' \in {"effect", "failed"}
  BY DEF Stage, logs, outcome, Goto, UInv, JournalAt, Done, Rest, InStep, AtOp, Applying, op
<1>2. disk' \in {disk, WithDirs(disk, Parents(op.path))} /\ staging' \in {staging, staging \cup {cur}}
  BY DEF Stage
<1>3. \A y \in Path : EffectAt(cur, disk, disk', y)
  <2>1. \A y \in Path : y \in Parents(op.path) => y \in MadeBy(cur)
    BY <1>1 DEF Parents, MadeBy
  <2> QED BY <1>2, <2>1 DEF EffectAt, WithDirs
<1>4. /\ Explained(disk', staging', trash', mem', user', Len(Ops))
      /\ Restorable => \A i \in Idx : Ops[i].kind = "rmdir" /\ "kept" \in {mem.done[i], log.done[i]} =>
                         disk'[Ops[i].path] = Dir
  BY <1>1, <1>2, <1>3, EffectExplained
<1>5. InStep'
  BY <1>1 DEF UInv, Rest, InStep, Forward, Working, Done, Committed, Glued, op
<1>6. AtHand'
  BY <1>1 DEF UInv, Rest, AtHand
<1>7. KeptStays'
  BY <1>1, <1>4 DEF KeptStays, op
<1>8. View' = mem' /\ Bound' = Len(Ops)
  BY <1>1 DEF View, Bound, Undone
<1> QED BY <1>1, <1>4, <1>5, <1>6, <1>7, <1>8 DEF UInv, Rest

\* The rename, link or call of an op: the one step of it that changes the path.
LEMMA ApplyRest ==
  ASSUME PlanShape, UInv, TypeOK', Apply \/ ApplyFails
  PROVE  Rest'
<1>1. /\ pc \in {"effect", "retry"} /\ UNCHANGED <<log, tail, mem, journal, receipt, cur, troubled, user>>
      /\ journal = "live" /\ ~troubled /\ cur \in Idx /\ op = Ops[cur] /\ TypeOK
  BY DEF Apply, ApplyFails, logs, outcome, ghosts, UInv, JournalAt, Done, Rest, InStep, AtOp, Applying, op
<1>2. /\ pc' \in {"sweep", "failed"} \cup Done
      /\ pc' = "kept" => /\ Apply /\ op.kind = "rmdir" /\ ~(at = Dir /\ EmptyDir(disk, staging, op.path))
  BY DEF Apply, ApplyFails, Goto, AfterEffect, Done
<1>3. /\ \A y \in Path : EffectAt(cur, disk, disk', y)
      /\ \A i \in staging' : i \in staging
      /\ \A i \in Idx : trash'[i] # Absent => trash[i] # Absent \/ (i = cur /\ op.kind = "remove")
      /\ Apply /\ op.kind = "rmdir" => \/ disk' = disk
                                       \/ at = Dir /\ EmptyDir(disk, staging, op.path)
  <2>1. CASE Effect(disk', staging', trash')
    BY <1>1, <2>1, EffectIsAt
  <2>2. CASE ~Apply /\ UNCHANGED <<disk, trash>> /\ (staging' = staging \/ staging' = staging \ {cur})
    BY <2>2 DEF EffectAt
  <2> QED BY <2>1, <2>2 DEF Apply, ApplyFails, files
<1>4. /\ Explained(disk', staging', trash', mem', user', Len(Ops))
      /\ Restorable => \A i \in Idx : Ops[i].kind = "rmdir" /\ "kept" \in {mem.done[i], log.done[i]} =>
                         disk'[Ops[i].path] = Dir
  BY <1>1, <1>3, EffectExplained
<1>5. InStep'
  BY <1>1, <1>2 DEF UInv, Rest, InStep, Forward, Working, Done, Committed, Glued
<1>6. AtHand'
  BY <1>2 DEF AtHand, Done
<1>7. KeptStays'
  <2>1. Restorable /\ pc' = "kept" => op.kind = "rmdir" /\ disk'[op.path] = Dir
    <3> SUFFICES ASSUME Restorable, pc' = "kept" PROVE op.kind = "rmdir" /\ disk'[op.path] = Dir
      OBVIOUS
    <3>1. op.kind = "rmdir" /\ disk' = disk
      BY <1>2, <1>3
    <3>2. pc = "effect"
      BY <1>1, <3>1 DEF UInv, Rest, InStep
    <3> QED BY <3>1, <3>2 DEF UInv, Rest, KeptStays
  <2>2. pc' # "effect"
    BY <1>2 DEF Done
  <2> QED BY <1>1, <1>4, <2>1, <2>2 DEF KeptStays, op
<1>8. View' = mem' /\ Bound' = Len(Ops)
  BY <1>1, <1>2 DEF View, Bound, Undone, Done
<1> QED BY <1>1, <1>4, <1>5, <1>6, <1>7, <1>8 DEF UInv, Rest

\* The parked original is dropped once the op is done.
LEMMA SweepRest ==
  ASSUME PlanShape, UInv, TypeOK', Sweep
  PROVE  Rest'
<1>1. /\ pc = "sweep" /\ UNCHANGED <<disk, staging, log, tail, mem, journal, receipt, cur, troubled, user>>
      /\ pc' \in {"done", "failed"}
  BY DEF Sweep, logs, outcome, Goto
<1>2. mem \in Progress /\ log \in Progress /\ Alike(log, log) /\ Alike(mem, mem)
  BY Flagged DEF UInv, TypeOK
<1>3. \A i \in Idx : trash'[i] # Absent => trash[i] # Absent
  <2>1. CASE UNCHANGED trash
    BY <2>1
  <2>2. CASE trash[cur] \in Tree /\ trash' = [trash EXCEPT ![cur] = Partial]
    <3>1. trash[cur] # Absent
      BY <2>2 DEF PlanShape, ContentsApart
    <3> QED BY <2>2, <3>1 DEF UInv, TypeOK
  <2>3. CASE trash' = [trash EXCEPT ![cur] = Absent]
    BY <2>3 DEF UInv, TypeOK
  <2> QED BY <2>1, <2>2, <2>3 DEF Sweep
<1>4. InStep'
  BY <1>1 DEF UInv, Rest, InStep, Forward, Working, Done, Committed, Glued
<1>5. AtHand'
  BY <1>1 DEF AtHand
<1>6. \A i \in Idx : i <= Bound => i <= Bound'
  BY <1>1, BoundKept DEF Undone
<1> QED BY <1>1, <1>2, <1>3, <1>4, <1>5, <1>6, SameRecords

-----------------------------------------------------------------------------
(* Undoing.                                                                *)

\* What undoing an op may do to a path: a file gets back what the op replaced if it still
\* has what the op left there, a directory the op made may go, one that it removed comes
\* back, a registration is undone.
UndoneAt(p, j, d, e, y) ==
  IF y \in Dirs THEN \/ e[y] = d[y]
                     \/ e[y] = Dir /\ y = Ops[j].path /\ Ops[j].kind = "rmdir"
                     \/ e[y] = Absent /\ y \in p.missing[j]
  ELSE IF y = Ops[j].path /\ FileOp(j) THEN e[y] = IF d[y] = Result(j) THEN p.pre[j] ELSE d[y]
  ELSE e[y] = d[y] \/ (y = Ops[j].path /\ Ops[j].kind = "exec")

\* Something is in a directory that stays.
StaysOccupied(p, j, e, s, t) ==
  \A x \in p.missing[j] : e[x] = Dir =>
    \/ \E y \in Path : ParentOf[y] = x /\ e[y] # Absent
    \/ \E i \in Idx : ParentOf[Ops[i].path] = x /\ (i \in s \/ t[i] # Absent)

\* The ops left to be undone explain what is left, and no directory that was kept goes.
LEMMA UndoExplained ==
  ASSUME PlanShape, UInv, pc \in {"undo", "restore"}, NEW c \in Nat, Left(mem, cur, Bound, c),
         NEW e, \A y \in Path : UndoneAt(mem, cur, disk, e, y),
         NEW s, \A i \in s : i \in staging /\ (i = cur => op.kind = "remove" \/ i <= c),
         NEW t, \A i \in Idx : t[i] # Absent => trash[i] # Absent,
         StaysOccupied(mem, cur, e, s, t),
         op.kind = "rmdir" /\ ~(cur <= c) => e[op.path] = Dir
  PROVE  /\ Explained(e, s, t, mem, user, c)
         /\ Restorable => \A i \in Idx : Ops[i].kind = "rmdir" /\ "kept" \in {mem.done[i], log.done[i]} =>
                            e[Ops[i].path] = Dir
<1>1. cur \in Idx /\ op = Ops[cur] /\ IsBegun(mem, cur) /\ View = mem /\ Bound \in Nat
  BY BoundTyped DEF UInv, AtOp, op, View
<1>2. /\ FilesExplained(disk, mem, user, Bound) /\ DirsExplained(disk, mem, user, Bound)
      /\ HostsExplained(disk, mem, user) /\ AsideExplained(staging, trash, mem, Bound)
      /\ Records(mem, user) /\ Preimages(mem, user)
  BY <1>1 DEF UInv, Rest, Explained, Records
<1>3. /\ \A x \in Dirs : x \in Path /\ x \notin Registration
      /\ \A x \in Registration : x \in Path
      /\ FileOp(cur) => op.path \notin Dirs \cup Registration
      /\ op.kind = "exec" => op.path \in Registration
  <2>1. \A x \in Dirs : x \in Path /\ x \notin Registration
    BY DEF Dirs, PlanShape, PathsApart
  <2>2. \A x \in Registration : x \in Path
    BY OpsTyped DEF Registration, Op
  <2> QED BY <1>1, <2>1, <2>2, PathsOfOps
<1>4. FilesExplained(e, mem, user, c)
  <2>1. \A y \in Path \ (Dirs \cup Registration) : y # Ops[cur].path => e[y] = disk[y]
    BY <1>1 DEF UndoneAt
  <2>2. FileOp(cur) => e[Ops[cur].path] = IF disk[Ops[cur].path] = Result(cur) THEN mem.pre[cur]
                                          ELSE disk[Ops[cur].path]
    BY <1>1, <1>3, PathsOfOps DEF UndoneAt
  <2> QED BY <1>1, <1>2, <2>1, <2>2, FilesUndone
<1>5. AsideExplained(s, t, mem, c)
  BY <1>1, <1>2 DEF AsideExplained, Left, UInv, TypeOK
<1>6. DirsExplained(e, mem, user, c)
  <2>1. \A x \in Dirs : \/ e[x] = disk[x]
                        \/ e[x] = Dir /\ InitDisk[x] = Dir
                        \/ e[x] = Absent /\ x \in mem.missing[cur]
    BY <1>1, <1>3 DEF UndoneAt, PlanShape, RemovesWhatWasThere
  <2>2. s \subseteq Idx
    BY DEF UInv, TypeOK
  <2> QED BY <1>1, <1>2, <1>4, <1>5, <2>1, <2>2, DirsUndone DEF StaysOccupied
<1>7. HostsExplained(e, mem, user)
  <2> SUFFICES ASSUME NEW x \in Registration, e[x] # user[x]
               PROVE  \E i \in Idx : IsBegun(mem, i) /\ Ops[i].kind = "exec" /\ Ops[i].path = x
    BY DEF HostsExplained
  <2>1. CASE e[x] = disk[x]
    BY <1>2, <2>1 DEF HostsExplained
  <2>2. CASE e[x] # disk[x]
    BY <1>1, <1>3, <2>2 DEF UndoneAt
  <2> QED BY <2>1, <2>2
<1>8. ASSUME Restorable, NEW i \in Idx, Ops[i].kind = "rmdir", "kept" \in {mem.done[i], log.done[i]}
      PROVE  e[Ops[i].path] = Dir
  <2>1. disk[Ops[i].path] = Dir /\ Ops[i].path \in Dirs /\ InitDisk[Ops[i].path] = Dir
    BY <1>8, PathsOfOps DEF UInv, Rest, KeptStays, DirOp, PlanShape, RemovesWhatWasThere
  <2>2. IsBegun(log, cur) /\ log.missing[cur] = mem.missing[cur]
    BY <1>1 DEF UInv, Rest, InStep, Extends, IsBegun
  <2>3. Ops[i].path \notin mem.missing[cur]
    <3> SUFFICES ASSUME Ops[i].path \in mem.missing[cur] PROVE FALSE
      OBVIOUS
    <3>1. PICK k \in Idx : Ops[k].kind = "rmdir" /\ Ops[k].path = Ops[i].path /\ mem.done[k] # "kept"
      BY <1>1, <1>2, <1>8, <2>1 DEF Records, Created
    <3>2. PICK n \in Idx : Ops[n].kind = "rmdir" /\ Ops[n].path = Ops[i].path /\ log.done[n] # "kept"
      BY <1>1, <1>8, <2>1, <2>2 DEF UInv, Rest, Records, Created
    <3>3. k = i /\ n = i
      BY <1>8, <3>1, <3>2 DEF PlanShape, ResultsDiffer
    <3> QED BY <1>8, <3>1, <3>2, <3>3
  <2> QED BY <1>3, <2>1, <2>3 DEF UndoneAt
<1> QED BY <1>4, <1>5, <1>6, <1>7, <1>8 DEF Explained

\* Removing the directories an op made.
LEMMA UndoIsAt ==
  ASSUME PlanShape, UInv, pc \in {"undo", "restore"}, NEW dsk \in [Path -> Content], NEW stg,
         \A y \in Path : UndoneAt(mem, cur, disk, dsk, y), Undo(dsk, stg),
         \A i \in Idx : trash[i] # Absent => trash'[i] # Absent \/ (i = cur /\ dsk[op.path] # Absent)
  PROVE  /\ \A y \in Path : UndoneAt(mem, cur, disk, disk', y)
         /\ StaysOccupied(mem, cur, disk', stg, trash')
<1>1. cur \in Idx /\ op = Ops[cur] /\ IsBegun(mem, cur) /\ View = mem /\ mem.missing[cur] \subseteq Dirs
  <2>1. cur \in Idx /\ op = Ops[cur] /\ IsBegun(mem, cur) /\ View = mem
    BY DEF UInv, AtOp, op, View
  <2> QED BY <2>1, PathsOfOps DEF UInv, Rest, Records, Created
<1>2. disk' = [y \in Path |-> IF y \in mem.missing[cur] /\ dsk[y] = Dir /\ EmptyDir(dsk, stg, y)
                              THEN Absent ELSE dsk[y]]
  BY DEF Undo, WithoutDirs
<1>3. \A y \in Path : UndoneAt(mem, cur, disk, disk', y)
  BY <1>1, <1>2 DEF UndoneAt
<1>4. ASSUME NEW x \in mem.missing[cur], disk'[x] = Dir
      PROVE  \/ \E y \in Path : ParentOf[y] = x /\ disk'[y] # Absent
             \/ \E i \in Idx : ParentOf[Ops[i].path] = x /\ (i \in stg \/ trash'[i] # Absent)
  <2>1. x \in Dirs /\ x \in Path
    BY <1>1 DEF Dirs
  <2>2. dsk[x] = Dir /\ ~EmptyDir(dsk, stg, x)
    BY <1>2, <1>4, <2>1 DEF Dir, Absent
  <2>3. \A y \in Path : ParentOf[y] = x => disk'[y] = dsk[y]
    BY <1>1, <1>2, <2>1, InDirs
  <2>4. CASE \E y \in Path : ParentOf[y] = x /\ dsk[y] # Absent
    BY <2>3, <2>4
  <2>5. CASE \E i \in Idx : ParentOf[Ops[i].path] = x /\ (i \in stg \/ trash[i] # Absent)
    <3>1. PICK i \in Idx : ParentOf[Ops[i].path] = x /\ (i \in stg \/ trash[i] # Absent)
      BY <2>5
    <3>2. CASE i = cur /\ dsk[op.path] # Absent
      <4>1. op.path \in Path /\ ParentOf[op.path] = x
        BY <1>1, <3>1, <3>2, PathsOfOps
      <4> QED BY <2>3, <3>2, <4>1
    <3>3. CASE ~(i = cur /\ dsk[op.path] # Absent)
      BY <3>1, <3>3
    <3> QED BY <3>2, <3>3
  <2> QED BY <2>2, <2>4, <2>5 DEF EmptyDir
<1> QED BY <1>3, <1>4 DEF StaysOccupied

\* Undoing an op is such a change.
LEMMA UndoEffectIsAt ==
  ASSUME PlanShape, UInv, pc = "undo", ~NeedsRestore, UndoEffect
  PROVE  /\ \A y \in Path : UndoneAt(mem, cur, disk, disk', y)
         /\ StaysOccupied(mem, cur, disk', staging', trash')
         /\ \A i \in staging' : i \in staging /\ (i = cur => op.kind = "remove")
         /\ \A i \in Idx : trash'[i] # Absent => trash[i] # Absent
         /\ op.kind = "rmdir" /\ Restorable => disk'[op.path] = Dir
<1>1. /\ cur \in Idx /\ op = Ops[cur] /\ IsBegun(mem, cur) /\ View = mem
      /\ op.path \in Path /\ op.kind \in Kinds /\ mem.missing[cur] \subseteq MadeBy(cur)
      /\ disk \in [Path -> Content]
  <2>1. cur \in Idx /\ op = Ops[cur] /\ IsBegun(mem, cur) /\ View = mem
    BY DEF UInv, AtOp, op, View
  <2> QED BY <2>1, PathsOfOps DEF UInv, TypeOK, Rest, Records, Created
<1>2. /\ FileOp(cur) => op.path \notin Dirs
      /\ op.kind \in {"rmdir", "exec"} => mem.missing[cur] = {}
      /\ op.kind = "rmdir" => op.path \in Dirs
      /\ op.kind = "exec" => op.path \in Registration /\ op.path \notin Dirs
  BY <1>1, PathsOfOps DEF DirOp, PlanShape, PathsApart
<1>3. \A i \in staging : i = cur => op.kind \in {"write", "remove"}
  BY <1>1 DEF UInv, Rest, Explained, AsideExplained
<1>4. CASE op.kind \in {"write", "link"}
  <2> DEFINE dsk == IF at = op.val /\ (op.kind = "link" \/ pre = Absent)
                    THEN [disk EXCEPT ![op.path] = Absent] ELSE disk
  <2>1. Undo(dsk, staging \ {cur}) /\ trash' = trash
    BY <1>4 DEF UndoEffect
  <2>2. FileOp(cur) /\ Result(cur) = op.val
    BY <1>1, <1>4 DEF FileOp, Result
  <2>3. op.kind = "link" => pre = Absent
    BY <1>1 DEF pre, UInv, Rest, Records, Preimages
  <2>4. op.kind = "write" => at # op.val \/ pre \in {op.val, Absent}
    BY DEF NeedsRestore
  <2>5. dsk \in [Path -> Content]
    BY <1>1 DEF Content
  <2>6. /\ \A y \in Path : y # op.path => dsk[y] = disk[y]
        /\ dsk[op.path] = IF at = op.val THEN pre ELSE at
    BY <1>1, <1>4, <2>3, <2>4 DEF at
  <2> HIDE DEF dsk
  <2>7. \A y \in Path : UndoneAt(mem, cur, disk, dsk, y)
    BY <1>1, <1>2, <2>2, <2>6 DEF UndoneAt, at, pre
  <2>8. /\ \A y \in Path : UndoneAt(mem, cur, disk, disk', y)
        /\ StaysOccupied(mem, cur, disk', staging \ {cur}, trash')
    BY <2>1, <2>5, <2>7, UndoIsAt
  <2>9. staging' = staging \ {cur}
    BY <2>1 DEF Undo
  <2> QED BY <1>4, <2>1, <2>8, <2>9
<1>5. CASE op.kind = "mkdir"
  <2>1. Undo(disk, staging) /\ trash' = trash
    BY <1>5 DEF UndoEffect
  <2>2. \A y \in Path : UndoneAt(mem, cur, disk, disk, y)
    BY <1>1, <1>5 DEF UndoneAt, FileOp
  <2>3. /\ \A y \in Path : UndoneAt(mem, cur, disk, disk', y)
        /\ StaysOccupied(mem, cur, disk', staging, trash')
    BY <1>1, <2>1, <2>2, UndoIsAt
  <2>4. staging' = staging
    BY <2>1 DEF Undo
  <2> QED BY <1>3, <1>5, <2>1, <2>3, <2>4
<1>6. CASE op.kind = "remove"
  <2>1. /\ disk' = [disk EXCEPT ![op.path] = IF at = Absent THEN pre ELSE at]
        /\ trash' = [trash EXCEPT ![cur] = IF at \in {Absent, pre} THEN Absent ELSE @]
        /\ staging' = staging
    BY <1>6 DEF UndoEffect
  <2>2. FileOp(cur) /\ Result(cur) = Absent
    BY <1>1, <1>6 DEF FileOp, Result
  <2>3. pre # Absent
    BY <1>1, <1>6 DEF pre, UInv, Rest, Records, Preimages, PlanShape, OpsTakeContents, ContentsApart
  <2>4. /\ disk'[op.path] = IF at = Absent THEN pre ELSE at
        /\ \A y \in Path : y # op.path => disk'[y] = disk[y]
    BY <1>1, <2>1
  <2>5. \A y \in Path : UndoneAt(mem, cur, disk, disk', y)
    BY <1>1, <1>2, <2>2, <2>4 DEF UndoneAt, at, pre
  <2>6. StaysOccupied(mem, cur, disk', staging', trash')
    <3>1. \A x \in mem.missing[cur] : ParentOf[op.path] = x
      BY <1>1, <1>6 DEF MadeBy
    <3>2. disk'[op.path] # Absent
      BY <2>3, <2>4
    <3> QED BY <1>1, <3>1, <3>2 DEF StaysOccupied
  <2>7. \A i \in Idx : trash'[i] # Absent => trash[i] # Absent
    BY <2>1 DEF UInv, TypeOK
  <2> QED BY <1>6, <2>1, <2>5, <2>6, <2>7
<1>7. CASE op.kind = "rmdir"
  <2>1. /\ disk' = [disk EXCEPT ![op.path] = IF mem.done[cur] # "kept" /\ at = Absent THEN Dir ELSE at]
        /\ UNCHANGED <<staging, trash>>
    BY <1>7 DEF UndoEffect
  <2>2. /\ disk'[op.path] = IF mem.done[cur] # "kept" /\ at = Absent THEN Dir ELSE at
        /\ \A y \in Path : y # op.path => disk'[y] = disk[y]
    BY <1>1, <2>1
  <2>3. \A y \in Path : UndoneAt(mem, cur, disk, disk', y)
    BY <1>1, <1>2, <1>7, <2>2 DEF UndoneAt, at
  <2>4. Restorable => disk'[op.path] = Dir
    <3>1. at \in {Dir, Absent}
      BY <1>1, <1>2, <1>7 DEF at, UInv, Rest, Explained, DirsExplained
    <3>2. Restorable /\ mem.done[cur] = "kept" => at = Dir
      BY <1>1, <1>7 DEF at, UInv, Rest, KeptStays
    <3> QED BY <2>2, <3>1, <3>2
  <2> QED BY <1>2, <1>3, <1>7, <2>1, <2>3, <2>4 DEF StaysOccupied
<1>8. CASE op.kind = "exec"
  <2>1. /\ disk' = [disk EXCEPT ![op.path] = IF mem.done[cur] = "done" /\ op.undo THEN Opposite(op.val) ELSE at]
        /\ UNCHANGED <<staging, trash>>
    BY <1>8 DEF UndoEffect
  <2>2. \A y \in Path : y # op.path => disk'[y] = disk[y]
    BY <1>1, <2>1
  <2>3. \A y \in Path : UndoneAt(mem, cur, disk, disk', y)
    BY <1>1, <1>2, <1>8, <2>2 DEF UndoneAt, FileOp
  <2> QED BY <1>2, <1>3, <1>8, <2>1, <2>3 DEF StaysOccupied
<1> QED BY <1>1, <1>4, <1>5, <1>6, <1>7, <1>8 DEF Kinds

\* The ops that are left when an op is undone.
LEMMA LeftAfter ==
  ASSUME UInv, pc \in {"undo", "restore"}, GotoUndo(cur, mem), UNCHANGED <<mem, journal>>,
         troubled' = troubled \/ troubled' = TRUE
  PROVE  /\ Left(mem, cur, Bound, Bound') /\ Bound' \in Nat
         /\ troubled' => Bound' = Len(Ops)
         /\ Bound' # Len(Ops) => Restorable
         /\ pc' \in {"undo", "compensated"}
<1>1. journal = "live" /\ cur \in Idx /\ cur \in Nat /\ Len(Ops) \in Nat
  BY IdxNat DEF UInv, JournalAt, AtOp, Done
<1>2. \/ pc' = "compensated" /\ cur' = 0 /\ \A j \in Idx : j < cur => ~IsBegun(mem, j)
      \/ /\ pc' = "undo" /\ cur' \in Idx /\ IsBegun(mem, cur') /\ cur' < cur
         /\ \A j \in Idx : j < cur /\ IsBegun(mem, j) => j <= cur'
  BY <1>1, GotoUndoLast
<1>3. pc' \in {"undo", "compensated"} /\ cur' \in Nat
  BY <1>2, IdxNat
<1>4. Bound' = IF Restorable /\ ~troubled' THEN (IF pc' = "undo" THEN cur' ELSE 0) ELSE Len(Ops)
  BY <1>1, <1>3 DEF Bound, Undone
<1>5. Restorable /\ ~troubled' => Bound = cur
  BY <1>1 DEF Bound, Undone
<1>6. Left(mem, cur, Bound, Bound')
  <2>1. CASE Bound' = Len(Ops)
    BY <2>1, IdxNat DEF Left
  <2>2. CASE Restorable /\ ~troubled'
    <3> SUFFICES ASSUME NEW i \in Idx, IsBegun(mem, i), i < cur \/ (i <= Bound /\ i # cur)
                 PROVE  i <= Bound'
      BY DEF Left
    <3>1. i < cur
      BY <1>1, <1>5, <2>2, IdxNat
    <3> QED BY <1>2, <1>4, <2>2, <3>1
  <2> QED BY <1>4, <2>1, <2>2
<1> QED BY <1>1, <1>3, <1>4, <1>6

\* What a step of the compensation has to keep.
LEMMA UndoneRest ==
  ASSUME UInv, pc \in {"undo", "restore"}, pc' \in {"undo", "compensated"},
         UNCHANGED <<log, tail, mem, journal, receipt, user>>,
         Explained(disk', staging', trash', mem, user, Bound'),
         Restorable => \A i \in Idx : Ops[i].kind = "rmdir" /\ "kept" \in {mem.done[i], log.done[i]} =>
                         disk'[Ops[i].path] = Dir
  PROVE  Rest'
<1>1. InStep'
  BY DEF UInv, Rest, InStep, Forward, Working, Done, Committed
<1>2. AtHand'
  BY DEF AtHand
<1>3. KeptStays'
  BY DEF KeptStays
<1>4. View' = mem'
  BY DEF View
<1> QED BY <1>1, <1>2, <1>3, <1>4 DEF UInv, Rest

\* A compensation looks at one op and decides what to restore.
LEMMA UndoOpRest ==
  ASSUME PlanShape, UInv, TypeOK', UndoOp \/ UndoFails
  PROVE  Rest'
<1>1. /\ pc \in {"undo", "restore"} /\ GotoUndo(cur, mem)
      /\ UNCHANGED <<log, tail, mem, journal, receipt, user>>
      /\ troubled' = troubled \/ troubled' = TRUE
      /\ UndoFails => troubled'
  BY DEF UndoOp, UndoFails, logs, outcome, ghosts
<1>2. /\ Left(mem, cur, Bound, Bound') /\ Bound' \in Nat
      /\ troubled' => Bound' = Len(Ops)
      /\ Bound' # Len(Ops) => Restorable
      /\ pc' \in {"undo", "compensated"}
  BY <1>1, LeftAfter
<1>3. cur \in Idx /\ cur <= Len(Ops) /\ View = mem /\ Bound \in Nat
  BY <1>1, IdxNat, BoundTyped DEF UInv, AtOp, View
<1>4. CASE pc = "undo" /\ ~NeedsRestore /\ UndoEffect
  <2>1. /\ \A y \in Path : UndoneAt(mem, cur, disk, disk', y)
        /\ StaysOccupied(mem, cur, disk', staging', trash')
        /\ \A i \in staging' : i \in staging /\ (i = cur => op.kind = "remove")
        /\ \A i \in Idx : trash'[i] # Absent => trash[i] # Absent
        /\ op.kind = "rmdir" /\ Restorable => disk'[op.path] = Dir
    BY <1>4, UndoEffectIsAt
  <2>2. op.kind = "rmdir" /\ ~(cur <= Bound') => disk'[op.path] = Dir
    BY <1>2, <1>3, <2>1
  <2>3. /\ Explained(disk', staging', trash', mem, user, Bound')
        /\ Restorable => \A i \in Idx : Ops[i].kind = "rmdir" /\ "kept" \in {mem.done[i], log.done[i]} =>
                           disk'[Ops[i].path] = Dir
    BY <1>1, <1>2, <2>1, <2>2, UndoExplained
  <2> QED BY <1>1, <1>2, <2>3, UndoneRest
<1>5. CASE UndoFails /\ UNCHANGED <<disk, trash>> /\ staging' \in {staging, staging \ {cur}}
  <2>1. Explained(disk, staging, trash, mem, user, Bound)
    BY <1>3 DEF UInv, Rest
  <2>2. Bound' = Len(Ops) /\ \A i \in Idx : i <= Bound'
    BY <1>1, <1>2, <1>5, IdxNat
  <2>3. Extends(mem, mem) /\ staging \in SUBSET Idx
    BY DEF Extends, UInv, TypeOK
  <2>4. Explained(disk, staging, trash, mem, user, Bound')
    BY <1>2, <1>3, <2>1, <2>2, <2>3, StillExplained
  <2>5. Explained(disk', staging', trash', mem, user, Bound')
    BY <1>5, <2>4 DEF Explained, AsideExplained
  <2>6. Restorable => \A i \in Idx : Ops[i].kind = "rmdir" /\ "kept" \in {mem.done[i], log.done[i]} =>
                        disk'[Ops[i].path] = Dir
    BY <1>5 DEF UInv, Rest, KeptStays
  <2> QED BY <1>1, <1>2, <2>5, <2>6, UndoneRest
<1> QED BY <1>4, <1>5 DEF UndoOp, UndoFails, files

\* A compensation restores one path.
LEMMA RestoreRest ==
  ASSUME PlanShape, UInv, TypeOK', Restore
  PROVE  Rest'
<1>1. /\ pc = "restore" /\ GotoUndo(cur, mem)
      /\ UNCHANGED <<log, tail, mem, journal, receipt, troubled, user>>
      /\ trash' = [trash EXCEPT ![cur] = Absent]
      /\ Undo([disk EXCEPT ![op.path] = pre], staging \ {cur})
  BY DEF Restore, logs, outcome, ghosts
<1>2. /\ Left(mem, cur, Bound, Bound') /\ Bound' \in Nat
      /\ pc' \in {"undo", "compensated"}
  BY <1>1, LeftAfter
<1>3. /\ cur \in Idx /\ op = Ops[cur] /\ IsBegun(mem, cur) /\ View = mem
      /\ op.path \in Path /\ op.kind \in {"write", "remove"} /\ FileOp(cur)
      /\ disk[op.path] = Result(cur) /\ disk \in [Path -> Content] /\ op.path \notin Dirs
      /\ trash \in [Idx -> Content] /\ mem \in Progress
  <2>1. cur \in Idx /\ op = Ops[cur] /\ IsBegun(mem, cur) /\ View = mem
    BY <1>1 DEF UInv, AtOp, op, View
  <2>2. op.kind \in {"write", "remove"} /\ disk[op.path] = Result(cur)
    BY <1>1 DEF UInv, Rest, AtHand
  <2> QED BY <2>1, <2>2, PathsOfOps DEF UInv, TypeOK, FileOp
<1> DEFINE dsk == [disk EXCEPT ![op.path] = pre]
<1>4. dsk \in [Path -> Content]
  BY <1>3 DEF pre, Progress, IsBegun
<1>5. dsk[op.path] = pre /\ \A y \in Path : y # op.path => dsk[y] = disk[y]
  BY <1>3
<1>6. staging' = staging \ {cur}
  BY <1>1 DEF Undo
<1> HIDE DEF dsk
<1>7. \A y \in Path : UndoneAt(mem, cur, disk, dsk, y)
  BY <1>3, <1>5 DEF UndoneAt, pre
<1>8. \A i \in Idx : trash[i] # Absent => trash'[i] # Absent \/ (i = cur /\ dsk[op.path] # Absent)
  <2>1. trash[cur] # Absent => op.kind = "remove"
    BY <1>3 DEF UInv, Rest, Explained, AsideExplained
  <2>2. op.kind = "remove" => pre # Absent
    BY <1>3 DEF pre, UInv, Rest, Records, Preimages, PlanShape, OpsTakeContents, ContentsApart
  <2> QED BY <1>1, <1>3, <1>5, <2>1, <2>2
<1>9. Undo(dsk, staging \ {cur})
  BY <1>1 DEF dsk
<1>10. /\ \A y \in Path : UndoneAt(mem, cur, disk, disk', y)
       /\ StaysOccupied(mem, cur, disk', staging', trash')
  BY <1>1, <1>4, <1>6, <1>7, <1>8, <1>9, UndoIsAt
<1>11. \A i \in Idx : trash'[i] # Absent => trash[i] # Absent
  BY <1>1, <1>3
<1>12. /\ Explained(disk', staging', trash', mem, user, Bound')
       /\ Restorable => \A i \in Idx : Ops[i].kind = "rmdir" /\ "kept" \in {mem.done[i], log.done[i]} =>
                          disk'[Ops[i].path] = Dir
  <2>1. \A i \in staging' : i \in staging /\ (i = cur => op.kind = "remove" \/ i <= Bound')
    BY <1>6
  <2>2. op.kind # "rmdir"
    BY <1>3
  <2> QED BY <1>1, <1>2, <1>10, <1>11, <2>1, <2>2, UndoExplained
<1> QED BY <1>1, <1>2, <1>12, UndoneRest

\* Restoring from the trash, step by step.
LEMMA UndoRestoreRest ==
  ASSUME PlanShape, UInv, TypeOK', UndoRestore
  PROVE  Rest'
<1>1. /\ pc = "undo" /\ pc' = "restore" /\ NeedsRestore
      /\ UNCHANGED <<trash, log, tail, mem, journal, receipt, cur, troubled, user>>
      /\ staging' = staging \cup {cur} /\ journal = "live"
      /\ disk' = WithDirs(disk, Parents(op.path))
  BY DEF UndoRestore, logs, outcome, ghosts, Goto, UInv, JournalAt, Done
<1>2. /\ cur \in Idx /\ op = Ops[cur] /\ IsBegun(mem, cur) /\ View = mem
      /\ op.path \in Path /\ op.kind \in {"write", "remove"} /\ FileOp(cur)
      /\ disk[op.path] = Result(cur) /\ op.path \notin Dirs /\ MadeBy(cur) \subseteq Dirs
  <2>1. cur \in Idx /\ op = Ops[cur] /\ IsBegun(mem, cur) /\ View = mem
    BY <1>1 DEF UInv, AtOp, op, View
  <2>2. op.kind \in {"write", "remove"} /\ disk[op.path] = Result(cur)
    BY <1>1, <2>1 DEF NeedsRestore, at, Result
  <2> QED BY <2>1, <2>2, PathsOfOps DEF FileOp
<1>3. \A y \in Path : disk'[y] = disk[y] \/ (disk'[y] = Dir /\ y \in MadeBy(cur))
  BY <1>1, <1>2 DEF WithDirs, Parents, MadeBy
<1>4. /\ FilesExplained(disk, mem, user, Bound) /\ DirsExplained(disk, mem, user, Bound)
      /\ HostsExplained(disk, mem, user) /\ AsideExplained(staging, trash, mem, Bound)
      /\ Records(mem, user) /\ Preimages(mem, user) /\ Bound \in Nat
  BY <1>2, BoundTyped DEF UInv, Rest, Explained, Records
<1>5. Bound' = Bound /\ cur <= Bound
  <2>1. Bound \in {cur, Len(Ops)} /\ Bound' = Bound
    BY <1>1 DEF Bound, Undone
  <2> QED BY <1>2, <2>1, IdxNat
<1>6. \A y \in Path \ Dirs : disk'[y] = disk[y]
  BY <1>2, <1>3
<1>7. /\ \A x \in Dirs : x \in Path /\ x \notin Registration
      /\ \A x \in Registration : x \in Path
  BY OpsTyped DEF Dirs, PlanShape, PathsApart, Registration, Op
<1>8. Explained(disk', staging', trash', mem, user, Bound)
  <2>1. FilesExplained(disk', mem, user, Bound)
    BY <1>4, <1>6 DEF FilesExplained
  <2>2. DirsExplained(disk', mem, user, Bound)
    <3>1. \A x \in Dirs : disk'[x] = disk[x] \/ (disk'[x] = Dir /\ x \in MadeBy(cur))
      BY <1>3, <1>7
    <3>2. \A y \in Path \ (Dirs \cup Registration) : disk'[y] = disk[y]
      BY <1>6
    <3> QED BY <1>2, <1>4, <1>5, <3>1, <3>2, DirsMade
  <2>3. HostsExplained(disk', mem, user)
    BY <1>4, <1>6, <1>7 DEF HostsExplained
  <2>4. AsideExplained(staging', trash', mem, Bound)
    BY <1>1, <1>2, <1>4, <1>5 DEF AsideExplained
  <2> QED BY <2>1, <2>2, <2>3, <2>4 DEF Explained
<1>9. InStep'
  BY <1>1 DEF UInv, Rest, InStep, Forward, Working, Done, Committed
<1>10. AtHand'
  <2>1. Traced(mem, user, cur)
    BY <1>2, <1>4, AtResult
  <2>2. disk'[op.path] = Result(cur)
    BY <1>2, <1>6
  <2> QED BY <1>1, <1>2, <2>1, <2>2 DEF AtHand, op
<1>11. KeptStays'
  <2>1. \A i \in Idx : Ops[i].kind = "rmdir" /\ disk[Ops[i].path] = Dir => disk'[Ops[i].path] = Dir
    BY <1>3, PathsOfOps
  <2> QED BY <1>1, <2>1 DEF UInv, Rest, KeptStays
<1>12. View' = mem'
  BY <1>1 DEF View
<1>13. Explained(disk, staging, trash, View, user, Bound)'
  BY <1>1, <1>5, <1>8, <1>12
<1> QED BY <1>1, <1>9, <1>10, <1>11, <1>13 DEF UInv, Rest

-----------------------------------------------------------------------------
(* The theorems.                                                           *)

\* Every step keeps the invariant.
LEMMA StepUndoable ==
  ASSUME PlanShape, UInv, [Next]_vars
  PROVE  UInv'
<1>1. TypeOK' /\ AtOp' /\ JournalAt'
  BY StepTyped, StepJournalAt DEF UInv
<1>2. Rest'
  <2>1. CASE Open \/ OpenFails \/ Begin \/ Resume \/ Refuse
    BY <1>1, <2>1, OpenRest, OpenFailsRest, BeginRest, ResumeRest
  <2>2. CASE Stage \/ Apply \/ ApplyFails \/ Sweep \/ Finish \/ LogFailure
    BY <1>1, <2>2, StageRest, ApplyRest, SweepRest, FinishRest, LogFailureRest
  <2>3. CASE Compensate \/ UndoOp \/ UndoRestore \/ Restore \/ UndoFails
    BY <1>1, <2>3, CompensateRest, UndoOpRest, UndoRestoreRest, RestoreRest
  <2>4. CASE Compensated \/ Discard \/ Discarded
    BY <1>1, <2>4, CompensatedRest, DiscardRest, OverRest
  <2>5. CASE Commit \/ CommitFails \/ Archive
    BY <1>1, <2>5, CommitRest, OverRest
  <2>6. CASE Recover \/ LoadNothing \/ Load \/ Decide
    BY <1>1, <2>6, RecoverRest, OverRest, LoadRest, DecideRest
  <2>7. CASE Crash \/ CrashInDiscard
    BY <1>1, <2>7, OverRest
  <2>8. ASSUME NEW x \in EditPath, NEW v \in EditValue, Edit(x, v) PROVE Rest'
    BY <1>1, <2>8, EditRest
  <2>9. CASE UNCHANGED vars
    <3>1. UNCHANGED <<disk, staging, trash, log, tail, journal, receipt, pc, mode, cur, mem, troubled, user>>
      BY <2>9 DEF vars
    <3>2. InStep' /\ AtHand' /\ KeptStays'
      BY <3>1 DEF UInv, Rest, InStep, AtHand, KeptStays, op, Glued, Committed
    <3>3. View' = View /\ Bound' = Bound
      BY <3>1 DEF View, Bound, Undone
    <3>4. Explained(disk, staging, trash, View, user, Bound)'
      BY <3>1, <3>3 DEF UInv, Rest
    <3> QED BY <3>1, <3>2, <3>4 DEF UInv, Rest
  <2> QED BY <2>1, <2>2, <2>3, <2>4, <2>5, <2>6, <2>7, <2>8, <2>9
             DEF Next, Command, Over, Execute, Reverse, Complete, Recovery
<1> QED BY <1>1, <1>2 DEF UInv

\* Nothing has happened yet.
LEMMA InitUndoable ==
  ASSUME PlanShape, Init
  PROVE  UInv
<1>1. TypeOK /\ AtOp
  BY InitTyped
<1>2. \A i \in Idx : ~IsBegun(NoProgress, i) /\ NoProgress.done[i] = None
  BY DEF NoProgress, IsBegun
<1>3. JournalAt
  BY DEF Init, JournalAt
<1>4. InStep
  BY <1>2 DEF Init, InStep, Extends, Alike, Glued, Forward, Working, Done
<1>5. AtHand /\ KeptStays
  BY <1>2 DEF Init, AtHand, KeptStays, None
<1>6. Records(log, user) /\ Records(mem, user)
  BY RecordsNone DEF Init
<1>7. Explained(disk, staging, trash, View, user, Bound)
  <2>1. DirsExplained(disk, View, user, Bound)
    BY DEF Init, DirsExplained, PlanShape, PathsApart, Dir, Absent
  <2> QED BY <2>1 DEF Init, Explained, FilesExplained, HostsExplained, AsideExplained
<1> QED BY <1>1, <1>3, <1>4, <1>5, <1>6, <1>7 DEF UInv, Rest

\* Whatever is on disk, the log explains it.
THEOREM ExplainedByLog ==
  ASSUME PlanShape
  PROVE  Spec => []UInv
<1>1. Init => UInv
  BY InitUndoable
<1>2. UInv /\ [Next]_vars => UInv'
  BY StepUndoable
<1> QED BY <1>1, <1>2, PTL DEF Spec

\* Every effect is logged before it happens: at any moment the log on disk names every
\* change and holds what it replaced, or the user did, whatever plan, faults and edits.
THEOREM WriteAheadHolds ==
  ASSUME PlanShape
  PROVE  Spec => []WriteAhead
<1>1. UInv => WriteAhead
  <2> SUFFICES ASSUME UInv, NEW p \in Path, disk[p] # user[p]
               PROVE  \E i \in Idx :
                        /\ IsBegun(log, i)
                        /\ \/ p \in log.missing[i]
                           \/ /\ Ops[i].path = p
                              /\ log.pre[i] = user[p] \/ Ops[i].kind \in {"rmdir", "exec"}
    BY DEF WriteAhead
  <2>1. \A i \in Idx : IsBegun(View, i) =>
          /\ IsBegun(log, i) /\ log.pre[i] = View.pre[i] /\ log.missing[i] = View.missing[i]
    BY DEF UInv, Rest, InStep, View, Extends, IsBegun
  <2>2. Explained(disk, staging, trash, View, user, Bound)
    BY DEF UInv, Rest
  <2>3. CASE p \in Dirs
    <3>1. InitDisk[p] \in {Dir, Absent}
      BY <2>3 DEF PlanShape, PathsApart
    <3>2. \E i \in Idx : IsBegun(View, i) /\ (p \in View.missing[i] \/ (Ops[i].kind = "rmdir" /\ Ops[i].path = p))
      BY <2>2, <2>3, <3>1 DEF Explained, DirsExplained
    <3> QED BY <2>1, <3>2
  <2>4. CASE p \in Registration
    BY <2>1, <2>2, <2>4 DEF Explained, HostsExplained
  <2>5. CASE p \notin Dirs \cup Registration
    <3>1. PICK j \in Idx : Ops[j].path = p /\ Traced(View, user, j)
      BY <2>2, <2>5 DEF Explained, FilesExplained
    <3>2. \E k \in Idx : IsBegun(View, k) /\ Ops[k].path = p /\ View.pre[k] = user[p]
      BY <3>1, TracedRoot
    <3> QED BY <2>1, <3>2
  <2> QED BY <2>3, <2>4, <2>5
<1> QED BY <1>1, ExplainedByLog, PTL

\* A transaction that is over and not committed leaves on every path what was there, or
\* what the user put there since; a directory that it made stays only around what is the
\* user's.  However often recovery was interrupted, and whichever of its steps failed.
THEOREM UndoneLeavesNoTraceHolds ==
  ASSUME PlanShape, Restorable
  PROVE  Spec => []UndoneLeavesNoTrace
<1>1. UInv => UndoneLeavesNoTrace
  <2> SUFFICES ASSUME UInv, Settled, ~Committed, NEW p \in Path \ Registration
               PROVE  disk[p] = user[p] \/ (disk[p] = Dir /\ Occupied(p))
    BY DEF UndoneLeavesNoTrace
  <2>1. journal = "none"
    BY DEF UInv, Rest, InStep, Settled
  <2>2. Bound = 0 /\ \A i \in Idx : ~(i <= 0)
    BY <2>1, IdxNat DEF Bound, Undone
  <2>3. Explained(disk, staging, trash, View, user, 0)
    BY <2>2 DEF UInv, Rest
  <2>4. CASE p \in Dirs
    <3>1. InitDisk[p] \in {Dir, Absent}
      BY <2>4 DEF PlanShape, PathsApart
    <3>2. disk[p] # user[p] => disk[p] = Dir /\ UserOccupied(disk, user, p)
      BY <2>2, <2>3, <2>4, <3>1 DEF Explained, DirsExplained
    <3> QED BY <3>2 DEF UserOccupied, Occupied
  <2>5. CASE p \notin Dirs
    BY <2>2, <2>3, <2>5 DEF Explained, FilesExplained
  <2> QED BY <2>4, <2>5
<1> QED BY <1>1, ExplainedByLog, PTL
=============================================================================
