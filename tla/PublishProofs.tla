---------------------------- MODULE PublishProofs ----------------------------
(***************************************************************************)
(* Proofs about Publish: for every set of directories, generations and     *)
(* children, and any number of failing calls and interrupts, readers see   *)
(* whole generations, what was published is kept until its successor is in *)
(* place for good, and a publication ends as it reports.  That a           *)
(* publication ends is left to model checking.                             *)
(***************************************************************************)
EXTENDS Publish, TLAPS

USE DEF Places, Copies, disk, local, Absent, Torn

\* Generations are trees.
LEMMA Generations ==
  /\ \A v \in Version : Whole(v) \in Content
  /\ Empty \in Content
BY DEF Whole, Content, Cell, Empty

\* Two generations are two trees: none is empty.
LEMMA GenerationsDiffer ==
  ASSUME NEW v \in Version, NEW w \in Version, Whole(v) = Whole(w)
  PROVE  v = w
<1>1. PICK n \in Name : n \in Children[v]
  BY ChildrenAssumption
<1>2. Whole(v)[n] = v /\ Whole(w)[n] \in {w, "absent"}
  BY <1>1 DEF Whole
<1> QED BY <1>2, VersionAssumption

\* What readers see is decided by the tree at the path.
LEMMA SeenIs ==
  /\ at["dest"] = None => Seen = None
  /\ \A v \in Version : at["dest"] # None /\ tree[at["dest"]] = Whole(v) => Seen = v
BY GenerationsDiffer DEF Seen

\* Where a copy reads and writes, and how far it got.
LEMMA Copying ==
  ASSUME IInv, pc \in Copies
  PROVE  /\ at["home"] = original /\ original \in Inode /\ hold
         /\ at["dest"] \in Inode /\ at["dest"] # original
         /\ snap \in Content /\ From \in Content /\ Into \in Content
         /\ \A m \in Name \ todo : Into[m] = From[m]
<1> USE Generations, NoneAssumption
    DEF IInv, TypeOK, Apart, Parked, Recovering, DestIsNew, New, Copied, From, Into
<1>1. CASE pc = "copysnap"
  BY <1>1
<1>2. CASE pc = "mirror"
  BY <1>2
<1>3. CASE pc = "restore"
  BY <1>3
<1> QED BY <1>1, <1>2, <1>3

\* Writing one child changes one child of the copy.
LEMMA Writing ==
  ASSUME IInv, pc \in Copies, NEW n \in Name, NEW cell \in Cell, WriteInto(n, cell),
         UNCHANGED <<at, pc>>
  PROVE  /\ tree' \in [Inode -> Content] /\ snap' \in Content
         /\ pc # "copysnap" => UNCHANGED snap
         /\ pc = "copysnap" => UNCHANGED tree
         /\ \A i \in Inode : i # original => tree'[i] = tree[i]
         /\ From' = From
         /\ Into'[n] = cell
         /\ \A m \in Name \ {n} : Into'[m] = Into[m]
<1>0. tree \in [Inode -> Content] /\ at \in [Places -> Inode \cup {None}]
  BY DEF IInv, TypeOK
<1> USE <1>0, Copying DEF WriteInto, From, Into, Content
<1>1. CASE pc = "copysnap"
  BY <1>1
<1>2. CASE pc = "mirror"
  BY <1>2
<1>3. CASE pc = "restore"
  BY <1>3
<1> QED BY <1>1, <1>2, <1>3

-----------------------------------------------------------------------------
(* The inductive invariant.                                               *)

\* Whatever is written into the copy, the rest of the invariant stands.
LEMMA CopyKeeps ==
  ASSUME IInv, pc \in Copies, NEW n \in Name, NEW cell \in Cell, WriteInto(n, cell),
         UNCHANGED <<at, hold, pc, original, want, ready, error, faults, was, outcome>>,
         todo' \subseteq todo, part' \in Name \cup {None},
         \A m \in Name \ todo' : Into'[m] = From[m]
  PROVE  IInv'
<1> USE Copying, Writing, NoneAssumption DEF IInv
<1>1. TypeOK'
  BY DEF TypeOK
<1>2. Apart' /\ Staged' /\ Counted'
  BY DEF Apart, Staged, Counted
<1>3. DestIsNew' /\ Copied(Into, From)'
  BY DEF Parked, Recovering, DestIsNew, New, Copied
<1>4. Parked'
  <2>1. CASE pc = "copysnap"
    BY <1>3, <2>1 DEF Parked, Old, From, Into
  <2>2. CASE pc = "mirror"
    BY <1>3, <2>2 DEF Parked, From, Into, DestIsNew, New
  <2>3. CASE pc = "restore"
    BY <2>3 DEF Parked
  <2> QED BY <2>1, <2>2, <2>3
<1>5. Recovering'
  BY <1>3 DEF Recovering, From, Into
<1>6. Ending'
  BY DEF Ending
<1> QED BY <1>1, <1>2, <1>4, <1>5, <1>6

\* A child that is torn was not copied yet.
LEMMA TearKeeps == ASSUME IInv, NEW n \in Name, Tear(n) PROVE IInv'
<1>1. Torn \in Cell
  BY DEF Cell
<1>2. \A m \in Name \ todo' : Into'[m] = From[m]
  BY <1>1, Copying, Writing DEF Tear
<1> QED BY <1>1, <1>2, CopyKeeps DEF Tear

\* A child that is written is one of the source.
LEMMA PutKeeps == ASSUME IInv, Put PROVE IInv'
<1>1. part \in Name /\ From[part] \in Cell
  BY Copying DEF Put, IInv, TypeOK, Content
<1>2. \A m \in Name \ todo' : Into'[m] = From[m]
  BY <1>1, Copying, Writing DEF Put
<1> QED BY <1>1, <1>2, CopyKeeps DEF Put

\* A finished copy is its source.
LEMMA CopyDoneKeeps == ASSUME IInv, CopyDone PROVE IInv'
<1> USE Generations, Copying DEF CopyDone, IInv
<1>1. Into = From
  BY DEF Content, TypeOK
<1>2. TypeOK' /\ Apart' /\ Staged' /\ Counted' /\ Ending'
  BY DEF TypeOK, Apart, Staged, Counted, Ending
<1>3. Parked' /\ Recovering'
  <2>1. CASE pc = "copysnap"
    BY <1>1, <2>1 DEF Parked, Recovering, DestIsNew, New, Old, From, Into
  <2>2. CASE pc = "mirror"
    BY <1>1, <2>2 DEF Parked, Recovering, DestIsNew, New, Old, From, Into
  <2>3. CASE pc = "restore"
    BY <1>1, <2>3 DEF Parked, Recovering, DestIsNew, New, Old, From, Into
  <2> QED BY <2>1, <2>2, <2>3
<1> QED BY <1>2, <1>3

\* A command that ends leaves a whole generation at the path.
LEMMA ExitKeeps == ASSUME IInv, Exit PROVE IInv'
<1> USE NoneAssumption DEF Exit, Forget, IInv
<1>1. TypeOK'
  <2>1. faults' \in 0..MaxFaults
    BY MaxFaultsAssumption
  <2> QED BY <2>1 DEF TypeOK
<1>2. Apart' /\ Staged' /\ Parked' /\ Recovering' /\ Ending' /\ Counted'
  BY DEF TypeOK, Apart, Staged, New, Old, Parked, DestIsNew, Copied, Recovering, Ending, Counted
<1> QED BY <1>1, <1>2

\* So does one that is killed.
LEMMA KillKeeps == ASSUME IInv, Kill PROVE IInv'
<1> USE NoneAssumption DEF Kill, Forget, IInv
<1>1. TypeOK'
  <2>1. faults' \in 0..MaxFaults
    BY MaxFaultsAssumption
  <2> QED BY <2>1 DEF TypeOK
<1>2. Apart' /\ Staged' /\ Parked' /\ Recovering' /\ Ending' /\ Counted'
  BY DEF TypeOK, Apart, Staged, New, Old, Parked, DestIsNew, Copied, Recovering, Ending, Counted
<1> QED BY <1>1, <1>2

\* Every step keeps the invariant.
LEMMA StepKeepsInv == ASSUME IInv, [Next]_vars PROVE IInv'
<1> USE ChildrenAssumption, VersionAssumption, MaxFaultsAssumption, NoneAssumption, Generations
    DEF IInv, TypeOK, Apart, Staged, New, Old, Parked, DestIsNew, Copied, Recovering,
        Ending, Counted
<1>1. CASE Refuse
  BY <1>1 DEF Refuse
<1>2. CASE FirstTime
  BY <1>2 DEF FirstTime
<1>3. CASE MakeHold
  BY <1>3 DEF MakeHold
<1>4. CASE Enter
  BY <1>4 DEF Enter
<1>5. CASE Swap
  BY <1>5 DEF Swap, Exchange
<1>6. CASE Park
  BY <1>6 DEF Park
<1>7. CASE MakeSnapshot
  BY <1>7 DEF MakeSnapshot
<1>8. CASE SnapshotReady
  BY <1>8 DEF SnapshotReady
<1>9. CASE SwapBack
  BY <1>9 DEF SwapBack, Exchange
<1>10. CASE Recover
  BY <1>10 DEF Recover
<1>11. CASE Undo
  BY <1>11 DEF Undo, Exchange
<1>12. CASE Finally
  BY <1>12 DEF Finally
<1>13. CASE ClearInside
  BY <1>13 DEF ClearInside
<1>14. CASE Clear
  BY <1>14 DEF Clear
<1>15. CASE Raise
  BY <1>15 DEF Raise, Handler
<1>16. CASE RemoveHold
  BY <1>16 DEF RemoveHold
<1>17. ASSUME NEW v \in Version, Begin(v) PROVE IInv'
  BY <1>17 DEF Begin, Seen
<1>18. CASE UNCHANGED vars
  BY <1>18 DEF vars, Into, From
<1> HIDE DEF IInv
<1> QED
  BY <1>1, <1>2, <1>3, <1>4, <1>5, <1>6, <1>7, <1>8, <1>9, <1>10, <1>11,
     <1>12, <1>13, <1>14, <1>15, <1>16, <1>17, <1>18,
     TearKeeps, PutKeeps, CopyDoneKeeps, ExitKeeps, KillKeeps DEF Next, Step

\* install_directory knows, at each of its calls, where the old and the new tree are:
\* also in its error handling, whatever raised, and after a killed command.
THEOREM InductiveInvariant == Spec => []IInv
<1>1. Init => IInv
  <2> SUFFICES ASSUME Init PROVE IInv
    OBVIOUS
  <2>1. TypeOK
    <3>1. at \in [Places -> Inode \cup {None}] /\ tree \in [Inode -> Content]
      BY Generations DEF Init
    <3>2. faults \in 0..MaxFaults
      BY MaxFaultsAssumption DEF Init
    <3> QED BY <3>1, <3>2 DEF Init, TypeOK
  <2>2. Apart /\ Staged /\ Parked /\ Recovering /\ Ending /\ Counted
    BY NoneAssumption DEF Init, Apart, Staged, Parked, Recovering, Ending, Counted
  <2> QED BY <2>1, <2>2 DEF IInv
<1> QED BY <1>1, StepKeepsInv, PTL DEF Spec

-----------------------------------------------------------------------------
(* What it implies.                                                       *)

\* The old generation is whole somewhere until the closing exchange, and no command
\* overwrites what a killed one left parked.
THEOREM OldIsKept == Spec => OldKept
<1>1. IInv => Safe
  BY Generations, NoneAssumption
     DEF IInv, TypeOK, Staged, Parked, Recovering, Safe, Working, Holds, Old
<1>2. ASSUME IInv, [Next]_vars PROVE Unparks \/ UNCHANGED vars
  <2>1. CASE Park
    BY <1>2, <2>1 DEF Park, IInv, Parked, Unparks
  <2>2. CASE SwapBack
    BY <1>2, <2>2 DEF SwapBack, Exchange, IInv, TypeOK, Unparks
  <2>3. CASE Undo
    BY <1>2, <2>3 DEF Undo, Exchange, IInv, TypeOK, Unparks
  <2>4. CASE Kill \/ Exit \/ FirstTime \/ Swap \/ \E v \in Version : Begin(v)
    BY <1>2, <2>4 DEF Kill, Exit, FirstTime, Swap, Begin, Exchange, IInv, TypeOK, Unparks
  <2>5. CASE ClearInside \/ RemoveHold
    BY <1>2, <2>5 DEF ClearInside, RemoveHold, Unparks
  <2>6. CASE \/ Refuse \/ MakeHold \/ Enter \/ MakeSnapshot \/ Put \/ CopyDone \/ SnapshotReady
             \/ Recover \/ Finally \/ Clear \/ Raise \/ \E n \in Name : Tear(n)
    BY <2>6 DEF Refuse, MakeHold, Enter, MakeSnapshot, Put, CopyDone, SnapshotReady,
         Recover, Finally, Clear, Raise, Tear, Unparks
  <2> QED
    BY <1>2, <2>1, <2>2, <2>3, <2>4, <2>5, <2>6 DEF Next, Step
<1>3. IInv /\ [Next]_vars => [Unparks]_vars
  BY <1>2
<1> QED BY <1>1, <1>3, InductiveInvariant, PTL DEF Spec, OldKept

\* A publication that reports success shows the new generation on the old directory,
\* with nothing beside it; one that failed once is undone or was over.
THEOREM EndsAsItReports == Spec => EndsAsReported
<1>1. ASSUME IInv, [Next]_vars, pc # "idle", pc' = "idle" PROVE Exit \/ Kill
  BY <1>1 DEF Next, Step, vars, Refuse, FirstTime, MakeHold, Enter, Swap, Park, MakeSnapshot,
       Put, CopyDone, SnapshotReady, SwapBack, Recover, Undo, Finally, ClearInside, Clear,
       Raise, Handler, RemoveHold, Begin, Tear, IInv, TypeOK
<1>2. ASSUME IInv, Exit PROVE Ends
  <2>1. ~error => Seen = want
    BY <1>2, SeenIs, NoneAssumption DEF Exit, IInv, Ending, Counted, DestIsNew, New
  <2>2. original # None /\ faults < 2 => at["dest"] = original /\ Seen \in {was, want}
    BY <1>2, SeenIs DEF Exit, IInv, TypeOK, Ending, Counted, New, Old
  <2>3. ~error => ~hold /\ at["home"] = None /\ snap = None /\ faults = 0
    BY <1>2 DEF Exit, IInv, Apart, Ending, Counted
  <2> QED
    BY <1>2, <2>1, <2>2, <2>3 DEF Exit, Ends
<1>3. ASSUME Kill PROVE Ends
  BY <1>3 DEF Kill, Ends
<1>4. IInv /\ [Next]_vars => [Ends]_vars
  BY <1>1, <1>2, <1>3 DEF Ends
<1> QED BY <1>4, InductiveInvariant, PTL DEF Spec, EndsAsReported

\* What readers see changes only by the exchanges.
LEMMA SeenStays ==
  ASSUME IInv, UNCHANGED at["dest"],
         at["dest"] # None => UNCHANGED tree[at["dest"]]
  PROVE  Seen' = Seen
BY DEF Seen

\* Readers of the path see whole generations: Publish implements WholeTree.
THEOREM ReadersSeeWholeTrees == Spec => ReadersSeeWhole
<1> USE DEF Reader!vars
<1>1. Init => Reader!Init
  BY SeenIs, NoneAssumption DEF Init, Reader!Init
<1>2. ASSUME IInv, IInv', [Next]_vars
      PROVE  Reader!Next \/ UNCHANGED <<Seen, was, want, outcome>>
  <2> USE <1>2
  <2>1. ASSUME NEW v \in Version, Begin(v) PROVE Reader!Begin(v)
    BY <2>1, SeenStays DEF Begin, Reader!Begin, IInv, TypeOK, Counted
  <2>2. CASE FirstTime \/ Swap
    <3>1. Seen' = want
      BY <2>2, SeenIs, NoneAssumption
         DEF FirstTime, Swap, Exchange, IInv, TypeOK, Staged, Counted, New, Seen
    <3> QED BY <2>2, <3>1 DEF FirstTime, Swap, Reader!Show, Reader!Next, IInv, TypeOK, Counted
  <2>3. CASE SwapBack
    <3>1. Seen' = want
      BY <2>3, SeenIs, NoneAssumption
         DEF SwapBack, Exchange, IInv, TypeOK, Parked, Counted, New, Seen
    <3> QED BY <2>3, <3>1 DEF SwapBack, Reader!Show, Reader!Next, IInv, Counted
  <2>4. CASE Undo
    <3>1. Seen' = was
      BY <2>4, SeenIs, NoneAssumption
         DEF Undo, Exchange, IInv, TypeOK, Apart, Recovering, Old, Seen
    <3> QED BY <2>4, <3>1 DEF Undo, Reader!Withdraw, Reader!Next, IInv, Counted
  <2>5. CASE Exit
    <3>1. Seen' = Seen
      BY <2>5, SeenStays DEF Exit, IInv, TypeOK
    <3>2. ~error => Seen = want
      BY <2>5, SeenIs, NoneAssumption DEF Exit, IInv, Ending, Counted, DestIsNew, New
    <3> QED
      BY <2>5, <3>1, <3>2 DEF Exit, IInv, Counted, Reader!Succeed, Reader!Fail, Reader!Next
  <2>6. CASE Kill
    <3>1. Seen' = Seen
      BY <2>6, SeenStays DEF Kill, IInv, TypeOK
    <3> QED BY <2>6, <3>1 DEF Kill, IInv, Counted, Reader!Fail, Reader!Next
  <2>7. CASE Put \/ \E n \in Name : Tear(n)
    <3>1. PICK n \in Name, cell \in Cell :
            pc \in Copies /\ WriteInto(n, cell) /\ UNCHANGED <<at, pc, was, want, outcome>>
      <4>1. CASE Put
        BY <4>1, Copying DEF Put, IInv, TypeOK, Content
      <4>2. CASE \E n \in Name : Tear(n)
        BY <4>2 DEF Tear, Cell
      <4> QED BY <2>7, <4>1, <4>2
    <3>2. at["dest"] \in Inode /\ tree'[at["dest"]] = tree[at["dest"]]
      BY <3>1, Copying, Writing
    <3> QED BY <3>1, <3>2, SeenStays
  <2>8. CASE \/ Refuse \/ MakeHold \/ Enter \/ Park \/ MakeSnapshot \/ CopyDone \/ SnapshotReady
             \/ Recover \/ Finally \/ ClearInside \/ Clear \/ Raise \/ RemoveHold \/ UNCHANGED vars
    <3>1. UNCHANGED <<at["dest"], tree, was, want, outcome>>
      BY <2>8 DEF Refuse, MakeHold, Enter, Park, MakeSnapshot, CopyDone, SnapshotReady, Recover,
           Finally, ClearInside, Clear, Raise, RemoveHold, vars, IInv, TypeOK
    <3> QED BY <3>1, SeenStays
  <2> QED
    BY <2>1, <2>2, <2>3, <2>4, <2>5, <2>6, <2>7, <2>8 DEF Next, Step, Reader!Next
<1>3. IInv /\ IInv' /\ [Next]_vars => [Reader!Next]_(Reader!vars)
  BY <1>2
<1> QED BY <1>1, <1>3, InductiveInvariant, PTL DEF Spec, Reader!Spec, ReadersSeeWhole

=============================================================================
