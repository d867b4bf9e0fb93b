---------------------------- MODULE ProjectProofs ----------------------------
(***************************************************************************)
(* Proofs about Project, for every set of vendors, revisions, inputs and   *)
(* engines, and any number of failures, edits and commands: what is locked *)
(* was accepted and names the pinned revisions, a pin keeps its snapshot,  *)
(* what is built is what is locked, a command that fails leaves no trace,  *)
(* and what one that succeeds leaves agrees and can be reproduced.         *)
(*                                                                         *)
(* The invariant says of each step that is left what it finds when its     *)
(* turn comes (module Plans).                                              *)
(***************************************************************************)
EXTENDS Project, Plans

-----------------------------------------------------------------------------
(* What the steps of a command need, and which steps see to it.            *)

Placed == {"source", "index", "scan"}
Plain  == {"register", "append", "manifest", "baseline", "working", "scaffold", "accepted", "existing", "reconcile",
           "compose", "seal", "writelock", "install", "snapshot", "legacy", "fetch", "notice", "bake", "npm", "npmclear", "npmcopy"}
StepSet == (Plain \X {None}) \cup (Placed \X Vendor)
Mirroring == {"fetch", "index", "notice", "npm", "npmclear", "npmcopy"}
Sealing   == {"existing", "source", "compose", "seal", "writelock"}

\* The steps a command consists of.
StepsOf(c) ==
  CASE c = "manage"  -> {"register", "snapshot", "legacy", "bake"} \cup Mirroring
    [] c = "refresh" -> {"legacy", "bake"} \cup Mirroring
    [] c = "add"     -> {"scan", "append", "scaffold", "accepted"} \cup Sealing \cup (IF Compat THEN {"legacy"} ELSE {})
    [] c = "lock"    -> {"accepted"} \cup Sealing
    [] c = "fetch"   -> {"source"}
    [] c = "build"   -> {"source", "compose", "seal", "install"}
    [] c = "repin"   -> {"baseline", "working", "manifest", "reconcile", "legacy"} \cup Sealing \cup Mirroring

\* Steps that replace the manifest.
Writes == {"register", "append", "manifest", "baseline", "working"}

\* A fact: the steps that need it, those that see to it, and those that upset it.
LegibleF    == << {"source", "writelock"}, { <<"existing", None>> }, {"working"} >>
UntouchedF  == << {"existing", "writelock"}, {}, {"writelock"} >>
AcceptedF   == << {"compose", "seal"}, { <<"accepted", None>>, <<"manifest", None>> }, Writes \ {"manifest"} >>
ResolvedF(v) == << {"seal"}, { <<"source", v>> }, Writes \cup {"seal"} >>
ComposedF   == << {"seal"}, { <<"compose", None>> }, Writes \cup {"source", "seal"} >>
SealedF     == << {"writelock", "install"}, { <<"seal", None>> }, Writes >>
TargetedF   == << {"seal", "end"}, { <<"manifest", None>> }, {"baseline", "working"} >>
WrittenF    == << {"end"}, { <<"writelock", None>>, <<"scaffold", None>> }, Writes \cup {"seal"} >>
ReadableF   == << {"index", "notice", "bake"}, { <<"fetch", None>>, <<"legacy", None>> }, {} >>
LegacyF     == << {"end"}, { <<"legacy", None>> }, Writes >>
IndexedF(v) == << {"end"}, { <<"index", v>> }, {"legacy"} >>
NoticedF    == << {"end"}, { <<"notice", None>> }, {"legacy"} >>
BakedF      == << {"end"}, { <<"bake", None>> }, {"legacy"} >>
MirroredF   == << {"end"}, { <<"npm", None>> }, {"legacy", "index", "notice"} >>
CopiedF     == << {"end"}, { <<"npmcopy", None>> }, {"bake", "npmclear"} >>

\* The facts by name; two are about a vendor.
Fact(v) ==
  [legible |-> LegibleF, untouched |-> UntouchedF, accepted |-> AcceptedF, resolved |-> ResolvedF(v),
   composed |-> ComposedF, sealed |-> SealedF, targeted |-> TargetedF, written |-> WrittenF,
   readable |-> ReadableF, legacy |-> LegacyF, indexed |-> IndexedF(v), noticed |-> NoticedF,
   baked |-> BakedF, mirrored |-> MirroredF, copied |-> CopiedF]

Reliant(s, f) == Relies(s, f[1], f[2], f[3])
Planned(s, f) == Sound(s, f[1], f[2], f[3])
Due(f)        == Reliant(todo, f)

-----------------------------------------------------------------------------
(* The facts.                                                              *)

Snapshots(m, v) == IF m[v] = None THEN {None} ELSE {Upstream(v, m[v].sha), Local(v, m[v].sha)}

\* A lock was accepted, and names a snapshot for every pin; the pins it shares with an
\* earlier one have the snapshots they had; and nothing but the repository itself
\* went into it.
LockFits(l) ==
  l \in Lockfile => Pending(l.manifest) = {} /\ \A v \in Vendor : l.src[v] \in Snapshots(l.manifest, v)
LockKeeps(old, l) ==
  \A v \in Declared(l.manifest) : Unchanged(old, l.manifest, v) => l.src[v] = old.src[v]
Stored(s) == \A v \in Vendor : s[v] # None => store[s[v]] = "good"
Reproduces(l) ==
  /\ l.manifest = files.manifest /\ l.inputs = inputs /\ l.builder = engine
  /\ l.out = Artifacts(files.manifest, inputs, engine, l.src)
  /\ Stored(l.src)

ResolvedFits(v) ==
  /\ src[v] \in Snapshots(files.manifest, v)
  /\ files.manifest[v] # None /\ Unchanged(LockInUse, files.manifest, v) => src[v] = LockInUse.src[v]
  /\ edits = began /\ src[v] # None => store[src[v]] = "good"
ComposedFits ==
  /\ out \in Artifact /\ Pending(out[1]) = {}
  /\ edits = began => out = Artifacts(files.manifest, inputs, engine, src)
SealedFits ==
  /\ sealed \in Lockfile /\ sealed.layout = "canonical" /\ LockFits(sealed) /\ LockKeeps(LockInUse, sealed)
  /\ Pending(sealed.out[1]) = {}
  /\ cmd = "repin" => sealed.manifest = target
  /\ edits = began => Reproduces(sealed)
WrittenFits ==
  /\ sealed \in Lockfile /\ files.lock = sealed /\ sealed.layout = "canonical" /\ LockFits(sealed)
  /\ cmd = "repin" => sealed.manifest = target
  /\ edits = began => Reproduces(sealed)
IndexFits(v) == files.legacy[v] # None => IndexMatches(files, v)
MirrorFits ==
  /\ files.npm.legacy = files.legacy /\ files.npm.notice = files.notice
  /\ \A v \in Vendor : files.index[v] # None => files.npm.index[v] = files.index[v]

\* Commands that publish the registry and what is generated from it.
Publishing == cmd \in {"refresh", "manage"} \/ (cmd = "repin" /\ saved.legacy # None)
Recording  == cmd \in {"add", "lock", "repin"}

LockPlan ==
  /\ Planned(todo, LegibleF) /\ Planned(todo, UntouchedF) /\ Planned(todo, AcceptedF)
  /\ Planned(todo, ComposedF) /\ Planned(todo, SealedF)
  /\ \A v \in Vendor : Planned(todo, ResolvedF(v))
  /\ cmd = "repin" => Planned(todo, TargetedF)
  /\ Recording => Planned(todo, WrittenF)
LockFacts ==
  /\ Due(LegibleF) => LockInUse # Torn
  /\ Due(UntouchedF) => files.lock = saved.lock
  /\ Due(AcceptedF) => Pending(files.manifest) = {}
  /\ cmd # "fetch" => \A v \in Vendor : Due(ResolvedF(v)) => ResolvedFits(v)
  /\ Due(ComposedF) => ComposedFits
  /\ Due(SealedF) => SealedFits
  /\ cmd = "repin" /\ Due(TargetedF) => files.manifest = target
  /\ Recording /\ Due(WrittenF) => WrittenFits

MirrorPlan ==
  /\ Planned(todo, ReadableF)
  /\ Publishing => /\ Planned(todo, LegacyF) /\ Planned(todo, NoticedF) /\ Planned(todo, MirroredF) /\ Planned(todo, CopiedF)
                   /\ \A v \in Vendor : Planned(todo, IndexedF(v))
  /\ cmd \in {"refresh", "manage"} => Planned(todo, BakedF)
MirrorFacts ==
  /\ Due(ReadableF) => Readable(files.legacy)
  /\ Publishing => /\ Due(LegacyF) => LegacyCheck(files)
                   /\ Due(NoticedF) => files.notice = Listed(files.legacy)
                   /\ Due(MirroredF) => MirrorFits
                   /\ Due(CopiedF) => files.npm.baked = files.baked
                   /\ \A v \in Vendor : Due(IndexedF(v)) => IndexFits(v)
  /\ cmd \in {"refresh", "manage"} /\ Due(BakedF) => files.baked = files.legacy

-----------------------------------------------------------------------------
(* What a command may have changed, and what is put back.                  *)

Kept(S) == \A f \in Tracked \ S : files[f] = saved[f]
AddWrites == {"manifest", "lock"} \cup (IF Compat THEN {"legacy"} ELSE {})
MayDiffer ==
  CASE cmd = "manage" -> IF Len(todo) > Len(Refreshing) THEN {"manifest", "legacy"} ELSE Tracked \ {"lock"}
    [] cmd = "add" -> IF todo # << >> /\ Head(todo)[1] = "scan" THEN {} ELSE AddWrites
    [] cmd = "lock" -> IF todo = << >> THEN {"lock"} ELSE {}
    [] cmd \in {"build", "fetch"} -> {}
    [] OTHER -> Tracked

\* What comes before a managing command refreshes.
Leading(i, s) ==
  /\ i + Len(Refreshing) = Len(s) => s[i][1] = "snapshot"
  /\ i + Len(Refreshing) + 1 = Len(s) => s[i][1] = "legacy"
  /\ i + Len(Refreshing) + 1 < Len(s) => s[i][1] = "register"

\* What the registry is before that.
Registered ==
  cmd = "manage" =>
    /\ Len(todo) = Len(Refreshing) + 2 => files.manifest = target
    /\ Capturing => files.manifest = target /\ files.legacy = Registry(target)

\* The failures of a transaction that count, by what was raised.
Counted(kind) == kind = "error" \/ cmd = "repin" \/ (cmd = "manage" /\ ~Registering)

\* The manifest and the registry are written first, and what is generated is copied next;
\* a tree is looked at before that; and the lock is written last.
InOrder ==
  /\ todo \in Seq(StepSet)
  /\ \A i \in DOMAIN todo :
       /\ todo[i][1] \in StepsOf(cmd)
       /\ cmd = "manage" => Leading(i, todo)
       /\ todo[i][1] = "scan" => i = 1 /\ target[todo[i][2]] # None
       /\ cmd = "lock" /\ todo[i][1] = "writelock" => i = Len(todo)
       /\ todo[i][1] = "scaffold" => ~Transactional

-----------------------------------------------------------------------------
(* The inductive invariant.                                               *)

Idle == cmd = None => raised = None /\ todo = << >> /\ undo = {}
Begun ==
  cmd # None =>
    /\ cmd \in CommandName
    /\ saved \in Repository /\ saved.manifest \in Manifest /\ LockFits(saved.lock)
    /\ target \in Manifest /\ (cmd = "repin" => Pending(target) = {})
    /\ began \in Nat /\ edits \in Nat /\ began <= edits
    /\ files.lock # saved.lock =>
         /\ saved.lock # Torn
         /\ \/ files.lock \in Lockfile /\ LockKeeps(saved.lock, files.lock)
            \/ files.lock = Torn /\ raised # None /\ "lock" \notin undo
    /\ cmd \in {"manage", "refresh", "fetch"} => sealed = None
Going ==
  cmd # None /\ raised = None =>
    /\ files.manifest \in Manifest /\ undo = {} /\ ~noted
    /\ InOrder /\ LockPlan /\ LockFacts /\ MirrorPlan /\ MirrorFacts
    /\ Kept(MayDiffer) /\ Registered
Failed ==
  raised # None =>
    /\ cmd = "manage" /\ Capturing => undo = {}
    /\ ~noted /\ Transactional /\ Counted(raised) => \A f \in Tracked \ undo : files[f] = Was(f)
Right ==
  /\ LockFits(files.lock) /\ RefsAreUpstream
  /\ files.dist # None => Pending(files.dist[1]) = {}
  /\ noted \in BOOLEAN /\ edits \in Nat

IInv == TypeOK /\ Idle /\ Begun /\ Going /\ Failed /\ Right

-----------------------------------------------------------------------------
(* How each step changes the repository, the cache and what was built.     *)

step == Head(todo)[1]

\* What is absent is neither an error nor a command.
LEMMA NoneIsNoString ==
  None # "error" /\ None # "interrupt" /\ None \notin CommandName
BY NoneAssumption

\* A step that is taken finds the facts it needs; and what the rest of the plan relies on
\* was established by the step, or was relied on before and not upset by it.
LEMMA Advancing ==
  ASSUME todo \in Seq(StepSet), todo # << >>, NEW f, Planned(todo, f)
  PROVE  /\ step \in f[1] => Due(f)
         /\ todo' = Tail(todo) =>
              Planned(todo', f) /\ (Due(f)' => Head(todo) \in f[2] \/ (Due(f) /\ step \notin f[3]))
<1>1. Sound(todo, f[1], f[2], f[3])
  BY DEF Planned
<1>2. step \in f[1] => Due(f)
  BY ReliesNow DEF Due, Reliant, step
<1>3. /\ Sound(Tail(todo), f[1], f[2], f[3])
      /\ Relies(Tail(todo), f[1], f[2], f[3]) => Head(todo) \in f[2] \/ (Due(f) /\ step \notin f[3])
  BY <1>1, ReliesNext DEF Due, Reliant, step
<1>4. Due(f)' <=> Relies(todo', f[1], f[2], f[3])
  BY DEF Due, Reliant
<1> QED BY <1>2, <1>3, <1>4 DEF Planned

\* When no step is left, the facts that a success needs hold.
LEMMA Over ==
  ASSUME todo = << >>, NEW f, "end" \in f[1]
  PROVE  Due(f)
BY ReliesOver DEF Due, Reliant

Running == cmd # None /\ raised = None /\ todo # << >>

\* A step is a name and what it is about; the steps of a vendor name one of it.
LEMMA StepShape ==
  ASSUME todo \in Seq(StepSet), todo # << >>
  PROVE  /\ Head(todo) = <<step, Arg>> /\ 1 \in DOMAIN todo /\ Head(todo) = todo[1]
         /\ step \in Placed => Arg \in Vendor
<1>1. Head(todo) \in StepSet /\ 1 \in DOMAIN todo /\ Head(todo) = todo[1]
  OBVIOUS
<1> QED BY <1>1 DEF StepSet, Placed, Plain, step, Arg

\* Snapshots of different origin or of none.
LEMMA Digests ==
  \A v \in Vendor, r \in Rev :
    /\ Upstream(v, r) \in Digest /\ Local(v, r) \in Digest
    /\ Upstream(v, r) # None /\ Local(v, r) # None
<1>1. \A v \in Vendor, r \in Rev : Upstream(v, r) \in Digest /\ Local(v, r) \in Digest
  BY DEF Digest
<1>2. None \notin Digest
  BY NoneAssumption
<1> QED BY <1>1, <1>2

\* The lock a pin is compared with names a snapshot of that pin.
LEMMA LockedSnapshots ==
  ASSUME TypeOK, Begun, Going, Running, step = "source",
         NEW m \in Manifest, NEW v \in Vendor, m[v] # None, Unchanged(LockInUse, m, v)
  PROVE  LockInUse \in Lockfile /\ LockInUse.src[v] \in Snapshots(m, v) /\ LockInUse.src[v] \in Digest
<1>1. LockInUse # Torn
  BY Advancing DEF Going, InOrder, LockPlan, LockFacts, Running, LegibleF
<1>2. saved \in Repository /\ LockFits(saved.lock) /\ LockInUse \in {None, saved.lock}
  BY DEF Running, Begun, LockInUse
<1>3. LockInUse \in Lockfile /\ LockFits(LockInUse)
  BY <1>1, <1>2 DEF Unchanged, Repository
<1>4. LockInUse.manifest[v] # None /\ LockInUse.manifest[v].sha = m[v].sha
  BY DEF Unchanged
<1>5. m[v] \in Entry /\ m[v].sha \in Rev
  BY DEF Manifest, Entry
<1> QED BY <1>3, <1>4, <1>5, Digests DEF LockFits, Snapshots, Unchanged

\* A source that is resolved is a snapshot of the pin, the locked one if the pin is
\* unchanged, and it is in the cache.
LEMMA SourceTaken ==
  ASSUME TypeOK, Begun, Going, RefsAreUpstream, Running, TakeSource
  PROVE  /\ Arg \in Vendor /\ step = "source"
         /\ \/ Abort
            \/ Skip(Arg) /\ (files.manifest[Arg] = None \/ cmd = "fetch")
            \/ /\ files.manifest[Arg] \in Entry
               /\ \E d \in Snapshots(files.manifest, Arg) \cap Digest,
                     ref \in {None, Upstream(Arg, files.manifest[Arg].sha)} :
                    /\ Got(Arg, d, "good", ref)
                    /\ Unchanged(LockInUse, files.manifest, Arg) => d = LockInUse.src[Arg]
<1> DEFINE m == files.manifest
           r == m[Arg].sha
           expected == Expected(LockInUse, m, Arg)
<1>1. m \in Manifest /\ todo \in Seq(StepSet) /\ step = "source" /\ Arg \in Vendor
  <2>1. InOrder /\ m \in Manifest
    BY DEF Going, Running
  <2>2. step = "source" /\ todo \in Seq(StepSet)
    BY <2>1 DEF InOrder, TakeSource, Doing, step
  <2> QED BY <2>1, <2>2, StepShape DEF Running, Placed
<1>2. CASE m[Arg] = None
  BY <1>1, <1>2 DEF TakeSource
<1>3. CASE m[Arg] # None
  <2>1. m[Arg] \in Entry /\ r \in Rev /\ Snapshots(m, Arg) = {Upstream(Arg, r), Local(Arg, r)}
    BY <1>1, <1>3 DEF Manifest, Entry, Snapshots
  <2>2. Upstream(Arg, r) \in Digest /\ Local(Arg, r) \in Digest /\ Upstream(Arg, r) # None
    BY <1>1, <2>1, Digests
  <2>3. Unchanged(LockInUse, m, Arg)
        => /\ expected = LockInUse.src[Arg] /\ expected # None
           /\ expected \in Snapshots(m, Arg) /\ expected \in Digest
    BY <1>1, <1>3, LockedSnapshots DEF Expected, Unchanged
  <2>4. ~Unchanged(LockInUse, m, Arg) => expected = None
    BY DEF Expected
  <2>5. refs[<<Arg, r>>] \in {None, Upstream(Arg, r)}
    BY <1>1, <2>1 DEF RefsAreUpstream
  <2>6. ASSUME TakeSnapshot(Arg, r, expected)
        PROVE  \/ Abort
               \/ \E d \in Snapshots(m, Arg) \cap Digest, ref \in {None, Upstream(Arg, r)} :
                    /\ Got(Arg, d, "good", ref)
                    /\ Unchanged(LockInUse, m, Arg) => d = LockInUse.src[Arg]
    <3> DEFINE d == Resolved(Arg)
               held == IF d = None THEN "none" ELSE store[d]
    <3>1. d = IF expected # None THEN expected ELSE refs[<<Arg, r>>]
      BY DEF Resolved
    <3>2. CASE held = "bad"
      BY <2>6, <3>2 DEF TakeSnapshot
    <3>3. CASE held = "good"
      <4>1. d # None /\ Got(Arg, d, "good", refs[<<Arg, r>>])
        BY <2>6, <3>3 DEF TakeSnapshot
      <4>2. d \in Snapshots(m, Arg) \cap Digest
        BY <2>1, <2>2, <2>3, <2>4, <2>5, <3>1, <4>1
      <4>3. Unchanged(LockInUse, m, Arg) => d = LockInUse.src[Arg]
        BY <2>3, <3>1
      <4> QED BY <2>5, <4>1, <4>2, <4>3
    <3>4. CASE held \notin {"bad", "good"}
      <4>1. \/ Abort
            \/ expected \in {None, Upstream(Arg, r)} /\ Got(Arg, Upstream(Arg, r), "good", Upstream(Arg, r))
        BY <2>6, <3>4 DEF TakeSnapshot
      <4> QED BY <2>1, <2>2, <2>3, <4>1
    <3> QED BY <3>2, <3>3, <3>4
  <2>7. CASE Arg \in supplied
    <3>1. \/ Abort
          \/ Skip(Arg) /\ cmd = "fetch"
          \/ expected \in {None, Local(Arg, r)} /\ Got(Arg, Local(Arg, r), "good", refs[<<Arg, r>>])
      BY <1>3, <2>7 DEF TakeSource
    <3> QED BY <1>1, <2>1, <2>2, <2>3, <2>5, <3>1
  <2>8. CASE Arg \notin supplied
    <3>1. \/ Abort
          \/ Skip(Arg) /\ cmd = "fetch"
          \/ TakeSnapshot(Arg, r, expected)
      BY <1>3, <2>8 DEF TakeSource
    <3> QED BY <1>1, <2>1, <2>6, <3>1
  <2> QED BY <2>7, <2>8
<1> QED BY <1>2, <1>3

Frame ==
  /\ UNCHANGED <<inputs, engine, args, cmd, fault, edits, outcome>>
  /\ IF step \in Writes THEN files'.manifest \in Manifest ELSE files'.manifest = files.manifest
  /\ step # "writelock" => files'.lock = files.lock
  /\ step # "legacy" => files'.legacy = files.legacy
  /\ step # "index" => files'.index = files.index
  /\ step # "notice" => files'.notice = files.notice
  /\ step # "bake" => files'.baked = files.baked
  /\ step # "install" => files'.dist = files.dist
  /\ step \notin {"npm", "npmclear", "npmcopy"} => files'.npm = files.npm
  /\ step \notin {"source", "seal"} => src' = src
  /\ step \notin {"compose", "seal"} => out' = out
  /\ step # "seal" => sealed' = sealed
  /\ \A d \in Digest : store[d] = "good" => store'[d] = "good"

\* A step is taken, or aborts, or leaves the scaffold unpublished.
LEMMA StepKinds ==
  ASSUME TypeOK, Begun, Going, RefsAreUpstream, Running, Step
  PROVE  \/ todo' = Tail(todo) /\ Frame /\ TypeOK'
         \/ Abort
         \/ LeaveScaffold
<1> USE DEF Running, Frame, Doing, Put, Keeping, Advance, args, built, fault, step, Writes
<1>0. /\ files.manifest \in Manifest /\ InOrder /\ MirrorFacts /\ MirrorPlan
      /\ saved.manifest \in Manifest /\ target \in Manifest
  BY DEF Going, Begun
<1>1. /\ todo \in Seq(StepSet) /\ Head(todo) = <<step, Arg>>
      /\ step \in {"source", "index", "scan"} => Arg \in Vendor
  BY <1>0, StepShape DEF InOrder, Placed
<1>r. files \in Repository
  BY DEF TypeOK
<1>2. CASE Register \/ AppendVendor \/ PublishManifest \/ PutBaseline \/ PutWorking
  <2>1. PICK m \in Manifest : Put("manifest", m) /\ step \in Writes
    BY <1>2, <1>0, InitAssumption DEF Register, AppendVendor, PublishManifest, PutBaseline, PutWorking
  <2>2. files' \in Repository /\ \A f \in DOMAIN files \ {"manifest"} : files'[f] = files[f]
    BY <1>r, <2>1 DEF Repository
  <2> QED BY <1>r, <2>1, <2>2 DEF TypeOK, Repository
<1>3. CASE LeaveScaffold
  BY <1>3
<1>4. CASE WriteLegacy
  <2>1. CASE Abort
    BY <2>1
  <2>2. CASE Put("legacy", Registry(files.manifest))
    <3>1. Registry(files.manifest) \in Pins
      BY <1>0 DEF Registry, Pins, Manifest, Entry
    <3> QED BY <1>4, <1>r, <2>2, <3>1 DEF WriteLegacy, TypeOK, Repository
  <2> QED BY <1>4, <2>1, <2>2 DEF WriteLegacy
<1>q. ASSUME UNCHANGED files, Keeping, Advance PROVE todo' = Tail(todo) /\ Frame /\ TypeOK'
  BY <1>0, <1>q DEF TypeOK
<1>5. CASE SnapshotArtifacts \/ FetchTrees \/ RequireAccepted \/ ReadExisting \/ Reconcile
  BY <1>5, <1>q DEF SnapshotArtifacts, FetchTrees, RequireAccepted, ReadExisting, Reconcile
<1>6. CASE NotOffered
  BY <1>6 DEF NotOffered
<1>7. CASE WriteIndex
  <2>1. step = "index" /\ Arg \in Vendor
    BY <1>1, <1>7 DEF WriteIndex
  <2>2. files.legacy \in Pins
    <3>1. Readable(files.legacy)
      BY <1>0, <1>1, <2>1, Advancing DEF MirrorFacts, MirrorPlan, ReadableF
    <3> QED BY <1>r, <3>1 DEF Repository, Readable
  <2>3. files.index \in Indexes
    BY <1>r DEF Repository
  <2>4. CASE Put("index", [files.index EXCEPT ![Arg] = files.legacy[Arg]])
    <3>1. [files.index EXCEPT ![Arg] = files.legacy[Arg]] \in Indexes
      BY <2>1, <2>2, <2>3 DEF Pins, Indexes
    <3> QED BY <1>r, <2>1, <2>4, <3>1 DEF TypeOK, Repository
  <2> QED BY <1>7, <1>q, <2>4 DEF WriteIndex
<1>8. CASE WriteNotice
  <2>1. Listed(files.legacy) \in SUBSET Vendor
    BY DEF Listed
  <2> QED BY <1>8, <1>r, <2>1 DEF WriteNotice, TypeOK, Repository, Notice
<1>9. CASE BakePlugins
  <2>1. files.legacy \in Pins \cup {None, Torn}
    BY <1>r DEF Repository
  <2> QED BY <1>9, <1>r, <2>1 DEF BakePlugins, TypeOK, Repository
<1>10. CASE WriteNpm \/ ClearNpmBaked \/ CopyNpmBaked
  <2>1. PICK n : Put("npm", n) /\ n \in Npm /\ step \in {"npm", "npmclear", "npmcopy"}
    <3>1. /\ files.npm \in Npm /\ files.legacy \in Pins \cup {None, Torn} /\ files.index \in Indexes
          /\ files.notice \in Notice /\ files.baked \in Pins \cup {None, Torn}
      BY <1>r DEF Repository
    <3>2. [v \in Vendor |-> IF files.index[v] = None THEN files.npm.index[v] ELSE files.index[v]] \in Indexes
      BY <3>1 DEF Npm, Indexes
    <3>3. CASE WriteNpm
      BY <3>1, <3>2, <3>3 DEF WriteNpm, Npm
    <3>4. CASE ClearNpmBaked
      BY <3>1, <3>4 DEF ClearNpmBaked, Npm
    <3>5. CASE CopyNpmBaked
      BY <3>1, <3>5 DEF CopyNpmBaked, Npm
    <3> QED BY <1>10, <3>3, <3>4, <3>5
  <2> QED BY <1>r, <2>1 DEF TypeOK, Repository
<1>11. CASE TakeSource
  <2>1. /\ step = "source" /\ Arg \in Vendor
        /\ \/ Abort
           \/ Skip(Arg)
           \/ \E d \in Digest, r \in Rev, ref \in Digest \cup {None} :
                Got(Arg, d, "good", ref) /\ r = files.manifest[Arg].sha
    <3>1. \A e \in Entry : e.sha \in Rev
      BY DEF Entry
    <3> QED BY <1>11, <3>1, SourceTaken, Digests
  <2>2. CASE Skip(Arg)
    <3>1. src' \in [Vendor -> Digest \cup {None}]
      BY <2>1, <2>2 DEF Skip, TypeOK
    <3> QED BY <2>1, <2>2, <3>1 DEF Skip, TypeOK, world
  <2>3. ASSUME NEW d \in Digest, NEW r \in Rev, NEW ref \in Digest \cup {None},
               Got(Arg, d, "good", ref), r = files.manifest[Arg].sha
        PROVE  todo' = Tail(todo) /\ Frame /\ TypeOK'
    <3>1. src' \in [Vendor -> Digest \cup {None}] /\ <<Arg, r>> \in Vendor \X Rev
      BY <2>1, <2>3 DEF Got, TypeOK
    <3>2. /\ store' \in [Digest -> {"none", "good", "bad"}]
          /\ \A e \in Digest : store[e] = "good" => store'[e] = "good"
      BY <2>3 DEF Got, TypeOK
    <3>3. refs' \in [Vendor \X Rev -> Digest \cup {None}]
      BY <2>3, <3>1 DEF Got, TypeOK
    <3> QED BY <2>1, <2>3, <3>1, <3>2, <3>3 DEF Got, TypeOK
  <2> QED BY <2>1, <2>2, <2>3
<1>12. CASE ScanTree
  <2> DEFINE r == target[Arg].sha
             d == IF refs[<<Arg, r>>] = None THEN Upstream(Arg, r) ELSE refs[<<Arg, r>>]
  <2>1. step = "scan" /\ Arg \in Vendor
    BY <1>1, <1>12 DEF ScanTree
  <2>2. CASE Abort
    BY <2>2
  <2>3. CASE /\ store' = [store EXCEPT ![d] = "good"]
             /\ refs' = [refs EXCEPT ![<<Arg, r>>] = IF store[d] = "good" THEN @ ELSE d]
             /\ UNCHANGED <<files, inputs, engine, built>>
             /\ Advance
    <3>1. d \in Digest /\ <<Arg, r>> \in Vendor \X Rev
      <4>1. target[Arg] # None /\ 1 \in DOMAIN todo /\ Head(todo) = todo[1]
        BY <1>0, <1>1, <2>1 DEF InOrder, Arg
      <4>2. r \in Rev
        BY <1>0, <2>1, <4>1 DEF Manifest, Entry
      <4>3. refs[<<Arg, r>>] \in Digest \cup {None}
        BY <2>1, <4>2 DEF TypeOK
      <4> QED BY <2>1, <4>2, <4>3, Digests
    <3>2. /\ store' \in [Digest -> {"none", "good", "bad"}]
          /\ \A e \in Digest : store[e] = "good" => store'[e] = "good"
      BY <2>3, <3>1 DEF TypeOK
    <3>3. refs' \in [Vendor \X Rev -> Digest \cup {None}]
      BY <2>3, <3>1 DEF TypeOK
    <3> HIDE DEF d, r
    <3> QED BY <2>1, <2>3, <3>2, <3>3 DEF TypeOK
  <2> QED BY <1>12, <2>2, <2>3 DEF ScanTree
<1>13. CASE Compose
  <2>1. step = "compose" /\ out' \in Artifact
    BY <1>0, <1>13 DEF Compose, Artifacts, Artifact, TypeOK
  <2> QED BY <1>13, <2>1 DEF Compose, TypeOK, world
<1>14. CASE Seal
  <2>1. step = "seal" /\ out \in Artifact
    <3>1. step = "seal"
      BY <1>14 DEF Seal
    <3>2. Due(ComposedF)
      BY <1>0, <1>1, <3>1, Advancing DEF Going, LockPlan, ComposedF
    <3> QED BY <3>1, <3>2 DEF Going, LockFacts, ComposedFits
  <2>2. sealed' \in Lockfile
    BY <1>0, <1>14, <2>1 DEF Seal, Lock, Lockfile, TypeOK
  <2>3. src' \in [Vendor -> Digest \cup {None}]
    BY <1>14 DEF Seal, Unpinned
  <2> QED BY <1>14, <2>1, <2>2, <2>3 DEF Seal, TypeOK, world
<1>15. CASE WriteLock
  <2>1. step = "writelock" /\ Due(SealedF)
    <3>1. step = "writelock"
      BY <1>15 DEF WriteLock
    <3> QED BY <1>0, <1>1, <3>1, Advancing DEF Going, LockPlan, SealedF
  <2>2. sealed \in Lockfile
    BY <2>1 DEF Going, LockFacts, SealedFits
  <2> QED BY <1>15, <1>r, <2>1, <2>2 DEF WriteLock, TypeOK, Repository
<1>16. CASE InstallBuild
  <2>1. step = "install" /\ Due(SealedF)
    <3>1. step = "install"
      BY <1>16 DEF InstallBuild
    <3> QED BY <1>0, <1>1, <3>1, Advancing DEF Going, LockPlan, SealedF
  <2>2. sealed.out \in Artifact
    BY <2>1 DEF Going, LockFacts, SealedFits, Lockfile
  <2>3. CASE Put("dist", sealed.out)
    BY <1>r, <2>1, <2>2, <2>3 DEF TypeOK, Repository
  <2> QED BY <1>16, <2>3 DEF InstallBuild
<1>17. ~Raised /\ ~Finish /\ ~\E f \in Tracked : RestoreFile(f) \/ RestoreArtifacts(f)
  BY DEF Raised, Finish, RestoreFile, RestoreArtifacts, PutBack, Turn
<1> QED BY <1>2, <1>3, <1>4, <1>5, <1>6, <1>7, <1>8, <1>9, <1>10, <1>11, <1>12, <1>13, <1>14, <1>15, <1>16,
           <1>17 DEF Step

\* The step that is taken is the one the plan names.
LEMMA Named ==
  ASSUME Running, Step, UNCHANGED raised
  PROVE  /\ ~Abort
         /\ step = "existing" => ReadExisting
         /\ step = "accepted" => RequireAccepted
         /\ step = "manifest" => PublishManifest
         /\ step = "source" => TakeSource
         /\ step = "compose" => Compose
         /\ step = "seal" => Seal
         /\ step = "writelock" => WriteLock
         /\ step = "install" => InstallBuild
         /\ step = "register" => Register
         /\ step = "legacy" => WriteLegacy
         /\ step = "fetch" => FetchTrees
         /\ step = "index" => WriteIndex
         /\ step = "notice" => WriteNotice
         /\ step = "bake" => BakePlugins
         /\ step = "npm" => WriteNpm
         /\ step = "npmclear" => ClearNpmBaked
         /\ step = "npmcopy" => CopyNpmBaked
         /\ step # "scaffold"
<1>1. /\ Register => step = "register"
      /\ AppendVendor => step = "append"
      /\ PublishManifest => step = "manifest"
      /\ PutBaseline => step = "baseline"
      /\ PutWorking => step = "working"
  BY DEF Register, AppendVendor, PublishManifest, PutBaseline, PutWorking, Doing, step
<1>2. /\ SnapshotArtifacts => step = "snapshot"
      /\ WriteLegacy => step = "legacy"
      /\ FetchTrees => step = "fetch"
      /\ WriteIndex => step = "index"
      /\ WriteNotice => step = "notice"
      /\ BakePlugins => step = "bake"
  BY DEF SnapshotArtifacts, WriteLegacy, FetchTrees, WriteIndex, WriteNotice, BakePlugins, Doing, step
<1>3. /\ WriteNpm => step = "npm"
      /\ ClearNpmBaked => step = "npmclear"
      /\ CopyNpmBaked => step = "npmcopy"
  BY DEF WriteNpm, ClearNpmBaked, CopyNpmBaked, Doing, step
<1>4. /\ RequireAccepted => step = "accepted"
      /\ ReadExisting => step = "existing"
      /\ Reconcile => step = "reconcile"
      /\ TakeSource => step = "source"
      /\ ScanTree => step = "scan"
      /\ NotOffered => step = "scan"
  BY DEF RequireAccepted, ReadExisting, Reconcile, TakeSource, ScanTree, NotOffered, Doing, step
<1>5. /\ Compose => step = "compose"
      /\ Seal => step = "seal"
      /\ WriteLock => step = "writelock"
      /\ InstallBuild => step = "install"
  BY DEF Compose, Seal, WriteLock, InstallBuild, Doing, step
<1>6. ~Abort /\ ~LeaveScaffold
  BY NoneIsNoString DEF Abort, Failing, LeaveScaffold, Running
<1>7. ~Raised /\ ~Finish /\ ~\E f \in Tracked : RestoreFile(f) \/ RestoreArtifacts(f)
  BY DEF Running, Raised, Finish, RestoreFile, RestoreArtifacts, PutBack, Turn
<1> QED BY <1>1, <1>2, <1>3, <1>4, <1>5, <1>6, <1>7 DEF Step

-----------------------------------------------------------------------------
(* A command that advances.                                                *)

Advances == TypeOK /\ Begun /\ Going /\ RefsAreUpstream /\ Running /\ Step /\ todo' = Tail(todo) /\ Frame /\ TypeOK'

\* The lock that pins are compared with, unless the manifest is replaced.
LEMMA SameLockInUse ==
  ASSUME todo \in Seq(StepSet), Running, todo' = Tail(todo), Frame, step # "working"
  PROVE  LockInUse' = LockInUse
<1>1. /\ Len(todo) \in Nat \ {0} /\ Head(todo) = todo[1]
      /\ DOMAIN todo = 1..Len(todo) /\ DOMAIN Tail(todo) = 1..(Len(todo) - 1)
      /\ \A i \in 1..(Len(todo) - 1) : Tail(todo)[i] = todo[i + 1]
  BY DEF Running
<1>2. ASSUME NEW i \in DOMAIN todo, todo[i][1] = "working"
      PROVE  \E k \in DOMAIN Tail(todo) : Tail(todo)[k][1] = "working"
  <2>1. i # 1
    BY <1>1, <1>2 DEF step
  <2>2. i - 1 \in DOMAIN Tail(todo) /\ Tail(todo)[i - 1] = todo[i]
    BY <1>1, <2>1
  <2> QED BY <1>2, <2>2
<1>3. ASSUME NEW k \in DOMAIN Tail(todo), Tail(todo)[k][1] = "working"
      PROVE  \E i \in DOMAIN todo : todo[i][1] = "working"
  <2>1. k + 1 \in DOMAIN todo
    BY <1>1
  <2> QED BY <1>1, <1>3, <2>1
<1> QED BY <1>2, <1>3 DEF LockInUse, Frame, args

\* A step that is taken keeps the facts about the lock, and what the rest of the plan
\* relies on of them.
LEMMA LockAdvances ==
  ASSUME Advances
  PROVE  LockPlan' /\ LockFacts'
<1>1. /\ todo \in Seq(StepSet) /\ todo # << >> /\ Head(todo) = <<step, Arg>>
      /\ step \in StepsOf(cmd) /\ LockPlan /\ LockFacts /\ UNCHANGED <<cmd, raised>>
      /\ files.manifest \in Manifest
  <2>1. InOrder /\ Running /\ UNCHANGED <<cmd, raised>> /\ files.manifest \in Manifest /\ LockPlan /\ LockFacts
    BY DEF Advances, Going, Frame, fault, Running
  <2>2. todo \in Seq(StepSet) /\ todo # << >>
    BY <2>1 DEF InOrder, Running
  <2>3. Head(todo) = <<step, Arg>> /\ step = todo[1][1] /\ 1 \in DOMAIN todo
    BY <2>2, StepShape DEF step
  <2> QED BY <2>1, <2>2, <2>3 DEF InOrder
<1>2. LockPlan'
  BY <1>1, Advancing DEF LockPlan, Advances, Recording
<1>3. /\ UNCHANGED <<saved, target, began, edits, inputs, engine>>
      /\ \A d \in Digest : store[d] = "good" => store'[d] = "good"
      /\ Running /\ Step /\ UNCHANGED raised /\ todo' = Tail(todo)
  BY DEF Advances, Frame, args, fault
<1>4. step # "working" => LockInUse' = LockInUse
  BY <1>1, SameLockInUse DEF Advances
<1>5. /\ step \notin Writes => files'.manifest = files.manifest
      /\ step # "writelock" => files'.lock = files.lock
      /\ step \notin {"source", "seal"} => src' = src
      /\ step \notin {"compose", "seal"} => out' = out
      /\ step # "seal" => sealed' = sealed
  BY DEF Advances, Frame
<1>6. ASSUME Due(LegibleF)' PROVE LockInUse' # Torn
  <2>1. step = "existing" \/ (Due(LegibleF) /\ step # "working")
    BY <1>1, <1>3, <1>6, Advancing DEF LockPlan, LegibleF
  <2>2. CASE step = "existing"
    <3>1. ReadExisting /\ ~Abort
      BY <1>3, <2>2, Named
    <3>2. files.lock # Torn
      BY <3>1 DEF ReadExisting, Malformed
    <3>3. files.lock = saved.lock
      BY <1>1, <2>2, Advancing DEF LockPlan, LockFacts, UntouchedF
    <3> QED BY <1>3, <3>2, <3>3, NoneAssumption DEF LockInUse
  <2> QED BY <1>1, <1>4, <2>1, <2>2 DEF LockFacts
<1>7. ASSUME Due(UntouchedF)' PROVE files'.lock = saved'.lock
  <2>1. Due(UntouchedF) /\ step # "writelock"
    BY <1>1, <1>3, <1>7, Advancing DEF LockPlan, UntouchedF
  <2> QED BY <1>1, <1>3, <1>5, <2>1 DEF LockFacts
<1>8. ASSUME Due(AcceptedF)' PROVE Pending(files'.manifest) = {}
  <2>1. step \in {"accepted", "manifest"} \/ (Due(AcceptedF) /\ step \notin Writes)
    BY <1>1, <1>3, <1>8, Advancing DEF LockPlan, AcceptedF
  <2>2. CASE step = "accepted"
    <3>1. RequireAccepted /\ ~Abort
      BY <1>3, <2>2, Named
    <3> QED BY <3>1 DEF RequireAccepted
  <2>3. CASE step = "manifest"
    <3>1. PublishManifest
      BY <1>3, <2>3, Named
    <3>2. cmd = "repin" /\ Pending(target) = {}
      BY <1>1, <1>3, <2>3 DEF StepsOf, Mirroring, Sealing, Advances, Begun, Running, CommandName
    <3>3. files'.manifest = target
      BY <3>1 DEF PublishManifest, Put, Advances, TypeOK, Repository
    <3> QED BY <3>2, <3>3
  <2> QED BY <1>1, <1>5, <2>1, <2>2, <2>3 DEF LockFacts
<1>9. ASSUME cmd' # "fetch", NEW v \in Vendor, Due(ResolvedF(v))' PROVE ResolvedFits(v)'
  <2>1. /\ Head(todo) = <<"source", v>> \/ (Due(ResolvedF(v)) /\ step \notin Writes \cup {"seal"})
        /\ step \notin Writes \cup {"seal"}
    BY <1>1, <1>3, <1>9, Advancing DEF LockPlan, ResolvedF, Writes
  <2>2. files'.manifest = files.manifest /\ LockInUse' = LockInUse
    BY <1>4, <1>5, <2>1 DEF Writes
  <2>3. src \in [Vendor -> Digest \cup {None}]
    BY DEF Advances, TypeOK
  <2>4. CASE Due(ResolvedF(v)) /\ src'[v] = src[v]
    <3>1. ResolvedFits(v) /\ src[v] \in Digest \cup {None}
      BY <1>1, <1>9, <2>3, <2>4 DEF LockFacts
    <3> QED BY <1>3, <2>2, <2>4, <3>1 DEF ResolvedFits
  <2>5. CASE step = "source"
    <3>1. /\ Arg \in Vendor
          /\ \/ Skip(Arg) /\ files.manifest[Arg] = None
             \/ /\ files.manifest[Arg] \in Entry
                /\ \E d \in Snapshots(files.manifest, Arg) \cap Digest,
                      ref \in {None, Upstream(Arg, files.manifest[Arg].sha)} :
                     /\ Got(Arg, d, "good", ref)
                     /\ Unchanged(LockInUse, files.manifest, Arg) => d = LockInUse.src[Arg]
      BY <1>1, <1>3, <1>9, <2>5, Named, SourceTaken DEF Advances
    <3>2. CASE v # Arg
      <4>1. src'[v] = src[v]
        BY <2>3, <3>1, <3>2 DEF Skip, Got
      <4>2. Due(ResolvedF(v))
        BY <1>1, <2>1, <3>2
      <4> QED BY <2>4, <4>1, <4>2
    <3>3. CASE v = Arg /\ Skip(v) /\ files.manifest[v] = None
      <4>1. src'[v] = None
        BY <2>3, <3>3 DEF Skip
      <4> QED BY <2>2, <3>3, <4>1 DEF ResolvedFits, Snapshots
    <3>4. ASSUME v = Arg, NEW d \in Snapshots(files.manifest, v) \cap Digest, NEW ref,
                 Got(v, d, "good", ref), Unchanged(LockInUse, files.manifest, v) => d = LockInUse.src[v]
          PROVE  ResolvedFits(v)'
      <4>1. src'[v] = d /\ store'[d] = "good"
        BY <2>3, <3>4 DEF Got, Advances, TypeOK
      <4> QED BY <2>2, <3>4, <4>1 DEF ResolvedFits
    <3> QED BY <3>1, <3>2, <3>3, <3>4
  <2>6. CASE step # "source"
    BY <1>5, <2>1, <2>4, <2>6 DEF step
  <2> QED BY <2>5, <2>6
<1>10. ASSUME Due(ComposedF)' PROVE ComposedFits'
  <2>1. step = "compose" \/ (Due(ComposedF) /\ step \notin Writes \cup {"source", "seal"})
    BY <1>1, <1>3, <1>10, Advancing DEF LockPlan, ComposedF
  <2>2. CASE step = "compose"
    <3>1. Pending(files.manifest) = {}
      BY <1>1, <2>2, Advancing DEF LockPlan, LockFacts, AcceptedF
    <3>2. Compose
      BY <1>3, <2>2, Named
    <3>3. out' = Artifacts(files.manifest, inputs, engine, src) /\ UNCHANGED <<files, src>>
      BY <3>2 DEF Compose, world
    <3>4. out' \in Artifact /\ out'[1] = files.manifest
      BY <1>1, <3>3 DEF Artifacts, Artifact, Advances, TypeOK
    <3> QED BY <1>3, <3>1, <3>3, <3>4 DEF ComposedFits
  <2>3. CASE step \notin Writes \cup {"source", "seal", "compose"}
    <3>1. ComposedFits
      BY <1>1, <2>1, <2>3 DEF LockFacts
    <3> QED BY <1>3, <1>5, <2>3, <3>1 DEF ComposedFits
  <2> QED BY <2>1, <2>2, <2>3 DEF Writes
<1>11. ASSUME Due(SealedF)' PROVE SealedFits'
  <2>1. step = "seal" \/ (Due(SealedF) /\ step \notin Writes)
    BY <1>1, <1>3, <1>11, Advancing DEF LockPlan, SealedF
  <2>2. CASE step = "seal"
    <3>1. /\ Pending(files.manifest) = {} /\ ComposedFits /\ \A v \in Vendor : ResolvedFits(v)
          /\ cmd = "repin" => files.manifest = target
      <4>1. /\ Due(AcceptedF) /\ Due(ComposedF) /\ \A v \in Vendor : Due(ResolvedF(v))
            /\ cmd = "repin" => Due(TargetedF)
        BY <1>1, <2>2, Advancing DEF LockPlan, AcceptedF, ComposedF, ResolvedF, TargetedF
      <4>2. cmd # "fetch"
        BY <1>1, <2>2 DEF StepsOf
      <4> QED BY <1>1, <4>1, <4>2 DEF LockFacts
    <3>2. Seal
      BY <1>3, <2>2, Named
    <3>3. sealed' = Lock(files.manifest, inputs, engine, src, out) /\ UNCHANGED files
      BY <3>2 DEF Seal, world
    <3>4. sealed' \in Lockfile
      BY <1>1, <3>1, <3>3 DEF Lock, Lockfile, Advances, TypeOK, ComposedFits
    <3>5. /\ sealed'.manifest = files.manifest /\ sealed'.inputs = inputs /\ sealed'.builder = engine
          /\ sealed'.src = src /\ sealed'.out = out /\ sealed'.layout = "canonical"
      BY <3>3 DEF Lock
    <3>6. LockFits(sealed')
      BY <3>1, <3>5 DEF LockFits, ResolvedFits
    <3>7. LockKeeps(LockInUse, sealed')
      BY <3>1, <3>5 DEF LockKeeps, ResolvedFits, Declared
    <3>8. Pending(sealed'.out[1]) = {}
      BY <3>1, <3>5 DEF ComposedFits
    <3>9. edits = began => Reproduces(sealed)'
      <4>1. src \in [Vendor -> Digest \cup {None}]
        BY DEF Advances, TypeOK
      <4>2. edits = began => \A v \in Vendor : src[v] # None => store'[src[v]] = "good"
        BY <1>3, <3>1, <4>1 DEF ResolvedFits
      <4> QED BY <1>3, <3>1, <3>3, <3>5, <4>2 DEF Reproduces, Stored, ComposedFits
    <3> QED BY <1>1, <1>3, <1>4, <2>2, <3>1, <3>4, <3>5, <3>6, <3>7, <3>8, <3>9
              DEF SealedFits, LockFits, LockKeeps
  <2>3. CASE step \notin Writes \cup {"seal"}
    <3>1. SealedFits /\ sealed' = sealed /\ files'.manifest = files.manifest /\ LockInUse' = LockInUse
      BY <1>1, <1>4, <1>5, <2>1, <2>3 DEF LockFacts, Writes
    <3>2. edits = began => Reproduces(sealed)'
      <4>1. \A v \in Vendor : sealed.src[v] \in Digest \cup {None}
        BY <3>1 DEF SealedFits, Lockfile
      <4> QED BY <1>3, <3>1, <4>1 DEF SealedFits, Reproduces, Stored
    <3>3. LockFits(sealed)' /\ LockKeeps(LockInUse, sealed)'
      BY <3>1 DEF SealedFits, LockFits, LockKeeps
    <3> QED BY <1>1, <1>3, <3>1, <3>2, <3>3 DEF SealedFits
  <2> QED BY <2>1, <2>2, <2>3 DEF Writes
<1>12. ASSUME cmd' = "repin", Due(TargetedF)' PROVE files'.manifest = target'
  <2>1. step = "manifest" \/ (Due(TargetedF) /\ step \notin {"baseline", "working"})
    BY <1>1, <1>3, <1>12, Advancing DEF LockPlan, TargetedF
  <2>2. CASE step = "manifest"
    <3>1. PublishManifest
      BY <1>3, <2>2, Named
    <3> QED BY <1>3, <3>1 DEF PublishManifest, Put, Advances, TypeOK, Repository
  <2>3. CASE step # "manifest"
    <3>1. step \notin Writes
      BY <1>1, <1>12, <2>1, <2>3 DEF StepsOf, Mirroring, Sealing, Writes
    <3> QED BY <1>1, <1>3, <1>5, <1>12, <2>1, <2>3, <3>1 DEF LockFacts
  <2> QED BY <2>2, <2>3
<1>13. ASSUME Recording', Due(WrittenF)' PROVE WrittenFits'
  <2>1. /\ step \in {"writelock", "scaffold"} \/ (Due(WrittenF) /\ step \notin Writes \cup {"seal"})
        /\ Recording /\ step # "scaffold"
    BY <1>1, <1>3, <1>13, Advancing, Named DEF LockPlan, WrittenF, Recording
  <2>2. step \notin Writes \cup {"seal"} /\ sealed' = sealed /\ files'.manifest = files.manifest
    BY <1>5, <2>1 DEF Writes
  <2>3. CASE step = "writelock"
    <3>1. SealedFits
      BY <1>1, <2>3, Advancing DEF LockPlan, LockFacts, SealedF
    <3>2. files'.lock = sealed
      <4>1. WriteLock
        BY <1>3, <2>3, Named
      <4> QED BY <4>1 DEF WriteLock, Put, Advances, TypeOK, Repository
    <3>3. edits = began => Reproduces(sealed)'
      <4>1. \A v \in Vendor : sealed.src[v] \in Digest \cup {None}
        BY <3>1 DEF SealedFits, Lockfile
      <4> QED BY <1>3, <2>2, <3>1, <4>1 DEF SealedFits, Reproduces, Stored
    <3> QED BY <1>1, <1>3, <2>2, <3>1, <3>2, <3>3 DEF SealedFits, WrittenFits, LockFits
  <2>4. CASE step # "writelock"
    <3>1. WrittenFits /\ files'.lock = files.lock
      BY <1>1, <1>5, <2>1, <2>4 DEF LockFacts
    <3>2. edits = began => Reproduces(sealed)'
      <4>1. \A v \in Vendor : sealed.src[v] \in Digest \cup {None}
        BY <3>1 DEF WrittenFits, Lockfile
      <4> QED BY <1>3, <2>2, <3>1, <4>1 DEF WrittenFits, Reproduces, Stored
    <3> QED BY <1>1, <1>3, <2>2, <3>1, <3>2 DEF WrittenFits, LockFits
  <2> QED BY <2>3, <2>4
<1> QED BY <1>2, <1>6, <1>7, <1>8, <1>9, <1>10, <1>11, <1>12, <1>13 DEF LockFacts

\* So does it with the facts about the generated files.
LEMMA MirrorAdvances ==
  ASSUME Advances
  PROVE  MirrorPlan' /\ MirrorFacts'
<1>1. /\ todo \in Seq(StepSet) /\ todo # << >> /\ Head(todo) = <<step, Arg>>
      /\ MirrorPlan /\ MirrorFacts /\ files.manifest \in Manifest
  <2>1. InOrder /\ Running /\ MirrorPlan /\ MirrorFacts /\ files.manifest \in Manifest
    BY DEF Advances, Going, Running
  <2>2. todo \in Seq(StepSet) /\ todo # << >>
    BY <2>1 DEF InOrder, Running
  <2> QED BY <2>1, <2>2, StepShape
<1>2. /\ UNCHANGED <<cmd, saved, raised>> /\ Running /\ Step /\ todo' = Tail(todo)
      /\ Publishing' <=> Publishing
  BY DEF Advances, Frame, args, fault, Publishing
<1>3. MirrorPlan'
  BY <1>1, <1>2, Advancing DEF MirrorPlan
<1>4. /\ step \notin Writes => files'.manifest = files.manifest
      /\ step # "legacy" => files'.legacy = files.legacy
      /\ step # "index" => files'.index = files.index
      /\ step # "notice" => files'.notice = files.notice
      /\ step # "bake" => files'.baked = files.baked
      /\ step \notin {"npm", "npmclear", "npmcopy"} => files'.npm = files.npm
  BY DEF Advances, Frame
<1>5. files \in Repository /\ files.index \in Indexes /\ files.npm \in Npm
  BY DEF Advances, TypeOK, Repository
<1>6. step = "legacy" => /\ Representable(files.manifest) /\ files'.legacy = Registry(files.manifest)
                         /\ files'.manifest = files.manifest
  <2>1. step = "legacy" => WriteLegacy /\ ~Abort
    BY <1>2, Named
  <2> QED BY <1>4, <1>5, <2>1 DEF WriteLegacy, Put, Repository, Writes
<1>7. step = "index" => files'.index = IF files.legacy[Arg] = None THEN files.index
                                       ELSE [files.index EXCEPT ![Arg] = files.legacy[Arg]]
  <2>1. step = "index" => WriteIndex
    BY <1>2, Named
  <2> QED BY <1>5, <2>1 DEF WriteIndex, Put, Repository
<1>8. /\ step = "notice" => files'.notice = Listed(files.legacy)
      /\ step = "bake" => files'.baked = files.legacy
  <2>1. /\ step = "notice" => WriteNotice
        /\ step = "bake" => BakePlugins
    BY <1>2, Named
  <2> QED BY <1>5, <2>1 DEF WriteNotice, BakePlugins, Put, Repository
<1>9. /\ step = "npm" =>
           /\ files'.npm.legacy = files.legacy /\ files'.npm.notice = files.notice
           /\ files'.npm.index = [v \in Vendor |-> IF files.index[v] = None THEN files.npm.index[v]
                                                  ELSE files.index[v]]
           /\ files'.npm.baked = files.npm.baked
      /\ step \in {"npmclear", "npmcopy"} =>
           /\ files'.npm.legacy = files.npm.legacy /\ files'.npm.notice = files.npm.notice
           /\ files'.npm.index = files.npm.index
      /\ step = "npmcopy" => files'.npm.baked = files.baked
  <2>1. /\ step = "npm" => WriteNpm
        /\ step = "npmclear" => ClearNpmBaked
        /\ step = "npmcopy" => CopyNpmBaked
    BY <1>2, Named
  <2>2. ASSUME step = "npm"
        PROVE  files'.npm = [legacy |-> files.legacy, notice |-> files.notice, baked |-> files.npm.baked,
                             index |-> [v \in Vendor |-> IF files.index[v] = None THEN files.npm.index[v]
                                                        ELSE files.index[v]]]
    <3> DEFINE index == [v \in Vendor |-> IF files.index[v] = None THEN files.npm.index[v]
                                         ELSE files.index[v]]
    <3>1. Put("npm", [files.npm EXCEPT !.legacy = files.legacy, !.notice = files.notice, !.index = index])
      BY <2>1, <2>2 DEF WriteNpm
    <3> HIDE DEF index
    <3>2. files'.npm = [files.npm EXCEPT !.legacy = files.legacy, !.notice = files.notice, !.index = index]
      BY <1>5, <3>1 DEF Put, Repository
    <3>3. files'.npm = [legacy |-> files.legacy, notice |-> files.notice, baked |-> files.npm.baked,
                        index |-> index]
      BY <1>5, <3>2 DEF Npm
    <3> QED BY <3>3 DEF index
  <2>3. step = "npmclear" => files'.npm = [files.npm EXCEPT !.baked = None]
    BY <1>5, <2>1 DEF ClearNpmBaked, Put, Repository
  <2>4. step = "npmcopy" => files'.npm = [files.npm EXCEPT !.baked = files.baked]
    BY <1>5, <2>1 DEF CopyNpmBaked, Put, Repository
  <2> QED BY <1>5, <2>2, <2>3, <2>4 DEF Npm
<1>10. ASSUME Due(ReadableF)' PROVE Readable(files'.legacy)
  <2>1. step \in {"fetch", "legacy"} \/ Due(ReadableF)
    BY <1>1, <1>2, <1>10, Advancing DEF MirrorPlan, ReadableF
  <2>2. CASE step = "fetch"
    <3>1. FetchTrees /\ ~Abort
      BY <1>2, <2>2, Named
    <3> QED BY <3>1 DEF FetchTrees
  <2>3. CASE step = "legacy"
    <3>1. files'.legacy \in Pins
      BY <1>1, <1>6, <2>3 DEF Registry, Pins, Manifest, Entry
    <3> QED BY <3>1, NoneAssumption DEF Readable
  <2> QED BY <1>1, <1>4, <2>1, <2>2, <2>3 DEF MirrorFacts
<1>11. ASSUME Publishing, Due(LegacyF)' PROVE LegacyCheck(files')
  <2>1. step = "legacy" \/ (Due(LegacyF) /\ step \notin Writes)
    BY <1>1, <1>2, <1>11, Advancing DEF MirrorPlan, LegacyF
  <2>2. CASE step = "legacy"
    <3>1. files.manifest # Torn
      BY <1>1, NoneAssumption
    <3> QED BY <1>6, <2>2, <3>1 DEF LegacyCheck
  <2>3. CASE step # "legacy"
    BY <1>1, <1>4, <1>11, <2>1, <2>3 DEF MirrorFacts, LegacyCheck
  <2> QED BY <2>2, <2>3
<1>12. ASSUME Publishing, Due(NoticedF)' PROVE files'.notice = Listed(files'.legacy)
  <2>1. step = "notice" \/ (Due(NoticedF) /\ step # "legacy")
    BY <1>1, <1>2, <1>12, Advancing DEF MirrorPlan, NoticedF
  <2> QED BY <1>1, <1>4, <1>8, <1>12, <2>1 DEF MirrorFacts
<1>13. ASSUME Publishing, Due(MirroredF)' PROVE MirrorFits'
  <2>1. step = "npm" \/ (Due(MirroredF) /\ step \notin {"legacy", "index", "notice"})
    BY <1>1, <1>2, <1>13, Advancing DEF MirrorPlan, MirroredF
  <2>2. CASE step = "npm"
    BY <1>4, <1>9, <2>2 DEF MirrorFits
  <2>3. CASE step \in {"npmclear", "npmcopy"}
    BY <1>1, <1>4, <1>9, <1>13, <2>1, <2>3 DEF MirrorFits, MirrorFacts
  <2>4. CASE step \notin {"npm", "npmclear", "npmcopy"}
    BY <1>1, <1>4, <1>13, <2>1, <2>4 DEF MirrorFits, MirrorFacts
  <2> QED BY <2>2, <2>3, <2>4
<1>14. ASSUME Publishing, Due(CopiedF)' PROVE files'.npm.baked = files'.baked
  <2>1. step = "npmcopy" \/ (Due(CopiedF) /\ step \notin {"bake", "npmclear"})
    BY <1>1, <1>2, <1>14, Advancing DEF MirrorPlan, CopiedF
  <2> QED BY <1>1, <1>4, <1>9, <1>14, <2>1 DEF MirrorFacts
<1>15. ASSUME Publishing, NEW v \in Vendor, Due(IndexedF(v))' PROVE IndexFits(v)'
  <2>1. Head(todo) = <<"index", v>> \/ (Due(IndexedF(v)) /\ step # "legacy")
    BY <1>1, <1>2, <1>15, Advancing DEF MirrorPlan, IndexedF
  <2>2. CASE Head(todo) = <<"index", v>>
    <3>1. step = "index" /\ Arg = v
      BY <2>2 DEF step, Arg
    <3> QED BY <1>4, <1>5, <1>7, <3>1 DEF IndexFits, IndexMatches, Pins, Indexes
  <2>3. CASE Due(IndexedF(v)) /\ step # "legacy" /\ (step = "index" => Arg # v)
    <3>1. IndexFits(v) /\ files'.legacy = files.legacy
      BY <1>1, <1>4, <1>15, <2>3 DEF MirrorFacts
    <3>2. files'.index[v] = files.index[v]
      BY <1>4, <1>5, <1>7, <2>3 DEF Indexes
    <3> QED BY <3>1, <3>2 DEF IndexFits, IndexMatches
  <2> QED BY <1>1, <2>1, <2>2, <2>3
<1>16. ASSUME cmd \in {"refresh", "manage"}, Due(BakedF)' PROVE files'.baked = files'.legacy
  <2>1. step = "bake" \/ (Due(BakedF) /\ step # "legacy")
    BY <1>1, <1>2, <1>16, Advancing DEF MirrorPlan, BakedF
  <2> QED BY <1>1, <1>4, <1>8, <1>16, <2>1 DEF MirrorFacts
<1> QED BY <1>2, <1>3, <1>10, <1>11, <1>12, <1>13, <1>14, <1>15, <1>16 DEF MirrorFacts

\* What is left of a command is in order, and what it changes is what it may.
LEMMA OrderAdvances ==
  ASSUME Advances
  PROVE  InOrder' /\ Kept(MayDiffer)' /\ Registered'
<1>1. /\ todo \in Seq(StepSet) /\ todo # << >> /\ InOrder /\ Kept(MayDiffer)
      /\ UNCHANGED <<cmd, target, saved>> /\ todo' = Tail(todo) /\ cmd \in CommandName
  BY DEF Advances, Going, Running, InOrder, Frame, args, Begun
<1>2. /\ Len(todo) \in Nat \ {0} /\ DOMAIN todo = 1..Len(todo)
      /\ todo' \in Seq(StepSet) /\ Len(todo') = Len(todo) - 1 /\ DOMAIN todo' = 1..(Len(todo) - 1)
      /\ \A i \in 1..(Len(todo) - 1) : todo'[i] = todo[i + 1] /\ i + 1 \in 1..Len(todo)
      /\ Head(todo) = todo[1] /\ todo' # << >> => Head(todo') = todo[2]
      /\ todo' = << >> <=> Len(todo) = 1
  <2>1. /\ Len(todo) \in Nat \ {0} /\ DOMAIN todo = 1..Len(todo) /\ Head(todo) = todo[1]
        /\ todo' \in Seq(StepSet) /\ Len(todo') = Len(todo) - 1 /\ DOMAIN todo' = 1..(Len(todo) - 1)
        /\ \A i \in 1..(Len(todo) - 1) : todo'[i] = todo[i + 1]
    BY <1>1
  <2>2. \A i \in 1..(Len(todo) - 1) : i + 1 \in 1..Len(todo)
    BY <2>1
  <2>3. todo' = << >> <=> Len(todo) = 1
    BY <2>1
  <2>4. todo' # << >> => Head(todo') = todo'[1] /\ 1 \in 1..(Len(todo) - 1) /\ 1 + 1 = 2
    BY <2>1
  <2> QED BY <2>1, <2>2, <2>3, <2>4
<1>3. InOrder'
  <2>1. Len(Refreshing) \in Int
    OBVIOUS
  <2>2. ASSUME NEW i \in DOMAIN todo'
        PROVE  /\ todo'[i][1] \in StepsOf(cmd)
               /\ cmd = "manage" => Leading(i, todo')
               /\ todo'[i][1] = "scan" => i = 1 /\ target[todo'[i][2]] # None
               /\ cmd = "lock" /\ todo'[i][1] = "writelock" => i = Len(todo')
               /\ todo'[i][1] = "scaffold" => ~Transactional
    <3>1. cmd = "manage" => Leading(i + 1, todo)
      BY <1>1, <1>2 DEF InOrder
    <3>2. cmd = "manage" => Leading(i, todo')
      BY <1>2, <2>1, <3>1, SMTT(30) DEF Leading
    <3> QED BY <1>1, <1>2, <3>2 DEF InOrder
  <2> QED BY <1>1, <1>2, <2>2 DEF InOrder, StepsOf, Transactional, Leading
<1>4. Kept(MayDiffer)'
  <2>1. ASSUME NEW f \in Tracked, files'[f] # files[f]
        PROVE  \/ f = "manifest" /\ step \in Writes
               \/ f = "lock" /\ step = "writelock"
               \/ f = "legacy" /\ step = "legacy"
               \/ f \in {"index", "notice", "baked", "npm"} /\ step \in Mirroring \cup {"bake"}
    BY <2>1 DEF Tracked, Advances, Frame, Mirroring
  <2>2. step \in StepsOf(cmd) /\ step = todo[1][1]
    BY <1>1, <1>2 DEF InOrder, step
  <2>3. ASSUME NEW f \in Tracked \ MayDiffer' PROVE f \notin MayDiffer /\ files'[f] = files[f]
    <3>0. Len(Refreshing) \in Nat
      OBVIOUS
    <3>1. CASE cmd = "manage"
      <4>1. Len(todo) > Len(Refreshing) => step \in {"register", "legacy", "snapshot"}
        BY <1>1, <1>2, <2>2, <3>0, <3>1 DEF InOrder, Leading
      <4>2. step \in {"register", "snapshot", "legacy", "bake"} \cup Mirroring
        BY <2>2, <3>1 DEF StepsOf
      <4>3. MayDiffer' = IF Len(todo') > Len(Refreshing) THEN {"manifest", "legacy"} ELSE Tracked \ {"lock"}
        BY <1>1, <3>1 DEF MayDiffer
      <4>4. MayDiffer = IF Len(todo) > Len(Refreshing) THEN {"manifest", "legacy"} ELSE Tracked \ {"lock"}
        BY <3>1 DEF MayDiffer
      <4>5. Len(todo') > Len(Refreshing) => Len(todo) > Len(Refreshing)
        BY <1>2, <3>0
      <4>6. f \notin MayDiffer
        BY <4>3, <4>4, <4>5 DEF Tracked
      <4>7. ASSUME files'[f] # files[f] PROVE FALSE
        BY <2>1, <4>1, <4>2, <4>3, <4>4, <4>5, <4>7 DEF Tracked, Mirroring, Writes
      <4> QED BY <4>6, <4>7
    <3>2. CASE cmd = "add"
      <4>1. todo' # << >> => Head(todo')[1] # "scan"
        BY <1>1, <1>2, <3>2 DEF InOrder
      <4>2. MayDiffer' = AddWrites
        BY <1>1, <3>2, <4>1 DEF MayDiffer, AddWrites
      <4>3. MayDiffer \subseteq AddWrites
        BY <1>1, <3>2 DEF MayDiffer, AddWrites
      <4> QED BY <2>1, <2>2, <3>2, <4>2, <4>3 DEF StepsOf, Sealing, Mirroring, AddWrites, Writes
    <3>3. CASE cmd = "lock"
      <4>1. step = "writelock" => todo' = << >>
        <5>1. 1 \in DOMAIN todo /\ step = todo[1][1]
          BY <1>2, <2>2
        <5>2. step = "writelock" => Len(todo) = 1
          BY <1>1, <3>3, <5>1 DEF InOrder
        <5> QED BY <1>2, <5>2
      <4>2. MayDiffer' = (IF todo' = << >> THEN {"lock"} ELSE {}) /\ MayDiffer = {}
        BY <1>1, <3>3 DEF MayDiffer
      <4> QED BY <2>1, <2>2, <3>3, <4>1, <4>2 DEF StepsOf, Sealing, Mirroring, Writes
    <3>4. CASE cmd \in {"build", "fetch"}
      <4>1. MayDiffer = {}
        BY <3>4 DEF MayDiffer
      <4> QED BY <2>1, <2>2, <3>4, <4>1 DEF StepsOf, Mirroring, Writes
    <3>5. CASE cmd \in {"refresh", "repin"}
      BY <1>1, <3>5 DEF MayDiffer
    <3> QED BY <1>1, <3>1, <3>2, <3>3, <3>4, <3>5 DEF CommandName
  <2> QED BY <1>1, <2>3 DEF Kept
<1>5. Registered'
  <2> SUFFICES ASSUME cmd = "manage" PROVE Registered'
    BY <1>1 DEF Registered
  <2>1. Len(Refreshing) \in Nat /\ Running /\ Step /\ UNCHANGED raised /\ files \in Repository
    BY DEF Advances, Frame, fault, TypeOK
  <2>2. Leading(1, todo) /\ step = todo[1][1]
    BY <1>1, <1>2 DEF InOrder, step
  <2>3. Registered /\ Len(todo) \in Nat /\ Len(todo') = Len(todo) - 1
    BY <1>1, <1>2 DEF Advances, Going, Running
  <2>4. ASSUME Len(todo') = Len(Refreshing) + 2 PROVE files'.manifest = target
    <3>1. step = "register"
      <4>1. 1 + Len(Refreshing) + 1 < Len(todo)
        BY <2>1, <2>3, <2>4
      <4> QED BY <2>2, <4>1 DEF Leading
    <3>2. Register
      BY <2>1, <3>1, Named
    <3> QED BY <2>1, <3>2 DEF Register, Put, Repository
  <2>5. ASSUME Len(todo') = Len(Refreshing) + 1
        PROVE  files'.manifest = target /\ files'.legacy = Registry(target)
    <3>1. step = "legacy" /\ Len(todo) = Len(Refreshing) + 2
      <4>1. 1 + Len(Refreshing) + 1 = Len(todo) /\ Len(todo) = Len(Refreshing) + 2
        BY <2>1, <2>3, <2>5
      <4> QED BY <2>2, <4>1 DEF Leading
    <3>2. WriteLegacy /\ ~Abort /\ files.manifest = target
      BY <2>1, <2>3, <3>1, Named, SMTT(30) DEF Registered
    <3> QED BY <2>1, <3>2 DEF WriteLegacy, Put, Repository
  <2> QED BY <1>1, <2>4, <2>5 DEF Registered, Capturing
<1> QED BY <1>3, <1>4, <1>5

-----------------------------------------------------------------------------
(* What the commands rely on when they start.                              *)

\* What each step needs of the facts, and which it establishes or upsets.
LEMMA StepSummaries ==
  ASSUME NEW v \in Vendor
  PROVE  /\ Summary(Fact(v), << >>, {}, {}, {})
         /\ \A w : Summary(Fact(v), << <<"scan", w>> >>, {}, {}, {})
         /\ Summary(Fact(v), One("register"), {}, {},
                    {"accepted", "resolved", "composed", "sealed", "written", "legacy"})
         /\ Summary(Fact(v), One("append"), {}, {},
                    {"accepted", "resolved", "composed", "sealed", "written", "legacy"})
         /\ Summary(Fact(v), One("manifest"), {}, {"accepted", "targeted"},
                    {"resolved", "composed", "sealed", "written", "legacy"})
         /\ Summary(Fact(v), One("baseline"), {}, {},
                    {"accepted", "resolved", "composed", "sealed", "targeted", "written", "legacy"})
         /\ Summary(Fact(v), One("working"), {}, {},
                    {"legible", "accepted", "resolved", "composed", "sealed", "targeted", "written", "legacy"})
         /\ Summary(Fact(v), One("scaffold"), {}, {"written"}, {})
         /\ Summary(Fact(v), One("accepted"), {}, {"accepted"}, {})
         /\ Summary(Fact(v), One("existing"), {"untouched"}, {"legible"}, {})
         /\ Summary(Fact(v), One("reconcile"), {}, {}, {})
         /\ Summary(Fact(v), One("compose"), {"accepted"}, {"composed"}, {})
         /\ Summary(Fact(v), One("seal"), {"accepted", "resolved", "composed", "targeted"}, {"sealed"},
                    {"resolved", "composed", "written"})
         /\ Summary(Fact(v), One("writelock"), {"legible", "untouched", "sealed"}, {"written"}, {"untouched"})
         /\ Summary(Fact(v), One("install"), {"sealed"}, {}, {})
         /\ Summary(Fact(v), One("snapshot"), {}, {}, {})
         /\ Summary(Fact(v), One("legacy"), {}, {"readable", "legacy"}, {"indexed", "noticed", "baked", "mirrored"})
         /\ Summary(Fact(v), One("fetch"), {}, {"readable"}, {})
         /\ Summary(Fact(v), One("notice"), {"readable"}, {"noticed"}, {"mirrored"})
         /\ Summary(Fact(v), One("bake"), {"readable"}, {"baked"}, {"copied"})
         /\ Summary(Fact(v), One("npm"), {}, {"mirrored"}, {})
         /\ Summary(Fact(v), One("npmclear"), {}, {}, {"copied"})
         /\ Summary(Fact(v), One("npmcopy"), {}, {"copied"}, {})
         /\ Summary(Fact(v), Each("source", Order), {"legible"}, {"resolved"}, {"composed"})
         /\ Summary(Fact(v), Each("index", Order), {"readable"}, {"indexed"}, {"mirrored"})
<1> USE DEF Fact, LegibleF, UntouchedF, AcceptedF, ResolvedF, ComposedF, SealedF, TargetedF, WrittenF, ReadableF,
            LegacyF, IndexedF, NoticedF, BakedF, MirroredF, CopiedF, Writes
<1>1. Summary(Fact(v), << >>, {}, {}, {})
  BY SummaryNone
<1>2. \A w : Summary(Fact(v), << <<"scan", w>> >>, {}, {}, {})
  BY SummaryOne
<1>0. Order \in Seq(Vendor) /\ \E i \in DOMAIN Order : Order[i] = v
  BY OrderAssumption
<1>3. Summary(Fact(v), One("register"), {}, {}, {"accepted", "resolved", "composed", "sealed", "written", "legacy"})
  BY SummaryOne DEF One
<1>4. Summary(Fact(v), One("append"), {}, {}, {"accepted", "resolved", "composed", "sealed", "written", "legacy"})
  BY SummaryOne DEF One
<1>5. Summary(Fact(v), One("manifest"), {}, {"accepted", "targeted"},
            {"resolved", "composed", "sealed", "written", "legacy"})
  BY SummaryOne DEF One
<1>6. Summary(Fact(v), One("baseline"), {}, {},
            {"accepted", "resolved", "composed", "sealed", "targeted", "written", "legacy"})
  BY SummaryOne DEF One
<1>7. Summary(Fact(v), One("working"), {}, {},
            {"legible", "accepted", "resolved", "composed", "sealed", "targeted", "written", "legacy"})
  BY SummaryOne DEF One
<1>8. Summary(Fact(v), One("scaffold"), {}, {"written"}, {})
  BY SummaryOne DEF One
<1>9. Summary(Fact(v), One("accepted"), {}, {"accepted"}, {})
  BY SummaryOne DEF One
<1>10. Summary(Fact(v), One("existing"), {"untouched"}, {"legible"}, {})
  BY SummaryOne DEF One
<1>11. Summary(Fact(v), One("reconcile"), {}, {}, {})
  BY SummaryOne DEF One
<1>12. Summary(Fact(v), One("compose"), {"accepted"}, {"composed"}, {})
  BY SummaryOne DEF One
<1>13. Summary(Fact(v), One("seal"), {"accepted", "resolved", "composed", "targeted"}, {"sealed"},
            {"resolved", "composed", "written"})
  BY SummaryOne DEF One
<1>14. Summary(Fact(v), One("writelock"), {"legible", "untouched", "sealed"}, {"written"}, {"untouched"})
  BY SummaryOne DEF One
<1>15. Summary(Fact(v), One("install"), {"sealed"}, {}, {})
  BY SummaryOne DEF One
<1>25. Summary(Fact(v), One("snapshot"), {}, {}, {})
  BY SummaryOne DEF One
<1>16. Summary(Fact(v), One("legacy"), {}, {"readable", "legacy"}, {"indexed", "noticed", "baked", "mirrored"})
  BY SummaryOne DEF One
<1>17. Summary(Fact(v), One("fetch"), {}, {"readable"}, {})
  BY SummaryOne DEF One
<1>18. Summary(Fact(v), One("notice"), {"readable"}, {"noticed"}, {"mirrored"})
  BY SummaryOne DEF One
<1>19. Summary(Fact(v), One("bake"), {"readable"}, {"baked"}, {"copied"})
  BY SummaryOne DEF One
<1>20. Summary(Fact(v), One("npm"), {}, {"mirrored"}, {})
  BY SummaryOne DEF One
<1>21. Summary(Fact(v), One("npmclear"), {}, {}, {"copied"})
  BY SummaryOne DEF One
<1>22. Summary(Fact(v), One("npmcopy"), {}, {"copied"}, {})
  BY SummaryOne DEF One
<1>23. Summary(Fact(v), Each("source", Order), {"legible"}, {"resolved"}, {"composed"})
  <2>1. \A k \in DOMAIN Fact(v) : "source" \notin Fact(v)[k][1] \/ "source" \notin Fact(v)[k][3]
    OBVIOUS
  <2>2. \A k \in DOMAIN Fact(v) : "source" \in Fact(v)[k][1] => k \in {"legible"}
    OBVIOUS
  <2>3. \A k \in DOMAIN Fact(v) : k \in {"resolved"} => "source" \notin Fact(v)[k][3] /\ <<"source", v>> \in Fact(v)[k][2]
    OBVIOUS
  <2>4. \A k \in DOMAIN Fact(v) : "source" \in Fact(v)[k][3] => k \in {"composed"}
    OBVIOUS
  <2>5. /\ Each("source", Order) \in Seq({"source"} \X Vendor)
        /\ DOMAIN Each("source", Order) = DOMAIN Order
        /\ \A i \in DOMAIN Order : Each("source", Order)[i] = <<"source", Order[i]>>
    BY <1>0 DEF Each
  <2>6. \E i \in DOMAIN Each("source", Order) : Each("source", Order)[i] = <<"source", v>>
    BY <1>0, <2>5
  <2>7. \A i \in DOMAIN Each("source", Order) : Each("source", Order)[i][1] = "source"
    BY <2>5
  <2> HIDE DEF Fact
  <2>8. "source" # "end"
    OBVIOUS
  <2> QED BY <2>1, <2>2, <2>3, <2>4, <2>5, <2>6, <2>7, <2>8, SummaryEach
<1>24. Summary(Fact(v), Each("index", Order), {"readable"}, {"indexed"}, {"mirrored"})
  <2>1. \A k \in DOMAIN Fact(v) : "index" \notin Fact(v)[k][1] \/ "index" \notin Fact(v)[k][3]
    OBVIOUS
  <2>2. \A k \in DOMAIN Fact(v) : "index" \in Fact(v)[k][1] => k \in {"readable"}
    OBVIOUS
  <2>3. \A k \in DOMAIN Fact(v) : k \in {"indexed"} => "index" \notin Fact(v)[k][3] /\ <<"index", v>> \in Fact(v)[k][2]
    OBVIOUS
  <2>4. \A k \in DOMAIN Fact(v) : "index" \in Fact(v)[k][3] => k \in {"mirrored"}
    OBVIOUS
  <2>5. /\ Each("index", Order) \in Seq({"index"} \X Vendor)
        /\ DOMAIN Each("index", Order) = DOMAIN Order
        /\ \A i \in DOMAIN Order : Each("index", Order)[i] = <<"index", Order[i]>>
    BY <1>0 DEF Each
  <2>6. \E i \in DOMAIN Each("index", Order) : Each("index", Order)[i] = <<"index", v>>
    BY <1>0, <2>5
  <2>7. \A i \in DOMAIN Each("index", Order) : Each("index", Order)[i][1] = "index"
    BY <2>5
  <2> HIDE DEF Fact
  <2>8. "index" # "end"
    OBVIOUS
  <2> QED BY <2>1, <2>2, <2>3, <2>4, <2>5, <2>6, <2>7, <2>8, SummaryEach
<1> QED BY <1>1, <1>2, <1>3, <1>4, <1>5, <1>6, <1>7, <1>8, <1>9, <1>10, <1>11, <1>12, <1>13, <1>14, <1>15,
           <1>16, <1>17, <1>18, <1>19, <1>20, <1>21, <1>22, <1>23, <1>24,
           <1>25

\* A part of a command: its steps, and what it does to the facts.
Part(s, names, needs, gives, upsets) ==
  /\ s \in Seq(StepSet) /\ Names(s) \subseteq names
  /\ \A v \in Vendor : Summary(Fact(v), s, needs, gives, upsets)

\* Two parts of a command, one after the other.
LEMMA PartConcat ==
  ASSUME NEW s, NEW m1, NEW n1, NEW g1, NEW u1, Part(s, m1, n1, g1, u1),
         NEW t, NEW m2, NEW n2, NEW g2, NEW u2, Part(t, m2, n2, g2, u2),
         n2 \cap u1 \subseteq g1,
         NEW m, NEW n, NEW g, NEW u, m1 \cup m2 \subseteq m, n1 \cup (n2 \ g1) \subseteq n,
         g \subseteq g2 \cup (g1 \ u2), u1 \cup u2 \subseteq u
  PROVE  Part(s \o t, m, n, g, u)
<1>1. s \in Seq(StepSet) /\ t \in Seq(StepSet) /\ Names(s) \subseteq m1 /\ Names(t) \subseteq m2
  BY DEF Part
<1>2. s \o t \in Seq(StepSet) /\ Names(s \o t) \subseteq m
  BY <1>1, NamesConcat
<1>3. ASSUME NEW v \in Vendor PROVE Summary(Fact(v), s \o t, n, g, u)
  <2>1. Summary(Fact(v), s, n1, g1, u1) /\ Summary(Fact(v), t, n2, g2, u2)
    BY DEF Part
  <2> QED BY <1>1, <2>1, SummaryConcat
<1> QED BY <1>2, <1>3 DEF Part

\* The steps that parts are made of.
LEMMA PartNames ==
  /\ << >> \in Seq(StepSet) /\ Names(<< >>) = {}
  /\ \A v \in Vendor : << <<"scan", v>> >> \in Seq(StepSet) /\ Names(<< <<"scan", v>> >>) = {"scan"}
  /\ \A n \in Plain : One(n) \in Seq(StepSet) /\ Names(One(n)) = {n}
  /\ \A n \in {"source", "index"} : Each(n, Order) \in Seq(StepSet) /\ Names(Each(n, Order)) \subseteq {n}
<1>1. << >> \in Seq(StepSet) /\ Names(<< >>) = {}
  BY DEF Names
<1>2. ASSUME NEW v \in Vendor
      PROVE  << <<"scan", v>> >> \in Seq(StepSet) /\ Names(<< <<"scan", v>> >>) = {"scan"}
  <2>1. <<"scan", v>> \in StepSet
    BY DEF StepSet, Placed
  <2> QED BY <2>1 DEF Names
<1>3. ASSUME NEW n \in Plain PROVE One(n) \in Seq(StepSet) /\ Names(One(n)) = {n}
  <2>1. <<n, None>> \in StepSet
    BY DEF StepSet
  <2> QED BY <2>1 DEF Names, One
<1>4. ASSUME NEW n \in {"source", "index"}
      PROVE  Each(n, Order) \in Seq(StepSet) /\ Names(Each(n, Order)) \subseteq {n}
  <2>1. \A v \in Vendor : <<n, v>> \in StepSet
    BY DEF StepSet, Placed
  <2>2. Order \in Seq(Vendor)
    BY OrderAssumption
  <2>3. \A i \in DOMAIN Order : <<n, Order[i]>> \in StepSet
    BY <2>1, <2>2
  <2> QED BY <2>2, <2>3 DEF Names, Each
<1> QED BY <1>1, <1>2, <1>3, <1>4

\* The parts of one step, and those of one step per vendor.
LEMMA StepParts ==
  /\ Part(<< >>, {}, {}, {}, {})
  /\ \A w \in Vendor : Part(<< <<"scan", w>> >>, {"scan"}, {}, {}, {})
  /\ Part(One("register"), {"register"}, {}, {}, {"accepted", "resolved", "composed", "sealed", "written", "legacy"})
  /\ Part(One("append"), {"append"}, {}, {}, {"accepted", "resolved", "composed", "sealed", "written", "legacy"})
  /\ Part(One("manifest"), {"manifest"}, {}, {"accepted", "targeted"},
          {"resolved", "composed", "sealed", "written", "legacy"})
  /\ Part(One("baseline"), {"baseline"}, {}, {},
          {"accepted", "resolved", "composed", "sealed", "targeted", "written", "legacy"})
  /\ Part(One("working"), {"working"}, {}, {},
          {"legible", "accepted", "resolved", "composed", "sealed", "targeted", "written", "legacy"})
  /\ Part(One("scaffold"), {"scaffold"}, {}, {"written"}, {})
  /\ Part(One("accepted"), {"accepted"}, {}, {"accepted"}, {})
  /\ Part(One("existing"), {"existing"}, {"untouched"}, {"legible"}, {})
  /\ Part(One("reconcile"), {"reconcile"}, {}, {}, {})
  /\ Part(One("compose"), {"compose"}, {"accepted"}, {"composed"}, {})
  /\ Part(One("seal"), {"seal"}, {"accepted", "resolved", "composed", "targeted"}, {"sealed"},
          {"resolved", "composed", "written"})
  /\ Part(One("writelock"), {"writelock"}, {"legible", "untouched", "sealed"}, {"written"}, {"untouched"})
  /\ Part(One("install"), {"install"}, {"sealed"}, {}, {})
  /\ Part(One("snapshot"), {"snapshot"}, {}, {}, {})
  /\ Part(One("legacy"), {"legacy"}, {}, {"readable", "legacy"}, {"indexed", "noticed", "baked", "mirrored"})
  /\ Part(One("fetch"), {"fetch"}, {}, {"readable"}, {})
  /\ Part(One("notice"), {"notice"}, {"readable"}, {"noticed"}, {"mirrored"})
  /\ Part(One("bake"), {"bake"}, {"readable"}, {"baked"}, {"copied"})
  /\ Part(One("npm"), {"npm"}, {}, {"mirrored"}, {})
  /\ Part(One("npmclear"), {"npmclear"}, {}, {}, {"copied"})
  /\ Part(One("npmcopy"), {"npmcopy"}, {}, {"copied"}, {})
  /\ Part(Each("source", Order), {"source"}, {"legible"}, {"resolved"}, {"composed"})
  /\ Part(Each("index", Order), {"index"}, {"readable"}, {"indexed"}, {"mirrored"})
BY StepSummaries, PartNames DEF Part, Plain

\* The package is brought up to date.
LEMMA SyncPart ==
  Part(Sync, Mirroring, {}, {"mirrored", "copied"}, {"copied"})
<1>1. Part(One("npm") \o One("npmclear"), Mirroring, {}, {"mirrored"}, {"copied"})
  BY StepParts, PartConcat DEF Mirroring
<1>2. Part(One("npm") \o One("npmclear") \o One("npmcopy"), Mirroring, {}, {"mirrored", "copied"}, {"copied"})
  BY <1>1, StepParts, PartConcat DEF Mirroring
<1> QED BY <1>2 DEF Sync

\* Indexes and notices are.
LEMMA IndexesPart ==
  Part(FetchedIndexes, Mirroring, {}, {"readable", "indexed", "noticed"}, {"mirrored"})
<1>1. Part(One("fetch") \o Each("index", Order), Mirroring, {}, {"readable", "indexed"}, {"mirrored"})
  BY StepParts, PartConcat DEF Mirroring
<1>2. Part(One("fetch") \o Each("index", Order) \o One("notice"), Mirroring, {},
           {"readable", "indexed", "noticed"},
           {"mirrored"})
  BY <1>1, StepParts, PartConcat DEF Mirroring
<1> QED BY <1>2 DEF FetchedIndexes

\* All that is generated is.
LEMMA RefreshingPart ==
  Part(Refreshing, {"legacy", "bake"} \cup Mirroring,
       {}, {"readable", "legacy", "indexed", "noticed", "baked", "mirrored", "copied"},
       {"indexed", "noticed", "baked", "mirrored", "copied"})
<1>1. Part(One("legacy") \o FetchedIndexes, {"legacy", "bake"} \cup Mirroring,
           {}, {"readable", "legacy", "indexed", "noticed"},
           {"indexed", "noticed", "baked", "mirrored"})
  BY StepParts, IndexesPart, PartConcat DEF Mirroring
<1>2. Part(One("legacy") \o FetchedIndexes \o One("bake"), {"legacy", "bake"} \cup Mirroring,
           {}, {"readable", "legacy", "indexed", "noticed", "baked"},
           {"indexed", "noticed", "baked", "mirrored", "copied"})
  BY <1>1, StepParts, PartConcat DEF Mirroring
<1>3. Part(One("legacy") \o FetchedIndexes \o One("bake") \o Sync, {"legacy", "bake"} \cup Mirroring,
           {}, {"readable", "legacy", "indexed", "noticed", "baked", "mirrored", "copied"},
           {"indexed", "noticed", "baked", "mirrored", "copied"})
  BY <1>2, SyncPart, PartConcat DEF Mirroring
<1> QED BY <1>3 DEF Refreshing

\* A lock is made.
LEMMA LockingPart ==
  Part(Locking, {"accepted"} \cup Sealing, {"untouched", "targeted"}, {"legible", "accepted", "sealed", "written"},
       {"untouched", "resolved", "composed", "written"})
<1>1. Part(One("accepted") \o One("existing"),
           {"accepted"} \cup Sealing, {"untouched"}, {"legible", "accepted"}, {})
  BY StepParts, PartConcat DEF Sealing
<1>2. Part(One("accepted") \o One("existing") \o Each("source", Order), {"accepted"} \cup Sealing,
           {"untouched"}, {"legible", "accepted", "resolved"},
           {"composed"})
  BY <1>1, StepParts, PartConcat DEF Sealing
<1>3. Part(One("accepted") \o One("existing") \o Each("source", Order) \o One("compose"),
           {"accepted"} \cup Sealing,
           {"untouched"}, {"legible", "accepted", "resolved", "composed"},
           {"composed"})
  BY <1>2, StepParts, PartConcat DEF Sealing
<1>4. Part(One("accepted") \o One("existing") \o Each("source", Order) \o One("compose") \o One("seal"),
           {"accepted"} \cup Sealing,
           {"untouched", "targeted"}, {"legible", "accepted", "sealed"},
           {"resolved", "composed", "written"})
  BY <1>3, StepParts, PartConcat DEF Sealing
<1>5. Part(One("accepted") \o One("existing") \o Each("source", Order) \o One("compose") \o One("seal")
           \o One("writelock"),
           {"accepted"} \cup Sealing,
           {"untouched", "targeted"}, {"legible", "accepted", "sealed", "written"},
           {"untouched", "resolved", "composed", "written"})
  BY <1>4, StepParts, PartConcat DEF Sealing
<1> QED BY <1>5 DEF Locking

\* A repin makes one.
LEMMA RepinLockingPart ==
  Part(RepinLocking, {"reconcile"} \cup Sealing,
       {"untouched", "accepted", "targeted"}, {"legible", "sealed", "written"},
       {"untouched", "resolved", "composed", "written"})
<1>1. Part(One("existing") \o Each("source", Order), {"reconcile"} \cup Sealing,
           {"untouched"}, {"legible", "resolved"},
           {"composed"})
  BY StepParts, PartConcat DEF Sealing
<1>2. Part(One("existing") \o Each("source", Order) \o One("reconcile"), {"reconcile"} \cup Sealing,
           {"untouched"}, {"legible", "resolved"},
           {"composed"})
  BY <1>1, StepParts, PartConcat DEF Sealing
<1>3. Part(One("existing") \o Each("source", Order) \o One("reconcile") \o One("compose"),
           {"reconcile"} \cup Sealing,
           {"untouched", "accepted"}, {"legible", "resolved", "composed"},
           {"composed"})
  BY <1>2, StepParts, PartConcat DEF Sealing
<1>4. Part(One("existing") \o Each("source", Order) \o One("reconcile") \o One("compose") \o One("seal"),
           {"reconcile"} \cup Sealing,
           {"untouched", "accepted", "targeted"}, {"legible", "sealed"},
           {"resolved", "composed", "written"})
  BY <1>3, StepParts, PartConcat DEF Sealing
<1>5. Part(One("existing") \o Each("source", Order) \o One("reconcile") \o One("compose") \o One("seal")
           \o One("writelock"),
           {"reconcile"} \cup Sealing,
           {"untouched", "accepted", "targeted"}, {"legible", "sealed", "written"},
           {"untouched", "resolved", "composed", "written"})
  BY <1>4, StepParts, PartConcat DEF Sealing
<1> QED BY <1>5 DEF RepinLocking

\* A part may be said to need more, to establish less and to upset more.
LEMMA PartWeaker ==
  ASSUME NEW s, NEW m1, NEW n1, NEW g1, NEW u1, Part(s, m1, n1, g1, u1),
         NEW m, NEW n, NEW g, NEW u, m1 \subseteq m, n1 \subseteq n, g \subseteq g1, u1 \subseteq u
  PROVE  Part(s, m, n, g, u)
BY SummaryWeaker DEF Part

\* A whole command: the facts it is sound about, and those it does not rely on.
LEMMA WholePart ==
  ASSUME NEW s, NEW names, NEW needs, NEW gives, NEW upsets, Part(s, names, needs, gives, upsets),
         NEW v \in Vendor, NEW k \in DOMAIN Fact(v), "end" \in Fact(v)[k][1] => k \in gives \/ k \notin upsets
  PROVE  /\ Planned(s, Fact(v)[k])
         /\ k \notin needs /\ ("end" \in Fact(v)[k][1] => k \in gives) => ~Reliant(s, Fact(v)[k])
<1>1. s \in Seq(StepSet) /\ Summary(Fact(v), s, needs, gives, upsets)
  BY DEF Part
<1> QED BY <1>1, SummaryWhole DEF Planned, Reliant

\* A whole command is sound about all facts, and relies on none that it does not need.
LEMMA WholePlan ==
  ASSUME NEW s, NEW names, NEW needs, NEW gives, NEW upsets, Part(s, names, needs, gives, upsets),
         needs \subseteq {"legible", "untouched", "accepted", "targeted"}
  PROVE  /\ Planned(s, LegibleF) /\ ("legible" \notin needs => ~Reliant(s, LegibleF))
         /\ Planned(s, UntouchedF)
         /\ Planned(s, AcceptedF) /\ ("accepted" \notin needs => ~Reliant(s, AcceptedF))
         /\ Planned(s, ComposedF) /\ ~Reliant(s, ComposedF)
         /\ Planned(s, SealedF) /\ ~Reliant(s, SealedF)
         /\ Planned(s, ReadableF) /\ ~Reliant(s, ReadableF)
         /\ "targeted" \in gives \ needs => Planned(s, TargetedF) /\ ~Reliant(s, TargetedF)
         /\ "written" \in gives => Planned(s, WrittenF) /\ ~Reliant(s, WrittenF)
         /\ "legacy" \in gives => Planned(s, LegacyF) /\ ~Reliant(s, LegacyF)
         /\ "noticed" \in gives => Planned(s, NoticedF) /\ ~Reliant(s, NoticedF)
         /\ "baked" \in gives => Planned(s, BakedF) /\ ~Reliant(s, BakedF)
         /\ "mirrored" \in gives => Planned(s, MirroredF) /\ ~Reliant(s, MirroredF)
         /\ "copied" \in gives => Planned(s, CopiedF) /\ ~Reliant(s, CopiedF)
         /\ \A v \in Vendor :
              /\ Planned(s, ResolvedF(v)) /\ ~Reliant(s, ResolvedF(v))
              /\ "indexed" \in gives => Planned(s, IndexedF(v)) /\ ~Reliant(s, IndexedF(v))
<1>1. ASSUME NEW v \in Vendor
      PROVE  /\ \A k \in {"legible", "untouched", "accepted", "resolved", "composed", "sealed", "readable"} :
                  k \in DOMAIN Fact(v) /\ "end" \notin Fact(v)[k][1]
             /\ {"targeted", "written", "legacy", "indexed", "noticed", "baked", "mirrored", "copied"}
                \subseteq DOMAIN Fact(v)
  BY DEF Fact, LegibleF, UntouchedF, AcceptedF, ResolvedF, ComposedF, SealedF, ReadableF
<1>2. ASSUME NEW v \in Vendor
      PROVE  /\ \A k \in {"legible", "untouched", "accepted", "resolved", "composed", "sealed", "readable"} :
                  Planned(s, Fact(v)[k]) /\ (k \notin needs => ~Reliant(s, Fact(v)[k]))
             /\ \A k \in {"targeted", "written", "legacy", "indexed", "noticed", "baked", "mirrored", "copied"} :
                  k \in gives => Planned(s, Fact(v)[k]) /\ (k \notin needs => ~Reliant(s, Fact(v)[k]))
  BY <1>1, WholePart
<1>3. ASSUME NEW v \in Vendor
      PROVE  /\ Fact(v)["legible"] = LegibleF /\ Fact(v)["untouched"] = UntouchedF /\ Fact(v)["accepted"] = AcceptedF
             /\ Fact(v)["resolved"] = ResolvedF(v) /\ Fact(v)["composed"] = ComposedF /\ Fact(v)["sealed"] = SealedF
             /\ Fact(v)["targeted"] = TargetedF /\ Fact(v)["written"] = WrittenF /\ Fact(v)["readable"] = ReadableF
             /\ Fact(v)["legacy"] = LegacyF /\ Fact(v)["indexed"] = IndexedF(v) /\ Fact(v)["noticed"] = NoticedF
             /\ Fact(v)["baked"] = BakedF /\ Fact(v)["mirrored"] = MirroredF /\ Fact(v)["copied"] = CopiedF
  BY DEF Fact
<1>4. PICK w \in Vendor : TRUE
  BY InputAssumption
<1>5. ASSUME NEW v \in Vendor
      PROVE  /\ Planned(s, ResolvedF(v)) /\ ~Reliant(s, ResolvedF(v))
             /\ "indexed" \in gives => Planned(s, IndexedF(v)) /\ ~Reliant(s, IndexedF(v))
  BY <1>2, <1>3
<1> QED BY <1>2, <1>3, <1>4, <1>5

\* The names of the facts.
FactName == {"legible", "untouched", "accepted", "resolved", "composed", "sealed", "targeted", "written",
             "readable", "legacy", "indexed", "noticed", "baked", "mirrored", "copied"}

\* manage: the pin, the registry, and all that is generated.
LEMMA ManagePart ==
  Part(Managing, StepsOf("manage"),
       {}, {"readable", "legacy", "indexed", "noticed", "baked", "mirrored", "copied"}, FactName)
<1>1. Part(One("register") \o One("legacy"), StepsOf("manage"), {}, {"readable", "legacy"}, FactName)
  BY StepParts, PartConcat DEF StepsOf, FactName
<1>2. Part(One("register") \o One("legacy") \o One("snapshot"), StepsOf("manage"),
           {}, {"readable", "legacy"}, FactName)
  BY <1>1, StepParts, PartConcat DEF StepsOf, FactName
<1> QED BY <1>2, RefreshingPart, PartConcat DEF StepsOf, FactName, Managing

\* build: from the locked sources to the artifacts.
LEMMA BuildPart ==
  Part(Each("source", Order) \o One("compose") \o One("seal") \o One("install"), StepsOf("build"),
       {"legible", "accepted", "targeted"}, {}, FactName)
<1>1. Part(Each("source", Order) \o One("compose"), StepsOf("build"),
           {"legible", "accepted"}, {"resolved", "composed"}, {"composed"})
  BY StepParts, PartConcat DEF StepsOf
<1>2. Part(Each("source", Order) \o One("compose") \o One("seal"), StepsOf("build"),
           {"legible", "accepted", "targeted"}, {"sealed"}, {"resolved", "composed", "written"})
  BY <1>1, StepParts, PartConcat DEF StepsOf
<1> QED BY <1>2, StepParts, PartConcat DEF StepsOf, FactName

\* add: the tree is looked at if the pin is new, and the pin is written; then its
\* scaffold is left, or the registry and the lock are made.
LEMMA AddPart ==
  ASSUME NEW get, Part(get, {"scan"}, {}, {}, {}),
         NEW l, NEW names, names \subseteq StepsOf("add") \ {"scaffold"},
         Part(l, names, {}, {}, {"indexed", "noticed", "baked", "mirrored"})
  PROVE  /\ Part(get \o One("append") \o One("scaffold"), StepsOf("add"), {}, {"written"}, FactName)
         /\ Part(get \o One("append") \o l \o Locking, StepsOf("add") \ {"scaffold"},
                 {"untouched", "targeted"}, {"written"}, FactName)
<1>1. Part(get \o One("append"), StepsOf("add") \ {"scaffold"}, {}, {},
           {"accepted", "resolved", "composed", "sealed", "written", "legacy"})
  BY StepParts, PartConcat DEF StepsOf
<1>2. Part(get \o One("append") \o One("scaffold"), StepsOf("add"), {}, {"written"}, FactName)
  BY <1>1, StepParts, PartConcat DEF StepsOf, FactName
<1>3. Part(get \o One("append") \o l, StepsOf("add") \ {"scaffold"}, {}, {}, FactName \ {"untouched", "targeted"})
  BY <1>1, PartConcat DEF StepsOf, FactName
<1>4. Part(get \o One("append") \o l \o Locking, StepsOf("add") \ {"scaffold"},
           {"untouched", "targeted"}, {"written"}, FactName)
  BY <1>3, LockingPart, PartConcat DEF StepsOf, Sealing, FactName
<1> QED BY <1>2, <1>4

\* repin: the catalog as it is or was, the pin, the lock, and the registry with its indexes.
LEMMA RepinPart ==
  ASSUME NEW baseline \in BOOLEAN, NEW needs, needs = IF baseline THEN {"legible", "untouched"} ELSE {"untouched"},
         NEW l, NEW gives, gives \subseteq {"readable", "legacy", "indexed", "noticed", "mirrored", "copied"},
         Part(l, {"legacy"} \cup Mirroring, {}, gives, {"indexed", "noticed", "baked", "mirrored", "copied"})
  PROVE  Part(One(IF baseline THEN "baseline" ELSE "existing") \o Each("source", Order)
              \o (IF baseline THEN One("working") ELSE << >>) \o One("manifest") \o RepinLocking \o l,
              StepsOf("repin"), needs, {"targeted", "written"} \cup gives, FactName)
<1> DEFINE begin == One(IF baseline THEN "baseline" ELSE "existing") \o Each("source", Order)
                    \o (IF baseline THEN One("working") ELSE << >>)
           upset == {"legible", "accepted", "resolved", "composed", "sealed", "targeted", "written", "legacy"}
<1>1. Part(begin, StepsOf("repin"), needs, {}, upset)
  <2>1. CASE ~baseline
    <3>1. Part(One("existing") \o Each("source", Order), StepsOf("repin"), {"untouched"}, {"legible", "resolved"},
               {"composed"})
      BY StepParts, PartConcat DEF StepsOf, Sealing
    <3>2. Part(One("existing") \o Each("source", Order) \o << >>, StepsOf("repin"), {"untouched"}, {}, upset)
      <4>1. One("existing") \o Each("source", Order) \in Seq(StepSet)
        BY <3>1 DEF Part
      <4>2. One("existing") \o Each("source", Order) \o << >> = One("existing") \o Each("source", Order)
        BY <4>1, ConcatEmptySeq
      <4> QED BY <3>1, <4>2, PartWeaker
    <3> QED BY <2>1, <3>2
  <2>2. CASE baseline
    <3>1. Part(One("baseline") \o Each("source", Order), StepsOf("repin"), {"legible"}, {"resolved"},
               {"accepted", "resolved", "composed", "sealed", "targeted", "written", "legacy"})
      BY StepParts, PartConcat DEF StepsOf, Sealing
    <3>2. Part(One("baseline") \o Each("source", Order) \o One("working"), StepsOf("repin"),
               {"legible", "untouched"}, {}, upset)
      BY <3>1, StepParts, PartConcat DEF StepsOf
    <3> QED BY <2>2, <3>2
  <2> QED BY <2>1, <2>2
<1> HIDE DEF begin
<1>2. Part(begin \o One("manifest"), StepsOf("repin"), needs, {"accepted", "targeted"}, upset)
  BY <1>1, StepParts, PartConcat DEF StepsOf
<1>3. Part(begin \o One("manifest") \o RepinLocking, StepsOf("repin"),
           needs, {"legible", "targeted", "written"}, upset \cup {"untouched"})
  BY <1>2, RepinLockingPart, PartConcat DEF StepsOf, Sealing
<1>4. Part(begin \o One("manifest") \o RepinLocking \o l, StepsOf("repin"),
           needs, {"targeted", "written"} \cup gives, FactName)
  BY <1>3, PartConcat DEF StepsOf, Sealing, FactName
<1> QED BY <1>4 DEF begin

\* What holds when a command starts with the steps s, which need and see to these facts.
Ready(name, m, s, needs, gives) ==
  /\ needs \subseteq {"legible", "untouched", "accepted", "targeted"}
  /\ "legible" \in needs => LockInUse' # Torn
  /\ "accepted" \in needs => Pending(files.manifest) = {}
  /\ name = "repin" => "targeted" \in gives \ needs /\ Pending(m) = {}
  /\ name \in {"add", "lock", "repin"} => "written" \in gives
  /\ name \in {"refresh", "manage"} \/ (name = "repin" /\ files.legacy # None)
       => {"legacy", "indexed", "noticed", "mirrored", "copied"} \subseteq gives
  /\ name \in {"refresh", "manage"} => "baked" \in gives
  /\ name = "manage" => Len(s) = Len(Refreshing) + 3
  /\ \A i \in DOMAIN s :
       /\ name = "manage" => Leading(i, s)
       /\ s[i][1] = "scan" => i = 1 /\ m[s[i][2]] # None
       /\ name = "lock" /\ s[i][1] = "writelock" => i = Len(s)
       /\ s[i][1] = "scaffold" => name = "add" /\ ~(Pending(m) \subseteq Pending(files.manifest))

\* A command starts: its plan is sound about every fact, and what the plan relies on
\* from the beginning holds.
LEMMA Launch ==
  ASSUME TypeOK, Right, files.manifest \in Manifest,
         NEW name \in CommandName, NEW m \in Manifest, NEW given, NEW s, Start(name, m, s, given),
         NEW needs, NEW gives, NEW upsets, Part(s, StepsOf(name), needs, gives, upsets),
         Ready(name, m, s, needs, gives)
  PROVE  IInv'
<1> USE DEF Ready
<1>1. /\ cmd' = name /\ cmd' # None /\ target' = m /\ todo' = s /\ saved' = files /\ UNCHANGED <<files, world>>
      /\ src' = Unpinned /\ out' = None /\ sealed' = None
      /\ undo' = {} /\ raised' = None /\ noted' = FALSE /\ outcome' = "busy" /\ began' = edits /\ edits' = edits
  BY NoneIsNoString DEF Start, world
<1>2. TypeOK'
  BY <1>1 DEF TypeOK, world, Unpinned
<1>3. Idle' /\ Failed'
  BY <1>1 DEF Idle, Failed
<1>4. Right'
  BY <1>1 DEF Right, RefsAreUpstream, world, LockFits
<1>5. Begun'
  <2>1. LockFits(saved.lock)'
    BY <1>1 DEF Right, LockFits
  <2> QED BY <1>1, <2>1 DEF Begun, Right, TypeOK
<1>6. Going'
  <2>1. InOrder'
    <3>1. s \in Seq(StepSet) /\ \A i \in DOMAIN s : s[i][1] \in StepsOf(name)
      BY DEF Part, Names
    <3>2. \A i \in DOMAIN s : s[i][1] = "scaffold" => ~Transactional'
      BY <1>1 DEF Transactional
    <3> QED BY <1>1, <3>1, <3>2 DEF InOrder, StepsOf, Leading
  <2>2. LockPlan' /\ LockFacts'
    <3>1. /\ Recording' => name \in {"add", "lock", "repin"}
          /\ files'.manifest = files.manifest /\ files'.lock = saved'.lock
      BY <1>1 DEF Recording
    <3>2. LockPlan'
      BY <1>1, <3>1, WholePlan DEF LockPlan
    <3>3. LockFacts'
      BY <1>1, <3>1, WholePlan DEF LockFacts, Due
    <3> QED BY <3>2, <3>3
  <2>3. MirrorPlan' /\ MirrorFacts'
    <3>1. Publishing' => name \in {"refresh", "manage"} \/ (name = "repin" /\ files.legacy # None)
      BY <1>1 DEF Publishing
    <3>2. MirrorPlan'
      BY <1>1, <3>1, WholePlan DEF MirrorPlan
    <3>3. MirrorFacts'
      BY <1>1, <3>1, WholePlan DEF MirrorFacts, Due
    <3> QED BY <3>2, <3>3
  <2>4. Kept(MayDiffer)'
    BY <1>1 DEF Kept
  <2>5. Registered'
    <3>1. name = "manage" => Len(todo') = Len(Refreshing) + 3 /\ Len(Refreshing) \in Nat
      BY <1>1
    <3> QED BY <1>1, <3>1 DEF Registered, Capturing
  <2> QED BY <1>1, <2>1, <2>2, <2>3, <2>4, <2>5 DEF Going
<1> QED BY <1>2, <1>3, <1>4, <1>5, <1>6 DEF IInv

\* Every declared pin is a pin.
LEMMA Pinning ==
  ASSUME NEW m \in Manifest, NEW v \in Vendor
  PROVE  /\ \A e \in Entry : [m EXCEPT ![v] = e] \in Manifest /\ [m EXCEPT ![v] = e][v] = e /\ e # None
         /\ \A r \in Rev : m[v] # None =>
              /\ [m EXCEPT ![v].sha = r] \in Manifest
              /\ Pending([m EXCEPT ![v].sha = r]) = Pending(m)
         /\ \A f \in Filter : m[v] # None => [m EXCEPT ![v].filter = f] \in Manifest
         /\ m[v] # None => /\ [m EXCEPT ![v].pending = FALSE] \in Manifest /\ m[v] \in Entry
                            /\ [m EXCEPT ![v].pending = FALSE][v] # None
                            /\ [m EXCEPT ![v].exported = TRUE] \in Manifest
<1>1. \A e \in Entry : [m EXCEPT ![v] = e] \in Manifest /\ [m EXCEPT ![v] = e][v] = e /\ e # None
  BY NoneAssumption DEF Manifest
<1>2. ASSUME NEW r \in Rev, m[v] # None
      PROVE  /\ [m EXCEPT ![v].sha = r] \in Manifest
             /\ Pending([m EXCEPT ![v].sha = r]) = Pending(m)
  <2>1. m[v] \in Entry
    BY <1>2 DEF Manifest
  <2>2. [m[v] EXCEPT !.sha = r] \in Entry /\ [m[v] EXCEPT !.sha = r].pending = m[v].pending
    BY <2>1 DEF Entry
  <2>3. [m EXCEPT ![v].sha = r] = [m EXCEPT ![v] = [m[v] EXCEPT !.sha = r]]
    BY DEF Manifest
  <2> DEFINE new == [m[v] EXCEPT !.sha = r]
  <2> HIDE DEF new
  <2>4. [m EXCEPT ![v] = new] \in Manifest /\ [m EXCEPT ![v] = new][v] = new /\ new # None
    BY <1>1, <2>2 DEF new
  <2>5. \A w \in Vendor : w # v => [m EXCEPT ![v] = new][w] = m[w]
    BY DEF Manifest
  <2>6. \A w \in Vendor : w \in Pending([m EXCEPT ![v] = new]) <=> w \in Pending(m)
    BY <1>2, <2>2, <2>4, <2>5 DEF Pending, Declared, new
  <2>7. Pending([m EXCEPT ![v] = new]) = Pending(m)
    BY <2>6 DEF Pending, Declared
  <2> QED BY <2>3, <2>4, <2>7 DEF new
<1>3. ASSUME m[v] # None
      PROVE  /\ [m EXCEPT ![v].pending = FALSE] \in Manifest /\ m[v] \in Entry
             /\ [m EXCEPT ![v].pending = FALSE][v] # None
             /\ [m EXCEPT ![v].exported = TRUE] \in Manifest
  <2>1. m[v] \in Entry
    BY <1>3 DEF Manifest
  <2>2. [m[v] EXCEPT !.pending = FALSE] \in Entry /\ [m[v] EXCEPT !.exported = TRUE] \in Entry
    BY <2>1 DEF Entry
  <2> QED BY <1>1, <2>1, <2>2 DEF Manifest
<1>4. ASSUME NEW f \in Filter, m[v] # None PROVE [m EXCEPT ![v].filter = f] \in Manifest
  <2>1. m[v] \in Entry
    BY <1>4 DEF Manifest
  <2>2. [m[v] EXCEPT !.filter = f] \in Entry
    BY <2>1 DEF Entry
  <2> QED BY <1>1, <2>1, <2>2 DEF Manifest
<1> QED BY <1>1, <1>2, <1>3, <1>4

\* Only add looks at a tree and leaves a scaffold.
LEMMA Elsewhere ==
  ASSUME NEW name \in CommandName \ {"add"}, NEW s, NEW n, NEW g, NEW u, Part(s, StepsOf(name), n, g, u)
  PROVE  \A i \in DOMAIN s : s[i][1] \notin {"scan", "scaffold"}
<1>1. "scan" \notin StepsOf(name) /\ "scaffold" \notin StepsOf(name)
  BY DEF CommandName, StepsOf, Mirroring, Sealing
<1> QED BY <1>1 DEF Part, Names

\* vendors add and update.
LEMMA ManageStarts ==
  ASSUME IInv, NEW v \in Vendor, NEW r \in Rev, ManageAdd(v, r) \/ ManageUpdate(v, r)
  PROVE  IInv'
<1> DEFINE s == Managing
<1>1. TypeOK /\ Right /\ files.manifest \in Manifest
  BY DEF IInv, TypeOK, Repository, ManageAdd, ManageUpdate, Whole
<1>2. PICK m \in Manifest : Start("manage", m, s, {})
  <2>1. [sha |-> r, filter |-> All, pending |-> FALSE, exported |-> TRUE] \in Entry
    BY FilterAssumption DEF Entry
  <2> QED BY <1>1, <2>1, Pinning DEF ManageAdd, ManageUpdate
<1>3. Len(s) = Len(Refreshing) + 3 /\ \A i \in DOMAIN s : Leading(i, s)
  <2> DEFINE first == << <<"register", None>>, <<"legacy", None>>, <<"snapshot", None>> >>
  <2>1. Refreshing \in Seq(StepSet)
    BY RefreshingPart DEF Part
  <2>2. s = first \o Refreshing
    <3>1. first = One("register") \o One("legacy") \o One("snapshot")
      BY DEF One
    <3> HIDE DEF first
    <3> QED BY <3>1 DEF Managing
  <2>3. /\ Len(s) = Len(Refreshing) + 3 /\ Len(Refreshing) \in Nat /\ DOMAIN s = 1..Len(s)
        /\ \A i \in 1..3 : s[i] = first[i]
    BY <2>1, <2>2
  <2>4. first[1][1] = "register" /\ first[2][1] = "legacy" /\ first[3][1] = "snapshot"
    OBVIOUS
  <2> HIDE DEF s, first
  <2>5. ASSUME NEW i \in DOMAIN s PROVE Leading(i, s)
    <3>1. /\ i + Len(Refreshing) = Len(s) => i = 3
          /\ i + Len(Refreshing) + 1 = Len(s) => i = 2
          /\ i + Len(Refreshing) + 1 < Len(s) => i = 1
      BY <2>3
    <3> QED BY <2>3, <2>4, <3>1 DEF Leading
  <2> QED BY <2>3, <2>5
<1> HIDE DEF s
<1>4. Part(s, StepsOf("manage"), {}, {"readable", "legacy", "indexed", "noticed", "baked", "mirrored", "copied"}, FactName)
  BY ManagePart DEF s
<1>5. \A i \in DOMAIN s : s[i][1] \notin {"scan", "scaffold"}
  BY <1>4, Elsewhere DEF CommandName
<1>6. Ready("manage", m, s, {}, {"readable", "legacy", "indexed", "noticed", "baked", "mirrored", "copied"})
  BY <1>3, <1>5 DEF Ready
<1> QED BY <1>1, <1>2, <1>4, <1>6, Launch DEF CommandName

\* refresh.
LEMMA RefreshStarts ==
  ASSUME IInv, Refresh
  PROVE  IInv'
<1>1. TypeOK /\ Right /\ files.manifest \in Manifest
  BY DEF IInv, TypeOK, Repository, Refresh, Whole
<1>2. Part(Refreshing, StepsOf("refresh"), {},
           {"readable", "legacy", "indexed", "noticed", "baked", "mirrored", "copied"}, FactName)
  BY RefreshingPart, PartWeaker DEF StepsOf, FactName
<1>3. \A i \in DOMAIN Refreshing : Refreshing[i][1] \notin {"scan", "scaffold"}
  BY <1>2, Elsewhere DEF CommandName
<1>4. Ready("refresh", files.manifest, Refreshing, {},
            {"readable", "legacy", "indexed", "noticed", "baked", "mirrored", "copied"})
  BY <1>3 DEF Ready
<1> QED BY <1>1, <1>2, <1>4, Launch DEF CommandName, Refresh

\* lock: its last step writes the lock.
LEMMA LockStarts ==
  ASSUME IInv, NEW given, LockCommand(given)
  PROVE  IInv'
<1>1. TypeOK /\ Right /\ files.manifest \in Manifest
  BY DEF IInv, TypeOK, Repository, LockCommand, Whole
<1>2. Part(Locking, StepsOf("lock"), {"untouched", "targeted"}, {"written"}, FactName)
  BY LockingPart, PartWeaker DEF StepsOf, FactName
<1>3. \A i \in DOMAIN Locking : Locking[i][1] \notin {"scan", "scaffold"}
  BY <1>2, Elsewhere DEF CommandName
<1>4. \A i \in DOMAIN Locking : Locking[i][1] = "writelock" => i = Len(Locking)
  <2> DEFINE before == One("accepted") \o One("existing") \o Each("source", Order) \o One("compose") \o One("seal")
  <2>1. before \in Seq(StepSet) /\ "writelock" \notin Names(before)
    <3> DEFINE some == One("accepted") \o One("existing")
               more == some \o Each("source", Order)
               most == more \o One("compose")
    <3>1. \A n \in {"accepted", "existing", "compose", "seal"} :
            One(n) \in Seq(StepSet) /\ "writelock" \notin Names(One(n))
      <4>1. \A n \in {"accepted", "existing", "compose", "seal"} : One(n) \in Seq(StepSet) /\ Names(One(n)) = {n}
        BY PartNames DEF Plain
      <4>2. "writelock" \notin {"accepted", "existing", "compose", "seal"}
        OBVIOUS
      <4> QED BY <4>1, <4>2
    <3>2. Each("source", Order) \in Seq(StepSet) /\ "writelock" \notin Names(Each("source", Order))
      BY PartNames
    <3>3. some \in Seq(StepSet) /\ "writelock" \notin Names(some)
      BY <3>1, Without
    <3> HIDE DEF some
    <3>4. more \in Seq(StepSet) /\ "writelock" \notin Names(more)
      BY <3>2, <3>3, Without
    <3> HIDE DEF more
    <3>5. most \in Seq(StepSet) /\ "writelock" \notin Names(most)
      BY <3>1, <3>4, Without
    <3> HIDE DEF most
    <3>6. most \o One("seal") \in Seq(StepSet) /\ "writelock" \notin Names(most \o One("seal"))
      BY <3>1, <3>5, Without
    <3>7. before = most \o One("seal")
      BY DEF most, more, some
    <3> QED BY <3>6, <3>7
  <2>2. Locking = before \o One("writelock")
    BY DEF Locking
  <2> HIDE DEF before
  <2>3. One("writelock") \in Seq(StepSet) /\ Len(One("writelock")) = 1
    <3>1. One("writelock") \in Seq(StepSet)
      BY PartNames DEF Plain
    <3> QED BY <3>1 DEF One
  <2> QED BY <2>1, <2>2, <2>3, ComesLast
<1>5. Ready("lock", files.manifest, Locking, {"untouched", "targeted"}, {"written"})
  BY <1>3, <1>4 DEF Ready
<1> QED BY <1>1, <1>2, <1>5, Launch DEF CommandName, LockCommand

\* fetch, of what the lock names.
LEMMA FetchStarts ==
  ASSUME IInv, FetchCommand
  PROVE  IInv'
<1>1. TypeOK /\ Right /\ files.manifest \in Manifest /\ files.lock # Torn
  BY DEF IInv, TypeOK, Repository, FetchCommand, Whole, LockReadable, Malformed
<1>2. Part(Each("source", Order), StepsOf("fetch"), {"legible"}, {"resolved"}, FactName)
  <2>1. Part(Each("source", Order), {"source"}, {"legible"}, {"resolved"}, {"composed"})
    BY StepParts
  <2> QED BY <2>1, PartWeaker DEF StepsOf, FactName
<1>3. \A i \in DOMAIN Each("source", Order) : Each("source", Order)[i][1] \notin {"scan", "scaffold"}
  BY <1>2, Elsewhere DEF CommandName
<1>4. LockInUse' # Torn
  BY <1>1 DEF LockInUse, FetchCommand, Start
<1>5. Ready("fetch", files.manifest, Each("source", Order), {"legible"}, {"resolved"})
  BY <1>3, <1>4 DEF Ready
<1> QED BY <1>1, <1>2, <1>5, Launch DEF CommandName, FetchCommand

\* build, of what is locked: nothing in it is pending.
LEMMA BuildStarts ==
  ASSUME IInv, Build
  PROVE  IInv'
<1> DEFINE s == Each("source", Order) \o One("compose") \o One("seal") \o One("install")
<1>1. TypeOK /\ Right /\ files.lock \in Lockfile /\ files.lock # Torn
  BY DEF IInv, TypeOK, Repository, Build, LockReadable, Malformed
<1>2. files.manifest \in Manifest /\ Pending(files.manifest) = {}
  BY <1>1 DEF Build, Current, Lockfile, Right, LockFits
<1>3. Part(s, StepsOf("build"), {"legible", "accepted", "targeted"}, {}, FactName)
  BY BuildPart
<1>4. Start("build", files.manifest, s, {})
  BY DEF Build
<1> HIDE DEF s
<1>5. \A i \in DOMAIN s : s[i][1] \notin {"scan", "scaffold"}
  BY <1>3, Elsewhere DEF CommandName
<1>6. LockInUse' # Torn
  BY <1>1, <1>4 DEF LockInUse, Start
<1>7. Ready("build", files.manifest, s, {"legible", "accepted", "targeted"}, {})
  BY <1>2, <1>5, <1>6 DEF Ready
<1> QED BY <1>1, <1>2, <1>3, <1>4, <1>7, Launch DEF CommandName

\* add: the tree is looked at first, and it leaves a scaffold only of a new pin that awaits
\* acceptance.
LEMMA AddStarts ==
  ASSUME IInv, NEW v \in Vendor, NEW r \in Rev, NEW accept \in BOOLEAN, NEW filter \in Filter, Add(v, r, accept, filter)
  PROVE  IInv'
<1> DEFINE new == files.manifest[v] = None
           m == IF new THEN [files.manifest EXCEPT ![v] = Added(v, r, accept, filter)]
                       ELSE [files.manifest EXCEPT ![v].pending = FALSE]
           get == IF new THEN << <<"scan", v>> >> ELSE << >>
           l == IF Compat THEN One("legacy") ELSE << >>
           names == IF Compat THEN {"legacy"} ELSE {}
           scaffolding == get \o One("append") \o One("scaffold")
           locked == get \o One("append") \o l \o Locking
           ScanFirst(s) == \A i \in DOMAIN s : s[i][1] = "scan" => i = 1 /\ s[i] = <<"scan", v>>
<1>1. TypeOK /\ Right /\ files.manifest \in Manifest
  BY DEF IInv, TypeOK, Repository, Add, Whole
<1>2. m \in Manifest /\ m[v] # None
  <2>1. Added(v, r, accept, filter) \in Entry
    BY DEF Added, Entry
  <2>2. CASE new
    <3>1. m = [files.manifest EXCEPT ![v] = Added(v, r, accept, filter)]
      BY <2>2
    <3>2. \A e \in Entry : [files.manifest EXCEPT ![v] = e] \in Manifest /\ [files.manifest EXCEPT ![v] = e][v] # None
      BY <1>1, Pinning
    <3> HIDE DEF m
    <3> QED BY <2>1, <3>1, <3>2
  <2>3. CASE ~new
    <3>1. m = [files.manifest EXCEPT ![v].pending = FALSE]
      BY <2>3
    <3> QED BY <1>1, <2>3, <3>1, Pinning
  <2> QED BY <2>2, <2>3
<1>3. IF m[v].pending THEN Start("add", m, scaffolding, {}) ELSE Start("add", m, locked, {})
  BY DEF Add
<1>4. m[v].pending => ~(Pending(m) \subseteq Pending(files.manifest))
  <2>1. CASE new
    <3>1. m[v].pending => v \in Pending(m) /\ v \notin Pending(files.manifest)
      BY <1>2, <2>1 DEF Pending, Declared
    <3> QED BY <3>1
  <2>2. CASE ~new
    <3>1. files.manifest[v] \in Entry /\ m = [files.manifest EXCEPT ![v].pending = FALSE]
      BY <1>1, <2>2, Pinning
    <3>2. ~m[v].pending
      BY <1>1, <3>1 DEF Manifest, Entry
    <3> QED BY <3>2
  <2> QED BY <2>1, <2>2
<1>5. /\ Part(get, {"scan"}, {}, {}, {})
      /\ get \in Seq(StepSet) /\ ScanFirst(get)
  <2>1. /\ Part(<< >>, {}, {}, {}, {})
        /\ Part(<< <<"scan", v>> >>, {"scan"}, {}, {}, {})
    BY StepParts
  <2>2. Part(get, {"scan"}, {}, {}, {})
    <3>1. Part(<< >>, {"scan"}, {}, {}, {})
      BY <2>1, PartWeaker
    <3> QED BY <2>1, <3>1
  <2>3. ScanFirst(get)
    OBVIOUS
  <2> QED BY <2>2, <2>3 DEF Part
<1>6. Part(l, names, {}, {}, {"indexed", "noticed", "baked", "mirrored"})
  <2>1. Part(<< >>, {}, {}, {}, {})
    BY StepParts
  <2>2. Part(<< >>, {}, {}, {}, {"indexed", "noticed", "baked", "mirrored"})
    BY <2>1, PartWeaker
  <2>3. Part(One("legacy"), {"legacy"}, {}, {"readable", "legacy"}, {"indexed", "noticed", "baked", "mirrored"})
    BY StepParts
  <2>4. Part(One("legacy"), {"legacy"}, {}, {}, {"indexed", "noticed", "baked", "mirrored"})
    BY <2>3, PartWeaker
  <2> QED BY <2>2, <2>4
<1>7. /\ names \subseteq StepsOf("add") \ {"scaffold"}
      /\ l \in Seq(StepSet) /\ Names(l) \subseteq names /\ "scan" \notin Names(l)
  <2>1. names \subseteq StepsOf("add") \ {"scaffold"} /\ "scan" \notin names
    BY DEF StepsOf, Sealing
  <2> QED BY <1>6, <2>1 DEF Part
<1>8. /\ Part(scaffolding, StepsOf("add"), {}, {"written"}, FactName)
      /\ Part(locked, StepsOf("add") \ {"scaffold"}, {"untouched", "targeted"}, {"written"}, FactName)
  <2> HIDE DEF get, l, names
  <2> QED BY <1>5, <1>6, <1>7, AddPart
<1> HIDE DEF get, l, names, m, new
<1>9. ScanFirst(scaffolding) /\ ScanFirst(locked)
  <2>1. \A n \in {"append", "scaffold"} : One(n) \in Seq(StepSet) /\ Names(One(n)) = {n}
    BY PartNames DEF Plain
  <2>2. Locking \in Seq(StepSet) /\ "scan" \notin Names(Locking)
    BY LockingPart DEF Part, Sealing
  <2>3. get \o One("append") \in Seq(StepSet) /\ ScanFirst(get \o One("append"))
    BY <1>5, <2>1, ComesFirst, NamesConcat
  <2>4. get \o One("append") \o l \in Seq(StepSet) /\ ScanFirst(get \o One("append") \o l)
    BY <1>7, <2>3, ComesFirst, NamesConcat
  <2>5. ScanFirst(scaffolding)
    BY <2>1, <2>3, ComesFirst
  <2>6. ScanFirst(locked)
    BY <2>2, <2>4, ComesFirst
  <2> QED BY <2>5, <2>6
<1> HIDE DEF scaffolding, locked
<1>10. ASSUME NEW s, ScanFirst(s)
       PROVE  \A i \in DOMAIN s : s[i][1] = "scan" => i = 1 /\ s[i][2] = v
  BY <1>10
<1>11. CASE m[v].pending
  <2>1. Ready("add", m, scaffolding, {}, {"written"})
    BY <1>2, <1>4, <1>9, <1>10, <1>11 DEF Ready
  <2> QED BY <1>1, <1>2, <1>3, <1>8, <1>11, <2>1, Launch DEF CommandName
<1>12. CASE ~m[v].pending
  <2>1. \A i \in DOMAIN locked : locked[i][1] # "scaffold"
    BY <1>8 DEF Part, Names
  <2>2. Part(locked, StepsOf("add"), {"untouched", "targeted"}, {"written"}, FactName)
    BY <1>8, PartWeaker
  <2>3. Ready("add", m, locked, {"untouched", "targeted"}, {"written"})
    BY <1>2, <1>9, <1>10, <2>1 DEF Ready
  <2> QED BY <1>1, <1>2, <1>3, <1>12, <2>2, <2>3, Launch DEF CommandName
<1> QED BY <1>11, <1>12

\* repin: of a catalog in which nothing is pending.
LEMMA RepinStarts ==
  ASSUME IInv, NEW v \in Vendor, NEW r \in Rev, NEW baseline \in BOOLEAN, Repin(v, r, baseline)
  PROVE  IInv'
<1> DEFINE published == IF files.legacy # None THEN One("legacy") \o FetchedIndexes \o Sync ELSE << >>
           gives == IF files.legacy # None THEN {"readable", "legacy", "indexed", "noticed", "mirrored", "copied"}
                                           ELSE {}
           needs == IF baseline THEN {"legible", "untouched"} ELSE {"untouched"}
           s == One(IF baseline THEN "baseline" ELSE "existing") \o Each("source", Order)
                \o (IF baseline THEN One("working") ELSE << >>) \o One("manifest") \o RepinLocking \o published
           m == [files.manifest EXCEPT ![v].sha = r]
<1>1. TypeOK /\ Right /\ files.manifest \in Manifest
  BY DEF IInv, TypeOK, Repository, Repin, Whole
<1>2. m \in Manifest /\ Pending(m) = {} /\ Start("repin", m, s, {})
  <2>1. files.manifest[v] # None /\ Pending(files.manifest) = {} /\ Start("repin", m, s, {})
    BY DEF Repin
  <2>2. m \in Manifest /\ Pending(m) = Pending(files.manifest)
    BY <1>1, <2>1, Pinning
  <2> QED BY <2>1, <2>2
<1>3. Part(published, {"legacy"} \cup Mirroring, {}, gives, {"indexed", "noticed", "baked", "mirrored", "copied"})
  <2>1. Part(One("legacy") \o FetchedIndexes, {"legacy"} \cup Mirroring,
             {}, {"readable", "legacy", "indexed", "noticed"}, {"indexed", "noticed", "baked", "mirrored"})
    BY StepParts, IndexesPart, PartConcat DEF Mirroring
  <2>2. Part(One("legacy") \o FetchedIndexes \o Sync, {"legacy"} \cup Mirroring,
             {}, {"readable", "legacy", "indexed", "noticed", "mirrored", "copied"},
             {"indexed", "noticed", "baked", "mirrored", "copied"})
    BY <2>1, SyncPart, PartConcat DEF Mirroring
  <2>3. Part(<< >>, {}, {}, {}, {})
    BY StepParts
  <2>4. Part(<< >>, {"legacy"} \cup Mirroring, {}, {}, {"indexed", "noticed", "baked", "mirrored", "copied"})
    BY <2>3, PartWeaker
  <2> QED BY <2>2, <2>4
<1>4. gives \subseteq {"readable", "legacy", "indexed", "noticed", "mirrored", "copied"}
  OBVIOUS
<1> HIDE DEF published, gives
<1>5. Part(s, StepsOf("repin"), needs, {"targeted", "written"} \cup gives, FactName)
  BY <1>3, <1>4, RepinPart
<1>6. "legible" \in needs => LockInUse' # Torn
  <2>1. CASE baseline
    <3> DEFINE start == One("baseline") \o Each("source", Order)
               old == start \o One("working")
               new == old \o One("manifest")
               sealing == new \o RepinLocking
    <3>1. "working" \in Names(s)
      <4>1. \A n \in {"baseline", "working", "manifest"} : One(n) \in Seq(StepSet) /\ Names(One(n)) = {n}
        BY PartNames DEF Plain
      <4>2. Each("source", Order) \in Seq(StepSet) /\ RepinLocking \in Seq(StepSet) /\ published \in Seq(StepSet)
        BY <1>3, PartNames, RepinLockingPart DEF Part
      <4>3. start \in Seq(StepSet)
        BY <4>1, <4>2, NamesConcat
      <4> HIDE DEF start
      <4>4. old \in Seq(StepSet) /\ "working" \in Names(old)
        BY <4>1, <4>3, NamesConcat
      <4> HIDE DEF old
      <4>5. new \in Seq(StepSet) /\ "working" \in Names(new)
        BY <4>1, <4>4, NamesConcat
      <4> HIDE DEF new
      <4>6. sealing \in Seq(StepSet) /\ "working" \in Names(sealing)
        BY <4>2, <4>5, NamesConcat
      <4> HIDE DEF sealing
      <4>7. "working" \in Names(sealing \o published)
        BY <4>2, <4>6, NamesConcat
      <4>8. s = sealing \o published
        BY <2>1 DEF sealing, new, old, start
      <4> QED BY <4>7, <4>8
    <3>2. todo' = s /\ cmd' = "repin"
      BY <1>2 DEF Start
    <3>3. \E i \in DOMAIN s : s[i][1] = "working"
      BY <3>1 DEF Names
    <3> QED BY <3>2, <3>3, NoneAssumption DEF LockInUse
  <2>2. CASE ~baseline
    BY <2>2
  <2> QED BY <2>1, <2>2
<1> DEFINE all == {"targeted", "written"} \cup gives
<1>7. /\ needs \subseteq {"legible", "untouched", "accepted", "targeted"} /\ "accepted" \notin needs
      /\ "targeted" \in all \ needs /\ "written" \in all
      /\ files.legacy # None => {"legacy", "indexed", "noticed", "mirrored", "copied"} \subseteq all
  BY DEF gives
<1>8. Part(s, StepsOf("repin"), needs, all, FactName)
  BY <1>5
<1> HIDE DEF s, needs, m, all
<1>9. \A i \in DOMAIN s : s[i][1] \notin {"scan", "scaffold"}
  BY <1>8, Elsewhere DEF CommandName
<1>10. Ready("repin", m, s, needs, all)
  BY <1>2, <1>6, <1>7, <1>9 DEF Ready
<1> QED BY <1>1, <1>2, <1>8, <1>10, Launch DEF CommandName

-----------------------------------------------------------------------------
(* Every step keeps the invariant.                                         *)

\* What the cache finds for a pinned revision stays what upstream has.
LEMMA RefsStay ==
  ASSUME Advances
  PROVE  RefsAreUpstream'
<1>1. /\ RefsAreUpstream /\ Running /\ Step /\ todo' = Tail(todo) /\ InOrder
      /\ refs \in [Vendor \X Rev -> Digest \cup {None}]
  BY DEF Advances, Going, Running, TypeOK
<1>2. todo' # << >> \/ raised' = None
  BY DEF Advances, Frame, fault, Running
<1>3. CASE refs' = refs
  BY <1>1, <1>3 DEF RefsAreUpstream
<1>4. CASE TakeSource
  <2>1. \/ refs' = refs
        \/ \E r \in Rev : \E ref \in {None, Upstream(Arg, r)} : refs' = [refs EXCEPT ![<<Arg, r>>] = ref]
    <3>1. \A e \in Entry : e.sha \in Rev
      BY DEF Entry
    <3>2. ~Abort
      BY <1>1, NoneIsNoString DEF Abort, Failing, Advances, Frame, fault, Running
    <3> QED BY <1>4, <3>1, <3>2, SourceTaken DEF Advances, Skip, Got, world
  <2> QED BY <1>1, <1>3, <2>1 DEF RefsAreUpstream
<1>5. CASE ScanTree
  <2> DEFINE r == target[Arg].sha
  <2>1. \/ refs' = refs
        \/ refs' = [refs EXCEPT ![<<Arg, r>>] = IF refs[<<Arg, r>>] = None THEN Upstream(Arg, r)
                                                ELSE refs[<<Arg, r>>]]
    BY <1>1, <1>5 DEF ScanTree, Abort, world
  <2>2. Arg \in Vendor /\ r \in Rev
    <3>1. step = "scan" /\ todo \in Seq(StepSet) /\ todo # << >> /\ target \in Manifest
      BY <1>1, <1>5 DEF ScanTree, Doing, step, InOrder, Running, Advances, Begun
    <3>2. Arg \in Vendor /\ 1 \in DOMAIN todo /\ Head(todo) = todo[1]
      BY <3>1, StepShape DEF Placed
    <3>3. target[Arg] # None
      BY <1>1, <3>1, <3>2 DEF InOrder, Arg, step
    <3> QED BY <3>1, <3>2, <3>3 DEF Manifest, Entry
  <2>3. refs[<<Arg, r>>] \in {None, Upstream(Arg, r)}
    BY <1>1, <2>2 DEF RefsAreUpstream
  <2> QED BY <1>1, <1>3, <2>1, <2>2, <2>3, ZenonT(60) DEF RefsAreUpstream
<1>6. CASE Step /\ ~TakeSource /\ ~ScanTree
  <2>1. refs' = refs
    BY <1>6 DEF Step, Register, AppendVendor, PublishManifest, PutBaseline, PutWorking, LeaveScaffold,
       SnapshotArtifacts, WriteLegacy,
         FetchTrees, WriteIndex, WriteNotice, BakePlugins, WriteNpm, ClearNpmBaked, CopyNpmBaked, RequireAccepted,
         ReadExisting, Reconcile, NotOffered, Compose, Seal, WriteLock, InstallBuild, Raised, Finish, RestoreFile,
         RestoreArtifacts, PutBack, Put, Keeping, Abort, world
  <2> QED BY <1>3, <2>1
<1> QED BY <1>1, <1>4, <1>5, <1>6

\* The manifest of a repin is not replaced any more when its lock is written.
LEMMA SettledWhenWritten ==
  ASSUME Going, Running, cmd = "repin", step = "writelock"
  PROVE  LockInUse = saved.lock
<1>1. /\ todo \in Seq(StepSet) /\ todo # << >> /\ InOrder
      /\ Planned(todo, UntouchedF) /\ Planned(todo, WrittenF)
  BY DEF Going, Running, InOrder, LockPlan, Recording
<1>2. /\ Len(todo) \in Nat /\ DOMAIN todo = 1..Len(todo) /\ 1 \in 1..Len(todo) /\ todo[1][1] = "writelock"
  BY <1>1, StepShape DEF step
<1>3. ASSUME NEW k \in 1..Len(todo), todo[k][1] = "working" PROVE FALSE
  <2>1. NameAt(todo, Len(todo)) = "end" /\ Len(todo) \in 0..Len(todo)
    BY <1>2 DEF NameAt
  <2>2. Upset(todo, Len(todo), Writes \cup {"seal"})
    BY <1>3 DEF Upset, Writes
  <2>3. PICK i \in 1..Len(todo) : /\ todo[i] \in { <<"writelock", None>>, <<"scaffold", None>> }
                                  /\ \A n \in (i + 1)..Len(todo) : todo[n][1] \notin Writes \cup {"seal"}
    BY <1>1, <2>1, <2>2 DEF Planned, Sound, WrittenF, Renewed
  <2>4. todo[i][1] = "writelock"
    <3>1. todo[i][1] \in StepsOf("repin")
      BY <1>1, <1>2 DEF InOrder
    <3> QED BY <2>3, <3>1 DEF StepsOf, Sealing, Mirroring
  <2>5. i > 1
    <3>1. k # i /\ k # 1
      BY <1>2, <1>3, <2>4
    <3>2. ~(k \in (i + 1)..Len(todo))
      BY <1>3, <2>3 DEF Writes
    <3> QED BY <1>2, <3>1, <3>2
  <2>6. i - 1 \in 0..Len(todo) /\ NameAt(todo, i - 1) = "writelock"
    <3>1. i - 1 < Len(todo) /\ (i - 1) + 1 = i /\ i - 1 \in 0..Len(todo)
      BY <1>2, <2>5
    <3> QED BY <2>4, <3>1 DEF NameAt
  <2>7. Upset(todo, i - 1, {"writelock"})
    <3>1. 1 \in 1..(i - 1)
      BY <2>5
    <3> QED BY <1>2, <3>1 DEF Upset
  <2>8. ~Renewed(todo, i - 1, {}, {"writelock"})
    BY DEF Renewed
  <2> QED BY <1>1, <2>6, <2>7, <2>8 DEF Planned, Sound, UntouchedF
<1> QED BY <1>2, <1>3 DEF LockInUse

\* A step that is taken keeps the invariant.
LEMMA AdvanceKeeps ==
  ASSUME IInv, Running, Step, todo' = Tail(todo), Frame, TypeOK'
  PROVE  IInv'
<1>1. Advances
  BY DEF IInv, Right, Advances
<1>2. /\ cmd # None /\ raised = None /\ Begun /\ Going /\ Right /\ InOrder /\ LockPlan /\ LockFacts
      /\ todo \in Seq(StepSet) /\ todo # << >> /\ UNCHANGED raised
  BY DEF IInv, Running, Going, InOrder, Frame, fault
<1>3. UNCHANGED <<cmd, saved, target, supplied, began, edits, undo, raised, noted>>
  BY DEF Frame, args, fault
<1>4. step \in StepsOf(cmd)
  <2>1. 1 \in DOMAIN todo /\ step = todo[1][1]
    BY <1>2, StepShape DEF step
  <2> QED BY <1>2, <2>1 DEF InOrder
<1>5. ASSUME step = "writelock"
      PROVE  /\ files'.lock = sealed /\ sealed \in Lockfile /\ LockFits(sealed)
             /\ saved.lock # Torn /\ LockKeeps(saved.lock, sealed)
  <2>1. WriteLock
    BY <1>2, <1>5, Named
  <2>2. files'.lock = sealed
    BY <2>1 DEF WriteLock, Put, IInv, TypeOK, Repository
  <2>3. Due(SealedF) /\ Due(LegibleF)
    BY <1>2, <1>5, Advancing DEF LockPlan, SealedF, LegibleF
  <2>4. LockInUse = saved.lock
    <3>1. CASE cmd = "repin"
      BY <1>2, <1>5, <3>1, SettledWhenWritten
    <3>2. CASE cmd # "repin"
      BY <3>2 DEF LockInUse
    <3> QED BY <3>1, <3>2
  <2> QED BY <1>2, <2>2, <2>3, <2>4 DEF LockFacts, SealedFits
<1>6. step # "writelock" => files'.lock = files.lock
  BY DEF Frame
<1>7. Idle' /\ Failed'
  BY <1>2, <1>3 DEF Idle, Failed
<1>8. Begun'
  <2>1. /\ saved \in Repository /\ saved.manifest \in Manifest /\ LockFits(saved.lock) /\ cmd \in CommandName
        /\ target \in Manifest /\ (cmd = "repin" => Pending(target) = {})
        /\ began \in Nat /\ edits \in Nat /\ began <= edits
    BY <1>2 DEF Begun
  <2>2. files'.lock # saved.lock =>
          saved.lock # Torn /\ files'.lock \in Lockfile /\ LockKeeps(saved.lock, files'.lock)
    <3>1. files.lock # saved.lock => files.lock \in Lockfile /\ LockKeeps(saved.lock, files.lock) /\ saved.lock # Torn
      BY <1>2 DEF Begun
    <3> QED BY <1>5, <1>6, <3>1
  <2>3. cmd \in {"manage", "refresh", "fetch"} => sealed' = None
    <3>1. cmd \in {"manage", "refresh", "fetch"} => step # "seal"
      BY <1>4 DEF StepsOf, Mirroring
    <3> QED BY <1>2, <3>1 DEF Begun, Frame
  <2>4. LockFits(saved.lock)' /\ (files'.lock # saved'.lock => LockKeeps(saved.lock, files.lock)')
    BY <1>3, <2>1, <2>2 DEF LockFits, LockKeeps
  <2> QED BY <1>3, <2>1, <2>2, <2>3, <2>4 DEF Begun
<1>9. Going'
  <2>1. files'.manifest \in Manifest
    BY <1>2 DEF Frame, Going
  <2>2. undo = {} /\ ~noted
    BY <1>2 DEF Going
  <2>3. InOrder' /\ Kept(MayDiffer)' /\ Registered' /\ LockPlan' /\ LockFacts' /\ MirrorPlan' /\ MirrorFacts'
    BY <1>1, OrderAdvances, LockAdvances, MirrorAdvances
  <2> QED BY <1>3, <2>1, <2>2, <2>3 DEF Going
<1>10. Right'
  <2>1. LockFits(files.lock)'
    <3>1. LockFits(files'.lock)
      BY <1>2, <1>5, <1>6 DEF Right
    <3> QED BY <3>1 DEF LockFits
  <2>2. files'.dist # None => Pending(files'.dist[1]) = {}
    <3>1. CASE step = "install"
      <4>1. InstallBuild /\ ~Abort
        BY <1>2, <3>1, Named
      <4>2. files'.dist = sealed.out
        BY <4>1 DEF InstallBuild, Put, IInv, TypeOK, Repository
      <4>3. SealedFits
        BY <1>2, <3>1, Advancing DEF LockPlan, LockFacts, SealedF
      <4> QED BY <4>2, <4>3 DEF SealedFits
    <3>2. CASE step # "install"
      BY <1>2, <3>2 DEF Frame, Right
    <3> QED BY <3>1, <3>2
  <2> QED BY <1>1, <1>2, <1>3, <2>1, <2>2, RefsStay DEF Right
<1> QED BY <1>7, <1>8, <1>9, <1>10 DEF IInv

\* A command that raises restores at least what it may have changed, if it is one
\* transaction; but for a managing command that copies what is generated.
LEMMA Restoring ==
  ASSUME IInv, Running, Transactional, NEW kind, Counted(kind)
  PROVE  \A x \in Tracked \ Restores(step, kind) : files[x] = Was(x)
<1>1. /\ Kept(MayDiffer) /\ Registered /\ todo # << >> /\ cmd \in CommandName /\ cmd # "refresh"
      /\ Len(todo) \in Nat /\ Len(Refreshing) \in Nat
  BY DEF IInv, Going, Begun, Running, Transactional, InOrder
<1>2. CASE cmd = "manage" /\ Capturing
  <2>1. MayDiffer = {"manifest", "legacy"}
    BY <1>1, <1>2 DEF MayDiffer, Capturing
  <2> QED BY <1>1, <1>2, <2>1 DEF Kept, Registered, Was
<1>3. CASE ~(cmd = "manage" /\ Capturing)
  <2>1. MayDiffer \subseteq Restores(step, kind)
    <3>1. CASE cmd = "manage" /\ Registering
      <4>1. Len(todo) > Len(Refreshing) /\ kind = "error" /\ ~Capturing
        BY <1>1, <3>1, NoneIsNoString DEF Registering, Capturing, Counted
      <4> QED BY <3>1, <4>1 DEF MayDiffer, Restores
    <3>2. CASE cmd = "manage" /\ ~Registering
      <4>1. ~(Len(todo) > Len(Refreshing)) /\ ~Capturing
        BY <1>1, <1>3, <3>2 DEF Registering, Capturing
      <4> QED BY <3>2, <4>1 DEF MayDiffer, Restores
    <3>3. CASE cmd = "repin"
      BY <1>1, <3>3 DEF MayDiffer, Restores
    <3>4. CASE cmd = "add"
      BY <1>1, <3>4 DEF MayDiffer, Restores, AddWrites, step, Counted
    <3>5. CASE cmd \in {"lock", "build", "fetch"}
      BY <1>1, <3>5 DEF MayDiffer
    <3> QED BY <1>1, <3>1, <3>2, <3>3, <3>4, <3>5 DEF CommandName
  <2> QED BY <1>1, <1>3, <2>1 DEF Kept, Was
<1> QED BY <1>2, <1>3

\* What a failing step may leave half written, in files that a transaction restores.
LEMMA Tearing ==
  ASSUME IInv, Running, NEW f \in TornFiles(step)
  PROVE  /\ f \in Repository /\ f.lock = files.lock /\ f.dist = files.dist
         /\ \A kind : Transactional /\ Counted(kind)
              => \A x \in Tracked \ Restores(step, kind) : f[x] = files[x]
<1>1. /\ files \in Repository /\ files.npm \in Npm /\ InOrder /\ cmd \in CommandName
      /\ todo \in Seq(StepSet) /\ todo # << >>
  BY DEF IInv, TypeOK, Repository, Going, Begun, Running, InOrder
<1>2. step \in StepsOf(cmd) /\ (cmd = "manage" /\ Len(todo) > Len(Refreshing) =>
                               step \in {"register", "legacy", "snapshot"} /\ (Capturing => step = "snapshot"))
  <2>1. 1 \in DOMAIN todo /\ step = todo[1][1] /\ Len(todo) \in Nat
    BY <1>1, StepShape DEF step
  <2>2. Len(Refreshing) \in Nat
    OBVIOUS
  <2>3. cmd = "manage" => Leading(1, todo)
    BY <1>1, <2>1 DEF InOrder
  <2> QED BY <1>1, <2>1, <2>2, <2>3 DEF InOrder, Leading, Capturing
<1>3. \/ f = files
      \/ step \in Writes /\ f = [files EXCEPT !.manifest = Torn]
      \/ step = "legacy" /\ f = [files EXCEPT !.legacy = Torn]
      \/ step = "npm" /\ f = [files EXCEPT !.npm = [files.npm EXCEPT !.legacy = Torn]]
      \/ step = "npmcopy" /\ f = [files EXCEPT !.npm = [files.npm EXCEPT !.baked = Torn]]
  BY <1>1 DEF TornFiles, InPlace, Writes, Repository
<1>4. f \in Repository /\ f.lock = files.lock /\ f.dist = files.dist
  <2>1. [files.npm EXCEPT !.legacy = Torn] \in Npm /\ [files.npm EXCEPT !.baked = Torn] \in Npm
    BY <1>1 DEF Npm
  <2> QED BY <1>1, <1>3, <2>1 DEF Repository
<1>5. ASSUME NEW kind, Transactional, Counted(kind),
             NEW x \in Tracked \ Restores(step, kind)
      PROVE  f[x] = files[x]
  <2>1. \/ f[x] = files[x]
        \/ step \in Writes /\ x = "manifest"
        \/ step = "legacy" /\ x = "legacy"
        \/ step \in {"npm", "npmcopy"} /\ x = "npm"
    BY <1>1, <1>3 DEF Repository, Tracked
  <2>2. CASE cmd = "manage"
    <3>1. Len(todo) \in Nat /\ Len(Refreshing) \in Nat
      BY <1>1
    <3>2. step \notin Writes \ {"register"}
      BY <1>2, <2>2 DEF StepsOf, Mirroring, Writes
    <3>3. CASE Registering
      <4>1. kind = "error" /\ Len(todo) > Len(Refreshing) /\ ~Capturing
        BY <1>5, <2>2, <3>1, <3>3 DEF Counted, Registering, Capturing
      <4>2. x \notin {"manifest", "legacy"}
        BY <1>5, <2>2, <3>3, <4>1 DEF Restores
      <4> QED BY <1>2, <2>1, <2>2, <4>1, <4>2 DEF Writes
    <3>4. CASE Capturing
      <4>1. step = "snapshot"
        BY <1>2, <2>2, <3>1, <3>4 DEF Capturing
      <4> QED BY <2>1, <4>1 DEF Writes
    <3>5. CASE ~Registering /\ ~Capturing
      <4>1. x \notin Tracked \ {"lock"}
        BY <1>5, <2>2, <3>5 DEF Restores
      <4> QED BY <1>5, <2>1, <4>1
    <3> QED BY <3>3, <3>4, <3>5
  <2>3. CASE cmd = "repin"
    BY <1>5, <2>3 DEF Restores
  <2>4. CASE cmd = "add"
    <3>1. kind = "error" /\ step \in StepsOf("add")
      BY <1>2, <1>5, <2>4 DEF Counted
    <3>2. step \notin {"npm", "npmcopy"} /\ (step = "legacy" => Compat)
      BY <3>1 DEF StepsOf, Sealing
    <3>3. step # "scan" => x \notin {"manifest"} \cup (IF Compat THEN {"legacy"} ELSE {})
      BY <1>5, <2>4, <3>1 DEF Restores, step
    <3> QED BY <2>1, <3>2, <3>3 DEF Writes
  <2>5. CASE cmd \in {"lock", "build", "fetch"}
    BY <1>2, <2>1, <2>5 DEF StepsOf, Sealing, Writes
  <2>6. cmd # "refresh"
    BY <1>5 DEF Transactional
  <2> QED BY <1>1, <2>2, <2>3, <2>4, <2>5, <2>6 DEF CommandName
<1> QED BY <1>4, <1>5

\* A command raises: at a step that fails, with a file torn or none, or at the end of an
\* add that leaves a scaffold.
LEMMA FailureKeeps ==
  ASSUME IInv, Running, NEW kind \in {"error", "interrupt"}, raised' = kind, todo' = todo,
         undo' = Restores(step, kind) \/ (undo' = {} /\ ~Transactional),
         files' \in TornFiles(step) \cup {files},
         UNCHANGED <<inputs, engine, store, refs, cmd, args, built, noted, outcome, edits>>
  PROVE  IInv'
<1>1. /\ files' \in Repository /\ files'.lock = files.lock /\ files'.dist = files.dist
      /\ \A k : Transactional /\ Counted(k)
           => \A x \in Tracked \ Restores(step, k) : files'[x] = files[x]
  BY Tearing DEF IInv, TypeOK
<1>2. /\ cmd # None /\ cmd' = cmd /\ raised' # None
      /\ UNCHANGED <<saved, target, supplied, began, commands, src, out, sealed>>
  BY NoneIsNoString DEF Running, args, built
<1>3. TypeOK'
  <2>1. undo' \subseteq Tracked
    BY DEF Restores, Tracked
  <2> QED BY <1>1, <1>2, <2>1 DEF IInv, TypeOK
<1>4. Idle' /\ Going'
  BY <1>2 DEF Idle, Going
<1>5. Begun'
  <2>1. LockFits(saved.lock)' <=> LockFits(saved.lock)
    BY <1>2 DEF LockFits
  <2>2. LockKeeps(saved.lock, files.lock)' <=> LockKeeps(saved.lock, files.lock)
    BY <1>1, <1>2 DEF LockKeeps
  <2>3. raised = None
    BY DEF Running
  <2> QED BY <1>1, <1>2, <2>1, <2>2, <2>3 DEF IInv, Begun
<1>6. Failed'
  <2>1. (Transactional' <=> Transactional) /\ (Counted(raised)' <=> Counted(kind)) /\ \A x : Was(x)' = Was(x)
    BY <1>2 DEF Transactional, Counted, Was, Registering, Capturing
  <2>2. ASSUME Transactional, Counted(kind), NEW x \in Tracked \ undo' PROVE files'[x] = Was(x)
    <3>1. undo' = Restores(step, kind)
      BY <2>2
    <3>2. files[x] = Was(x) /\ files'[x] = files[x]
      BY <1>1, <2>2, <3>1, Restoring
    <3> QED BY <3>2
  <2>3. \A x \in Tracked \ undo' : files[x]' = files'[x]
    OBVIOUS
  <2>4. cmd = "manage" /\ Capturing => undo' = {}
    BY DEF Restores, Capturing, Registering
  <2>5. Capturing' <=> Capturing
    BY DEF Capturing
  <2> QED BY <1>2, <2>1, <2>2, <2>3, <2>4, <2>5 DEF Failed
<1>7. Right'
  <2>1. LockFits(files.lock)' <=> LockFits(files.lock)
    BY <1>1 DEF LockFits
  <2> QED BY <1>1, <2>1 DEF IInv, Right, RefsAreUpstream
<1> QED BY <1>3, <1>4, <1>5, <1>6, <1>7 DEF IInv

\* What is left when putting a file back is cut off.
LEMMA CutOff ==
  ASSUME IInv, cmd # None, NEW f \in Tracked, NEW g \in PartlyBack(f)
  PROVE  /\ g \in Repository /\ g.dist = files.dist /\ g.lock \in {files.lock, saved.lock, Torn}
         /\ \A x \in Tracked : x # f => g[x] = files[x]
<1>1. files \in Repository /\ saved \in Repository
  BY DEF IInv, TypeOK, Begun
<1>2. PICK y : /\ g = [files EXCEPT ![f] = y]
               /\ y \in CASE f = "index" -> CutIndexes(files.index, saved.index)
                          [] f = "npm" -> CutNpm
                          [] OTHER -> Cut(files[f], saved[f])
  BY DEF PartlyBack
<1>3. CASE f = "index"
  <2>1. y \in Indexes
    BY <1>2, <1>3 DEF CutIndexes
  <2> QED BY <1>1, <1>2, <1>3, <2>1 DEF Repository, Tracked
<1>4. CASE f = "npm"
  <2>1. y \in CutNpm
    BY <1>2, <1>4
  <2>2. y \in Npm
    <3>1. files.npm \in Npm /\ saved.npm \in Npm
      BY <1>1 DEF Repository
    <3>2. /\ Cut(files.npm.legacy, saved.npm.legacy) \subseteq Pins \cup {None, Torn}
          /\ Cut(files.npm.notice, saved.npm.notice) \subseteq Notice
          /\ Cut(files.npm.baked, saved.npm.baked) \subseteq Pins \cup {None, Torn}
          /\ CutIndexes(files.npm.index, saved.npm.index) \subseteq Indexes
      BY <3>1 DEF Npm, Notice, Cut, CutIndexes
    <3> QED BY <2>1, <3>2 DEF CutNpm, Npm
  <2> QED BY <1>1, <1>2, <1>4, <2>2 DEF Repository, Tracked
<1>5. CASE f \notin {"index", "npm"}
  <2>1. y \in {files[f], saved[f], Torn}
    BY <1>2, <1>5 DEF Cut
  <2>2. g \in Repository
    <3>1. f = "manifest" => y \in Manifest \cup {Torn}
      BY <1>1, <2>1 DEF Repository
    <3>2. f = "lock" => y \in Lockfile \cup {None, Torn}
      BY <1>1, <2>1 DEF Repository
    <3>3. f \in {"legacy", "baked"} => y \in Pins \cup {None, Torn}
      BY <1>1, <2>1 DEF Repository
    <3>4. f = "notice" => y \in Notice
      BY <1>1, <2>1 DEF Repository, Notice
    <3> QED BY <1>1, <1>2, <1>5, <3>1, <3>2, <3>3, <3>4 DEF Repository, Tracked
  <2> QED BY <1>1, <1>2, <1>5, <2>1, <2>2 DEF Repository, Tracked
<1> QED BY <1>3, <1>4, <1>5

\* A file is put back, or cannot be.
LEMMA RestoringKeeps ==
  ASSUME IInv, NEW f \in Tracked, PutBack(f) \/ RestoreFails(f)
  PROVE  /\ IInv'
         /\ cmd # None /\ files'.dist = files.dist /\ files'.lock \in {files.lock, saved.lock, Torn}
         /\ files'.lock # files.lock => "lock" \in undo
         /\ UNCHANGED outcome
<1>1. /\ cmd # None /\ cmd' = cmd /\ raised # None /\ f \in undo
      /\ UNCHANGED <<saved, target, supplied, began, commands, src, out, sealed, todo, raised, outcome, edits>>
      /\ UNCHANGED <<inputs, engine, store, refs>>
      /\ undo' = undo \ {f}
  BY DEF IInv, Idle, PutBack, RestoreFails, Turn, args, built
<1>2. /\ files \in Repository /\ saved \in Repository
      /\ \/ files' = [files EXCEPT ![f] = saved[f]] /\ noted' = noted
         \/ files' \in PartlyBack(f) /\ noted' = TRUE
  BY <1>1 DEF IInv, TypeOK, Begun, PutBack, RestoreFails
<1>3. /\ files' \in Repository /\ files'.dist = files.dist /\ files'.lock \in {files.lock, saved.lock, Torn}
      /\ ~noted' => files'[f] = saved[f]
      /\ \A x \in Tracked : x # f => files'[x] = files[x]
  <2>1. CASE files' = [files EXCEPT ![f] = saved[f]] /\ noted' = noted
    BY <1>2, <2>1 DEF Repository, Tracked
  <2>2. CASE files' \in PartlyBack(f) /\ noted' = TRUE
    BY <1>1, <2>2, CutOff
  <2> QED BY <1>2, <2>1, <2>2
<1>l. f # "lock" => files'.lock = files.lock
  BY <1>3 DEF Tracked
<1>4. TypeOK'
  BY <1>1, <1>3 DEF IInv, TypeOK
<1>5. Idle' /\ Going'
  BY <1>1 DEF Idle, Going
<1>6. Begun'
  <2>1. LockFits(saved.lock)' <=> LockFits(saved.lock)
    BY <1>1 DEF LockFits
  <2>2. files'.lock = files.lock => (LockKeeps(saved.lock, files.lock)' <=> LockKeeps(saved.lock, files.lock))
    BY <1>1 DEF LockKeeps
  <2>3. ASSUME files'.lock # saved.lock
        PROVE  /\ saved.lock # Torn
               /\ \/ files'.lock \in Lockfile /\ LockKeeps(saved.lock, files.lock)'
                  \/ files'.lock = Torn /\ raised # None /\ "lock" \notin undo'
    <3>1. CASE files'.lock = files.lock
      BY <1>1, <2>2, <2>3, <3>1 DEF IInv, Begun
    <3>2. CASE files'.lock # files.lock
      <4>1. f = "lock" /\ files'.lock = Torn
        BY <1>3, <1>l, <2>3, <3>2
      <4> QED BY <1>1, <2>3, <4>1
    <3> QED BY <3>1, <3>2
  <2> QED BY <1>1, <2>1, <2>3 DEF IInv, Begun
<1>7. Failed'
  <2>1. /\ Transactional' <=> Transactional
        /\ (Counted(raised)' <=> Counted(raised)) /\ (Capturing' <=> Capturing)
        /\ \A x : Was(x)' = Was(x)
    BY <1>1 DEF Transactional, Counted, Was, Registering, Capturing
  <2>2. ~(cmd = "manage" /\ Capturing)
    BY <1>1 DEF IInv, Failed
  <2>3. ASSUME ~noted', Transactional, Counted(raised), NEW x \in Tracked \ undo' PROVE files'[x] = Was(x)
    <3>1. ~noted
      BY <1>2, <2>3
    <3>2. CASE x = f
      BY <1>3, <2>2, <2>3, <3>2 DEF Was
    <3>3. CASE x # f
      <4>1. x \in Tracked \ undo
        BY <1>1, <2>3, <3>3
      <4>2. files[x] = Was(x)
        BY <1>1, <2>3, <3>1, <4>1 DEF IInv, Failed
      <4> QED BY <1>3, <2>3, <3>3, <4>2
    <3> QED BY <3>2, <3>3
  <2> QED BY <1>1, <2>1, <2>2, <2>3 DEF Failed
<1>8. Right'
  <2>1. LockFits(files.lock)'
    <3>1. LockFits(Torn)
      BY NoneAssumption DEF LockFits
    <3>2. LockFits(files'.lock)
      BY <1>1, <1>3, <3>1 DEF IInv, Right, Begun
    <3> QED BY <3>2 DEF LockFits
  <2>2. noted' \in BOOLEAN
    BY <1>2 DEF IInv, Right
  <2> QED BY <1>1, <1>3, <2>1, <2>2 DEF IInv, Right, RefsAreUpstream
<1> QED BY <1>1, <1>3, <1>l, <1>4, <1>5, <1>6, <1>7, <1>8 DEF IInv

\* What is left when restoring is cut off.
LEMMA HalfwayFits ==
  ASSUME IInv, cmd # None, NEW g \in Halfway
  PROVE  /\ g \in Repository /\ g.dist = files.dist /\ g.lock \in {files.lock, saved.lock, Torn}
         /\ g.lock # files.lock => "lock" \in undo
<1>1. CASE g = files
  BY <1>1 DEF IInv, TypeOK
<1>2. CASE g # files
  <2>1. PICK f \in undo : g \in PartlyBack(f)
    BY <1>2 DEF Halfway
  <2>2. f \in Tracked
    BY DEF IInv, TypeOK
  <2> QED BY <2>1, <2>2, CutOff DEF Tracked
<1> QED BY <1>1, <1>2

\* A command ends: it was killed, it was interrupted, it raised, or it is done.
LEMMA EndKeeps ==
  ASSUME IInv, Raised \/ Finish \/ Kill \/ RestoreInterrupted
  PROVE  /\ IInv'
         /\ cmd # None /\ files'.dist = files.dist /\ files'.lock \in {files.lock, saved.lock, Torn}
         /\ files'.lock # files.lock => "lock" \in undo
<1>1. /\ cmd # None /\ Forget /\ outcome' \in {"ok", "error", "interrupt", "killed"}
      /\ UNCHANGED <<inputs, engine, store, refs, edits>>
  BY DEF IInv, Idle, TypeOK, Raised, Finish, Kill, RestoreInterrupted, world
<1>2. /\ files' \in Repository /\ files'.dist = files.dist /\ files'.lock \in {files.lock, saved.lock, Torn}
      /\ files'.lock # files.lock => "lock" \in undo
  <2>1. CASE files' = files
    BY <2>1 DEF IInv, TypeOK
  <2>2. CASE Kill /\ raised = None /\ todo # << >>
    <3>1. Running /\ files' \in TornFiles(step)
      BY <2>2 DEF Kill, Running, step
    <3> QED BY <3>1, Tearing
  <2>3. CASE files' \in Halfway
    BY <1>1, <2>3, HalfwayFits
  <2>4. CASE Kill /\ ~(raised = None /\ todo # << >>)
    BY <2>3, <2>4 DEF Kill
  <2>5. CASE RestoreInterrupted
    BY <2>3, <2>5 DEF RestoreInterrupted
  <2> QED BY <2>1, <2>2, <2>4, <2>5 DEF Raised, Finish, world
<1>3. TypeOK'
  BY <1>1, <1>2 DEF IInv, TypeOK, Forget, Unpinned
<1>4. Idle' /\ Begun' /\ Going' /\ Failed'
  BY <1>1 DEF Forget, Idle, Begun, Going, Failed
<1>5. Right'
  <2>1. LockFits(files.lock)'
    <3>1. LockFits(Torn)
      BY NoneAssumption DEF LockFits
    <3>2. LockFits(files'.lock)
      BY <1>1, <1>2, <3>1 DEF IInv, Right, Begun
    <3> QED BY <3>2 DEF LockFits
  <2> QED BY <1>1, <1>2, <2>1 DEF IInv, Right, RefsAreUpstream, Forget
<1> QED BY <1>1, <1>2, <1>3, <1>4, <1>5 DEF IInv

\* The author, an upgrade or another user of the cache changes something meanwhile.
LEMMA MeanwhileKeeps ==
  ASSUME IInv, edits' = edits + 1, UNCHANGED <<files, refs, args, built, fault, cmd, todo, outcome>>, TypeOK'
  PROVE  IInv'
<1>1. /\ UNCHANGED <<saved, target, supplied, began, commands, src, out, sealed, undo, raised, noted>>
      /\ edits \in Nat /\ edits' \in Nat
  BY DEF args, built, fault, IInv, Right
<1>2. LockFits(files.lock)' <=> LockFits(files.lock)
  BY DEF LockFits
<1>3. Right'
  BY <1>1, <1>2 DEF IInv, Right, RefsAreUpstream
<1>4. Idle' /\ Failed'
  BY <1>1 DEF IInv, Idle, Failed, Was, Counted, Registering, Capturing, Transactional
<1>5. Begun'
  <2>1. LockFits(saved.lock)' <=> LockFits(saved.lock)
    BY <1>1 DEF LockFits
  <2>2. LockKeeps(saved.lock, files.lock)' <=> LockKeeps(saved.lock, files.lock)
    BY <1>1 DEF LockKeeps
  <2> QED BY <1>1, <2>1, <2>2 DEF IInv, Begun
<1>6. Going'
  <2> SUFFICES ASSUME cmd # None, raised = None PROVE Going'
    BY <1>1 DEF Going
  <2>1. Going /\ edits' # began'
    BY <1>1 DEF IInv, Begun
  <2>2. LockInUse' = LockInUse /\ (Recording' <=> Recording) /\ (Publishing' <=> Publishing)
    BY <1>1 DEF LockInUse, Recording, Publishing
  <2>3. \A f : (Due(f)' <=> Due(f)) /\ (Planned(todo, f)' <=> Planned(todo, f))
    BY DEF Due, Planned
  <2>4. LockPlan' /\ MirrorPlan'
    BY <1>1, <2>1, <2>2, <2>3 DEF Going, LockPlan, MirrorPlan
  <2>5. LockFacts'
    <3>1. \A v \in Vendor : ResolvedFits(v) => ResolvedFits(v)'
      BY <1>1, <2>1, <2>2 DEF ResolvedFits
    <3>2. ComposedFits => ComposedFits'
      BY <1>1, <2>1 DEF ComposedFits
    <3>3. /\ LockFits(sealed)' <=> LockFits(sealed)
          /\ LockKeeps(LockInUse, sealed)' <=> LockKeeps(LockInUse, sealed)
      BY <1>1, <2>2 DEF LockFits, LockKeeps
    <3>4. SealedFits => SealedFits'
      BY <1>1, <2>1, <3>3 DEF SealedFits
    <3>5. WrittenFits => WrittenFits'
      BY <1>1, <2>1, <3>3 DEF WrittenFits
    <3> QED BY <1>1, <2>1, <2>2, <2>3, <3>1, <3>2, <3>4, <3>5 DEF Going, LockFacts
  <2>6. MirrorFacts'
    <3>1. MirrorFits' <=> MirrorFits
      BY DEF MirrorFits
    <3>2. \A v \in Vendor : IndexFits(v)' <=> IndexFits(v)
      BY DEF IndexFits
    <3> QED BY <1>1, <2>1, <2>2, <2>3, <3>1, <3>2 DEF Going, MirrorFacts
  <2>7. InOrder' /\ Kept(MayDiffer)' /\ Registered'
    BY <1>1, <2>1 DEF Going, InOrder, Leading, Transactional, Kept, MayDiffer, Registered, Capturing
  <2> QED BY <1>1, <2>1, <2>4, <2>5, <2>6, <2>7 DEF Going
<1> QED BY <1>3, <1>4, <1>5, <1>6 DEF IInv

\* Between commands, the author changes the manifest or the lock.
LEMMA EditKeeps ==
  ASSUME IInv, EditManifest \/ EditLock
  PROVE  IInv'
<1>1. /\ cmd = None /\ cmd' = None /\ edits \in Nat /\ edits' = edits + 1
      /\ UNCHANGED <<args, built, fault, cmd, todo, outcome, inputs, engine, store, refs>>
      /\ files \in Repository
  BY DEF EditManifest, EditLock, Edit, IInv, Right, TypeOK
<1>2. /\ UNCHANGED <<saved, target, supplied, began, commands, src, out, sealed, undo, raised, noted>>
  BY <1>1 DEF args, built, fault
<1>3. /\ files' \in Repository /\ files'.dist = files.dist
      /\ LockFits(files'.lock)
  <2>1. CASE EditManifest
    <3>1. PICK m \in Manifest : files' = [files EXCEPT !.manifest = m]
      <4>1. CASE ~Whole(files.manifest)
        BY <2>1, <4>1, InitAssumption DEF EditManifest
      <4>2. CASE Whole(files.manifest)
        <5>1. files.manifest \in Manifest
          BY <1>1, <4>2 DEF Whole, Repository
        <5>2. PICK v \in Declared(files.manifest) :
                \/ files' = [files EXCEPT !.manifest = [files.manifest EXCEPT ![v].exported = TRUE]]
                \/ files' = [files EXCEPT !.manifest = [files.manifest EXCEPT ![v] = None]]
                \/ \E r \in Rev : files' = [files EXCEPT !.manifest = [files.manifest EXCEPT ![v].sha = r]]
                \/ \E k \in Filter : files' = [files EXCEPT !.manifest = [files.manifest EXCEPT ![v].filter = k]]
          BY <2>1, <4>2, Zenon DEF EditManifest
        <5>3. v \in Vendor /\ files.manifest[v] # None
          BY DEF Declared
        <5>4. /\ [files.manifest EXCEPT ![v].exported = TRUE] \in Manifest
              /\ [files.manifest EXCEPT ![v] = None] \in Manifest
              /\ \A r \in Rev : [files.manifest EXCEPT ![v].sha = r] \in Manifest
              /\ \A k \in Filter : [files.manifest EXCEPT ![v].filter = k] \in Manifest
          <6>1. [files.manifest EXCEPT ![v] = None] \in Manifest
            BY <5>1, <5>3 DEF Manifest
          <6> QED BY <5>1, <5>3, <6>1, Pinning
        <5> QED BY <5>2, <5>4, Zenon
      <4> QED BY <4>1, <4>2
    <3>3. LockFits(files.lock)
      BY DEF IInv, Right
    <3> QED BY <1>1, <3>1, <3>3 DEF Repository
  <2>2. CASE EditLock
    <3>1. PICK l \in IF LockReadable(files.lock) THEN {Torn, None, [files.lock EXCEPT !.layout = "edited"]}
                     ELSE {None} :
                 files' = [files EXCEPT !.lock = l]
      BY <2>2 DEF EditLock
    <3>2. l \in Lockfile \cup {None, Torn} /\ LockFits(l)
      <4>1. LockFits(Torn) /\ LockFits(None)
        BY NoneAssumption DEF LockFits
      <4>2. ASSUME LockReadable(files.lock)
            PROVE  LET e == [files.lock EXCEPT !.layout = "edited"] IN e \in Lockfile /\ LockFits(e)
        <5> DEFINE e == [files.lock EXCEPT !.layout = "edited"]
        <5>1. files.lock \in Lockfile
          BY <1>1, <4>2 DEF LockReadable, Malformed, Repository
        <5>2. e \in Lockfile /\ e.manifest = files.lock.manifest /\ e.src = files.lock.src
          BY <5>1 DEF Lockfile
        <5>3. LockFits(files.lock)
          BY DEF IInv, Right
        <5>4. LockFits(e)
          BY <5>1, <5>2, <5>3 DEF LockFits
        <5> QED BY <5>2, <5>4
      <4> QED BY <3>1, <4>1, <4>2
    <3> QED BY <1>1, <3>1, <3>2 DEF Repository
  <2> QED BY <2>1, <2>2
<1>4. TypeOK'
  BY <1>1, <1>2, <1>3 DEF IInv, TypeOK
<1>5. Right'
  <2>1. LockFits(files.lock)'
    BY <1>3 DEF LockFits
  <2> QED BY <1>1, <1>2, <1>3, <2>1 DEF IInv, Right, RefsAreUpstream
<1>6. Idle' /\ Begun' /\ Going' /\ Failed'
  BY <1>1, <1>2 DEF IInv, Idle, Begun, Going, Failed
<1> QED BY <1>4, <1>5, <1>6 DEF IInv

\* The baseline revision.
LEMMA InitKeeps ==
  ASSUME Init
  PROVE  IInv
<1>1. /\ Registry(InitManifest) \in Pins /\ Registry(InitManifest) \in Indexes
      /\ Unpinned \in Pins /\ Unpinned \in Indexes
  BY InitAssumption DEF Registry, Pins, Indexes, Manifest, Entry, Unpinned
<1>2. Listed(Registry(InitManifest)) \in Notice /\ None \in Notice
  BY DEF Listed, Notice
<1>3. files \in Repository /\ files.lock = None /\ files.dist = None
  BY <1>1, <1>2, InitAssumption DEF Init, Repository, Npm
<1>4. inputs \in Input /\ engine \in Engine
  BY InputAssumption DEF Init
<1>5. TypeOK
  BY <1>3, <1>4 DEF Init, TypeOK, Unpinned
<1>6. Right
  BY <1>3, NoneAssumption DEF Init, Right, LockFits, RefsAreUpstream
<1> QED BY <1>5, <1>6 DEF Init, IInv, Idle, Begun, Going, Failed

\* A step of a command, and every other step of the repository.
LEMMA StepKeeps ==
  ASSUME IInv, Step
  PROVE  IInv'
<1>1. \/ Running \/ Raised \/ Finish \/ \E f \in Tracked : PutBack(f)
  BY DEF Step, Register, AppendVendor, PublishManifest, PutBaseline, PutWorking, LeaveScaffold, SnapshotArtifacts, WriteLegacy,
         FetchTrees, WriteIndex, WriteNotice, BakePlugins, WriteNpm, ClearNpmBaked, CopyNpmBaked, RequireAccepted,
         ReadExisting, Reconcile, NotOffered, TakeSource, ScanTree, Compose, Seal, WriteLock, InstallBuild,
         RestoreFile, RestoreArtifacts, PutBack, Turn, Doing, Running
<1>2. CASE Running
  <2>1. \/ todo' = Tail(todo) /\ Frame /\ TypeOK'
        \/ Abort
        \/ LeaveScaffold
    BY <1>2, StepKinds DEF IInv, Right
  <2>2. CASE todo' = Tail(todo) /\ Frame /\ TypeOK'
    BY <1>2, <2>2, AdvanceKeeps
  <2>3. CASE Abort
    BY <1>2, <2>3, FailureKeeps DEF Abort, Failing, world, step
  <2>4. CASE LeaveScaffold
    <3>1. ~Transactional
      <4>1. InOrder /\ todo \in Seq(StepSet) /\ todo # << >> /\ step = "scaffold"
        BY <1>2, <2>4 DEF IInv, Going, Running, InOrder, LeaveScaffold, Doing, step
      <4>2. 1 \in DOMAIN todo /\ step = todo[1][1]
        BY <4>1, StepShape DEF step
      <4> QED BY <4>1, <4>2 DEF InOrder
    <3> QED BY <1>2, <2>4, <3>1, FailureKeeps DEF LeaveScaffold, world, step
  <2> QED BY <2>1, <2>2, <2>3, <2>4
<1> QED BY <1>1, <1>2, RestoringKeeps, EndKeeps

\* Every step of the system keeps the invariant.
LEMMA NextKeeps ==
  ASSUME IInv, [Next]_vars
  PROVE  IInv'
<1>1. CASE Commands
  BY <1>1, ManageStarts, AddStarts, RepinStarts, RefreshStarts, FetchStarts, BuildStarts, LockStarts
     DEF Commands
<1>2. CASE Step
  BY <1>2, StepKeeps
<1>3. CASE Faults
  <2>1. CASE \E kind \in {"error", "interrupt"} : Fault(kind)
    <3>1. PICK kind \in {"error", "interrupt"} : Fault(kind)
      BY <2>1
    <3>2. Running
      BY <3>1 DEF Fault, Running
    <3> QED BY <3>1, <3>2, FailureKeeps DEF Fault, Failing, step
  <2> QED BY <1>3, <2>1, RestoringKeeps, EndKeeps DEF Faults
<1>4. CASE Environment
  <2>1. ASSUME Edit, UNCHANGED <<files, refs>>, inputs' \in Input, engine' \in Engine,
               store' \in [Digest -> {"none", "good", "bad"}]
        PROVE  IInv'
    <3>1. TypeOK'
      BY <2>1 DEF IInv, TypeOK, Edit, args, built, fault
    <3> QED BY <2>1, <3>1, MeanwhileKeeps DEF Edit
  <2>2. inputs \in Input /\ engine \in Engine /\ store \in [Digest -> {"none", "good", "bad"}]
    BY DEF IInv, TypeOK
  <2>3. CASE \E i \in Input \ {inputs} : EditInputs(i)
    BY <2>1, <2>2, <2>3 DEF EditInputs
  <2>4. CASE \E e \in Engine \ {engine} : Upgrade(e)
    BY <2>1, <2>2, <2>4 DEF Upgrade
  <2>5. CASE \E d \in Digest, entry \in {"none", "bad"} : CacheChanges(d, entry)
    <3>1. PICK d \in Digest, entry \in {"none", "bad"} : CacheChanges(d, entry)
      BY <2>5
    <3>2. store' \in [Digest -> {"none", "good", "bad"}]
      BY <2>2, <3>1 DEF CacheChanges
    <3> QED BY <2>1, <2>2, <3>1, <3>2 DEF CacheChanges
  <2> QED BY <1>4, <2>3, <2>4, <2>5, EditKeeps DEF Environment
<1>5. CASE UNCHANGED vars
  <2>1. /\ UNCHANGED <<files, inputs, engine, store, refs, saved, target, supplied, began, commands, src, out, sealed>>
        /\ UNCHANGED <<undo, raised, noted, faults, cmd, todo, outcome, edits>>
    BY <1>5 DEF vars, world, args, built, fault
  <2> QED BY <2>1 DEF IInv, TypeOK, Idle, Begun, Going, Failed, Right, RefsAreUpstream, LockFits, LockKeeps,
                    InOrder, LockPlan, LockFacts, MirrorPlan, MirrorFacts, Kept, MayDiffer, Transactional,
                    Planned, Due, Publishing, Recording, LockInUse, ResolvedFits, ComposedFits, SealedFits,
                    WrittenFits, Reproduces, Stored, IndexFits, MirrorFits, Leading, Registered, Capturing,
                    Registering, Counted, Was
<1> QED BY <1>1, <1>2, <1>3, <1>4, <1>5 DEF Next

\* The invariant holds in every state, whatever fails and whatever else changes.
THEOREM Invariance == Spec => []IInv
<1>1. Init => IInv
  BY InitKeeps
<1>2. IInv /\ [Next]_vars => IInv'
  BY NextKeeps
<1> QED BY <1>1, <1>2, PTL DEF Spec

-----------------------------------------------------------------------------
(* What may change the lock, the artifacts and the outcome.                *)

\* A setback of a command leaves what is published alone, and the lock as it is, as the
\* command found it, or torn.
Setback ==
  /\ cmd # None /\ files'.dist = files.dist /\ files'.lock \in {files.lock, saved.lock, Torn}
  /\ files'.lock # files.lock => "lock" \in undo
  /\ UNCHANGED outcome \/ Kill \/ RestoreInterrupted

\* A step of the repository is that of a command that goes on; a setback; the end of a
\* command; an edit of the author; or it leaves the files alone.
LEMMA Moves ==
  ASSUME IInv, [Next]_vars
  PROVE  \/ Running /\ Step /\ todo' = Tail(todo) /\ Frame /\ UNCHANGED <<outcome, cmd, raised>>
         \/ Setback
         \/ Raised \/ Finish
         \/ EditManifest \/ EditLock
         \/ UNCHANGED files /\ outcome' \in {outcome, "busy"}
<1>1. CASE Commands
  <2>1. ASSUME NEW name, NEW m, NEW steps, NEW given, Start(name, m, steps, given)
        PROVE  UNCHANGED files /\ outcome' = "busy"
    BY <2>1 DEF Start, world
  <2>2. ASSUME NEW v \in Vendor, NEW r \in Rev, NEW b \in BOOLEAN, NEW k \in Filter,
               ManageAdd(v, r) \/ ManageUpdate(v, r) \/ Add(v, r, b, k) \/ Repin(v, r, b)
        PROVE  UNCHANGED files /\ outcome' = "busy"
    BY <2>1, <2>2 DEF ManageAdd, ManageUpdate, Add, Repin
  <2>3. ASSUME Refresh \/ FetchCommand \/ Build PROVE UNCHANGED files /\ outcome' = "busy"
    BY <2>1, <2>3 DEF Refresh, FetchCommand, Build
  <2>4. ASSUME NEW given, LockCommand(given) PROVE UNCHANGED files /\ outcome' = "busy"
    BY <2>1, <2>4 DEF LockCommand
  <2> QED BY <1>1, <2>2, <2>3, <2>4, FilterAssumption DEF Commands
<1>2. ASSUME Running, NEW f \in TornFiles(step)
      PROVE  f.lock = files.lock /\ f.dist = files.dist
  BY <1>2, Tearing
<1>3. CASE Step
  <2>1. \/ Running \/ Raised \/ Finish \/ \E f \in Tracked : PutBack(f)
    BY <1>3 DEF Step, Register, AppendVendor, PublishManifest, PutBaseline, PutWorking, LeaveScaffold,
       SnapshotArtifacts, WriteLegacy,
           FetchTrees, WriteIndex, WriteNotice, BakePlugins, WriteNpm, ClearNpmBaked, CopyNpmBaked, RequireAccepted,
           ReadExisting, Reconcile, NotOffered, TakeSource, ScanTree, Compose, Seal, WriteLock, InstallBuild,
           RestoreFile, RestoreArtifacts, PutBack, Turn, Doing, Running
  <2>2. CASE Running
    <3>1. \/ todo' = Tail(todo) /\ Frame
          \/ Abort
          \/ LeaveScaffold
      BY <1>3, <2>2, StepKinds DEF IInv, Right
    <3>2. todo' = Tail(todo) /\ Frame => UNCHANGED <<outcome, cmd, raised>>
      BY DEF Frame, fault
    <3>3. Abort \/ LeaveScaffold => Setback
      BY <2>2 DEF Abort, Failing, LeaveScaffold, world, Running, Setback
    <3> QED BY <1>3, <2>2, <3>1, <3>2, <3>3
  <2>3. CASE \E f \in Tracked : PutBack(f)
    BY <2>3, RestoringKeeps DEF Setback
  <2> QED BY <2>1, <2>2, <2>3
<1>4. CASE Faults
  <2>1. CASE \E kind \in {"error", "interrupt"} : Fault(kind)
    <3>1. PICK kind \in {"error", "interrupt"} : Fault(kind)
      BY <2>1
    <3>2. Running /\ files' \in TornFiles(step) /\ UNCHANGED outcome
      BY <3>1 DEF Fault, Failing, Running, step
    <3> QED BY <1>2, <3>2 DEF Setback, Running
  <2>2. CASE \E f \in Tracked : RestoreFails(f)
    BY <2>2, RestoringKeeps DEF Setback
  <2>3. CASE Kill \/ RestoreInterrupted
    BY <2>3, EndKeeps DEF Setback
  <2> QED BY <1>4, <2>1, <2>2, <2>3 DEF Faults
<1>5. CASE Environment
  BY <1>5 DEF Environment, EditInputs, Upgrade, CacheChanges, Edit
<1>6. CASE UNCHANGED vars
  BY <1>6 DEF vars, world
<1> QED BY <1>1, <1>3, <1>4, <1>5, <1>6 DEF Next

\* The lock that is written was sealed for what the manifest pins, and keeps the snapshots
\* of the lock that is there.
LEMMA LockIsWritten ==
  ASSUME IInv, Running, Step, step = "writelock", UNCHANGED raised
  PROVE  /\ files'.lock = sealed /\ sealed \in Lockfile
         /\ files.lock = saved.lock /\ files.lock # Torn /\ LockKeeps(files.lock, sealed)
<1>1. /\ cmd # None /\ raised = None /\ Going /\ InOrder /\ LockPlan /\ LockFacts
      /\ todo \in Seq(StepSet) /\ todo # << >>
  BY DEF IInv, Running, Going, InOrder
<1>2. files'.lock = sealed
  <2>1. WriteLock
    BY Named
  <2> QED BY <2>1 DEF WriteLock, Put, IInv, TypeOK, Repository
<1>3. Due(SealedF) /\ Due(LegibleF) /\ Due(UntouchedF)
  BY <1>1, Advancing DEF LockPlan, SealedF, LegibleF, UntouchedF
<1>4. LockInUse = saved.lock
  <2>1. CASE cmd = "repin"
    BY <1>1, <2>1, SettledWhenWritten
  <2>2. CASE cmd # "repin"
    BY <2>2 DEF LockInUse
  <2> QED BY <2>1, <2>2
<1> QED BY <1>1, <1>2, <1>3, <1>4 DEF LockFacts, SealedFits

-----------------------------------------------------------------------------
(* What the lock says.                                                     *)

\* The cache finds for a pinned revision what upstream has, and the lock names a snapshot
\* of its revision for every pin of its manifest and for no other.
THEOREM Pinned == Spec => []PinsResolve
<1>1. IInv => PinsResolve
  <2> SUFFICES ASSUME IInv PROVE PinsResolve
    OBVIOUS
  <2>1. LockReadable(files.lock) => files.lock \in Lockfile
    BY DEF IInv, TypeOK, Repository, LockReadable, Malformed
  <2>2. LockNamesItsPins
    BY <2>1 DEF IInv, Right, LockFits, LockNamesItsPins, Snapshots
  <2> QED BY <2>2 DEF IInv, Right, PinsResolve
<1> QED BY <1>1, Invariance, PTL

\* Nothing that awaits acceptance is locked or published.
THEOREM Accepted == Spec => []PendingNeverLocked
<1>1. IInv => PendingNeverLocked
  <2> SUFFICES ASSUME IInv PROVE PendingNeverLocked
    OBVIOUS
  <2>1. LockReadable(files.lock) => files.lock \in Lockfile
    BY DEF IInv, TypeOK, Repository, LockReadable, Malformed
  <2> QED BY <2>1 DEF IInv, Right, LockFits, PendingNeverLocked
<1> QED BY <1>1, Invariance, PTL

\* A pin that is not moved keeps its snapshot: when a lock is written, and when the one a
\* command found is put back; and a lock that is torn is not written over.
THEOREM PinsKeepTheirSnapshots == Spec => PinKeepsDigest
<1> DEFINE Keeps ==
  /\ LockReadable(files.lock) /\ LockReadable(files'.lock) =>
       \A v \in Declared(files'.lock.manifest) :
         Unchanged(files.lock, files'.lock.manifest, v) => files'.lock.src[v] = files.lock.src[v]
  /\ Malformed(files.lock) => ~LockReadable(files'.lock)
<1>1. ASSUME IInv, [Next]_vars PROVE Keeps
  <2>0. files \in Repository /\ (LockReadable(files.lock) => files.lock \in Lockfile) /\ LockFits(files.lock)
    BY <1>1 DEF IInv, Right, TypeOK, Repository, LockReadable, Malformed
  <2>1. CASE files'.lock = files.lock
    BY <2>1 DEF LockReadable, Malformed
  <2>2. CASE Running /\ Step /\ todo' = Tail(todo) /\ Frame /\ UNCHANGED raised /\ files'.lock # files.lock
    <3>1. step = "writelock"
      BY <2>2 DEF Frame
    <3>2. files'.lock = sealed /\ files.lock # Torn /\ LockKeeps(files.lock, sealed)
      BY <1>1, <2>2, <3>1, LockIsWritten
    <3> QED BY <3>2 DEF LockKeeps, Malformed
  <2>3. CASE Setback /\ files'.lock # files.lock
    <3>1. cmd # None /\ "lock" \in undo /\ files'.lock \in {saved.lock, Torn}
      BY <2>3 DEF Setback
    <3>2. CASE files'.lock = Torn
      BY <3>2 DEF LockReadable, Malformed
    <3> SUFFICES ASSUME files'.lock = saved.lock PROVE Keeps
      BY <3>1, <3>2
    <3>3. /\ saved.lock # Torn /\ files.lock \in Lockfile /\ LockKeeps(saved.lock, files.lock)
          /\ saved.lock \in Lockfile \cup {None, Torn} /\ LockFits(saved.lock)
      BY <1>1, <2>3, <3>1 DEF IInv, Begun, Repository
    <3>4. files.lock # Torn
      BY <3>3, NoneAssumption
    <3>5. ASSUME LockReadable(saved.lock), NEW v \in Declared(saved.lock.manifest),
                 Unchanged(files.lock, saved.lock.manifest, v)
          PROVE  saved.lock.src[v] = files.lock.src[v]
      <4>1. saved.lock \in Lockfile /\ v \in Vendor /\ saved.lock.manifest[v] # None
        BY <3>3, <3>5 DEF LockReadable, Malformed, Declared
      <4>2. saved.lock.src[v] # None
        <5>1. saved.lock.manifest[v].sha \in Rev
          BY <4>1 DEF Lockfile, Manifest, Entry
        <5> QED BY <3>3, <4>1, <5>1, Digests DEF LockFits, Snapshots
      <4>3. /\ files.lock.manifest[v] # None /\ files.lock.manifest[v].sha = saved.lock.manifest[v].sha
            /\ files.lock.manifest[v].filter = saved.lock.manifest[v].filter
        BY <3>5 DEF Unchanged
      <4>4. v \in Declared(files.lock.manifest) /\ Unchanged(saved.lock, files.lock.manifest, v)
        BY <3>5, <4>1, <4>2, <4>3 DEF Declared, Unchanged, LockReadable
      <4> QED BY <3>3, <4>4 DEF LockKeeps
    <3> QED BY <3>4, <3>5 DEF Malformed
  <2>4. CASE EditLock
    <3>1. PICK l \in IF LockReadable(files.lock) THEN {Torn, None, [files.lock EXCEPT !.layout = "edited"]}
                     ELSE {None} :
                 files' = [files EXCEPT !.lock = l]
      BY <2>4 DEF EditLock
    <3>2. files'.lock = l
      BY <2>0, <3>1 DEF Repository
    <3>3. l = [files.lock EXCEPT !.layout = "edited"] /\ LockReadable(files.lock) => l.src = files.lock.src
      BY <2>0 DEF Lockfile
    <3> QED BY <3>1, <3>2, <3>3 DEF LockReadable, Malformed
  <2>5. EditManifest \/ Raised \/ Finish => files'.lock = files.lock
    BY <2>0 DEF EditManifest, Raised, Finish, world, Repository
  <2> QED BY <1>1, <2>1, <2>2, <2>3, <2>4, <2>5, Moves DEF Keeps
<1>2. Spec => [][Keeps]_vars
  BY <1>1, Invariance, PTL DEF Spec
<1> QED BY <1>2, PTL DEF PinKeepsDigest, Keeps

\* What is published was built from the lock that is there.
THEOREM BuildsAreLocked == Spec => BuildMatchesLock
<1>1. ASSUME IInv, [Next]_vars, files'.dist # files.dist
      PROVE  LockReadable(files.lock) /\ files'.dist = files.lock.out
  <2>0. files \in Repository
    BY <1>1 DEF IInv, TypeOK
  <2>1. ~EditManifest /\ ~EditLock /\ ~Raised /\ ~Finish /\ ~Setback
    BY <1>1, <2>0 DEF EditManifest, EditLock, Raised, Finish, world, Setback, Repository
  <2>2. Running /\ Step /\ Frame /\ UNCHANGED raised
    BY <1>1, <2>1, Moves
  <2>3. step = "install"
    BY <1>1, <2>2 DEF Frame
  <2>4. InstallBuild /\ ~Abort
    BY <2>2, <2>3, Named
  <2>5. sealed = files.lock /\ files'.dist = sealed.out
    BY <2>0, <2>4 DEF InstallBuild, Put, Repository
  <2>6. sealed \in Lockfile
    <3>1. Going /\ InOrder /\ LockPlan /\ LockFacts /\ todo \in Seq(StepSet) /\ todo # << >>
      BY <1>1, <2>2 DEF IInv, Running, Going, InOrder
    <3>2. Due(SealedF)
      BY <2>3, <3>1, Advancing DEF LockPlan, SealedF
    <3> QED BY <3>1, <3>2 DEF LockFacts, SealedFits
  <2> QED BY <2>5, <2>6, NoneAssumption DEF LockReadable, Malformed
<1> QED BY <1>1, Invariance, PTL DEF Spec, BuildMatchesLock

-----------------------------------------------------------------------------
(* How a command ends.                                                     *)

\* A transaction that fails, and says of no file that it could not be restored, leaves
\* every tracked file as it found it; a managing command that could not copy what is
\* generated leaves its new pin in the registry, and nothing else.
THEOREM FailuresLeaveNoTrace == Spec => FailureLeavesNoTrace
<1>1. ASSUME IInv, [Next]_vars, outcome = "busy", ~noted, Transactional, Handled(outcome')
      PROVE  \A f \in Tracked : files'[f] = Was(f)
  <2>1. outcome' # outcome /\ outcome' \notin {"ok", "killed", "busy"}
    BY <1>1 DEF Handled
  <2>2. ~EditManifest /\ ~EditLock /\ ~Finish /\ ~Kill
    BY <2>1 DEF EditManifest, EditLock, Edit, Finish, Kill
  <2>3. ~RestoreInterrupted
    BY <1>1 DEF RestoreInterrupted, Handled
  <2>4. Raised
    BY <1>1, <2>1, <2>2, <2>3, Moves DEF Setback
  <2>5. raised # None /\ undo = {} /\ outcome' = raised /\ files' = files
    BY <2>4 DEF Raised, world
  <2>6. Counted(raised)
    BY <1>1, <2>5 DEF Handled, Counted
  <2> QED BY <1>1, <2>5, <2>6 DEF IInv, Failed
<1> QED BY <1>1, Invariance, PTL DEF Spec, FailureLeavesNoTrace

\* A command that is done has nothing left to do: every fact it is to end with is due.
LEMMA Done ==
  ASSUME IInv, [Next]_vars, outcome = "busy", outcome' = "ok"
  PROVE  /\ Finish /\ UNCHANGED <<files, inputs, engine, store, edits>> /\ cmd \in CommandName
         /\ todo = << >> /\ LockFacts /\ MirrorFacts /\ files.manifest \in Manifest
         /\ \A f : "end" \in f[1] => Due(f)
<1>1. outcome' # outcome /\ outcome' \notin {"killed", "busy"}
  OBVIOUS
<1>2. ~EditManifest /\ ~EditLock /\ ~Setback
  BY <1>1 DEF EditManifest, EditLock, Edit, Setback, Kill, RestoreInterrupted
<1>3. ~Raised
  BY NoneAssumption DEF Raised, IInv, TypeOK
<1>4. Finish
  BY <1>1, <1>2, <1>3, Moves
<1> QED BY <1>4, Over DEF Finish, IInv, Begun, Going, world

\* A refresh or a change to a pin that succeeds leaves what `vendors check` accepts, and a
\* repin the new pin everywhere.
THEOREM SuccessesAgree == Spec => SuccessAgrees
<1>1. ASSUME IInv, [Next]_vars, outcome = "busy", outcome' = "ok" PROVE RefreshRepairs /\ RepinIsWhole
  <2>0. /\ files' = files /\ LockFacts /\ MirrorFacts /\ files.manifest \in Manifest
        /\ \A f : "end" \in f[1] => Due(f)
    BY <1>1, Done
  <2>1. ASSUME Publishing
        PROVE  LegacyCheck(files) /\ IndexCheck(files) /\ MirrorCheck(files) /\ Readable(files.legacy)
    <3>1. Due(LegacyF) /\ Due(NoticedF) /\ Due(MirroredF) /\ Due(CopiedF) /\ \A v \in Vendor : Due(IndexedF(v))
      BY <2>0 DEF LegacyF, NoticedF, MirroredF, CopiedF, IndexedF
    <3>2. /\ LegacyCheck(files) /\ files.notice = Listed(files.legacy) /\ MirrorFits
          /\ files.npm.baked = files.baked /\ \A v \in Vendor : IndexFits(v)
      BY <2>0, <2>1, <3>1 DEF MirrorFacts
    <3>3. Registry(files.manifest) \in Pins
      BY <2>0 DEF Registry, Pins, Manifest, Entry
    <3>4. Readable(files.legacy)
      BY <3>2, <3>3, NoneAssumption DEF LegacyCheck, Readable
    <3>5. IndexCheck(files)
      BY <3>2, <3>4 DEF IndexCheck, IndexFits, Listed
    <3>6. MirrorCheck(files)
      BY <3>2 DEF MirrorCheck, MirrorFits, BakedMirrored
    <3> QED BY <3>2, <3>4, <3>5, <3>6
  <2>2. ASSUME cmd \in {"refresh", "manage"} PROVE CheckPasses(files)
    <3>1. Due(BakedF)
      BY <2>0 DEF BakedF
    <3>2. files.baked = files.legacy
      BY <2>0, <2>2, <3>1 DEF MirrorFacts
    <3> QED BY <2>1, <2>2, <3>2 DEF CheckPasses, BakedCheck, Publishing
  <2>3. ASSUME cmd = "repin"
        PROVE  files.manifest = target /\ files.lock.manifest = target
    <3>1. Due(TargetedF) /\ Due(WrittenF)
      BY <2>0 DEF TargetedF, WrittenF
    <3> QED BY <2>0, <2>3, <3>1 DEF LockFacts, WrittenFits, Recording
  <2> QED BY <2>0, <2>1, <2>2, <2>3 DEF RefreshRepairs, RepinIsWhole, Publishing
<1> QED BY <1>1, Invariance, PTL DEF Spec, SuccessAgrees

\* A lock that was made while nothing else changed passes its own check.
THEOREM LocksReproduce == Spec => LockReproducible
<1>1. ASSUME IInv, [Next]_vars, outcome = "busy", outcome' = "ok", sealed # None, cmd # "build", edits = began
      PROVE  LockCheckPasses'
  <2>0. /\ UNCHANGED <<files, inputs, engine, store>> /\ LockFacts /\ files.manifest \in Manifest
        /\ cmd \in CommandName /\ cmd # None
        /\ \A f : "end" \in f[1] => Due(f)
    BY <1>1, Done, NoneIsNoString
  <2>1. Recording
    BY <1>1, <2>0 DEF Recording, CommandName, IInv, Begun
  <2>2. WrittenFits
    BY <2>0, <2>1 DEF LockFacts, WrittenF
  <2>3. /\ files.lock \in Lockfile /\ LockReadable(files.lock) /\ Canonical(files.lock) /\ LockFits(files.lock)
        /\ Reproduces(files.lock)
    BY <1>1, <2>2, NoneAssumption DEF WrittenFits, LockReadable, Malformed, Canonical
  <2>4. ASSUME NEW v \in Vendor
        PROVE  /\ (files.manifest[v] # None) <=> (files.lock.src[v] # None)
               /\ files.manifest[v] # None => store[files.lock.src[v]] = "good"
    <3>1. files.lock.src[v] \in Snapshots(files.manifest, v)
      BY <2>3 DEF LockFits, Reproduces
    <3>2. files.manifest[v] # None => files.manifest[v].sha \in Rev
      BY <2>0 DEF Manifest, Entry
    <3>3. (files.manifest[v] # None) <=> (files.lock.src[v] # None)
      BY <3>1, <3>2, Digests DEF Snapshots
    <3> QED BY <2>3, <3>3 DEF Reproduces, Stored
  <2>5. LockCheckPasses
    BY <2>3, <2>4 DEF LockCheckPasses, Current, Reproduces, Declared
  <2> QED BY <2>0, <2>5 DEF LockCheckPasses, Current
<1> QED BY <1>1, Invariance, PTL DEF Spec, LockReproducible

=============================================================================
