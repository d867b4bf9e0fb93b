------------------------------ MODULE Project ------------------------------
(***************************************************************************)
(* An author's repository and the engine's commands that change it: the    *)
(* manifest ai-skills.yaml, ai-skills.lock, the outputs generated for      *)
(* older consumers (vendors.yaml, vendor-indexes, NOTICE.md,               *)
(* plugins-baked, npm data), the built artifacts, and the source cache     *)
(* commands share with those of other repositories.                        *)
(*                                                                         *)
(* A command is a list of steps; a step is a file or a network access.     *)
(* Steps fail, commands are interrupted (KeyboardInterrupt, which some     *)
(* handlers catch and some do not) or killed, restoring fails, and the     *)
(* author and other processes change inputs and cache meanwhile.           *)
(***************************************************************************)
EXTENDS Naturals, Sequences, FiniteSets, TLC

CONSTANTS
  Vendor,      \* vendor aliases
  Order,       \* the order in which the manifest lists them
  Rev,         \* what a pin may point to: a repository and a commit of it
  Filter,      \* what a pin includes and excludes of the packages that are there
  All,         \* the filter that leaves none of them out
  Compat,      \* the manifest has x-legacy-format: vendors.yaml is published
  Input,       \* versions of the author's own content
  Engine,      \* engine releases
  InitManifest,\* the manifest of the baseline revision
  WithManifest,\* the <<vendor, revision>> whose tree has a manifest of its own
  None,
  Torn,        \* a file that was being written in place, or is in conflict
  MaxFaults,   \* bound: failing steps, interrupts, kills and failing restores
  MaxEdits,    \* bound: edits of the author, upgrades, changes to the cache
  MaxCommands  \* bound: commands that are run

\* The snapshot of a pinned source is known by its digest: upstream's, or that of
\* a tree given with --vendor-root.
Upstream(v, r) == <<v, r, "upstream">>
Local(v, r)    == <<v, r, "local">>
Digest == {Upstream(v, r) : v \in Vendor, r \in Rev} \cup {Local(v, r) : v \in Vendor, r \in Rev}

\* A declared pin: its revision, its filter, whether its mapping still awaits acceptance
\* (x-mapping-scaffold), and whether the manifest exports its packages.
Entry == [sha : Rev, filter : Filter, pending : BOOLEAN, exported : BOOLEAN]
Manifest == [Vendor -> Entry \cup {None}]
Pins == [Vendor -> Rev \cup {None}]
Indexes == [Vendor -> Rev \cup {None, Torn}]
Notice == {None, Torn} \cup SUBSET Vendor

CommandName == {"manage", "refresh", "add", "lock", "fetch", "build", "repin"}

\* What a build makes, the lock that records it, and the files of a repository; one that
\* was torn is Torn.
Artifact == Manifest \X Input \X Engine \X [Vendor -> Digest \cup {None}]
Lockfile == [manifest : Manifest, inputs : Input, builder : Engine, src : [Vendor -> Digest \cup {None}],
             out : Artifact, layout : {"canonical", "edited"}]
Npm  == [legacy : Pins \cup {None, Torn}, index : Indexes, notice : Notice, baked : Pins \cup {None, Torn}]
Repository ==
  [manifest : Manifest \cup {Torn}, lock : Lockfile \cup {None, Torn}, legacy : Pins \cup {None, Torn},
   index : Indexes, notice : Notice, baked : Pins \cup {None, Torn},
   dist : Artifact \cup {None}, npm : Npm]

ASSUME OrderAssumption == Order \in Seq(Vendor) /\ {Order[i] : i \in DOMAIN Order} = Vendor
ASSUME FilterAssumption == All \in Filter
ASSUME InitAssumption == InitManifest \in Manifest
ASSUME WithManifestAssumption == WithManifest \subseteq Vendor \X Rev
ASSUME InputAssumption == Vendor # {} /\ Input # {} /\ Engine # {}
\* What is absent or torn is nothing a file may hold.
ASSUME NoneAssumption ==
  /\ None # Torn
  /\ \A x \in {None, Torn} :
       /\ x \notin CommandName \cup {"error", "interrupt"}
       /\ x \notin Rev /\ x \notin Entry /\ x \notin Manifest /\ x \notin Pins
       /\ x \notin Digest /\ x \notin Artifact /\ x \notin Lockfile

VARIABLES
  files,    \* the repository
  inputs, engine,
  store,    \* cache: digest -> "none", "good" or "bad"
  refs,     \* cache: pinned coordinate -> digest or None
  cmd,      \* the running command, or None
  todo,     \* its remaining steps
  saved,    \* the files as it found them
  target,   \* the manifest it is to write
  supplied, \* vendors it was given a local tree for
  src,      \* the digests it has resolved
  out,      \* the artifacts it has built
  sealed,   \* the lock it has assembled
  undo,     \* files still to be restored
  raised,   \* None, "error" or "interrupt"
  noted,    \* a restore failed and was reported
  outcome,  \* how the last command ended
  began,    \* the value of edits when the command began
  faults, edits, commands

world == <<files, inputs, engine, store, refs>>
args  == <<saved, target, supplied, began, commands>>
built == <<src, out, sealed>>
fault == <<undo, raised, noted, faults>>
vars  == <<world, args, built, fault, cmd, todo, outcome, edits>>

Tracked == {"manifest", "lock", "legacy", "index", "notice", "baked", "npm"}

------------------------------------------------------------------------------
(* What is generated from what.                                            *)

Whole(m) == m # Torn
Declared(m) == {v \in Vendor : m[v] # None}
Pending(m)  == {v \in Declared(m) : m[v].pending}
Unpinned == [v \in Vendor |-> None]

\* render_legacy: the registry older consumers read.  Packages that are not exported or
\* are filtered out cannot be represented, and its reader refuses an empty one.
Exported(m) == \A v \in Declared(m) : m[v].exported /\ m[v].filter = All
Representable(m) == Declared(m) # {} /\ Exported(m)
Registry(m) == [v \in Vendor |-> IF m[v] = None THEN None ELSE m[v].sha]
Listed(reg) == {v \in Vendor : reg[v] # None}

\* rendered_files and the copy of plugins-baked.
Mirror(f) == [legacy |-> f.legacy, index |-> f.index, notice |-> f.notice, baked |-> f.baked]

\* `vendors check`: each generated file against what it is generated from, offline.
Readable(reg) == reg \notin {None, Torn}
LegacyCheck(f) == f.manifest # Torn /\ Representable(f.manifest) /\ f.legacy = Registry(f.manifest)
IndexMatches(f, v) == f.index[v] = f.legacy[v]
IndexCheck(f) == /\ Readable(f.legacy)
                 /\ \A v \in Listed(f.legacy) : IndexMatches(f, v)
                 /\ f.notice = Listed(f.legacy)
BakedCheck(f) == Readable(f.legacy) /\ f.baked \in {None, f.legacy}
BakedMirrored(f) == f.baked # None => f.npm.baked = f.baked
MirrorCheck(f) ==
  /\ f.npm.legacy = f.legacy /\ f.npm.notice = f.notice
  /\ \A v \in Vendor : f.index[v] # None => f.npm.index[v] = f.index[v]
  /\ BakedMirrored(f)
CheckPasses(f) == LegacyCheck(f) /\ IndexCheck(f) /\ BakedCheck(f) /\ MirrorCheck(f)

\* The artifacts of a catalog, and the lock that records them.
Artifacts(m, i, e, s) == <<m, i, e, s>>
Lock(m, i, e, s, o) ==
  [manifest |-> m, inputs |-> i, builder |-> e, src |-> s, out |-> o, layout |-> "canonical"]

\* loads is strict: text in conflict, another version, an undefined or a missing key or
\* a value of another shape makes all of the lock unreadable.
Malformed(l) == l = Torn
LockReadable(l) == l # None /\ ~Malformed(l)
\* require_canonical: the bytes are those that dumps gives.
Canonical(l) == l.layout = "canonical"

\* check_current: what the lock says of the manifest, the author's inputs and the
\* builder still holds.
Current(l) == l.builder = engine /\ l.manifest = files.manifest /\ l.inputs = inputs

\* A pin is unchanged if the lock has it at the same revision with the same filter.
Unchanged(l, m, v) ==
  /\ l # None /\ l.manifest[v] # None /\ l.src[v] # None
  /\ l.manifest[v].sha = m[v].sha /\ l.manifest[v].filter = m[v].filter
\* Mutant: the lock does not bind the snapshot.
ExpectedNothing(l, m, v) == None

Expected(l, m, v) == IF Unchanged(l, m, v) THEN l.src[v] ELSE None

\* `lock --check`: a rebuild from the locked sources in the cache gives the same lock.
LockCheckPasses ==
  LET l == files.lock IN
  /\ LockReadable(l) /\ Current(l) /\ Canonical(l)
  /\ \A v \in Vendor : (files.manifest[v] # None) = (l.src[v] # None)
  /\ \A v \in Declared(files.manifest) : store[l.src[v]] = "good"
  /\ l.out = Artifacts(files.manifest, inputs, engine, l.src)

------------------------------------------------------------------------------
(* Commands and their steps.                                               *)

Each(name, s) == [i \in DOMAIN s |-> <<name, s[i]>>]
One(name) == << <<name, None>> >>

Sync == One("npm") \o One("npmclear") \o One("npmcopy")
FetchedIndexes == One("fetch") \o Each("index", Order) \o One("notice")
Refreshing == One("legacy") \o FetchedIndexes \o One("bake") \o Sync
Managing == One("register") \o One("legacy") \o One("snapshot") \o Refreshing
Locking == One("accepted") \o One("existing") \o Each("source", Order) \o One("compose") \o One("seal") \o One("writelock")

\* What a command may have to put back it has copied before it writes; only the generated
\* files, of which a managing command does so once the registry is written, see
\* SnapshotArtifacts.
Start(name, m, steps, given) ==
  /\ cmd = None /\ commands < MaxCommands
  /\ commands' = commands + 1 /\ began' = edits
  /\ cmd' = name /\ target' = m /\ todo' = steps /\ supplied' = given
  /\ saved' = files
  /\ src' = Unpinned /\ out' = None /\ sealed' = None
  /\ undo' = {} /\ raised' = None /\ noted' = FALSE
  /\ outcome' = "busy"
  /\ UNCHANGED <<world, faults, edits>>

\* `vendors add` and `update` read the pins as the registry lists them.  A new one has
\* no mapped packages: nothing has to be exported.
ManageAdd(v, r) ==
  /\ Whole(files.manifest) /\ Exported(files.manifest) /\ files.manifest[v] = None
  /\ Start("manage", [files.manifest EXCEPT ![v] = [sha |-> r, filter |-> All, pending |-> FALSE, exported |-> TRUE]],
           Managing, {})

ManageUpdate(v, r) ==
  /\ Whole(files.manifest) /\ Exported(files.manifest) /\ files.manifest[v] # None
  /\ Start("manage", [files.manifest EXCEPT ![v].sha = r],
           Managing, {})

Refresh == Whole(files.manifest) /\ Start("refresh", files.manifest, Refreshing, {})

\* `add OWNER/REPO`: what the tree's own manifest exports, or a mapping scaffold unless it
\* is accepted; accepting one that is there is the same command.  Only what is not
\* pending is published and locked.
Added(v, r, accept, filter) ==
  [sha |-> r, filter |-> filter, pending |-> ~accept /\ <<v, r>> \notin WithManifest, exported |-> FALSE]
Add(v, r, accept, filter) ==
  /\ Whole(files.manifest)
  /\ \/ files.manifest[v] = None
     \/ /\ files.manifest[v] # None /\ files.manifest[v].pending /\ accept
        /\ files.manifest[v].sha = r /\ files.manifest[v].filter = filter
  /\ LET new == files.manifest[v] = None
         m == IF new THEN [files.manifest EXCEPT ![v] = Added(v, r, accept, filter)]
                     ELSE [files.manifest EXCEPT ![v].pending = FALSE]
         get == IF new THEN << <<"scan", v>> >> ELSE << >>
     IN IF m[v].pending
        THEN Start("add", m, get \o One("append") \o One("scaffold"), {})
        ELSE Start("add", m, get \o One("append") \o (IF Compat THEN One("legacy") ELSE << >>)
                             \o Locking, {})

LockCommand(given) ==
  Whole(files.manifest) /\ Start("lock", files.manifest, Locking, given)

FetchCommand ==
  Whole(files.manifest) /\ LockReadable(files.lock) /\ Start("fetch", files.manifest, Each("source", Order), {})

Build ==
  /\ LockReadable(files.lock) /\ Canonical(files.lock) /\ Current(files.lock)
  /\ Start("build", files.manifest,
           Each("source", Order) \o One("compose") \o One("seal") \o One("install"), {})

\* `repin`: the catalog is built as it is (with --baseline-ref, the manifest of that
\* revision is put in place for it), then with the new pin, then all is published.
RepinLocking == One("existing") \o Each("source", Order) \o One("reconcile") \o One("compose") \o One("seal")
                \o One("writelock")
Repin(v, r, baseline) ==
  /\ Whole(files.manifest) /\ files.manifest[v] # None /\ Pending(files.manifest) = {}
  /\ baseline \/ files.manifest[v].sha # r
  /\ Start("repin", [files.manifest EXCEPT ![v].sha = r],
           One(IF baseline THEN "baseline" ELSE "existing") \o Each("source", Order)
           \o (IF baseline THEN One("working") ELSE << >>) \o One("manifest") \o RepinLocking
           \o (IF files.legacy # None THEN One("legacy") \o FetchedIndexes \o Sync ELSE << >>), {})

------------------------------------------------------------------------------
(* Failures.                                                               *)

\* write_vendors, _snapshot_artifacts and refresh: how far a managing command is.
Registering == Len(todo) > Len(Refreshing) + 1
Capturing   == Len(todo) = Len(Refreshing) + 1

\* Mutant: what is generated is not put back.
RestoresSources(step, kind) ==
  IF kind = "error" /\ cmd \in {"manage", "repin", "add"} THEN {"manifest", "lock", "legacy"} ELSE {}

\* What a handler puts back, by the command, the step that raised and what it raised.
\* _snapshot_artifacts runs when the registry was written and before the try of refresh.
Restores(step, kind) ==
  CASE cmd = "manage" /\ Registering -> IF kind = "error" THEN {"manifest", "legacy"} ELSE {}
    [] cmd = "manage" /\ Capturing -> {}
    [] cmd = "manage" /\ ~Registering /\ ~Capturing -> Tracked \ {"lock"}
    [] cmd = "repin" -> Tracked
    [] cmd = "add" /\ step # "scan" /\ kind = "error" ->
         {"manifest", "lock"} \cup (IF Compat THEN {"legacy"} ELSE {})
    [] cmd = "refresh" /\ step = "legacy" /\ kind = "error" -> {"legacy"}
    [] OTHER -> {}

Failing(kind) ==
  /\ raised' = kind
  /\ undo' = Restores(Head(todo)[1], kind)
  /\ UNCHANGED <<cmd, todo, args, built, noted, outcome, edits>>

\* A file that is written in place may be left half written.
InPlace == [register |-> "manifest", append |-> "manifest", manifest |-> "manifest", baseline |-> "manifest",
            working |-> "manifest", legacy |-> "legacy", npm |-> "npm", npmcopy |-> "npm"]
TornFiles(step) ==
  IF step \notin DOMAIN InPlace THEN {files}
  ELSE CASE step = "npm" -> {files, [files EXCEPT !.npm.legacy = Torn]}
         [] step = "npmcopy" -> {files, [files EXCEPT !.npm.baked = Torn]}
         [] OTHER -> {files, [files EXCEPT ![InPlace[step]] = Torn]}

\* A step fails, or the command is interrupted at it.
Fault(kind) ==
  /\ cmd # None /\ raised = None /\ todo # << >>
  /\ faults < MaxFaults /\ faults' = faults + 1
  /\ Failing(kind)
  /\ files' \in TornFiles(Head(todo)[1])
  /\ UNCHANGED <<inputs, engine, store, refs>>

\* The files of the author and the registry are put back one after the other, and then
\* what is generated.
Sources == {"manifest", "lock", "legacy"}
Place == [manifest |-> 1, lock |-> 2, legacy |-> 3, index |-> 4, notice |-> 4, baked |-> 4, npm |-> 4]
Turn(f) == raised # None /\ f \in undo /\ \A g \in undo : Place[f] <= Place[g]

PutBack(f) ==
  /\ Turn(f)
  /\ files' = [files EXCEPT ![f] = saved[f]]
  /\ undo' = undo \ {f}
  /\ UNCHANGED <<inputs, engine, store, refs, cmd, todo, args, built, raised, noted,
                 faults, outcome, edits>>

\* Files are restored by their bytes; generated directories also lose what is new.
RestoreFile(f) == f \in Sources /\ PutBack(f)
RestoreArtifacts(f) == f \notin Sources /\ PutBack(f)

\* What a file may hold when putting it back is cut off: it is removed, or written in place.
Cut(now, before) == {now, before} \cup IF before \in {now, None} THEN {} ELSE {Torn}
CutIndexes(now, before) == {i \in Indexes : \A v \in Vendor : i[v] \in Cut(now[v], before[v])}
CutNpm ==
  [legacy : Cut(files.npm.legacy, saved.npm.legacy), index : CutIndexes(files.npm.index, saved.npm.index),
   notice : Cut(files.npm.notice, saved.npm.notice), baked : Cut(files.npm.baked, saved.npm.baked)]
PartlyBack(f) ==
  {[files EXCEPT ![f] = x] : x \in CASE f = "index" -> CutIndexes(files.index, saved.index)
                                     [] f = "npm" -> CutNpm
                                     [] OTHER -> Cut(files[f], saved[f])}
Halfway == {files} \cup UNION {PartlyBack(f) : f \in {g \in undo : Turn(g)}}

\* A file that cannot be restored is noted on the error, and the others still are.
RestoreFails(f) ==
  /\ Turn(f) /\ faults < MaxFaults
  /\ undo' = undo \ {f} /\ noted' = TRUE /\ faults' = faults + 1
  /\ files' \in PartlyBack(f)
  /\ UNCHANGED <<inputs, engine, store, refs, cmd, todo, args, built, raised, outcome, edits>>

Forget ==
  /\ cmd' = None /\ todo' = << >> /\ undo' = {} /\ raised' = None /\ noted' = FALSE
  /\ src' = Unpinned /\ out' = None /\ sealed' = None
  /\ saved' = None /\ target' = None /\ supplied' = {} /\ began' = 0
  /\ UNCHANGED commands

Raised ==
  /\ raised # None /\ undo = {}
  /\ outcome' = raised
  /\ Forget
  /\ UNCHANGED <<world, faults, edits>>

\* An interrupt while files are put back: only OSError is caught there.
RestoreInterrupted ==
  /\ raised # None /\ undo # {} /\ faults < MaxFaults /\ faults' = faults + 1
  /\ outcome' = "interrupt"
  /\ Forget
  /\ files' \in Halfway
  /\ UNCHANGED <<inputs, engine, store, refs, edits>>

Finish ==
  /\ cmd # None /\ raised = None /\ todo = << >>
  /\ outcome' = "ok"
  /\ Forget
  /\ UNCHANGED <<world, faults, edits>>

Kill ==
  /\ cmd # None /\ faults < MaxFaults /\ faults' = faults + 1
  /\ outcome' = "killed"
  /\ Forget
  /\ files' \in IF raised = None /\ todo # << >> THEN TornFiles(Head(todo)[1])
                ELSE Halfway
  /\ UNCHANGED <<inputs, engine, store, refs, edits>>

------------------------------------------------------------------------------
(* Steps.                                                                  *)

Doing(name) == cmd # None /\ raised = None /\ todo # << >> /\ Head(todo)[1] = name
Arg == Head(todo)[2]
Advance == todo' = Tail(todo) /\ UNCHANGED <<cmd, args, fault, outcome, edits>>
Keeping == UNCHANGED <<inputs, engine, store, refs, built>>
Abort == Failing("error") /\ UNCHANGED <<world, faults>>
Put(f, value) == files' = [files EXCEPT ![f] = value] /\ Keeping /\ Advance

Register        == Doing("register") /\ Put("manifest", target)
AppendVendor    == Doing("append") /\ Put("manifest", target)
PublishManifest == Doing("manifest") /\ Put("manifest", target)
PutBaseline == Doing("baseline") /\ Put("manifest", InitManifest)
PutWorking  == Doing("working") /\ Put("manifest", saved.manifest)

\* add leaves a scaffold in the manifest, and reports that it is not locked.
LeaveScaffold == /\ Doing("scaffold")
                 /\ raised' = "error" /\ undo' = {}
                 /\ UNCHANGED <<world, cmd, todo, args, built, noted, faults, outcome, edits>>

\* _snapshot_artifacts: what is generated is copied, as the command found it.
SnapshotArtifacts == Doing("snapshot") /\ UNCHANGED files /\ Keeping /\ Advance

WriteLegacy ==
  /\ Doing("legacy")
  /\ IF Whole(files.manifest) /\ Representable(files.manifest)
     THEN Put("legacy", Registry(files.manifest))
     ELSE Abort

\* Every tree is listed before the first index is replaced.
FetchTrees == /\ Doing("fetch")
              /\ IF Readable(files.legacy) THEN UNCHANGED files /\ Keeping /\ Advance ELSE Abort

\* Mutant: an index that is there is kept.
WriteIndexOnce ==
  /\ Doing("index")
  /\ IF files.legacy[Arg] = None \/ files.index[Arg] # None THEN UNCHANGED files /\ Keeping /\ Advance
     ELSE Put("index", [files.index EXCEPT ![Arg] = files.legacy[Arg]])

WriteIndex ==
  /\ Doing("index")
  /\ IF files.legacy[Arg] = None THEN UNCHANGED files /\ Keeping /\ Advance
     ELSE Put("index", [files.index EXCEPT ![Arg] = files.legacy[Arg]])

WriteNotice == Doing("notice") /\ Put("notice", Listed(files.legacy))
BakePlugins == Doing("bake") /\ Put("baked", files.legacy)

\* write_rendered: an index that is no longer generated stays in the package.
WriteNpm ==
  /\ Doing("npm")
  /\ Put("npm", [files.npm EXCEPT
                  !.legacy = files.legacy, !.notice = files.notice,
                  !.index = [v \in Vendor |-> IF files.index[v] = None THEN @[v]
                                              ELSE files.index[v]]])
ClearNpmBaked == Doing("npmclear") /\ Put("npm", [files.npm EXCEPT !.baked = None])
CopyNpmBaked  == Doing("npmcopy") /\ Put("npm", [files.npm EXCEPT !.baked = files.baked])

\* Mutant: nobody asks.
RequireNothing == Doing("accepted") /\ UNCHANGED files /\ Keeping /\ Advance

RequireAccepted ==
  /\ Doing("accepted")
  /\ IF Pending(files.manifest) = {} THEN UNCHANGED files /\ Keeping /\ Advance ELSE Abort

\* _read_existing, and _locked of a repin: no lock is a beginning, one that cannot be
\* read is an error.
ReadExisting ==
  /\ Doing("existing")
  /\ IF Malformed(files.lock) THEN Abort ELSE UNCHANGED files /\ Keeping /\ Advance

\* The mapping of the vendor is carried over to the new tree, or cannot be without an
\* action of the author.  A tree with a manifest needs none.
Reconcile ==
  /\ Doing("reconcile")
  /\ \/ UNCHANGED files /\ Keeping /\ Advance
     \/ (\E v \in Declared(target) : target[v] # saved.manifest[v] /\ <<v, target[v].sha>> \notin WithManifest)
        /\ Abort

\* The source of one declared pin, from the cache or from upstream.
LockInUse == IF cmd = "repin" /\ \E i \in DOMAIN todo : todo[i][1] = "working"
             THEN None ELSE saved.lock
Resolved(v) ==
  LET known == Expected(LockInUse, files.manifest, v)
  IN IF known # None THEN known ELSE refs[<<v, files.manifest[v].sha>>]
\* Mutants: a given tree is indexed like a fetched one; nothing is stored.
GotIndexed(v, d, entry, ref) ==
  /\ src' = [src EXCEPT ![v] = d]
  /\ store' = [store EXCEPT ![d] = entry]
  /\ refs' = [refs EXCEPT ![<<v, files.manifest[v].sha>>] = d]
  /\ UNCHANGED <<files, inputs, engine, out, sealed>>
  /\ Advance
GotUnstored(v, d, entry, ref) ==
  /\ src' = [src EXCEPT ![v] = d]
  /\ UNCHANGED <<world, out, sealed>>
  /\ Advance
Got(v, d, entry, ref) ==
  /\ src' = [src EXCEPT ![v] = d]
  /\ store' = [store EXCEPT ![d] = entry]
  /\ refs' = [refs EXCEPT ![<<v, files.manifest[v].sha>>] = ref]
  /\ UNCHANGED <<files, inputs, engine, out, sealed>>
  /\ Advance
Skip(v) ==
  /\ src' = [src EXCEPT ![v] = None]
  /\ UNCHANGED <<world, out, sealed>>
  /\ Advance

\* What is in the cache is used if its bytes still have its digest; what is not is
\* fetched, and has to have the digest the lock expects.
TakeSnapshot(v, r, expected) ==
  LET d == Resolved(v)
      held == IF d = None THEN "none" ELSE store[d]
  IN CASE held = "bad" -> Abort
       [] held = "good" -> Got(v, d, "good", refs[<<v, r>>])
       [] OTHER -> IF cmd = "build" \/ expected \notin {None, Upstream(v, r)} THEN Abort
                   ELSE Got(v, Upstream(v, r), "good", Upstream(v, r))

TakeSource ==
  /\ Doing("source")
  /\ LET v == Arg
         m == files.manifest
         r == m[v].sha
         expected == Expected(LockInUse, m, v)
     IN IF m[v] = None THEN Skip(v)
        ELSE IF cmd = "fetch" /\ ~Unchanged(LockInUse, m, v) THEN Skip(v)
        ELSE IF cmd = "build" /\ ~Unchanged(LockInUse, m, v) THEN Abort
        ELSE IF v \in supplied
        THEN IF expected \in {None, Local(v, r)}
             THEN Got(v, Local(v, r), "good", refs[<<v, r>>])
             ELSE Abort
        ELSE TakeSnapshot(v, r, expected)

\* What is asked for is not among what the tree offers, or it offers nothing.
NotOffered == Doing("scan") /\ Abort

\* add looks at the tree it is to pin before it writes anything.
ScanTree ==
  /\ Doing("scan")
  /\ LET v == Arg
         r == target[v].sha
         d == IF refs[<<v, r>>] = None THEN Upstream(v, r) ELSE refs[<<v, r>>]
     IN IF refs[<<v, r>>] # None /\ store[d] = "bad" THEN Abort
        ELSE /\ store' = [store EXCEPT ![d] = "good"]
             /\ refs' = [refs EXCEPT ![<<v, r>>] = IF store[d] = "good" THEN @ ELSE d]
             /\ UNCHANGED <<files, inputs, engine, built>>
             /\ Advance

Compose ==
  /\ Doing("compose")
  /\ out' = Artifacts(files.manifest, inputs, engine, src)
  /\ UNCHANGED <<world, src, sealed>> /\ Advance

Seal ==
  /\ Doing("seal")
  /\ sealed' = Lock(files.manifest, inputs, engine, src, out)
  /\ src' = Unpinned /\ out' = None
  /\ UNCHANGED world /\ Advance

WriteLock == Doing("writelock") /\ Put("lock", sealed)

\* Mutant: what was built is not compared with the lock.
InstallAnyway == Doing("install") /\ Put("dist", sealed.out)

InstallBuild ==
  /\ Doing("install")
  /\ IF sealed = files.lock THEN Put("dist", sealed.out) ELSE Abort

Step == \/ Register \/ AppendVendor \/ PublishManifest \/ PutBaseline \/ PutWorking \/ LeaveScaffold
        \/ SnapshotArtifacts \/ WriteLegacy
        \/ FetchTrees \/ WriteIndex \/ WriteNotice \/ BakePlugins
        \/ WriteNpm \/ ClearNpmBaked \/ CopyNpmBaked
        \/ RequireAccepted \/ ReadExisting \/ Reconcile \/ TakeSource \/ ScanTree \/ NotOffered \/ Compose \/ Seal \/ WriteLock
        \/ InstallBuild \/ Raised \/ Finish
        \/ \E f \in Tracked : RestoreFile(f) \/ RestoreArtifacts(f)

------------------------------------------------------------------------------
(* The author, upgrades, and the other users of the cache.                 *)

Edit == edits < MaxEdits /\ edits' = edits + 1
        /\ UNCHANGED <<args, built, fault, cmd, todo, outcome>>

EditInputs(i) == Edit /\ inputs' = i /\ UNCHANGED <<files, engine, store, refs>>
Upgrade(e) == Edit /\ engine' = e /\ UNCHANGED <<files, inputs, store, refs>>

\* Between commands: a pin is moved, filtered, exported or removed by hand, or a manifest that a
\* crash tore is taken from version control.
EditManifest ==
  /\ cmd = None /\ Edit
  /\ UNCHANGED <<inputs, engine, store, refs>>
  /\ LET Becomes(m) == files' = [files EXCEPT !.manifest = m] IN
     \/ ~Whole(files.manifest) /\ Becomes(InitManifest)
     \/ /\ Whole(files.manifest)
        /\ \E v \in Declared(files.manifest) :
             \/ Becomes([files.manifest EXCEPT ![v].exported = TRUE])
             \/ Becomes([files.manifest EXCEPT ![v] = None])
             \/ \E r \in Rev \ {files.manifest[v].sha} : Becomes([files.manifest EXCEPT ![v].sha = r])
             \/ \E f \in Filter \ {files.manifest[v].filter} : Becomes([files.manifest EXCEPT ![v].filter = f])

\* Between commands: a merge leaves the lock in conflict, or the author removes it or
\* formats it.
EditLock ==
  /\ cmd = None /\ Edit
  /\ \E l \in IF LockReadable(files.lock) THEN {Torn, None, [files.lock EXCEPT !.layout = "edited"]} ELSE {None} :
       files' = [files EXCEPT !.lock = l]
  /\ UNCHANGED <<inputs, engine, store, refs>>

\* An entry of the cache is damaged or removed.  What others add to it is what this
\* repository would fetch.
CacheChanges(d, entry) ==
  /\ Edit /\ store[d] \notin {entry, "none"}
  /\ store' = [store EXCEPT ![d] = entry]
  /\ UNCHANGED <<files, inputs, engine, refs>>

Init ==
  /\ files = LET reg == IF Compat THEN Registry(InitManifest) ELSE None
                 index == IF Compat THEN reg ELSE Unpinned
                 notice == IF Compat THEN Listed(reg) ELSE None
             IN [manifest |-> InitManifest, lock |-> None, legacy |-> reg, index |-> index,
                 notice |-> notice, baked |-> None, dist |-> None,
                 npm |-> [legacy |-> reg, index |-> index, notice |-> notice, baked |-> None]]
  /\ inputs = CHOOSE i \in Input : TRUE
  /\ engine = CHOOSE e \in Engine : TRUE
  /\ store = [d \in Digest |-> "none"]
  /\ refs = [c \in Vendor \X Rev |-> None]
  /\ saved = None /\ target = None /\ supplied = {} /\ began = 0 /\ commands = 0
  /\ src = Unpinned /\ out = None /\ sealed = None
  /\ undo = {} /\ raised = None /\ noted = FALSE /\ faults = 0
  /\ cmd = None /\ todo = << >> /\ outcome = "ok" /\ edits = 0

Commands ==
  \/ \E v \in Vendor, r \in Rev :
       \/ ManageAdd(v, r) \/ ManageUpdate(v, r)
       \/ \E accept \in BOOLEAN, filter \in Filter : Add(v, r, accept, filter)
       \/ \E baseline \in BOOLEAN : Repin(v, r, baseline)
  \/ Refresh \/ FetchCommand \/ Build
  \/ \E given \in SUBSET Vendor :
       Whole(files.manifest) /\ given \subseteq Declared(files.manifest) /\ LockCommand(given)

Faults == \/ \E kind \in {"error", "interrupt"} : Fault(kind)
          \/ \E f \in Tracked : RestoreFails(f)
          \/ RestoreInterrupted \/ Kill

Environment == \/ \E i \in Input \ {inputs} : EditInputs(i)
               \/ \E e \in Engine \ {engine} : Upgrade(e)
               \/ EditManifest \/ EditLock
               \/ \E d \in Digest, entry \in {"none", "bad"} : CacheChanges(d, entry)

Next == Commands \/ Step \/ Faults \/ Environment
Spec == Init /\ [][Next]_vars

------------------------------------------------------------------------------
(* Properties.                                                             *)

\* Every file holds what its reader expects, or is one that was torn.
TypeOK ==
  /\ files \in Repository
  /\ cmd # None => saved \in Repository /\ target \in Manifest
  /\ inputs \in Input /\ engine \in Engine
  /\ store \in [Digest -> {"none", "good", "bad"}]
  /\ refs \in [Vendor \X Rev -> Digest \cup {None}]
  /\ src \in [Vendor -> Digest \cup {None}]
  /\ out \in Artifact \cup {None} /\ sealed \in Lockfile \cup {None}
  /\ undo \subseteq Tracked
  /\ raised \in {None, "error", "interrupt"}
  /\ outcome \in {"busy", "ok", "error", "interrupt", "killed"}

\* Identities that nobody reviewed are not locked, and nothing is built from them
\* (require_accepted in lock, add and repin), whatever order commands and edits come in.
PendingNeverLocked ==
  /\ LockReadable(files.lock) => Pending(files.lock.manifest) = {}
  /\ files.dist # None => Pending(files.dist[1]) = {}

\* What the repository's lock and the shared cache say of a pin: the cache finds for a
\* pinned revision what upstream has, never a tree that was given on a command line
\* (SourceCache.store with index false); and the lock names, for every pin its manifest
\* declares and no other, a snapshot of the revision that is pinned, also after moving,
\* removing and adding pins.
RefsAreUpstream == \A v \in Vendor, r \in Rev : refs[<<v, r>>] \in {None, Upstream(v, r)}
LockNamesItsPins ==
  LockReadable(files.lock) =>
    \A v \in Vendor :
      LET e == files.lock.manifest[v] IN
      files.lock.src[v] \in IF e = None THEN {None}
                            ELSE {Upstream(v, e.sha), Local(v, e.sha)}
PinsResolve == TypeOK /\ RefsAreUpstream /\ LockNamesItsPins

\* While a pin stays as it is (repository, revision and filter), its locked snapshot
\* stays the same: neither another tree given locally nor a changed cache or upstream
\* replaces it; and a lock that cannot be read, whose snapshots nobody knows, is replaced
\* only after it was removed.
PinKeepsDigest ==
  [][/\ LockReadable(files.lock) /\ LockReadable(files'.lock) =>
          \A v \in Declared(files'.lock.manifest) :
            Unchanged(files.lock, files'.lock.manifest, v)
            => files'.lock.src[v] = files.lock.src[v]
     /\ Malformed(files.lock) => ~LockReadable(files'.lock)]_vars

\* A command that edits the repository as one transaction, and fails, leaves every
\* tracked file as it was, unless it said which it could not restore.  A managing command
\* whose copying of the generated files fails, which it does between writing the registry
\* and the try of _refresh_or_restore, leaves exactly its new pin.  An interrupt counts
\* where it is handled, and not while files are being put back.
Transactional == \/ cmd \in {"manage", "repin", "lock", "build", "fetch"}
                 \/ cmd = "add" /\ Pending(target) \subseteq Pending(saved.manifest)
Handled(result) == \/ result = "error"
                   \/ result = "interrupt" /\ undo = {}
                      /\ cmd \in {"manage", "repin"} /\ (cmd = "manage" => ~Registering)
Was(f)  == IF cmd = "manage" /\ Capturing /\ f = "manifest" THEN target
           ELSE IF cmd = "manage" /\ Capturing /\ f = "legacy" THEN Registry(target)
           ELSE saved[f]
FailureLeavesNoTrace ==
  [][outcome = "busy" /\ ~noted /\ Transactional /\ Handled(outcome')
     => \A f \in Tracked : files'[f] = Was(f)]_vars

\* What a command that succeeds leaves agrees: after a refresh, or a change to a pin, the
\* repository passes `vendors check`, whatever a crash, an interrupt or a failed restore
\* left there before it; and a repin has moved the manifest, the lock and the published
\* registry, indexes and notices together.
RefreshRepairs == cmd \in {"refresh", "manage"} => CheckPasses(files')
RepinIsWhole ==
  cmd = "repin" =>
    /\ files'.manifest = target /\ files'.lock.manifest = target
    /\ saved.legacy # None =>
         LegacyCheck(files') /\ IndexCheck(files') /\ MirrorCheck(files')
SuccessAgrees ==
  [][outcome = "busy" /\ outcome' = "ok" => RefreshRepairs /\ RepinIsWhole]_vars

\* A lock that was made while nothing else changed passes its own check at once: a
\* rebuild from the snapshots it names, which are all in the cache, gives the same lock.
LockReproducible ==
  [][outcome = "busy" /\ outcome' = "ok" /\ sealed # None /\ cmd # "build" /\ edits = began
     => LockCheckPasses']_vars

\* What is published under dist was built from the locked manifest, snapshots and inputs,
\* though all of these may change while it is built.
BuildMatchesLock ==
  [][files'.dist # files.dist => LockReadable(files.lock) /\ files'.dist = files.lock.out]_vars
=============================================================================
