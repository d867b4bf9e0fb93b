------------------------------ MODULE Publish ------------------------------
(***************************************************************************)
(* Publishing a staged directory onto a live one, as install_directory     *)
(* (registry/safe_tree.py) does for bakes, ingests and marketplaces.  The  *)
(* staged tree is exchanged onto the path; the directory that was there is *)
(* parked in a sidecar, copied to a snapshot, filled with the new contents *)
(* file by file and exchanged back, so that the path keeps its inode.  Any *)
(* call may fail, the command may be interrupted between any two of them,  *)
(* in its error handling too, and it may be killed.                        *)
(***************************************************************************)
EXTENDS Naturals, FiniteSets

CONSTANTS
  Inode,     \* directories: two live at a time
  Version,   \* the generations that are published
  Name,      \* the children a generation may have
  Children,  \* Version -> the children it has
  None,
  MaxFaults  \* bound: failing calls and interrupts in one publication

\* A published tree is never empty: it holds at least its manifest or its record.
ASSUME ChildrenAssumption == Children \in [Version -> (SUBSET Name) \ {{}}]
ASSUME VersionAssumption == Version \cap {"absent", "torn"} = {}
ASSUME MaxFaultsAssumption == MaxFaults \in Nat

\* A child is absent, removed or half written, or the one of a generation.
Absent == "absent"
Torn   == "torn"
Cell   == Version \cup {Absent, Torn}
Content == [Name -> Cell]

ASSUME NoneAssumption == None \notin Version \cup Inode \cup Content

Whole(v) == [n \in Name |-> IF n \in Children[v] THEN v ELSE Absent]
Empty    == [n \in Name |-> Absent]

VARIABLES
  at,        \* the directory at "dest", "source" (staged) and "home" (hold/inode)
  tree,      \* the children of each directory
  hold,      \* the sidecar directory exists
  snap,      \* hold/snapshot, or None
  pc,        \* the next call of the command
  original,  \* original_inode
  want,      \* the generation being published
  ready,     \* snapshot_ready
  todo,      \* children that a running copy has not finished
  part,      \* the child it is writing, or None
  error,     \* an exception is propagating
  faults,    \* how many there were
  was,       \* history: the generation at dest when the command began
  outcome    \* history: "busy", or how the last command ended

disk == <<at, tree, hold, snap>>
local == <<original, want, ready, todo, part>>
vars == <<at, tree, hold, snap, pc, original, want, ready, todo, part, error,
          faults, was, outcome>>

\* What a reader of the path sees: a generation, or Torn for any other tree.
Seen == IF at["dest"] = None THEN None
        ELSE IF \E v \in Version : tree[at["dest"]] = Whole(v)
             THEN CHOOSE v \in Version : tree[at["dest"]] = Whole(v)
             ELSE Torn

Places == {"dest", "source", "home"}

Init ==
  /\ \E v \in Version \cup {None}, i \in Inode :
       /\ at = [p \in Places |-> IF p = "dest" /\ v # None THEN i ELSE None]
       /\ tree = [j \in Inode |-> IF v # None /\ j = i THEN Whole(v) ELSE Empty]
       /\ was = v
  /\ hold = FALSE /\ snap = None
  /\ pc = "idle" /\ outcome = "ok" /\ want = None
  /\ original = None /\ ready = FALSE /\ todo = {} /\ part = None
  /\ error = FALSE /\ faults = 0

------------------------------------------------------------------------------
(* The command.                                                            *)

\* A command stages generation v.  A sidecar of an earlier one fails it, also
\* when it would publish for the first time.
Begin(v) ==
  /\ pc = "idle"
  /\ want' = v /\ was' = Seen /\ outcome' = "busy" /\ faults' = 0
  /\ \E i \in Inode \ {at[p] : p \in Places} :
       /\ at' = [at EXCEPT !["source"] = i]
       /\ tree' = [tree EXCEPT ![i] = Whole(v)]
  /\ pc' = "check"
  /\ UNCHANGED <<hold, snap, original, ready, todo, part, error>>

Refuse ==
  /\ pc = "check" /\ hold
  /\ pc' = "exit" /\ error' = TRUE
  /\ UNCHANGED <<disk, local, faults, was, outcome>>

\* There is nothing at the path: one rename publishes.
FirstTime ==
  /\ pc = "check" /\ ~hold /\ at["dest"] = None
  /\ at' = [at EXCEPT !["dest"] = at["source"], !["source"] = None]
  /\ pc' = "exit"
  /\ UNCHANGED <<tree, hold, snap, local, error, faults, was, outcome>>

\* Mutant: the leftover sidecar is not looked for.
MakeHoldAnyway ==
  /\ pc = "check" /\ at["dest"] # None
  /\ original' = at["dest"]
  /\ hold' = TRUE
  /\ ready' = FALSE
  /\ pc' = "enter"
  /\ UNCHANGED <<at, tree, snap, want, todo, part, error, faults, was, outcome>>
MakeHold ==
  /\ pc = "check" /\ ~hold /\ at["dest"] # None
  /\ original' = at["dest"]
  /\ hold' = TRUE
  /\ ready' = FALSE
  /\ pc' = "enter"
  /\ UNCHANGED <<at, tree, snap, want, todo, part, error, faults, was, outcome>>

\* The try block begins: an interrupt before this action leaves the sidecar.
Enter ==
  /\ pc = "enter"
  /\ pc' = "swap"
  /\ UNCHANGED <<disk, local, error, faults, was, outcome>>

Exchange(p, q) == [at EXCEPT ![p] = at[q], ![q] = at[p]]

Swap ==
  /\ pc = "swap"
  /\ at' = Exchange("source", "dest")
  /\ pc' = "park"
  /\ UNCHANGED <<tree, hold, snap, local, error, faults, was, outcome>>

Park ==
  /\ pc = "park"
  /\ at' = [at EXCEPT !["home"] = at["source"], !["source"] = None]
  /\ pc' = "snapshot"
  /\ UNCHANGED <<tree, hold, snap, local, error, faults, was, outcome>>

\* The three copies: what is read, what is written, and the call that follows.
Copies == {"copysnap", "mirror", "restore"}
From == CASE pc = "copysnap" -> tree[at["home"]]
          [] pc = "mirror"   -> tree[at["dest"]]
          [] pc = "restore"  -> snap
Into == IF pc = "copysnap" THEN snap ELSE tree[at["home"]]
WriteInto(n, cell) ==
  IF pc = "copysnap"
  THEN snap' = [snap EXCEPT ![n] = cell] /\ UNCHANGED tree
  ELSE tree' = [tree EXCEPT ![at["home"]][n] = cell] /\ UNCHANGED snap

MakeSnapshot ==
  /\ pc = "snapshot"
  /\ snap' = Empty
  /\ todo' = Name
  /\ pc' = "copysnap"
  /\ UNCHANGED <<at, tree, hold, original, want, ready, part, error, faults, was,
                 outcome>>

\* A child is removed, then written anew; when every child of the source has
\* been, those the source does not have are removed.
Tear(n) ==
  /\ pc \in Copies /\ part = None /\ n \in todo
  /\ From[n] = Absent => \A m \in todo : From[m] = Absent
  /\ part' = n
  /\ WriteInto(n, Torn)
  /\ UNCHANGED <<at, hold, pc, original, want, ready, todo, error, faults, was,
                 outcome>>

\* Mutant: a copied child is not struck off.
PutAgain ==
  /\ pc \in Copies /\ part # None
  /\ WriteInto(part, From[part])
  /\ part' = None
  /\ UNCHANGED <<at, hold, pc, original, want, ready, todo, error, faults, was, outcome>>

Put ==
  /\ pc \in Copies /\ part # None
  /\ WriteInto(part, From[part])
  /\ todo' = todo \ {part}
  /\ part' = None
  /\ UNCHANGED <<at, hold, pc, original, want, ready, error, faults, was, outcome>>

CopyDone ==
  /\ pc \in Copies /\ todo = {}
  /\ pc' = [copysnap |-> "ready", mirror |-> "swapback", restore |-> "undo"][pc]
  /\ UNCHANGED <<disk, local, error, faults, was, outcome>>

SnapshotReady ==
  /\ pc = "ready"
  /\ ready' = TRUE
  /\ todo' = Name
  /\ pc' = "mirror"
  /\ UNCHANGED <<disk, original, want, part, error, faults, was, outcome>>

SwapBack ==
  /\ pc = "swapback"
  /\ at' = Exchange("home", "dest")
  /\ pc' = "finally"
  /\ UNCHANGED <<tree, hold, snap, local, error, faults, was, outcome>>

\* Mutants: the snapshot is restored though it is unfinished; it is never restored; only
\* a parked directory is put back.
RecoverUnready ==
  /\ pc = "recover"
  /\ IF at["home"] = original /\ snap # None
     THEN pc' = "restore" /\ todo' = Name
     ELSE /\ pc' = IF original \in {at["home"], at["source"]} THEN "undo" ELSE "finally"
          /\ UNCHANGED todo
  /\ UNCHANGED <<disk, original, want, ready, part, error, faults, was, outcome>>
RecoverNoRestore ==
  /\ pc = "recover"
  /\ pc' = IF original \in {at["home"], at["source"]} THEN "undo" ELSE "finally"
  /\ UNCHANGED <<disk, local, error, faults, was, outcome>>
RecoverParkedOnly ==
  /\ pc = "recover"
  /\ IF at["home"] = original /\ ready /\ snap # None
     THEN pc' = "restore" /\ todo' = Name
     ELSE pc' = (IF original = at["home"] THEN "undo" ELSE "finally") /\ UNCHANGED todo
  /\ UNCHANGED <<disk, original, want, ready, part, error, faults, was, outcome>>

\* After an exception: where the original directory is decides what is undone.
Recover ==
  /\ pc = "recover"
  /\ IF at["home"] = original /\ ready /\ snap # None
     THEN pc' = "restore" /\ todo' = Name
     ELSE /\ pc' = IF original \in {at["home"], at["source"]} THEN "undo" ELSE "finally"
          /\ UNCHANGED todo
  /\ UNCHANGED <<disk, original, want, ready, part, error, faults, was, outcome>>

Undo ==
  /\ pc = "undo"
  /\ at' = IF at["home"] = original THEN Exchange("home", "dest")
                                    ELSE Exchange("source", "dest")
  /\ pc' = "finally"
  /\ UNCHANGED <<tree, hold, snap, local, error, faults, was, outcome>>

\* The sidecar is removed only if the path has its own directory again.
Finally ==
  /\ pc = "finally"
  /\ pc' = IF at["dest"] = original /\ hold THEN "clear" ELSE "exit"
  /\ UNCHANGED <<disk, local, error, faults, was, outcome>>

ClearInside ==
  /\ pc = "clear" /\ (at["home"] # None \/ snap # None)
  /\ at' = [at EXCEPT !["home"] = None]
  /\ snap' = None
  /\ UNCHANGED <<tree, hold, pc, local, error, faults, was, outcome>>

Clear ==
  /\ pc = "clear" /\ at["home"] = None /\ snap = None
  /\ hold' = FALSE
  /\ pc' = "exit"
  /\ UNCHANGED <<at, tree, snap, local, error, faults, was, outcome>>

\* The caller's temporary directory goes, with whatever is at source.
Forget == /\ original' = None /\ ready' = FALSE /\ todo' = {} /\ part' = None
          /\ error' = FALSE /\ faults' = 0

Exit ==
  /\ pc = "exit"
  /\ at' = [at EXCEPT !["source"] = None]
  /\ outcome' = IF error THEN "error" ELSE "ok"
  /\ pc' = "idle"
  /\ Forget
  /\ UNCHANGED <<tree, hold, snap, want, was>>

Step == \/ Refuse \/ FirstTime \/ MakeHold \/ Enter \/ Swap \/ Park
        \/ MakeSnapshot \/ Put \/ CopyDone \/ SnapshotReady \/ SwapBack
        \/ Recover \/ Undo \/ Finally \/ ClearInside \/ Clear \/ Exit
        \/ \E n \in Name : Tear(n)

------------------------------------------------------------------------------
(* Faults.                                                                 *)

\* The next call fails or the command is interrupted before it.  One that is
\* interrupted after a call is interrupted before the next one.
Handler == CASE pc \in {"check", "enter", "finally", "clear"} -> "exit"
             [] pc \in {"swap", "park", "snapshot", "copysnap", "ready", "mirror",
                        "swapback"} -> "recover"
             [] pc \in {"recover", "restore", "undo"} -> "finally"

Raise ==
  /\ pc \notin {"idle", "exit"} /\ faults < MaxFaults
  /\ faults' = faults + 1
  /\ error' = TRUE
  /\ pc' = Handler
  /\ part' = None
  /\ UNCHANGED <<disk, original, want, ready, todo, was, outcome>>

\* SIGKILL: nothing is cleaned up, and nothing of the staging is read again.
Kill ==
  /\ pc # "idle"
  /\ at' = [at EXCEPT !["source"] = None]
  /\ outcome' = "killed"
  /\ pc' = "idle"
  /\ Forget
  /\ UNCHANGED <<tree, hold, snap, want, was>>

\* The maintainer removes a sidecar.
RemoveHold ==
  /\ pc = "idle" /\ hold
  /\ hold' = FALSE /\ snap' = None
  /\ at' = [at EXCEPT !["home"] = None]
  /\ UNCHANGED <<tree, pc, local, error, faults, was, outcome>>

Next == Step \/ Raise \/ Kill \/ RemoveHold \/ \E v \in Version : Begin(v)

Spec == Init /\ [][Next]_vars /\ WF_vars(Step)

------------------------------------------------------------------------------
(* Properties.                                                             *)

TypeOK ==
  /\ at \in [Places -> Inode \cup {None}]
  /\ tree \in [Inode -> Content]
  /\ hold \in BOOLEAN
  /\ snap \in Content \cup {None}
  /\ pc \in {"idle", "check", "enter", "swap", "park", "snapshot", "ready", "swapback",
             "recover", "undo", "finally", "clear", "exit"} \cup Copies
  /\ original \in Inode \cup {None}
  /\ want \in Version \cup {None} /\ was \in Version \cup {None}
  /\ ready \in BOOLEAN /\ error \in BOOLEAN
  /\ todo \subseteq Name /\ part \in Name \cup {None}
  /\ faults \in 0..MaxFaults
  /\ outcome \in {"busy", "ok", "error", "killed"}

\* Readers of the path see whole generations, whatever fails (install_directory:
\* "that path is never absent or mixed").
Reader == INSTANCE WholeTree WITH live <- Seen
ReadersSeeWhole == Reader!Spec

\* What is at the path, as the command found it and as it is to be.
Old(i) == tree[i] = Whole(was)
New(i) == tree[i] = Whole(want)
DestIsNew == at["dest"] \in Inode /\ New(at["dest"])
Copied(into, source) == \A n \in Name \ todo : into[n] = source[n]

\* No directory is in two places, and the sidecar holds whatever is parked.
Apart ==
  /\ \A p, q \in Places : p # q /\ at[p] # None => at[p] # at[q]
  /\ ~hold => at["home"] = None /\ snap = None

\* Before the first exchange: the new tree is staged, the path shows the old one.
Staged ==
  pc \in {"check", "enter", "swap"} =>
    /\ at["source"] \in Inode /\ New(at["source"])
    /\ IF was = None THEN at["dest"] = None ELSE at["dest"] # None /\ Old(at["dest"])
    /\ pc = "check" => original = None
    /\ pc # "check" => /\ hold /\ at["home"] = None /\ ~ready
                       /\ original = at["dest"] /\ original # None

\* From there to the closing exchange: the path shows the new tree, the old one is
\* parked until its snapshot is whole, and is then filled with the new children.
Parked ==
  /\ pc \in {"park", "snapshot", "copysnap", "ready", "mirror", "swapback"} =>
       /\ DestIsNew /\ was \in Version /\ original \in Inode /\ hold
  /\ pc = "park" => at["source"] = original /\ Old(original) /\ at["home"] = None /\ ~ready
  /\ pc \in {"snapshot", "copysnap", "ready"} => at["home"] = original /\ Old(original) /\ ~ready
  /\ pc = "copysnap" => snap # None /\ Copied(snap, tree[original])
  /\ pc = "ready" => snap = Whole(was)
  /\ pc \in {"mirror", "swapback"} => at["home"] = original /\ ready /\ snap = Whole(was)
  /\ pc = "mirror" => Copied(tree[original], Whole(want))
  /\ pc = "swapback" => New(original)

\* After an exception the old tree is at the path, or is somewhere whole.
Recovering ==
  /\ pc \in {"recover", "restore", "undo"} =>
       was \in Version /\ original \in Inode /\ hold /\ error
  /\ pc = "recover" =>
       \/ at["dest"] = original /\ Old(original)
       \/ DestIsNew /\ at["source"] = original /\ Old(original) /\ ~ready
       \/ /\ DestIsNew /\ at["home"] = original
          /\ IF ready THEN snap = Whole(was) ELSE Old(original)
  /\ pc = "restore" => /\ DestIsNew /\ at["home"] = original /\ ready /\ snap = Whole(was)
                       /\ Copied(tree[original], snap)
  /\ pc = "undo" => /\ DestIsNew /\ Old(original)
                    /\ original \in {at["home"], at["source"]}

\* At the end the path shows one of the two; the new one on the old directory, if
\* nothing was raised; and the old directory, if that happened once.
Ending ==
  /\ pc \in {"finally", "clear", "exit"} =>
       /\ IF at["dest"] = None THEN was = None ELSE New(at["dest"]) \/ (was # None /\ Old(at["dest"]))
       /\ ~error => DestIsNew
       /\ original # None /\ faults < 2 => at["dest"] = original
       /\ ~error => hold = (pc # "exit")
  /\ pc \in {"finally", "clear"} => original # None
  /\ pc = "idle" => at["source"] = None /\ original = None
                    /\ (at["dest"] # None => \E v \in Version : tree[at["dest"]] = Whole(v))

Counted ==
  /\ pc = "idle" <=> outcome # "busy"
  /\ pc # "idle" => want \in Version
  /\ pc \notin {"recover", "restore", "undo", "finally", "clear", "exit"} => faults = 0 /\ ~error
  /\ pc \in {"recover", "restore", "undo"} => faults > 0
  /\ error => faults > 0 \/ pc = "exit"
  /\ ~error => faults = 0

\* Where the directories are at each call, and what they hold: types, and what the
\* recovery of install_directory relies on when it looks at inodes only.
IInv == TypeOK /\ Apart /\ Staged /\ Parked /\ Recovering /\ Ending /\ Counted

\* What was published is not given up before the new generation is in its place for
\* good: until the closing exchange it is whole somewhere a recovery reads; and what a
\* killed command left parked is not overwritten by a later one, which refuses to
\* publish until the sidecar is dealt with (_reject_leftover_backup).
Holds(c) == was # None => c = Whole(was)
Working == pc \in {"swap", "park", "snapshot", "ready", "swapback", "recover", "undo"} \cup Copies
Safe ==
  Working /\ at["dest"] # original
  => \/ \E p \in {"source", "home"} : at[p] = original /\ Holds(tree[original])
     \/ at["home"] = original /\ ready /\ snap # None /\ Holds(snap)
Unparks ==
  at["home"] # None /\ at'["home"] # at["home"] =>
    (at'["dest"] = at["home"]) \/ pc = "clear" \/ pc = "idle"
OldKept == []Safe /\ [][Unparks]_vars

\* How a publication ends: one that reports success shows the new generation, on the
\* directory that was there (a shell or an editor inside it keeps working), with
\* nothing beside the path; and one that failed once, wherever, is back on that
\* directory, with the old generation on it, or with the new one if it was over.
Ends ==
  pc # "idle" /\ pc' = "idle" =>
    /\ outcome' = "ok" =>
         /\ Seen = want
         /\ original # None => at["dest"] = original
         /\ ~hold /\ at["home"] = None /\ snap = None
    /\ outcome' = "error" /\ faults = 1 /\ original # None =>
         at["dest"] = original /\ Seen \in {was, want}
EndsAsReported == [][Ends]_vars

\* A command ends, unless it is killed.
Terminates == (pc # "idle") ~> (pc = "idle")
=============================================================================
