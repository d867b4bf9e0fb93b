------------------------------ MODULE Artifact ------------------------------
(***************************************************************************)
(* artifact.py and artifacts/: what a selection selects is copied out of its *)
(* publications, references follow the copies, and every package becomes one *)
(* tar that holds all it requires, beside a catalog of all packages.          *)
(*                                                                         *)
(* An ID publisher/package:role/name is a sequence of four; a path of a       *)
(* checkout begins with its publication, <<origin, revision>>; a path of an   *)
(* artifact is a sequence of names.  A file has a text, a mode, a kind,       *)
(* references and maybe a license; a digest is what it is taken of.  Left     *)
(* out: wording, limits and scans of legal texts, host attributes, schemas,   *)
(* and edits of what publications declare of themselves during a build.       *)
(***************************************************************************)
EXTENDS Integers, FiniteSets, SequencesExt, TLC

CONSTANTS
  None,
  Order,      \* all IDs, as sorted() puts them
  Sources,    \* the states that the checkouts may be in, with the inventory and the selection of each
  MaxEdits,   \* bound: edits of the checkouts
  MaxBuilds   \* bound: builds

VARIABLES
  source,    \* which of Sources the checkouts hold
  build,     \* the running build, or None
  dir,       \* the artifact directory, or None
  packed,    \* which of Sources a packed build saw, and read when it packed, or None (history)
  edits, builds

builder == <<source, build, dir, packed, edits, builds>>

Checkouts == Sources[source]
Sorted(S) == SelectSeq(Order, LAMBDA id : id \in S)
Earliest(S) == Order[Min({k \in DOMAIN Order : Order[k] \in S})]
Package(id) == SubSeq(id, 1, 2)
Rest(path, base) == SubSeq(path, Len(base) + 1, Len(path))
Empty == [x \in {} |-> None]
Extend(f, g) == [x \in DOMAIN f \cup DOMAIN g |-> IF x \in DOMAIN f THEN f[x] ELSE g[x]]

\* closure: what can be reached from the roots, where next says what each needs: what is in
\* every set that holds the roots and all that its members need.
Reach(roots, next) ==
  LET all == roots \cup UNION {next[x] : x \in DOMAIN next}
      closed == {S \in SUBSET all : roots \subseteq S /\ \A x \in S \cap DOMAIN next : next[x] \subseteq S}
  IN {y \in all : \A S \in closed : y \in S}

------------------------------------------------------------------------------
(* Sources.                                                                *)

\* payload_files: the files at a path that is a file, or below one that is a directory.
Base(tree, at) == IF at \in DOMAIN tree THEN Front(at) ELSE at
Payload(tree, at) ==
  LET base == Base(tree, at)
  IN [rel \in {Rest(f, base) : f \in {g \in DOMAIN tree : IsPrefix(at, g)}} |-> tree[base \o rel]]

Record(s, id) == IF id \in DOMAIN s.caps THEN s.caps[id] ELSE s.resources[id]
Observed(s, id) == Payload(s.tree, Record(s, id).at)
Hops(s, id) == UNION {ToSet(chain) : chain \in ToSet(Record(s, id).lineage)}
Selected(s) == s.selected

\* No ID is a package's.  A resource's ID is of the role "resource" and a capability's is not
\* (ResourceId, Role); declared selectors are resolved against the records that an inventory
\* holds, of the kind that the field is for (resolve_edges).
ASSUME OrderAssumption == Order \in Seq(ToSet(Order)) /\ \A id \in ToSet(Order) : Package(id) \notin ToSet(Order)
ASSUME SourcesAssumption ==
  \A k \in DOMAIN Sources : LET s == Sources[k] IN
    /\ Selected(s) \subseteq ToSet(Order) /\ \A r \in DOMAIN s.resources : r[3] = "resource"
    /\ \A c \in DOMAIN s.caps :
         c[3] # "resource" /\ s.caps[c].requires \subseteq DOMAIN s.caps /\ s.caps[c].resources \subseteq DOMAIN s.resources

\* publications: the consumer's own, and the vendors of each for which a snapshot is given.
Publications(s) == Reach({s.own}, [p \in DOMAIN s.pubs |-> s.pubs[p].vendors \cap s.given])

\* record_source: the last hop, of the first chain that has one, with the observed bytes.
Authentic(s, observed, hop) ==
  /\ hop.coordinate \in Publications(s) /\ hop.exact
  /\ Payload(s.tree, <<hop.coordinate>> \o hop.path) = observed
At(hops) == IF hops = << >> THEN None ELSE <<Head(hops).coordinate>> \o Head(hops).path
RecordSource(s, id) ==
  At(SelectSeq(FlattenSeq([k \in DOMAIN Record(s, id).lineage |-> Reverse(Record(s, id).lineage[k])]),
               LAMBDA hop : Authentic(s, Observed(s, id), hop)))
RecordSources(s) == [id \in Selected(s) |-> RecordSource(s, id)]

\* identity_assertion, package_version.
Asserted(s, id) ==
  \E chain \in ToSet(Record(s, id).lineage) :
    /\ Head(chain).coordinate[2] # None /\ Head(chain).coordinate \in Publications(s)
    /\ ~s.pubs[Head(chain).coordinate].manifest
Versions(s, publisher) == SelectSeq(s.coordinates, LAMBDA c : c \in Publications(s) /\ s.pubs[c].publisher = publisher)
Version(s, publisher) == s.pubs[Head(Versions(s, publisher))].version

------------------------------------------------------------------------------
(* materialize: one capability and the resources it needs, in a tree of its own: *)
(* m is the inventory s, the capability id, where all records are, and where each *)
(* source file goes.                                                       *)

Unchanged(s, tree, id, base) ==
  LET seen == Observed(s, id) IN \A rel \in DOMAIN seen : base \o rel \in DOMAIN tree /\ tree[base \o rel] = seen[rel]
\* What was seen, with the bytes the files have by now.
Now(s, tree) == [s EXCEPT !.tree = [f \in DOMAIN @ |-> IF f \in DOMAIN tree THEN tree[f] ELSE @[f]]]

IsDir(s, at) == at \notin DOMAIN s.tree
Contained(s, top, at) == at = top \/ (IsDir(s, top) /\ IsPrefix(top, at))
Home(s, top, at, r) ==
  IF Contained(s, top, at) THEN Rest(at, Base(s.tree, top)) ELSE <<"_shared", r[1]>> \o Tail(Record(s, r).at)

\* coordinates: where each source file goes.
Sourced(s, id, base) == {base \o rel : rel \in DOMAIN Observed(s, id)}
Coordinates(s, id, at) ==
  LET own == [f \in Sourced(s, id, Base(s.tree, at[id])) |-> Rest(f, Base(s.tree, at[id]))]
      copied(r) == [f \in Sourced(s, r, Base(s.tree, at[r])) |->
                      Home(s, at[id], at[r], r) \o (IF IsDir(s, at[r]) THEN Rest(f, at[r]) ELSE << >>)]
  IN FoldLeft(LAMBDA acc, r : IF Contained(s, at[id], at[r]) THEN acc ELSE copied(r) @@ acc,
              own, Sorted(s.caps[id].resources))
Material(s, id, at) == [s |-> s, id |-> id, at |-> at, to |-> Coordinates(s, id, at)]

\* References: from a file, up some directories, then down a path, maybe with a "./" before it
\* (dot); nothing above a checkout is copied.
Follow(file, ref) == SubSeq(file, 1, Len(file) - 1 - ref.up) \o ref.down
Target(file, ref) == IF ref.up + 1 < Len(file) THEN Follow(file, ref) ELSE << >>
Relative(target, from, common) == [up |-> Len(from) - common, down |-> SubSeq(target, common + 1, Len(target))]
Common(a, b) == Len(LongestCommonPrefix({a, b}))

\* _destination: of a file, or of a directory whose copied files are all at one place.
Placed(target, to, inside) ==
  LET depth(f) == Len(f) - Len(target)
      places == {SubSeq(to[f], 1, Len(to[f]) - depth(f)) : f \in inside}
      fits(f) == depth(f) <= Len(to[f]) /\ IsSuffix(Rest(f, target), to[f])
  IN IF inside # {} /\ (\A f \in inside : fits(f)) /\ Cardinality(places) = 1 THEN CHOOSE p \in places : TRUE ELSE None
Destination(target, to) ==
  IF target = << >> THEN None
  ELSE IF target \in DOMAIN to THEN to[target]
  ELSE Placed(target, to, {f \in DOMAIN to : IsPrefix(target, f)})

\* _relocate, _declared_path: a reference to what was copied is made one to the copy.
Redirected(ref, moved) == [ref EXCEPT !.up = moved.up, !.down = moved.down, !.dot = FALSE]
RelocatedFrom(ref, target, from) ==
  IF target = None THEN ref ELSE Redirected(ref, Relative(target, from, Common(target, from)))
Relocated(ref, file, to) == RelocatedFrom(ref, Destination(Target(file, ref), to), Front(to[file]))

\* rewrite_markdown and rewrite_fields leave a file as it is when a declared field is missing.
Declared(m) ==
  m.s.caps[m.id].fields
  \cup UNION {{Home(m.s, m.at[m.id], m.at[r], r) \o (IF IsDir(m.s, m.at[r]) THEN f ELSE << >>) : f \in m.s.resources[r].fields}
              : r \in m.s.caps[m.id].resources}
Rewrites(copied, declared) ==
  copied.kind # "binary" /\ (declared => \E ref \in copied.refs : ref.form = "field")
Rewritten(m, file) ==
  LET copied == m.s.tree[file] IN
  IF Rewrites(copied, m.to[file] \in Declared(m))
  THEN [copied EXCEPT !.refs = {IF ref.form = "opaque" THEN ref ELSE Relocated(ref, file, m.to) : ref \in @}]
  ELSE copied

\* A reference that could not be followed makes the capability unportable, and so does one, wherever
\* it stands, that begins with dots and could be written as one to the copy.
Lost(m, file) == \E ref \in m.s.tree[file].refs : ref.form # "opaque" /\ Destination(Target(file, ref), m.to) = None
Dotted(ref) == ref.up > 0 \/ ref.dot
Misread(m, file) == m.to[file] \in Declared(m) /\ ~Rewrites(m.s.tree[file], TRUE)
Unportable(m, file) ==
  \/ Misread(m, file)
  \/ /\ m.s.tree[file].kind # "binary"
     /\ Lost(m, file) \/ \E ref \in Rewritten(m, file).refs : Dotted(ref) /\ Relocated(ref, file, m.to) # ref

Trees(m) ==
  [dest \in {m.to[f] : f \in DOMAIN m.to} |-> Rewritten(m, CHOOSE f \in DOMAIN m.to : m.to[f] = dest)]
Portable(m) == \A f \in DOMAIN m.to : ~Unportable(m, f)

\* validate_artifact_references.
LinksResolve(files) ==
  \A f \in DOMAIN files : \A ref \in files[f].refs :
    files[f].kind = "markdown" /\ ref.form = "markdown" => \E g \in DOMAIN files : IsPrefix(Follow(f, ref), g)

\* materialize, with _authenticate_copied.
Materializes(m, tree) ==
  /\ \A r \in {m.id} \cup m.s.caps[m.id].resources : Unchanged(m.s, tree, r, Base(m.s.tree, m.at[r]))
  /\ IsInjective(m.to)
  /\ Declared(m) \subseteq {m.to[f] : f \in DOMAIN m.to}
  /\ Portable(m) => LinksResolve(Trees(m))

\* A copy names the source that the inventory saw, and has the bytes that were read.
CopyOf(m, trees, r) ==
  [id |-> r, path |-> Home(m.s, m.at[m.id], m.at[r], r), lineage |-> m.s.resources[r].lineage,
   source |-> Observed(m.s, r),
   tree |-> [rel \in DOMAIN Observed(m.s, r) |-> trees[m.to[Base(m.s.tree, m.at[r]) \o rel]]]]

------------------------------------------------------------------------------
(* legal_files: the legal texts of every publication that a record came through. *)

Shipped(s, ids) == UNION {Hops(s, id) : id \in ids}
LegalAt(tree, directory) == {f \in DOMAIN tree : tree[f].kind = "legal" /\ Front(f) = directory}
Nested(s, ids) ==
  {Front(rel) : rel \in UNION {{x \in DOMAIN Observed(s, id) : Observed(s, id)[x].kind = "legal"} : id \in ids}}
Directories(s, ids, hop) ==
  LET path == <<hop.coordinate>> \o hop.path
  IN {SubSeq(path, 1, n) : n \in 1..Len(path)} \cup {path \o n : n \in Nested(s, ids)}
Coordinated(s, ids) == {hop.coordinate : hop \in Shipped(s, ids)}
Published(s, ids) == Coordinated(s, ids) \subseteq Publications(s)

\* A publication with a registry, vendors.yaml, may have the notice that is made of it, a line for
\* each vendor (render_notice): that one is cut to the vendors that are shipped.
Rendered(vendors) == <<"notice", vendors>>
Registry(c) == <<c, "vendors.yaml">>
Registered(tree, c) == tree[Registry(c)].text[2]
Generated(tree, c, f) ==
  f = <<c, "NOTICE.md">> /\ Registry(c) \in DOMAIN tree /\ tree[f].text = Rendered(Registered(tree, c))
LegalText(tree, c, f, origins) ==
  IF Generated(tree, c, f) THEN Rendered(Registered(tree, c) \cap origins) ELSE tree[f].text

\* The texts are what the checkouts hold by now: nothing says what they were.
Legal(s, tree, ids) ==
  LET origins == {c[1] : c \in Coordinated(s, ids)}
      found(c) == UNION {LegalAt(tree, d) : d \in
                    UNION {Directories(s, ids, hop) : hop \in {h \in Shipped(s, ids) : h.coordinate = c}}}
  IN {[coordinate |-> c, license |-> s.pubs[c].license,
       texts |-> {<<f, LegalText(tree, c, f, origins)>> : f \in found(c)}] : c \in Coordinated(s, ids)}

------------------------------------------------------------------------------
(* Index records, packages and tars.                                       *)

Needs(s, id) == IF id \in DOMAIN s.caps THEN s.caps[id].requires \cup s.caps[id].resources ELSE {}
\* Mutant: what the capability names, not what that needs in turn.
ClosureDirect(s, id) == {id} \cup Needs(s, id)
Closure(s, id) == Reach({id}, [n \in DOMAIN s.caps \cup DOMAIN s.resources |-> Needs(s, n)])
Requiring(s, id) == Reach({id}, [n \in DOMAIN s.caps |-> s.caps[n].requires])
Units(s, id) ==
  LET all == {{m \in Requiring(s, n) : n \in Requiring(s, m)} : n \in Selected(s) \cap DOMAIN s.caps}
  IN {u \in all : u \subseteq Closure(s, id)}

ItemPath(id) == <<"packages">> \o id
\* The inventory is the one that was seen; trees and references are those that were read.
CapRecord(m, read) ==
  LET cap == m.s.caps[m.id]
      trees == Trees(read)
  IN [id |-> m.id, tree |-> trees, requires |-> cap.requires, related |-> cap.related,
      closure |-> [capabilities |-> Closure(m.s, m.id) \cap DOMAIN m.s.caps,
                   resources |-> Closure(m.s, m.id) \cap DOMAIN m.s.resources, units |-> Units(m.s, m.id)],
      resources |-> {CopyOf(m, trees, r) : r \in cap.resources},
      lineage |-> cap.lineage, portable |-> Portable(read), asserted |-> Asserted(m.s, m.id)]
\* Added when the files are copied, from what the checkouts hold by then (inspect_role, legal_files).
Entry(tree, at) == IF at \in DOMAIN tree THEN at ELSE Append(at, "SKILL.md")
Licensed(s, ids, origin) ==
  s.pubs[Last(SelectSeq(s.coordinates, LAMBDA c : c[1] = origin /\ c \in Coordinated(s, ids)))].license
License(s, tree, id, at) ==
  LET declared == tree[Entry(tree, at)].license
  IN IF declared # None THEN declared
     ELSE Licensed(s, {id} \cup s.caps[id].resources, Head(Head(s.caps[id].lineage)).coordinate[1])
Remarks(s, tree, id, at) ==
  [license |-> License(s, tree, id, at),
   notices |-> {l.coordinate[1] : l \in Legal(s, tree, {id} \cup s.caps[id].resources)}]
ResourceRecord(s, id, payload) ==
  [id |-> id, tree |-> payload, source |-> Observed(s, id), lineage |-> s.resources[id].lineage,
   asserted |-> Asserted(s, id)]

\* build_index, over the records of some IDs; a package's tree digest is that of its records' trees.
Index(b, ids, root, legal) ==
  LET of(p, domain) == {id \in ids \cap domain : Package(id) = p} IN
  [root |-> root, legal |-> legal,
   packages |-> [p \in {Package(id) : id \in ids} |->
     [version |-> Version(Sources[b.seen], p[1]),
      capabilities |-> {b.caps[id] : id \in of(p, DOMAIN b.caps)},
      resources |-> {b.resources[id] : id \in of(p, DOMAIN b.resources)}]]]
Tree(package) == {<<record.id, record.tree>> : record \in package.capabilities \cup package.resources}

\* The members of a package's artifact: all its capabilities need, and its resources.
\* Mutant: only what is of the package.
MembersOwn(s, p) == {id \in Selected(s) : Package(id) = p}
Members(s, p) ==
  {id \in Selected(s) \cap DOMAIN s.resources : Package(id) = p}
  \cup UNION {Closure(s, id) : id \in {i \in Selected(s) \cap DOMAIN s.caps : Package(i) = p}}

Obligations(s, tree, p) == Legal(s, tree, Members(s, p))

\* canonical_tar: the index, the legal texts, and the files whose digests the index holds.
Paths(b, ids) == UNION {{ItemPath(id) \o f : f \in DOMAIN b.files[id]} : id \in ids}
NoCollision(paths) == \A f, g \in paths : IsPrefix(f, g) => f = g
Tar(b, p) == Index(b, Members(Sources[b.seen], p), p, Obligations(Sources[b.seen], Checkouts.tree, p))
Digest(x) == x
Artifacts(s) == {Package(id) : id \in Selected(s)}

------------------------------------------------------------------------------
(* write_artifacts, and the author who edits the checkouts meanwhile.        *)

\* Before anything is copied: the selection is valid, complete, and has its sources.
Buildable(s) ==
  /\ Selected(s) \subseteq DOMAIN s.caps \cup DOMAIN s.resources
  /\ \A id \in Selected(s) : Needs(s, id) \subseteq Selected(s)
Started(s, at) ==
  IF ~Buildable(s) \/ None \in {at[id] : id \in DOMAIN at} THEN None
  ELSE [seen |-> source, at |-> at, files |-> Empty, caps |-> Empty, resources |-> Empty, staged |-> Empty,
        todo |-> Selected(s)]

BeginBuild ==
  /\ build = None /\ builds < MaxBuilds
  /\ build' = Started(Checkouts, RecordSources(Checkouts))
  /\ builds' = builds + 1
  /\ UNCHANGED <<source, dir, packed, edits>>

\* One record: its source is read as it is now, against the digests seen before.
Taken(s, tree, id, base) == [rel \in DOMAIN Observed(s, id) |-> tree[base \o rel]]
Built(id, files, caps, resources) ==
  [build EXCEPT !.todo = @ \ {id}, !.files = Extend([x \in {id} |-> files], @),
                !.caps = Extend(caps, @), !.resources = Extend(resources, @)]
ResourceBuilt(s, id, base) ==
  IF ~Unchanged(s, Checkouts.tree, id, base) THEN None
  ELSE LET payload == Taken(s, Checkouts.tree, id, base)
       IN Built(id, payload, Empty, [x \in {id} |-> ResourceRecord(s, id, payload)])
Capability(seen, now) ==
  IF ~Materializes(seen, Checkouts.tree) THEN None
  ELSE Built(seen.id, Trees(now), [x \in {seen.id} |-> CapRecord(seen, now)], Empty)

\* Resources first, each kind in the order of the IDs.
NextItem(s) ==
  LET standalone == build.todo \cap DOMAIN s.resources
  IN Earliest(IF standalone # {} THEN standalone ELSE build.todo)

\* Capabilities that are copied, and have no license and notices yet: one at most.
Undescribed == {id \in DOMAIN build.caps : "license" \notin DOMAIN build.caps[id]}

BuildItem ==
  /\ build # None /\ build.todo # {} /\ Undescribed = {}
  /\ LET seen == Sources[build.seen]
         id == NextItem(seen)
     IN build' = IF id \in DOMAIN seen.resources THEN ResourceBuilt(seen, id, Base(seen.tree, build.at[id]))
                 ELSE Capability(Material(seen, id, build.at), Material(Now(seen, Checkouts.tree), id, build.at))
  /\ UNCHANGED <<source, dir, packed, edits, builds>>

Describe ==
  /\ build # None
  /\ \E id \in Undescribed :
       LET seen == Sources[build.seen]
           tree == Checkouts.tree
       IN build' = IF ~Published(seen, {id} \cup seen.caps[id].resources) \/ Entry(tree, build.at[id]) \notin DOMAIN tree
                   THEN None
                   ELSE [build EXCEPT !.caps[id] = Extend(Remarks(seen, tree, id, build.at[id]), @)]
  /\ UNCHANGED <<source, dir, packed, edits, builds>>

\* Legal texts, indexes and tars, with a sidecar that holds the digest of each, in a
\* directory beside the one that is read.
Pack ==
  /\ build # None /\ build.todo = {} /\ build.staged = Empty /\ Undescribed = {}
  /\ LET seen == Sources[build.seen]
         ids == Selected(seen)
         tars == [p \in Artifacts(seen) |-> Tar(build, p)]
     IN IF \A p \in Artifacts(seen) : NoCollision(Paths(build, Members(seen, p))) /\ Versions(seen, p[1]) # << >>
        THEN /\ build' = [build EXCEPT !.files = Empty, !.caps = Empty, !.resources = Empty,
                            !.staged = [index |-> Index(build, ids, None, Legal(seen, Checkouts.tree, ids)),
                                        tars |-> tars, sums |-> [p \in Artifacts(seen) |-> Digest(tars[p])]]]
             /\ packed' = [seen |-> build.seen, now |-> source]
        ELSE build' = None /\ UNCHANGED packed
  /\ UNCHANGED <<source, dir, edits, builds>>

\* install_directory puts all of them in place at once.
Place ==
  /\ build # None /\ build.staged # Empty
  /\ dir' = build.staged /\ packed' = None /\ build' = None
  /\ UNCHANGED <<source, edits, builds>>

Edit ==
  /\ edits < MaxEdits /\ edits' = edits + 1
  /\ source' \in DOMAIN Sources \ {source}
  /\ UNCHANGED <<build, dir, packed, builds>>

BuilderInit ==
  /\ source \in DOMAIN Sources /\ build = None /\ dir = None /\ packed = None /\ edits = 0 /\ builds = 0
=============================================================================
