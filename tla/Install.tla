------------------------------ MODULE Install ------------------------------
(***************************************************************************)
(* install/: a consumer verifies package artifacts against pins, merges what *)
(* they hold, takes off what it excludes and denies, and records the pins,   *)
(* while the directory it reads is published anew.                           *)
(*                                                                         *)
(* The directory is read file by file: the catalog, then for each package    *)
(* the sidecar, if no better pin exists, and the tar.  Nothing serialises    *)
(* commands; one consumer is modelled.  Each file may be damaged by hand.     *)
(***************************************************************************)
EXTENDS Artifact

CONSTANTS
  Requests,     \* the command lines
  Wrong,        \* a digest of nothing that is published
  Damaged,      \* a file that no longer is what its reader wants
  MaxCommands   \* bound: commands

ASSUME RequestsAssumption == \A r \in Requests : r.command \in {"install", "update"}

VARIABLES
  profile,   \* selection.yaml: pins, excludes, denies; Empty if there is none
  lock,      \* packages' artifactDigest in the repository's lock, or None
  command,   \* the running command, or None
  outcome,   \* of the last command, or None
  commands,
  swapped    \* the directory was damaged, or published anew while the command ran

consumer == <<profile, lock, command, outcome, commands, swapped>>
vars     == <<builder, consumer>>

\* The digests that a build writes beside its tars, and returns; and what the files have.
Sidecars == IF dir = None THEN Empty ELSE dir.sums
Summed   == IF dir = None THEN Empty ELSE [p \in DOMAIN dir.tars |-> Digest(dir.tars[p])]

\* Readers take all of a file or refuse it: another version, an unknown key, a key that
\* is there twice, or a value of another shape.
ProfileReadable   == profile # Damaged
LockReadable      == lock # Damaged
IndexReadable(i)  == i # Damaged
Embedded(tar, p)  == tar # Damaged /\ tar.root = p
Intact            == dir # None => Damaged \notin {dir.index} \cup {dir.tars[p] : p \in DOMAIN dir.tars}

NoProfile == [artifacts |-> Empty, exclude |-> {}, deny |-> {}]
Current   == IF profile = Empty \/ ~ProfileReadable THEN NoProfile ELSE profile

------------------------------------------------------------------------------
(* What is asked for.                                                      *)

\* _parser: update takes no excludes and denies.
Typable(r) == r.command = "update" => r.excludes = {} /\ r.denies = {}

\* _plugin: a package by its ID, or by a short name that only one package has.
Plugins(name, packages) ==
  IF name \in packages THEN {name} ELSE {p \in packages : Len(name) = 1 /\ p[2] = name[1]}

\* select_packages
Contradictory(r) ==
  \/ r.vendor # None /\ (r.bundle # None \/ r.skills # {})
  \/ r.bundle # None /\ r.skills # {}
Names(r) == IF r.bundle # None THEN {r.bundle} ELSE r.skills
Chosen(r, packages) ==
  IF r.vendor # None THEN {p \in packages : p[1] = r.vendor}
  ELSE IF Names(r) = {} THEN packages ELSE UNION {Plugins(name, packages) : name \in Names(r)}
Choosable(r, packages) ==
  /\ ~Contradictory(r)
  /\ r.vendor # None => Chosen(r, packages) # {}
  /\ r.vendor = None => \A name \in Names(r) : Cardinality(Plugins(name, packages)) = 1

\* _packages: update goes by the profile, install by the catalog.
Stale(r, catalog) == r.command = "update" /\ (DOMAIN Current.artifacts = {}
                                              \/ ~(DOMAIN Current.artifacts \subseteq DOMAIN catalog.packages))
Candidates(r, catalog) == IF r.command = "update" THEN DOMAIN Current.artifacts ELSE DOMAIN catalog.packages

\* _check_selectors: a selector that matches nothing is stale.
CapabilityIds(index) == UNION {{c.id : c \in index.packages[p].capabilities} : p \in DOMAIN index.packages}
SelectorsKnown(r, catalog) ==
  \A s \in Current.exclude \cup r.excludes : s \in DOMAIN catalog.packages \cup CapabilityIds(catalog)

\* parse_digest_flags: a bare digest needs one selected package.
FlagsOk(r, chosen) ==
  \A f \in r.digests : IF f.package = None THEN Cardinality(chosen) = 1 ELSE f.package \in chosen
Flagged(f, chosen) == IF f.package = None THEN CHOOSE p \in chosen : TRUE ELSE f.package
Agreed(r, chosen) == \A f, g \in r.digests : Flagged(f, chosen) = Flagged(g, chosen) => f.right = g.right
\* A digest is typed as the file had it when the command began, or it is another one.
Typed(f, p, seen) == IF f.right /\ p \in DOMAIN seen THEN seen[p] ELSE Wrong
Flags(r, chosen, seen) ==
  [p \in {Flagged(f, chosen) : f \in r.digests} |->
     Typed(CHOOSE f \in r.digests : Flagged(f, chosen) = p, p, seen)]

------------------------------------------------------------------------------
(* choose_pin.                                                             *)

\* The pin of a package, if there is one.
PinOf(pins, p) == {pins[q] : q \in DOMAIN pins \cap {p}}
\* Mutant: an install passes over the pins the profile holds.
ProfilePinsUnused(r) == IF r.frozen THEN Current.artifacts ELSE Empty
ProfilePins(r) == IF r.command = "install" \/ r.frozen THEN Current.artifacts ELSE Empty
Recorded(c, p) == IF PinOf(ProfilePins(c.request), p) # {} THEN PinOf(ProfilePins(c.request), p)
                  ELSE PinOf(c.lock, p)

------------------------------------------------------------------------------
(* merge_indexes.                                                          *)

Caps(indexes) ==
  UNION {UNION {index.packages[p].capabilities : p \in DOMAIN index.packages} : index \in indexes}
Resources(indexes) ==
  UNION {UNION {index.packages[p].resources : p \in DOMAIN index.packages} : index \in indexes}
\* _put
Disagree(indexes) ==
  \/ \E a, b \in Caps(indexes) : a.id = b.id /\ a # b
  \/ \E a, b \in Resources(indexes) : a.id = b.id /\ a # b
Copies(indexes) ==
  {[id |-> x.id, lineage |-> x.lineage] : x \in Resources(indexes)}
  \cup {[id |-> x.id, lineage |-> x.lineage] : x \in UNION {c.resources : c \in Caps(indexes)}}
Absent(indexes) ==
  LET caps == Caps(indexes)
      ids == {c.id : c \in caps}
      copied == {x.id : x \in Copies(indexes)}
  IN UNION {((c.requires \cup c.closure.capabilities) \ ids) \cup (c.closure.resources \ copied) : c \in caps}
Owner(indexes, id) == {p \in UNION {DOMAIN i.packages : i \in indexes} :
                         \E i \in indexes : p \in DOMAIN i.packages /\ id \in {x.id : x \in i.packages[p].resources}}

------------------------------------------------------------------------------
(* filter_inventory.                                                       *)

\* denied: a rule is an origin, or a prefix of origins that ends in "*".
OriginMatches(origin, rule) == origin = rule \/ (Last(rule) = "*" /\ IsPrefix(Front(rule), origin))
\* Mutant: only where the record comes from last is looked at.
DeniedByOrigin(lineage, rules) ==
  \E chain \in ToSet(lineage), r \in rules : OriginMatches(Last(chain).coordinate[1], r)
Denied(lineage, rules) ==
  \E hop \in UNION {ToSet(chain) : chain \in ToSet(lineage)}, r \in rules : OriginMatches(hop.coordinate[1], r)

\* _removed
Removed(indexes, excludes, rules) ==
  {c.id : c \in {x \in Caps(indexes) : x.id \in excludes \/ Package(x.id) \in excludes \/ Denied(x.lineage, rules)}}
  \cup {x.id : x \in {y \in Copies(indexes) : Owner(indexes, y.id) \cap excludes # {} \/ Denied(y.lineage, rules)}}

KeptCaps(indexes, excludes, rules) ==
  LET removed == Removed(indexes, excludes, rules) IN {c \in Caps(indexes) : c.id \notin removed}
Violations(indexes, excludes, rules) ==
  LET removed == Removed(indexes, excludes, rules) IN
  {c \in KeptCaps(indexes, excludes, rules) :
     (c.closure.capabilities \cup c.closure.resources \cup {x.id : x \in c.resources}) \cap removed # {}}
Suggestions(indexes, excludes, rules) == {c.id : c \in Violations(indexes, excludes, rules)}

------------------------------------------------------------------------------
(* One command.                                                            *)

\* Packages are taken in the order of their IDs.
NextPackage(todo) == Package(Earliest({id \in ToSet(Order) : Package(id) \in todo}))
Indexes(c) == {c.tars[p] : p \in DOMAIN c.tars}
Excludes(r) == Current.exclude \cup r.excludes
Denies(r) == Current.deny \cup r.denies

Ended(code) ==
  /\ outcome' = [code |-> code, tars |-> command.tars,
                 known |-> IF command.phase = "catalog" THEN {} ELSE CapabilityIds(command.catalog),
                 excludes |-> Excludes(command.request), denies |-> Denies(command.request), swapped |-> swapped]
  /\ command' = None
Fail(code) == Ended(code) /\ UNCHANGED profile
Goes(c) == command' = c /\ UNCHANGED <<outcome, profile>>

\* run, up to load_profile.
Start ==
  /\ command = None /\ commands < MaxCommands
  /\ \E r \in {q \in Requests : Typable(q)} :
       command' = [request |-> r, phase |-> "catalog", catalog |-> None, lock |-> Empty, flags |-> Empty,
                   seen |-> IF r.digests = {} THEN Empty ELSE Summed, todo |-> {},
                   pin |-> None, from |-> None, tars |-> Empty]
  /\ outcome' = None /\ commands' = commands + 1 /\ swapped' = ~Intact
  /\ UNCHANGED <<builder, profile, lock>>

\* load_profile, load_catalog
ReadCatalog ==
  /\ command # None /\ command.phase = "catalog"
  /\ IF ~ProfileReadable THEN Fail("unreadable profile")
     ELSE IF dir = None THEN Fail("no catalog")
     ELSE IF ~IndexReadable(dir.index) THEN Fail("unreadable catalog")
     ELSE Goes([command EXCEPT !.phase = "choose", !.catalog = dir.index])
  /\ UNCHANGED <<builder, lock, commands, swapped>>

\* _packages, _check_selectors, read_lock_pins, parse_digest_flags.
Choose ==
  /\ command # None /\ command.phase = "choose"
  /\ LET r == command.request
         candidates == Candidates(r, command.catalog)
         chosen == Chosen(r, candidates)
     IN IF r.frozen /\ (r.excludes # {} \/ r.denies # {} \/ r.digests # {}) THEN Fail("frozen takes no changes")
        ELSE IF Stale(r, command.catalog) THEN Fail("stale profile")
        ELSE IF ~Choosable(r, candidates) THEN Fail("unknown or ambiguous")
        ELSE IF ~SelectorsKnown(r, command.catalog) THEN Fail("stale selector")
        ELSE IF ~LockReadable THEN Fail("unreadable lock")
        ELSE IF ~FlagsOk(r, chosen) \/ ~Agreed(r, chosen) THEN Fail("bad digest flag")
        ELSE Goes([command EXCEPT !.phase = "pin", !.todo = chosen,
                     !.lock = IF lock = None THEN Empty ELSE lock, !.flags = Flags(r, chosen, command.seen)])
  /\ UNCHANGED <<builder, lock, commands, swapped>>

\* choose_pin, for the next package; the sidecar is read only if nothing better pins it.
Pin ==
  /\ command # None /\ command.phase = "pin" /\ command.todo # {}
  /\ LET p == NextPackage(command.todo)
         flag == PinOf(command.flags, p)
         recorded == Recorded(command, p)
         found(pins, from) == \E pin \in pins : Goes([command EXCEPT !.phase = "read", !.pin = pin, !.from = from])
     IN IF recorded # {} THEN IF ~(flag \subseteq recorded) THEN Fail("contradicts the pin")
                              ELSE found(recorded, "record")
        ELSE IF command.request.frozen THEN Fail("frozen needs a pin")
        ELSE IF flag # {} THEN found(flag, "flag")
        ELSE IF p \in DOMAIN Sidecars THEN found(PinOf(Sidecars, p), "sidecar")
        ELSE Fail("no pin")
  /\ UNCHANGED <<builder, lock, commands, swapped>>

\* verify_packages: the bytes that are hashed are those whose index is read.
Read ==
  /\ command # None /\ command.phase = "read"
  /\ LET p == NextPackage(command.todo) IN
       IF p \notin DOMAIN dir.tars THEN Fail("no artifact")
       ELSE IF Digest(dir.tars[p]) # command.pin THEN Fail(IF command.from = "sidecar" THEN "sidecar mismatch" ELSE "digest mismatch")
       ELSE IF ~Embedded(dir.tars[p], p) THEN Fail("unreadable artifact")
       ELSE Goes([command EXCEPT !.phase = "pin", !.todo = @ \ {p}, !.tars = Extend([q \in {p} |-> dir.tars[q]], @)])
  /\ UNCHANGED <<builder, lock, commands, swapped>>

\* _check_roots
RootsAgree(c) ==
  \A p \in DOMAIN c.tars : LET own == c.tars[p].packages IN
    p \in DOMAIN own /\ Tree(own[p]) = Tree(c.catalog.packages[p])

\* The profile with what was verified and asked for.
Following(c) ==
  [artifacts |-> Extend([p \in DOMAIN c.tars |-> Digest(c.tars[p])], Current.artifacts),
   exclude |-> Excludes(c.request), deny |-> Denies(c.request)]

\* The rest of plan, and write_profile, which may fail and then leaves the profile.
Finish ==
  /\ command # None /\ command.phase = "pin" /\ command.todo = {}
  /\ LET r == command.request indexes == Indexes(command) IN
       IF ~RootsAgree(command) THEN Fail("catalog disagrees")
       ELSE IF Disagree(indexes) THEN Fail("artifacts disagree")
       ELSE IF Absent(indexes) # {} THEN Fail("names absent IDs")
       ELSE IF Violations(indexes, Excludes(r), Denies(r)) # {} THEN Fail("closure")
       ELSE IF r.dry \/ r.frozen \/ Following(command) = profile THEN Fail("ok")
       ELSE (Ended("ok") /\ profile' = Following(command)) \/ Fail("cannot write")
  /\ UNCHANGED <<builder, lock, commands, swapped>>

Consumer == Start \/ ReadCatalog \/ Choose \/ Pin \/ Read \/ Finish

\* The publisher builds, and commits what the build returned as its lock.
Prepare ==
  \/ BeginBuild /\ UNCHANGED consumer
  \/ BuildItem /\ UNCHANGED consumer
  \/ Describe /\ UNCHANGED consumer
  \/ Pack /\ UNCHANGED consumer
  \/ Edit /\ UNCHANGED consumer
Publish ==
  /\ Place /\ swapped' = (swapped \/ (command # None /\ dir' # dir))
  /\ UNCHANGED <<profile, lock, command, outcome, commands>>
Lock ==
  /\ dir # None /\ lock # Sidecars /\ lock' = Sidecars
  /\ UNCHANGED <<builder, profile, command, outcome, commands, swapped>>

\* Between commands a file is edited by hand, or copied in part.
Damage ==
  /\ command = None /\ edits < MaxEdits /\ edits' = edits + 1
  /\ \/ profile # Empty /\ profile' = Damaged /\ UNCHANGED <<lock, dir>>
     \/ lock # None /\ lock' = Damaged /\ UNCHANGED <<profile, dir>>
     \/ /\ dir # None /\ UNCHANGED <<profile, lock>>
        /\ dir' \in {[dir EXCEPT !.index = Damaged]}
                    \cup {[dir EXCEPT !.tars[p] = Damaged] : p \in DOMAIN dir.tars}
  /\ UNCHANGED <<source, build, packed, builds, command, outcome, commands, swapped>>

Init ==
  /\ BuilderInit
  /\ profile = Empty /\ lock = None /\ command = None /\ outcome = None /\ commands = 0 /\ swapped = FALSE
Next == Consumer \/ Prepare \/ Publish \/ Lock \/ Damage
Spec == Init /\ [][Next]_vars

------------------------------------------------------------------------------
(* Properties.                                                             *)

TypeOK ==
  /\ build # None /\ build.staged = Empty => build.todo \cup DOMAIN build.files = Selected(Sources[build.seen])
  /\ dir # None /\ IndexReadable(dir.index) => DOMAIN dir.tars = DOMAIN dir.index.packages
  /\ dir # None => DOMAIN dir.tars = DOMAIN dir.sums
  /\ command # None =>
       /\ command.phase \in {"catalog", "choose", "pin", "read"}
       /\ command.phase = "read" => command.todo # {}
       /\ command.todo \cap DOMAIN command.tars = {}
  /\ profile # Empty /\ ProfileReadable => profile.exclude \subseteq ToSet(Order) \cup {Package(id) : id \in ToSet(Order)}

\* The next three speak of a directory d that is put in place, built from s, with the
\* checkouts as they were in now when it was packed.
NewlyPlaced(P(_, _, _)) ==
  \A d \in IF build # None /\ build' = None THEN {dir'} \ {dir} ELSE {}, k \in {packed} :
    P(d, Sources[k.seen], Sources[k.now])
Delivered(d) == Caps({d.tars[p] : p \in DOMAIN d.tars})
Chains(index) == UNION {ToSet(lineage) : lineage \in {c.lineage : c \in Caps({index})} \cup {x.lineage : x \in Copies({index})}}

\* What is published is what the inventory saw, whatever was edited while it was copied:
\* every file has the text and mode of the source it stands for (_observe).
Observation(d, s) ==
  \A c \in Delivered(d) : LET to == Coordinates(s, c.id, RecordSources(s)) IN
    /\ DOMAIN c.tree = {to[f] : f \in DOMAIN to}
    /\ \A f \in DOMAIN to : c.tree[to[f]].text = s.tree[f].text /\ c.tree[to[f]].mode = s.tree[f].mode

\* In what is called portable, a reference to a file that was copied is one to its copy,
\* wherever the two were put (materialize).
Relocation(d, s) ==
  \A c \in {x \in Delivered(d) : x.portable} : LET to == Coordinates(s, c.id, RecordSources(s)) IN
    \A f \in DOMAIN to : \A ref \in s.tree[f].refs :
      Target(f, ref) \in DOMAIN to =>
        \E new \in c.tree[to[f]].refs : new.form = ref.form /\ Follow(to[f], new) = to[Target(f, ref)]

\* An artifact carries every legal text at the root of every publication that anything in it
\* came through, be it of another package: as it was when the artifact was packed, or, if it
\* is the notice that is made of the registry, with the line of each vendor that anything in
\* the artifact came through (legal_files).
Obligation(d, now) ==
  \A p \in DOMAIN d.tars :
    LET hops == UNION {ToSet(chain) : chain \in Chains(d.tars[p])}
        due(c, f) ==
          IF Generated(now.tree, c, f)
          THEN {Rendered(lines) : lines \in
                  {v \in SUBSET Registered(now.tree, c) : {h.coordinate[1] : h \in hops} \cap Registered(now.tree, c) \subseteq v}}
          ELSE {now.tree[f].text}
    IN \A c \in {hop.coordinate : hop \in hops} :
         \E l \in {m \in d.tars[p].legal : m.coordinate = c} :
           \A f \in LegalAt(now.tree, <<c>>) : \E text \in due(c, f) : <<f, text>> \in l.texts


\* A consumer accepts what the builder publishes: it finds fault with the artifacts only
\* if the directory was damaged, or published anew while it read (write_artifacts; plan).
BuildsAreAccepted ==
  /\ TypeOK
  /\ outcome # None
     /\ outcome.code \in {"no artifact", "sidecar mismatch", "unreadable artifact", "unreadable catalog",
                           "catalog disagrees", "artifacts disagree", "names absent IDs"}
     => outcome.swapped

\* What is installed is whole: what is kept needs nothing that is not kept, at any depth,
\* and nothing of it came through an origin that is denied (filter_inventory); and resources
\* are of one version: the copies in capabilities, and the records that stand alone, agree,
\* though artifacts are read one after another (_put; merge_indexes).
KeptIsWhole ==
  outcome # None /\ outcome.code = "ok" =>
    LET indexes == Indexes(outcome)
        kept == KeptCaps(indexes, outcome.excludes, outcome.denies)
        copies == UNION {c.resources : c \in Caps(indexes)} IN
    /\ \A c \in kept :
         /\ c.requires \subseteq {k.id : k \in kept}
         /\ {c.id, Package(c.id)} \cap outcome.excludes = {}
         /\ \A lineage \in {c.lineage} \cup {x.lineage : x \in c.resources} :
              \A hop \in UNION {ToSet(chain) : chain \in ToSet(lineage)} :
                ~\E rule \in outcome.denies : OriginMatches(hop.coordinate[1], rule)
    /\ \A a, b \in copies : a.id = b.id => a.source = b.source /\ a.lineage = b.lineage
    /\ \A a \in copies, b \in Resources(indexes) : a.id = b.id => a.source = b.tree

\* With the excludes that a refusal suggests the selection is valid: no other capability is
\* then refused; and the catalog knows them, unless the directory was damaged, or published
\* anew while the command ran (ClosureError).
SuggestionsSuffice ==
  outcome # None /\ outcome.code = "closure" =>
    LET more == Suggestions(Indexes(outcome), outcome.excludes, outcome.denies) IN
    /\ Violations(Indexes(outcome), outcome.excludes \cup more, outcome.denies) = {}
    /\ ~outcome.swapped => more \subseteq outcome.known

\* A profile forgets no exclude, no deny and no package, and only an update gives a
\* package another digest, whatever the directory holds by then; one that cannot be read
\* stays as it is (plan; run).
PinsMoveByUpdate ==
  [][command # None /\ profile # Empty =>
       /\ ProfileReadable /\ profile' # Empty
       /\ profile.exclude \subseteq profile'.exclude /\ profile.deny \subseteq profile'.deny
       /\ \A p \in DOMAIN profile.artifacts :
            /\ p \in DOMAIN profile'.artifacts
            /\ profile'.artifacts[p] # profile.artifacts[p] => command.request.command = "update"]_profile
=============================================================================
