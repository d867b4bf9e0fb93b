--------------------------- MODULE InstallProofs ---------------------------
(***************************************************************************)
(* Proofs about Install and the Artifact it composes, for any snapshots,    *)
(* selections, requests and damage: a consumer accepts what the builder     *)
(* publishes, what is installed is whole, the excludes that a refusal       *)
(* suggests are enough, and only an update moves a pin.                     *)
(*                                                                         *)
(* IInv is inductive.  What a build has made is of the inventory it saw     *)
(* (Building); artifacts that are put in place hold all that their          *)
(* capabilities need and agree with one another and with the catalog        *)
(* (Sound, Together); a running command has verified sound artifacts, and   *)
(* those that the profile pins (Running); and while the directory is the    *)
(* one the command began with, what it holds is what is there (Steady).     *)
(* What a command ends with (Outcomes) follows from these when it ends.     *)
(*                                                                         *)
(* Of the constants the proofs need OrderAssumption, SourcesAssumption and  *)
(* RequestsAssumption.                                                      *)
(***************************************************************************)
EXTENDS Install, SequenceTheorems, WellFoundedInduction, TLAPS

-----------------------------------------------------------------------------
(* The inductive invariant.                                                *)

Ids == ToSet(Order)
Packages == {Package(id) : id \in Ids}

\* The records of an index.
CapsOf(i)      == UNION {i.packages[p].capabilities : p \in DOMAIN i.packages}
ResourcesOf(i) == UNION {i.packages[p].resources : p \in DOMAIN i.packages}

\* An index names IDs, below packages.
Keyed(i) == DOMAIN i.packages \subseteq Packages /\ \A c \in CapsOf(i) : c.id \in Ids

\* An index has the record of all that its capabilities need, at any depth; and a copy that
\* is in a capability has the source that the record of the resource has.
Covered(i, c) ==
  /\ c.requires \subseteq c.closure.capabilities
  /\ \A n \in c.closure.capabilities : \E d \in CapsOf(i) : d.id = n
  /\ \A n \in c.closure.resources : \E y \in ResourcesOf(i) : y.id = n
  /\ \A d \in CapsOf(i) : d.id \in c.closure.capabilities =>
       d.closure.capabilities \subseteq c.closure.capabilities /\ d.closure.resources \subseteq c.closure.resources
  /\ \A x \in c.resources :
       /\ x.id \in c.closure.resources
       /\ \A y \in ResourcesOf(i) : y.id = x.id => y.lineage = x.lineage /\ y.source = x.source
Sound(i) ==
  /\ Keyed(i)
  /\ \A c \in CapsOf(i) : c.id[3] # "resource" /\ Covered(i, c)
  /\ \A y \in ResourcesOf(i) : y.id[3] = "resource" /\ y.source = y.tree

\* A directory of artifacts as it was put in place, but for files that are damaged.
SameAs(tar, index, p) ==
  /\ Tree(tar.packages[p]) = Tree(index.packages[p])
  /\ CapabilityIds(tar) \subseteq CapabilityIds(index)
Together(d) ==
  /\ d = [index |-> d.index, tars |-> d.tars, sums |-> d.sums]
  /\ d.tars = [p \in DOMAIN d.sums |-> d.tars[p]] /\ \A p \in DOMAIN d.sums : d.tars[p] \in {d.sums[p], Damaged}
  /\ \A p \in DOMAIN d.sums : Sound(d.sums[p]) /\ d.sums[p].root = p /\ p \in DOMAIN d.sums[p].packages
  /\ ~Disagree({d.sums[p] : p \in DOMAIN d.sums})
  /\ d.index # Damaged =>
       /\ Keyed(d.index) /\ DOMAIN d.index.packages = DOMAIN d.sums
       /\ \A p \in DOMAIN d.sums : SameAs(d.sums[p], d.index, p)

\* The records that a build has made are those of the inventory it saw.
CapOf(s, id, c) ==
  /\ {"id", "requires", "closure", "resources"} \subseteq DOMAIN c
  /\ c.id = id /\ c.requires = s.caps[id].requires
  /\ c.closure.capabilities = Closure(s, id) \cap DOMAIN s.caps
  /\ c.closure.resources = Closure(s, id) \cap DOMAIN s.resources
  /\ \A x \in c.resources :
       x.id \in s.caps[id].resources /\ x.lineage = s.resources[x.id].lineage /\ x.source = Observed(s, x.id)
ResourceOf(s, id, y) ==
  y.id = id /\ y.lineage = s.resources[id].lineage /\ y.source = Observed(s, id) /\ y.tree = y.source

Made(b, s) ==
  /\ b.todo \cup DOMAIN b.files = Selected(s)
  /\ DOMAIN b.caps = (Selected(s) \cap DOMAIN s.caps) \ b.todo
  /\ DOMAIN b.resources = (Selected(s) \cap DOMAIN s.resources) \ b.todo
  /\ \A id \in DOMAIN b.caps : CapOf(s, id, b.caps[id])
  /\ \A id \in DOMAIN b.resources : ResourceOf(s, id, b.resources[id])
Building(b) ==
  /\ b = [seen |-> b.seen, at |-> b.at, files |-> b.files, caps |-> b.caps, resources |-> b.resources,
          staged |-> b.staged, todo |-> b.todo]
  /\ b.seen \in DOMAIN Sources /\ Buildable(Sources[b.seen]) /\ b.todo \subseteq Selected(Sources[b.seen])
  /\ b.staged = Empty => Made(b, Sources[b.seen])
  /\ b.staged # Empty => b.todo = {} /\ Together(b.staged)

\* What a running command holds, whatever happened to the directory.
Pinned(c, p) == PinOf(ProfilePins(c.request), p)
Running(c) ==
  /\ DOMAIN c = {"request", "phase", "catalog", "lock", "flags", "seen", "todo", "pin", "from", "tars"}
  /\ c.request \in Requests /\ c.phase \in {"catalog", "choose", "pin", "read"}
  /\ c.phase # "catalog" => ProfileReadable /\ Keyed(c.catalog) /\ Together(dir)
  /\ c.phase \in {"catalog", "choose"} => c.tars = Empty /\ c.todo = {}
  /\ c.phase \in {"pin", "read"} => c.todo \subseteq DOMAIN c.catalog.packages /\ c.request.excludes \subseteq Ids \cup Packages
  /\ c.phase = "read" => c.todo # {} /\ (Pinned(c, NextPackage(c.todo)) # {} => c.pin \in Pinned(c, NextPackage(c.todo)))
  /\ c.todo \cap DOMAIN c.tars = {}
  /\ \A p \in DOMAIN c.tars : Sound(c.tars[p]) /\ (Pinned(c, p) # {} => c.tars[p] \in Pinned(c, p))

\* And while the directory is the one it began with.
Steady(c) ==
  /\ Intact
  /\ c.phase # "catalog" => dir # None /\ c.catalog = dir.index
  /\ \A p \in DOMAIN c.tars : p \in DOMAIN dir.sums /\ c.tars[p] = dir.sums[p]
  /\ c.phase = "read" /\ c.from = "sidecar" => c.pin = dir.sums[NextPackage(c.todo)]

Profiles == profile # Empty /\ ProfileReadable => profile.exclude \subseteq Ids \cup Packages

Builder ==
  /\ source \in DOMAIN Sources
  /\ build # None => Building(build)
  /\ dir # None => Together(dir)

\* What is the matter with the artifacts, if they are refused.
Faults == {"no artifact", "sidecar mismatch", "unreadable artifact", "unreadable catalog", "catalog disagrees",
           "artifacts disagree", "names absent IDs"}
Faultless == outcome # None /\ outcome.code \in Faults => outcome.swapped
Outcomes == Faultless /\ KeptIsWhole /\ SuggestionsSuffice

IInv ==
  /\ Builder /\ Profiles /\ Outcomes
  /\ command # None => Running(command) /\ (~swapped => Steady(command))

-----------------------------------------------------------------------------
(* Orders and closures.                                                    *)

\* A nonempty set of naturals has a least element.
LEMMA LeastIn ==
  ASSUME NEW S \in SUBSET Nat, S # {}
  PROVE  Min(S) \in S
<1>1. PICK i \in S : \A j \in S : <<j, i>> \notin OpToRel(<, Nat)
  BY NatLessThanWellFounded, WFMin, Zenon
<1>2. \A j \in S : ~(j < i)
  BY <1>1, Zenon DEF OpToRel
<1>3. \A j \in S : i <= j
  BY <1>2
<1> QED BY <1>3 DEF Min

\* The earliest of some IDs is one of them; the next package is one that is left.
LEMMA EarliestIn ==
  ASSUME NEW S, S \cap Ids # {}
  PROVE  Earliest(S) \in S \cap Ids
<1> DEFINE K == {k \in DOMAIN Order : Order[k] \in S}
<1>1. K \in SUBSET Nat
  BY OrderAssumption
<1>2. K # {}
  BY DEF Ids, ToSet
<1>3. Min(K) \in K
  BY <1>1, <1>2, LeastIn
<1> HIDE DEF K
<1>4. Order[Min(K)] \in S /\ Order[Min(K)] \in Ids
  BY <1>3 DEF K, Ids, ToSet
<1> QED BY <1>4, Zenon DEF Earliest, K

LEMMA NextPackageIn ==
  ASSUME NEW S, S \subseteq Packages, S # {}
  PROVE  NextPackage(S) \in S
<1> DEFINE T == {id \in Ids : Package(id) \in S}
<1>1. T \cap Ids # {}
  BY DEF Packages
<1> HIDE DEF T
<1>2. Earliest(T) \in T
  BY <1>1, EarliestIn
<1>3. Package(Earliest(T)) \in S
  BY <1>2 DEF T
<1> QED BY <1>3 DEF NextPackage, T, Ids

\* What can be reached has the roots and what its members need, and is in every set that has.
LEMMA ReachHolds ==
  ASSUME NEW roots, NEW next
  PROVE  /\ roots \subseteq Reach(roots, next)
         /\ \A x \in Reach(roots, next) \cap DOMAIN next : next[x] \subseteq Reach(roots, next)
<1> DEFINE all == roots \cup UNION {next[x] : x \in DOMAIN next}
           closed == {S \in SUBSET all : roots \subseteq S /\ \A x \in S \cap DOMAIN next : next[x] \subseteq S}
<1>0. Reach(roots, next) = {y \in all : \A S \in closed : y \in S}
  BY DEF Reach
<1>1. \A S \in closed : roots \subseteq S /\ \A x \in S \cap DOMAIN next : next[x] \subseteq S
  OBVIOUS
<1>2. roots \subseteq all /\ \A x \in DOMAIN next : next[x] \subseteq all
  OBVIOUS
<1> HIDE DEF all, closed
<1>3. roots \subseteq Reach(roots, next)
  BY <1>0, <1>1, <1>2
<1>4. ASSUME NEW x \in Reach(roots, next) \cap DOMAIN next, NEW y \in next[x]
      PROVE  y \in Reach(roots, next)
  BY <1>0, <1>1, <1>2
<1> QED BY <1>3, <1>4

LEMMA ReachLeast ==
  ASSUME NEW roots, NEW next, NEW S, roots \subseteq S, \A x \in S \cap DOMAIN next : next[x] \subseteq S
  PROVE  Reach(roots, next) \subseteq S
<1> DEFINE all == roots \cup UNION {next[x] : x \in DOMAIN next}
           closed == {R \in SUBSET all : roots \subseteq R /\ \A x \in R \cap DOMAIN next : next[x] \subseteq R}
<1>0. Reach(roots, next) = {y \in all : \A R \in closed : y \in R}
  BY DEF Reach
<1>1. \A x \in DOMAIN next : next[x] \subseteq all
  OBVIOUS
<1>2. S \cap all \in closed
  <2>1. roots \subseteq S \cap all
    OBVIOUS
  <2>2. \A x \in (S \cap all) \cap DOMAIN next : next[x] \subseteq S \cap all
    BY <1>1
  <2> HIDE DEF all
  <2> QED BY <2>1, <2>2
<1> HIDE DEF all, closed
<1> QED BY <1>0, <1>2

\* The closure of a record has it, and the closures of all it has.
Nexts(s) == [n \in DOMAIN s.caps \cup DOMAIN s.resources |-> Needs(s, n)]
LEMMA ClosureHolds ==
  ASSUME NEW s, NEW id
  PROVE  /\ id \in Closure(s, id)
         /\ \A n \in Closure(s, id) : Needs(s, n) \subseteq Closure(s, id)
         /\ \A n \in Closure(s, id) : Closure(s, n) \subseteq Closure(s, id)
<1>0. \A n : Closure(s, n) = Reach({n}, Nexts(s))
  BY Zenon DEF Closure, Nexts
<1>1. DOMAIN Nexts(s) = DOMAIN s.caps \cup DOMAIN s.resources /\ \A n \in DOMAIN Nexts(s) : Nexts(s)[n] = Needs(s, n)
  BY DEF Nexts
<1>2. {id} \subseteq Closure(s, id) /\ \A n \in Closure(s, id) \cap DOMAIN Nexts(s) : Nexts(s)[n] \subseteq Closure(s, id)
  <2>1. /\ {id} \subseteq Reach({id}, Nexts(s))
        /\ \A n \in Reach({id}, Nexts(s)) \cap DOMAIN Nexts(s) : Nexts(s)[n] \subseteq Reach({id}, Nexts(s))
    BY ReachHolds
  <2> QED BY <2>1, <1>0
<1>3. \A n \in Closure(s, id) : Needs(s, n) \subseteq Closure(s, id)
  BY <1>1, <1>2 DEF Needs
<1>4. ASSUME NEW n \in Closure(s, id)
      PROVE  Closure(s, n) \subseteq Closure(s, id)
  <2>1. Reach({n}, Nexts(s)) \subseteq Closure(s, id)
    BY <1>2, ReachLeast
  <2> QED BY <2>1, <1>0
<1> QED BY <1>2, <1>3, <1>4

\* All that a selection needs is selected.
LEMMA ClosureSelected ==
  ASSUME NEW s, Buildable(s), NEW id \in Selected(s)
  PROVE  Closure(s, id) \subseteq Selected(s)
<1>1. DOMAIN Nexts(s) = DOMAIN s.caps \cup DOMAIN s.resources /\ \A n \in DOMAIN Nexts(s) : Nexts(s)[n] = Needs(s, n)
  BY DEF Nexts
<1>2. \A n \in Selected(s) \cap DOMAIN Nexts(s) : Nexts(s)[n] \subseteq Selected(s)
  BY <1>1 DEF Buildable
<1>3. Reach({id}, Nexts(s)) \subseteq Selected(s)
  BY <1>2, ReachLeast
<1> QED BY <1>3, Zenon DEF Closure, Nexts

-----------------------------------------------------------------------------
(* What sound indexes that agree are together.                             *)

LEMMA CapsAll ==
  ASSUME NEW I
  PROVE  /\ \A c : c \in Caps(I) <=> \E i \in I : c \in CapsOf(i)
         /\ \A y : y \in Resources(I) <=> \E i \in I : y \in ResourcesOf(i)
<1>1. Caps(I) = UNION {CapsOf(i) : i \in I}
  BY Zenon DEF Caps, CapsOf
<1>2. Resources(I) = UNION {ResourcesOf(i) : i \in I}
  BY Zenon DEF Resources, ResourcesOf
<1> QED BY <1>1, <1>2

LEMMA CapabilityIdsAre ==
  ASSUME NEW i
  PROVE  \A n : n \in CapabilityIds(i) <=> \E c \in CapsOf(i) : c.id = n
BY DEF CapabilityIds, CapsOf

\* No ID is missing in sound indexes.
LEMMA NothingAbsent ==
  ASSUME NEW I, \A i \in I : Sound(i)
  PROVE  Absent(I) = {}
<1> DEFINE ids == {c.id : c \in Caps(I)}
           copied == {x.id : x \in Copies(I)}
<1>1. ASSUME NEW c \in Caps(I)
      PROVE  c.requires \subseteq ids /\ c.closure.capabilities \subseteq ids /\ c.closure.resources \subseteq copied
  <2>1. PICK i \in I : c \in CapsOf(i)
    BY CapsAll
  <2>2. Covered(i, c)
    BY <2>1 DEF Sound
  <2>3. \A n \in c.closure.capabilities : n \in ids
    BY <2>1, <2>2, CapsAll DEF Covered
  <2>4. ASSUME NEW n \in c.closure.resources PROVE n \in copied
    <3>1. PICK y \in Resources(I) : y.id = n
      BY <2>1, <2>2, CapsAll DEF Covered
    <3>2. [id |-> y.id, lineage |-> y.lineage] \in Copies(I)
      BY DEF Copies
    <3> QED BY <3>1, <3>2
  <2> QED BY <2>2, <2>3, <2>4 DEF Covered
<1> HIDE DEF ids, copied
<1>2. Absent(I) = UNION {((c.requires \cup c.closure.capabilities) \ ids) \cup (c.closure.resources \ copied) : c \in Caps(I)}
  BY Zenon DEF Absent, ids, copied
<1> QED BY <1>1, <1>2

LEMMA AgreesOnIds ==
  ASSUME NEW I, ~Disagree(I)
  PROVE  /\ \A a, b \in Caps(I) : a.id = b.id => a = b
         /\ \A a, b \in Resources(I) : a.id = b.id => a = b
BY DEF Disagree

\* A copy in a capability is of the resource that the indexes hold.
LEMMA CopyHasRecord ==
  ASSUME NEW I, \A i \in I : Sound(i), NEW c \in Caps(I), NEW x \in c.resources
  PROVE  \E y \in Resources(I) : y.id = x.id /\ y.lineage = x.lineage /\ y.source = x.source /\ y.source = y.tree
<1>1. PICK i \in I : c \in CapsOf(i)
  BY CapsAll
<1>2. Covered(i, c) /\ \A y \in ResourcesOf(i) : y.source = y.tree
  BY <1>1 DEF Sound
<1>3. x.id \in c.closure.resources
  BY <1>2 DEF Covered
<1>4. PICK y \in ResourcesOf(i) : y.id = x.id
  BY <1>2, <1>3 DEF Covered
<1>5. y.lineage = x.lineage /\ y.source = x.source
  BY <1>2, <1>4 DEF Covered
<1>6. y \in Resources(I)
  BY CapsAll
<1> QED BY <1>2, <1>4, <1>5, <1>6

\* What is kept when nothing is refused is whole (the conclusion is that of KeptIsWhole).
LEMMA KeptWhole ==
  ASSUME NEW I, \A i \in I : Sound(i), ~Disagree(I), NEW ex, NEW de, Violations(I, ex, de) = {}
  PROVE  LET kept == KeptCaps(I, ex, de)
             copies == UNION {c.resources : c \in Caps(I)} IN
         /\ \A c \in kept :
              /\ c.requires \subseteq {k.id : k \in kept}
              /\ {c.id, Package(c.id)} \cap ex = {}
              /\ \A lineage \in {c.lineage} \cup {x.lineage : x \in c.resources} :
                   \A hop \in UNION {ToSet(chain) : chain \in ToSet(lineage)} :
                     ~\E rule \in de : OriginMatches(hop.coordinate[1], rule)
         /\ \A a, b \in copies : a.id = b.id => a.source = b.source /\ a.lineage = b.lineage
         /\ \A a \in copies, b \in Resources(I) : a.id = b.id => a.source = b.tree
<1> DEFINE kept == KeptCaps(I, ex, de)
           removed == Removed(I, ex, de)
           copies == UNION {c.resources : c \in Caps(I)}
<1>1. /\ \A c : c \in kept <=> c \in Caps(I) /\ c.id \notin removed
      /\ \A c \in kept : (c.closure.capabilities \cup c.closure.resources \cup {x.id : x \in c.resources}) \cap removed = {}
  <2>1. kept = {c \in Caps(I) : c.id \notin removed}
    BY Zenon DEF KeptCaps
  <2>2. Violations(I, ex, de) =
          {c \in kept : (c.closure.capabilities \cup c.closure.resources \cup {x.id : x \in c.resources}) \cap removed # {}}
    BY Zenon DEF Violations
  <2> HIDE DEF kept, removed
  <2> QED BY <2>1, <2>2
<1>2. /\ \A c \in Caps(I) : c.id \in ex \/ Package(c.id) \in ex \/ Denied(c.lineage, de) => c.id \in removed
      /\ \A x \in Copies(I) : Denied(x.lineage, de) => x.id \in removed
  BY Zenon DEF Removed
<1> HIDE DEF kept, removed
<1>3. ASSUME NEW c \in kept
      PROVE  c.requires \subseteq {k.id : k \in kept}
  <2>1. PICK i \in I : c \in CapsOf(i)
    BY <1>1, CapsAll
  <2>2. Covered(i, c)
    BY <2>1 DEF Sound
  <2>3. ASSUME NEW n \in c.requires PROVE \E k \in kept : k.id = n
    <3>1. n \in c.closure.capabilities
      BY <2>2 DEF Covered
    <3>2. PICK d \in CapsOf(i) : d.id = n
      BY <2>2, <3>1 DEF Covered
    <3>3. d \in Caps(I)
      BY CapsAll
    <3> QED BY <1>1, <3>1, <3>2, <3>3
  <2> QED BY <2>3
<1>4. \A c \in kept : {c.id, Package(c.id)} \cap ex = {}
  BY <1>1, <1>2
<1>5. ASSUME NEW c \in kept, NEW lineage \in {c.lineage} \cup {x.lineage : x \in c.resources}
      PROVE  ~Denied(lineage, de)
  <2>1. CASE lineage = c.lineage
    BY <1>1, <1>2, <2>1
  <2>2. ASSUME NEW x \in c.resources, lineage = x.lineage PROVE ~Denied(lineage, de)
    <3>1. [id |-> x.id, lineage |-> x.lineage] \in Copies(I)
      <4>1. x \in UNION {k.resources : k \in Caps(I)}
        BY <1>1
      <4> QED BY <4>1, Zenon DEF Copies
    <3>2. x.id \notin removed
      BY <1>1
    <3>3. [id |-> x.id, lineage |-> x.lineage].id = x.id /\ [id |-> x.id, lineage |-> x.lineage].lineage = x.lineage
      OBVIOUS
    <3> QED BY <1>2, <2>2, <3>1, <3>2, <3>3
  <2> QED BY <2>1, <2>2
<1>6. \A c \in kept : \A lineage \in {c.lineage} \cup {x.lineage : x \in c.resources} :
        \A hop \in UNION {ToSet(chain) : chain \in ToSet(lineage)} : ~\E rule \in de : OriginMatches(hop.coordinate[1], rule)
  BY <1>5, Zenon DEF Denied
<1>7. \A a \in copies : \E y \in Resources(I) : y.id = a.id /\ y.lineage = a.lineage /\ y.source = a.source /\ y.source = y.tree
  BY CopyHasRecord
<1> HIDE DEF copies
<1>8. /\ \A a, b \in copies : a.id = b.id => a.source = b.source /\ a.lineage = b.lineage
      /\ \A a \in copies, b \in Resources(I) : a.id = b.id => a.source = b.tree
  BY <1>7, AgreesOnIds
<1>9. /\ \A c \in kept :
           /\ c.requires \subseteq {k.id : k \in kept}
           /\ {c.id, Package(c.id)} \cap ex = {}
           /\ \A lineage \in {c.lineage} \cup {x.lineage : x \in c.resources} :
                \A hop \in UNION {ToSet(chain) : chain \in ToSet(lineage)} :
                  ~\E rule \in de : OriginMatches(hop.coordinate[1], rule)
      /\ \A a, b \in copies : a.id = b.id => a.source = b.source /\ a.lineage = b.lineage
      /\ \A a \in copies, b \in Resources(I) : a.id = b.id => a.source = b.tree
  BY <1>3, <1>4, <1>6, <1>8, Zenon
<1> QED BY <1>9, Zenon DEF kept, copies

\* What is refused is refused for what its own closure lacks: with the suggested excludes
\* nothing else is.
LEMMA SuggestedSuffice ==
  ASSUME NEW I, \A i \in I : Sound(i), ~Disagree(I), NEW ex, NEW de
  PROVE  Violations(I, ex \cup Suggestions(I, ex, de), de) = {}
<1> DEFINE more == Suggestions(I, ex, de)
           removed == Removed(I, ex, de)
           then == Removed(I, ex \cup more, de)
           needed(c) == c.closure.capabilities \cup c.closure.resources \cup {x.id : x \in c.resources}
           refused == Violations(I, ex, de)
           after == Violations(I, ex \cup more, de)
<1>1. /\ \A n : n \in more <=> \E c \in refused : c.id = n
      /\ \A c : c \in refused <=> c \in Caps(I) /\ c.id \notin removed /\ needed(c) \cap removed # {}
      /\ \A c : c \in after <=> c \in Caps(I) /\ c.id \notin then /\ needed(c) \cap then # {}
  <2>1. more = {c.id : c \in refused}
    BY Zenon DEF Suggestions
  <2>2. KeptCaps(I, ex, de) = {c \in Caps(I) : c.id \notin removed}
    BY Zenon DEF KeptCaps
  <2>3. refused = {c \in KeptCaps(I, ex, de) : needed(c) \cap removed # {}}
    BY Zenon DEF Violations
  <2>4. KeptCaps(I, ex \cup more, de) = {c \in Caps(I) : c.id \notin then}
    BY Zenon DEF KeptCaps
  <2>5. after = {c \in KeptCaps(I, ex \cup more, de) : needed(c) \cap then # {}}
    BY Zenon DEF Violations
  <2> HIDE DEF more, removed, then, needed, refused, after
  <2> QED BY <2>1, <2>2, <2>3, <2>4, <2>5
<1>2. more \subseteq Ids
  <2>1. \A c \in Caps(I) : c.id \in Ids
    BY CapsAll DEF Sound, Keyed
  <2> HIDE DEF more, removed, then, needed, refused, after
  <2> QED BY <1>1, <2>1
<1>3. \A c \in Caps(I) : Package(c.id) \notin more
  <2>1. \A c \in Caps(I) : c.id \in Ids
    BY CapsAll DEF Sound, Keyed
  <2> HIDE DEF more
  <2> QED BY <1>2, <2>1, OrderAssumption DEF Ids
<1>4. \A n : Owner(I, n) \cap more = {}
  <2>1. \A i \in I : DOMAIN i.packages \subseteq Packages
    BY DEF Sound, Keyed
  <2>2. \A n : Owner(I, n) \subseteq Packages
    BY <2>1 DEF Owner
  <2>3. Packages \cap Ids = {}
    BY OrderAssumption DEF Packages, Ids
  <2> HIDE DEF more
  <2> QED BY <1>2, <2>2, <2>3
<1>5. /\ \A n : n \in then => n \in removed \/ n \in more
      /\ \A c \in Caps(I) : c.id \in removed \/ c.id \in more => c.id \in then
  <2>1. removed = {c.id : c \in {x \in Caps(I) : x.id \in ex \/ Package(x.id) \in ex \/ Denied(x.lineage, de)}}
                  \cup {x.id : x \in {y \in Copies(I) : Owner(I, y.id) \cap ex # {} \/ Denied(y.lineage, de)}}
    BY Zenon DEF Removed
  <2>2. then = {c.id : c \in {x \in Caps(I) : x.id \in ex \cup more \/ Package(x.id) \in ex \cup more \/ Denied(x.lineage, de)}}
               \cup {x.id : x \in {y \in Copies(I) : Owner(I, y.id) \cap (ex \cup more) # {} \/ Denied(y.lineage, de)}}
    BY Zenon DEF Removed
  <2> HIDE DEF more, removed, then
  <2>3. ASSUME NEW n \in then PROVE n \in removed \/ n \in more
    <3>1. CASE \E c \in Caps(I) : n = c.id /\ (c.id \in ex \cup more \/ Package(c.id) \in ex \cup more \/ Denied(c.lineage, de))
      BY <2>1, <3>1, <1>3
    <3>2. CASE \E y \in Copies(I) : n = y.id /\ (Owner(I, y.id) \cap (ex \cup more) # {} \/ Denied(y.lineage, de))
      BY <2>1, <3>2, <1>4
    <3> QED BY <2>2, <3>1, <3>2
  <2>4. ASSUME NEW c \in Caps(I), c.id \in removed \/ c.id \in more PROVE c.id \in then
    BY <2>1, <2>2, <2>4
  <2> QED BY <2>3, <2>4
<1> HIDE DEF more, removed, then, refused, after
<1>6. SUFFICES ASSUME NEW c \in after PROVE FALSE
  BY DEF after, more
<1>7. c \in Caps(I) /\ c.id \notin removed /\ c.id \notin more /\ c \notin refused
  BY <1>1, <1>5
<1>8. needed(c) \cap removed = {}
  <2> HIDE DEF needed
  <2> QED BY <1>1, <1>7
<1>9. PICK n \in needed(c) : n \in more
  <2> HIDE DEF needed
  <2> QED BY <1>1, <1>5, <1>8
<1>10. PICK d \in refused : d.id = n
  BY <1>1, <1>9
<1>11. d \in Caps(I) /\ needed(d) \cap removed # {}
  <2> HIDE DEF needed
  <2> QED BY <1>1
<1>12. PICK i \in I : c \in CapsOf(i)
  BY <1>7, CapsAll
<1>13. Covered(i, c) /\ Sound(i)
  BY <1>12 DEF Sound
<1>14. d.id[3] # "resource"
  BY <1>11, CapsAll DEF Sound
<1>15. n \in c.closure.capabilities
  <2>1. \A m \in c.closure.resources : m[3] = "resource"
    BY <1>13 DEF Covered, Sound
  <2>2. \A x \in c.resources : x.id \in c.closure.resources
    BY <1>13 DEF Covered
  <2> QED BY <1>9, <1>10, <1>14, <2>1, <2>2
<1>16. PICK e \in CapsOf(i) : e.id = n
  BY <1>13, <1>15 DEF Covered
<1>17. e = d
  <2>1. e \in Caps(I)
    BY CapsAll
  <2> QED BY <2>1, <1>10, <1>11, <1>16, AgreesOnIds
<1>18. needed(d) \subseteq needed(c)
  <2>1. d.closure.capabilities \subseteq c.closure.capabilities /\ d.closure.resources \subseteq c.closure.resources
    BY <1>13, <1>15, <1>16, <1>17 DEF Covered
  <2>2. Covered(i, d)
    BY <1>13, <1>16, <1>17 DEF Sound
  <2>3. \A x \in d.resources : x.id \in d.closure.resources
    BY <2>2 DEF Covered
  <2> QED BY <2>1, <2>3
<1> HIDE DEF needed
<1> QED BY <1>8, <1>11, <1>18

-----------------------------------------------------------------------------
(* What a build packs.                                                     *)

\* The index of some of the records that were made.
Lists(i, b, s, ids) ==
  /\ DOMAIN i.packages = {Package(id) : id \in ids}
  /\ \A p \in DOMAIN i.packages :
       /\ i.packages[p].capabilities = {b.caps[id] : id \in {n \in ids \cap DOMAIN s.caps : Package(n) = p}}
       /\ i.packages[p].resources = {b.resources[id] : id \in {n \in ids \cap DOMAIN s.resources : Package(n) = p}}
  /\ \A c : c \in CapsOf(i) <=> \E id \in ids \cap DOMAIN s.caps : c = b.caps[id]
  /\ \A y : y \in ResourcesOf(i) <=> \E id \in ids \cap DOMAIN s.resources : y = b.resources[id]
LEMMA IndexHolds ==
  ASSUME NEW b, NEW s, Made(b, s), b.todo = {}, NEW ids \in SUBSET Selected(s), NEW root, NEW legal
  PROVE  Index(b, ids, root, legal).root = root /\ Lists(Index(b, ids, root, legal), b, s, ids)
<1> DEFINE i == Index(b, ids, root, legal)
           of(p, domain) == {id \in ids \cap domain : Package(id) = p}
<1>1. /\ i.root = root /\ DOMAIN i.packages = {Package(id) : id \in ids}
      /\ \A p \in DOMAIN i.packages :
           /\ i.packages[p].capabilities = {b.caps[id] : id \in of(p, DOMAIN b.caps)}
           /\ i.packages[p].resources = {b.resources[id] : id \in of(p, DOMAIN b.resources)}
  BY DEF Index
<1>2. \A p : of(p, DOMAIN b.caps) = of(p, DOMAIN s.caps) /\ of(p, DOMAIN b.resources) = of(p, DOMAIN s.resources)
  BY DEF Made
<1>3. /\ i.root = root /\ DOMAIN i.packages = {Package(id) : id \in ids}
      /\ \A p \in DOMAIN i.packages :
           /\ i.packages[p].capabilities = {b.caps[id] : id \in of(p, DOMAIN s.caps)}
           /\ i.packages[p].resources = {b.resources[id] : id \in of(p, DOMAIN s.resources)}
  BY <1>1, <1>2
<1> HIDE DEF i
<1>4. \A c : c \in CapsOf(i) <=> \E id \in ids \cap DOMAIN s.caps : c = b.caps[id]
  BY <1>3 DEF CapsOf
<1>5. \A y : y \in ResourcesOf(i) <=> \E id \in ids \cap DOMAIN s.resources : y = b.resources[id]
  BY <1>3 DEF ResourcesOf
<1> QED BY <1>3, <1>4, <1>5, Zenon DEF i, Lists

\* It is sound if it has all that its records need.
LEMMA IndexSound ==
  ASSUME NEW k \in DOMAIN Sources, NEW b, Made(b, Sources[k]), b.todo = {}, Buildable(Sources[k]),
         NEW ids \in SUBSET Selected(Sources[k]), \A id \in ids : Closure(Sources[k], id) \subseteq ids,
         NEW root, NEW legal
  PROVE  Sound(Index(b, ids, root, legal))
<1> DEFINE s == Sources[k]
           i == Index(b, ids, root, legal)
<1>1. /\ DOMAIN i.packages = {Package(id) : id \in ids}
      /\ \A c : c \in CapsOf(i) <=> \E id \in ids \cap DOMAIN s.caps : c = b.caps[id]
      /\ \A y : y \in ResourcesOf(i) <=> \E id \in ids \cap DOMAIN s.resources : y = b.resources[id]
  <2>1. Lists(i, b, s, ids)
    BY IndexHolds
  <2> QED BY <2>1, Zenon DEF Lists
<1>2. /\ Selected(s) \subseteq Ids /\ \A r \in DOMAIN s.resources : r[3] = "resource"
      /\ \A c \in DOMAIN s.caps :
           c[3] # "resource" /\ s.caps[c].requires \subseteq DOMAIN s.caps /\ s.caps[c].resources \subseteq DOMAIN s.resources
  BY SourcesAssumption, Zenon DEF Ids
<1>3. /\ \A id \in ids \cap DOMAIN s.caps : CapOf(s, id, b.caps[id])
      /\ \A id \in ids \cap DOMAIN s.resources : ResourceOf(s, id, b.resources[id])
  BY DEF Made
<1>4. \A id \in ids : Closure(s, id) \subseteq ids
  OBVIOUS
<1> HIDE DEF s, i
<1>5. Keyed(i)
  <2>1. DOMAIN i.packages \subseteq Packages
    BY <1>1, <1>2 DEF Packages, s
  <2>2. \A c \in CapsOf(i) : c.id \in Ids
    BY <1>1, <1>2, <1>3 DEF CapOf, s
  <2> QED BY <2>1, <2>2 DEF Keyed
<1>6. \A y \in ResourcesOf(i) : y.id[3] = "resource" /\ y.source = y.tree
  BY <1>1, <1>2, <1>3 DEF ResourceOf
<1>7. ASSUME NEW c \in CapsOf(i)
      PROVE  c.id[3] # "resource" /\ Covered(i, c)
  <2>1. PICK id \in ids \cap DOMAIN s.caps : c = b.caps[id]
    BY <1>1
  <2>2. CapOf(s, id, c)
    BY <1>3, <2>1
  <2>3. /\ c.id = id /\ c.requires = s.caps[id].requires
        /\ c.closure.capabilities = Closure(s, id) \cap DOMAIN s.caps
        /\ c.closure.resources = Closure(s, id) \cap DOMAIN s.resources
        /\ \A x \in c.resources :
             x.id \in s.caps[id].resources /\ x.lineage = s.resources[x.id].lineage /\ x.source = Observed(s, x.id)
    BY <2>2 DEF CapOf
  <2>4. /\ s.caps[id].requires \subseteq Closure(s, id) \cap DOMAIN s.caps
        /\ s.caps[id].resources \subseteq Closure(s, id) \cap DOMAIN s.resources
    BY <1>2, ClosureHolds DEF Needs
  <2>5. /\ c.requires \subseteq c.closure.capabilities
        /\ \A n \in c.closure.capabilities : n \in ids \cap DOMAIN s.caps
        /\ \A n \in c.closure.resources : n \in ids \cap DOMAIN s.resources
        /\ \A x \in c.resources : x.id \in c.closure.resources
    BY <1>4, <2>3, <2>4
  <2>6. \A n \in c.closure.capabilities : \E d \in CapsOf(i) : d.id = n
    BY <1>1, <1>3, <2>5 DEF CapOf
  <2>7. \A n \in c.closure.resources : \E y \in ResourcesOf(i) : y.id = n
    BY <1>1, <1>3, <2>5 DEF ResourceOf
  <2>8. ASSUME NEW d \in CapsOf(i), d.id \in c.closure.capabilities
        PROVE  d.closure.capabilities \subseteq c.closure.capabilities /\ d.closure.resources \subseteq c.closure.resources
    <3>1. PICK n \in ids \cap DOMAIN s.caps : d = b.caps[n]
      BY <1>1
    <3>2. /\ d.id = n
          /\ d.closure.capabilities = Closure(s, n) \cap DOMAIN s.caps
          /\ d.closure.resources = Closure(s, n) \cap DOMAIN s.resources
      BY <1>3, <3>1 DEF CapOf
    <3>3. Closure(s, n) \subseteq Closure(s, id)
      BY <2>3, <2>8, <3>2, ClosureHolds
    <3> QED BY <2>3, <3>2, <3>3
  <2>9. ASSUME NEW x \in c.resources, NEW y \in ResourcesOf(i), y.id = x.id
        PROVE  y.lineage = x.lineage /\ y.source = x.source
    <3>1. PICK n \in ids \cap DOMAIN s.resources : y = b.resources[n]
      BY <1>1
    <3>2. y.id = n /\ y.lineage = s.resources[n].lineage /\ y.source = Observed(s, n)
      BY <1>3, <3>1 DEF ResourceOf
    <3>3. x.lineage = s.resources[x.id].lineage /\ x.source = Observed(s, x.id)
      BY <2>3
    <3> QED BY <2>9, <3>2, <3>3
  <2>10. Covered(i, c)
    BY <2>5, <2>6, <2>7, <2>8, <2>9, Zenon DEF Covered
  <2> QED BY <1>2, <2>3, <2>10
<1> QED BY <1>5, <1>6, <1>7, Zenon DEF Sound, i

\* A package's artifact has what all its members need.
LEMMA MembersClosed ==
  ASSUME NEW s, Buildable(s), \A c \in DOMAIN s.caps : c[3] # "resource", \A r \in DOMAIN s.resources : r[3] = "resource", NEW p
  PROVE  /\ Members(s, p) \subseteq Selected(s)
         /\ \A id \in Members(s, p) : Closure(s, id) \subseteq Members(s, p)
         /\ \A id \in Selected(s) : Package(id) = p => id \in Members(s, p)
<1> DEFINE caps == {i \in Selected(s) \cap DOMAIN s.caps : Package(i) = p}
           resources == {i \in Selected(s) \cap DOMAIN s.resources : Package(i) = p}
<1> DEFINE all == UNION {Closure(s, id) : id \in caps}
<1>0. Members(s, p) = resources \cup all
  BY Zenon DEF Members
<1>1. \A n : n \in Members(s, p) <=> (\E id \in caps : n \in Closure(s, id)) \/ n \in resources
  <2>1. \A n : n \in all <=> \E id \in caps : n \in Closure(s, id)
    OBVIOUS
  <2> HIDE DEF all, resources
  <2> QED BY <1>0, <2>1
<1>2. \A id \in caps : Closure(s, id) \subseteq Selected(s)
  BY ClosureSelected
<1>3. ASSUME NEW id \in resources PROVE Closure(s, id) \subseteq {id}
  <2>1. Needs(s, id) = {}
    BY DEF Needs
  <2>2. \A x \in {id} \cap DOMAIN Nexts(s) : Nexts(s)[x] \subseteq {id}
    BY <2>1 DEF Nexts
  <2>3. Reach({id}, Nexts(s)) \subseteq {id}
    BY <2>2, ReachLeast
  <2> QED BY <2>3, Zenon DEF Closure, Nexts
<1>4. \A id \in Selected(s) : Package(id) = p => id \in caps \/ id \in resources
  BY DEF Buildable
<1>5. Members(s, p) \subseteq Selected(s)
  BY <1>1, <1>2
<1> HIDE DEF caps, resources
<1>6. ASSUME NEW id \in Members(s, p) PROVE Closure(s, id) \subseteq Members(s, p)
  <2>1. ASSUME NEW n \in caps, id \in Closure(s, n) PROVE Closure(s, id) \subseteq Members(s, p)
    <3>1. Closure(s, id) \subseteq Closure(s, n)
      BY <2>1, ClosureHolds
    <3> QED BY <3>1, <1>1
  <2>2. CASE id \in resources
    BY <1>1, <1>3, <2>2
  <2> QED BY <1>1, <2>1, <2>2
<1>7. \A id \in caps : id \in Closure(s, id)
  BY ClosureHolds
<1>8. \A id \in Selected(s) : Package(id) = p => id \in Members(s, p)
  BY <1>1, <1>4, <1>7
<1> QED BY <1>5, <1>6, <1>8

\* What is packed is together: the artifacts of all packages, and the catalog.
LEMMA PackedTogether ==
  ASSUME NEW k \in DOMAIN Sources, NEW b, b.seen = k, Made(b, Sources[k]), b.todo = {}, Buildable(Sources[k]), NEW legal,
         NEW tars, tars = [p \in Artifacts(Sources[k]) |-> Tar(b, p)],
         NEW d, d = [index |-> Index(b, Selected(Sources[k]), None, legal), tars |-> tars,
                     sums |-> [p \in Artifacts(Sources[k]) |-> Digest(tars[p])]]
  PROVE  Together(d)
<1> DEFINE s == Sources[k]
           sums == [p \in Artifacts(Sources[k]) |-> Digest(tars[p])]
           index == Index(b, Selected(Sources[k]), None, legal)
<1>1. /\ Selected(s) \subseteq Ids /\ \A r \in DOMAIN s.resources : r[3] = "resource"
      /\ \A c \in DOMAIN s.caps : c[3] # "resource"
  BY SourcesAssumption, Zenon DEF Ids
<1>2. /\ DOMAIN sums = Artifacts(s) /\ DOMAIN tars = Artifacts(s)
      /\ sums = tars
  BY DEF Digest
<1>3. \A p \in Artifacts(s) : sums[p] = Index(b, Members(s, p), p, Obligations(s, Checkouts.tree, p))
  BY <1>2 DEF Tar
<1>4. d.index = index /\ d.tars = tars /\ d.sums = sums
  OBVIOUS
<1>5. Lists(index, b, s, Selected(s)) /\ Sound(index)
  <2>1. \A id \in Selected(s) : Closure(s, id) \subseteq Selected(s)
    BY ClosureSelected
  <2> QED BY <2>1, IndexHolds, IndexSound
<1>6. ASSUME NEW p \in Artifacts(s)
      PROVE  /\ Members(s, p) \subseteq Selected(s) /\ \A id \in Selected(s) : Package(id) = p => id \in Members(s, p)
             /\ Lists(sums[p], b, s, Members(s, p)) /\ Sound(sums[p]) /\ sums[p].root = p
  <2>1. /\ Members(s, p) \subseteq Selected(s) /\ \A id \in Members(s, p) : Closure(s, id) \subseteq Members(s, p)
        /\ \A id \in Selected(s) : Package(id) = p => id \in Members(s, p)
    BY <1>1, MembersClosed
  <2>2. Lists(sums[p], b, s, Members(s, p)) /\ sums[p].root = p
    BY <1>3, <2>1, IndexHolds
  <2>3. Sound(sums[p])
    BY <1>3, <2>1, IndexSound
  <2> QED BY <2>1, <2>2, <2>3
<1>7. \A id \in Selected(s) \cap DOMAIN s.caps : b.caps[id].id = id
  BY DEF Made, CapOf
<1>8. \A id \in Selected(s) \cap DOMAIN s.resources : b.resources[id].id = id
  BY DEF Made, ResourceOf
<1> HIDE DEF s, sums, index
<1>9. \A p \in Artifacts(s) : p \in DOMAIN sums[p].packages /\ p \in DOMAIN index.packages
  <2> SUFFICES ASSUME NEW p \in Artifacts(s) PROVE p \in DOMAIN sums[p].packages /\ p \in DOMAIN index.packages
    OBVIOUS
  <2>1. PICK id \in Selected(s) : Package(id) = p
    BY DEF Artifacts
  <2> QED BY <1>5, <1>6, <2>1 DEF Lists
<1>10. DOMAIN index.packages = Artifacts(s)
  BY <1>5 DEF Lists, Artifacts
<1>11. ~Disagree({sums[p] : p \in DOMAIN sums})
  <2> DEFINE I == {sums[p] : p \in DOMAIN sums}
  <2>1. \A i \in I : \E p \in Artifacts(s) : i = sums[p]
    BY <1>2
  <2> HIDE DEF I
  <2>2. ASSUME NEW c \in Caps(I) PROVE \E id \in Selected(s) \cap DOMAIN s.caps : c = b.caps[id]
    <3>1. PICK i \in I : c \in CapsOf(i)
      BY CapsAll
    <3>2. PICK p \in Artifacts(s) : i = sums[p]
      BY <2>1
    <3> QED BY <3>1, <3>2, <1>6 DEF Lists
  <2>3. ASSUME NEW y \in Resources(I) PROVE \E id \in Selected(s) \cap DOMAIN s.resources : y = b.resources[id]
    <3>1. PICK i \in I : y \in ResourcesOf(i)
      BY CapsAll
    <3>2. PICK p \in Artifacts(s) : i = sums[p]
      BY <2>1
    <3> QED BY <3>1, <3>2, <1>6 DEF Lists
  <2>4. ~Disagree(I)
    BY <1>7, <1>8, <2>2, <2>3 DEF Disagree
  <2> QED BY <2>4 DEF I
<1>12. ASSUME NEW p \in Artifacts(s)
       PROVE  SameAs(sums[p], index, p)
  <2>1. Tree(sums[p].packages[p]) = Tree(index.packages[p])
    <3>1. /\ {n \in Members(s, p) \cap DOMAIN s.caps : Package(n) = p} = {n \in Selected(s) \cap DOMAIN s.caps : Package(n) = p}
          /\ {n \in Members(s, p) \cap DOMAIN s.resources : Package(n) = p} = {n \in Selected(s) \cap DOMAIN s.resources : Package(n) = p}
      BY <1>6
    <3>2. /\ sums[p].packages[p].capabilities = {b.caps[id] : id \in {n \in Members(s, p) \cap DOMAIN s.caps : Package(n) = p}}
          /\ sums[p].packages[p].resources = {b.resources[id] : id \in {n \in Members(s, p) \cap DOMAIN s.resources : Package(n) = p}}
      BY <1>6, <1>9, Zenon DEF Lists
    <3>3. /\ index.packages[p].capabilities = {b.caps[id] : id \in {n \in Selected(s) \cap DOMAIN s.caps : Package(n) = p}}
          /\ index.packages[p].resources = {b.resources[id] : id \in {n \in Selected(s) \cap DOMAIN s.resources : Package(n) = p}}
      BY <1>5, <1>9, Zenon DEF Lists
    <3>4. /\ sums[p].packages[p].capabilities = index.packages[p].capabilities
          /\ sums[p].packages[p].resources = index.packages[p].resources
      BY <3>1, <3>2, <3>3, Zenon
    <3> QED BY <3>4 DEF Tree
  <2>2. CapabilityIds(sums[p]) \subseteq CapabilityIds(index)
    <3>1. \A c \in CapsOf(sums[p]) : c \in CapsOf(index)
      BY <1>5, <1>6 DEF Lists
    <3> QED BY <3>1, CapabilityIdsAre
  <2> QED BY <2>1, <2>2 DEF SameAs
<1>13. d = [index |-> d.index, tars |-> d.tars, sums |-> d.sums]
  BY <1>4, Zenon DEF index, sums
<1>14. d.tars = [p \in DOMAIN d.sums |-> d.tars[p]]
  BY <1>2, <1>4
<1>15. \A p \in DOMAIN d.sums : d.tars[p] \in {d.sums[p], Damaged}
  BY <1>2, <1>4
<1>16. \A p \in DOMAIN d.sums : Sound(d.sums[p]) /\ d.sums[p].root = p /\ p \in DOMAIN d.sums[p].packages
  BY <1>2, <1>4, <1>6, <1>9
<1>17. Keyed(d.index) /\ DOMAIN d.index.packages = DOMAIN d.sums /\ \A p \in DOMAIN d.sums : SameAs(d.sums[p], d.index, p)
  BY <1>2, <1>4, <1>5, <1>10, <1>12 DEF Sound
<1>18. ~Disagree({d.sums[p] : p \in DOMAIN d.sums})
  BY <1>4, <1>11, Zenon
<1> QED BY <1>13, <1>14, <1>15, <1>16, <1>17, <1>18, Zenon DEF Together

-----------------------------------------------------------------------------
(* The steps of the builder.                                               *)

LEMMA BeginBuildKeeps ==
  ASSUME Builder, BeginBuild
  PROVE  Builder'
<1> DEFINE b == [seen |-> source, at |-> RecordSources(Checkouts), files |-> Empty, caps |-> Empty, resources |-> Empty,
                 staged |-> Empty, todo |-> Selected(Checkouts)]
<1>1. (build' = b /\ Buildable(Checkouts)) \/ build' = None
  BY Zenon DEF BeginBuild, Started
<1>2. DOMAIN Empty = {}
  BY DEF Empty
<1>3. b.seen = source /\ b.caps = Empty /\ b.resources = Empty /\ b.files = Empty /\ b.staged = Empty /\ b.todo = Selected(Checkouts)
  OBVIOUS
<1>4. b = [seen |-> b.seen, at |-> b.at, files |-> b.files, caps |-> b.caps, resources |-> b.resources,
           staged |-> b.staged, todo |-> b.todo]
  OBVIOUS
<1> HIDE DEF b
<1>5. Made(b, Checkouts)
  BY <1>2, <1>3 DEF Made
<1>6. Buildable(Checkouts) => Building(b)
  BY <1>3, <1>4, <1>5 DEF Building, Builder, Checkouts
<1> QED BY <1>1, <1>6 DEF Builder, BeginBuild

\* A record that is made is the inventory's.
LEMMA CapRecordIs ==
  ASSUME NEW s, NEW id, NEW at, NEW read
  PROVE  CapOf(s, id, CapRecord(Material(s, id, at), read))
<1> DEFINE m == Material(s, id, at)
           c == CapRecord(m, read)
<1>1. m.s = s /\ m.id = id
  BY DEF Material
<1> HIDE DEF m
<1>2. /\ {"id", "requires", "closure", "resources"} \subseteq DOMAIN c
      /\ c.id = m.id /\ c.requires = m.s.caps[m.id].requires
      /\ c.closure.capabilities = Closure(m.s, m.id) \cap DOMAIN m.s.caps
      /\ c.closure.resources = Closure(m.s, m.id) \cap DOMAIN m.s.resources
      /\ c.resources = {CopyOf(m, Trees(read), r) : r \in m.s.caps[m.id].resources}
  BY DEF CapRecord
<1>3. \A r : /\ CopyOf(m, Trees(read), r).id = r /\ CopyOf(m, Trees(read), r).lineage = m.s.resources[r].lineage
             /\ CopyOf(m, Trees(read), r).source = Observed(m.s, r)
  BY DEF CopyOf
<1> HIDE DEF c
<1> QED BY <1>1, <1>2, <1>3 DEF CapOf, c, m

LEMMA ResourceRecordIs ==
  ASSUME NEW s, NEW id, NEW tree, NEW base, Unchanged(s, tree, id, base)
  PROVE  ResourceOf(s, id, ResourceRecord(s, id, Taken(s, tree, id, base)))
<1>1. Taken(s, tree, id, base) = Observed(s, id)
  <2>1. Observed(s, id) = [rel \in DOMAIN Observed(s, id) |-> Observed(s, id)[rel]]
    BY DEF Observed, Payload
  <2>2. \A rel \in DOMAIN Observed(s, id) : tree[base \o rel] = Observed(s, id)[rel]
    BY DEF Unchanged
  <2> QED BY <2>1, <2>2 DEF Taken
<1> QED BY <1>1 DEF ResourceOf, ResourceRecord

LEMMA BuiltIs ==
  ASSUME Building(build), NEW id, NEW files, NEW caps, NEW resources
  PROVE  Built(id, files, caps, resources) =
           [seen |-> build.seen, at |-> build.at, files |-> Extend([x \in {id} |-> files], build.files),
            caps |-> Extend(caps, build.caps), resources |-> Extend(resources, build.resources),
            staged |-> build.staged, todo |-> build.todo \ {id}]
<1>1. build = [seen |-> build.seen, at |-> build.at, files |-> build.files, caps |-> build.caps, resources |-> build.resources,
               staged |-> build.staged, todo |-> build.todo]
  BY Zenon DEF Building
<1>2. Built(id, files, caps, resources) =
        [build EXCEPT !.todo = build.todo \ {id}, !.files = Extend([x \in {id} |-> files], build.files),
                      !.caps = Extend(caps, build.caps), !.resources = Extend(resources, build.resources)]
  BY Zenon DEF Built
<1>3. ASSUME NEW t, NEW f, NEW c, NEW r
      PROVE  [build EXCEPT !.todo = t, !.files = f, !.caps = c, !.resources = r] =
                [seen |-> build.seen, at |-> build.at, files |-> f, caps |-> c, resources |-> r,
                 staged |-> build.staged, todo |-> t]
  <2>1. PICK b1, b2, b3, b4, b5, b6, b7 :
          build = [seen |-> b1, at |-> b2, files |-> b3, caps |-> b4, resources |-> b5, staged |-> b6, todo |-> b7]
    BY <1>1, Zenon
  <2> DEFINE e == [build EXCEPT !.todo = t, !.files = f, !.caps = c, !.resources = r]
  <2>2. /\ DOMAIN e = {"seen", "at", "files", "caps", "resources", "staged", "todo"}
        /\ e.seen = b1 /\ e.at = b2 /\ e.files = f /\ e.caps = c /\ e.resources = r /\ e.staged = b6 /\ e.todo = t
    BY <2>1
  <2>3. e = [k \in DOMAIN e |-> e[k]]
    OBVIOUS
  <2>4. build.seen = b1 /\ build.at = b2 /\ build.staged = b6
    BY <2>1
  <2> HIDE DEF e
  <2>5. e = [seen |-> b1, at |-> b2, files |-> f, caps |-> c, resources |-> r, staged |-> b6, todo |-> t]
    BY <2>2, <2>3
  <2> QED BY <2>4, <2>5 DEF e
<1> QED BY <1>2, <1>3, Zenon

\* What BuildItem adds: the record of a resource or of a capability.
Adds(s, id, caps, resources) ==
  \/ id \in DOMAIN s.resources /\ caps = Empty /\ \E y : resources = [x \in {id} |-> y] /\ ResourceOf(s, id, y)
  \/ id \notin DOMAIN s.resources /\ resources = Empty /\ \E c : caps = [x \in {id} |-> c] /\ CapOf(s, id, c)

LEMMA BuiltKeeps ==
  ASSUME Builder, build # None, build.staged = Empty, NEW id \in build.todo, NEW files, NEW caps, NEW resources,
         Adds(Sources[build.seen], id, caps, resources)
  PROVE  Building(Built(id, files, caps, resources))
<1> DEFINE s == Sources[build.seen]
           new == [x \in {id} |-> files]
           b == [seen |-> build.seen, at |-> build.at, files |-> Extend(new, build.files), caps |-> Extend(caps, build.caps),
                 resources |-> Extend(resources, build.resources), staged |-> build.staged, todo |-> build.todo \ {id}]
<1>0. Building(build)
  BY DEF Builder
<1>1. Built(id, files, caps, resources) = b
  BY <1>0, BuiltIs
<1>2. /\ b.seen = build.seen /\ b.files = Extend(new, build.files) /\ b.caps = Extend(caps, build.caps)
      /\ b.resources = Extend(resources, build.resources) /\ b.staged = Empty /\ b.todo = build.todo \ {id}
  OBVIOUS
<1>13. b = [seen |-> b.seen, at |-> b.at, files |-> b.files, caps |-> b.caps, resources |-> b.resources,
            staged |-> b.staged, todo |-> b.todo]
  OBVIOUS
<1>3. \A f, g : /\ DOMAIN Extend(f, g) = DOMAIN f \cup DOMAIN g
                /\ \A x \in DOMAIN f : Extend(f, g)[x] = f[x]
                /\ \A x \in DOMAIN g \ DOMAIN f : Extend(f, g)[x] = g[x]
  BY DEF Extend
<1>4. DOMAIN new = {id}
  OBVIOUS
<1>5. Made(build, s) /\ id \in Selected(s) /\ Buildable(s) /\ build.seen \in DOMAIN Sources /\ build.todo \subseteq Selected(s)
  BY <1>0 DEF Building
<1>6. DOMAIN Empty = {}
  BY DEF Empty
<1>7. id \in DOMAIN s.caps <=> id \notin DOMAIN s.resources
  <2>1. /\ \A r \in DOMAIN s.resources : r[3] = "resource"
        /\ \A c \in DOMAIN s.caps : c[3] # "resource"
    BY <1>5, SourcesAssumption, Zenon
  <2> QED BY <1>5, <2>1 DEF Buildable
<1>8. Adds(s, id, caps, resources)
  OBVIOUS
<1> HIDE DEF s, new, b
<1>9. DOMAIN b.files = DOMAIN build.files \cup {id} /\ DOMAIN b.caps = DOMAIN caps \cup DOMAIN build.caps
      /\ DOMAIN b.resources = DOMAIN resources \cup DOMAIN build.resources
  <2>0. \A f, g : DOMAIN Extend(f, g) = DOMAIN f \cup DOMAIN g
    BY <1>3, Zenon
  <2>1. DOMAIN b.files = DOMAIN new \cup DOMAIN build.files
    <3>1. b.files = Extend(new, build.files)
      BY <1>2, Zenon
    <3> QED BY <2>0, <3>1, Zenon
  <2>2. DOMAIN b.caps = DOMAIN caps \cup DOMAIN build.caps
    <3>1. b.caps = Extend(caps, build.caps)
      BY <1>2, Zenon
    <3> QED BY <2>0, <3>1, Zenon
  <2>3. DOMAIN b.resources = DOMAIN resources \cup DOMAIN build.resources
    <3>1. b.resources = Extend(resources, build.resources)
      BY <1>2, Zenon
    <3> QED BY <2>0, <3>1, Zenon
  <2> QED BY <1>4, <2>1, <2>2, <2>3
<1>10. Made(b, s)
  <2>1. b.todo \cup DOMAIN b.files = Selected(s)
    BY <1>2, <1>5, <1>9 DEF Made
  <2>2. /\ DOMAIN build.caps = (Selected(s) \cap DOMAIN s.caps) \ build.todo
        /\ DOMAIN build.resources = (Selected(s) \cap DOMAIN s.resources) \ build.todo
        /\ \A n \in DOMAIN build.caps : CapOf(s, n, build.caps[n])
        /\ \A n \in DOMAIN build.resources : ResourceOf(s, n, build.resources[n])
    BY <1>5 DEF Made
  <2>3. CASE id \in DOMAIN s.resources
    <3>1. PICK y : resources = [x \in {id} |-> y] /\ ResourceOf(s, id, y)
      BY <1>8, <2>3 DEF Adds
    <3>2. caps = Empty /\ DOMAIN resources = {id} /\ resources[id] = y
      BY <1>8, <2>3, <3>1 DEF Adds
    <3>3. /\ DOMAIN b.caps = (Selected(s) \cap DOMAIN s.caps) \ b.todo
          /\ DOMAIN b.resources = (Selected(s) \cap DOMAIN s.resources) \ b.todo
      BY <1>2, <1>5, <1>6, <1>7, <1>9, <2>2, <2>3, <3>2
    <3>4. \A n \in DOMAIN b.caps : CapOf(s, n, b.caps[n])
      BY <1>2, <1>3, <1>6, <1>9, <2>2, <3>2
    <3>5. \A n \in DOMAIN b.resources : ResourceOf(s, n, b.resources[n])
      BY <1>2, <1>3, <1>9, <2>2, <3>1, <3>2
    <3> QED BY <2>1, <3>3, <3>4, <3>5 DEF Made
  <2>4. CASE id \notin DOMAIN s.resources
    <3>1. PICK c : caps = [x \in {id} |-> c] /\ CapOf(s, id, c)
      BY <1>8, <2>4 DEF Adds
    <3>2. resources = Empty /\ DOMAIN caps = {id} /\ caps[id] = c
      BY <1>8, <2>4, <3>1 DEF Adds
    <3>3. /\ DOMAIN b.caps = (Selected(s) \cap DOMAIN s.caps) \ b.todo
          /\ DOMAIN b.resources = (Selected(s) \cap DOMAIN s.resources) \ b.todo
      BY <1>2, <1>5, <1>6, <1>7, <1>9, <2>2, <2>4, <3>2
    <3>4. \A n \in DOMAIN b.caps : CapOf(s, n, b.caps[n])
      BY <1>2, <1>3, <1>9, <2>2, <3>1, <3>2
    <3>5. \A n \in DOMAIN b.resources : ResourceOf(s, n, b.resources[n])
      BY <1>2, <1>3, <1>6, <1>9, <2>2, <3>2
    <3> QED BY <2>1, <3>3, <3>4, <3>5 DEF Made
  <2> QED BY <2>3, <2>4
<1>11. b.todo \subseteq Selected(s)
  BY <1>2, <1>5
<1>12. Building(b)
  BY <1>2, <1>5, <1>10, <1>11, <1>13 DEF Building, s
<1> QED BY <1>1, <1>12

LEMMA BuildItemKeeps ==
  ASSUME Builder, BuildItem
  PROVE  Builder'
<1>1. build # None /\ build.todo # {} /\ UNCHANGED <<source, dir, packed, edits, builds>>
  BY DEF BuildItem
<1>2. Building(build)
  BY <1>1 DEF Builder
<1>3. PICK s : s = Sources[build.seen]
  OBVIOUS
<1>4. build.seen \in DOMAIN Sources /\ build.todo \subseteq Selected(s) /\ Selected(s) \subseteq Ids
  <2>1. build.seen \in DOMAIN Sources /\ build.todo \subseteq Selected(s)
    BY <1>2, <1>3 DEF Building
  <2>2. Selected(s) \subseteq Ids
    BY <1>3, <2>1, SourcesAssumption, Zenon DEF Ids
  <2> QED BY <2>1, <2>2
<1>5. build.staged = Empty
  BY <1>1, <1>2 DEF Building
<1>6. PICK id : id = NextItem(s)
  OBVIOUS
<1>7. id \in build.todo
  <2>1. Earliest(build.todo \cap DOMAIN s.resources) \in build.todo \/ build.todo \cap DOMAIN s.resources = {}
    BY <1>4, EarliestIn
  <2>2. Earliest(build.todo) \in build.todo
    BY <1>1, <1>4, EarliestIn
  <2> QED BY <1>6, <2>1, <2>2 DEF NextItem
<1> DEFINE base == Base(s.tree, build.at[id])
           payload == Taken(s, Checkouts.tree, id, base)
           seen == Material(s, id, build.at)
           now == Material(Now(s, Checkouts.tree), id, build.at)
<1>8. build' = IF id \in DOMAIN s.resources THEN ResourceBuilt(s, id, base) ELSE Capability(seen, now)
  BY <1>3, <1>6, Zenon DEF BuildItem
<1> HIDE DEF base, seen, now
<1>9. CASE id \in DOMAIN s.resources
  <2>1. CASE build' = None
    BY <1>1, <2>1 DEF Builder
  <2>2. CASE build' # None
    <3>1. Unchanged(s, Checkouts.tree, id, base)
      BY <1>8, <1>9, <2>2, Zenon DEF ResourceBuilt
    <3>2. build' = Built(id, payload, Empty, [x \in {id} |-> ResourceRecord(s, id, payload)])
      BY <1>8, <1>9, <3>1, Zenon DEF ResourceBuilt
    <3>3. ResourceOf(s, id, ResourceRecord(s, id, payload))
      BY <3>1, ResourceRecordIs
    <3>4. Adds(Sources[build.seen], id, Empty, [x \in {id} |-> ResourceRecord(s, id, payload)])
      BY <1>3, <1>9, <3>3, Zenon DEF Adds
    <3>5. Building(Built(id, payload, Empty, [x \in {id} |-> ResourceRecord(s, id, payload)]))
      BY <1>1, <1>5, <1>7, <3>4, BuiltKeeps
    <3>6. PICK b : b = build'
      OBVIOUS
    <3>7. Building(b)
      BY <3>2, <3>5, <3>6, Zenon
    <3>8. Building(build')
      BY <3>6, <3>7
    <3> QED BY <1>1, <3>8 DEF Builder
  <2> QED BY <2>1, <2>2
<1>10. CASE id \notin DOMAIN s.resources
  <2>1. CASE build' = None
    BY <1>1, <2>1 DEF Builder
  <2>2. CASE build' # None
    <3>0. seen.s = s /\ seen.id = id
      BY DEF seen, Material
    <3>1. \E files, c : build' = Built(seen.id, files, [x \in {seen.id} |-> c], Empty) /\ \E read : c = CapRecord(seen, read)
      BY <1>8, <1>10, <2>2, Zenon DEF Capability
    <3>2. PICK files, c : build' = Built(id, files, [x \in {id} |-> c], Empty) /\ \E read : c = CapRecord(seen, read)
      BY <3>0, <3>1, Zenon
    <3>3. CapOf(s, id, c)
      BY <3>2, CapRecordIs, Zenon DEF seen
    <3>4. Adds(Sources[build.seen], id, [x \in {id} |-> c], Empty)
      BY <1>3, <1>10, <3>3, Zenon DEF Adds
    <3>5. Building(Built(id, files, [x \in {id} |-> c], Empty))
      BY <1>1, <1>5, <1>7, <3>4, BuiltKeeps
    <3>6. Building(build')
      BY <3>2, <3>5, Zenon
    <3> QED BY <1>1, <3>6 DEF Builder
  <2> QED BY <2>1, <2>2
<1> QED BY <1>9, <1>10

\* What is added to a record leaves what CapOf says of it.
LEMMA ExtendedIs ==
  ASSUME NEW s, NEW id, NEW c, CapOf(s, id, c), NEW more, DOMAIN more = {"license", "notices"}
  PROVE  CapOf(s, id, Extend(more, c))
<1> DEFINE e == Extend(more, c)
<1>1. DOMAIN e = DOMAIN more \cup DOMAIN c /\ \A x \in DOMAIN c \ DOMAIN more : e[x] = c[x]
  BY DEF Extend
<1> HIDE DEF e
<1>2. {"id", "requires", "closure", "resources"} \subseteq DOMAIN c \ DOMAIN more
  BY DEF CapOf
<1>3. /\ {"id", "requires", "closure", "resources"} \subseteq DOMAIN e
      /\ e.id = c.id /\ e.requires = c.requires /\ e.closure = c.closure /\ e.resources = c.resources
  BY <1>1, <1>2
<1> QED BY <1>3 DEF CapOf, e

LEMMA DescribeKeeps ==
  ASSUME Builder, Describe
  PROVE  Builder'
<1>1. build # None /\ UNCHANGED <<source, dir, packed, edits, builds>>
  BY DEF Describe
<1>2. Building(build)
  BY <1>1 DEF Builder
<1>3. PICK s : s = Sources[build.seen]
  OBVIOUS
<1>4. PICK id \in Undescribed : build' = None \/ build' = [build EXCEPT !.caps[id] = Extend(Remarks(s, Checkouts.tree, id, build.at[id]), @)]
  BY <1>3, Zenon DEF Describe
<1>5. PICK more : more = Remarks(s, Checkouts.tree, id, build.at[id])
  OBVIOUS
<1>6. DOMAIN more = {"license", "notices"}
  BY <1>5 DEF Remarks
<1>7. id \in DOMAIN build.caps
  BY DEF Undescribed
<1>8. CASE build' = None
  BY <1>1, <1>8 DEF Builder
<1>9. CASE build' # None
  <2>1. PICK caps : caps = [build.caps EXCEPT ![id] = Extend(more, build.caps[id])]
    OBVIOUS
  <2>2. PICK b1, b2, b3, b4, b5, b6, b7 :
          build = [seen |-> b1, at |-> b2, files |-> b3, caps |-> b4, resources |-> b5, staged |-> b6, todo |-> b7]
    <3>1. build = [seen |-> build.seen, at |-> build.at, files |-> build.files, caps |-> build.caps,
                   resources |-> build.resources, staged |-> build.staged, todo |-> build.todo]
      BY <1>2, Zenon DEF Building
    <3> QED BY <3>1, Zenon
  <2> DEFINE b == [seen |-> b1, at |-> b2, files |-> b3, caps |-> caps, resources |-> b5, staged |-> b6, todo |-> b7]
  <2>3. build.seen = b1 /\ build.files = b3 /\ build.caps = b4 /\ build.resources = b5 /\ build.staged = b6 /\ build.todo = b7
    BY <2>2
  <2>4. build' = b
    <3>1. build' = [build EXCEPT !.caps = caps]
      BY <1>4, <1>5, <1>9, <2>1
    <3> QED BY <2>2, <3>1
  <2>5. /\ b.seen = b1 /\ b.files = b3 /\ b.caps = caps /\ b.resources = b5 /\ b.staged = b6 /\ b.todo = b7
        /\ b = [seen |-> b.seen, at |-> b.at, files |-> b.files, caps |-> b.caps, resources |-> b.resources,
                staged |-> b.staged, todo |-> b.todo]
    OBVIOUS
  <2> HIDE DEF b
  <2>6. /\ DOMAIN caps = DOMAIN build.caps /\ caps[id] = Extend(more, build.caps[id])
        /\ \A n \in DOMAIN build.caps : n # id => caps[n] = build.caps[n]
    BY <1>7, <2>1
  <2>7. Made(build, s) => Made(b, s)
    <3> SUFFICES ASSUME Made(build, s) PROVE Made(b, s)
      OBVIOUS
    <3>1. CapOf(s, id, caps[id])
      <4>1. CapOf(s, id, build.caps[id])
        BY <1>7 DEF Made
      <4> QED BY <1>6, <2>6, <4>1, ExtendedIs
    <3>2. \A n \in DOMAIN b.caps : CapOf(s, n, b.caps[n])
      <4>1. \A n \in DOMAIN build.caps : CapOf(s, n, build.caps[n])
        BY DEF Made
      <4>2. \A n \in DOMAIN caps : CapOf(s, n, caps[n])
        <5> SUFFICES ASSUME NEW n \in DOMAIN caps PROVE CapOf(s, n, caps[n])
          OBVIOUS
        <5>1. CASE n = id
          BY <3>1, <5>1
        <5>2. CASE n # id
          <6>1. caps[n] = build.caps[n]
            BY <2>6, <5>2
          <6> QED BY <2>6, <4>1, <6>1
        <5> QED BY <5>1, <5>2
      <4> QED BY <2>5, <4>2
    <3> QED BY <2>3, <2>5, <2>6, <3>2 DEF Made
  <2>8. Building(b)
    BY <1>2, <1>3, <2>3, <2>5, <2>7 DEF Building
  <2>9. Building(build')
    BY <2>4, <2>8, Zenon
  <2> QED BY <1>1, <2>9 DEF Builder
<1> QED BY <1>8, <1>9

LEMMA PackKeeps ==
  ASSUME Builder, Pack
  PROVE  Builder'
<1>1. build # None /\ build.todo = {} /\ build.staged = Empty /\ UNCHANGED <<source, dir, edits, builds>>
  BY DEF Pack
<1>2. Building(build)
  BY <1>1 DEF Builder
<1>3. PICK k : k = build.seen
  OBVIOUS
<1> DEFINE s == Sources[k]
           tars == [p \in Artifacts(s) |-> Tar(build, p)]
           legal == Legal(s, Checkouts.tree, Selected(s))
           d == [index |-> Index(build, Selected(s), None, legal), tars |-> tars,
                 sums |-> [p \in Artifacts(s) |-> Digest(tars[p])]]
           full == [build EXCEPT !.files = Empty, !.caps = Empty, !.resources = Empty, !.staged = d]
<1>4. build' = None \/ build' = full
  BY <1>3, ZenonT(60) DEF Pack
<1>5. k \in DOMAIN Sources /\ Buildable(s) /\ Made(build, s) /\ build.seen = k
  BY <1>1, <1>2, <1>3 DEF Building
<1>6. Together(d)
  BY <1>1, <1>5, PackedTogether
<1>7. d # Empty
  <2>1. DOMAIN d = {"index", "tars", "sums"}
    OBVIOUS
  <2>2. DOMAIN Empty = {}
    BY DEF Empty
  <2> HIDE DEF d
  <2> QED BY <2>1, <2>2
<1> HIDE DEF d, s
<1>8. full = [seen |-> build.seen, at |-> build.at, files |-> Empty, caps |-> Empty, resources |-> Empty,
              staged |-> d, todo |-> build.todo]
  <2>1. build = [seen |-> build.seen, at |-> build.at, files |-> build.files, caps |-> build.caps,
                 resources |-> build.resources, staged |-> build.staged, todo |-> build.todo]
    BY <1>2, Zenon DEF Building
  <2>2. PICK b1, b2, b3, b4, b5, b6, b7 :
          build = [seen |-> b1, at |-> b2, files |-> b3, caps |-> b4, resources |-> b5, staged |-> b6, todo |-> b7]
    BY <2>1, Zenon
  <2>3. /\ DOMAIN full = {"seen", "at", "files", "caps", "resources", "staged", "todo"}
        /\ full.seen = b1 /\ full.at = b2 /\ full.files = Empty /\ full.caps = Empty
        /\ full.resources = Empty /\ full.staged = d /\ full.todo = b7
    BY <2>2
  <2>4. full = [x \in DOMAIN full |-> full[x]]
    OBVIOUS
  <2>5. build.seen = b1 /\ build.at = b2 /\ build.todo = b7
    BY <2>2
  <2> HIDE DEF full
  <2>6. full = [seen |-> b1, at |-> b2, files |-> Empty, caps |-> Empty, resources |-> Empty, staged |-> d, todo |-> b7]
    BY <2>3, <2>4
  <2> QED BY <2>5, <2>6
<1> HIDE DEF full
<1>9. /\ full.seen = k /\ full.staged = d /\ full.todo = {}
      /\ full = [seen |-> full.seen, at |-> full.at, files |-> full.files, caps |-> full.caps,
                 resources |-> full.resources, staged |-> full.staged, todo |-> full.todo]
  BY <1>1, <1>3, <1>8
<1>10. Building(full)
  BY <1>5, <1>6, <1>7, <1>9 DEF Building, s
<1>11. build' # None => Building(build')
  BY <1>4, <1>10, Zenon
<1> QED BY <1>1, <1>11 DEF Builder

LEMMA PlaceKeeps ==
  ASSUME Builder, Place
  PROVE  Builder'
<1>1. build # None /\ build.staged # Empty /\ dir' = build.staged /\ build' = None /\ source' = source
  BY DEF Place
<1>2. Together(build.staged)
  BY <1>1 DEF Builder, Building
<1>3. Together(dir')
  BY <1>1, <1>2, Zenon
<1> QED BY <1>1, <1>3 DEF Builder

LEMMA EditKeeps ==
  ASSUME Builder, Edit
  PROVE  Builder'
BY DEF Builder, Edit

-----------------------------------------------------------------------------
(* The steps of a command.                                                 *)

\* How a command may end.
LEMMA EndedElsewise ==
  ASSUME NEW code, Ended(code), code \in Faults => swapped, code \notin {"ok", "closure"}
  PROVE  Outcomes' /\ command' = None
<1>1. outcome'.code = code /\ outcome'.swapped = swapped /\ command' = None
  BY DEF Ended
<1>2. Faultless'
  BY <1>1 DEF Faultless
<1>3. KeptIsWhole'
  BY <1>1 DEF KeptIsWhole
<1>4. SuggestionsSuffice'
  BY <1>1 DEF SuggestionsSuffice
<1> QED BY <1>1, <1>2, <1>3, <1>4 DEF Outcomes

LEMMA OutcomesStay ==
  ASSUME Outcomes, UNCHANGED outcome
  PROVE  Outcomes'
<1>1. Faultless'
  BY DEF Faultless, Outcomes
<1>2. KeptIsWhole'
  BY Zenon DEF KeptIsWhole, Outcomes
<1>3. SuggestionsSuffice'
  BY Zenon DEF SuggestionsSuffice, Outcomes
<1> QED BY <1>1, <1>2, <1>3 DEF Outcomes

\* A command that goes on: what it holds is of the profile, and of the directory.
LEMMA GoesOn ==
  ASSUME NEW c, Running(c), ~swapped => Steady(c), command' = c, UNCHANGED profile,
         c.phase # "catalog" => Together(dir'), ~swapped' => ~swapped /\ dir' = dir
  PROVE  Running(command)' /\ (~swapped' => Steady(command)')
<1>1. \A p : Pinned(c, p)' = Pinned(c, p)
  BY DEF Pinned, ProfilePins, Current, ProfileReadable
<1>2. ProfileReadable' <=> ProfileReadable
  BY DEF ProfileReadable
<1>3. Running(c)'
  BY <1>1, <1>2 DEF Running
<1>4. ~swapped' => Steady(c)'
  BY DEF Steady, Intact
<1>5. Running(command)'
  BY <1>1, <1>2 DEF Running
<1>6. ~swapped' => Steady(command)'
  BY DEF Steady, Intact
<1> QED BY <1>5, <1>6

LEMMA StartKeeps ==
  ASSUME IInv, Start
  PROVE  IInv'
<1>1. PICK r \in Requests :
        command' = [request |-> r, phase |-> "catalog", catalog |-> None, lock |-> Empty, flags |-> Empty,
                    seen |-> IF r.digests = {} THEN Empty ELSE Summed, todo |-> {}, pin |-> None, from |-> None, tars |-> Empty]
  BY DEF Start
<1>2. outcome' = None /\ swapped' = ~Intact /\ UNCHANGED <<builder, profile, lock>>
  BY DEF Start
<1>3. Builder' /\ Profiles'
  BY <1>2 DEF IInv, Builder, builder, Profiles, ProfileReadable
<1>4. Outcomes'
  BY <1>2 DEF Outcomes, Faultless, KeptIsWhole, SuggestionsSuffice
<1>5. PICK c : c = command'
  OBVIOUS
<1>6. /\ DOMAIN c = {"request", "phase", "catalog", "lock", "flags", "seen", "todo", "pin", "from", "tars"}
      /\ c.request \in Requests /\ c.phase = "catalog" /\ c.todo = {} /\ c.tars = Empty
  BY <1>1, <1>5
<1>7. DOMAIN Empty = {}
  BY DEF Empty
<1>8. Running(command)'
  BY <1>5, <1>6, <1>7 DEF Running
<1>9. ~swapped' => Steady(command)'
  BY <1>2, <1>5, <1>6, <1>7 DEF Steady, Intact, builder
<1> QED BY <1>3, <1>4, <1>8, <1>9 DEF IInv

LEMMA ReadCatalogKeeps ==
  ASSUME IInv, ReadCatalog
  PROVE  IInv'
<1>1. command # None /\ command.phase = "catalog" /\ UNCHANGED <<builder, lock, commands, swapped>>
  BY DEF ReadCatalog
<1>2. Running(command) /\ (~swapped => Steady(command))
  BY <1>1 DEF IInv
<1>3. UNCHANGED profile => Builder' /\ Profiles'
  BY <1>1 DEF IInv, Builder, builder, Profiles, ProfileReadable
<1>4. ASSUME NEW code, Fail(code), code \in {"unreadable profile", "no catalog"} \/ (code = "unreadable catalog" /\ swapped)
      PROVE  IInv'
  <2>1. Outcomes' /\ command' = None
    <3>1. code \in Faults => swapped
      BY <1>4 DEF Faults
    <3>2. code \notin {"ok", "closure"} /\ Ended(code)
      BY <1>4 DEF Fail
    <3> QED BY <3>1, <3>2, EndedElsewise
  <2> QED BY <1>3, <1>4, <2>1 DEF IInv, Fail
<1>5. CASE ~ProfileReadable
  <2>1. Fail("unreadable profile")
    BY <1>5 DEF ReadCatalog
  <2> QED BY <1>4, <2>1
<1>6. CASE ProfileReadable /\ dir = None
  <2>1. Fail("no catalog")
    BY <1>6 DEF ReadCatalog
  <2> QED BY <1>4, <2>1
<1>7. CASE ProfileReadable /\ dir # None /\ ~IndexReadable(dir.index)
  <2>1. Fail("unreadable catalog")
    BY <1>7 DEF ReadCatalog
  <2>2. swapped
    BY <1>2, <1>7 DEF Steady, Intact, IndexReadable
  <2> QED BY <1>4, <2>1, <2>2
<1>8. CASE ProfileReadable /\ dir # None /\ IndexReadable(dir.index)
  <2>1. PICK c : c = [command EXCEPT !.phase = "choose", !.catalog = dir.index]
    OBVIOUS
  <2>2. Goes(c)
    BY <1>8, <2>1, Zenon DEF ReadCatalog
  <2>3. DOMAIN command = {"request", "phase", "catalog", "lock", "flags", "seen", "todo", "pin", "from", "tars"}
    BY <1>2, Zenon DEF Running
  <2>4. /\ DOMAIN c = DOMAIN command /\ c.phase = "choose" /\ c.catalog = dir.index
        /\ c.request = command.request /\ c.todo = command.todo /\ c.tars = command.tars
    BY <2>1, <2>3
  <2>5. Together(dir) /\ Keyed(dir.index)
    BY <1>8 DEF IInv, Builder, Together, IndexReadable
  <2>6. command.tars = Empty /\ command.todo = {} /\ DOMAIN Empty = {} /\ command.request \in Requests
    BY <1>1, <1>2 DEF Running, Empty
  <2>7. Running(c)
    BY <1>8, <2>3, <2>4, <2>5, <2>6 DEF Running
  <2>8. ~swapped => Steady(c)
    BY <1>2, <1>8, <2>4, <2>6 DEF Steady
  <2>9. Running(command)' /\ (~swapped' => Steady(command)')
    <3>1. command' = c /\ UNCHANGED <<profile, swapped, dir>>
      BY <1>1, <2>2 DEF Goes, builder
    <3>2. Together(dir')
      BY <2>5, <3>1, Zenon
    <3> QED BY <2>7, <2>8, <3>1, <3>2, GoesOn
  <2>10. Outcomes'
    BY <2>2, OutcomesStay DEF Goes, IInv
  <2> QED BY <1>3, <2>2, <2>9, <2>10 DEF IInv, Goes
<1> QED BY <1>5, <1>6, <1>7, <1>8

\* A refusal that does not blame the artifacts, or blames a directory that is another by now.
LEMMA FailKeeps ==
  ASSUME IInv, NEW code, Fail(code), code \in Faults => swapped, code \notin {"ok", "closure"}, UNCHANGED builder
  PROVE  IInv'
<1>1. Outcomes' /\ command' = None /\ UNCHANGED profile
  BY EndedElsewise DEF Fail
<1>2. Builder' /\ Profiles'
  BY <1>1 DEF IInv, Builder, builder, Profiles, ProfileReadable
<1> QED BY <1>1, <1>2 DEF IInv

LEMMA GoesKeeps ==
  ASSUME IInv, command # None, NEW c, Goes(c), Running(c), ~swapped => Steady(c), UNCHANGED <<builder, swapped>>
  PROVE  IInv'
<1>1. command' = c /\ UNCHANGED <<profile, outcome>>
  BY DEF Goes
<1>2. Builder' /\ Profiles' /\ dir' = dir
  BY <1>1 DEF IInv, Builder, builder, Profiles, ProfileReadable
<1>3. Running(command)' /\ (~swapped' => Steady(command)')
  <2>1. c.phase # "catalog" => Together(dir)
    BY DEF Running
  <2>2. c.phase # "catalog" => Together(dir')
    BY <1>2, <2>1, Zenon
  <2> QED BY <1>1, <1>2, <2>2, GoesOn
<1>4. Outcomes'
  BY <1>1, OutcomesStay DEF IInv
<1> QED BY <1>2, <1>3, <1>4 DEF IInv

\* What is chosen is in the catalog.
LEMMA ChosenIn ==
  ASSUME NEW r, NEW packages
  PROVE  Chosen(r, packages) \subseteq packages
<1>1. \A name : Plugins(name, packages) \subseteq packages
  BY DEF Plugins
<1> QED BY <1>1 DEF Chosen

LEMMA ChooseKeeps ==
  ASSUME IInv, Choose
  PROVE  IInv'
<1> DEFINE r == command.request
           candidates == Candidates(r, command.catalog)
           chosen == Chosen(r, candidates)
<1>1. command # None /\ command.phase = "choose" /\ UNCHANGED <<builder, lock, commands, swapped>>
  BY DEF Choose
<1>2. Running(command) /\ (~swapped => Steady(command))
  BY <1>1 DEF IInv
<1>3. ASSUME NEW code \in {"frozen takes no changes", "stale profile", "unknown or ambiguous", "stale selector",
                          "unreadable lock", "bad digest flag"}, Fail(code)
      PROVE  IInv'
  <2>1. code \notin Faults /\ code \notin {"ok", "closure"}
    BY DEF Faults
  <2> QED BY <1>1, <1>3, <2>1, FailKeeps
<1>4. PICK c : c = [command EXCEPT !.phase = "pin", !.todo = chosen,
                      !.lock = IF lock = None THEN Empty ELSE lock, !.flags = Flags(r, chosen, command.seen)]
  OBVIOUS
<1>5. \/ \E code \in {"frozen takes no changes", "stale profile", "unknown or ambiguous", "stale selector",
                      "unreadable lock", "bad digest flag"} : Fail(code)
      \/ Goes(c) /\ ~Stale(r, command.catalog) /\ SelectorsKnown(r, command.catalog)
  <2>1. \/ Fail("frozen takes no changes") \/ Fail("stale profile") \/ Fail("unknown or ambiguous")
        \/ Fail("stale selector") \/ Fail("unreadable lock") \/ Fail("bad digest flag")
        \/ Goes(c) /\ ~Stale(r, command.catalog) /\ SelectorsKnown(r, command.catalog)
    BY <1>4, Zenon DEF Choose
  <2> QED BY <2>1
<1>6. CASE Goes(c) /\ ~Stale(r, command.catalog) /\ SelectorsKnown(r, command.catalog)
  <2>1. DOMAIN command = {"request", "phase", "catalog", "lock", "flags", "seen", "todo", "pin", "from", "tars"}
    BY <1>2, Zenon DEF Running
  <2> HIDE DEF chosen
  <2>2. /\ DOMAIN c = DOMAIN command /\ c.phase = "pin" /\ c.catalog = command.catalog
        /\ c.request = command.request /\ c.todo = chosen /\ c.tars = command.tars
    BY <1>4, <2>1
  <2>3. /\ command.tars = Empty /\ DOMAIN Empty = {} /\ command.request \in Requests
        /\ ProfileReadable /\ Keyed(command.catalog) /\ Together(dir)
    BY <1>1, <1>2 DEF Running, Empty
  <2>4. chosen \subseteq DOMAIN command.catalog.packages
    <3>1. candidates \subseteq DOMAIN command.catalog.packages
      BY <1>6 DEF Candidates, Stale
    <3>2. chosen \subseteq candidates
      BY ChosenIn DEF chosen
    <3> QED BY <3>1, <3>2
  <2>5. command.request.excludes \subseteq Ids \cup Packages
    <3>1. CapabilityIds(command.catalog) \subseteq Ids
      BY <2>3, CapabilityIdsAre DEF Keyed
    <3>2. command.request.excludes \subseteq DOMAIN command.catalog.packages \cup CapabilityIds(command.catalog)
      BY <1>6 DEF SelectorsKnown
    <3> QED BY <2>3, <3>1, <3>2 DEF Keyed
  <2>6. Running(c)
    BY <2>1, <2>2, <2>3, <2>4, <2>5 DEF Running
  <2>7. ~swapped => Steady(c)
    BY <1>1, <1>2, <2>2, <2>3 DEF Steady
  <2> QED BY <1>1, <1>6, <2>6, <2>7, GoesKeeps
<1> QED BY <1>3, <1>5, <1>6

LEMMA PinKeeps ==
  ASSUME IInv, Pin
  PROVE  IInv'
<1>1. command # None /\ command.phase = "pin" /\ command.todo # {} /\ UNCHANGED <<builder, lock, commands, swapped>>
  BY DEF Pin
<1>2. Running(command) /\ (~swapped => Steady(command))
  BY <1>1 DEF IInv
<1>3. ASSUME NEW code \in {"contradicts the pin", "frozen needs a pin", "no pin"}, Fail(code)
      PROVE  IInv'
  <2>1. code \notin Faults /\ code \notin {"ok", "closure"}
    BY DEF Faults
  <2> QED BY <1>1, <1>3, <2>1, FailKeeps
<1>4. PICK p : p = NextPackage(command.todo)
  OBVIOUS
<1>5. PICK recorded : recorded = Recorded(command, p)
  OBVIOUS
<1>6. \/ Fail("contradicts the pin") \/ Fail("frozen needs a pin") \/ Fail("no pin")
      \/ recorded # {} /\ \E pin \in recorded : Goes([command EXCEPT !.phase = "read", !.pin = pin, !.from = "record"])
      \/ recorded = {} /\ \E pin \in PinOf(command.flags, p) : Goes([command EXCEPT !.phase = "read", !.pin = pin, !.from = "flag"])
      \/ /\ recorded = {} /\ p \in DOMAIN Sidecars
         /\ \E pin \in PinOf(Sidecars, p) : Goes([command EXCEPT !.phase = "read", !.pin = pin, !.from = "sidecar"])
  BY <1>4, <1>5, Zenon DEF Pin
<1>7. Pinned(command, p) # {} => recorded = Pinned(command, p)
  BY <1>5 DEF Recorded, Pinned
<1>8. ASSUME NEW pin, NEW from, Goes([command EXCEPT !.phase = "read", !.pin = pin, !.from = from]),
             Pinned(command, p) # {} => pin \in Pinned(command, p),
             from = "sidecar" => PinOf(Sidecars, p) = {pin} /\ p \in DOMAIN Sidecars
      PROVE  IInv'
  <2>1. PICK c : c = [command EXCEPT !.phase = "read", !.pin = pin, !.from = from]
    OBVIOUS
  <2>2. DOMAIN command = {"request", "phase", "catalog", "lock", "flags", "seen", "todo", "pin", "from", "tars"}
    BY <1>2, Zenon DEF Running
  <2>3. /\ DOMAIN c = DOMAIN command /\ c.phase = "read" /\ c.catalog = command.catalog /\ c.pin = pin /\ c.from = from
        /\ c.request = command.request /\ c.todo = command.todo /\ c.tars = command.tars
    BY <2>1, <2>2
  <2>4. \A q : Pinned(c, q) = Pinned(command, q)
    BY <2>3 DEF Pinned
  <2>5. Running(c)
    <3>1. c.request \in Requests /\ ProfileReadable /\ Keyed(c.catalog) /\ Together(dir)
      BY <1>1, <1>2, <2>3 DEF Running
    <3>2. c.todo \subseteq DOMAIN c.catalog.packages /\ c.request.excludes \subseteq Ids \cup Packages
      BY <1>1, <1>2, <2>3 DEF Running
    <3>3. c.todo # {} /\ (Pinned(c, NextPackage(c.todo)) # {} => c.pin \in Pinned(c, NextPackage(c.todo)))
      BY <1>1, <1>4, <1>8, <2>3, <2>4
    <3>4. c.todo \cap DOMAIN c.tars = {}
      BY <1>2, <2>3 DEF Running
    <3>5. \A q \in DOMAIN c.tars : Sound(c.tars[q]) /\ (Pinned(c, q) # {} => c.tars[q] \in Pinned(c, q))
      BY <1>2, <2>3, <2>4 DEF Running
    <3> QED BY <2>2, <2>3, <3>1, <3>2, <3>3, <3>4, <3>5 DEF Running
  <2>6. ASSUME ~swapped PROVE Steady(c)
    <3>1. Intact /\ dir # None /\ c.catalog = dir.index
      BY <1>1, <1>2, <2>3, <2>6 DEF Steady
    <3>2. \A q \in DOMAIN c.tars : q \in DOMAIN dir.sums /\ c.tars[q] = dir.sums[q]
      BY <1>2, <2>3, <2>6 DEF Steady
    <3>3. from = "sidecar" => pin = dir.sums[p]
      BY <1>8, <3>1 DEF PinOf, Sidecars
    <3> QED BY <1>4, <2>3, <3>1, <3>2, <3>3 DEF Steady
  <2> QED BY <1>1, <1>8, <2>1, <2>5, <2>6, GoesKeeps
<1>9. CASE recorded # {} /\ \E pin \in recorded : Goes([command EXCEPT !.phase = "read", !.pin = pin, !.from = "record"])
  <2>1. PICK pin \in recorded : Goes([command EXCEPT !.phase = "read", !.pin = pin, !.from = "record"])
    BY <1>9, Zenon
  <2> QED BY <1>7, <1>8, <2>1
<1>10. CASE recorded = {} /\ \E pin \in PinOf(command.flags, p) : Goes([command EXCEPT !.phase = "read", !.pin = pin, !.from = "flag"])
  <2>1. PICK pin \in PinOf(command.flags, p) : Goes([command EXCEPT !.phase = "read", !.pin = pin, !.from = "flag"])
    BY <1>10, Zenon
  <2> QED BY <1>7, <1>8, <1>10, <2>1
<1>11. CASE /\ recorded = {} /\ p \in DOMAIN Sidecars
            /\ \E pin \in PinOf(Sidecars, p) : Goes([command EXCEPT !.phase = "read", !.pin = pin, !.from = "sidecar"])
  <2>1. PICK pin \in PinOf(Sidecars, p) : Goes([command EXCEPT !.phase = "read", !.pin = pin, !.from = "sidecar"])
    BY <1>11, Zenon
  <2>2. PinOf(Sidecars, p) = {pin}
    BY <1>11, <2>1 DEF PinOf
  <2> QED BY <1>7, <1>8, <1>11, <2>1, <2>2
<1> QED BY <1>3, <1>6, <1>9, <1>10, <1>11

\* What is in the directory, while it is as it was put in place.
LEMMA IntactTars ==
  ASSUME Intact, dir # None, Together(dir)
  PROVE  /\ dir.index # Damaged /\ DOMAIN dir.tars = DOMAIN dir.sums /\ DOMAIN dir.index.packages = DOMAIN dir.sums
         /\ \A p \in DOMAIN dir.sums : dir.tars[p] = dir.sums[p] /\ dir.tars[p] # Damaged
<1>1. Damaged \notin {dir.index} \cup {dir.tars[p] : p \in DOMAIN dir.tars}
  BY DEF Intact
<1>2. dir.tars = [p \in DOMAIN dir.sums |-> dir.tars[p]] /\ \A p \in DOMAIN dir.sums : dir.tars[p] \in {dir.sums[p], Damaged}
  BY Zenon DEF Together
<1>3. DOMAIN dir.tars = DOMAIN dir.sums
  BY <1>2
<1>4. dir.index # Damaged
  BY <1>1
<1>5. DOMAIN dir.index.packages = DOMAIN dir.sums
  BY <1>4, Zenon DEF Together
<1>6. \A p \in DOMAIN dir.sums : dir.tars[p] = dir.sums[p] /\ dir.tars[p] # Damaged
  BY <1>1, <1>2, <1>3
<1> QED BY <1>3, <1>4, <1>5, <1>6

LEMMA ReadKeeps ==
  ASSUME IInv, Read
  PROVE  IInv'
<1>1. command # None /\ command.phase = "read" /\ UNCHANGED <<builder, lock, commands, swapped>>
  BY DEF Read
<1>2. Running(command) /\ (~swapped => Steady(command))
  BY <1>1 DEF IInv
<1>3. PICK p : p = NextPackage(command.todo)
  OBVIOUS
<1>4. /\ command.request \in Requests /\ ProfileReadable /\ Keyed(command.catalog) /\ Together(dir)
      /\ command.todo \subseteq DOMAIN command.catalog.packages /\ command.request.excludes \subseteq Ids \cup Packages
      /\ command.todo # {} /\ (Pinned(command, p) # {} => command.pin \in Pinned(command, p))
      /\ command.todo \cap DOMAIN command.tars = {}
      /\ \A q \in DOMAIN command.tars : Sound(command.tars[q]) /\ (Pinned(command, q) # {} => command.tars[q] \in Pinned(command, q))
      /\ DOMAIN command = {"request", "phase", "catalog", "lock", "flags", "seen", "todo", "pin", "from", "tars"}
  BY <1>1, <1>2, <1>3 DEF Running
<1>5. p \in command.todo
  BY <1>3, <1>4, NextPackageIn DEF Keyed
<1>6. ASSUME ~swapped
      PROVE  /\ p \in DOMAIN dir.sums /\ DOMAIN dir.tars = DOMAIN dir.sums
             /\ dir.tars[p] = dir.sums[p] /\ dir.tars[p] # Damaged /\ dir.tars[p].root = p
             /\ command.from = "sidecar" => command.pin = dir.sums[p]
  <2>1. Intact /\ dir # None /\ command.catalog = dir.index /\ (command.from = "sidecar" => command.pin = dir.sums[p])
    BY <1>1, <1>2, <1>3, <1>6 DEF Steady
  <2>2. \A q \in DOMAIN dir.sums : dir.sums[q].root = q
    BY <1>4 DEF Together
  <2> QED BY <1>4, <1>5, <2>1, <2>2, IntactTars
<1>7. CASE p \notin DOMAIN dir.tars
  <2>1. Fail("no artifact")
    BY <1>1, <1>3, <1>7, Zenon DEF Read
  <2>2. swapped
    BY <1>6, <1>7
  <2> QED BY <1>1, <2>1, <2>2, FailKeeps
<1>8. CASE p \in DOMAIN dir.tars /\ Digest(dir.tars[p]) # command.pin
  <2>1. Fail(IF command.from = "sidecar" THEN "sidecar mismatch" ELSE "digest mismatch")
    BY <1>1, <1>3, <1>8, Zenon DEF Read
  <2>2. CASE command.from = "sidecar"
    <3>1. swapped
      BY <1>6, <1>8, <2>2 DEF Digest
    <3>2. Fail("sidecar mismatch")
      BY <2>1, <2>2, Zenon
    <3> QED BY <1>1, <3>1, <3>2, FailKeeps
  <2>3. CASE command.from # "sidecar"
    <3>1. Fail("digest mismatch")
      BY <2>1, <2>3, Zenon
    <3>2. "digest mismatch" \notin Faults
      BY DEF Faults
    <3> QED BY <1>1, <3>1, <3>2, FailKeeps
  <2> QED BY <2>2, <2>3
<1>9. CASE p \in DOMAIN dir.tars /\ Digest(dir.tars[p]) = command.pin /\ ~Embedded(dir.tars[p], p)
  <2>1. Fail("unreadable artifact")
    BY <1>1, <1>3, <1>9, Zenon DEF Read
  <2>2. swapped
    BY <1>6, <1>9 DEF Embedded
  <2> QED BY <1>1, <2>1, <2>2, FailKeeps
<1>10. CASE p \in DOMAIN dir.tars /\ Digest(dir.tars[p]) = command.pin /\ Embedded(dir.tars[p], p)
  <2>1. PICK more : more = [q \in {p} |-> dir.tars[q]]
    OBVIOUS
  <2>2. PICK tars : tars = Extend(more, command.tars)
    OBVIOUS
  <2>3. PICK c : c = [command EXCEPT !.phase = "pin", !.todo = command.todo \ {p}, !.tars = tars]
    OBVIOUS
  <2>4. Goes(c)
    BY <1>1, <1>3, <1>10, <2>1, <2>2, <2>3, Zenon DEF Read
  <2>5. /\ DOMAIN c = DOMAIN command /\ c.phase = "pin" /\ c.catalog = command.catalog
        /\ c.request = command.request /\ c.todo = command.todo \ {p} /\ c.tars = tars
    BY <2>3, <1>4
  <2>6. DOMAIN tars = DOMAIN command.tars \cup {p} /\ tars[p] = dir.tars[p]
        /\ \A q \in DOMAIN command.tars : q # p => tars[q] = command.tars[q]
    BY <2>1, <2>2 DEF Extend
  <2>7. \A q : Pinned(c, q) = Pinned(command, q)
    BY <2>5 DEF Pinned
  <2>8. Sound(dir.tars[p])
    <3>1. dir.tars = [q \in DOMAIN dir.sums |-> dir.tars[q]] /\ \A q \in DOMAIN dir.sums : dir.tars[q] \in {dir.sums[q], Damaged}
      BY <1>4, Zenon DEF Together
    <3>2. DOMAIN dir.tars = DOMAIN dir.sums
      BY <3>1
    <3>3. dir.tars[p] # Damaged
      BY <1>10 DEF Embedded
    <3>4. dir.tars[p] = dir.sums[p] /\ p \in DOMAIN dir.sums
      BY <1>10, <3>1, <3>2, <3>3
    <3> QED BY <1>4, <3>4 DEF Together
  <2>9. \A q \in DOMAIN c.tars : Sound(c.tars[q]) /\ (Pinned(c, q) # {} => c.tars[q] \in Pinned(c, q))
    BY <1>4, <1>10, <2>5, <2>6, <2>7, <2>8 DEF Digest
  <2>10. c.todo \cap DOMAIN c.tars = {}
    BY <1>4, <2>5, <2>6
  <2>11. Running(c)
    BY <1>4, <2>5, <2>9, <2>10 DEF Running
  <2>12. ASSUME ~swapped PROVE Steady(c)
    <3>1. Intact /\ dir # None /\ command.catalog = dir.index
          /\ \A q \in DOMAIN command.tars : q \in DOMAIN dir.sums /\ command.tars[q] = dir.sums[q]
      BY <1>1, <1>2, <2>12 DEF Steady
    <3>2. \A q \in DOMAIN c.tars : q \in DOMAIN dir.sums /\ c.tars[q] = dir.sums[q]
      BY <1>6, <2>5, <2>6, <2>12, <3>1
    <3> QED BY <2>5, <3>1, <3>2 DEF Steady
  <2> QED BY <1>1, <2>4, <2>11, <2>12, GoesKeeps
<1> QED BY <1>7, <1>8, <1>9, <1>10

\* What is read while the directory stays is what was put in place.
LEMMA ReadTogether ==
  ASSUME Running(command), Steady(command), command.phase = "pin"
  PROVE  RootsAgree(command) /\ ~Disagree(Indexes(command))
         /\ \A i \in Indexes(command) : CapabilityIds(i) \subseteq CapabilityIds(command.catalog)
<1>1. Together(dir) /\ Intact /\ dir # None /\ command.catalog = dir.index
      /\ \A p \in DOMAIN command.tars : p \in DOMAIN dir.sums /\ command.tars[p] = dir.sums[p]
  BY DEF Running, Steady
<1>2. dir.index # Damaged
  BY <1>1, IntactTars
<1>3. /\ \A p \in DOMAIN dir.sums : p \in DOMAIN dir.sums[p].packages /\ SameAs(dir.sums[p], dir.index, p)
      /\ ~Disagree({dir.sums[p] : p \in DOMAIN dir.sums})
  BY <1>1, <1>2 DEF Together
<1>4. RootsAgree(command)
  BY <1>1, <1>3 DEF RootsAgree, SameAs
<1>5. ~Disagree(Indexes(command))
  <2> DEFINE all == {dir.sums[p] : p \in DOMAIN dir.sums}
             read == Indexes(command)
  <2>1. read \subseteq all
    BY <1>1 DEF Indexes
  <2>2. ~Disagree(all)
    BY <1>3
  <2> HIDE DEF all, read
  <2>3. (\A c \in Caps(read) : c \in Caps(all)) /\ (\A y \in Resources(read) : y \in Resources(all))
    BY <2>1, CapsAll
  <2>4. ~Disagree(read)
    BY <2>2, <2>3 DEF Disagree
  <2> QED BY <2>4 DEF read
<1>6. \A i \in Indexes(command) : CapabilityIds(i) \subseteq CapabilityIds(command.catalog)
  BY <1>1, <1>3 DEF Indexes, SameAs
<1> QED BY <1>4, <1>5, <1>6

\* How a command ends, when it has read all its artifacts.
LEMMA FinishEnds ==
  ASSUME Finish
  PROVE  LET r == command.request
             indexes == Indexes(command) IN
         \/ ~RootsAgree(command) /\ Fail("catalog disagrees")
         \/ Disagree(indexes) /\ Fail("artifacts disagree")
         \/ Absent(indexes) # {} /\ Fail("names absent IDs")
         \/ Fail("cannot write")
         \/ ~Disagree(indexes) /\ Fail("closure")
         \/ /\ ~Disagree(indexes) /\ Violations(indexes, Excludes(r), Denies(r)) = {}
            /\ Ended("ok") /\ (UNCHANGED profile \/ profile' = Following(command))
BY Zenon DEF Finish, Fail

LEMMA FinishKeeps ==
  ASSUME IInv, Finish
  PROVE  IInv'
<1> DEFINE r == command.request
           indexes == Indexes(command)
           ex == Excludes(r)
           de == Denies(r)
<1>1. command # None /\ command.phase = "pin" /\ command.todo = {} /\ UNCHANGED <<builder, lock, commands, swapped>>
  BY DEF Finish
<1>2. Running(command) /\ (~swapped => Steady(command))
  BY <1>1 DEF IInv
<1>3. \A i \in indexes : Sound(i)
  BY <1>2 DEF Running, Indexes
<1>4. ~swapped => RootsAgree(command) /\ ~Disagree(indexes)
  BY <1>1, <1>2, ReadTogether
<1>5. Absent(indexes) = {}
  BY <1>3, NothingAbsent
<1>6. Builder'
  BY <1>1 DEF IInv, Builder, builder
<1> HIDE DEF indexes, ex, de
<1>7. CASE ~RootsAgree(command) /\ Fail("catalog disagrees")
  BY <1>1, <1>4, <1>7, FailKeeps
<1>8. CASE Disagree(indexes) /\ Fail("artifacts disagree")
  BY <1>1, <1>4, <1>8, FailKeeps
<1>9. CASE Fail("cannot write")
  <2>1. "cannot write" \notin Faults
    BY DEF Faults
  <2> QED BY <1>1, <1>9, <2>1, FailKeeps
<1>10. CASE ~Disagree(indexes) /\ Fail("closure")
  <2>1. PICK o : o = outcome'
    OBVIOUS
  <2>2. /\ o.code = "closure" /\ o.tars = command.tars /\ o.excludes = ex /\ o.denies = de /\ o.swapped = swapped
        /\ o.known = CapabilityIds(command.catalog) /\ command' = None /\ UNCHANGED profile
    BY <1>1, <1>10, <2>1 DEF Fail, Ended, ex, de
  <2>3. Indexes(o) = indexes
    BY <2>2 DEF Indexes, indexes
  <2>4. Violations(indexes, ex \cup Suggestions(indexes, ex, de), de) = {}
    BY <1>3, <1>10, SuggestedSuffice
  <2>5. ASSUME ~swapped PROVE Suggestions(indexes, ex, de) \subseteq CapabilityIds(command.catalog)
    <3>1. \A i \in indexes : CapabilityIds(i) \subseteq CapabilityIds(command.catalog)
      BY <1>1, <1>2, <2>5, ReadTogether DEF indexes
    <3>2. ASSUME NEW n \in Suggestions(indexes, ex, de) PROVE \E c \in Caps(indexes) : c.id = n
      <4>1. PICK c \in Violations(indexes, ex, de) : c.id = n
        BY DEF Suggestions
      <4>2. c \in Caps(indexes)
        BY DEF Violations, KeptCaps
      <4> QED BY <4>1, <4>2
    <3>3. \A c \in Caps(indexes) : \E i \in indexes : c.id \in CapabilityIds(i)
      BY CapsAll, CapabilityIdsAre
    <3> QED BY <3>1, <3>2, <3>3
  <2>6. LET more == Suggestions(Indexes(o), o.excludes, o.denies) IN
          /\ Violations(Indexes(o), o.excludes \cup more, o.denies) = {}
          /\ ~o.swapped => more \subseteq o.known
    BY <2>2, <2>3, <2>4, <2>5, Zenon
  <2>7. SuggestionsSuffice'
    BY <2>1, <2>6, Zenon DEF SuggestionsSuffice
  <2>8. KeptIsWhole'
    BY <2>1, <2>2 DEF KeptIsWhole
  <2>9. Faultless'
    BY <2>1, <2>2 DEF Faultless, Faults
  <2>10. Profiles'
    BY <2>2 DEF IInv, Profiles, ProfileReadable
  <2> QED BY <1>6, <2>2, <2>7, <2>8, <2>9, <2>10 DEF IInv, Outcomes
<1>11. CASE /\ ~Disagree(indexes) /\ Violations(indexes, ex, de) = {}
            /\ Ended("ok") /\ (UNCHANGED profile \/ profile' = Following(command))
  <2>1. PICK o : o = outcome'
    OBVIOUS
  <2>2. /\ o.code = "ok" /\ o.tars = command.tars /\ o.excludes = ex /\ o.denies = de /\ command' = None
    BY <1>1, <1>11, <2>1 DEF Ended, ex, de
  <2>3. Indexes(o) = indexes
    BY <2>2 DEF Indexes, indexes
  <2>4. LET kept == KeptCaps(indexes, ex, de)
            copies == UNION {c.resources : c \in Caps(indexes)} IN
         /\ \A c \in kept :
              /\ c.requires \subseteq {k.id : k \in kept}
              /\ {c.id, Package(c.id)} \cap ex = {}
              /\ \A lineage \in {c.lineage} \cup {x.lineage : x \in c.resources} :
                   \A hop \in UNION {ToSet(chain) : chain \in ToSet(lineage)} :
                     ~\E rule \in de : OriginMatches(hop.coordinate[1], rule)
         /\ \A a, b \in copies : a.id = b.id => a.source = b.source /\ a.lineage = b.lineage
         /\ \A a \in copies, b \in Resources(indexes) : a.id = b.id => a.source = b.tree
    BY <1>3, <1>11, KeptWhole, Zenon
  <2>5. KeptIsWhole'
    BY <2>1, <2>2, <2>3, <2>4, Zenon DEF KeptIsWhole
  <2>6. SuggestionsSuffice'
    BY <2>1, <2>2 DEF SuggestionsSuffice
  <2>7. Faultless'
    BY <2>1, <2>2 DEF Faultless, Faults
  <2>8. Profiles'
    <3>1. CASE UNCHANGED profile
      BY <3>1 DEF IInv, Profiles, ProfileReadable
    <3>2. CASE profile' = Following(command)
      <4>1. profile'.exclude = Current.exclude \cup command.request.excludes
        BY <3>2 DEF Following, Excludes
      <4>2. command.request.excludes \subseteq Ids \cup Packages
        BY <1>1, <1>2 DEF Running
      <4>3. Current.exclude \subseteq Ids \cup Packages
        BY DEF Current, NoProfile, IInv, Profiles
      <4> QED BY <4>1, <4>2, <4>3 DEF Profiles
    <3> QED BY <1>11, <3>1, <3>2
  <2> QED BY <1>6, <2>2, <2>5, <2>6, <2>7, <2>8 DEF IInv, Outcomes
<1>12. \/ ~RootsAgree(command) /\ Fail("catalog disagrees")
       \/ Disagree(indexes) /\ Fail("artifacts disagree")
       \/ Absent(indexes) # {} /\ Fail("names absent IDs")
       \/ Fail("cannot write")
       \/ ~Disagree(indexes) /\ Fail("closure")
       \/ /\ ~Disagree(indexes) /\ Violations(indexes, ex, de) = {}
          /\ Ended("ok") /\ (UNCHANGED profile \/ profile' = Following(command))
  BY FinishEnds, Zenon DEF indexes, ex, de
<1> QED BY <1>5, <1>7, <1>8, <1>9, <1>10, <1>11, <1>12

-----------------------------------------------------------------------------
(* The steps of the publisher, and of who edits files by hand.             *)

LEMMA BesideKeeps ==
  ASSUME IInv, Builder', UNCHANGED <<profile, outcome, command>>, command # None => Together(dir') \/ dir' = dir,
         ~swapped' => ~swapped /\ (command = None \/ dir' = dir)
  PROVE  IInv'
<1>1. Profiles'
  BY DEF IInv, Profiles, ProfileReadable
<1>2. Outcomes'
  BY OutcomesStay DEF IInv
<1>3. ASSUME command # None
      PROVE  Running(command)' /\ (~swapped' => Steady(command)')
  <2>1. Running(command) /\ (~swapped => Steady(command))
    BY <1>3 DEF IInv
  <2>2. command.phase # "catalog" => Together(dir')
    <3>1. CASE Together(dir')
      BY <3>1
    <3>2. CASE dir' = dir
      <4>1. command.phase # "catalog" => Together(dir)
        BY <2>1 DEF Running
      <4> QED BY <3>2, <4>1, Zenon
    <3> QED BY <1>3, <3>1, <3>2
  <2>3. PICK c : c = command
    OBVIOUS
  <2>4. Running(c) /\ (~swapped => Steady(c))
    BY <2>1, <2>3, Zenon
  <2> QED BY <1>3, <2>2, <2>3, <2>4, GoesOn
<1> QED BY <1>1, <1>2, <1>3 DEF IInv

LEMMA PrepareKeeps ==
  ASSUME IInv, Prepare
  PROVE  IInv'
<1>1. Builder'
  BY BeginBuildKeeps, BuildItemKeeps, DescribeKeeps, PackKeeps, EditKeeps DEF Prepare, IInv
<1>2. UNCHANGED <<dir, profile, outcome, command, swapped>>
  BY DEF Prepare, consumer, BeginBuild, BuildItem, Describe, Pack, Edit
<1> QED BY <1>1, <1>2, BesideKeeps

LEMMA PublishKeeps ==
  ASSUME IInv, Publish
  PROVE  IInv'
<1>1. Builder'
  BY PlaceKeeps DEF Publish, IInv
<1>2. Together(dir')
  <2>1. build # None /\ build.staged # Empty /\ dir' = build.staged
    BY DEF Publish, Place
  <2>2. Together(build.staged)
    BY <2>1 DEF IInv, Builder, Building
  <2> QED BY <2>1, <2>2, Zenon
<1>3. UNCHANGED <<profile, outcome, command>> /\ (~swapped' => ~swapped /\ (command = None \/ dir' = dir))
  BY DEF Publish
<1> QED BY <1>1, <1>2, <1>3, BesideKeeps

LEMMA LockKeeps ==
  ASSUME IInv, Lock
  PROVE  IInv'
<1>1. UNCHANGED <<source, build, dir, profile, outcome, command, swapped>>
  BY DEF Lock, builder
<1>2. Builder'
  BY <1>1 DEF IInv, Builder
<1> QED BY <1>1, <1>2, BesideKeeps

\* A damaged directory is still one of artifacts that were put in place together.
LEMMA DamageKeeps ==
  ASSUME IInv, Damage
  PROVE  IInv'
<1>1. command = None /\ UNCHANGED <<source, build, command, outcome, swapped>>
  BY DEF Damage
<1>2. Outcomes'
  BY <1>1, OutcomesStay DEF IInv
<1>3. (UNCHANGED profile \/ profile' = Damaged) /\ (UNCHANGED dir \/ (dir # None
         /\ dir' \in {[dir EXCEPT !.index = Damaged]} \cup {[dir EXCEPT !.tars[p] = Damaged] : p \in DOMAIN dir.tars}))
  BY DEF Damage
<1>4. Profiles'
  BY <1>3 DEF IInv, Profiles, ProfileReadable
<1>5. ASSUME dir # None, dir' # dir
      PROVE  Together(dir')
  <2>1. Together(dir)
    BY <1>5 DEF IInv, Builder
  <2>2. PICK i, t, s : dir = [index |-> i, tars |-> t, sums |-> s]
    BY <2>1, Zenon DEF Together
  <2>3. dir.index = i /\ dir.tars = t /\ dir.sums = s
    BY <2>2
  <2>4. /\ t = [p \in DOMAIN s |-> t[p]] /\ \A p \in DOMAIN s : t[p] \in {s[p], Damaged}
        /\ \A p \in DOMAIN s : Sound(s[p]) /\ s[p].root = p /\ p \in DOMAIN s[p].packages
        /\ ~Disagree({s[p] : p \in DOMAIN s})
        /\ i # Damaged => /\ Keyed(i) /\ DOMAIN i.packages = DOMAIN s
                          /\ \A p \in DOMAIN s : SameAs(s[p], i, p)
    BY <2>1, <2>3, Zenon DEF Together
  <2>5. ASSUME NEW j, NEW u, j \in {i, Damaged}, u = [p \in DOMAIN s |-> u[p]], \A p \in DOMAIN s : u[p] \in {s[p], Damaged},
               NEW d, d = [index |-> j, tars |-> u, sums |-> s]
        PROVE  Together(d)
    <3>1. d.index = j /\ d.tars = u /\ d.sums = s
      BY <2>5
    <3>2. d = [index |-> d.index, tars |-> d.tars, sums |-> d.sums]
      BY <2>5, <3>1, Zenon
    <3>3. j # Damaged => /\ Keyed(j) /\ DOMAIN j.packages = DOMAIN s
                         /\ \A p \in DOMAIN s : SameAs(s[p], j, p)
      BY <2>4, <2>5
    <3> QED BY <2>4, <2>5, <3>1, <3>2, <3>3, Zenon DEF Together
  <2>6. CASE dir' = [dir EXCEPT !.index = Damaged]
    <3>1. PICK d : d = dir'
      OBVIOUS
    <3>2. d = [index |-> Damaged, tars |-> t, sums |-> s]
      BY <2>2, <2>6, <3>1
    <3>3. Together(d)
      BY <2>4, <2>5, <3>2
    <3> QED BY <3>1, <3>3, Zenon
  <2>7. ASSUME NEW p \in DOMAIN dir.tars, dir' = [dir EXCEPT !.tars[p] = Damaged]
        PROVE  Together(dir')
    <3>1. PICK d : d = dir'
      OBVIOUS
    <3>2. PICK u : u = [t EXCEPT ![p] = Damaged]
      OBVIOUS
    <3>3. d = [index |-> i, tars |-> u, sums |-> s]
      BY <2>2, <2>7, <3>1, <3>2
    <3>4. DOMAIN u = DOMAIN s /\ (\A q \in DOMAIN s : u[q] \in {s[q], Damaged}) /\ u = [q \in DOMAIN s |-> u[q]]
      BY <2>4, <3>2
    <3>5. Together(d)
      BY <2>5, <3>3, <3>4
    <3> QED BY <3>1, <3>5, Zenon
  <2> QED BY <1>3, <1>5, <2>6, <2>7
<1>6. Builder'
  <2>1. dir' # None => Together(dir')
    <3>1. CASE dir' = dir
      BY <3>1, Zenon DEF IInv, Builder
    <3> QED BY <1>3, <1>5, <3>1
  <2>2. build' # None => Building(build')
    BY <1>1, Zenon DEF IInv, Builder
  <2> QED BY <1>1, <2>1, <2>2 DEF IInv, Builder
<1> QED BY <1>1, <1>2, <1>4, <1>6 DEF IInv

-----------------------------------------------------------------------------
(* The theorems.                                                           *)

LEMMA InitIInv ==
  ASSUME Init
  PROVE  IInv
<1>1. Builder
  BY DEF Init, BuilderInit, Builder
<1>2. Profiles
  BY DEF Init, Profiles
<1>3. Outcomes
  BY DEF Init, Outcomes, Faultless, KeptIsWhole, SuggestionsSuffice
<1> QED BY <1>1, <1>2, <1>3 DEF Init, IInv

LEMMA NextIInv ==
  ASSUME IInv, [Next]_vars
  PROVE  IInv'
<1>1. CASE Consumer
  BY <1>1, StartKeeps, ReadCatalogKeeps, ChooseKeeps, PinKeeps, ReadKeeps, FinishKeeps DEF Consumer
<1>2. CASE UNCHANGED vars
  <2>1. UNCHANGED <<source, build, dir, profile, outcome, command, swapped>>
    BY <1>2 DEF vars, builder, consumer
  <2>2. Builder'
    BY <2>1 DEF IInv, Builder
  <2> QED BY <2>1, <2>2, BesideKeeps
<1> QED BY <1>1, <1>2, PrepareKeeps, PublishKeeps, LockKeeps, DamageKeeps DEF Next

LEMMA TypesHold ==
  ASSUME IInv
  PROVE  TypeOK
<1>1. build # None /\ build.staged = Empty => build.todo \cup DOMAIN build.files = Selected(Sources[build.seen])
  BY DEF IInv, Builder, Building, Made
<1>2. ASSUME dir # None
      PROVE  DOMAIN dir.tars = DOMAIN dir.sums /\ (IndexReadable(dir.index) => DOMAIN dir.tars = DOMAIN dir.index.packages)
  <2>1. Together(dir)
    BY <1>2 DEF IInv, Builder
  <2>2. dir.tars = [p \in DOMAIN dir.sums |-> dir.tars[p]]
    BY <2>1, Zenon DEF Together
  <2>3. DOMAIN dir.tars = DOMAIN dir.sums
    BY <2>2
  <2> QED BY <2>1, <2>3 DEF Together, IndexReadable
<1>3. command # None =>
        /\ command.phase \in {"catalog", "choose", "pin", "read"}
        /\ command.phase = "read" => command.todo # {}
        /\ command.todo \cap DOMAIN command.tars = {}
  BY DEF IInv, Running
<1>4. profile # Empty /\ ProfileReadable => profile.exclude \subseteq ToSet(Order) \cup {Package(id) : id \in ToSet(Order)}
  BY DEF IInv, Profiles, Ids, Packages
<1> QED BY <1>1, <1>2, <1>3, <1>4 DEF TypeOK

\* IInv holds in every state (install/, artifact.py).
THEOREM Invariant == Spec => []IInv
<1>1. Init => IInv
  BY InitIInv
<1>2. IInv /\ [Next]_vars => IInv'
  BY NextIInv
<1> QED BY <1>1, <1>2, PTL DEF Spec

\* A consumer finds fault with the artifacts that the builder publishes only if the directory
\* was damaged, or published anew while it read (write_artifacts; plan).
THEOREM BuildsAreAcceptedHolds == Spec => []BuildsAreAccepted
<1>1. IInv => BuildsAreAccepted
  BY TypesHold DEF IInv, Outcomes, Faultless, Faults, BuildsAreAccepted
<1> QED BY <1>1, Invariant, PTL

\* What is installed is whole: closed under what it needs, free of what is denied, and of one
\* version (filter_inventory; merge_indexes).
THEOREM KeptIsWholeHolds == Spec => []KeptIsWhole
<1>1. IInv => KeptIsWhole
  BY DEF IInv, Outcomes
<1> QED BY <1>1, Invariant, PTL

\* The excludes that a refusal suggests are enough, and known (ClosureError).
THEOREM SuggestionsSufficeHolds == Spec => []SuggestionsSuffice
<1>1. IInv => SuggestionsSuffice
  BY DEF IInv, Outcomes
<1> QED BY <1>1, Invariant, PTL

\* Only an update moves a pin, and a profile forgets nothing (plan; dump_profile).
THEOREM PinsMoveByUpdateHolds == Spec => PinsMoveByUpdate
<1> DEFINE Kept ==
      /\ ProfileReadable /\ profile' # Empty
      /\ profile.exclude \subseteq profile'.exclude /\ profile.deny \subseteq profile'.deny
      /\ \A p \in DOMAIN profile.artifacts :
           /\ p \in DOMAIN profile'.artifacts
           /\ profile'.artifacts[p] # profile.artifacts[p] => command.request.command = "update"
<1>1. ASSUME IInv, [Next]_vars, command # None, profile # Empty, profile' # profile
      PROVE  Kept
  <2>1. Finish /\ profile' = Following(command)
    <3>1. Finish
      BY <1>1 DEF Next, vars, consumer, Consumer, Prepare, Publish, Lock, Damage, Start, ReadCatalog, Choose, Pin, Read, Fail, Goes
    <3> QED BY <1>1, <3>1, FinishEnds, Zenon DEF Fail
  <2>2. Running(command) /\ command.phase = "pin"
    BY <1>1, <2>1 DEF IInv, Finish
  <2>3. ProfileReadable /\ command.request \in Requests
    BY <2>2 DEF Running
  <2>4. Current = profile
    BY <1>1, <2>3 DEF Current
  <2>5. PICK new : new = profile'
    OBVIOUS
  <2>6. PICK tars : tars = [p \in DOMAIN command.tars |-> Digest(command.tars[p])]
    OBVIOUS
  <2>7. new = [artifacts |-> Extend(tars, profile.artifacts), exclude |-> Excludes(command.request), deny |-> Denies(command.request)]
    BY <2>1, <2>4, <2>5, <2>6, Zenon DEF Following
  <2>8. /\ DOMAIN new = {"artifacts", "exclude", "deny"} /\ new.artifacts = Extend(tars, profile.artifacts)
        /\ new.exclude = Excludes(command.request) /\ new.deny = Denies(command.request)
    BY <2>7
  <2>9. new # Empty
    BY <2>8 DEF Empty
  <2>10. profile.exclude \subseteq new.exclude /\ profile.deny \subseteq new.deny
    BY <2>4, <2>8 DEF Excludes, Denies
  <2>11. ASSUME NEW p \in DOMAIN profile.artifacts
         PROVE  p \in DOMAIN new.artifacts /\ (new.artifacts[p] # profile.artifacts[p] => command.request.command = "update")
    <3>1. p \in DOMAIN new.artifacts
      BY <2>8 DEF Extend
    <3>2. ASSUME new.artifacts[p] # profile.artifacts[p], command.request.command # "update" PROVE FALSE
      <4>1. p \in DOMAIN command.tars /\ new.artifacts[p] = command.tars[p]
        BY <2>6, <2>8, <3>2 DEF Extend, Digest
      <4>2. command.request.command = "install"
        BY <2>3, <3>2, RequestsAssumption
      <4>3. Pinned(command, p) = {profile.artifacts[p]}
        BY <2>4, <4>2 DEF Pinned, ProfilePins, PinOf
      <4>4. command.tars[p] \in Pinned(command, p)
        BY <2>2, <4>1, <4>3 DEF Running
      <4> QED BY <3>2, <4>1, <4>3, <4>4
    <3> QED BY <3>1, <3>2
  <2> QED BY <2>3, <2>5, <2>9, <2>10, <2>11
<1>2. IInv /\ [Next]_vars => [command # None /\ profile # Empty => Kept]_profile
  BY <1>1
<1> QED BY <1>2, Invariant, PTL DEF Spec, PinsMoveByUpdate
=============================================================================
