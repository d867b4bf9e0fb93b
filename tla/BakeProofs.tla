----------------------------- MODULE BakeProofs -----------------------------
(***************************************************************************)
(* Proofs about Bake: that --check accepts only the bytes that a bake of the *)
(* registry publishes, that what it accepts has one namespace, that a bake   *)
(* publishes what it read, which --check then accepts.                       *)
(*                                                                         *)
(* IInv is inductive: a bake holds one registry from its start (Reading);   *)
(* the tree at hand is that of the vendor whose turn it is (Fetching); what *)
(* is staged is what the vendors that are done gave (Staging); and what is  *)
(* published from upstream alone has the record of a registry that bakes,   *)
(* or none, until BAKE.json is rewritten (OnDisk).  The rest is about       *)
(* operators: two registries with one record take the same content from     *)
(* upstream, though links are pruned by what the record does not hold       *)
(* (Alike); and the content of a slice is what --check asks of it           *)
(* (SliceNames, SliceMatches).                                              *)
(*                                                                         *)
(* Of the constants the proofs need RegistryAssumption, ArchiveAssumption,  *)
(* LocalTreeAssumption and MaxRedirectsAssumption: shapes, and that GitHub  *)
(* serves an archive for every pin that is baked.                           *)
(***************************************************************************)
EXTENDS Bake, SequenceTheorems, WellFoundedInduction, TLAPS

-----------------------------------------------------------------------------
(* A registry that differs in what BAKE.json does not record takes the same  *)
(* content from a tree.  Which links are pruned depends on a vendor's        *)
(* skillRoots; what a slice takes does not, if no link was left.             *)

\* Pruning leaves the files, and everything at the places that content may come from.
LEMMA PruneKeeps ==
  ASSUME NEW t, NEW v
  PROVE  /\ DOMAIN Prune(t, v) \subseteq DOMAIN t
         /\ \A p \in DOMAIN Prune(t, v) : Prune(t, v)[p] = t[p]
         /\ Files(Prune(t, v)) = Files(t)
         /\ \A p \in DOMAIN t, pat \in Protected(v) : WithinRoot(p, pat, FALSE) => p \in DOMAIN Prune(t, v)
<1>1. \A p \in DOMAIN t : p \in DOMAIN Prune(t, v) <=> ~(p \in Links(t) /\ ~ContentBearing(p, v))
  BY DEF Prune, Drop
<1>2. /\ DOMAIN Prune(t, v) \subseteq DOMAIN t
      /\ \A p \in DOMAIN Prune(t, v) : Prune(t, v)[p] = t[p]
  BY DEF Prune, Drop
<1>3. Files(Prune(t, v)) = Files(t)
  BY <1>1, <1>2 DEF Files, Links
<1>4. ASSUME NEW p \in DOMAIN t, NEW pat \in Protected(v), WithinRoot(p, pat, FALSE)
      PROVE  p \in DOMAIN Prune(t, v)
  BY <1>1, <1>4 DEF ContentBearing
<1> QED BY <1>2, <1>3, <1>4

\* Two trees that a slice cannot tell apart.
Alike(s, t, pl) ==
  /\ DOMAIN s \subseteq Path \ {<< >>} /\ DOMAIN t \subseteq Path \ {<< >>}
  /\ Files(s) = Files(t) /\ \A p \in Files(t) : s[p] = t[p]
  /\ \A pat \in {pl.skillsRoot} \cup Range(pl.extraSkills) : \A p \in Path :
       WithinRoot(p, pat, FALSE) => /\ p \in DOMAIN s <=> p \in DOMAIN t
                                    /\ p \in DOMAIN t => s[p] = t[p]

LEMMA PrunedAlike ==
  ASSUME NEW t, DOMAIN t \subseteq Path \ {<< >>}, NEW v, NEW w, v.plugins = w.plugins, NEW pl \in Range(v.plugins)
  PROVE  Alike(Prune(t, v), Prune(t, w), pl)
<1>1. {pl.skillsRoot} \cup Range(pl.extraSkills) \subseteq Protected(v) \cap Protected(w)
  BY DEF Protected
<1> DEFINE a == Prune(t, v)
           b == Prune(t, w)
<1>2. /\ DOMAIN a \subseteq DOMAIN t /\ Files(a) = Files(t) /\ \A p \in DOMAIN a : a[p] = t[p]
      /\ DOMAIN b \subseteq DOMAIN t /\ Files(b) = Files(t) /\ \A p \in DOMAIN b : b[p] = t[p]
  BY PruneKeeps, Zenon
<1>3. \A p \in Files(b) : a[p] = b[p]
  BY <1>2 DEF Files
<1>4. ASSUME NEW pat \in {pl.skillsRoot} \cup Range(pl.extraSkills), NEW p \in Path, WithinRoot(p, pat, FALSE)
      PROVE  (p \in DOMAIN a <=> p \in DOMAIN b) /\ (p \in DOMAIN b => a[p] = b[p])
  <2>1. pat \in Protected(v) /\ pat \in Protected(w)
    BY <1>1
  <2>2. p \in DOMAIN t => p \in DOMAIN a /\ p \in DOMAIN b
    BY <2>1, <1>4, PruneKeeps, Zenon
  <2> QED BY <1>2, <2>2
<1> HIDE DEF a, b
<1> QED BY <1>2, <1>3, <1>4 DEF Alike, a, b

\* What is below a directory of a pattern is within the pattern.
LEMMA BelowWithin ==
  ASSUME NEW pat \in Path, NEW d \in Path, NEW p \in Path, WithinRoot(d, pat, FALSE), IsStrictPrefix(d, p)
  PROVE  WithinRoot(p, pat, FALSE)
BY DEF Path, WithinRoot, Fits, IsStrictPrefix, IsPrefix

LEMMA BelowItself ==
  ASSUME NEW d \in Path, NEW p \in Path, IsStrictPrefix(d, p)
  PROVE  WithinRoot(p, d, FALSE)
BY DEF Path, WithinRoot, Fits, FitsPart, IsStrictPrefix, IsPrefix

\* The directories of a tree are paths.
LEMMA DirsArePaths ==
  ASSUME NEW t, DOMAIN t \subseteq Path \ {<< >>}
  PROVE  Dirs(t) \subseteq Path /\ Skills(t) \subseteq Path /\ Files(t) \subseteq Path
BY DEF Path, Dirs, Skills, Files, Front

\* A directory with a SKILL.md has that file.
LEMMA SkillHasFile ==
  ASSUME NEW t, DOMAIN t \subseteq Path \ {<< >>}, NEW d \in Skills(t)
  PROVE  d \in Path /\ Append(d, "SKILL.md") \in Files(t)
<1>1. PICK p \in Files(t) : Last(p) = "SKILL.md" /\ d = Front(p)
  BY DEF Skills
<1>2. p \in Path \ {<< >>}
  BY DEF Files
<1>3. d \in Path /\ Append(d, "SKILL.md") = p
  BY <1>1, <1>2 DEF Front, Last, Path
<1> QED BY <1>1, <1>3

LEMMA AlikeRoots ==
  ASSUME NEW s, NEW t, NEW pl, PluginShape(pl), Alike(s, t, pl)
  PROVE  ExpandRoots(s, pl.skillsRoot) \subseteq ExpandRoots(t, pl.skillsRoot)
<1> SUFFICES ASSUME NEW d \in ExpandRoots(s, pl.skillsRoot)
             PROVE  d \in Dirs(t)
  BY DEF ExpandRoots
<1>1. PICK p \in DOMAIN s : \E i \in 1..(Len(p) - 1) : d = SubSeq(p, 1, i)
  BY DEF ExpandRoots, Dirs
<1>2. p \in Path /\ d \in Path /\ pl.skillsRoot \in Path
  BY <1>1 DEF Alike, PluginShape, Path
<1>3. IsStrictPrefix(d, p)
  BY <1>1, <1>2 DEF Path, IsStrictPrefix, IsPrefix
<1>4. WithinRoot(d, pl.skillsRoot, FALSE)
  BY DEF ExpandRoots
<1>5. WithinRoot(p, pl.skillsRoot, FALSE)
  BY <1>2, <1>3, <1>4, BelowWithin
<1>6. p \in DOMAIN t
  BY <1>2, <1>5 DEF Alike
<1> QED BY <1>1, <1>6 DEF Dirs

\* A slice selects and takes the same directories of both.
LEMMA AlikeSelected ==
  ASSUME NEW s, NEW t, NEW pl, PluginShape(pl), Alike(s, t, pl)
  PROVE  /\ ExpandRoots(s, pl.skillsRoot) = ExpandRoots(t, pl.skillsRoot)
         /\ Skills(s) = Skills(t)
         /\ Selected(s, pl) = Selected(t, pl)
<1>1. Alike(t, s, pl)
  BY DEF Alike
<1>2. ExpandRoots(s, pl.skillsRoot) = ExpandRoots(t, pl.skillsRoot)
  BY <1>1, AlikeRoots
<1>3. Skills(s) = Skills(t)
  BY DEF Alike, Skills
<1>4. \A root : Discover(s, root) = Discover(t, root)
  BY <1>3 DEF Discover
<1>5. Selected(s, pl) = Selected(t, pl)
  BY <1>2, <1>4, Zenon DEF Selected
<1> QED BY <1>2, <1>3, <1>5

\* Selected directories are paths within the slice's root.
LEMMA SelectedWithin ==
  ASSUME NEW t, DOMAIN t \subseteq Path \ {<< >>}, NEW pl, PluginShape(pl), NEW d \in Selected(t, pl)
  PROVE  /\ d \in Path /\ WithinRoot(d, pl.skillsRoot, FALSE)
         /\ pl.skills = All => d \in Skills(t)
<1>1. PICK root \in ExpandRoots(t, pl.skillsRoot) :
        d \in IF pl.skills = All THEN Discover(t, root) ELSE {root \o x : x \in Range(pl.skills)}
  BY DEF Selected
<1>2. root \in Path /\ pl.skillsRoot \in Path /\ WithinRoot(root, pl.skillsRoot, FALSE)
  BY DirsArePaths DEF ExpandRoots, PluginShape
<1>3. CASE pl.skills = All
  <2>1. d \in Skills(t) /\ IsStrictPrefix(root, d)
    BY <1>1, <1>3 DEF Discover
  <2>2. d \in Path
    BY <2>1, DirsArePaths
  <2> QED BY <1>2, <2>1, <2>2, BelowWithin
<1>4. CASE pl.skills # All
  <2>1. PICK x \in Range(pl.skills) : d = root \o x
    BY <1>1, <1>4
  <2>2. x \in Path
    BY <2>1 DEF PluginShape, Range
  <2>3. d \in Path /\ (IsStrictPrefix(root, d) \/ d = root)
    BY <1>2, <2>1, <2>2 DEF Path, IsStrictPrefix, IsPrefix
  <2> QED BY <1>2, <1>4, <2>3, BelowWithin
<1> QED BY <1>3, <1>4

LEMMA AlikeTaken ==
  ASSUME NEW s, NEW t, NEW pl, PluginShape(pl), Alike(s, t, pl)
  PROVE  Calls(s, pl) = Calls(t, pl) /\ Taken(s, pl) = Taken(t, pl)
<1>1. Selected(s, pl) = Selected(t, pl) /\ DOMAIN t \subseteq Path \ {<< >>}
  BY AlikeSelected DEF Alike
<1>2. ASSUME NEW d \in Selected(t, pl), pl.skills = All
      PROVE  Malformed(s, d) <=> Malformed(t, d)
  <2>1. d \in Skills(t)
    BY <1>1, <1>2, SelectedWithin
  <2>2. s[Append(d, "SKILL.md")] = t[Append(d, "SKILL.md")]
    BY <1>1, <2>1, SkillHasFile DEF Alike
  <2> QED BY <2>2 DEF Malformed, Markdown
<1>3. Skip(s, pl) = Skip(t, pl)
  BY <1>1, <1>2 DEF Skip
<1>4. Calls(s, pl) = Calls(t, pl)
  BY <1>1, <1>3 DEF Calls
<1> QED BY <1>4 DEF Taken

\* What a slice takes is at one of its places.
LEMMA TakenWithin ==
  ASSUME NEW t, DOMAIN t \subseteq Path \ {<< >>}, NEW pl, PluginShape(pl), NEW d \in Taken(t, pl)
  PROVE  /\ d \in Path
         /\ \/ d \in Selected(t, pl) /\ WithinRoot(d, pl.skillsRoot, FALSE)
            \/ d \in Range(pl.extraSkills)
<1>1. d \in Selected(t, pl) \/ d \in Range(pl.extraSkills)
  BY DEF Taken, Calls
<1>2. d \in Range(pl.extraSkills) => d \in Path
  BY DEF PluginShape, Range
<1> QED BY <1>1, <1>2, SelectedWithin

\* Below what a slice takes the trees are the same.
LEMMA AlikeBelow ==
  ASSUME NEW s, NEW t, NEW pl, PluginShape(pl), Alike(s, t, pl), NEW d \in Taken(t, pl)
  PROVE  Below(s, d) = Below(t, d) /\ \A p \in Below(t, d) : s[p] = t[p]
<1>1. DOMAIN t \subseteq Path \ {<< >>} /\ DOMAIN s \subseteq Path \ {<< >>} /\ d \in Path
  BY TakenWithin DEF Alike
<1>2. ASSUME NEW p \in Path, IsStrictPrefix(d, p)
      PROVE  \E pat \in {pl.skillsRoot} \cup Range(pl.extraSkills) : WithinRoot(p, pat, FALSE)
  <2>1. CASE WithinRoot(d, pl.skillsRoot, FALSE)
    BY <1>1, <1>2, <2>1, BelowWithin DEF PluginShape
  <2>2. CASE d \in Range(pl.extraSkills)
    BY <1>1, <1>2, <2>2, BelowItself
  <2> QED BY <1>1, <2>1, <2>2, TakenWithin
<1>3. \A p \in Path : IsStrictPrefix(d, p) =>
        (p \in DOMAIN s <=> p \in DOMAIN t) /\ (p \in DOMAIN t => s[p] = t[p])
  BY <1>2 DEF Alike
<1> QED BY <1>1, <1>3 DEF Below

\* Two names before a path.
LEMMA Prefixed ==
  ASSUME NEW T, NEW a \in T, NEW b \in T, NEW r \in Seq(T), NEW q, q = <<a, b>> \o r
  PROVE  /\ q \in Seq(T) /\ Len(q) = 2 + Len(r) /\ q[1] = a /\ q[2] = b
         /\ \A i \in 1..Len(r) : q[2 + i] = r[i]
         /\ SubSeq(q, 3, Len(q)) = r
<1> DEFINE h == <<a, b>>
<1>1. h \in Seq(T) /\ Len(h) = 2 /\ h[1] = a /\ h[2] = b
  OBVIOUS
<1>2. q = h \o r
  OBVIOUS
<1> HIDE DEF h
<1>3. Len(r) \in Nat /\ Len(q) = 2 + Len(r) /\ q \in Seq(T)
  BY <1>1, <1>2, ConcatProperties
<1>4. \A i \in 1..(2 + Len(r)) : q[i] = IF i <= 2 THEN h[i] ELSE r[i - 2]
  BY <1>1, <1>2, ConcatProperties
<1>5. q[1] = a /\ q[2] = b
  BY <1>1, <1>3, <1>4
<1>6. \A i \in 1..Len(r) : q[2 + i] = r[i]
  BY <1>3, <1>4
<1>7. SubSeq(q, 3, Len(q)) = r
  <2>1. CASE Len(r) = 0
    BY <1>3, <2>1
  <2>2. CASE Len(r) > 0
    <3> DEFINE z == SubSeq(q, 3, Len(q))
    <3>1. /\ z \in Seq(T) /\ Len(z) = Len(r)
          /\ \A i \in 1..Len(r) : z[i] = q[2 + i]
      BY <1>3, <2>2, SubSeqProperties
    <3> HIDE DEF z
    <3>2. z = r
      BY <1>6, <3>1, SeqEqual
    <3> QED BY <3>2 DEF z
  <2> QED BY <1>3, <2>1, <2>2
<1> QED BY <1>3, <1>5, <1>6, <1>7

LEMMA OneAfterTwo ==
  ASSUME NEW T, NEW h \in Seq(T), NEW r \in Seq(T), Len(h) = 2, Len(r) = 1
  PROVE  /\ h \o r \in Seq(T) /\ Len(h \o r) = 3
         /\ (h \o r)[1] = h[1] /\ (h \o r)[2] = h[2] /\ (h \o r)[3] = r[1]
<1>1. /\ h \o r \in Seq(T) /\ Len(h \o r) = Len(h) + Len(r)
      /\ \A i \in 1 .. Len(h) + Len(r) : (h \o r)[i] = IF i <= Len(h) THEN h[i] ELSE r[i - Len(h)]
  BY ConcatProperties, Zenon
<1> QED BY <1>1

LEMMA Tripled ==
  ASSUME NEW a, NEW b, NEW c
  PROVE  <<a, b>> \o <<c>> = <<a, b, c>>
<1> DEFINE T == {a, b, c}
           h == <<a, b>>
           r == <<c>>
           md == <<a, b, c>>
           q == h \o r
<1>1. /\ h \in Seq(T) /\ Len(h) = 2 /\ h[1] = a /\ h[2] = b
      /\ r \in Seq(T) /\ Len(r) = 1 /\ r[1] = c
  OBVIOUS
<1>2. md \in Seq(T) /\ Len(md) = 3 /\ md[1] = a /\ md[2] = b /\ md[3] = c
  OBVIOUS
<1> HIDE DEF T, h, r, md
<1>3. q \in Seq(T) /\ Len(q) = 3 /\ q[1] = h[1] /\ q[2] = h[2] /\ q[3] = r[1]
  BY <1>1, OneAfterTwo
<1> HIDE DEF q
<1>4. q[1] = a /\ q[2] = b /\ q[3] = c
  BY <1>1, <1>3
<1>5. \A k \in 1..Len(q) : q[k] = md[k]
  BY <1>2, <1>3, <1>4
<1>6. q = md
  BY <1>2, <1>3, <1>5, SeqEqual
<1> QED BY <1>6 DEF q, h, r, md

\* A path in two, and joined again.
LEMMA Rejoined ==
  ASSUME NEW T, NEW d \in Seq(T), NEW p \in Seq(T), IsStrictPrefix(d, p)
  PROVE  /\ Len(d) \in Nat /\ Len(p) \in Nat /\ Len(d) < Len(p)
         /\ SubSeq(p, Len(d) + 1, Len(p)) \in Seq(T)
         /\ Len(SubSeq(p, Len(d) + 1, Len(p))) = Len(p) - Len(d)
         /\ \A i \in 1..(Len(p) - Len(d)) : SubSeq(p, Len(d) + 1, Len(p))[i] = p[Len(d) + i]
         /\ d \o SubSeq(p, Len(d) + 1, Len(p)) = p
<1> DEFINE r == SubSeq(p, Len(d) + 1, Len(p))
           z == d \o r
<1>1. /\ Len(d) \in Nat /\ Len(p) \in Nat /\ Len(d) < Len(p)
      /\ \A i \in 1..Len(d) : d[i] = p[i]
  BY DEF IsStrictPrefix, IsPrefix
<1>2. /\ r \in Seq(T) /\ Len(r) = Len(p) - Len(d)
      /\ \A i \in 1..(Len(p) - Len(d)) : r[i] = p[Len(d) + i]
  BY <1>1, SubSeqProperties
<1> HIDE DEF r
<1>3. /\ z \in Seq(T) /\ Len(z) = Len(p)
      /\ \A i \in 1..Len(p) : z[i] = IF i <= Len(d) THEN d[i] ELSE r[i - Len(d)]
  BY <1>1, <1>2, ConcatProperties
<1> HIDE DEF z
<1>4. \A i \in 1..Len(p) : z[i] = p[i]
  BY <1>1, <1>2, <1>3
<1>5. z = p
  BY <1>3, <1>4, SeqEqual
<1> QED BY <1>1, <1>2, <1>5 DEF r, z

\* A path below a skill's directory and where its copy goes.
LEMMA IntoPath ==
  ASSUME NEW d \in Path, NEW out, NEW p \in Path, IsStrictPrefix(d, p)
  PROVE  /\ Len(Into(d, out, p)) = 2 + Len(p) - Len(d) /\ Len(p) > Len(d)
         /\ Into(d, out, p)[1] = "skills" /\ Into(d, out, p)[2] = out
         /\ \A i \in 1..(Len(p) - Len(d)) : Into(d, out, p)[2 + i] = p[Len(d) + i]
         /\ d \o SubSeq(Into(d, out, p), 3, Len(Into(d, out, p))) = p
<1> DEFINE S == STRING \cup {"skills", out}
           r == SubSeq(p, Len(d) + 1, Len(p))
           q == Into(d, out, p)
<1>1. d \in Seq(STRING) /\ p \in Seq(STRING)
  BY DEF Path
<1>2. /\ Len(d) \in Nat /\ Len(p) \in Nat /\ Len(d) < Len(p)
      /\ r \in Seq(STRING) /\ Len(r) = Len(p) - Len(d)
      /\ \A i \in 1..(Len(p) - Len(d)) : r[i] = p[Len(d) + i]
      /\ d \o r = p
  BY <1>1, Rejoined, Zenon
<1>3. "skills" \in S /\ out \in S /\ q = <<"skills", out>> \o r
  <2>1. q = <<"skills", out>> \o r
    BY Zenon DEF Into
  <2> HIDE DEF q, r
  <2>2. "skills" \in S /\ out \in S
    OBVIOUS
  <2> QED BY <2>1, <2>2
<1>4. r \in Seq(S)
  <2>1. STRING \subseteq S
    OBVIOUS
  <2> HIDE DEF r, S
  <2> QED BY <1>2, <2>1, SeqMonotonic
<1> HIDE DEF q, r, S
<1>5. /\ Len(q) = 2 + Len(r) /\ q[1] = "skills" /\ q[2] = out
      /\ \A i \in 1..Len(r) : q[2 + i] = r[i]
      /\ SubSeq(q, 3, Len(q)) = r
  BY <1>3, <1>4, Prefixed
<1>6. /\ Len(q) = 2 + Len(p) - Len(d) /\ Len(p) > Len(d)
      /\ \A i \in 1..(Len(p) - Len(d)) : q[2 + i] = p[Len(d) + i]
      /\ d \o SubSeq(q, 3, Len(q)) = p
  BY <1>2, <1>5
<1> QED BY <1>5, <1>6 DEF q

\* The copy of a skill is the same from both.
LEMMA AlikeSkillTree ==
  ASSUME NEW s, NEW t, NEW pl, PluginShape(pl), Alike(s, t, pl), NEW d \in Taken(t, pl), d \in Skills(t), NEW out
  PROVE  SkillTree(s, d, out) = SkillTree(t, d, out)
<1>1. DOMAIN t \subseteq Path \ {<< >>} /\ DOMAIN s \subseteq Path \ {<< >>} /\ d \in Path
  BY TakenWithin DEF Alike
<1>2. Copied(s, d) = Copied(t, d)
  BY AlikeBelow DEF Copied
<1>3. Markdown(s, d) = Markdown(t, d)
  BY <1>1, SkillHasFile DEF Alike, Markdown
<1>4. ASSUME NEW q \in {Into(d, out, p) : p \in Copied(t, d)}
      PROVE  s[d \o SubSeq(q, 3, Len(q))] = t[d \o SubSeq(q, 3, Len(q))]
  <2>1. PICK p \in Copied(t, d) : q = Into(d, out, p)
    OBVIOUS
  <2>2. p \in Below(t, d) /\ p \in Path /\ IsStrictPrefix(d, p)
    BY <1>1 DEF Copied, Below
  <2>3. d \o SubSeq(q, 3, Len(q)) = p
    BY <1>1, <2>1, <2>2, IntoPath
  <2>4. s[p] = t[p]
    BY <2>2, AlikeBelow
  <2> QED BY <2>3, <2>4
<1> QED BY <1>2, <1>3, <1>4 DEF SkillTree

\* The content of a plugin is the same from both, if the slice bakes from one.
LEMMA AlikeContent ==
  ASSUME NEW s, NEW t, NEW pl, PluginShape(pl), Alike(s, t, pl),
         Present(t, pl), FilesPresent(t, pl), AgentsPresent(t, pl)
  PROVE  Content(s, pl) = Content(t, pl)
<1>1. Taken(s, pl) = Taken(t, pl)
  BY AlikeTaken
<1>2. \A d \in Taken(t, pl) : SkillTree(s, d, OutName(pl, d)) = SkillTree(t, d, OutName(pl, d))
  BY AlikeSkillTree DEF Present
<1>3. \A a \in Range(pl.agents) : [q \in {AgentPath(a)} |-> s[q]] = [q \in {AgentPath(a)} |-> t[q]]
  BY DEF AgentsPresent, Alike
<1>4. \A p \in Range(pl.extraFiles) : [q \in {<<Base(p)>>} |-> s[p]] = [q \in {<<Base(p)>>} |-> t[p]]
  BY DEF FilesPresent, Alike
<1>5. {SkillTree(s, d, OutName(pl, d)) : d \in Taken(s, pl)} = {SkillTree(t, d, OutName(pl, d)) : d \in Taken(t, pl)}
  BY <1>1, <1>2
<1>6. {[q \in {AgentPath(a)} |-> s[q]] : a \in Range(pl.agents)} = {[q \in {AgentPath(a)} |-> t[q]] : a \in Range(pl.agents)}
  BY <1>3
<1>7. {[q \in {<<Base(p)>>} |-> s[p]] : p \in Range(pl.extraFiles)} = {[q \in {<<Base(p)>>} |-> t[p]] : p \in Range(pl.extraFiles)}
  BY <1>4
<1> QED BY <1>5, <1>6, <1>7, Zenon DEF Content

\* So are the SKILL.md that it ingests.
LEMMA AlikeIngested ==
  ASSUME NEW s, NEW t, NEW pl, PluginShape(pl), Alike(s, t, pl)
  PROVE  Ingested(s, pl) = Ingested(t, pl)
<1>1. Taken(s, pl) = Taken(t, pl) /\ Skills(s) = Skills(t)
  BY AlikeTaken, AlikeSelected
<1>2. \A d \in Taken(t, pl) : Below(s, d) = Below(t, d)
  BY AlikeBelow
<1>3. UNION {Below(s, d) : d \in Taken(s, pl)} = UNION {Below(t, d) : d \in Taken(t, pl)}
  BY <1>1, <1>2
<1> QED BY <1>1, <1>3, Zenon DEF Ingested

-----------------------------------------------------------------------------
(* What the parts of a registry are found by.                              *)

\* A registry of the shape the author writes, in which vendors and plugins have ids of
\* their own, and whose pins are served.
Registered(reg) ==
  /\ reg \in Seq(Range(reg))
  /\ \A v \in Range(reg) :
       /\ v.plugins \in Seq(Range(v.plugins)) /\ \A pl \in Range(v.plugins) : PluginShape(pl)
       /\ v.plugins # << >> => <<v.repo, v.sha>> \in DOMAIN Archive
  /\ Distinct(Ids(reg)) /\ Distinct(Ids(Plugins(reg)))

LEMMA LoadedRegistered ==
  ASSUME NEW reg \in Registry, NEW groups, Loads(reg, groups)
  PROVE  Registered(reg)
BY RegistryAssumption, ArchiveAssumption DEF Loads, IdsOk, Registered

\* A plugin of a registry is at one place of it.
LEMMA PluginPlace ==
  ASSUME NEW reg
  PROVE  /\ \A i \in DOMAIN reg : \A j \in DOMAIN reg[i].plugins :
              <<i, j>> \in DOMAIN Plugins(reg) /\ Plugins(reg)[<<i, j>>] = reg[i].plugins[j]
         /\ \A at \in DOMAIN Plugins(reg) : \E i \in DOMAIN reg : \E j \in DOMAIN reg[i].plugins : at = <<i, j>>
<1> DEFINE ss == [i \in DOMAIN reg |-> reg[i].plugins]
<1>1. DOMAIN Plugins(reg) = Places(ss) /\ \A at \in Places(ss) : Plugins(reg)[at] = ss[at[1]][at[2]]
  BY DEF Plugins, Flat
<1>2. \A i \in DOMAIN reg : ss[i] = reg[i].plugins
  OBVIOUS
<1>3. DOMAIN ss = DOMAIN reg
  OBVIOUS
<1> HIDE DEF ss
<1>4. \A i \in DOMAIN reg : \A j \in DOMAIN reg[i].plugins : <<i, j>> \in Places(ss)
  BY <1>2, <1>3 DEF Places
<1>5. \A at \in Places(ss) : \E i \in DOMAIN reg : \E j \in DOMAIN reg[i].plugins : at = <<i, j>>
  BY <1>2, <1>3 DEF Places
<1>6. \A i \in DOMAIN reg : \A j \in DOMAIN reg[i].plugins : Plugins(reg)[<<i, j>>] = reg[i].plugins[j]
  BY <1>1, <1>2, <1>4
<1> QED BY <1>1, <1>4, <1>5, <1>6 DEF ss

LEMMA IdsOf ==
  ASSUME NEW s
  PROVE  /\ DOMAIN Ids(s) = DOMAIN s
         /\ \A i \in DOMAIN s : Ids(s)[i] = s[i].id
         /\ Range(Ids(s)) = {s[i].id : i \in DOMAIN s}
BY DEF Ids, Range

LEMMA DeclaredIds ==
  ASSUME NEW reg
  PROVE  Declared(reg) = UNION {Range(Ids(reg[i].plugins)) : i \in DOMAIN reg}
<1>1. ASSUME NEW id \in Declared(reg)
      PROVE  id \in UNION {Range(Ids(reg[i].plugins)) : i \in DOMAIN reg}
  <2>1. PICK at \in DOMAIN Plugins(reg) : id = Plugins(reg)[at].id
    BY IdsOf DEF Declared
  <2>2. PICK i \in DOMAIN reg : \E j \in DOMAIN reg[i].plugins : at = <<i, j>>
    BY PluginPlace
  <2>3. PICK j \in DOMAIN reg[i].plugins : at = <<i, j>>
    BY <2>2
  <2>4. id = reg[i].plugins[j].id
    BY <2>1, <2>3, PluginPlace
  <2>5. id \in Range(Ids(reg[i].plugins))
    BY <2>4, IdsOf
  <2> QED BY <2>5
<1>2. ASSUME NEW i \in DOMAIN reg, NEW id \in Range(Ids(reg[i].plugins))
      PROVE  id \in Declared(reg)
  <2>1. PICK j \in DOMAIN reg[i].plugins : id = reg[i].plugins[j].id
    BY IdsOf
  <2>2. <<i, j>> \in DOMAIN Plugins(reg) /\ Plugins(reg)[<<i, j>>].id = id
    BY <2>1, PluginPlace
  <2> QED BY <2>2, IdsOf DEF Declared
<1> QED BY <1>1, <1>2

\* Ids lead to one vendor and to one slice.
LEMMA Located ==
  ASSUME NEW reg, Distinct(Ids(Plugins(reg))), NEW i \in DOMAIN reg, NEW j \in DOMAIN reg[i].plugins
  PROVE  /\ Owner(reg, reg[i].plugins[j].id) = reg[i]
         /\ Slice(reg, reg[i].plugins[j].id) = reg[i].plugins[j]
         /\ reg[i].plugins[j].id \in Declared(reg) /\ reg[i].plugins[j].id \in Range(Ids(reg[i].plugins))
         /\ \A k \in DOMAIN reg : reg[i].plugins[j].id \in Range(Ids(reg[k].plugins)) => k = i
<1> DEFINE id == reg[i].plugins[j].id
<1>1. ASSUME NEW k \in DOMAIN reg, NEW m \in DOMAIN reg[k].plugins, reg[k].plugins[m].id = id
      PROVE  k = i /\ m = j
  <2>1. /\ <<i, j>> \in DOMAIN Plugins(reg) /\ Plugins(reg)[<<i, j>>] = reg[i].plugins[j]
        /\ <<k, m>> \in DOMAIN Plugins(reg) /\ Plugins(reg)[<<k, m>>] = reg[k].plugins[m]
    BY PluginPlace
  <2>2. Ids(Plugins(reg))[<<i, j>>] = Ids(Plugins(reg))[<<k, m>>]
    BY <2>1, <1>1, IdsOf
  <2>3. <<i, j>> = <<k, m>>
    BY <2>1, <2>2, IdsOf DEF Distinct
  <2> QED BY <2>3
<1>2. id \in Range(Ids(reg[i].plugins))
  BY IdsOf
<1>3. id \in Declared(reg)
  BY <1>2, DeclaredIds
<1>4. \A k \in DOMAIN reg : id \in Range(Ids(reg[k].plugins)) => k = i
  <2>1. \A k \in DOMAIN reg : id \in Range(Ids(reg[k].plugins)) => \E m \in DOMAIN reg[k].plugins : reg[k].plugins[m].id = id
    BY IdsOf
  <2> QED BY <1>1, <2>1
<1> HIDE DEF id
<1>5. Owner(reg, id) = reg[i]
  <2>1. reg[i] \in Range(reg) /\ \A v \in Range(reg) : \E k \in DOMAIN reg : v = reg[k]
    BY DEF Range
  <2>2. \A v \in Range(reg) : id \in Range(Ids(v.plugins)) => v = reg[i]
    BY <1>4, <2>1
  <2> QED BY <1>2, <2>1, <2>2 DEF Owner
<1>6. Slice(reg, id) = reg[i].plugins[j]
  <2>1. reg[i].plugins[j] \in Range(Plugins(reg)) /\ reg[i].plugins[j].id = id
    <3>1. <<i, j>> \in DOMAIN Plugins(reg) /\ Plugins(reg)[<<i, j>>] = reg[i].plugins[j]
      BY PluginPlace
    <3>2. reg[i].plugins[j] \in Range(Plugins(reg))
      BY <3>1 DEF Range
    <3> QED BY <3>2 DEF id
  <2>2. ASSUME NEW pl \in Range(Plugins(reg)), pl.id = id
        PROVE  pl = reg[i].plugins[j]
    <3>1. PICK at \in DOMAIN Plugins(reg) : pl = Plugins(reg)[at]
      BY DEF Range
    <3>2. PICK k \in DOMAIN reg : \E m \in DOMAIN reg[k].plugins : at = <<k, m>>
      BY PluginPlace
    <3>3. PICK m \in DOMAIN reg[k].plugins : at = <<k, m>>
      BY <3>2
    <3>4. pl = reg[k].plugins[m]
      BY <3>1, <3>3, PluginPlace
    <3> QED BY <2>2, <3>4, <1>1
  <2> QED BY <2>1, <2>2 DEF Slice
<1> QED BY <1>2, <1>3, <1>4, <1>5, <1>6 DEF id

\* A vendor is found by its id.
LEMMA Found ==
  ASSUME NEW reg, Distinct(Ids(reg)), NEW i \in DOMAIN reg
  PROVE  (CHOOSE v \in Range(reg) : v.id = reg[i].id) = reg[i]
<1>1. reg[i] \in Range(reg)
  BY DEF Range
<1>2. ASSUME NEW v \in Range(reg), v.id = reg[i].id
      PROVE  v = reg[i]
  <2>1. PICK k \in DOMAIN reg : v = reg[k]
    BY DEF Range
  <2>2. Ids(reg)[k] = Ids(reg)[i]
    BY <1>2, <2>1, IdsOf
  <2> QED BY <2>1, <2>2, IdsOf DEF Distinct
<1> QED BY <1>1, <1>2

\* The vendors that are baked.
LEMMA BakingOf ==
  ASSUME NEW reg
  PROVE  /\ DOMAIN Baking(reg) = {i \in DOMAIN reg : reg[i].plugins # << >>}
         /\ \A i \in DOMAIN Baking(reg) : Baking(reg)[i] = reg[i] /\ reg[i] \in Range(Baking(reg))
         /\ Range(Ids(Baking(reg))) = {reg[i].id : i \in DOMAIN Baking(reg)}
         /\ \A i \in DOMAIN reg : DOMAIN reg[i].plugins # {} => i \in DOMAIN Baking(reg)
<1>1. /\ DOMAIN Baking(reg) = {i \in DOMAIN reg : reg[i].plugins # << >>}
      /\ \A i \in DOMAIN Baking(reg) : Baking(reg)[i] = reg[i]
  BY DEF Baking
<1>2. \A i \in DOMAIN Baking(reg) : reg[i] \in Range(Baking(reg))
  BY <1>1 DEF Range
<1>3. Range(Ids(Baking(reg))) = {Baking(reg)[i].id : i \in DOMAIN Baking(reg)}
  BY IdsOf, Zenon
<1>4. Range(Ids(Baking(reg))) = {reg[i].id : i \in DOMAIN Baking(reg)}
  BY <1>1, <1>3
<1>5. \A i \in DOMAIN reg : DOMAIN reg[i].plugins # {} => i \in DOMAIN Baking(reg)
  <2>1. << >> \in Seq({}) /\ Len(<< >>) = 0
    OBVIOUS
  <2>2. DOMAIN << >> = {}
    BY <2>1
  <2> QED BY <1>1, <2>2
<1> QED BY <1>1, <1>2, <1>4, <1>5

-----------------------------------------------------------------------------
(* Trees that come from an archive.                                        *)

\* A nonempty set of naturals has a least element.
LEMMA LeastIn ==
  ASSUME NEW S \in SUBSET Nat, S # {}
  PROVE  Min(S) \in S /\ \A j \in S : Min(S) <= j
<1>1. PICK i \in S : \A j \in S : <<j, i>> \notin OpToRel(<, Nat)
  BY NatLessThanWellFounded, WFMin, Zenon
<1>2. \A j \in S : ~(j < i)
  BY <1>1, Zenon DEF OpToRel
<1>3. \A j \in S : i <= j
  BY <1>2
<1> QED BY <1>3 DEF Min

\* So a nonempty set of places in a sequence has a greatest.
LEMMA GreatestIn ==
  ASSUME NEW n \in Nat, NEW S \in SUBSET (1..n), S # {}
  PROVE  Max(S) \in S
<1> DEFINE T == {n - i : i \in S}
<1>1. T \in SUBSET Nat /\ T # {}
  <2>1. \A i \in S : n - i \in Nat
    OBVIOUS
  <2> QED BY <2>1
<1>2. Min(T) \in T /\ \A j \in T : Min(T) <= j
  BY <1>1, LeastIn
<1> DEFINE k == Min(T)
<1> HIDE DEF k
<1>3. PICK i \in S : k = n - i
  BY <1>2 DEF k
<1>4. ASSUME NEW j \in S PROVE i >= j
  <2>1. n - j \in T
    OBVIOUS
  <2>2. n - i <= n - j
    BY <2>1, <1>2, <1>3 DEF k
  <2> QED BY <2>2
<1> QED BY <1>4 DEF Max

\* What is extracted from an archive has the shape of a tree.
LEMMA ExtractShape ==
  ASSUME NEW k \in DOMAIN Archive
  PROVE  TreeShape(Extract(Archive[k]))
<1> DEFINE ms == Archive[k].members
           held == {i \in DOMAIN ms : ms[i].kind # "dir" /\ Len(ms[i].name) > 1}
           at(p) == {i \in held : Tail(ms[i].name) = p}
           t == Extract(Archive[k])
<1>1. ms \in Seq(Range(ms)) /\ \A m \in Range(ms) : m.name \in Path /\ "name" \in DOMAIN m.node
  BY ArchiveAssumption
<1>2. Len(ms) \in Nat /\ DOMAIN ms = 1..Len(ms)
  BY <1>1
<1>3. \A i \in DOMAIN ms : ms[i].name \in Path /\ "name" \in DOMAIN ms[i].node
  BY <1>1, SMTT(30) DEF Range
<1>4. DOMAIN t = {Tail(ms[i].name) : i \in held} /\ \A p \in DOMAIN t : t[p] = ms[Max(at(p))].node
  BY DEF Extract
<1> HIDE DEF ms, t
<1>5. ASSUME NEW p \in DOMAIN t
      PROVE  p \in Path /\ p # << >> /\ "name" \in DOMAIN t[p]
  <2>1. PICK i \in held : p = Tail(ms[i].name)
    BY <1>4
  <2>2. ms[i].name \in Seq(STRING) /\ Len(ms[i].name) > 1
    BY <1>3 DEF Path
  <2>3. p \in Seq(STRING) /\ Len(p) = Len(ms[i].name) - 1
    <3> DEFINE name == ms[i].name
    <3>1. name \in Seq(STRING) /\ name # << >> /\ p = Tail(name)
      BY <2>1, <2>2
    <3> HIDE DEF name
    <3>2. p \in Seq(STRING) /\ Len(p) = Len(name) - 1
      BY <3>1, HeadTailProperties
    <3> QED BY <3>2 DEF name
  <2>4. p \in Path /\ p # << >>
    BY <2>2, <2>3 DEF Path
  <2>5. i \in at(p) /\ at(p) \in SUBSET (1..Len(ms))
    BY <2>1, <1>2
  <2> HIDE DEF at
  <2>6. Max(at(p)) \in at(p)
    BY <2>5, <1>2, GreatestIn
  <2>7. Max(at(p)) \in DOMAIN ms
    BY <2>5, <2>6, <1>2
  <2> QED BY <2>4, <2>7, <1>3, <1>4
<1> QED BY <1>5 DEF TreeShape, t

\* The tree of a vendor that is baked.
LEMMA PinnedShape ==
  ASSUME NEW reg, Registered(reg), NEW i \in DOMAIN Baking(reg)
  PROVE  TreeShape(Pinned(reg[i])) /\ DOMAIN Pinned(reg[i]) \subseteq Path \ {<< >>}
<1>1. i \in DOMAIN reg /\ reg[i].plugins # << >> /\ reg[i] \in Range(reg)
  BY BakingOf DEF Range
<1>2. <<reg[i].repo, reg[i].sha>> \in DOMAIN Archive
  BY <1>1 DEF Registered
<1> QED BY <1>2, ExtractShape DEF Pinned, TreeShape

-----------------------------------------------------------------------------
(* What BAKE.json records of two registries is the same: so is the content   *)
(* that both take from upstream, if one of them bakes.                       *)

LEMMA SameLockVendors ==
  ASSUME NEW r, NEW s, Registered(r), Registered(s), LockVendors(r) = LockVendors(s)
  PROVE  /\ DOMAIN r = DOMAIN s
         /\ \A i \in DOMAIN r : /\ r[i].id = s[i].id /\ r[i].repo = s[i].repo /\ r[i].sha = s[i].sha
                                /\ r[i].displayRef = s[i].displayRef /\ r[i].plugins = s[i].plugins
<1>1. DOMAIN r = DOMAIN LockVendors(r) /\ \A i \in DOMAIN r : LockVendors(r)[i] = LockVendor(r[i])
  BY DEF LockVendors
<1>2. DOMAIN s = DOMAIN LockVendors(s) /\ \A i \in DOMAIN s : LockVendors(s)[i] = LockVendor(s[i])
  BY DEF LockVendors
<1>3. DOMAIN r = DOMAIN s /\ \A i \in DOMAIN r : LockVendor(r[i]) = LockVendor(s[i])
  BY <1>1, <1>2
<1>4. ASSUME NEW i \in DOMAIN r
      PROVE  /\ r[i].id = s[i].id /\ r[i].repo = s[i].repo /\ r[i].sha = s[i].sha
             /\ r[i].displayRef = s[i].displayRef /\ r[i].plugins = s[i].plugins
  <2> DEFINE a == r[i].plugins
             b == s[i].plugins
             x == [j \in DOMAIN a |-> LockPlugin(a[j])]
             y == [j \in DOMAIN b |-> LockPlugin(b[j])]
  <2>1. a \in Seq(Range(a)) /\ b \in Seq(Range(b))
    BY <1>3 DEF Registered, Range
  <2>2. <<r[i].id, r[i].repo, r[i].sha, r[i].displayRef, x>> = <<s[i].id, s[i].repo, s[i].sha, s[i].displayRef, y>>
    BY <1>3 DEF LockVendor
  <2>3. /\ x = y /\ r[i].id = s[i].id /\ r[i].repo = s[i].repo /\ r[i].sha = s[i].sha
        /\ r[i].displayRef = s[i].displayRef
    <3> HIDE DEF x, y
    <3> QED BY <2>2
  <2>4. DOMAIN x = DOMAIN a /\ DOMAIN y = DOMAIN b /\ (\A j \in DOMAIN a : x[j] = a[j]) /\ (\A j \in DOMAIN b : y[j] = b[j])
    BY DEF LockPlugin
  <2>5. DOMAIN a = DOMAIN b /\ \A j \in DOMAIN a : a[j] = b[j]
    <3> HIDE DEF x, y, a, b
    <3> QED BY <2>3, <2>4
  <2>6. a = b
    <3> HIDE DEF x, y, a, b
    <3>1. a = [j \in DOMAIN a |-> a[j]] /\ b = [j \in DOMAIN b |-> b[j]]
      BY <2>1
    <3> QED BY <3>1, <2>5
  <2> QED BY <2>3, <2>6
<1> QED BY <1>3, <1>4

\* A vendor that bakes, and one of the same pin and slices.
LEMMA SameVendor ==
  ASSUME NEW v, NEW w, v.plugins = w.plugins, v.repo = w.repo, v.sha = w.sha,
         \A pl \in Range(v.plugins) : PluginShape(pl), v.plugins \in Seq(Range(v.plugins)),
         DOMAIN Pinned(v) \subseteq Path \ {<< >>}, VendorBakes(v, Pinned(v))
  PROVE  /\ \A pl \in Range(v.plugins) : Content(Upstream(w), pl) = Content(Upstream(v), pl)
         /\ SkippedIn(w, Upstream(w)) = SkippedIn(v, Upstream(v))
<1> DEFINE t == Pinned(v)
<1>1. Pinned(w) = t /\ Upstream(v) = Prune(t, v) /\ Upstream(w) = Prune(t, w)
  BY DEF Upstream, Pinned
<1> HIDE DEF t
<1>2. \A pl \in Range(v.plugins) : Alike(Prune(t, w), Prune(t, v), pl)
  <2>1. DOMAIN t \subseteq Path \ {<< >>}
    BY DEF t
  <2> QED BY <2>1, PrunedAlike
<1>3. \A pl \in Range(v.plugins) : PluginBakes(v, Prune(t, v), pl)
  BY DEF VendorBakes, Range, t
<1>4. \A pl \in Range(v.plugins) : Content(Prune(t, w), pl) = Content(Prune(t, v), pl)
  BY <1>2, <1>3, AlikeContent DEF PluginBakes
<1>5. \A pl \in Range(v.plugins) : Ingested(Prune(t, w), pl) = Ingested(Prune(t, v), pl)
  BY <1>2, AlikeIngested
<1>6. Skills(Prune(t, w)) = Skills(Prune(t, v))
  BY PruneKeeps DEF Skills
<1>7. SkippedIn(w, Prune(t, w)) = SkippedIn(v, Prune(t, v))
  <2>1. {Ingested(Prune(t, w), pl) : pl \in Range(w.plugins)} = {Ingested(Prune(t, v), pl) : pl \in Range(v.plugins)}
    BY <1>5
  <2>2. {Append(d, "SKILL.md") : d \in Skills(Prune(t, w))} = {Append(d, "SKILL.md") : d \in Skills(Prune(t, v))}
    BY <1>6
  <2> QED BY <2>1, <2>2, Zenon DEF SkippedIn
<1> QED BY <1>1, <1>4, <1>7

-----------------------------------------------------------------------------
(* What --check accepts of what a bake published.                          *)

\* The digests, and the record, of what is published.
FilesOf(pls, market, coverage) ==
  <<[id \in DOMAIN pls |-> <<AsBytes(pls[id].content), pls[id].envelope>>], market, coverage>>
CoverageOf(reg, pls, skip) == Coverage(reg, CoverageInputs(reg, pls, skip), IngestRecord(reg, pls))
LockOf(reg, pls, skip) ==
  [vendors |-> LockVendors(reg), files |-> FilesOf(pls, Marketplace(reg), CoverageOf(reg, pls, skip)),
   coverage |-> CoverageOf(reg, pls, skip), inputs |-> CoverageInputs(reg, pls, skip), ingest |-> IngestRecord(reg, pls)]

LEMMA PublicationIs ==
  ASSUME NEW reg, NEW pls, NEW skip
  PROVE  Publication(reg, pls, skip) =
           [plugins |-> pls, market |-> Marketplace(reg), coverage |-> CoverageOf(reg, pls, skip),
            lock |-> LockOf(reg, pls, skip)]
<1> DEFINE inputs == CoverageInputs(reg, pls, skip)
           ingest == IngestRecord(reg, pls)
           market == Marketplace(reg)
           coverage == Coverage(reg, inputs, ingest)
           b == [plugins |-> pls, market |-> market, coverage |-> coverage, lock |-> Empty]
           vs == LockVendors(reg)
           files == FilesOf(pls, market, coverage)
<1>1. Publication(reg, pls, skip) = [b EXCEPT !.lock = BakeManifest(reg, b, inputs, ingest)]
  BY Zenon DEF Publication
<1>2. BakeManifest(reg, b, inputs, ingest) =
        [vendors |-> vs, files |-> Digests(b), coverage |-> b.coverage, inputs |-> inputs, ingest |-> ingest]
  BY Zenon DEF BakeManifest
<1> HIDE DEF inputs, ingest, market, coverage, vs
<1>3. b.coverage = coverage /\ Digests(b) = files
  BY DEF Digests, FilesOf
<1>4. [b EXCEPT !.lock = BakeManifest(reg, b, inputs, ingest)] =
        [plugins |-> pls, market |-> market, coverage |-> coverage,
         lock |-> [vendors |-> vs, files |-> files, coverage |-> coverage, inputs |-> inputs, ingest |-> ingest]]
  <2> DEFINE m == BakeManifest(reg, b, inputs, ingest)
  <2> HIDE DEF files, m
  <2>1. [b EXCEPT !.lock = m] = [plugins |-> pls, market |-> market, coverage |-> coverage, lock |-> m]
    OBVIOUS
  <2>2. m = [vendors |-> vs, files |-> files, coverage |-> coverage, inputs |-> inputs, ingest |-> ingest]
    BY <1>2, <1>3, Zenon DEF m
  <2> QED BY <2>1, <2>2 DEF m
<1> HIDE DEF b
<1>5. CoverageOf(reg, pls, skip) = coverage
  BY DEF CoverageOf, coverage, inputs, ingest
<1>6. LockOf(reg, pls, skip) =
        [vendors |-> vs, files |-> files, coverage |-> coverage, inputs |-> inputs, ingest |-> ingest]
  BY <1>5 DEF LockOf, files, vs, inputs, ingest, market
<1> QED BY <1>1, <1>4, <1>5, <1>6 DEF market

LEMMA PublicationFields ==
  ASSUME NEW reg, NEW pls, NEW skip, NEW b, b = Publication(reg, pls, skip)
  PROVE  /\ b.plugins = pls /\ b.market = Marketplace(reg) /\ b.coverage = CoverageOf(reg, pls, skip)
         /\ b.lock = LockOf(reg, pls, skip)
BY PublicationIs

LEMMA LockFields ==
  ASSUME NEW reg, NEW pls, NEW skip
  PROVE  LET k == LockOf(reg, pls, skip) IN
         /\ k.vendors = LockVendors(reg) /\ k.files = FilesOf(pls, Marketplace(reg), CoverageOf(reg, pls, skip))
         /\ k.coverage = CoverageOf(reg, pls, skip) /\ k.inputs = CoverageInputs(reg, pls, skip)
         /\ k.ingest = IngestRecord(reg, pls)
         /\ DOMAIN k = {"vendors", "files", "coverage", "inputs", "ingest"}
BY DEF LockOf

\* A published tree is whole: no hand edit takes a part from it, or from a plugin.
Whole(b) ==
  /\ b = [plugins |-> b.plugins, market |-> b.market, coverage |-> b.coverage, lock |-> b.lock]
  /\ b.plugins = [id \in DOMAIN b.plugins |-> b.plugins[id]]
  /\ \A id \in DOMAIN b.plugins :
       b.plugins[id] = [content |-> b.plugins[id].content, envelope |-> b.plugins[id].envelope,
                        skillsDir |-> b.plugins[id].skillsDir]

LEMMA FreshWhole ==
  ASSUME NEW reg, NEW b, b = Fresh(reg)
  PROVE  Whole(b) /\ b.lock = LockOf(reg, FreshPlugins(reg), FreshSkipped(reg))
<1> DEFINE pls == FreshPlugins(reg)
<1>1. /\ b.plugins = pls /\ b.lock = LockOf(reg, pls, FreshSkipped(reg))
      /\ b = [plugins |-> b.plugins, market |-> b.market, coverage |-> b.coverage, lock |-> b.lock]
  BY PublicationFields, PublicationIs DEF Fresh
<1>2. pls = [id \in DOMAIN pls |-> pls[id]]
  BY DEF FreshPlugins
<1>3. \A id \in DOMAIN pls : \E c, e : pls[id] = [content |-> c, envelope |-> e, skillsDir |-> TRUE]
  BY DEF FreshPlugins, BakePlugin
<1> HIDE DEF pls
<1>4. \A id \in DOMAIN pls :
        pls[id] = [content |-> pls[id].content, envelope |-> pls[id].envelope, skillsDir |-> pls[id].skillsDir]
  BY <1>3
<1> QED BY <1>1, <1>2, <1>4 DEF Whole, pls

\* Of two registries that BAKE.json cannot tell apart, upstream gives each vendor's
\* plugins the same content, and the same paths are skipped.
LEMMA SameContent ==
  ASSUME NEW r, NEW s, Registered(r), Registered(s), LockVendors(r) = LockVendors(s),
         \A v \in Range(Baking(r)) : VendorBakes(v, Pinned(v))
  PROVE  /\ DOMAIN FreshPlugins(s) = DOMAIN FreshPlugins(r)
         /\ \A id \in DOMAIN FreshPlugins(r) : FreshPlugins(s)[id].content = FreshPlugins(r)[id].content
         /\ FreshSkipped(s) = FreshSkipped(r)
<1>1. /\ DOMAIN r = DOMAIN s
      /\ \A i \in DOMAIN r : /\ r[i].id = s[i].id /\ r[i].repo = s[i].repo /\ r[i].sha = s[i].sha
                             /\ r[i].plugins = s[i].plugins
  BY SameLockVendors
<1>2. DOMAIN Baking(r) = DOMAIN Baking(s)
  <2>1. DOMAIN Baking(r) = {i \in DOMAIN r : r[i].plugins # << >>}
    BY BakingOf
  <2>2. DOMAIN Baking(s) = {i \in DOMAIN s : s[i].plugins # << >>}
    BY BakingOf
  <2> QED BY <1>1, <2>1, <2>2
<1>3. ASSUME NEW i \in DOMAIN Baking(r)
      PROVE  /\ \A pl \in Range(r[i].plugins) : Content(Upstream(s[i]), pl) = Content(Upstream(r[i]), pl)
             /\ SkippedIn(s[i], Upstream(s[i])) = SkippedIn(r[i], Upstream(r[i]))
  <2>1. i \in DOMAIN r /\ r[i] \in Range(r) /\ VendorBakes(r[i], Pinned(r[i]))
    BY BakingOf DEF Range
  <2>2. /\ \A pl \in Range(r[i].plugins) : PluginShape(pl)
        /\ r[i].plugins \in Seq(Range(r[i].plugins)) /\ DOMAIN Pinned(r[i]) \subseteq Path \ {<< >>}
    BY <2>1, PinnedShape DEF Registered
  <2>3. r[i].plugins = s[i].plugins /\ r[i].repo = s[i].repo /\ r[i].sha = s[i].sha
    BY <1>1, <2>1
  <2> QED BY <2>1, <2>2, <2>3, SameVendor
<1>4. Declared(r) = Declared(s)
  <2>1. \A i \in DOMAIN r : Range(Ids(r[i].plugins)) = Range(Ids(s[i].plugins))
    BY <1>1
  <2> QED BY <1>1, <2>1, DeclaredIds
<1>5. ASSUME NEW id \in Declared(r)
      PROVE  FreshPlugins(s)[id].content = FreshPlugins(r)[id].content
  <2>1. PICK i \in DOMAIN r : id \in Range(Ids(r[i].plugins))
    BY DeclaredIds
  <2>2. PICK j \in DOMAIN r[i].plugins : id = r[i].plugins[j].id
    BY <2>1, IdsOf
  <2>3. Distinct(Ids(Plugins(r))) /\ Distinct(Ids(Plugins(s)))
    BY DEF Registered
  <2>4. Owner(r, id) = r[i] /\ Slice(r, id) = r[i].plugins[j]
    BY <2>2, <2>3, Located
  <2>5. i \in DOMAIN s /\ j \in DOMAIN s[i].plugins /\ id = s[i].plugins[j].id /\ s[i].plugins[j] = r[i].plugins[j]
    BY <2>2, <1>1
  <2>6. Owner(s, id) = s[i] /\ Slice(s, id) = r[i].plugins[j]
    BY <2>3, <2>5, Located
  <2>7. i \in DOMAIN Baking(r) /\ r[i].plugins[j] \in Range(r[i].plugins)
    BY BakingOf DEF Range
  <2>8. Content(Upstream(s[i]), r[i].plugins[j]) = Content(Upstream(r[i]), r[i].plugins[j])
    BY <2>7, <1>3
  <2>9. FreshPlugins(s)[id].content = Content(Upstream(s[i]), r[i].plugins[j])
    BY <2>6, <1>4 DEF FreshPlugins, BakePlugin
  <2>10. FreshPlugins(r)[id].content = Content(Upstream(r[i]), r[i].plugins[j])
    BY <2>4 DEF FreshPlugins, BakePlugin
  <2> QED BY <2>8, <2>9, <2>10
<1>6. FreshSkipped(s) = FreshSkipped(r)
  <2> DEFINE V(reg, id) == CHOOSE v \in Range(reg) : v.id = id
  <2>1. Range(Ids(Baking(r))) = Range(Ids(Baking(s)))
    <3>1. Range(Ids(Baking(r))) = {r[i].id : i \in DOMAIN Baking(r)}
      BY BakingOf
    <3>0. Range(Ids(Baking(s))) = {s[i].id : i \in DOMAIN Baking(s)}
      BY BakingOf
    <3>2. \A i \in DOMAIN Baking(r) : r[i].id = s[i].id
      BY <1>1, BakingOf
    <3> QED BY <1>2, <3>0, <3>1, <3>2, ZenonT(60)
  <2>2. ASSUME NEW id \in Range(Ids(Baking(r)))
        PROVE  SkippedIn(V(s, id), Upstream(V(s, id))) = SkippedIn(V(r, id), Upstream(V(r, id)))
    <3>0. Range(Ids(Baking(r))) = {r[i].id : i \in DOMAIN Baking(r)}
      BY BakingOf
    <3>1. PICK i \in DOMAIN Baking(r) : id = r[i].id
      BY <3>0
    <3>2. i \in DOMAIN r /\ i \in DOMAIN s /\ id = s[i].id
      BY <3>1, <1>1, BakingOf
    <3>3. Distinct(Ids(r)) /\ Distinct(Ids(s))
      BY DEF Registered
    <3>4. V(r, r[i].id) = r[i]
      BY <3>2, <3>3, Found
    <3>5. V(s, s[i].id) = s[i]
      BY <3>2, <3>3, Found
    <3> HIDE DEF V
    <3> QED BY <3>1, <3>2, <3>4, <3>5, <1>3
  <2>3. FreshSkipped(r) = [id \in Range(Ids(Baking(r))) |-> SkippedIn(V(r, id), Upstream(V(r, id)))]
    BY DEF FreshSkipped
  <2>4. FreshSkipped(s) = [id \in Range(Ids(Baking(s))) |-> SkippedIn(V(s, id), Upstream(V(s, id)))]
    BY DEF FreshSkipped
  <2> HIDE DEF V
  <2> QED BY <2>1, <2>2, <2>3, <2>4
<1>7. DOMAIN FreshPlugins(s) = Declared(s) /\ DOMAIN FreshPlugins(r) = Declared(r)
  BY DEF FreshPlugins
<1> QED BY <1>4, <1>5, <1>6, <1>7

\* What is recorded of plugins depends on the bytes of their files alone.
LEMMA BytesAlone ==
  ASSUME NEW reg, Registered(reg), NEW ps, NEW qs, DOMAIN ps = Declared(reg), DOMAIN qs = Declared(reg),
         \A id \in Declared(reg) : AsBytes(ps[id].content) = AsBytes(qs[id].content), NEW skip
  PROVE  /\ IngestRecord(reg, ps) = IngestRecord(reg, qs)
         /\ CoverageInputs(reg, ps, skip) = CoverageInputs(reg, qs, skip)
<1>1. \A id \in Declared(reg) : DOMAIN ps[id].content = DOMAIN qs[id].content
  <2>1. \A t : DOMAIN AsBytes(t) = DOMAIN t
    BY DEF AsBytes
  <2> QED BY <2>1
<1>2. \A id \in Declared(reg) : Findings(ps[id].content) = Findings(qs[id].content)
  BY Zenon DEF Findings
<1>3. IngestRecord(reg, ps) = IngestRecord(reg, qs)
  <2> DEFINE V(id) == CHOOSE v \in Range(reg) : v.id = id
             of(pls, id) == <<V(id).limits, [pl \in Range(Ids(V(id).plugins)) |-> Findings(pls[pl].content)]>>
  <2>1. ASSUME NEW id \in Range(Ids(Baking(reg)))
        PROVE  Range(Ids(V(id).plugins)) \subseteq Declared(reg)
    <3>0. Range(Ids(Baking(reg))) = {reg[i].id : i \in DOMAIN Baking(reg)}
      BY BakingOf
    <3>1. PICK i \in DOMAIN Baking(reg) : id = reg[i].id
      BY <3>0
    <3>2. i \in DOMAIN reg
      BY <3>1, BakingOf
    <3>3. V(reg[i].id) = reg[i]
      BY <3>2, Found DEF Registered
    <3> HIDE DEF V
    <3>4. Range(Ids(reg[i].plugins)) \subseteq Declared(reg)
      BY <3>2, DeclaredIds
    <3> QED BY <3>1, <3>3, <3>4
  <2>2. IngestRecord(reg, ps) = [id \in Range(Ids(Baking(reg))) |-> of(ps, id)]
    BY Zenon DEF IngestRecord
  <2>3. IngestRecord(reg, qs) = [id \in Range(Ids(Baking(reg))) |-> of(qs, id)]
    BY Zenon DEF IngestRecord
  <2> HIDE DEF V
  <2>4. ASSUME NEW id \in Range(Ids(Baking(reg)))
        PROVE  of(ps, id) = of(qs, id)
    BY <1>2, <2>1
  <2> HIDE DEF of
  <2> QED BY <2>2, <2>3, <2>4
<1>4. MarkdownsOf(ps) = MarkdownsOf(qs)
  BY <1>1 DEF MarkdownsOf, Markdowns
<1>5. {SkillNames(ps[id]) : id \in DOMAIN ps} = {SkillNames(qs[id]) : id \in DOMAIN qs}
  BY <1>1 DEF SkillNames
<1> QED BY <1>3, <1>4, <1>5, Zenon DEF CoverageInputs

\* Two plugins that differ in the modes of their files.
LEMMA StrippedSame ==
  ASSUME NEW pl, NEW other, AsBytes(pl.content) = AsBytes(other.content), pl.envelope = other.envelope,
         pl.skillsDir = other.skillsDir,
         pl = [content |-> pl.content, envelope |-> pl.envelope, skillsDir |-> pl.skillsDir],
         other = [content |-> other.content, envelope |-> other.envelope, skillsDir |-> other.skillsDir]
  PROVE  [pl EXCEPT !.content = AsBytes(pl.content)] = [other EXCEPT !.content = AsBytes(other.content)]
<1> DEFINE t == AsBytes(pl.content)
<1> HIDE DEF t
<1>1. [pl EXCEPT !.content = t] = [content |-> t, envelope |-> pl.envelope, skillsDir |-> pl.skillsDir]
  OBVIOUS
<1>2. [other EXCEPT !.content = t] = [content |-> t, envelope |-> other.envelope, skillsDir |-> other.skillsDir]
  OBVIOUS
<1>3. [pl EXCEPT !.content = t] = [other EXCEPT !.content = t]
  BY <1>1, <1>2
<1> QED BY <1>3 DEF t

LEMMA StrippedIs ==
  ASSUME NEW pls
  PROVE  Stripped(pls) = [id \in DOMAIN pls |-> [pls[id] EXCEPT !.content = AsBytes(pls[id].content)]]
BY Zenon DEF Stripped

\* What --check accepts of what was baked from upstream has the bytes of what a bake of the
\* registry it is checked against publishes.
LEMMA AcceptedFresh ==
  ASSUME NEW r, Registered(r), \A v \in Range(Baking(r)) : VendorBakes(v, Pinned(v)),
         NEW b, Whole(b), b.lock \in {Empty, LockOf(r, FreshPlugins(r), FreshSkipped(r))},
         NEW reg, Registered(reg), NEW groups, NEW firsts, Accepts(b, reg, groups, firsts)
  PROVE  Bytewise(b) = Bytewise(Fresh(reg))
<1> DEFINE P == FreshPlugins(r)
           K == FreshSkipped(r)
           Q == FreshPlugins(reg)
           lock == LockOf(r, P, K)
<1>1. b.lock = lock
  <2>1. "vendors" \notin DOMAIN Empty
    BY DEF Empty
  <2>2. "vendors" \in DOMAIN b.lock
    BY DEF Accepts, LockParses
  <2> QED BY <2>1, <2>2
<1>2. /\ lock.vendors = LockVendors(r) /\ lock.files = FilesOf(P, Marketplace(r), CoverageOf(r, P, K))
      /\ lock.coverage = CoverageOf(r, P, K) /\ lock.inputs = CoverageInputs(r, P, K)
      /\ lock.ingest = IngestRecord(r, P)
      /\ lock = [vendors |-> lock.vendors, files |-> lock.files, coverage |-> lock.coverage,
                 inputs |-> lock.inputs, ingest |-> lock.ingest]
  BY LockFields DEF LockOf
<1> HIDE DEF P, K, Q, lock
<1>3. /\ lock.vendors = LockVendors(reg) /\ lock.files = Digests(b) /\ lock.ingest = IngestRecord(reg, b.plugins)
      /\ DOMAIN b.plugins = Declared(reg) /\ b.market = Marketplace(reg)
  BY <1>1 DEF Accepts, Recorded
<1>4. LockVendors(r) = LockVendors(reg)
  BY <1>2, <1>3
<1>5. DOMAIN Q = DOMAIN P /\ (\A id \in DOMAIN P : Q[id].content = P[id].content) /\ FreshSkipped(reg) = K
  BY <1>4, SameContent DEF P, Q, K
<1>6. /\ DOMAIN b.plugins = DOMAIN P
      /\ \A id \in DOMAIN P : AsBytes(b.plugins[id].content) = AsBytes(Q[id].content)
  <2> DEFINE f == [id \in DOMAIN b.plugins |-> <<AsBytes(b.plugins[id].content), b.plugins[id].envelope>>]
             g == [id \in DOMAIN P |-> <<AsBytes(P[id].content), P[id].envelope>>]
  <2>1. <<f, b.market, b.coverage>> = <<g, Marketplace(r), CoverageOf(r, P, K)>>
    BY <1>2, <1>3 DEF Digests, FilesOf
  <2>2. f = g
    <3> HIDE DEF f, g
    <3> QED BY <2>1
  <2>3. DOMAIN f = DOMAIN b.plugins /\ \A id \in DOMAIN f : f[id] = <<AsBytes(b.plugins[id].content), b.plugins[id].envelope>>
    OBVIOUS
  <2>4. DOMAIN g = DOMAIN P /\ \A id \in DOMAIN g : g[id] = <<AsBytes(P[id].content), P[id].envelope>>
    OBVIOUS
  <2> HIDE DEF f, g
  <2> QED BY <2>2, <2>3, <2>4, <1>5
<1>7. ASSUME NEW id \in DOMAIN P
      PROVE  /\ b.plugins[id].envelope = Q[id].envelope
             /\ [b.plugins[id] EXCEPT !.content = AsBytes(b.plugins[id].content)]
                  = [Q[id] EXCEPT !.content = AsBytes(Q[id].content)]
  <2>1. id \in Declared(reg) /\ PluginAccepted(reg, id, b.plugins[id])
    BY <1>3, <1>6 DEF Accepts
  <2>2. b.plugins[id].skillsDir = TRUE
    BY <2>1 DEF PluginAccepted, ExplodeNamesOk, BakePlugin
  <2>3. b.plugins[id].envelope = Envelope(Owner(reg, id), Slice(reg, id))
    BY <2>1 DEF PluginAccepted
  <2>4. Q[id] = [content |-> Q[id].content, envelope |-> Envelope(Owner(reg, id), Slice(reg, id)), skillsDir |-> TRUE]
    BY <2>1 DEF Q, FreshPlugins, BakePlugin
  <2>5. b.plugins[id] = [content |-> b.plugins[id].content, envelope |-> b.plugins[id].envelope,
                         skillsDir |-> b.plugins[id].skillsDir]
    BY <1>6 DEF Whole
  <2>6. Q[id].envelope = Envelope(Owner(reg, id), Slice(reg, id)) /\ Q[id].skillsDir = TRUE
    BY <2>4
  <2>7. Q[id] = [content |-> Q[id].content, envelope |-> Q[id].envelope, skillsDir |-> Q[id].skillsDir]
    BY <2>4, <2>6
  <2>8. AsBytes(b.plugins[id].content) = AsBytes(Q[id].content)
    BY <1>6
  <2>9. b.plugins[id].envelope = Q[id].envelope /\ b.plugins[id].skillsDir = Q[id].skillsDir
    BY <2>2, <2>3, <2>6
  <2> QED BY <2>5, <2>7, <2>8, <2>9, StrippedSame, Zenon
<1>8. Stripped(b.plugins) = Stripped(Q)
  <2> DEFINE h(pl) == [pl EXCEPT !.content = AsBytes(pl.content)]
  <2>1. Stripped(b.plugins) = [id \in DOMAIN b.plugins |-> h(b.plugins[id])] /\ Stripped(Q) = [id \in DOMAIN Q |-> h(Q[id])]
    BY StrippedIs
  <2>2. \A id \in DOMAIN P : h(b.plugins[id]) = h(Q[id])
    BY <1>7
  <2> HIDE DEF h
  <2> QED BY <2>1, <2>2, <1>5, <1>6
<1>9. IngestRecord(reg, b.plugins) = IngestRecord(reg, Q) /\ CoverageInputs(reg, b.plugins, K) = CoverageInputs(reg, Q, K)
  BY <1>3, <1>5, <1>6, BytesAlone, ZenonT(60)
<1>10. /\ b.coverage = CoverageOf(reg, Q, K) /\ lock.coverage = CoverageOf(reg, Q, K)
       /\ lock.inputs = CoverageInputs(reg, Q, K)
  <2>1. lock.inputs.skippedByVendor = K
    BY <1>2 DEF CoverageInputs
  <2>2. CoverageMatches(reg, b)
    BY DEF Accepts
  <2> QED BY <1>1, <1>9, <2>1, <2>2, Zenon DEF CoverageMatches, CoverageOf
<1>11. Digests(b) = FilesOf(Q, Marketplace(reg), CoverageOf(reg, Q, K))
  <2>1. [id \in DOMAIN b.plugins |-> <<AsBytes(b.plugins[id].content), b.plugins[id].envelope>>]
          = [id \in DOMAIN Q |-> <<AsBytes(Q[id].content), Q[id].envelope>>]
    BY <1>5, <1>6, <1>7
  <2> QED BY <1>3, <1>10, <2>1 DEF Digests, FilesOf
<1>12. lock = LockOf(reg, Q, K)
  <2>1. /\ lock.vendors = LockVendors(reg) /\ lock.files = FilesOf(Q, Marketplace(reg), CoverageOf(reg, Q, K))
        /\ lock.coverage = CoverageOf(reg, Q, K) /\ lock.inputs = CoverageInputs(reg, Q, K)
        /\ lock.ingest = IngestRecord(reg, Q)
    BY <1>3, <1>9, <1>10, <1>11
  <2> QED BY <1>2, <2>1 DEF LockOf
<1>13. ASSUME NEW c, c = [plugins |-> c.plugins, market |-> c.market, coverage |-> c.coverage, lock |-> c.lock]
       PROVE  Bytewise(c) = [plugins |-> Stripped(c.plugins), market |-> c.market, coverage |-> c.coverage, lock |-> c.lock]
  <2>1. Bytewise(c) = [c EXCEPT !.plugins = Stripped(c.plugins)]
    BY Zenon DEF Bytewise
  <2> QED BY <1>13, <2>1
<1>14. b = [plugins |-> b.plugins, market |-> b.market, coverage |-> b.coverage, lock |-> b.lock]
  BY DEF Whole
<1>15. Bytewise(b) = [plugins |-> Stripped(b.plugins), market |-> b.market, coverage |-> b.coverage, lock |-> b.lock]
  BY <1>13, <1>14
<1>16. Fresh(reg) = Publication(reg, Q, K)
  BY <1>5 DEF Fresh, Q
<1>17. PICK c : c = Fresh(reg)
  OBVIOUS
<1>18. /\ c.plugins = Q /\ c.market = Marketplace(reg) /\ c.coverage = CoverageOf(reg, Q, K) /\ c.lock = LockOf(reg, Q, K)
       /\ c = [plugins |-> c.plugins, market |-> c.market, coverage |-> c.coverage, lock |-> c.lock]
  BY <1>16, <1>17, PublicationFields, PublicationIs
<1>19. Bytewise(c) = [plugins |-> Stripped(Q), market |-> Marketplace(reg), coverage |-> CoverageOf(reg, Q, K), lock |-> LockOf(reg, Q, K)]
  BY <1>13, <1>18
<1> QED BY <1>1, <1>3, <1>8, <1>10, <1>12, <1>15, <1>17, <1>19

-----------------------------------------------------------------------------
(* The inductive invariant.                                                *)

\* The bake holds one registry from its start, and goes through it in order.
Reading ==
  /\ phase # "idle" => vendors \in Registry /\ given \in [VendorIds -> LocalTree \cup {None}]
  /\ Registered(vendors) /\ todo \subseteq DOMAIN Baking(vendors)
  /\ phase = "publish" => todo = {}

\* The tree at hand is the one it was given for the vendor whose turn it is, or upstream's.
Fetching ==
  /\ conn # None => todo # {} /\ given[Vendor.id] = None
  /\ tree # None => /\ todo # {} /\ tree \in LocalTree \cup {Pinned(Vendor)}
                    /\ given[Vendor.id] = None => tree = Pinned(Vendor)

Done == DOMAIN Baking(vendors) \ todo
StagedIds == UNION {Range(Ids(vendors[i].plugins)) : i \in Done}
Baked(i, t) ==
  LET v == vendors[i] IN
  /\ VendorBakes(v, t) /\ skipped[v.id] = SkippedIn(v, Prune(t, v))
  /\ \A id \in Range(Ids(v.plugins)) : staged[id] = BakePlugin(v, Prune(t, v), Slice(vendors, id))

\* What is staged is what the vendors that are done gave, and nothing else.
Staging ==
  /\ staged = [id \in StagedIds |-> staged[id]]
  /\ skipped = [id \in {vendors[i].id : i \in Done} |-> skipped[id]]
  /\ \A i \in Done : \E t \in LocalTree \cup {Pinned(vendors[i])} :
       Baked(i, t) /\ (given[vendors[i].id] = None => t = Pinned(vendors[i]))

\* What is published, if from upstream alone, has the record of a registry that bakes,
\* or none, until BAKE.json is rewritten.
OnDisk ==
  baked # None /\ ~offline /\ ~forged =>
    \E r \in Registry :
      /\ Registered(r) /\ \A v \in Range(Baking(r)) : VendorBakes(v, Pinned(v))
      /\ Whole(baked) /\ baked.lock \in {Empty, LockOf(r, FreshPlugins(r), FreshSkipped(r))}

IInv == TypeOK /\ Reading /\ Fetching /\ Staging /\ OnDisk

LEMMA InitIInv == Init => IInv
<1> SUFFICES ASSUME Init PROVE IInv
  OBVIOUS
<1>1. DOMAIN << >> = {}
  <2>1. << >> \in Seq({}) /\ Len(<< >>) = 0
    OBVIOUS
  <2> QED BY <2>1
<1>2. DOMAIN vendors = {} /\ DOMAIN Plugins(vendors) = {} /\ DOMAIN Baking(vendors) = {} /\ Range(vendors) = {}
  BY <1>1 DEF Init, Plugins, Flat, Places, Baking, Range
<1>3. Registered(vendors)
  <2>1. vendors \in Seq(Range(vendors))
    BY DEF Init
  <2>2. Distinct(Ids(vendors)) /\ Distinct(Ids(Plugins(vendors)))
    BY <1>2, IdsOf DEF Distinct
  <2> QED BY <1>2, <2>1, <2>2 DEF Registered
<1>4. Done = {} /\ StagedIds = {} /\ todo = {}
  BY <1>2 DEF Done, StagedIds, Init
<1>5. TypeOK
  BY DEF Init, TypeOK, Empty
<1>6. Reading /\ Fetching
  BY <1>3, <1>4 DEF Reading, Fetching, Init
<1>7. Staging
  BY <1>4 DEF Staging, Init, Empty
<1>8. OnDisk
  BY DEF OnDisk, Init
<1> QED BY <1>5, <1>6, <1>7, <1>8 DEF IInv

\* The vendor whose turn it is.
LEMMA Turn ==
  ASSUME Reading, todo # {}
  PROVE  /\ Min(todo) \in todo /\ Min(todo) \in DOMAIN Baking(vendors) /\ Min(todo) \in DOMAIN vendors
         /\ Vendor = vendors[Min(todo)] /\ Vendor \in Range(vendors)
         /\ phase # "idle" => Vendor.id \in VendorIds
<1>1. vendors \in Seq(Range(vendors)) /\ todo \subseteq DOMAIN Baking(vendors)
  BY DEF Reading, Registered
<1>2. todo \subseteq DOMAIN vendors
  BY <1>1, BakingOf
<1>3. todo \in SUBSET Nat
  BY <1>1, <1>2
<1>4. Min(todo) \in todo
  BY <1>3, LeastIn
<1>5. Vendor = vendors[Min(todo)] /\ Vendor \in Range(vendors)
  BY <1>2, <1>4 DEF Vendor, Range
<1>6. ASSUME phase # "idle"
      PROVE  Vendor.id \in VendorIds
  BY <1>5, <1>6 DEF Reading, VendorIds
<1> QED BY <1>1, <1>2, <1>4, <1>5, <1>6

\* A step that leaves the bake's registry and what it staged.
LEMMA KeepsStaging ==
  ASSUME Staging, UNCHANGED <<vendors, todo, given, staged, skipped>>
  PROVE  Staging'
<1>1. vendors' = vendors /\ todo' = todo /\ given' = given /\ staged' = staged /\ skipped' = skipped
  OBVIOUS
<1>2. Done' = Done /\ StagedIds' = StagedIds
  BY <1>1 DEF Done, StagedIds
<1>3. \A i, t : Baked(i, t)' <=> Baked(i, t)
  BY <1>1, Zenon DEF Baked
<1>4. \A i \in Done : \E t \in LocalTree \cup {Pinned(vendors[i])} :
        Baked(i, t)' /\ (given[vendors[i].id] = None => t = Pinned(vendors[i]))
  BY <1>3 DEF Staging
<1>5. staged = [id \in StagedIds |-> staged[id]] /\ skipped = [id \in {vendors[i].id : i \in Done} |-> skipped[id]]
  BY DEF Staging
<1> QED BY <1>1, <1>2, <1>4, <1>5 DEF Staging

LEMMA KeepsDisk ==
  ASSUME OnDisk, UNCHANGED <<baked, offline, forged>>
  PROVE  OnDisk'
BY DEF OnDisk

LEMMA KeepsTypes ==
  ASSUME TypeOK, UNCHANGED <<author, leftover, offline, forged, vendors, staged, skipped>>,
         phase' \in {"idle", "vendor", "publish"}, outcome' \in {"none", "ok", "failed"},
         conn' \in [host : AllowedHosts, left : 0..MaxRedirects] \cup {None},
         conn' # None => phase' = "vendor" /\ tree' = None
  PROVE  TypeOK'
BY DEF TypeOK, author

\* A step that waits, or that ends the bake.
LEMMA Pauses ==
  ASSUME IInv, UNCHANGED <<author, vendors, todo, given, staged, skipped, tree>>,
         (UNCHANGED <<phase, conn>> /\ outcome' \in {"none", "ok", "failed"}) \/ Fail
  PROVE  Reading' /\ Fetching' /\ Staging' /\ phase' \in {"idle", "vendor", "publish"} /\ outcome' \in {"none", "ok", "failed"}
         /\ conn' \in [host : AllowedHosts, left : 0..MaxRedirects] \cup {None}
         /\ (conn' # None => phase' = "vendor" /\ tree' = None)
<1>1. Staging'
  BY KeepsStaging DEF IInv
<1>2. Reading'
  BY DEF IInv, Reading, Fail
<1>3. Fetching'
  BY DEF IInv, Fetching, Vendor, Fail
<1>4. phase' \in {"idle", "vendor", "publish"} /\ outcome' \in {"none", "ok", "failed"}
  BY DEF IInv, TypeOK, Fail
<1>5. conn' \in [host : AllowedHosts, left : 0..MaxRedirects] \cup {None} /\ (conn' # None => phase' = "vendor" /\ tree' = None)
  BY DEF IInv, TypeOK, Fail
<1> QED BY <1>1, <1>2, <1>3, <1>4, <1>5

LEMMA EndsBake ==
  ASSUME IInv, UNCHANGED <<author, disk, vendors, todo, given, staged, skipped, tree>>, Fail
  PROVE  IInv'
<1>1. OnDisk'
  BY KeepsDisk DEF IInv, disk
<1>2. TypeOK'
  BY KeepsTypes, Pauses DEF IInv, disk
<1> QED BY <1>1, <1>2, Pauses DEF IInv

LEMMA StartIInv ==
  ASSUME IInv, NEW ts \in Trees, Start(ts)
  PROVE  IInv'
<1>1. UNCHANGED <<author, disk>>
  BY DEF Start
<1>2. OnDisk'
  BY <1>1, KeepsDisk DEF IInv, disk
<1>3. CASE Begin(ts) /\ Loads(registry, group)
  <2>1. /\ vendors' = registry /\ todo' = DOMAIN Baking(registry) /\ given' = ts /\ conn' = None /\ tree' = None
        /\ staged' = Empty /\ skipped' = Empty /\ phase' = "vendor" /\ outcome' = "none"
    BY <1>3 DEF Begin
  <2>2. registry \in Registry /\ Registered(registry)
    BY <1>3, LoadedRegistered DEF IInv, TypeOK
  <2>3. Reading'
    BY <2>1, <2>2 DEF Reading, Trees
  <2>4. Fetching'
    BY <2>1 DEF Fetching
  <2>5. Done' = {} /\ StagedIds' = {}
    BY <2>1 DEF Done, StagedIds
  <2>6. Staging'
    BY <2>1, <2>5 DEF Staging, Empty
  <2>7. TypeOK'
    <3>1. DOMAIN Empty = {}
      BY DEF Empty
    <3> QED BY <2>1, <3>1, <1>1 DEF IInv, TypeOK, author, disk
  <2> QED BY <2>3, <2>4, <2>6, <2>7, <1>2 DEF IInv
<1>4. CASE UNCHANGED <<run, phase>> /\ outcome' = "failed"
  <2>1. UNCHANGED <<vendors, todo, given, conn, tree, staged, skipped, phase>>
    BY <1>4 DEF run
  <2>2. TypeOK'
    BY <1>1, <1>4, <2>1 DEF IInv, TypeOK, author, disk
  <2>3. Reading' /\ Fetching' /\ Staging'
    BY <1>1, <1>4, <2>1, Pauses
  <2> QED BY <2>2, <2>3, <1>2 DEF IInv
<1> QED BY <1>3, <1>4 DEF Start

\* A step that brings the tree nearer.
LEMMA FetchIInv ==
  ASSUME IInv, Keeps, UNCHANGED <<phase, outcome>>, phase = "vendor", todo # {},
         \/ conn' = conn /\ given[Vendor.id] # None /\ tree' = given[Vendor.id] /\ conn = None
         \/ conn' = None /\ given[Vendor.id] = None /\ tree' = Pinned(Vendor)
         \/ /\ tree' = tree /\ tree = None /\ given[Vendor.id] = None
            /\ conn' \in [host : AllowedHosts, left : 0..MaxRedirects]
  PROVE  IInv'
<1>1. UNCHANGED <<author, disk, vendors, todo, given, staged, skipped>>
  BY DEF Keeps
<1>2. OnDisk' /\ Staging'
  BY <1>1, KeepsDisk, KeepsStaging DEF IInv, disk
<1>3. Reading'
  BY <1>1 DEF IInv, Reading
<1>4. Vendor' = Vendor
  BY <1>1 DEF Vendor
<1>5. given[Vendor.id] # None => given[Vendor.id] \in LocalTree
  <2>1. Vendor.id \in VendorIds
    BY Turn DEF IInv
  <2> QED BY <2>1 DEF IInv, Reading
<1>6. Fetching'
  BY <1>1, <1>4, <1>5 DEF Fetching
<1>7. TypeOK'
  <2>1. conn' \in [host : AllowedHosts, left : 0..MaxRedirects] \cup {None} /\ (conn' # None => phase' = "vendor" /\ tree' = None)
    BY DEF IInv, TypeOK
  <2> QED BY <1>1, <2>1, KeepsTypes DEF IInv, TypeOK, disk
<1> QED BY <1>2, <1>3, <1>6, <1>7 DEF IInv

\* A vendor is staged.
LEMMA IngestedIInv ==
  ASSUME IInv, phase = "vendor", todo # {}, tree # None, VendorBakes(Vendor, tree),
         staged' = Extend(staged, [id \in Range(Ids(Vendor.plugins)) |-> BakePlugin(Vendor, Prune(tree, Vendor), Slice(vendors, id))]),
         skipped' = Extend(skipped, [id \in {Vendor.id} |-> SkippedIn(Vendor, Prune(tree, Vendor))]),
         todo' = todo \ {Min(todo)}, tree' = None, UNCHANGED <<conn, phase, outcome, author, disk, vendors, given>>
  PROVE  IInv'
<1>0. PICK k, x0, t, new, one :
        /\ k = Min(todo) /\ x0 = tree /\ t = Prune(tree, vendors[k])
        /\ new = [id \in Range(Ids(vendors[k].plugins)) |-> BakePlugin(vendors[k], t, Slice(vendors, id))]
        /\ one = [id \in {vendors[k].id} |-> SkippedIn(vendors[k], t)]
  OBVIOUS
<1> DEFINE v == vendors[k]
<1>1. /\ k \in todo /\ k \in DOMAIN Baking(vendors) /\ k \in DOMAIN vendors /\ Vendor = v
  BY <1>0, Turn DEF IInv
<1>2. /\ staged' = Extend(staged, new) /\ skipped' = Extend(skipped, one) /\ VendorBakes(v, x0) /\ t = Prune(x0, v)
  BY <1>0, <1>1
<1>3. /\ DOMAIN new = Range(Ids(v.plugins)) /\ \A id \in Range(Ids(v.plugins)) : new[id] = BakePlugin(v, t, Slice(vendors, id))
      /\ DOMAIN one = {v.id} /\ one[v.id] = SkippedIn(v, t)
  BY <1>0
<1>4. conn = None /\ x0 \in LocalTree \cup {Pinned(v)} /\ (given[v.id] = None => x0 = Pinned(v))
  BY <1>0, <1>1 DEF IInv, TypeOK, Fetching
<1>5. Done \subseteq DOMAIN vendors /\ Done' = Done \cup {k} /\ k \notin Done
  BY <1>0, <1>1, BakingOf DEF Done
<1>6. StagedIds' = StagedIds \cup Range(Ids(v.plugins))
  BY <1>5 DEF StagedIds
<1>7. ASSUME NEW i \in Done
      PROVE  v.id # vendors[i].id /\ Range(Ids(v.plugins)) \cap Range(Ids(vendors[i].plugins)) = {}
  <2>1. i # k /\ i \in DOMAIN vendors
    BY <1>5
  <2>2. v.id # vendors[i].id
    <3>1. Distinct(Ids(vendors))
      BY DEF IInv, Reading, Registered
    <3> QED BY <1>1, <2>1, <3>1, IdsOf DEF Distinct
  <2>3. ASSUME NEW id \in Range(Ids(v.plugins))
        PROVE  id \notin Range(Ids(vendors[i].plugins))
    <3>1. PICK j \in DOMAIN vendors[k].plugins : id = vendors[k].plugins[j].id
      BY <1>1, IdsOf
    <3>2. Distinct(Ids(Plugins(vendors)))
      BY DEF IInv, Reading, Registered
    <3> QED BY <1>1, <2>1, <3>1, <3>2, Located
  <2> QED BY <2>2, <2>3
<1>8. /\ DOMAIN staged = StagedIds /\ DOMAIN skipped = {vendors[i].id : i \in Done}
      /\ \A id \in Range(Ids(v.plugins)) : id \notin StagedIds
      /\ v.id \notin DOMAIN skipped
  BY <1>7 DEF IInv, Staging, StagedIds
<1>9. /\ staged' = [id \in StagedIds' |-> staged'[id]]
      /\ \A id \in StagedIds : staged'[id] = staged[id]
      /\ \A id \in Range(Ids(v.plugins)) : staged'[id] = new[id]
  <2>1. /\ DOMAIN staged' = DOMAIN staged \cup DOMAIN new
        /\ staged' = [x \in DOMAIN staged \cup DOMAIN new |-> staged'[x]]
        /\ \A x \in DOMAIN staged : staged'[x] = staged[x]
        /\ \A x \in DOMAIN new : x \notin DOMAIN staged => staged'[x] = new[x]
    <3>1. staged' = [x \in DOMAIN staged \cup DOMAIN new |-> IF x \in DOMAIN staged THEN staged[x] ELSE new[x]]
      BY <1>2, Zenon DEF Extend
    <3> QED BY <3>1
  <2>2. DOMAIN staged \cup DOMAIN new = StagedIds'
    BY <1>3, <1>6, <1>8
  <2> HIDE DEF v
  <2> QED BY <2>1, <2>2, <1>3, <1>8
<1>10. /\ skipped' = [id \in DOMAIN skipped \cup {v.id} |-> skipped'[id]]
       /\ \A id \in DOMAIN skipped : skipped'[id] = skipped[id]
       /\ skipped'[v.id] = one[v.id]
  <2>1. /\ skipped' = [x \in DOMAIN skipped \cup DOMAIN one |-> skipped'[x]]
        /\ \A x \in DOMAIN skipped : skipped'[x] = skipped[x]
        /\ \A x \in DOMAIN one : x \notin DOMAIN skipped => skipped'[x] = one[x]
    <3>1. skipped' = [x \in DOMAIN skipped \cup DOMAIN one |-> IF x \in DOMAIN skipped THEN skipped[x] ELSE one[x]]
      BY <1>2, Zenon DEF Extend
    <3> QED BY <3>1
  <2> HIDE DEF v
  <2> QED BY <2>1, <1>3, <1>8
<1>11. DOMAIN skipped \cup {v.id} = {vendors'[i].id : i \in Done'}
  BY <1>5, <1>8
<1>12. Baked(k, x0)'
  <2>1. VendorBakes(v, x0) /\ skipped'[v.id] = SkippedIn(v, t)
    BY <1>2, <1>3, <1>10
  <2>2. \A id \in Range(Ids(v.plugins)) : staged'[id] = BakePlugin(v, t, Slice(vendors, id))
    BY <1>3, <1>9
  <2>3. vendors' = vendors /\ vendors'[k] = v
    OBVIOUS
  <2> QED BY <1>2, <2>1, <2>2, <2>3 DEF Baked
<1>13. ASSUME NEW i \in Done, NEW x, Baked(i, x)
       PROVE  Baked(i, x)'
  <2>1. skipped'[vendors[i].id] = skipped[vendors[i].id]
    BY <1>8, <1>10
  <2>2. \A id \in Range(Ids(vendors[i].plugins)) : staged'[id] = staged[id]
    BY <1>9 DEF StagedIds
  <2> QED BY <2>1, <2>2, <1>13 DEF Baked
<1>14. ASSUME NEW i \in Done'
       PROVE  \E x \in LocalTree \cup {Pinned(vendors'[i])} :
                Baked(i, x)' /\ (given'[vendors'[i].id] = None => x = Pinned(vendors'[i]))
  <2>1. CASE i = k
    <3>1. vendors'[k] = v /\ given' = given
      OBVIOUS
    <3>2. Baked(i, x0)'
      BY <1>12, <2>1
    <3> QED BY <1>4, <2>1, <3>1, <3>2
  <2>2. CASE i \in Done
    <3>1. PICK x \in LocalTree \cup {Pinned(vendors[i])} : Baked(i, x) /\ (given[vendors[i].id] = None => x = Pinned(vendors[i]))
      BY <2>2 DEF IInv, Staging
    <3>2. Baked(i, x)'
      BY <1>13, <2>2, <3>1
    <3> QED BY <3>1, <3>2
  <2> QED BY <1>5, <2>1, <2>2
<1>15. Staging'
  BY <1>9, <1>10, <1>11, <1>14 DEF Staging
<1>16. Reading'
  BY <1>1 DEF IInv, Reading
<1>17. Fetching'
  BY <1>4 DEF Fetching
<1>18. OnDisk'
  BY KeepsDisk DEF IInv, disk
<1>19. DOMAIN staged' \subseteq Declared(vendors') /\ DOMAIN skipped' \subseteq Range(Ids(vendors'))
  <2>1. DOMAIN staged' = StagedIds'
    BY <1>9
  <2>0. DOMAIN skipped' = {vendors[i].id : i \in Done'}
    <3>1. DOMAIN skipped' = DOMAIN skipped \cup {v.id}
      BY <1>10
    <3> QED BY <3>1, <1>11
  <2>2. Done' \subseteq DOMAIN vendors
    BY <1>1, <1>5
  <2>3. StagedIds' \subseteq Declared(vendors)
    BY <2>2, DeclaredIds DEF StagedIds
  <2>4. {vendors[i].id : i \in Done'} \subseteq Range(Ids(vendors))
    BY <2>2, IdsOf
  <2> QED BY <2>0, <2>1, <2>3, <2>4
<1>20. TypeOK'
  BY <1>4, <1>19 DEF IInv, TypeOK, author, disk
<1> QED BY <1>15, <1>16, <1>17, <1>18, <1>20 DEF IInv

\* At the end of a bake from upstream alone, what is staged is what a bake publishes.
LEMMA AllStaged ==
  ASSUME IInv, phase = "publish", \A i \in DOMAIN Baking(vendors) : given[vendors[i].id] = None
  PROVE  /\ staged = FreshPlugins(vendors) /\ skipped = FreshSkipped(vendors)
         /\ \A v \in Range(Baking(vendors)) : VendorBakes(v, Pinned(v))
<1>1. Done = DOMAIN Baking(vendors) /\ Done \subseteq DOMAIN vendors
  BY BakingOf DEF IInv, Reading, Done
<1>2. \A i \in Done : Baked(i, Pinned(vendors[i]))
  BY <1>1 DEF IInv, Staging
<1>3. Distinct(Ids(vendors)) /\ Distinct(Ids(Plugins(vendors)))
  BY DEF IInv, Reading, Registered
<1>4. ASSUME NEW id \in StagedIds
      PROVE  staged[id] = LET v == Owner(vendors, id) IN BakePlugin(v, Upstream(v), Slice(vendors, id))
  <2>1. PICK i \in Done : id \in Range(Ids(vendors[i].plugins))
    BY DEF StagedIds
  <2>2. i \in DOMAIN vendors
    BY <1>1
  <2>3. PICK j \in DOMAIN vendors[i].plugins : id = vendors[i].plugins[j].id
    BY <2>1, IdsOf
  <2>4. Owner(vendors, id) = vendors[i]
    BY <2>2, <2>3, <1>3, Located
  <2>5. staged[id] = BakePlugin(vendors[i], Prune(Pinned(vendors[i]), vendors[i]), Slice(vendors, id))
    BY <1>2, <2>1 DEF Baked
  <2> QED BY <2>4, <2>5 DEF Upstream
<1>5. StagedIds = Declared(vendors)
  <2>1. ASSUME NEW i \in DOMAIN vendors, NEW id \in Range(Ids(vendors[i].plugins))
        PROVE  i \in Done
    <3>1. DOMAIN vendors[i].plugins # {}
      BY IdsOf
    <3> QED BY <3>1, <1>1, BakingOf
  <2>2. \A id \in Declared(vendors) : id \in StagedIds
    BY <2>1, DeclaredIds DEF StagedIds
  <2>3. \A id \in StagedIds : id \in Declared(vendors)
    BY <1>1, DeclaredIds DEF StagedIds
  <2> QED BY <2>2, <2>3
<1>6. staged = FreshPlugins(vendors)
  BY <1>4, <1>5 DEF FreshPlugins, IInv, Staging
<1>7. ASSUME NEW id \in Range(Ids(Baking(vendors)))
      PROVE  skipped[id] = LET v == CHOOSE v \in Range(vendors) : v.id = id IN SkippedIn(v, Upstream(v))
  <2>1. Range(Ids(Baking(vendors))) = {vendors[i].id : i \in Done}
    BY <1>1, BakingOf
  <2>2. PICK i \in Done : id = vendors[i].id
    BY <2>1
  <2>3. (CHOOSE v \in Range(vendors) : v.id = id) = vendors[i]
    BY <2>2, <1>1, <1>3, Found
  <2>4. skipped[id] = SkippedIn(vendors[i], Prune(Pinned(vendors[i]), vendors[i]))
    BY <1>2, <2>2 DEF Baked
  <2> QED BY <2>3, <2>4 DEF Upstream
<1>8. skipped = FreshSkipped(vendors)
  <2>1. {vendors[i].id : i \in Done} = Range(Ids(Baking(vendors)))
    BY <1>1, BakingOf
  <2>2. skipped = [id \in Range(Ids(Baking(vendors))) |-> skipped[id]]
    BY <2>1 DEF IInv, Staging
  <2> QED BY <2>2, <1>7 DEF FreshSkipped
<1>9. ASSUME NEW v \in Range(Baking(vendors))
      PROVE  VendorBakes(v, Pinned(v))
  <2>1. PICK i \in DOMAIN Baking(vendors) : v = Baking(vendors)[i]
    BY DEF Range
  <2>2. v = vendors[i] /\ i \in Done
    BY <2>1, <1>1, BakingOf
  <2> QED BY <2>2, <1>2 DEF Baked
<1> QED BY <1>6, <1>8, <1>9

\* The publication step.
LEMMA PublishIInv ==
  ASSUME IInv, Publish, ~leftover
  PROVE  IInv'
<1>1. /\ UNCHANGED <<author, vendors, todo, given, conn, tree, staged, skipped, leftover>>
      /\ phase = "publish" /\ phase' = "idle" /\ outcome' = "ok" /\ forged' = FALSE
      /\ baked' = Publication(vendors, staged, skipped)
      /\ offline' = \E v \in Range(Baking(vendors)) : given[v.id] # None
  BY DEF Publish
<1>2. Reading' /\ Staging'
  BY <1>1, KeepsStaging DEF IInv, Reading
<1>3. Fetching' /\ conn = None
  BY <1>1 DEF IInv, TypeOK, Fetching, Vendor
<1>4. TypeOK'
  BY <1>1, <1>3 DEF IInv, TypeOK, author
<1>5. ASSUME ~offline'
      PROVE  OnDisk'
  <2>1. \A i \in DOMAIN Baking(vendors) : given[vendors[i].id] = None
    BY <1>1, <1>5, BakingOf
  <2>2. /\ staged = FreshPlugins(vendors) /\ skipped = FreshSkipped(vendors)
        /\ \A v \in Range(Baking(vendors)) : VendorBakes(v, Pinned(v))
    BY <2>1, <1>1, AllStaged
  <2>3. baked' = Fresh(vendors)
    BY <2>2, <1>1 DEF Fresh
  <2>4. Whole(baked') /\ baked'.lock = LockOf(vendors, FreshPlugins(vendors), FreshSkipped(vendors))
    BY <2>3, FreshWhole
  <2>5. vendors \in Registry /\ Registered(vendors)
    BY <1>1 DEF IInv, Reading
  <2> QED BY <2>2, <2>4, <2>5 DEF OnDisk
<1>6. OnDisk'
  BY <1>5 DEF OnDisk
<1> QED BY <1>2, <1>3, <1>4, <1>6 DEF IInv

\* Hand edits leave the record, or none of it.
LEMMA EditedWhole ==
  ASSUME NEW b, Whole(b), NEW c \in HandEdits(b)
  PROVE  Whole(c) /\ c.lock \in {Empty, b.lock}
<1>0. b = [plugins |-> b.plugins, market |-> b.market, coverage |-> b.coverage, lock |-> b.lock]
  BY DEF Whole
<1>1. CASE c = [b EXCEPT !.lock = Empty]
  BY <1>0, <1>1 DEF Whole
<1>2. ASSUME NEW id \in DOMAIN b.plugins, c = [b EXCEPT !.plugins = [i \in DOMAIN b.plugins \ {id} |-> b.plugins[i]]]
      PROVE  Whole(c) /\ c.lock = b.lock
  <2> DEFINE pls == [i \in DOMAIN b.plugins \ {id} |-> b.plugins[i]]
  <2>1. DOMAIN pls = DOMAIN b.plugins \ {id} /\ \A i \in DOMAIN pls : pls[i] = b.plugins[i]
    OBVIOUS
  <2>2. pls = [i \in DOMAIN pls |-> pls[i]]
    OBVIOUS
  <2> HIDE DEF pls
  <2>3. c = [plugins |-> pls, market |-> b.market, coverage |-> b.coverage, lock |-> b.lock]
    BY <1>0, <1>2 DEF pls
  <2> QED BY <2>1, <2>2, <2>3 DEF Whole
<1>3. ASSUME NEW id \in DOMAIN b.plugins, NEW content, c = [b EXCEPT !.plugins[id].content = content]
      PROVE  Whole(c) /\ c.lock = b.lock
  <2> DEFINE pl == b.plugins[id]
             new == [content |-> content, envelope |-> pl.envelope, skillsDir |-> pl.skillsDir]
             pls == [b.plugins EXCEPT ![id] = new]
  <2>1. [pl EXCEPT !.content = content] = new
    BY DEF Whole
  <2>2. /\ DOMAIN pls = DOMAIN b.plugins /\ pls = [i \in DOMAIN pls |-> pls[i]]
        /\ \A i \in DOMAIN pls : pls[i] = IF i = id THEN new ELSE b.plugins[i]
    BY DEF Whole
  <2>3. new = [content |-> new.content, envelope |-> new.envelope, skillsDir |-> new.skillsDir]
    OBVIOUS
  <2> HIDE DEF new, pls
  <2>4. c = [plugins |-> pls, market |-> b.market, coverage |-> b.coverage, lock |-> b.lock]
    BY <1>0, <1>3, <2>1 DEF pls
  <2> QED BY <2>2, <2>3, <2>4 DEF Whole
<1>4. CASE c = [b EXCEPT !.coverage = None]
  BY <1>0, <1>4 DEF Whole
<1>5. \/ c = [b EXCEPT !.lock = Empty] \/ c = [b EXCEPT !.coverage = None]
      \/ \E id \in DOMAIN b.plugins : c = [b EXCEPT !.plugins = [i \in DOMAIN b.plugins \ {id} |-> b.plugins[i]]]
      \/ \E id \in DOMAIN b.plugins : \E t : c = [b EXCEPT !.plugins[id].content = t]
  <2> DEFINE lost == [b EXCEPT !.lock = Empty]
             bare == [b EXCEPT !.coverage = None]
             without(id) == [b EXCEPT !.plugins = [i \in DOMAIN b.plugins \ {id} |-> b.plugins[i]]]
             edited(id, t) == [b EXCEPT !.plugins[id].content = t]
  <2>1. HandEdits(b) =
          {lost, bare} \cup {without(id) : id \in DOMAIN b.plugins}
          \cup UNION {{edited(id, t) : t \in FileEdits(b.plugins[id].content)} : id \in DOMAIN b.plugins}
    BY Zenon DEF HandEdits
  <2> HIDE DEF lost, bare, without, edited
  <2>2. \/ c = lost \/ c = bare
        \/ \E id \in DOMAIN b.plugins : c = without(id)
        \/ \E id \in DOMAIN b.plugins : \E t : c = edited(id, t)
    BY <2>1
  <2> QED BY <2>2, Zenon DEF lost, bare, without, edited
<1> QED BY <1>1, <1>2, <1>3, <1>4, <1>5

LEMMA WholeOf ==
  ASSUME NEW pls, NEW market, NEW coverage, NEW lock, pls = [i \in DOMAIN pls |-> pls[i]],
         \A i \in DOMAIN pls : pls[i] = [content |-> pls[i].content, envelope |-> pls[i].envelope, skillsDir |-> pls[i].skillsDir]
  PROVE  LET c == [plugins |-> pls, market |-> market, coverage |-> coverage, lock |-> lock]
         IN Whole(c) /\ c.lock = lock
BY DEF Whole

LEMMA ClonedWhole ==
  ASSUME NEW b, Whole(b), NEW id \in DOMAIN b.plugins, NEW c, NEW there, c = [b EXCEPT !.plugins[id].skillsDir = there]
  PROVE  Whole(c) /\ c.lock = b.lock
<1> DEFINE pl == b.plugins[id]
           new == [content |-> pl.content, envelope |-> pl.envelope, skillsDir |-> there]
           pls == [b.plugins EXCEPT ![id] = new]
<1>1. [pl EXCEPT !.skillsDir = there] = new
  BY DEF Whole
<1>2. /\ DOMAIN pls = DOMAIN b.plugins /\ pls = [i \in DOMAIN pls |-> pls[i]]
      /\ \A i \in DOMAIN pls : pls[i] = IF i = id THEN new ELSE b.plugins[i]
  BY DEF Whole
<1>3. new = [content |-> new.content, envelope |-> new.envelope, skillsDir |-> new.skillsDir]
  OBVIOUS
<1> HIDE DEF new, pls
<1>4. b = [plugins |-> b.plugins, market |-> b.market, coverage |-> b.coverage, lock |-> b.lock]
  BY DEF Whole
<1>5. c = [plugins |-> pls, market |-> b.market, coverage |-> b.coverage, lock |-> b.lock]
  BY <1>1, <1>4 DEF pls
<1>6. \A i \in DOMAIN pls : pls[i] = [content |-> pls[i].content, envelope |-> pls[i].envelope, skillsDir |-> pls[i].skillsDir]
  <2> SUFFICES ASSUME NEW i \in DOMAIN pls
               PROVE  pls[i] = [content |-> pls[i].content, envelope |-> pls[i].envelope, skillsDir |-> pls[i].skillsDir]
    OBVIOUS
  <2>1. CASE i = id
    BY <1>2, <1>3, <2>1, Zenon
  <2>2. CASE i # id
    <3>1. pls[i] = b.plugins[i] /\ i \in DOMAIN b.plugins
      BY <1>2, <2>2, Zenon
    <3> QED BY <3>1, Zenon DEF Whole
  <2> QED BY <2>1, <2>2
<1>7. LET d == [plugins |-> pls, market |-> b.market, coverage |-> b.coverage, lock |-> b.lock]
      IN Whole(d) /\ d.lock = b.lock
  BY <1>2, <1>6, WholeOf
<1> QED BY <1>5, <1>7, Zenon

\* A published tree that is edited.
LEMMA EditsDisk ==
  ASSUME OnDisk, baked # None, UNCHANGED <<offline, forged>>,
         Whole(baked) => Whole(baked') /\ baked'.lock \in {Empty, baked.lock}
  PROVE  OnDisk'
<1> SUFFICES ASSUME ~offline, ~forged PROVE OnDisk'
  BY DEF OnDisk
<1>1. PICK r \in Registry :
        /\ Registered(r) /\ \A v \in Range(Baking(r)) : VendorBakes(v, Pinned(v))
        /\ Whole(baked) /\ baked.lock \in {Empty, LockOf(r, FreshPlugins(r), FreshSkipped(r))}
  BY DEF OnDisk
<1>2. Whole(baked') /\ baked'.lock \in {Empty, LockOf(r, FreshPlugins(r), FreshSkipped(r))}
  BY <1>1
<1> QED BY <1>1, <1>2 DEF OnDisk

LEMMA MeanwhileIInv ==
  ASSUME IInv, Meanwhile
  PROVE  IInv'
<1>1. /\ UNCHANGED <<run, phase, outcome>>
      /\ registry' \in Registry /\ group' \in Group /\ firstParty' \in FirstParty
      /\ leftover' \in BOOLEAN /\ offline' = offline /\ forged' \in BOOLEAN
  BY DEF Meanwhile, Edit, EditRegistry, EditGroups, EditSkills, HandEdit, Forge, Clone, RemoveLeftover, IInv, TypeOK, author, disk
<1>2. UNCHANGED <<vendors, todo, given, conn, tree, staged, skipped>>
  BY <1>1 DEF run
<1>3. TypeOK'
  BY <1>1, <1>2 DEF IInv, TypeOK
<1>4. Reading' /\ Staging'
  BY <1>1, <1>2, KeepsStaging DEF IInv, Reading
<1>5. Fetching'
  BY <1>2 DEF IInv, Fetching, Vendor
<1>6. OnDisk'
  <2>1. CASE UNCHANGED <<baked, forged>>
    BY <1>1, <2>1, KeepsDisk DEF IInv
  <2>2. CASE HandEdit
    <3>1. baked # None /\ baked' \in HandEdits(baked) /\ forged' = forged
      BY <2>2 DEF HandEdit
    <3>2. Whole(baked) => Whole(baked') /\ baked'.lock \in {Empty, baked.lock}
      BY <3>1, EditedWhole
    <3> QED BY <1>1, <3>1, <3>2, EditsDisk DEF IInv
  <2>3. CASE Clone
    <3>1. PICK id \in DOMAIN baked.plugins : baked' = [baked EXCEPT !.plugins[id].skillsDir = FALSE]
      BY <2>3 DEF Clone
    <3>2. baked # None /\ forged' = forged
      BY <2>3 DEF Clone
    <3>3. Whole(baked) => Whole(baked') /\ baked'.lock \in {Empty, baked.lock}
      BY <3>1, ClonedWhole
    <3> QED BY <1>1, <3>2, <3>3, EditsDisk DEF IInv
  <2>4. CASE Forge
    BY <2>4 DEF Forge, OnDisk
  <2> QED BY <2>1, <2>2, <2>3, <2>4 DEF Meanwhile, EditRegistry, EditGroups, EditSkills, RemoveLeftover, disk
<1> QED BY <1>3, <1>4, <1>5, <1>6 DEF IInv

LEMMA BakeStepIInv ==
  ASSUME IInv, BakeStep
  PROVE  IInv'
<1>0. MaxRedirects \in 0..MaxRedirects /\ "api.github.com" \in AllowedHosts
  BY MaxRedirectsAssumption DEF AllowedHosts
<1>1. CASE UseGiven
  <2>1. given[Vendor.id] # None /\ conn = None
    BY <1>1 DEF UseGiven, IInv, Fetching
  <2> QED BY <1>1, <2>1, FetchIInv DEF UseGiven, Busy
<1>2. CASE UseCache
  BY <1>2, FetchIInv DEF UseCache, Busy, Served, Pinned
<1>3. CASE Request
  <2>1. conn' \in [host : AllowedHosts, left : 0..MaxRedirects]
    BY <1>0, <1>3 DEF Request
  <2> QED BY <1>3, <2>1, FetchIInv DEF Request, Busy
<1>4. ASSUME NEW h \in Host, NEW s \in {"https", "http"}, Redirected(h, s)
      PROVE  IInv'
  <2>1. conn # None /\ conn \in [host : AllowedHosts, left : 0..MaxRedirects] /\ phase = "vendor" /\ tree = None
        /\ todo # {} /\ given[Vendor.id] = None
    BY <1>4 DEF Redirected, IInv, TypeOK, Fetching
  <2>2. CASE conn.left > 0 /\ Followed(h, s)
    <3>1. conn' = NextRequest(h) /\ UNCHANGED <<phase, outcome>> /\ Keeps /\ UNCHANGED tree
      BY <1>4, <2>2 DEF Redirected
    <3>2. conn' \in [host : AllowedHosts, left : 0..MaxRedirects]
      BY <2>1, <2>2, <3>1, MaxRedirectsAssumption DEF NextRequest, Followed
    <3> QED BY <2>1, <3>1, <3>2, FetchIInv
  <2>3. CASE ~(conn.left > 0 /\ Followed(h, s))
    BY <1>4, <2>3, EndsBake DEF Redirected, Keeps
  <2> QED BY <2>2, <2>3
<1>5. CASE Answered
  <2>1. conn # None /\ phase = "vendor" /\ todo # {} /\ given[Vendor.id] = None
    BY <1>5 DEF Answered, IInv, TypeOK, Fetching
  <2>2. CASE Extractable(Served, Vendor.limits)
    BY <1>5, <2>1, <2>2, FetchIInv DEF Answered, Served, Pinned
  <2>3. CASE ~Extractable(Served, Vendor.limits)
    BY <1>5, <2>3, EndsBake DEF Answered, Keeps
  <2> QED BY <2>2, <2>3
<1>6. CASE NetworkFails
  BY <1>6, EndsBake DEF NetworkFails, Keeps
<1>7. CASE IngestVendor
  <2>1. phase = "vendor" /\ todo # {} /\ tree # None /\ UNCHANGED <<author, disk, vendors, given>>
    BY <1>7 DEF IngestVendor, Busy
  <2>2. CASE VendorBakes(Vendor, tree)
    <3>1. /\ staged' = Extend(staged, [id \in Range(Ids(Vendor.plugins)) |-> BakePlugin(Vendor, Prune(tree, Vendor), Slice(vendors, id))])
          /\ skipped' = Extend(skipped, [id \in {Vendor.id} |-> SkippedIn(Vendor, Prune(tree, Vendor))])
          /\ todo' = todo \ {Min(todo)} /\ tree' = None /\ UNCHANGED <<conn, phase, outcome>>
      BY <1>7, <2>2, Zenon DEF IngestVendor
    <3> QED BY <2>1, <2>2, <3>1, IngestedIInv
  <2>3. CASE ~VendorBakes(Vendor, tree)
    <3>1. Fail /\ UNCHANGED <<staged, skipped, todo, tree>>
      BY <1>7, <2>3 DEF IngestVendor
    <3> QED BY <2>1, <3>1, EndsBake
  <2> QED BY <2>2, <2>3
<1>8. CASE Collect
  <2>1. phase = "vendor" /\ todo = {} /\ UNCHANGED <<author, disk, vendors, todo, given, tree, staged, skipped>>
    BY <1>8 DEF Collect
  <2>2. CASE NamespaceOk(staged, firstParty)
    <3>1. phase' = "publish" /\ UNCHANGED <<outcome, conn>>
      BY <1>8, <2>2 DEF Collect
    <3>2. conn = None
      BY <2>1 DEF IInv, Fetching
    <3>3. TypeOK'
      BY <2>1, <3>1, <3>2, KeepsTypes DEF IInv, TypeOK, disk
    <3>4. Reading' /\ Staging' /\ OnDisk'
      BY <2>1, <3>1, KeepsStaging, KeepsDisk DEF IInv, Reading, disk
    <3>5. Fetching'
      BY <2>1, <3>1 DEF IInv, Fetching, Vendor
    <3> QED BY <3>3, <3>4, <3>5 DEF IInv
  <2>3. CASE ~NamespaceOk(staged, firstParty)
    BY <1>8, <2>1, <2>3, EndsBake DEF Collect
  <2> QED BY <2>2, <2>3
<1>9. CASE Publish
  <2>1. CASE leftover
    BY <1>9, <2>1, EndsBake DEF Publish
  <2> QED BY <1>9, <2>1, PublishIInv
<1>10. CASE PublishFails
  <2>1. /\ UNCHANGED <<author, baked, offline, forged, vendors, todo, given, tree, staged, skipped>>
        /\ Fail /\ leftover' \in BOOLEAN
    BY <1>10 DEF PublishFails
  <2>2. OnDisk'
    BY <2>1, KeepsDisk DEF IInv
  <2>3. Reading' /\ Fetching' /\ Staging'
    BY <2>1, Pauses
  <2>4. TypeOK'
    BY <2>1 DEF IInv, TypeOK, author, Fail
  <2> QED BY <2>2, <2>3, <2>4 DEF IInv
<1> QED BY <1>1, <1>2, <1>3, <1>4, <1>5, <1>6, <1>7, <1>8, <1>9, <1>10 DEF BakeStep

\* The invariant holds in every state: the bake holds one registry, has staged what its
\* vendors gave, and what is published has the record of a registry that bakes.
THEOREM Invariant == Spec => []IInv
<1>1. Init => IInv
  BY InitIInv
<1>2. IInv /\ [Next]_vars => IInv'
  <2> SUFFICES ASSUME IInv, [Next]_vars PROVE IInv'
    OBVIOUS
  <2>1. CASE \E ts \in Trees : Start(ts)
    BY <2>1, StartIInv
  <2>2. CASE BakeStep
    BY <2>2, BakeStepIInv
  <2>3. CASE Meanwhile
    BY <2>3, MeanwhileIInv
  <2>4. CASE UNCHANGED vars
    <3>1. UNCHANGED <<author, disk, run, phase, outcome>>
      BY <2>4 DEF vars
    <3>2. UNCHANGED <<vendors, todo, given, conn, tree, staged, skipped>>
      BY <3>1 DEF run
    <3>3. Reading' /\ Fetching' /\ Staging'
      BY <3>1, <3>2, Pauses DEF IInv, TypeOK
    <3>4. TypeOK' /\ OnDisk'
      BY <3>1, <3>2, KeepsDisk DEF IInv, TypeOK, author, disk
    <3> QED BY <3>3, <3>4 DEF IInv
  <2> QED BY <2>1, <2>2, <2>3, <2>4 DEF Next
<1> QED BY <1>1, <1>2, PTL DEF Spec

\* What --check accepts between two bakes, if it was baked from upstream alone and BAKE.json
\* was not rewritten by hand, has byte for byte what a bake of the registry as it is now
\* publishes, whatever else was edited (check, _check_baked_output).
THEOREM AcceptedIsFreshHolds == Spec => []AcceptedIsFresh
<1>1. IInv => AcceptedIsFresh
  <2> SUFFICES ASSUME IInv, ~offline, ~forged, Checked PROVE Bytewise(baked) = Bytewise(Fresh(registry))
    BY DEF AcceptedIsFresh
  <2>1. baked # None /\ Accepts(baked, registry, group, firstParty)
    BY DEF Checked, CheckPasses
  <2>2. PICK r \in Registry :
          /\ Registered(r) /\ \A v \in Range(Baking(r)) : VendorBakes(v, Pinned(v))
          /\ Whole(baked) /\ baked.lock \in {Empty, LockOf(r, FreshPlugins(r), FreshSkipped(r))}
    BY <2>1 DEF IInv, OnDisk
  <2>3. Registered(registry)
    <3>1. Loads(registry, group)
      BY <2>1 DEF Accepts
    <3> QED BY <3>1, LoadedRegistered DEF IInv, TypeOK
  <2> QED BY <2>1, <2>2, <2>3, AcceptedFresh
<1> QED BY <1>1, Invariant, PTL

\* In a tree that --check accepts between two bakes no two plugins have a skill or an agent
\* of one name, and no skill has that of a first-party skill (first_party_skill_names).
THEOREM OneNamespaceHolds == Spec => []OneNamespace
<1>1. IInv => OneNamespace
  <2> SUFFICES ASSUME IInv PROVE OneNamespace
    OBVIOUS
  <2>1. TypeOK
    BY DEF IInv
  <2>2. ASSUME Checked, NEW i \in DOMAIN baked.plugins, NEW j \in DOMAIN baked.plugins
        PROVE  /\ SkillNames(baked.plugins[i]) \cap firstParty = {}
               /\ i # j => /\ SkillNames(baked.plugins[i]) \cap SkillNames(baked.plugins[j]) = {}
                           /\ AgentStems(baked.plugins[i]) \cap AgentStems(baked.plugins[j]) = {}
    <3> DEFINE pls == baked.plugins
               names == [id \in DOMAIN pls |-> SkillNames(pls[id])]
               stems == [id \in DOMAIN pls |-> AgentStems(pls[id])]
    <3>1. SkillCollisions(pls, firstParty) = {} /\ AgentCollisions(pls) = {}
      BY <2>2 DEF Checked, CheckPasses, Accepts, NamespaceOk
    <3>2. Shared(names) = {} /\ (UNION {SkillNames(pls[id]) : id \in DOMAIN pls}) \cap firstParty = {}
      BY <3>1 DEF SkillCollisions
    <3>3. Shared(stems) = {}
      BY <3>1 DEF AgentCollisions
    <3>4. ASSUME NEW f, Shared(f) = {}, NEW x \in DOMAIN f, NEW y \in DOMAIN f, x # y
          PROVE  f[x] \cap f[y] = {}
      <4>1. y \in DOMAIN f \ {x}
        BY <3>4
      <4>2. \A e \in f[x] \cap f[y] : e \in Shared(f)
        BY <4>1 DEF Shared
      <4> QED BY <3>4, <4>2
    <3>5. /\ DOMAIN names = DOMAIN pls /\ names[i] = SkillNames(pls[i]) /\ names[j] = SkillNames(pls[j])
          /\ DOMAIN stems = DOMAIN pls /\ stems[i] = AgentStems(pls[i]) /\ stems[j] = AgentStems(pls[j])
      BY <2>2
    <3> HIDE DEF names, stems
    <3> QED BY <2>2, <3>2, <3>3, <3>4, <3>5
  <2> QED BY <2>1, <2>2 DEF OneNamespace
<1> QED BY <1>1, Invariant, PTL

-----------------------------------------------------------------------------
(* What a slice gives is what --check asks of it.                          *)

LEMMA MergeOf ==
  ASSUME NEW fs
  PROVE  /\ \A f \in fs : DOMAIN f \subseteq DOMAIN Merge(fs)
         /\ \A p \in DOMAIN Merge(fs) : \E f \in fs : p \in DOMAIN f /\ Merge(fs)[p] = f[p]
<1>1. DOMAIN Merge(fs) = UNION {DOMAIN f : f \in fs}
  BY DEF Merge
<1>2. ASSUME NEW p \in DOMAIN Merge(fs)
      PROVE  \E f \in fs : p \in DOMAIN f /\ Merge(fs)[p] = f[p]
  <2> DEFINE g == CHOOSE f \in fs : p \in DOMAIN f
  <2>1. \E f \in fs : p \in DOMAIN f
    BY <1>1
  <2>2. g \in fs /\ p \in DOMAIN g
    BY <2>1
  <2>3. Merge(fs)[p] = g[p]
    BY <1>1 DEF Merge
  <2> QED BY <2>2, <2>3
<1>3. \A f \in fs : DOMAIN f \subseteq DOMAIN Merge(fs)
  BY <1>1
<1> QED BY <1>2, <1>3

\* What is in a plugin: copies of skills, agents and single files.
LEMMA ContentFrom ==
  ASSUME NEW t, NEW pl
  PROVE  /\ \A d \in Taken(t, pl) : DOMAIN SkillTree(t, d, OutName(pl, d)) \subseteq DOMAIN Content(t, pl)
         /\ \A a \in Range(pl.agents) : AgentPath(a) \in DOMAIN Content(t, pl)
         /\ \A p \in DOMAIN Content(t, pl) :
              \/ \E d \in Taken(t, pl) : /\ p \in DOMAIN SkillTree(t, d, OutName(pl, d))
                                         /\ Content(t, pl)[p] = SkillTree(t, d, OutName(pl, d))[p]
              \/ \E a \in Range(pl.agents) : p = AgentPath(a)
              \/ \E f \in Range(pl.extraFiles) : p = <<Base(f)>>
<1> DEFINE skill(d) == SkillTree(t, d, OutName(pl, d))
           agent(a) == [q \in {AgentPath(a)} |-> t[q]]
           file(p) == [q \in {<<Base(p)>>} |-> t[p]]
           fs == {skill(d) : d \in Taken(t, pl)} \cup {agent(a) : a \in Range(pl.agents)}
                 \cup {file(p) : p \in Range(pl.extraFiles)}
<1>1. Content(t, pl) = Merge(fs)
  BY Zenon DEF Content
<1>2. \A a : DOMAIN agent(a) = {AgentPath(a)}
  OBVIOUS
<1>3. \A p : DOMAIN file(p) = {<<Base(p)>>}
  OBVIOUS
<1> HIDE DEF skill, agent, file
<1>4. /\ \A d \in Taken(t, pl) : skill(d) \in fs
      /\ \A a \in Range(pl.agents) : agent(a) \in fs
  OBVIOUS
<1>5. \A f \in fs : \/ \E d \in Taken(t, pl) : f = skill(d)
                    \/ \E a \in Range(pl.agents) : f = agent(a)
                    \/ \E p \in Range(pl.extraFiles) : f = file(p)
  OBVIOUS
<1> HIDE DEF fs
<1>6. \A f \in fs : DOMAIN f \subseteq DOMAIN Merge(fs)
  BY MergeOf
<1>7. ASSUME NEW p \in DOMAIN Merge(fs)
      PROVE  \/ \E d \in Taken(t, pl) : p \in DOMAIN skill(d) /\ Merge(fs)[p] = skill(d)[p]
             \/ \E a \in Range(pl.agents) : p = AgentPath(a)
             \/ \E f \in Range(pl.extraFiles) : p = <<Base(f)>>
  <2>1. PICK f \in fs : p \in DOMAIN f /\ Merge(fs)[p] = f[p]
    BY MergeOf
  <2> QED BY <2>1, <1>2, <1>3, <1>5
<1>8. \A a \in Range(pl.agents) : AgentPath(a) \in DOMAIN Merge(fs)
  BY <1>2, <1>4, <1>6
<1>9. \A d \in Taken(t, pl) : DOMAIN skill(d) \subseteq DOMAIN Merge(fs)
  BY <1>4, <1>6
<1> QED BY <1>1, <1>7, <1>8, <1>9, Zenon DEF skill

\* A path in the copy of a skill.
LEMMA CopiedPath ==
  ASSUME NEW t, DOMAIN t \subseteq Path \ {<< >>}, NEW d \in Path, NEW out, NEW q \in DOMAIN SkillTree(t, d, out)
  PROVE  Len(q) \in Nat /\ Len(q) >= 3 /\ q[1] = "skills" /\ q[2] = out
<1>1. PICK p \in Copied(t, d) : q = Into(d, out, p)
  BY DEF SkillTree
<1>2. p \in Path /\ IsStrictPrefix(d, p)
  BY DEF Copied, Below
<1>3. Len(p) \in Nat /\ Len(d) \in Nat
  BY <1>2 DEF Path
<1> QED BY <1>1, <1>2, <1>3, IntoPath

\* The SKILL.md in the copy of a skill.
LEMMA CopiedSkill ==
  ASSUME NEW t, DOMAIN t \subseteq Path \ {<< >>}, NEW d \in Skills(t), NEW out
  PROVE  /\ <<"skills", out, "SKILL.md">> \in DOMAIN SkillTree(t, d, out)
         /\ SkillTree(t, d, out)[<<"skills", out, "SKILL.md">>] = Renamed(Markdown(t, d), out)
<1> DEFINE p == Append(d, "SKILL.md")
           md == <<"skills", out, "SKILL.md">>
<1>1. d \in Path /\ p \in Files(t) /\ p \in DOMAIN t /\ p \in Path
  BY SkillHasFile DEF Files
<1>2. Len(d) \in Nat /\ Len(p) = Len(d) + 1 /\ p[Len(p)] = "SKILL.md" /\ \A i \in 1..Len(d) : p[i] = d[i]
  BY <1>1 DEF Path
<1>3. IsStrictPrefix(d, p)
  BY <1>1, <1>2 DEF IsStrictPrefix, IsPrefix, Path
<1>4. p # Append(d, "README.md")
  <2>1. Append(d, "README.md")[Len(d) + 1] = "README.md"
    BY <1>1 DEF Path
  <2> QED BY <1>2, <2>1
<1>5. p \in Copied(t, d)
  BY <1>1, <1>3, <1>4 DEF Copied, Below
<1>6. Into(d, out, p) = md
  <2>1. SubSeq(p, Len(d) + 1, Len(p)) = <<"SKILL.md">>
    <3> DEFINE z == SubSeq(p, Len(d) + 1, Len(p))
    <3>1. z \in Seq(STRING) /\ Len(z) = 1 /\ z[1] = "SKILL.md"
      <4> HIDE DEF p, z
      <4>1. /\ z \in Seq(STRING) /\ Len(z) = Len(p) - Len(d)
            /\ \A i \in 1..(Len(p) - Len(d)) : z[i] = p[Len(d) + i]
        BY <1>1, <1>3, Rejoined DEF z, Path
      <4> QED BY <1>2, <4>1
    <3> HIDE DEF z
    <3>2. z = <<"SKILL.md">>
      BY <3>1
    <3> QED BY <3>2 DEF z
  <2>2. <<"skills", out>> \o <<"SKILL.md">> = md
    BY Tripled
  <2> QED BY <2>1, <2>2, Zenon DEF Into
<1> HIDE DEF p, md
<1>7. md \in {Into(d, out, x) : x \in Copied(t, d)}
  BY <1>5, <1>6
<1>8. SkillTree(t, d, out)[md] = Renamed(Markdown(t, d), out)
  BY <1>7 DEF SkillTree, md
<1>9. md \in DOMAIN SkillTree(t, d, out)
  BY <1>7 DEF SkillTree
<1> QED BY <1>8, <1>9 DEF md

\* The paths of a plugin, by what they begin with.
LEMMA ContentPaths ==
  ASSUME NEW t, DOMAIN t \subseteq Path \ {<< >>}, NEW pl, PluginShape(pl), PluginOk(pl), NEW p \in DOMAIN Content(t, pl)
  PROVE  \/ \E d \in Taken(t, pl) : /\ p[1] = "skills" /\ p[2] = OutName(pl, d) /\ Len(p) >= 3
                                    /\ p \in DOMAIN SkillTree(t, d, OutName(pl, d))
                                    /\ Content(t, pl)[p] = SkillTree(t, d, OutName(pl, d))[p]
         \/ \E a \in Range(pl.agents) : p[1] = "agents" /\ p[2] = a /\ Len(p) = 2
         \/ \E f \in Range(pl.extraFiles) : p[1] = Base(f) /\ p[1] # "skills" /\ p[1] # "agents"
<1>1. CASE \E d \in Taken(t, pl) : /\ p \in DOMAIN SkillTree(t, d, OutName(pl, d))
                                   /\ Content(t, pl)[p] = SkillTree(t, d, OutName(pl, d))[p]
  <2>1. PICK d \in Taken(t, pl) : /\ p \in DOMAIN SkillTree(t, d, OutName(pl, d))
                                 /\ Content(t, pl)[p] = SkillTree(t, d, OutName(pl, d))[p]
    BY <1>1
  <2>2. d \in Path
    BY TakenWithin
  <2>3. Len(p) >= 3 /\ p[1] = "skills" /\ p[2] = OutName(pl, d)
    BY <2>1, <2>2, CopiedPath
  <2> QED BY <2>1, <2>3
<1>2. CASE \E a \in Range(pl.agents) : p = AgentPath(a)
  BY <1>2 DEF AgentPath
<1>3. CASE \E f \in Range(pl.extraFiles) : p = <<Base(f)>>
  <2>1. PICK f \in Range(pl.extraFiles) : p = <<Base(f)>>
    BY <1>3
  <2>2. Base(f) \notin Reserved
    BY <2>1 DEF PluginOk, FilesOk, Range
  <2> QED BY <2>1, <2>2 DEF Reserved
<1> QED BY <1>1, <1>2, <1>3, ContentFrom

\* The directories a slice takes: those of its roots that are not skipped, and the extra ones.
LEMMA TakenIs ==
  ASSUME NEW t, NEW pl
  PROVE  Taken(t, pl) = (Selected(t, pl) \ Skip(t, pl)) \cup Range(pl.extraSkills)
<1>1. ASSUME NEW d \in Selected(t, pl) \ Skip(t, pl)
      PROVE  d \in Taken(t, pl)
  <2>1. <<"listed", d>> \in Calls(t, pl)
    BY DEF Calls
  <2> QED BY <2>1 DEF Taken
<1>2. ASSUME NEW d \in Range(pl.extraSkills)
      PROVE  d \in Taken(t, pl)
  <2>1. <<"extra", d>> \in Calls(t, pl)
    BY DEF Calls
  <2> QED BY <2>1 DEF Taken
<1>3. ASSUME NEW c \in Calls(t, pl)
      PROVE  c[2] \in (Selected(t, pl) \ Skip(t, pl)) \cup Range(pl.extraSkills)
  BY DEF Calls
<1> QED BY <1>1, <1>2, <1>3 DEF Taken

\* The names of the skills and agents of a plugin.
LEMMA SliceNames ==
  ASSUME NEW t, DOMAIN t \subseteq Path \ {<< >>}, NEW pl, PluginShape(pl), PluginOk(pl), Present(t, pl),
         NEW b, b.content = Content(t, pl)
  PROVE  /\ SkillNames(b) = {OutName(pl, d) : d \in Taken(t, pl)} /\ AgentStems(b) = Range(pl.agents)
         /\ CanonicalTree(b, pl)
<1> DEFINE c == Content(t, pl)
<1>1. ASSUME NEW d \in Taken(t, pl)
      PROVE  OutName(pl, d) \in SkillNames(b)
  <2> DEFINE md == <<"skills", OutName(pl, d), "SKILL.md">>
  <2>1. md \in DOMAIN c
    BY CopiedSkill, ContentFrom DEF Present
  <2>2. md[1] = "skills" /\ md[2] = OutName(pl, d)
    OBVIOUS
  <2> HIDE DEF md
  <2> QED BY <2>1, <2>2 DEF SkillNames
<1>2. ASSUME NEW a \in Range(pl.agents)
      PROVE  a \in AgentStems(b)
  <2>1. AgentPath(a) \in DOMAIN c /\ AgentPath(a)[1] = "agents" /\ AgentPath(a)[2] = a
    BY ContentFrom DEF AgentPath
  <2> QED BY <2>1 DEF AgentStems
<1> HIDE DEF c
<1>3. ASSUME NEW p \in DOMAIN c, p[1] = "skills"
      PROVE  p[2] \in {OutName(pl, d) : d \in Taken(t, pl)} /\ Len(p) >= 3
  BY <1>3, ContentPaths DEF c
<1>4. ASSUME NEW p \in DOMAIN c, p[1] = "agents"
      PROVE  p[2] \in Range(pl.agents) /\ Len(p) = 2
  BY <1>4, ContentPaths DEF c
<1>5. \A p \in DOMAIN c : p[1] \in {"skills", "agents"} \cup {Base(f) : f \in Range(pl.extraFiles)}
  BY ContentPaths DEF c
<1>6. b.content = c
  BY DEF c
<1>7. SkillNames(b) = {OutName(pl, d) : d \in Taken(t, pl)}
  BY <1>1, <1>3, <1>6 DEF SkillNames
<1>8. AgentStems(b) = Range(pl.agents)
  BY <1>2, <1>4, <1>6 DEF AgentStems
<1>9. CanonicalTree(b, pl)
  BY <1>3, <1>4, <1>5, <1>6 DEF CanonicalTree
<1> QED BY <1>7, <1>8, <1>9

\* Each copy's SKILL.md has the name of its directory.
LEMMA NamesExplode ==
  ASSUME NEW t, TreeShape(t), NEW pl, PluginShape(pl), PluginOk(pl), Present(t, pl),
         NEW b, b.content = Content(t, pl), b.skillsDir = TRUE
  PROVE  ExplodeNamesOk(b)
<1>1. DOMAIN t \subseteq Path \ {<< >>}
  BY DEF TreeShape
<1>2. ASSUME NEW n \in SkillNames(b), NEW md, md = <<"skills", n, "SKILL.md">>
      PROVE  md \in DOMAIN b.content /\ b.content[md].name = n
  <2>1. PICK d \in Taken(t, pl) : n = OutName(pl, d)
    BY <1>1, SliceNames
  <2>2. md \in DOMAIN Content(t, pl)
    BY <1>1, <1>2, <2>1, CopiedSkill, ContentFrom DEF Present
  <2>3. md[1] = "skills" /\ md[2] = n
    BY <1>2
  <2>4. PICK e \in Taken(t, pl) : /\ md[2] = OutName(pl, e) /\ Content(t, pl)[md] = SkillTree(t, e, OutName(pl, e))[md]
    BY <1>1, <2>2, <2>3, ContentPaths
  <2>5. e \in Skills(t) /\ OutName(pl, e) = n
    BY <2>3, <2>4 DEF Present
  <2>6. Content(t, pl)[md] = Renamed(Markdown(t, e), n)
    BY <1>1, <1>2, <2>4, <2>5, CopiedSkill
  <2>7. "name" \in DOMAIN Markdown(t, e)
    <3>1. Append(e, "SKILL.md") \in DOMAIN t
      BY <1>1, <2>5, SkillHasFile DEF Files
    <3> QED BY <3>1 DEF TreeShape, Markdown
  <2>8. Renamed(Markdown(t, e), n).name = n
    BY <2>7 DEF Renamed
  <2> QED BY <2>2, <2>6, <2>8
<1> QED BY <1>2 DEF ExplodeNamesOk

\* What a slice names, it gives: listed and extra skills under their names, renames applied.
LEMMA SliceMatches ==
  ASSUME NEW v, NEW t, DOMAIN t \subseteq Path \ {<< >>}, NEW pl, PluginShape(pl), PluginOk(pl), PluginBakes(v, t, pl),
         \A r, s \in Range(pl.renameSkills) : r[2] # s[1],
         NEW b, b.content = Content(t, pl)
  PROVE  MatchesRegistry(b, pl)
<1>1. SkillNames(b) = {OutName(pl, d) : d \in Taken(t, pl)} /\ AgentStems(b) = Range(pl.agents)
  BY SliceNames DEF PluginBakes
<1>2. ASSUME NEW r \in Range(pl.renameSkills), NEW s \in Range(pl.renameSkills), r[1] = s[1]
      PROVE  r = s
  BY <1>2 DEF PluginOk, RenamesOk, Distinct, Range
<1>3. ASSUME NEW r \in Range(pl.renameSkills)
      PROVE  r[1] \notin SkillNames(b) /\ r[2] \in SkillNames(b)
  <2>1. PICK d \in Taken(t, pl) : Base(d) = r[1]
    BY <1>3 DEF PluginBakes, RenamesUsed
  <2>2. Rename(pl, r[1]) = r[2]
    <3>1. (CHOOSE s \in Range(pl.renameSkills) : s[1] = r[1]) = r
      BY <1>2
    <3> QED BY <3>1 DEF Rename
  <2>3. r[2] \in SkillNames(b)
    BY <1>1, <2>1, <2>2 DEF OutName
  <2>4. ASSUME NEW e \in Taken(t, pl)
        PROVE  OutName(pl, e) # r[1]
    <3>1. CASE \E s \in Range(pl.renameSkills) : s[1] = Base(e)
      <4> DEFINE s == CHOOSE s \in Range(pl.renameSkills) : s[1] = Base(e)
      <4>1. s \in Range(pl.renameSkills)
        BY <3>1
      <4>2. OutName(pl, e) = s[2]
        BY <3>1 DEF OutName, Rename
      <4> HIDE DEF s
      <4> QED BY <4>1, <4>2
    <3>2. CASE ~\E s \in Range(pl.renameSkills) : s[1] = Base(e)
      BY <3>2 DEF OutName, Rename
    <3> QED BY <3>1, <3>2
  <2> QED BY <1>1, <2>3, <2>4
<1>4. ASSUME NEW x \in Range(pl.extraSkills)
      PROVE  Rename(pl, Base(x)) \in SkillNames(b)
  <2>1. x \in Taken(t, pl)
    BY TakenIs
  <2> QED BY <1>1, <2>1 DEF OutName
<1>5. ASSUME NEW root \in Path, NEW x \in Range(pl.skills), pl.skills # All
      PROVE  Base(root \o x) = Base(x)
  <2>1. x \in Path /\ x # << >>
    BY <1>5 DEF PluginShape, PluginOk, SkillsOk, Paths, PathOk, Range
  <2> QED BY <2>1 DEF Path, Base, Last
<1>6. ASSUME pl.skills # All, NEW x \in Range(pl.skills)
      PROVE  Rename(pl, Base(x)) \in SkillNames(b)
  <2>1. PICK root \in ExpandRoots(t, pl.skillsRoot) : root \in Path
    BY DirsArePaths DEF PluginBakes, ExpandRoots
  <2>2. root \o x \in Taken(t, pl)
    <3>1. root \o x \in {root \o s : s \in Range(pl.skills)}
      OBVIOUS
    <3>2. root \o x \in Selected(t, pl)
      BY <1>6, <3>1 DEF Selected
    <3>3. Skip(t, pl) = {}
      BY <1>6 DEF Skip
    <3> QED BY <3>2, <3>3, TakenIs
  <2>3. Base(root \o x) = Base(x)
    BY <1>5, <1>6, <2>1
  <2> QED BY <1>1, <2>2, <2>3 DEF OutName
<1>7. ASSUME pl.skills # All, NEW d \in Taken(t, pl)
      PROVE  OutName(pl, d) \in ExpectedNames(pl)
  <2>1. CASE d \in Range(pl.extraSkills)
    BY <2>1 DEF ExpectedNames, OutName
  <2>2. CASE d \in Selected(t, pl)
    <3>1. PICK root \in ExpandRoots(t, pl.skillsRoot), x \in Range(pl.skills) : d = root \o x
      BY <1>7, <2>2 DEF Selected
    <3>2. root \in Path
      BY DirsArePaths DEF ExpandRoots
    <3>3. Base(d) = Base(x)
      BY <1>5, <1>7, <3>1, <3>2
    <3> QED BY <1>7, <3>1, <3>3 DEF ExpectedNames, OutName
  <2> QED BY <2>1, <2>2, TakenIs
<1>8. ExpectedNames(pl) \subseteq SkillNames(b)
  BY <1>4, <1>6 DEF ExpectedNames
<1>9. pl.skills # All => SkillNames(b) = ExpectedNames(pl)
  BY <1>1, <1>7, <1>8
<1> QED BY <1>1, <1>3, <1>8, <1>9 DEF MatchesRegistry, RenamesApplied

-----------------------------------------------------------------------------
(* What a bake publishes is what --check accepts.                          *)

\* At publication every vendor is done: what is staged is what its slices give.
LEMMA StagedIs ==
  ASSUME IInv, phase = "publish"
  PROVE  /\ Done = DOMAIN Baking(vendors) /\ DOMAIN staged = Declared(vendors)
         /\ DOMAIN skipped \subseteq Range(Ids(Baking(vendors)))
         /\ \A id \in Declared(vendors) :
              \E i \in Done : \E j \in DOMAIN vendors[i].plugins :
                id = vendors[i].plugins[j].id /\ \E t \in LocalTree \cup {Pinned(vendors[i])} : Baked(i, t)
<1>1. Done = DOMAIN Baking(vendors) /\ Done \subseteq DOMAIN vendors
  BY BakingOf DEF IInv, Reading, Done
<1>2. ASSUME NEW i \in DOMAIN vendors, NEW id \in Range(Ids(vendors[i].plugins))
      PROVE  i \in Done
  <2>1. DOMAIN vendors[i].plugins # {}
    BY IdsOf
  <2> QED BY <2>1, <1>1, BakingOf
<1>3. ASSUME NEW id \in Declared(vendors)
      PROVE  \E i \in Done : id \in Range(Ids(vendors[i].plugins))
  BY <1>2, DeclaredIds
<1>4. \A id \in StagedIds : id \in Declared(vendors)
  BY <1>1, DeclaredIds DEF StagedIds
<1>5. DOMAIN staged = StagedIds
  BY DEF IInv, Staging
<1>6. DOMAIN staged = Declared(vendors)
  BY <1>3, <1>4, <1>5 DEF StagedIds
<1>7. DOMAIN skipped \subseteq Range(Ids(Baking(vendors)))
  <2>1. DOMAIN skipped = {vendors[i].id : i \in Done}
    BY DEF IInv, Staging
  <2> QED BY <2>1, <1>1, BakingOf
<1>8. ASSUME NEW id \in Declared(vendors)
      PROVE  \E i \in Done : \E j \in DOMAIN vendors[i].plugins :
               id = vendors[i].plugins[j].id /\ \E t \in LocalTree \cup {Pinned(vendors[i])} : Baked(i, t)
  <2>1. PICK i \in Done : id \in Range(Ids(vendors[i].plugins))
    BY <1>3
  <2>2. PICK j \in DOMAIN vendors[i].plugins : id = vendors[i].plugins[j].id
    BY <2>1, IdsOf
  <2>3. \E t \in LocalTree \cup {Pinned(vendors[i])} : Baked(i, t)
    BY DEF IInv, Staging
  <2> QED BY <2>2, <2>3
<1> QED BY <1>1, <1>6, <1>7, <1>8

\* A tree keeps its shape when links are pruned from it.
LEMMA PrunedShape ==
  ASSUME NEW t, TreeShape(t), NEW v
  PROVE  TreeShape(Prune(t, v)) /\ DOMAIN Prune(t, v) \subseteq Path \ {<< >>}
<1>1. DOMAIN Prune(t, v) \subseteq DOMAIN t /\ \A p \in DOMAIN Prune(t, v) : Prune(t, v)[p] = t[p]
  BY PruneKeeps, Zenon
<1> DEFINE s == Prune(t, v)
<1> HIDE DEF s
<1>2. TreeShape(s)
  BY <1>1 DEF TreeShape, s
<1> QED BY <1>2 DEF TreeShape, s

\* The tests of one plugin.
LEMMA StagedAccepted ==
  ASSUME IInv, phase = "publish", NEW groups, Loads(vendors, groups), ~Chained(vendors), NEW id \in Declared(vendors)
  PROVE  ScanOk(staged[id].content, Owner(vendors, id)) /\ PluginAccepted(vendors, id, staged[id])
<1>1. PICK i \in Done : \E j \in DOMAIN vendors[i].plugins :
               id = vendors[i].plugins[j].id /\ \E t \in LocalTree \cup {Pinned(vendors[i])} : Baked(i, t)
  BY StagedIs
<1>2. PICK j \in DOMAIN vendors[i].plugins :
               id = vendors[i].plugins[j].id /\ \E t \in LocalTree \cup {Pinned(vendors[i])} : Baked(i, t)
  BY <1>1
<1>3. PICK t \in LocalTree \cup {Pinned(vendors[i])} : Baked(i, t)
  BY <1>2
<1> DEFINE v == vendors[i]
           pl == v.plugins[j]
           s == Prune(t, v)
           b == staged[id]
<1>4. i \in DOMAIN Baking(vendors) /\ i \in DOMAIN vendors /\ Registered(vendors)
  BY StagedIs, BakingOf DEF IInv, Reading
<1>5. TreeShape(t)
  BY <1>4, PinnedShape, LocalTreeAssumption
<1>6. TreeShape(s) /\ DOMAIN s \subseteq Path \ {<< >>}
  BY <1>5, PrunedShape
<1>7. /\ Owner(vendors, id) = v /\ Slice(vendors, id) = pl /\ id \in Range(Ids(v.plugins))
  BY <1>2, <1>4, Located DEF Registered
<1>8. b = BakePlugin(v, s, pl)
  BY <1>3, <1>7 DEF Baked
<1>9. b.content = Content(s, pl) /\ b.envelope = Envelope(v, pl) /\ b.skillsDir = TRUE
  BY <1>8 DEF BakePlugin
<1>10. PluginBakes(v, s, pl)
  BY <1>2, <1>3 DEF Baked, VendorBakes
<1>11. PluginOk(pl)
  BY <1>2, <1>4 DEF Loads, VendorOk
<1>12. PluginShape(pl)
  <2>1. v \in Range(vendors) /\ pl \in Range(v.plugins)
    BY <1>2, <1>4 DEF Range
  <2> QED BY <2>1, <1>4 DEF Registered
<1>13. \A r, q \in Range(pl.renameSkills) : r[2] # q[1]
  <2>1. <<i, j>> \in DOMAIN Plugins(vendors) /\ Plugins(vendors)[<<i, j>>] = pl
    BY <1>2, <1>4, PluginPlace
  <2>2. pl \in Range(Plugins(vendors))
    BY <2>1 DEF Range
  <2> QED BY <2>2 DEF Chained
<1> HIDE DEF v, pl, s, b
<1>14. Present(s, pl) /\ ScanOk(Content(s, pl), v) /\ ReferencesOk(Content(s, pl))
  BY <1>10 DEF PluginBakes
<1>15. CanonicalTree(b, pl)
  BY <1>6, <1>9, <1>11, <1>12, <1>14, SliceNames
<1>16. ExplodeNamesOk(b)
  BY <1>6, <1>9, <1>11, <1>12, <1>14, NamesExplode
<1>17. MatchesRegistry(b, pl)
  BY <1>6, <1>9, <1>10, <1>11, <1>12, <1>13, SliceMatches
<1>18. PluginAccepted(vendors, id, b)
  BY <1>7, <1>9, <1>14, <1>15, <1>16, <1>17 DEF PluginAccepted
<1>19. ScanOk(b.content, v)
  BY <1>9, <1>14
<1> QED BY <1>7, <1>18, <1>19 DEF b

\* The record that a publication has is the one --check recomputes.
LEMMA RecordMatches ==
  ASSUME NEW reg, NEW pls, NEW skip, DOMAIN skip \subseteq Range(Ids(Baking(reg))),
         NEW b, b = Publication(reg, pls, skip)
  PROVE  LockParses(b) /\ Recorded(reg, b) /\ CoverageMatches(reg, b) /\ b.market = Marketplace(reg)
<1> DEFINE k == LockOf(reg, pls, skip)
           inputs == CoverageInputs(reg, pls, skip)
<1>1. b.plugins = pls /\ b.market = Marketplace(reg) /\ b.coverage = CoverageOf(reg, pls, skip) /\ b.lock = k
  BY PublicationFields
<1>2. /\ k.vendors = LockVendors(reg) /\ k.files = FilesOf(pls, Marketplace(reg), CoverageOf(reg, pls, skip))
      /\ k.coverage = CoverageOf(reg, pls, skip) /\ k.inputs = inputs /\ k.ingest = IngestRecord(reg, pls)
      /\ DOMAIN k = {"vendors", "files", "coverage", "inputs", "ingest"}
  BY LockFields
<1>3. inputs.skippedByVendor = skip
  BY DEF CoverageInputs
<1> HIDE DEF k, inputs
<1>4. LockParses(b)
  BY <1>1, <1>2 DEF LockParses
<1>5. Digests(b) = FilesOf(pls, Marketplace(reg), CoverageOf(reg, pls, skip))
  BY <1>1 DEF Digests, FilesOf
<1>6. Recorded(reg, b)
  BY <1>1, <1>2, <1>5 DEF Recorded
<1>7. CoverageMatches(reg, b)
  <2>1. b.lock.inputs.skippedByVendor = skip
    BY <1>1, <1>2, <1>3
  <2>2. CoverageInputs(reg, b.plugins, b.lock.inputs.skippedByVendor) = inputs
    BY <1>1, <2>1 DEF inputs
  <2>3. Coverage(reg, inputs, IngestRecord(reg, b.plugins)) = CoverageOf(reg, pls, skip)
    BY <1>1 DEF inputs, CoverageOf
  <2> QED BY <1>1, <1>2, <1>3, <2>2, <2>3 DEF CoverageMatches
<1> QED BY <1>1, <1>4, <1>6, <1>7

\* --check, right after the publication, with the registry that was read.
LEMMA PublishedAccepted ==
  ASSUME IInv, phase = "publish", NEW groups, Loads(vendors, groups), ~Chained(vendors),
         NEW firsts, NamespaceOk(staged, firsts), NEW b, b = Publication(vendors, staged, skipped)
  PROVE  Accepts(b, vendors, groups, firsts)
<1>1. b.plugins = staged
  BY PublicationFields
<1>2. DOMAIN staged = Declared(vendors) /\ DOMAIN skipped \subseteq Range(Ids(Baking(vendors)))
  BY StagedIs
<1>3. LockParses(b) /\ Recorded(vendors, b) /\ CoverageMatches(vendors, b) /\ b.market = Marketplace(vendors)
  BY <1>2, RecordMatches
<1>4. \A id \in Declared(vendors) :
        ScanOk(staged[id].content, Owner(vendors, id)) /\ PluginAccepted(vendors, id, staged[id])
  BY StagedAccepted
<1> QED BY <1>1, <1>2, <1>3, <1>4 DEF Accepts

\* A bake publishes the registry it has read, all of it and nothing else, whatever earlier
\* bakes that failed had staged (collect_bake, _bake_into); and --check accepts that, if
\* nothing was edited since it was read and no rename has another's target as its source.
THEOREM PublishesWhatItReadHolds == Spec => PublishesWhatItRead
<1>1. ASSUME IInv, [Next]_vars, Publishes
      PROVE  /\ (\A v \in Range(vendors) : given[v.id] = None) => baked' = Fresh(vendors)
             /\ /\ Loads(registry, group) /\ registry = vendors
                /\ NamespaceOk(staged, firstParty) /\ ~Chained(vendors)
                => CheckPasses'
  <2>1. Publish /\ ~leftover
    <3>1. phase = "publish" /\ phase' = "idle" /\ outcome' = "ok"
      BY <1>1 DEF Publishes
    <3>2. ~Fail
      BY <3>1 DEF Fail
    <3>3. ~(phase' = phase)
      BY <3>1
    <3>4. ~UNCHANGED vars
      BY <3>3 DEF vars
    <3>5. ~Meanwhile
      BY <3>3 DEF Meanwhile, Edit, EditRegistry, EditGroups, EditSkills, HandEdit, Forge, Clone, RemoveLeftover
    <3>6. ~\E ts \in Trees : Start(ts)
      BY <3>1 DEF Start
    <3>7. conn = None
      BY <1>1, <3>1 DEF IInv, TypeOK
    <3>8. ~UseGiven /\ ~UseCache /\ ~Request /\ ~IngestVendor
      BY <3>1 DEF UseGiven, UseCache, Request, IngestVendor, Busy
    <3>9. ~Answered /\ ~NetworkFails /\ ~\E h \in Host, s \in {"https", "http"} : Redirected(h, s)
      BY <3>7 DEF Answered, NetworkFails, Redirected
    <3>10. ~Collect /\ ~PublishFails
      BY <3>1, <3>2 DEF Collect, PublishFails
    <3>11. Publish
      BY <1>1, <3>4, <3>5, <3>6, <3>8, <3>9, <3>10 DEF Next, BakeStep
    <3> QED BY <3>2, <3>11 DEF Publish
  <2>2. /\ phase = "publish" /\ UNCHANGED <<author, leftover>> /\ baked' = Publication(vendors, staged, skipped)
    BY <2>1 DEF Publish
  <2>3. ASSUME \A v \in Range(vendors) : given[v.id] = None
        PROVE  baked' = Fresh(vendors)
    <3>1. \A i \in DOMAIN Baking(vendors) : given[vendors[i].id] = None
      BY <2>3, BakingOf DEF Range
    <3>2. staged = FreshPlugins(vendors) /\ skipped = FreshSkipped(vendors)
      BY <1>1, <2>2, <3>1, AllStaged
    <3> QED BY <2>2, <3>2 DEF Fresh
  <2>4. ASSUME Loads(registry, group), registry = vendors, NamespaceOk(staged, firstParty), ~Chained(vendors)
        PROVE  CheckPasses'
    <3> PICK b, reg, g, firsts : b = Publication(vendors, staged, skipped) /\ reg = vendors /\ g = group /\ firsts = firstParty
      OBVIOUS
    <3>1. baked' = b /\ registry' = reg /\ group' = g /\ firstParty' = firsts /\ ~leftover'
      BY <2>1, <2>2, <2>4 DEF author
    <3>2. Accepts(b, reg, g, firsts)
      BY <1>1, <2>2, <2>4, PublishedAccepted
    <3>3. Loads(reg, g)
      BY <3>2 DEF Accepts
    <3>4. CASE baked' = None
      BY <3>1, <3>3, <3>4 DEF CheckPasses
    <3>5. CASE baked' # None
      BY <3>1, <3>2, <3>5 DEF CheckPasses
    <3> QED BY <3>4, <3>5
  <2> QED BY <2>3, <2>4
<1> QED BY <1>1, Invariant, PTL DEF Spec, PublishesWhatItRead
=============================================================================
