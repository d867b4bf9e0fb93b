------------------------------- MODULE Ingest -------------------------------
(***************************************************************************)
(* What the engine lets in from a vendor: the archive GitHub serves for a   *)
(* pin, the tree it is extracted to, and the content that a plugin slice    *)
(* takes from the tree.  Operators only; Bake is the program that uses them.*)
(*                                                                         *)
(* A path is a sequence of names, a tree a function from the paths of its   *)
(* files and links to what is there.                                       *)
(***************************************************************************)
EXTENDS Naturals, Sequences, FiniteSets, SequencesExt, FiniteSetsExt

CONSTANTS
  Up,       \* the path component ".."
  None

------------------------------------------------------------------------------
(* Trees.                                                                  *)

Path == Seq(STRING)
Dirs(t) == UNION {{SubSeq(p, 1, i) : i \in 1..(Len(p) - 1)} : p \in DOMAIN t}
Files(t) == {p \in DOMAIN t : t[p].kind = "file"}
Links(t) == {p \in DOMAIN t : t[p].kind = "link"}
Below(t, d) == {p \in DOMAIN t : IsStrictPrefix(d, p)}
Drop(t, ps) == [p \in DOMAIN t \ ps |-> t[p]]
Size(t, ps) == FoldSet(LAMBDA p, n : n + t[p].size, 0, ps)

\* The directories that hold a SKILL.md.
Skills(t) == {Front(p) : p \in {q \in Files(t) : Last(q) = "SKILL.md"}}
Markdown(t, d) == t[Append(d, "SKILL.md")]

\* A component of a pattern is a name or "*".
FitsPart(name, pat) == pat = "*" \/ pat = name
Fits(p, pat, n) == \A i \in 1..n : FitsPart(p[i], pat[i])

\* is_within_skill_roots
WithinRoot(p, pat, strictly) ==
  /\ Len(p) >= Len(pat) /\ (strictly => Len(p) > Len(pat))
  /\ Fits(p, pat, Len(pat))

------------------------------------------------------------------------------
(* The archive.  A member is a name (with the archive's root directory), its *)
(* kind, mode, size, and what it holds; a link's target is resolved in the   *)
(* archive's own coordinates, so that Up is what leads out of it.            *)

Kinds == {"file", "dir", "link"}
Inflated(a) == a.padding + FoldLeft(LAMBDA n, m : n + m.size, 0, a.members)
Least(m, n) == IF m < n THEN m ELSE n

\* _tarinfo_type: every header, before its body is read.
HeaderOk(m, l) == m.size <= l.memberBytes /\ m.mode # "special" /\ m.kind \in Kinds
HeadersOk(a, l) == /\ Len(a.members) <= l.archiveMembers
                   /\ \A i \in DOMAIN a.members : HeaderOk(a.members[i], l)
\* The whole stream, trailing padding included.
StreamOk(a, l) == Inflated(a) <= Least(l.archiveBytes, a.bytes * l.compressionRatio)

\* rewrite_tarball_member
Contained(m, root) ==
  /\ Up \notin Range(m.name)
  /\ m.name # << >> /\ (Len(m.name) = 1 => m.kind = "dir")
  /\ m.name[1] = root
  /\ m.kind = "link" => m.target # << >> /\ m.target[1] = root /\ Up \notin Range(m.target)

Extractable(a, l) ==
  /\ a.bytes <= l.downloadBytes
  /\ HeadersOk(a, l) /\ StreamOk(a, l)
  /\ a.members # << >> =>
       \A i \in DOMAIN a.members : Contained(a.members[i], a.members[1].name[1])

\* The staged tree, renamed into place when all members are extracted: a later
\* member of the same name replaces an earlier one.
Extract(a) ==
  LET held == {i \in DOMAIN a.members : a.members[i].kind # "dir" /\ Len(a.members[i].name) > 1}
      last(p) == Max({i \in held : Tail(a.members[i].name) = p})
  IN [p \in {Tail(a.members[i].name) : i \in held} |-> a.members[last(p)].node]

\* What a walk of the tree meets: files, links and directories.
Entries(t) == Cardinality(DOMAIN t) + Cardinality(Dirs(t))

\* validate_input_tree: trees from the cache or given with --vendor-tree.
TreeOk(t, l) ==
  /\ Entries(t) <= l.archiveMembers
  /\ \A p \in Files(t) : t[p].size <= l.memberBytes
  /\ \A p \in DOMAIN t : t[p].kind \in Kinds /\ t[p].mode # "special"
  /\ Size(t, Files(t)) <= l.archiveBytes

------------------------------------------------------------------------------
(* Links in the tree are dropped unless skills may come through them.       *)

Protected(v) == Range(v.skillRoots)
                \cup UNION {{pl.skillsRoot} \cup Range(pl.extraSkills) : pl \in Range(v.plugins)}

ContentBearing(p, v) ==
  \E pat \in Protected(v) : WithinRoot(p, pat, FALSE) \/ (Len(p) < Len(pat) /\ Fits(p, pat, Len(p)))

Prune(t, v) == Drop(t, {p \in Links(t) : ~ContentBearing(p, v)})

\* _materialize_vendor_tree
Admits(t, v) == TreeOk(t, v.limits) /\ Links(Prune(t, v)) = {}

------------------------------------------------------------------------------
(* The content of a plugin.                                                *)

\* The modes a published file may have: 0644 and 0755.
Modes == {"plain", "exec"}
FileOk(n, l) == n.size <= l.fileBytes /\ ~n.lfs /\ n.mode \in Modes

\* What is hashed and inspected of a file: its bytes, not its mode.
Bytes(n) == [n EXCEPT !.mode = None]
AsBytes(t) == [p \in DOMAIN t |-> Bytes(t[p])]

\* inspect_bytes: a secret's shape is acknowledged for a path, a rule and a digest.
Acknowledged(p, n, v) == n.secret = None \/ <<p, n.secret, Bytes(n)>> \in v.ingestAllow
Findings(t) == LET b == AsBytes(t) IN {<<p, b[p].secret>> : p \in {q \in DOMAIN b : b[q].secret # None}}

\* scan_plugin: four host manifests, three of them in a directory of their own, are
\* in the plugin beside its content (their bytes are not counted here).
Manifests == 7
ScanOk(t, v) ==
  /\ TreeOk(t, v.limits) /\ Entries(t) + Manifests <= v.limits.archiveMembers
  /\ \A p \in DOMAIN t : FileOk(t[p], v.limits) /\ Acknowledged(p, t[p], v)
  /\ Size(t, DOMAIN t) <= v.limits.pluginBytes

\* validate_internal_references: a relative link of a Markdown file names a file of the plugin.
ReferencesOk(t) ==
  \A p \in DOMAIN t : t[p].ref # None => (Front(p) \o t[p].ref) \in DOMAIN t
=============================================================================
