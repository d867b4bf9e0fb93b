-------------------------------- MODULE Bake --------------------------------
(***************************************************************************)
(* `ai_skills_engine bake vendor-plugins`: the slices vendors.yaml declares *)
(* are fetched at their pins, ingested, and published as plugins-baked with *)
(* the record BAKE.json; --check validates what is published offline.      *)
(*                                                                         *)
(* The registry is edited, first-party skills come and go and the published *)
(* tree is changed by hand while a bake waits for the network: what it read *)
(* before is stale when it publishes.                                      *)
(***************************************************************************)
EXTENDS Ingest

CONSTANTS
  Registry,     \* contents of vendors.yaml
  Group,        \* contents of bundles.yaml: sets of first-party plugin ids
  FirstParty,   \* sets of first-party skill names
  Archive,      \* <<repo, sha>> -> the archive GitHub serves for it
  LocalTree,    \* trees that are given with --vendor-tree
  Host,         \* hosts an answer may redirect to
  Semver,       \* displayRefs that are versions
  MaxRedirects, \* redirects a request may follow
  MaxEdits,     \* bound: edits between and during commands
  MaxFaults,    \* bound: failures of the network and of publication
  MaxBakes      \* bound: commands that are run

\* The shape of what the author writes: lists are lists, and paths are lists of names.
PluginShape(pl) ==
  /\ pl.skillsRoot \in Path /\ pl.skills \in Seq(Path) /\ pl.extraSkills \in Seq(Path) /\ pl.extraFiles \in Seq(Path)
  /\ pl.agents \in Seq(STRING) /\ pl.renameSkills \in Seq(STRING \X STRING)
ASSUME RegistryAssumption ==
  \A reg \in Registry :
    /\ reg \in Seq(Range(reg))
    /\ \A v \in Range(reg) : v.plugins \in Seq(Range(v.plugins)) /\ \A pl \in Range(v.plugins) : PluginShape(pl)

\* The shape of a tree: what a file is called in its frontmatter is a part of it.
TreeShape(t) == DOMAIN t \subseteq Path \ {<< >>} /\ \A p \in DOMAIN t : "name" \in DOMAIN t[p]
ASSUME ArchiveAssumption ==
  /\ \A reg \in Registry : \A v \in Range(reg) : v.plugins # << >> => <<v.repo, v.sha>> \in DOMAIN Archive
  /\ \A k \in DOMAIN Archive :
       /\ Archive[k].members \in Seq(Range(Archive[k].members))
       /\ \A m \in Range(Archive[k].members) : m.name \in Path /\ "name" \in DOMAIN m.node
ASSUME LocalTreeAssumption == \A t \in LocalTree : TreeShape(t)
ASSUME MaxRedirectsAssumption == MaxRedirects \in Nat

VARIABLES
  registry, group, firstParty,  \* the author's files
  baked,     \* plugins-baked, or None
  leftover,  \* a .bak or .hold beside it
  phase,     \* of the running bake, "idle" without one
  vendors,   \* the registry as the bake read it
  todo,      \* places in it of the vendors it has still to bake
  given,     \* vendor id -> the tree it was given, or None
  conn,      \* the request it waits for: host, scheme and redirects left
  tree,      \* the vendor's tree, once there
  staged,    \* plugin id -> plugin
  skipped,   \* vendor id -> SKILL.md paths not ingested
  outcome,   \* of the last bake
  offline,   \* the published tree was baked from given trees
  forged,    \* BAKE.json was rewritten by hand, to fit another tree
  edits, faults, bakes

author == <<registry, group, firstParty>>
disk   == <<baked, leftover, offline, forged>>
run    == <<vendors, todo, given, conn, tree, staged, skipped>>
vars   == <<author, disk, run, phase, outcome, edits, faults, bakes>>

------------------------------------------------------------------------------
(* The registry.  A scalar that a pattern refuses is given as None.         *)

\* _required_string, _parse_branch, the slug, repository, commit and URL patterns.
Given(x) == x # None
Empty == [x \in {} |-> None]
Extend(f, g) == [x \in DOMAIN f \cup DOMAIN g |-> IF x \in DOMAIN f THEN f[x] ELSE g[x]]
Distinct(s) == \A i, j \in DOMAIN s : s[i] = s[j] => i = j
Base(p) == Last(p)

\* _parse_relative_posix_path: what a list of paths may hold.
PathOk(p, glob) == p # << >> /\ \A i \in DOMAIN p : p[i] # Up /\ (p[i] = "*" => glob)
Paths(s) == Distinct(s) /\ \A i \in DOMAIN s : PathOk(s[i], FALSE)
Roots(s) == s # << >> /\ Distinct(s) /\ \A i \in DOMAIN s : PathOk(s[i], TRUE)

Reserved == {"plugin.json", "skills", "agents", ".claude-plugin", ".codex-plugin", ".cursor-plugin"}
All == << <<"*">> >>   \* skills: "*"
SkillsOk(s) == s = All \/ (s # << >> /\ Paths(s))
FilesOk(s) == /\ Paths(s) /\ Distinct([i \in DOMAIN s |-> Base(s[i])])
              /\ \A i \in DOMAIN s : Base(s[i]) \notin Reserved
RenamesOk(r) == /\ \A i \in DOMAIN r : r[i][1] # r[i][2]
                /\ Distinct([i \in DOMAIN r |-> r[i][1]]) /\ Distinct([i \in DOMAIN r |-> r[i][2]])
AgentsOk(s) == Distinct(s)

PluginOk(pl) ==
  /\ Given(pl.id) /\ Given(pl.description) /\ PathOk(pl.skillsRoot, TRUE)
  /\ SkillsOk(pl.skills) /\ Paths(pl.extraSkills) /\ FilesOk(pl.extraFiles)
  /\ RenamesOk(pl.renameSkills) /\ AgentsOk(pl.agents)

\* parse_limits, parse_allow
LimitsOk(l) == \A key \in DOMAIN l : l[key] > 0
AllowOk(a) == \A x, y \in a : x[1] = y[1] /\ x[2] = y[2] => x = y

VendorOk(v) ==
  /\ Given(v.id) /\ Given(v.repo) /\ Given(v.sha) /\ Given(v.license) /\ Given(v.homepage)
  /\ v.displayRef # v.sha /\ Roots(v.skillRoots)
  /\ LimitsOk(v.limits) /\ AllowOk(v.ingestAllow)
  /\ \A i \in DOMAIN v.plugins : PluginOk(v.plugins[i])

\* The elements of sequences in a sequence, by their places: two loops, one in the other.
Places(ss) == UNION {{i} \X DOMAIN ss[i] : i \in DOMAIN ss}
Flat(ss) == [at \in Places(ss) |-> ss[at[1]][at[2]]]
Plugins(reg) == Flat([i \in DOMAIN reg |-> reg[i].plugins])
Ids(s) == [i \in DOMAIN s |-> s[i].id]
Targets(pls) == Flat([i \in DOMAIN pls |-> [j \in DOMAIN pls[i].renameSkills |-> pls[i].renameSkills[j][2]]])

\* _validate_plugin_id_uniqueness
IdsOk(reg, firstPartyIds) ==
  /\ Distinct(Ids(Plugins(reg))) /\ Range(Ids(Plugins(reg))) \cap firstPartyIds = {}
  /\ Distinct(Targets(Plugins(reg)))

\* load_registry
Loads(reg, firstPartyIds) ==
  /\ reg # << >> /\ \A i \in DOMAIN reg : VendorOk(reg[i])
  /\ Distinct(Ids(reg)) /\ IdsOk(reg, firstPartyIds)

Baking(reg) == [i \in {j \in DOMAIN reg : reg[j].plugins # << >>} |-> reg[i]]
Owner(reg, id) == CHOOSE v \in Range(reg) : id \in Range(Ids(v.plugins))
Declared(reg) == Range(Ids(Plugins(reg)))
Slice(reg, id) == CHOOSE pl \in Range(Plugins(reg)) : pl.id = id

------------------------------------------------------------------------------
(* One plugin: which directories of the tree become its skills.            *)

\* discover_skill_relpaths: the outermost directories with a SKILL.md.
Discover(t, root) ==
  {d \in Skills(t) : /\ IsStrictPrefix(root, d)
                     /\ \A e \in Skills(t) : IsStrictPrefix(root, e) => ~IsStrictPrefix(e, d)}

ExpandRoots(t, pat) == {d \in Dirs(t) : Len(d) = Len(pat) /\ WithinRoot(d, pat, FALSE)}

Selected(t, pl) ==
  UNION {IF pl.skills = All THEN Discover(t, root) ELSE {root \o s : s \in Range(pl.skills)}
         : root \in ExpandRoots(t, pl.skillsRoot)}

\* Only a skill that "*" found may be skipped, when its frontmatter is malformed.
Malformed(t, d) == Markdown(t, d).name = None
Skip(t, pl) == IF pl.skills = All THEN {d \in Selected(t, pl) : Malformed(t, d)} ELSE {}

\* One entry for every call of _ingest_skill: a directory that is listed twice is
\* ingested twice.
Calls(t, pl) == ({"listed"} \X (Selected(t, pl) \ Skip(t, pl))) \cup ({"extra"} \X Range(pl.extraSkills))
Taken(t, pl) == {c[2] : c \in Calls(t, pl)}

Rename(pl, name) ==
  IF \E r \in Range(pl.renameSkills) : r[1] = name
  THEN (CHOOSE r \in Range(pl.renameSkills) : r[1] = name)[2] ELSE name
OutName(pl, d) == Rename(pl, Base(d))

Present(t, pl) == \A d \in Taken(t, pl) : d \in Skills(t) /\ ~Malformed(t, d)
NamesFree(t, pl) == \A c, e \in Calls(t, pl) : OutName(pl, c[2]) = OutName(pl, e[2]) => c = e
RenamesUsed(t, pl) == \A r \in Range(pl.renameSkills) : \E d \in Taken(t, pl) : Base(d) = r[1]
AgentPath(a) == <<"agents", a>>
AgentsPresent(t, pl) == \A a \in Range(pl.agents) : AgentPath(a) \in Files(t)
FilesPresent(t, pl) == \A p \in Range(pl.extraFiles) : p \in Files(t)
Something(t, pl) == Taken(t, pl) # {} \/ pl.agents # << >>

\* copy_tree without the skill's README.md, and the name in its SKILL.md rewritten.
Copied(t, d) == Below(t, d) \ {Append(d, "README.md")}
Into(d, out, p) == <<"skills", out>> \o SubSeq(p, Len(d) + 1, Len(p))

Renamed(n, out) == [n EXCEPT !.name = out]
SkillTree(t, d, out) ==
  [q \in {Into(d, out, p) : p \in Copied(t, d)} |->
     IF q = <<"skills", out, "SKILL.md">> THEN Renamed(Markdown(t, d), out)
     ELSE t[d \o SubSeq(q, 3, Len(q))]]

Merge(fs) == [p \in UNION {DOMAIN f : f \in fs} |-> (CHOOSE f \in fs : p \in DOMAIN f)[p]]
Content(t, pl) ==
  Merge({SkillTree(t, d, OutName(pl, d)) : d \in Taken(t, pl)}
        \cup {[q \in {AgentPath(a)} |-> t[q]] : a \in Range(pl.agents)}
        \cup {[q \in {<<Base(p)>>} |-> t[p]] : p \in Range(pl.extraFiles)})

\* plugin_version
Version(v) == IF v.displayRef \in Semver THEN v.displayRef ELSE v.sha
Envelope(v, pl) == [id |-> pl.id, description |-> pl.description, vendor |-> v.id, author |-> v.repo,
                    license |-> v.license, agents |-> Range(pl.agents), version |-> Version(v)]

Ingested(t, pl) == (UNION {Below(t, d) : d \in Taken(t, pl)}) \cap {Append(d, "SKILL.md") : d \in Skills(t)}

\* _bake_plugin
PluginBakes(v, t, pl) ==
  /\ ExpandRoots(t, pl.skillsRoot) # {}
  /\ Present(t, pl) /\ NamesFree(t, pl) /\ RenamesUsed(t, pl)
  /\ FilesPresent(t, pl) /\ AgentsPresent(t, pl) /\ Something(t, pl)
  /\ \A c \in {Content(t, pl)} : ScanOk(c, v) /\ ReferencesOk(c)
BakePlugin(v, t, pl) == [content |-> Content(t, pl), envelope |-> Envelope(v, pl), skillsDir |-> TRUE]

\* A bound of one element (here, and of the content above) is evaluated once.
VendorBakes(v, t) == Admits(t, v) /\ \A p \in {Prune(t, v)}, i \in DOMAIN v.plugins : PluginBakes(v, p, v.plugins[i])
SkippedIn(v, t) == {Append(d, "SKILL.md") : d \in Skills(t)} \ UNION {Ingested(t, pl) : pl \in Range(v.plugins)}

------------------------------------------------------------------------------
(* What is published: the plugins, and the aggregates generated from them.  *)

SkillNames(pl) == {p[2] : p \in {q \in DOMAIN pl.content : q[1] = "skills"}}
AgentStems(pl) == {p[2] : p \in {q \in DOMAIN pl.content : q[1] = "agents"}}
Markdowns(pl)  == {p \in DOMAIN pl.content : Last(p) = "SKILL.md"}

\* collect_skill_collisions, collect_agent_collisions
Shared(names) == UNION {UNION {names[i] \cap names[j] : j \in DOMAIN names \ {i}} : i \in DOMAIN names}
SkillCollisions(pls, firsts) == Shared([id \in DOMAIN pls |-> SkillNames(pls[id])])
                                \cup ((UNION {SkillNames(pls[id]) : id \in DOMAIN pls}) \cap firsts)
AgentCollisions(pls) == Shared([id \in DOMAIN pls |-> AgentStems(pls[id])])

IngestRecord(reg, pls) ==
  [id \in Range(Ids(Baking(reg))) |->
     LET v == CHOOSE v \in Range(reg) : v.id = id
     IN <<v.limits, [pl \in Range(Ids(v.plugins)) |-> Findings(pls[pl].content)]>>]

\* _disk_derived_coverage_inputs and the paths that were skipped upstream.
MarkdownsOf(pls) == [id \in DOMAIN pls |-> Markdowns(pls[id])]
Counts(reg, found) ==
  [id \in Range(Ids(Baking(reg))) |->
     FoldSet(LAMBDA pl, n : n + Cardinality(found[pl]), 0, {pl \in DOMAIN found : Owner(reg, pl).id = id})]
CoverageInputs(reg, pls, skip) ==
  [skippedByVendor |-> skip, ingestedCounts |-> Counts(reg, MarkdownsOf(pls)),
   explodeNameCount |-> Cardinality(UNION {SkillNames(pls[id]) : id \in DOMAIN pls})]

Coverage(reg, inputs, ingest) == <<Ids(reg), Range(Ids(Baking(reg))), inputs, ingest>>

MarketEntry(reg, pl) == [name |-> pl.id, description |-> pl.description, version |-> Version(Owner(reg, pl.id))]
Marketplace(reg) == [i \in DOMAIN Plugins(reg) |-> MarketEntry(reg, Plugins(reg)[i])]

\* What BAKE.json records of the registry.
LockPlugin(pl) == pl
LockVendor(v) ==
  <<v.id, v.repo, v.sha, v.displayRef, [i \in DOMAIN v.plugins |-> LockPlugin(v.plugins[i])]>>
LockVendors(reg) == [i \in DOMAIN reg |-> LockVendor(reg[i])]

\* The digest of the bytes of every file but BAKE.json itself; directories have none.
Digests(b) == <<[id \in DOMAIN b.plugins |-> <<AsBytes(b.plugins[id].content), b.plugins[id].envelope>>],
                b.market, b.coverage>>

BakeManifest(reg, b, inputs, ingest) ==
  [vendors |-> LockVendors(reg), files |-> Digests(b), coverage |-> b.coverage,
   inputs |-> inputs, ingest |-> ingest]

Publication(reg, pls, skip) ==
  LET inputs == CoverageInputs(reg, pls, skip)
      ingest == IngestRecord(reg, pls)
      b == [plugins |-> pls, market |-> Marketplace(reg), coverage |-> Coverage(reg, inputs, ingest), lock |-> Empty]
  IN [b EXCEPT !.lock = BakeManifest(reg, b, inputs, ingest)]

------------------------------------------------------------------------------
(* --check: the published tree against the registry, offline.              *)

\* _parse_bake_lock: the keys it must have.
LockParses(b) == {"vendors", "files", "coverage", "inputs", "ingest"} \subseteq DOMAIN b.lock

\* _baked_explode_names: the name in each SKILL.md is that of its directory.
ExplodeNamesOk(pl) ==
  /\ pl.skillsDir
  /\ \A n \in SkillNames(pl) :
       LET md == <<"skills", n, "SKILL.md">>
       IN md \in DOMAIN pl.content /\ pl.content[md].name = n

\* _assert_canonical_plugin_tree
CanonicalTree(pl, decl) ==
  \A p \in DOMAIN pl.content :
    /\ p[1] \in {"skills", "agents"} \cup {Base(f) : f \in Range(decl.extraFiles)}
    /\ p[1] = "skills" => Len(p) >= 3
    /\ p[1] = "agents" => Len(p) = 2

ExpectedNames(decl) ==
  {Rename(decl, Base(s)) : s \in (IF decl.skills = All THEN {} ELSE Range(decl.skills))
                                 \cup Range(decl.extraSkills)}

\* _assert_plugin_matches_registry
RenamesApplied(pl, decl) ==
  \A r \in Range(decl.renameSkills) : r[1] \notin SkillNames(pl) /\ r[2] \in SkillNames(pl)
MatchesRegistry(pl, decl) ==
  /\ RenamesApplied(pl, decl)
  /\ ExpectedNames(decl) \subseteq SkillNames(pl)
  /\ decl.skills # All => SkillNames(pl) = ExpectedNames(decl)
  /\ AgentStems(pl) = Range(decl.agents)

\* _results_from_disk
PluginAccepted(reg, id, pl) ==
  /\ pl.envelope = Envelope(Owner(reg, id), Slice(reg, id))
  /\ CanonicalTree(pl, Slice(reg, id)) /\ ReferencesOk(pl.content)
  /\ ExplodeNamesOk(pl) /\ MatchesRegistry(pl, Slice(reg, id))

\* Mutant: BAKE.json is believed on the files.
RecordedAnyFiles(reg, b) == b.lock.ingest = IngestRecord(reg, b.plugins) /\ b.lock.vendors = LockVendors(reg)

\* The record in BAKE.json is recomputed from the registry and the tree.
Recorded(reg, b) ==
  /\ b.lock.ingest = IngestRecord(reg, b.plugins)
  /\ b.lock.vendors = LockVendors(reg)
  /\ b.lock.files = Digests(b)

\* Coverage too, but for the paths skipped upstream, which only the record knows.
CoverageMatches(reg, b) ==
  LET inputs == CoverageInputs(reg, b.plugins, b.lock.inputs.skippedByVendor)
      expected == Coverage(reg, inputs, IngestRecord(reg, b.plugins))
  IN /\ b.lock.inputs = inputs
     /\ DOMAIN inputs.skippedByVendor \subseteq Range(Ids(Baking(reg)))
     /\ b.coverage = expected /\ b.lock.coverage = expected

\* Mutant: first-party names are not looked at.
NamespaceOkBaked(pls, firsts) == SkillCollisions(pls, {}) = {} /\ AgentCollisions(pls) = {}

NamespaceOk(pls, firsts) == SkillCollisions(pls, firsts) = {} /\ AgentCollisions(pls) = {}

\* _check_baked_output
Accepts(b, reg, groups, firsts) ==
  /\ Loads(reg, groups)
  /\ DOMAIN b.plugins = Declared(reg)
  /\ \A id \in Declared(reg) : ScanOk(b.plugins[id].content, Owner(reg, id))
  /\ LockParses(b) /\ Recorded(reg, b)
  /\ \A id \in Declared(reg) : PluginAccepted(reg, id, b.plugins[id])
  /\ NamespaceOk(b.plugins, firsts)
  /\ CoverageMatches(reg, b)
  /\ b.market = Marketplace(reg)

\* check: an absent directory is accepted with any registry that loads.
CheckPasses ==
  /\ ~leftover
  /\ IF baked = None THEN Loads(registry, group) ELSE Accepts(baked, registry, group, firstParty)

------------------------------------------------------------------------------
(* A bake.                                                                 *)

AllowedHosts == {"api.github.com", "codeload.github.com"}

Fail == phase' = "idle" /\ outcome' = "failed" /\ conn' = None

\* Mutant: what an earlier bake staged of these plugins is still there.
BeginStale(trees) ==
  /\ phase' = "vendor" /\ vendors' = registry /\ todo' = DOMAIN Baking(registry)
  /\ given' = trees /\ conn' = None /\ tree' = None
  /\ staged' = [id \in DOMAIN staged \cap Declared(registry) |-> staged[id]]
  /\ skipped' = Empty /\ outcome' = "none"

Begin(trees) ==
  /\ phase' = "vendor" /\ vendors' = registry /\ todo' = DOMAIN Baking(registry)
  /\ given' = trees /\ conn' = None /\ tree' = None
  /\ staged' = Empty /\ skipped' = Empty /\ outcome' = "none"

\* bake, with the trees --vendor-tree gave for some of the vendors.
Start(trees) ==
  /\ phase = "idle" /\ bakes < MaxBakes /\ bakes' = bakes + 1
  /\ IF /\ Loads(registry, group)
        /\ \A v \in Range(registry) : trees[v.id] # None => TreeOk(trees[v.id], v.limits)
     THEN Begin(trees)
     ELSE outcome' = "failed" /\ UNCHANGED <<run, phase>>
  /\ UNCHANGED <<author, disk, edits, faults>>

Vendor == vendors[Min(todo)]
Busy == phase = "vendor" /\ todo # {}
Keeps == UNCHANGED <<author, disk, vendors, todo, given, staged, skipped, edits, bakes>>

\* _materialize_vendor_tree
UseGiven ==
  /\ Busy /\ tree = None /\ given[Vendor.id] # None
  /\ tree' = given[Vendor.id]
  /\ Keeps /\ UNCHANGED <<conn, phase, outcome, faults>>

Served == Archive[<<Vendor.repo, Vendor.sha>>]

\* The source cache has the pinned tree already.
UseCache ==
  /\ Busy /\ tree = None /\ conn = None /\ given[Vendor.id] = None
  /\ Extractable(Served, Vendor.limits)
  /\ tree' = Extract(Served)
  /\ Keeps /\ UNCHANGED <<conn, phase, outcome, faults>>

\* _fetch_vendor_tree
Request ==
  /\ Busy /\ tree = None /\ conn = None /\ given[Vendor.id] = None
  /\ conn' = [host |-> "api.github.com", left |-> MaxRedirects]
  /\ Keeps /\ UNCHANGED <<tree, phase, outcome, faults>>

\* Mutant: redirects are followed for as long as they come.
NextRequestForever(h) == [host |-> h, left |-> conn.left]

NextRequest(h) == [host |-> h, left |-> conn.left - 1]

\* _redirect_request, _require_allowed_fetch_host
Followed(h, scheme) == scheme = "https" /\ h \in AllowedHosts

\* _http_get_bytes: a redirect, to a host or to a path of the same host.
Redirected(h, scheme) ==
  /\ conn # None
  /\ IF conn.left > 0 /\ Followed(h, scheme)
     THEN conn' = NextRequest(h) /\ UNCHANGED <<phase, outcome>>
     ELSE Fail
  /\ Keeps /\ UNCHANGED <<tree, faults>>

Answered ==
  /\ conn # None
  /\ IF Extractable(Served, Vendor.limits)
     THEN tree' = Extract(Served) /\ conn' = None /\ UNCHANGED <<phase, outcome>>
     ELSE Fail /\ UNCHANGED tree
  /\ Keeps /\ UNCHANGED faults

\* Any other status, a lost connection, an interrupt.
NetworkFails ==
  /\ conn # None /\ faults < MaxFaults /\ faults' = faults + 1
  /\ Fail /\ Keeps /\ UNCHANGED tree

\* bake_vendor_plugins: the plugins of a vendor are staged together, or none is.
IngestVendor ==
  /\ Busy /\ tree # None
  /\ LET t == Prune(tree, Vendor) IN
     IF VendorBakes(Vendor, tree)
     THEN /\ staged' = Extend(staged, [id \in Range(Ids(Vendor.plugins)) |-> BakePlugin(Vendor, t, Slice(vendors, id))])
          /\ skipped' = Extend(skipped, [id \in {Vendor.id} |-> SkippedIn(Vendor, t)])
          /\ todo' = todo \ {Min(todo)} /\ tree' = None
          /\ UNCHANGED <<conn, phase, outcome>>
     ELSE Fail /\ UNCHANGED <<staged, skipped, todo, tree>>
  /\ UNCHANGED <<author, disk, vendors, given, edits, faults, bakes>>

\* collect_bake: first-party names are read when all vendors are baked.
Collect ==
  /\ phase = "vendor" /\ todo = {}
  /\ IF NamespaceOk(staged, firstParty) THEN phase' = "publish" /\ UNCHANGED <<outcome, conn>> ELSE Fail
  /\ UNCHANGED <<author, disk, vendors, todo, given, tree, staged, skipped, edits, faults, bakes>>

\* install_directory is all or nothing (module Publish); a failure may leave a sidecar.
Publish ==
  /\ phase = "publish"
  /\ IF leftover THEN Fail /\ UNCHANGED disk
     ELSE /\ baked' = Publication(vendors, staged, skipped)
          /\ offline' = (\E v \in Range(Baking(vendors)) : given[v.id] # None) /\ forged' = FALSE
          /\ phase' = "idle" /\ outcome' = "ok"
          /\ UNCHANGED <<leftover, conn>>
  /\ UNCHANGED <<author, vendors, todo, given, tree, staged, skipped, edits, faults, bakes>>

PublishFails ==
  /\ phase = "publish" /\ ~leftover /\ faults < MaxFaults /\ faults' = faults + 1
  /\ leftover' \in BOOLEAN
  /\ Fail
  /\ UNCHANGED <<author, baked, offline, forged, vendors, todo, given, tree, staged, skipped, edits, bakes>>

------------------------------------------------------------------------------
(* What happens meanwhile.                                                 *)

Edit == edits < MaxEdits /\ edits' = edits + 1 /\ UNCHANGED <<run, phase, outcome, faults, bakes>>

EditRegistry == Edit /\ registry' \in Registry \ {registry} /\ UNCHANGED <<group, firstParty, disk>>
EditGroups == Edit /\ group' \in Group \ {group} /\ UNCHANGED <<registry, firstParty, disk>>
EditSkills == Edit /\ firstParty' \in FirstParty \ {firstParty} /\ UNCHANGED <<registry, group, disk>>

\* A file is removed, changed, or given another mode.
FileEdits(t) ==
  {Drop(t, {p}) : p \in DOMAIN t} \cup {[t EXCEPT ![p].size = @ + 1] : p \in DOMAIN t}
  \cup {[t EXCEPT ![p].mode = m] : p \in DOMAIN t, m \in Modes \cup {"other"}}

\* A hand edit: BAKE.json is garbled, COVERAGE.md or a plugin removed, a file edited.
HandEdits(b) ==
  {[b EXCEPT !.lock = Empty], [b EXCEPT !.coverage = None]}
  \cup {[b EXCEPT !.plugins = [i \in DOMAIN b.plugins \ {id} |-> b.plugins[i]]] : id \in DOMAIN b.plugins}
  \cup UNION {{[b EXCEPT !.plugins[id].content = t] : t \in FileEdits(b.plugins[id].content)} : id \in DOMAIN b.plugins}
HandEdit ==
  /\ Edit /\ baked # None /\ baked' \in HandEdits(baked)
  /\ UNCHANGED <<author, leftover, offline, forged>>

\* BAKE.json, and the reports, are rewritten to fit the files as they were edited, or
\* to say that nothing was skipped.
NoneSkipped == [id \in Range(Ids(Baking(registry))) |-> {}]
Forgeries(b) ==
  {Publication(registry, c.plugins, NoneSkipped) : c \in {e \in {b} \cup HandEdits(b) : DOMAIN e.plugins = Declared(registry)}}
Forge ==
  /\ Edit /\ baked # None /\ Loads(registry, group) /\ baked' \in Forgeries(baked) /\ forged' = TRUE
  /\ UNCHANGED <<author, leftover, offline>>

\* Git keeps no empty directory.
Clone ==
  /\ Edit /\ baked # None
  /\ \E id \in DOMAIN baked.plugins :
       /\ baked.plugins[id].skillsDir /\ SkillNames(baked.plugins[id]) = {}
       /\ baked' = [baked EXCEPT !.plugins[id].skillsDir = FALSE]
  /\ UNCHANGED <<author, leftover, offline, forged>>

RemoveLeftover ==
  leftover /\ leftover' = FALSE /\ UNCHANGED <<author, baked, offline, forged, run, phase, outcome, edits, faults, bakes>>

------------------------------------------------------------------------------
Init ==
  /\ registry \in Registry /\ group \in Group /\ firstParty \in FirstParty
  /\ baked = None /\ leftover = FALSE /\ offline = FALSE /\ forged = FALSE
  /\ phase = "idle" /\ vendors = << >> /\ todo = {} /\ given = Empty
  /\ conn = None /\ tree = None /\ staged = Empty /\ skipped = Empty /\ outcome = "none"
  /\ edits = 0 /\ faults = 0 /\ bakes = 0

VendorIds == {v.id : v \in UNION {Range(r) : r \in Registry}}
Trees == {ts \in [VendorIds -> LocalTree \cup {None}] :
            \A id \in VendorIds : ts[id] # None => id \in Range(Ids(Baking(registry)))}

BakeStep ==
  \/ UseGiven \/ UseCache \/ Request
  \/ \E h \in Host, s \in {"https", "http"} : Redirected(h, s)
  \/ Answered \/ NetworkFails \/ IngestVendor \/ Collect \/ Publish \/ PublishFails

Meanwhile == EditRegistry \/ EditGroups \/ EditSkills \/ HandEdit \/ Forge \/ Clone \/ RemoveLeftover

Next == (\E ts \in Trees : Start(ts)) \/ BakeStep \/ Meanwhile

Spec == Init /\ [][Next]_vars
FairSpec == Spec /\ WF_vars(BakeStep)

------------------------------------------------------------------------------
(* Properties.                                                             *)

TypeOK ==
  /\ registry \in Registry /\ group \in Group /\ firstParty \in FirstParty
  /\ phase \in {"idle", "vendor", "publish"} /\ outcome \in {"none", "ok", "failed"}
  /\ leftover \in BOOLEAN /\ offline \in BOOLEAN /\ forged \in BOOLEAN
  /\ conn \in [host : AllowedHosts, left : 0..MaxRedirects] \cup {None}
  /\ conn # None => phase = "vendor" /\ tree = None
  /\ DOMAIN staged \subseteq Declared(vendors) /\ DOMAIN skipped \subseteq Range(Ids(vendors))

\* What a bake of a registry publishes, from the trees upstream serves for its pins.
Pinned(v) == Extract(Archive[<<v.repo, v.sha>>])
Upstream(v) == Prune(Pinned(v), v)
FreshPlugins(reg) ==
  [id \in Declared(reg) |-> LET v == Owner(reg, id) IN BakePlugin(v, Upstream(v), Slice(reg, id))]
FreshSkipped(reg) ==
  [id \in Range(Ids(Baking(reg))) |-> LET v == CHOOSE v \in Range(reg) : v.id = id IN SkippedIn(v, Upstream(v))]
Fresh(reg) == Publication(reg, FreshPlugins(reg), FreshSkipped(reg))

\* A published tree, but for the modes of its files.
Stripped(pls) == [id \in DOMAIN pls |-> [pls[id] EXCEPT !.content = AsBytes(@)]]
Bytewise(b) == [b EXCEPT !.plugins = Stripped(@)]

\* What --check accepts, between two bakes, is byte for byte what a bake of the registry
\* as it is now publishes: no edit of a pin, a slice, a rename, a license or an
\* acknowledgement passes unnoticed, and no hand edit of the tree but two (check,
\* _check_baked_output): a file that becomes executable, for digests are of bytes; and one
\* with which BAKE.json is rewritten, the only witness of what upstream holds.
Checked == phase = "idle" /\ baked # None /\ CheckPasses
AcceptedIsFresh == ~offline /\ ~forged /\ Checked => Bytewise(baked) = Bytewise(Fresh(registry))

\* In a tree that --check accepts no two plugins have a skill or an agent of one name,
\* and no skill has that of a first-party skill, whenever that one was added
\* (first_party_skill_names).
OneNamespace ==
  /\ TypeOK
  /\ Checked =>
       \A i, j \in DOMAIN baked.plugins :
         /\ SkillNames(baked.plugins[i]) \cap firstParty = {}
         /\ i # j => /\ SkillNames(baked.plugins[i]) \cap SkillNames(baked.plugins[j]) = {}
                     /\ AgentStems(baked.plugins[i]) \cap AgentStems(baked.plugins[j]) = {}

Publishes == phase = "publish" /\ phase' = "idle" /\ outcome' = "ok"

\* The target of a rename is the source of another.
Chained(reg) == \E pl \in Range(Plugins(reg)) : \E r, s \in Range(pl.renameSkills) : r[2] = s[1]

\* A bake publishes the registry it has read, the whole of it and nothing else,
\* whatever earlier bakes that failed had staged (collect_bake, _bake_into); and --check
\* accepts that, if nothing was edited since it was read, but for a slice one of whose
\* renames has another as its target.
PublishesWhatItRead ==
  [][Publishes =>
       /\ (\A v \in Range(vendors) : given[v.id] = None) => baked' = Fresh(vendors)
       /\ /\ Loads(registry, group) /\ registry = vendors
          /\ NamespaceOk(staged, firstParty) /\ ~Chained(vendors)
          => CheckPasses']_vars

\* A bake ends, whatever the servers answer (_http_get_bytes counts redirects down).
BakeEnds == phase # "idle" ~> phase = "idle"
=============================================================================
