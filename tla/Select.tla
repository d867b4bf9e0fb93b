------------------------------- MODULE Select -------------------------------
(***************************************************************************)
(* selection/: which capabilities of a pinned inventory a manifest selects. *)
(* The engine resolves selectors and vetoes, closes the roots under requires *)
(* and resources, groups the cycles, and reports; the author follows the    *)
(* fixes it prints while upstream renames what the selectors speak of.      *)
(*                                                                         *)
(* An ID publisher/package:role/name is a sequence of four, a selector a    *)
(* sequence of two or four that may end in "*"; an origin is a sequence.    *)
(* Reasons and messages are left out, codes and chains are kept.            *)
(***************************************************************************)
EXTENDS Integers, FiniteSets, SequencesExt, TLC

CONSTANTS
  None,       \* no value
  Order,      \* all IDs, as sorted() puts them
  Input,      \* the inventories and manifests the engine may be given first
  Fresh,      \* names upstream may give to what it renames
  MaxFixes,   \* bound: fixes the author follows
  MaxRenames  \* bound: renames

VARIABLES
  in,       \* inventory and manifest
  intent,   \* IDs the author meant to exclude, as they are called now
  phase,
  plan,     \* what the selectors, overrides and vetoes come to
  queue, parents,                             \* closure
  starts, frames, indexes, low, stack, units, \* strongly_connected
  result,
  before,   \* what the last report kept, as it is called now, or None
  fixes, renames

search  == <<queue, parents>>
tarjan  == <<starts, frames, indexes, low, stack, units>>
edits   == <<in, intent, before, fixes, renames>>
vars    == <<edits, phase, plan, search, tarjan, result>>

Sorted(S) == SelectSeq(Order, LAMBDA id : id \in S)
Role(id) == id[3]

------------------------------------------------------------------------------
(* Selectors.                                                              *)

\* parse_id with selector=True; matches.
Selector(s) == Len(s) \in {2, 4} /\ \A i \in DOMAIN s : s[i] = "*" => i = Len(s)
Matches(s, id) == IF Last(s) = "*" THEN IsPrefix(Front(s), id) ELSE IsPrefix(s, id)

\* migrate: rules are applied, the longest first, until none applies; the selector
\* that first matched an existing identity is kept.  << >> stands for its ValueError.
Cyclic == << >>
Rules(s, migrations) == {old \in DOMAIN migrations : IsPrefix(old, s)}
Rule(s, migrations) ==
  CHOOSE old \in Rules(s, migrations) : \A o \in Rules(s, migrations) : Len(o) <= Len(old)
Suffix(s, old) == SubSeq(s, Len(old) + 1, Len(s))

RECURSIVE Migrating(_, _, _, _, _, _)
Migrating(s, migrations, ids, existing, visited, suffixes) ==
  LET found == IF existing = << >> /\ \E id \in ids : Matches(s, id) THEN s ELSE existing
      old == Rule(s, migrations)
      suffix == Suffix(s, old)
      grows == \E t \in suffixes : t[1] = old /\ t[2] # suffix /\ IsSuffix(t[2], suffix)
  IN CASE Rules(s, migrations) = {} -> IF found # << >> THEN found ELSE s
       [] Rules(s, migrations) # {} /\ (s \in visited \/ grows) -> Cyclic
       [] OTHER -> Migrating(migrations[old] \o suffix, migrations, ids, found,
                             visited \cup {s}, suffixes \cup {<<old, suffix>>})
Migrate(s, migrations, ids) == Migrating(s, migrations, ids, << >>, {}, {})

CapIds(i)  == DOMAIN i.caps \cup {id \in i.rejected : Role(id) # "resource"}
AllIds(i)  == DOMAIN i.caps \cup DOMAIN i.resources
Known(i)   == AllIds(i) \cup i.rejected

Finding(code, at, chain) == [code |-> code, at |-> at, chain |-> chain, warning |-> FALSE]
Warning(code, at, chain) == [Finding(code, at, chain) EXCEPT !.warning = TRUE]

\* resolve_selectors, for one selector of one scope.
Target(i, s) == IF Selector(s) THEN Migrate(s, i.migrations, Known(i)) ELSE Cyclic
Included(i, scope, s) ==
  IF Target(i, s) = Cyclic THEN {} ELSE {id \in scope.members \cap CapIds(i) : Matches(Target(i, s), id)}
ExcludedBy(i, scope, s) ==
  IF Target(i, s) = Cyclic THEN {} ELSE {id \in scope.members : Matches(Target(i, s), id)}

Roots(i) ==
  UNION {IF scope.include = None THEN scope.members \cap CapIds(i)
         ELSE UNION {Included(i, scope, s) : s \in scope.include} : scope \in i.scopes}
\* Mutant: what is included by name is not excluded.
ExcludedUnlessNamed(i) ==
  UNION {UNION {ExcludedBy(i, scope, s) : s \in scope.exclude} \ (IF scope.include = None THEN {} ELSE scope.include)
         : scope \in i.scopes}
Excluded(i) == UNION {UNION {ExcludedBy(i, scope, s) : s \in scope.exclude} : scope \in i.scopes}

\* Mutant: a selector whose migrations are cyclic is passed over.
SelectorFindingsMatched(i) ==
  {Finding("selector-unmatched", scope.location, << >>) : scope \in
     {t \in i.scopes : \E s \in t.exclude : Target(i, s) # Cyclic /\ ExcludedBy(i, t, s) = {}}}
SelectorFindings(i) ==
  LET all == UNION {(IF scope.include = None THEN {} ELSE {<<scope, s, Included(i, scope, s)>> : s \in scope.include})
                    \cup {<<scope, s, ExcludedBy(i, scope, s)>> : s \in scope.exclude} : scope \in i.scopes}
  IN {Finding(IF Target(i, t[2]) = Cyclic THEN "invalid-selector" ELSE "selector-unmatched", t[1].location, << >>)
      : t \in {u \in all : u[3] = {}}}

------------------------------------------------------------------------------
(* Destination names and collision overrides.                              *)

MultiKey(c, id) == Role(id) \in {"integration", "lifecycle"} /\ Cardinality(c.destinations) > 1
NamesOf(c, id) ==
  IF c.aliases # {} /\ ~MultiKey(c, id) THEN c.aliases
  ELSE IF c.destinations # {} THEN c.destinations ELSE {id[4]}

\* names_and_skips: one override.
BadOverride(acc, id) == [acc EXCEPT !.findings = @ \cup {Finding("invalid-collision-override", id, <<id>>)}]
Override(i, acc, o) ==
  LET id == IF Len(o.capability) \in {2, 4} THEN Migrate(o.capability, i.migrations, Known(i)) ELSE Cyclic
      decided == [acc EXCEPT !.decisions = @ \cup {id}]
  IN CASE Len(id) \notin {2, 4} -> BadOverride(acc, o.capability)
       [] Len(id) \in {2, 4} /\ (id \notin CapIds(i) \/ id \in acc.decisions) -> BadOverride(acc, id)
       [] OTHER ->
            IF o.action = "skip" THEN [decided EXCEPT !.skips = @ \cup {id}]
            ELSE IF id \notin DOMAIN i.caps \/ (o.action = "rename" /\ MultiKey(i.caps[id], id)) THEN BadOverride(decided, id)
            ELSE IF o.action = "keep" THEN decided
            ELSE [decided EXCEPT !.names[id] = {o.name}, !.reserved = @ \cup {id}]

NamesAndSkips(i) ==
  LET aliased == {id \in DOMAIN i.caps : i.caps[id].aliases # {}}
  IN FoldLeft(LAMBDA acc, o : Override(i, acc, o),
       [names |-> [id \in DOMAIN i.caps |-> NamesOf(i.caps[id], id)],
        skips |-> {}, reserved |-> aliased, decisions |-> {},
        findings |-> {Finding("invalid-alias", id, <<id>>) : id \in {c \in aliased : MultiKey(i.caps[c], c)}}],
       i.collisions)

------------------------------------------------------------------------------
(* Vetoes.                                                                 *)

\* denied_origin: a rule is an origin, or a prefix that ends in "*".
OriginMatches(origin, rule) == origin = rule \/ (Last(rule) = "*" /\ IsPrefix(Front(rule), origin))
Origins(record) == {record.origin} \cup record.hops
Vetoed(record, rules) == \E o \in Origins(record), r \in rules : OriginMatches(o, r)

\* deny_matches: an ID is denied itself, or a capability through a resource of its own.
Denied(i) ==
  {id \in DOMAIN i.resources : Vetoed(i.resources[id], i.deny)}
  \cup {id \in DOMAIN i.caps : Vetoed(i.caps[id], i.deny)}
DeniedThrough(i) ==
  {id \in DOMAIN i.caps \ Denied(i) : i.caps[id].resources \cap Denied(i) # {}}
DenyChain(i, id) == <<id, Sorted(i.caps[id].resources \cap Denied(i))[1]>>

Unsupported(i) == IF i.roles = None THEN {} ELSE {id \in CapIds(i) : Role(id) \notin i.roles}

Blocked(i, skips) ==
  [id \in Excluded(i) \cup skips \cup Unsupported(i) \cup Denied(i) |->
     CASE id \in Denied(i) -> "denied"
       [] id \in Unsupported(i) \ Denied(i) -> "unsupported"
       [] OTHER -> "excluded"]

Requires(i, id) == IF id \in DOMAIN i.caps THEN i.caps[id].requires ELSE {}
\* Mutant: resources are not followed.
GraphRequires(i, id) ==
  Requires(i, id) \cup {e.target : e \in {f \in i.unresolved : f.source = id /\ f.field # "related"}}
Graph(i, id) ==
  Requires(i, id) \cup (IF id \in DOMAIN i.caps THEN i.caps[id].resources ELSE {})
  \cup {e.target : e \in {f \in i.unresolved : f.source = id /\ f.field # "related"}}

Plan(i) ==
  LET n == NamesAndSkips(i) IN
  [roots |-> Roots(i), blocked |-> Blocked(i, n.skips), names |-> n.names, reserved |-> n.reserved,
   findings |-> SelectorFindings(i) \cup n.findings]

------------------------------------------------------------------------------
(* closure, and strongly_connected over requires.                          *)

Nothing == [id \in {} |-> None]

Resolve ==
  /\ phase = "resolve"
  /\ plan' = Plan(in)
  /\ LET roots == plan'.roots \ DOMAIN plan'.blocked IN
       /\ queue' = Sorted(roots)
       /\ parents' = [id \in roots |-> None]
  /\ phase' = "close"
  /\ UNCHANGED <<edits, tarjan, result>>

\* closure: the head of the queue is expanded, unless it is blocked.
\* Mutant: blocked nodes are expanded.
Expand(node) == SelectSeq(Sorted(Graph(in, node)), LAMBDA id : id \notin DOMAIN parents)
Closing(node, found, rest) ==
  /\ queue' = rest
  /\ parents' = parents @@ [id \in ToSet(found) |-> node]
  /\ UNCHANGED <<edits, phase, plan, tarjan, result>>
CloseThroughBlocked ==
  phase = "close" /\ queue # << >>
  /\ Closing(Head(queue), Expand(Head(queue)), Tail(queue) \o Expand(Head(queue)))
Close ==
  /\ phase = "close" /\ queue # << >>
  /\ LET node == Head(queue)
         found == IF node \in DOMAIN plan.blocked THEN << >> ELSE Expand(node)
     IN Closing(node, found, Tail(queue) \o found)

Closed ==
  /\ phase = "close" /\ queue = << >>
  /\ starts' = Sorted(DOMAIN in.caps) /\ frames' = << >> /\ indexes' = Nothing /\ low' = Nothing
  /\ stack' = << >> /\ units' = {} /\ phase' = "group"
  /\ UNCHANGED <<edits, plan, search, result>>

Enter(node, fs) ==
  /\ indexes' = indexes @@ (node :> Cardinality(DOMAIN indexes))
  /\ low' = low @@ (node :> Cardinality(DOMAIN indexes))
  /\ stack' = Append(stack, node)
  /\ frames' = Append(fs, [node |-> node, edges |-> Sorted(Requires(in, node))])

Start ==
  /\ phase = "group" /\ frames = << >> /\ starts # << >>
  /\ starts' = Tail(starts)
  /\ IF Head(starts) \in DOMAIN indexes THEN UNCHANGED <<indexes, low, stack, frames>>
     ELSE Enter(Head(starts), << >>)
  /\ UNCHANGED <<edits, phase, plan, search, units, result>>

\* The next edge of the node on top: followed, or its target's index is taken over.
Edge ==
  /\ phase = "group" /\ frames # << >> /\ Last(frames).edges # << >>
  /\ LET top == Last(frames)
         target == Head(top.edges)
         rest == [frames EXCEPT ![Len(frames)].edges = Tail(top.edges)]
     IN IF target \notin DOMAIN indexes THEN Enter(target, rest)
        ELSE /\ frames' = rest
             /\ low' = IF target \in ToSet(stack) THEN [low EXCEPT ![top.node] = Min({@, indexes[target]})] ELSE low
             /\ UNCHANGED <<indexes, stack>>
  /\ UNCHANGED <<edits, phase, plan, search, starts, units, result>>

\* The top has no edge left: a component is popped at its root.
Leave ==
  /\ phase = "group" /\ frames # << >> /\ Last(frames).edges = << >>
  /\ LET node == Last(frames).node
         rest == Front(frames)
         at == CHOOSE k \in DOMAIN stack : stack[k] = node
     IN /\ frames' = rest
        /\ IF low[node] = indexes[node]
           THEN /\ units' = units \cup {ToSet(SubSeq(stack, at, Len(stack)))}
                /\ stack' = SubSeq(stack, 1, at - 1)
           ELSE UNCHANGED <<units, stack>>
        /\ low' = IF rest = << >> THEN low
                  ELSE [low EXCEPT ![Last(rest).node] = Min({@, low[node]})]
  /\ UNCHANGED <<edits, phase, plan, search, starts, indexes, result>>

------------------------------------------------------------------------------
(* The report of select.                                                   *)

Kept == DOMAIN parents \ DOMAIN plan.blocked

\* dependency_chain
ChainTo(id) ==
  LET up[n \in DOMAIN parents] == IF parents[n] = None THEN <<n>> ELSE Append(up[parents[n]], n)
  IN IF id \in DOMAIN parents THEN up[id] ELSE << >>

Refusals ==
  {Finding("required-denied", id, ChainTo(id) \o Tail(DenyChain(in, id))) : id \in Kept \cap DeniedThrough(in)}
  \cup {Finding("required-" \o plan.blocked[id], id, ChainTo(id)) : id \in DOMAIN parents \cap DOMAIN plan.blocked}
  \cup {Finding("required-missing", id, ChainTo(id)) : id \in Kept \ AllIds(in)}

\* What the inventory had to say, if it is about what is kept or is structural.
Trimmed(d) ==
  \/ d.code = "unknown-related"
  \/ d.code = "edge" /\ d.at \in DOMAIN in.caps \ Kept
  \/ d.code = "payload" /\ d.at \in Known(in) \ Kept
Carried ==
  {[Finding(d.code, d.at, IF d.at \in DOMAIN parents THEN ChainTo(d.at) ELSE <<d.at>>) EXCEPT !.warning = d.warning]
   : d \in {x \in in.diagnostics : ~Trimmed(x)}}

Related(id) ==
  (IF id \in DOMAIN in.caps THEN in.caps[id].related ELSE {})
  \cup {e.target : e \in {f \in in.unresolved : f.source = id /\ f.field = "related"}}
Dangling == UNION {{<<id, t>> : t \in Related(id) \ Kept} : id \in Kept}

\* check_namespace: kept capabilities and reserved names, per role.
Owners(role, name) ==
  {id \in DOMAIN in.caps \cap (Kept \cup plan.reserved) : Role(id) = role /\ name \in plan.names[id]}
Collisions ==
  {t \in {<<Role(id), name>> : id \in DOMAIN in.caps, name \in UNION {plan.names[c] : c \in DOMAIN in.caps}} :
     /\ Cardinality(Owners(t[1], t[2])) > 1
     /\ Owners(t[1], t[2]) \cap Kept # {}}

State(id) ==
  CASE id \in Kept /\ id \in DeniedThrough(in) -> "denied"
    [] id \in Kept /\ id \notin DeniedThrough(in) -> IF id \in plan.roots THEN "selected" ELSE "pulled-in"
    [] id \notin Kept /\ id \in DOMAIN plan.blocked -> plan.blocked[id]
    [] OTHER -> "excluded"

Findings ==
  plan.findings \cup Refusals \cup Carried
  \cup {Warning("dangling-related", d[1], ChainTo(d[1]) \o <<d[2]>>) : d \in Dangling}
  \cup {Finding("namespace-collision", t, << >>) : t \in Collisions}

Report ==
  /\ phase = "group" /\ frames = << >> /\ starts = << >>
  /\ result' = [entries |-> [id \in Known(in) |-> State(id)], findings |-> Findings]
  /\ phase' = "done"
  /\ UNCHANGED <<edits, plan, search, tarjan>>

Valid == phase = "done" /\ \A f \in result.findings : f.warning

------------------------------------------------------------------------------
(* The author, and upstream.                                               *)

Again ==
  /\ queue' = << >> /\ parents' = Nothing /\ starts' = << >> /\ frames' = << >> /\ indexes' = Nothing
  /\ low' = Nothing /\ stack' = << >> /\ units' = {} /\ plan' = None /\ result' = None /\ phase' = "resolve"

Exclude(id) ==
  in' = [in EXCEPT !.scopes = {IF id \in s.members THEN [s EXCEPT !.exclude = @ \cup {id}] ELSE s : s \in @}]

\* The fix of a refusal: exclude the root, or the capability that needs a denied resource.
Culprit(f) == IF f.at \in Kept /\ f.code = "required-denied" THEN f.at ELSE f.chain[1]
FollowRefusal ==
  /\ phase = "done" /\ fixes < MaxFixes
  /\ \E f \in Refusals :
       LET id == Culprit(f) IN
         /\ \E s \in in.scopes : id \in s.members
         /\ Exclude(id) /\ intent' = intent \cup {id}
  /\ before' = Kept /\ fixes' = fixes + 1 /\ Again /\ UNCHANGED renames

\* The fix of a collision: skip one of those that are kept, its one decision.
FollowCollision ==
  /\ phase = "done" /\ fixes < MaxFixes
  /\ \E t \in Collisions : \E id \in Owners(t[1], t[2]) \cap Kept :
       /\ in' = [in EXCEPT !.collisions = Append(SelectSeq(@, LAMBDA o : o.capability # id),
                                                  [capability |-> id, action |-> "skip", name |-> None])]
       /\ intent' = intent \cup {id}
  /\ before' = Kept /\ fixes' = fixes + 1 /\ Again /\ UNCHANGED renames

\* Upstream renames a capability and declares the migration; edges follow it on loading.
Swap(old, new, S) == {IF id = old THEN new ELSE id : id \in S}
Moved(i, old, new) ==
  LET back(id) == IF id = new THEN old ELSE id
      rec(c) == [c EXCEPT !.requires = Swap(old, new, @), !.related = Swap(old, new, @)]
  IN [i EXCEPT !.caps = [id \in Swap(old, new, DOMAIN i.caps) |-> rec(i.caps[back(id)])],
               !.rejected = Swap(old, new, @),
               !.unresolved = {[e EXCEPT !.source = IF @ = old THEN new ELSE @] : e \in @},
               !.diagnostics = {[d EXCEPT !.at = IF @ = old THEN new ELSE @] : d \in @},
               !.scopes = {[s EXCEPT !.members = Swap(old, new, @)] : s \in @},
               !.migrations = (old :> new) @@ @]
Rename ==
  /\ phase = "done" /\ renames < MaxRenames
  /\ \E old \in DOMAIN in.caps \ DOMAIN in.migrations, new \in Fresh \ Known(in) :
       /\ Role(old) = Role(new)
       /\ in' = Moved(in, old, new) /\ intent' = Swap(old, new, intent)
       /\ before' = Swap(old, new, Kept)
  /\ renames' = renames + 1 /\ Again /\ UNCHANGED fixes

------------------------------------------------------------------------------
Init ==
  /\ in \in Input /\ intent = Excluded(in) /\ before = None /\ fixes = 0 /\ renames = 0
  /\ phase = "resolve" /\ plan = None /\ queue = << >> /\ parents = Nothing /\ result = None
  /\ starts = << >> /\ frames = << >> /\ indexes = Nothing /\ low = Nothing /\ stack = << >> /\ units = {}

Engine == Resolve \/ Close \/ Closed \/ Start \/ Edge \/ Leave \/ Report
Author == FollowRefusal \/ FollowCollision
Next == Engine \/ Author \/ Rename

Spec == Init /\ [][Next]_vars
FairSpec == Spec /\ WF_vars(Engine) /\ WF_vars(Author)

------------------------------------------------------------------------------
(* Properties.                                                             *)

TypeOK ==
  /\ phase \in {"resolve", "close", "group", "done"}
  /\ ToSet(queue) \subseteq DOMAIN parents /\ IsInjective(queue)
  /\ \A id \in DOMAIN parents : parents[id] \in DOMAIN parents \cup {None}
  /\ DOMAIN low = DOMAIN indexes /\ ToSet(stack) \subseteq DOMAIN indexes
  /\ {frames[k].node : k \in DOMAIN frames} \subseteq ToSet(stack)

Done == phase = "done"

\* The least set that holds roots and, of each of its members outside stop, the targets.
Reach(roots, next(_), stop) ==
  LET closed == {S \in SUBSET ToSet(Order) :
                   roots \subseteq S /\ \A id \in S \ stop : next(id) \subseteq S}
  IN {id \in ToSet(Order) : \A S \in closed : id \in S}

\* The closure reaches what can be reached from the roots through what is not blocked,
\* and nothing else, in whatever order the queue was worked off (closure).
ClosureIsReach ==
  Done => DOMAIN parents =
            Reach(plan.roots \ DOMAIN plan.blocked, LAMBDA id : Graph(in, id), DOMAIN plan.blocked)

\* A refusal is explained by a chain of declared edges from a root to its cause,
\* through kept capabilities, and no chain is shorter (dependency_chain).
ChainsExplain ==
  Done => \A id \in DOMAIN parents :
    LET c == ChainTo(id) IN
      /\ c[1] \in plan.roots
      /\ \A k \in 1..(Len(c) - 1) : c[k] \in Kept /\ c[k + 1] \in Graph(in, c[k])
      /\ \A n \in Kept : id \in Graph(in, n) => Len(c) <= Len(ChainTo(n)) + 1

\* The components are the classes of capabilities that require one another
\* (strongly_connected), so a cycle is delivered and reported as one unit.
UnitsAreCycles ==
  Done => LET from(n) == Reach({n}, LAMBDA id : Requires(in, id) \cap DOMAIN in.caps, {}) IN
    units \ {{t} : t \in ToSet(Order) \ DOMAIN in.caps}
      = {{m \in from(n) : n \in from(m)} : n \in DOMAIN in.caps}

\* At any moment the searches' own data agree, and in the end they found what they are
\* defined to find, in whatever order they worked.
SearchesAgree == TypeOK /\ ClosureIsReach /\ ChainsExplain /\ UnitsAreCycles

\* A valid selection can be built: all that is kept is loaded, has all it requires,
\* and comes from no origin the consumer denies; and no choice of the consumer is
\* overruled because something else needs what was excluded (select).
Buildable ==
  Valid => \A id \in Kept :
    /\ id \in AllIds(in) \ in.rejected /\ id \notin Excluded(in) \cup Denied(in) \cup Unsupported(in)
    /\ id \in DOMAIN in.caps =>
         /\ in.caps[id].requires \cup in.caps[id].resources \subseteq Kept
         /\ in.caps[id].resources \cap Denied(in) = {}
    /\ \A e \in in.unresolved : e.source = id => e.field = "related"

\* In a valid selection no two capabilities of a role go to one destination, and none
\* goes where an alias or a rename of another one was reserved (check_namespace).
OneDestination ==
  Valid => \A id \in Kept \cap DOMAIN in.caps, other \in (Kept \cup plan.reserved) \cap DOMAIN in.caps :
    id # other /\ Role(id) = Role(other) => plan.names[id] \cap plan.names[other] = {}

\* A selection that is reported valid can be built and delivered: nothing it needs is
\* missing, excluded or denied, and nothing in it overwrites anything else.
KeptIsSound == Buildable /\ OneDestination

\* A name that upstream gave up was given to another capability.
Reused == \E old \in DOMAIN in.migrations \cap Known(in) : Migrate(old, in.migrations, {}) # Cyclic

\* What the author excluded stays out when upstream renames it, once or again, and
\* records the migration (migrate); and nothing comes in because something was excluded
\* or skipped, or renamed (resolve_selectors, closure).  Neither holds if an old name was
\* given to another capability, nor the second with invalid selectors.
StaysOut == Valid => intent \cap Kept = {}
FixesOnlyRemove == Done /\ before # None /\ plan.findings = {} => Kept \subseteq before
ExcludedStaysOut == ~Reused => StaysOut /\ FixesOnlyRemove

\* Following the fixes the engine prints ends: no fix brings a refusal back for ever,
\* unless a selector or an override is itself invalid.
FixesSettle == <>[](Done => plan.findings # {} \/ (Refusals = {} /\ Collisions = {}))
=============================================================================
