------------------------------ MODULE MCSelect ------------------------------
(* Three skills that require one another in all ways, a shared resource, and  *)
(* manifests that exclude, deny, alias, or speak of what is missing.          *)
EXTENDS Select

CONSTANTS NoOne   \* None, as the constants below write it

a == <<"p", "k", "skill", "a">>
b == <<"p", "k", "skill", "b">>
c == <<"q", "k", "skill", "c">>
d == <<"p", "k", "skill", "d">>
m == <<"p", "k", "integration", "m">>
r == <<"q", "k", "resource", "r">>
MCOrder == <<a, b, c, d, m, r>>
MCFresh == {b, d}

Own == <<"github", "own">>
Other == <<"github", "other">>
Mirror == <<"mirror", "x">>

Cap(requires, resources) ==
  [origin |-> Own, hops |-> {}, requires |-> requires, resources |-> resources, related |-> {},
   aliases |-> {}, destinations |-> {}]
Shared == [origin |-> Other, hops |-> {Mirror}]
Scope(location, members, include, exclude) ==
  [location |-> <<location>>, members |-> members, include |-> include, exclude |-> exclude]
Manifest(caps, include, exclude, deny) ==
  [caps |-> caps, resources |-> (r :> Shared), rejected |-> {}, unresolved |-> {}, diagnostics |-> {},
   scopes |-> {Scope("own", DOMAIN caps \cap {a, b, m}, include, exclude),
               Scope("vendor", (DOMAIN caps \cap {c}) \cup {r}, NoOne, {})},
   deny |-> deny, roles |-> NoOne, collisions |-> << >>, migrations |-> Nothing]

\* All ways in which three skills require one another; one of them needs a resource.
Graphs3 ==
  {(a :> Cap(A, {})) @@ (b :> Cap(B, {r})) @@ (c :> [Cap(C, {}) EXCEPT !.origin = Other]) :
     A \in SUBSET {b, c}, B \in SUBSET {a, c}, C \in SUBSET {a, b}}
Wide ==
  {Manifest(g, NoOne, {}, deny) : g \in Graphs3, deny \in {{}, {<<"mirror", "*">>}}}
  \cup {Manifest(g, {a, b}, {b}, {}) : g \in Graphs3}

Three == (a :> Cap({b}, {})) @@ (b :> Cap({}, {r})) @@ (c :> Cap({}, {}))
Plain == Manifest(Three, NoOne, {}, {})
Server(names, aliases) == [Cap({}, {}) EXCEPT !.destinations = names, !.aliases = aliases]
Over(capability, action, name) == [capability |-> capability, action |-> action, name |-> name]

Deep == (a :> Cap({b, d}, {})) @@ (b :> Cap({c}, {})) @@ (c :> Cap({m}, {})) @@ (d :> Cap({m}, {})) @@ (m :> Cap({}, {r}))

Special == {
  [Manifest(Deep, {a}, {}, {}) EXCEPT !.scopes = {Scope("own", {a, b, d, m}, {a}, {}), Scope("v", {c, r}, {}, {})}],
  [Manifest([Three EXCEPT ![a].requires = {c}, ![c].origin = Other], {a}, {}, {Other})
     EXCEPT !.scopes = {Scope("own", {a, b, r}, {a}, {}), Scope("v", {c}, {}, {})}],
  [Plain EXCEPT !.caps[c].destinations = {"a"}],
  [Plain EXCEPT !.caps[c].aliases = {"a"}, !.scopes = {Scope("all", {a, b, r}, NoOne, {}), Scope("v", {c}, {}, {})}],
  [Plain EXCEPT !.collisions = <<Over(c, "rename", "a")>>],
  [Plain EXCEPT !.collisions = <<Over(c, "rename", "a"), Over(c, "skip", NoOne)>>],
  [Plain EXCEPT !.collisions = <<Over(<<"p", "k">>, "skip", NoOne), Over(d, "skip", NoOne), Over(b, "keep", NoOne)>>],
  [Manifest(Three @@ (m :> Server({"x", "y"}, {"z"})), NoOne, {}, {})
     EXCEPT !.collisions = <<Over(m, "rename", "z")>>],
  [Manifest(Three @@ (m :> Server({"x"}, {})), {<<"p", "k">>}, {}, {}) EXCEPT !.roles = {"skill"}, !.caps[a].requires = {m}],
  [Plain EXCEPT !.rejected = {d}, !.caps[a].requires = {d},
                !.diagnostics = {[code |-> "payload", at |-> d, warning |-> FALSE]}],
  [Plain EXCEPT !.rejected = {d}, !.caps[c].related = {d},
                !.diagnostics = {[code |-> "payload", at |-> d, warning |-> FALSE],
                                 [code |-> "unknown-related", at |-> c, warning |-> TRUE]}],
  [Plain EXCEPT !.unresolved = {[source |-> b, field |-> "requires", target |-> m],
                                [source |-> a, field |-> "related", target |-> m]},
                !.diagnostics = {[code |-> "edge", at |-> b, warning |-> FALSE]}],
  [Plain EXCEPT !.diagnostics = {[code |-> "duplicate", at |-> b, warning |-> FALSE]}],
  [Plain EXCEPT !.scopes = {Scope("own", {a, b}, {<<"p", "*">>, <<"p", "*", "x">>, <<"p", "no">>}, {c})}],
  [Plain EXCEPT !.migrations = (<<"o", "k">> :> <<"p", "k">>) @@ (<<"g", "k">> :> <<"g", "k", "skill", "b">>),
                !.scopes = {Scope("own", {a, b, r}, {<<"o", "k", "skill", "a">>, <<"g", "k", "skill", "a">>}, {})}],
  Manifest(Three, NoOne, {a}, {Own}) }

MCInput == Wide \cup Special
=============================================================================
