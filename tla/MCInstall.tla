----------------------------- MODULE MCInstall -----------------------------
(* A publisher p with two packages and a vendor v, which itself was built     *)
(* from o; and the command lines that a consumer may give.                    *)
EXTENDS Install

CONSTANTS NoOne   \* None, as the constants below write it

x == <<"p", "a", "skill", "x">>
g == <<"p", "a", "resource", "g">>
h == <<"p", "a", "resource", "h">>
z == <<"p", "b", "skill", "z">>
y == <<"v", "b", "skill", "y">>
r == <<"v", "b", "resource", "r">>
MCOrder == <<g, h, x, z, r, y>>

Ours == <<<<"git", "own">>, NoOne>>
Ven1 == <<<<"hub", "ven">>, "r1">>
Ven2 == <<<<"hub", "ven">>, "r2">>
Orig == <<<<"mirror", "orig">>, "o1">>

File(text, kind, refs) == [text |-> <<text>>, mode |-> "plain", kind |-> kind, refs |-> refs, license |-> NoOne]
Ref(form, up, down) == [form |-> form, up |-> up, down |-> down, dot |-> FALSE]
Dot(ref) == [ref EXCEPT !.dot = TRUE]
Terms(text) == File(text, "legal", {})

\* Every snapshot, and what the author's own checkout holds besides.
Vendored(ven, text) ==
  (<<ven, "LICENSE">> :> Terms(text))
  @@ (<<ven, "skills", "y", "SKILL.md">> :> File(text, "markdown", {Ref("field", 2, <<"res", "r", "data">>)}))
  @@ (<<ven, "res", "r", "data">> :> File(text, "binary", {}))
Snapshots ==
  Vendored(Ven1, "one") @@ Vendored(Ven2, "two") @@ (<<Orig, "LICENSE">> :> Terms("orig"))
Checkout(skill, refs) ==
  (<<Ours, "LICENSE">> :> Terms("own"))
  @@ (<<Ours, "vendors.yaml">> :> [File("registry", "text", {}) EXCEPT !.text = <<"registry", {Ven1[1], <<"hub", "else">>}>>])
  @@ (<<Ours, "NOTICE.md">> :> [Terms("notice") EXCEPT !.text = Rendered({Ven1[1], <<"hub", "else">>})])
  @@ (<<Ours, "skills", "x", "SKILL.md">> :> [File(skill, "markdown", refs) EXCEPT !.license = skill])
  @@ (<<Ours, "skills", "x", "h.md">> :> File("h", "markdown", {Ref("markdown", 0, <<"SKILL.md">>)}))
  @@ (<<Ours, "skills", "x", "NOTICE">> :> Terms("notice"))
  @@ (<<Ours, "guides", "g", "g.md">> :> File("g", "markdown", {Ref("markdown", 2, <<"skills", "x", "h.md">>)}))
  @@ (<<Ours, "baked", "z", "SKILL.md">> :> File("z", "text", {Ref("opaque", 1, <<"elsewhere">>)}))
  @@ Snapshots

Hop(c, path) == [coordinate |-> c, path |-> path, exact |-> TRUE]
Cap(at, requires, resources, lineage, fields) ==
  [at |-> at, requires |-> requires, related |-> {}, resources |-> resources, lineage |-> lineage, fields |-> fields]
Res(at, lineage) == [at |-> at, lineage |-> lineage, fields |-> {}]
Pub(publisher, version, vendors, manifest) ==
  [vendors |-> vendors, manifest |-> manifest, publisher |-> publisher, version |-> version, license |-> publisher]

Refs == {Dot(Ref("markdown", 0, <<"h.md">>)), Ref("field", 2, <<"guides", "g", "g.md">>), Ref("markdown", 2, <<"guides", "g">>)}
\* y was made by o, and what v changed of it is v's own; z came from v as it is.
Source(tree, ven, needs) ==
  [tree |-> tree, own |-> Ours, given |-> {ven, Orig}, coordinates |-> <<Ours, ven, Orig>>,
   selected |-> ToSet(MCOrder),
   pubs |-> (Ours :> Pub("p", "own", {ven}, TRUE)) @@ (ven :> Pub("v", ven[2], {Orig}, FALSE))
            @@ (Orig :> Pub("o", "o", {}, TRUE)),
   caps |-> (x :> Cap(<<Ours, "skills", "x">>, {z}, {g, h}, <<<<Hop(Ours, <<"skills", "x">>)>>>>, {<<"SKILL.md">>}))
            @@ (z :> Cap(<<Ours, "baked", "z">>, needs, {},
                         <<<<[Hop(ven, <<"skills", "y">>) EXCEPT !.exact = FALSE], Hop(Ours, <<"baked", "z">>)>>>>, {}))
            @@ (y :> Cap(<<ven, "skills", "y">>, {}, {r},
                         <<<<Hop(Orig, <<"skills", "y">>), Hop(ven, <<"skills", "y">>)>>>>, {<<"SKILL.md">>})),
   resources |-> (g :> Res(<<Ours, "guides", "g">>, <<<<Hop(Ours, <<"guides", "g">>)>>>>))
            @@ (h :> Res(<<Ours, "skills", "x", "h.md">>, <<<<Hop(Ours, <<"skills", "x", "h.md">>)>>>>))
            @@ (r :> Res(<<ven, "res", "r">>, <<<<Hop(ven, <<"res", "r">>)>>>>))]

\* The legal texts may be edited, and a registry whose notice is not made again.
Relicensed(tree) ==
  [tree EXCEPT ![<<Ours, "LICENSE">>] = Terms("other"), ![<<Ven1, "LICENSE">>] = Terms("other"),
               ![<<Ours, "vendors.yaml">>].text = <<"registry", {Ven1[1]}>>]

MCSources == <<
  Source(Checkout("x", Refs), Ven1, {y}),
  Source(Checkout("new", Refs \cup {Ref("opaque", 2, <<"guides", "g", "g.md">>), Dot(Ref("opaque", 0, <<"h.md">>))}), Ven1, {y}),
  Source(Checkout("x", Refs), Ven2, {x, y}),
  Source(Relicensed(Checkout("x", Refs)), Ven1, {y}) >>

\* Command lines.
Plain(cmd) ==
  [command |-> cmd, skills |-> {}, bundle |-> NoOne, vendor |-> NoOne, excludes |-> {}, denies |-> {},
   digests |-> {}, frozen |-> FALSE, dry |-> FALSE]
Install0 == Plain("install")
MCRequests == {
  Install0, Plain("update"),
  [Install0 EXCEPT !.frozen = TRUE],
  [Plain("update") EXCEPT !.frozen = TRUE],
  [Install0 EXCEPT !.frozen = TRUE, !.excludes = {x}],
  [Install0 EXCEPT !.excludes = {<<"q", "gone">>}],
  [Install0 EXCEPT !.skills = {<<"a">>}, !.digests = {[package |-> NoOne, right |-> TRUE]}],
  [Install0 EXCEPT !.skills = {<<"b">>}],
  [Install0 EXCEPT !.skills = {<<"a">>, <<"p", "b">>}],
  [Install0 EXCEPT !.bundle = <<"p", "b">>, !.vendor = "v"],
  [Install0 EXCEPT !.bundle = <<"p", "b">>, !.excludes = {<<"p", "b">>}],
  [Install0 EXCEPT !.vendor = "v", !.denies = {<<"mirror", "*">>}, !.dry = TRUE],
  [Install0 EXCEPT !.excludes = {y}],
  [Install0 EXCEPT !.denies = {<<"hub", "ven">>}, !.excludes = {z, x}],
  [Install0 EXCEPT !.digests = {[package |-> <<"p", "a">>, right |-> FALSE]}] }

\* A command reads the directory, its lock and its profile.  Edits, and the steps of a build
\* before its last, touch none of them: they are taken before the first command.
MCInit == Init /\ source = 1
MCNext ==
  \/ Consumer
  \/ commands = 0 /\ Prepare
  \/ Publish
  \/ Lock
  \/ Damage
MCSpec == MCInit /\ [][MCNext]_vars
=============================================================================
