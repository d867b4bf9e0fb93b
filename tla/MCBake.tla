------------------------------- MODULE MCBake -------------------------------
(* Two vendors, archives with the shapes that matter, and registries that     *)
(* slice them well, badly, in conflict, or with a chain of renames.           *)
EXTENDS Bake, TLC

CONSTANTS NoOne   \* None, as the constants below write it

\* The content of a file: the name of its frontmatter, and what checks look at.
File(name) == [kind |-> "file", mode |-> "plain", size |-> 1, name |-> name, secret |-> NoOne, ref |-> NoOne, lfs |-> FALSE]
Link == [File(NoOne) EXCEPT !.kind = "link"]
Member(path, node) ==
  [name |-> <<"root">> \o path, kind |-> node.kind, mode |-> "plain", size |-> node.size,
   target |-> <<"root", "skills">>, node |-> node]
Tar(ms) == [bytes |-> 4, padding |-> 1, members |-> ms]

Top == [Member(<< >>, File(NoOne)) EXCEPT !.kind = "dir"]
Alpha == Member(<<"skills", "alpha", "SKILL.md">>, [File("alpha") EXCEPT !.ref = <<"doc.md">>])
Doc == Member(<<"skills", "alpha", "doc.md">>, File(NoOne))
Readme == Member(<<"skills", "alpha", "README.md">>, File(NoOne))
Nested == Member(<<"skills", "alpha", "sub", "SKILL.md">>, File("sub"))
Beta == Member(<<"skills", "beta", "SKILL.md">>, File(NoOne))
Helper == Member(<<"agents", "helper">>, File(NoOne))
License == Member(<<"LICENSE">>, File(NoOne))
Free == Member(<<"docs", "link">>, Link)
Secret == Member(<<"skills", "alpha", "doc.md">>, [File(NoOne) EXCEPT !.secret = "token"])
Delta == Member(<<"skills", "delta", "SKILL.md">>, File("delta"))
Escape == [Doc EXCEPT !.name = <<"root", "..", "x">>]

MCArchive ==
  (<<"a/x", "s1">> :> Tar(<<Top, Alpha, Doc, Readme, Beta, Helper, License, Free>>))
  @@ (<<"a/x", "s2">> :> Tar(<<Top, Alpha, Secret, Nested, Helper, License>>))
  @@ (<<"b/y", "s1">> :> Tar(<<Top, Alpha, Doc, Delta, Helper>>))
  @@ (<<"b/y", "s2">> :> Tar(<<Top, Escape>>))

\* A tree at hand: what the archive b/y s1 holds.
MCLocalTree == {[p \in {<<"skills", "alpha", "SKILL.md">>, <<"skills", "alpha", "doc.md">>, <<"skills", "delta", "SKILL.md">>,
                         <<"agents", "helper">>} |->
                   CASE p = <<"skills", "alpha", "SKILL.md">> -> Alpha.node
                     [] p = <<"skills", "delta", "SKILL.md">> -> Delta.node
                     [] OTHER -> File(NoOne)]}

Limit == [downloadBytes |-> 9, archiveMembers |-> 18, memberBytes |-> 3, archiveBytes |-> 20,
          compressionRatio |-> 3, fileBytes |-> 3, pluginBytes |-> 9]

Part(id) == [id |-> id, description |-> "d", skillsRoot |-> <<"skills">>, skills |-> All, extraSkills |-> << >>,
             extraFiles |-> << >>, renameSkills |-> << >>, agents |-> << >>]
Source(id, repo, sha, pls) ==
  [id |-> id, repo |-> repo, sha |-> sha, license |-> "MIT", homepage |-> "h", displayRef |-> "v1.0.0",
   skillRoots |-> <<<<"skills">>>>, limits |-> Limit, ingestAllow |-> {}, plugins |-> pls]

One == [Part("one") EXCEPT !.extraFiles = <<<<"LICENSE">>>>, !.agents = <<"helper">>]
Two == [Part("two") EXCEPT !.skills = <<<<"alpha">>>>, !.renameSkills = <<<<"alpha", "aleph">>>>]
Chain == [Part("two") EXCEPT !.renameSkills = <<<<"alpha", "delta">>, <<"delta", "epsilon">>>>]
Agents == [Part("three") EXCEPT !.skillsRoot = <<"agents">>, !.agents = <<"helper">>]
Acknowledges == {<<<<"skills", "alpha", "doc.md">>, "token", [File(NoOne) EXCEPT !.secret = "token", !.mode = NoOne]>>}

A(sha) == Source("a", "a/x", sha, <<One>>)
B(sha, pls) == Source("b", "b/y", sha, pls)
Good == <<A("s1"), B("s1", <<Two>>)>>

MCRegistry == {
  Good,
  <<[A("s1") EXCEPT !.license = "BSD"], B("s1", <<Two>>)>>,
  <<[Source("a", "a/x", "s2", <<[One EXCEPT !.skillsRoot = <<"*">>]>>) EXCEPT !.ingestAllow = Acknowledges],
    B("s1", << >>)>>,
  <<A("s1"), B("s1", <<[Two EXCEPT !.renameSkills = << >>]>>)>>,
  <<A("s1"), B("s1", <<[Two EXCEPT !.id = "one"]>>)>>,
  <<A("s1"), B("s2", <<Two>>)>>,
  <<B("s1", <<Chain>>)>>,
  <<B("s1", <<Two, Agents>>)>>,
  <<A("s1"), B("s1", <<Agents>>)>>,
  <<[A("s1") EXCEPT !.homepage = NoOne]>> }
MCGroup == {{}, {"two"}}
MCFirstParty == {{}, {"aleph"}}

\* First-party plugins and skills that take the names of others come by an edit.
MCInit == Init /\ group = {} /\ firstParty = {}
MCSpec == MCInit /\ [][Next]_vars /\ WF_vars(BakeStep)
=============================================================================
