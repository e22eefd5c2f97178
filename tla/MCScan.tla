------------------------------- MODULE MCScan -------------------------------
(***************************************************************************)
(* Scans of a repository with a doc, an ADR and a source file, which takes *)
(* one content or another; the doc is absent at first, and lies in a       *)
(* directory that the watcher was not given.                               *)
(***************************************************************************)
EXTENDS Scanner, TLC

\* Two contents: as a doc, each has a section for the same slug.
L(k, n) == [kind |-> k, name |-> n]
MCPathOrder == <<"doc", "adr", "src">>
MCLines == ("c1" :> <<L("h2", "A"), L("text", ""), L("rule", "r")>>) @@
           ("c2" :> <<L("rule", "r"), L("h2", ""), L("h2", "B"), L("text", ""), L("long", ""), L("rule", "t")>>)
MCSlug == ("A" :> "a") @@ ("B" :> "a") @@ ("" :> "")
MCDocModule == "doc" :> "m"
MCInModule == {<<"src", "m">>}
MCImports == ("c1" :> {"x"}) @@ ("c2" :> {"x", "y"})
MCRepositories == {[p \in Range(MCPathOrder) |-> IF p = "doc" THEN NoFile ELSE "c1"]}
MCEdits == {<<"src", "c1">>, <<"src", "c2">>, <<"src", NoFile>>, <<"doc", "c2">>}
MCRenames == {<<"src", "doc">>}
=============================================================================
