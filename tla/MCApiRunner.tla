---------------------------- MODULE MCApiRunner ----------------------------
(***************************************************************************)
(* A source that refers to a shared schema and is changed by two overlays, *)
(* of which the second is a URL; two runners; one or two modules.          *)
(***************************************************************************)
EXTENDS ComposedDocument

Texts == {"/a", "/b", "paths", "get", "tags", "schemas", "pet", "type", "title", "note",
          "x", "y", "z", "1", "2"}
Object(at) == [kind |-> "object", at |-> at]
Array(at) == [kind |-> "array", at |-> at]

\* Both paths refer to the schema; the operations have tags of their own.
Base(title) ==
    "doc" :> Object([paths |-> "paths0", title |-> title]) @@
    "paths0" :> Object("/a" :> "a0" @@ "/b" :> "b0") @@
    "a0" :> Object([get |-> "op0", pet |-> "pet0"]) @@
    "b0" :> Object([get |-> "op1", pet |-> "pet0"]) @@
    "op0" :> Object([tags |-> "tags0"]) @@
    "op1" :> Object([tags |-> "tags1"]) @@
    "tags0" :> Array(<<"x", "y", "x", "z">>) @@
    "tags1" :> Array(<<"x", "x", "y">>)
Schema(type) == "pet0" :> Object([type |-> type])

\* The one overlay titles the document and removes tags, the other takes away
\* what is shared and adds to the operations.
Retitle(title) == "new0" :> Object([title |-> title, note |-> "new1"]) @@
                  "new1" :> Object([x |-> "1"])
Extend == "new2" :> Object([note |-> "new3", tags |-> "z"]) @@ "new3" :> Object([y |-> "2"]) @@
          "new4" :> Object([note |-> "new5"]) @@ "new5" :> Object([y |-> "1", x |-> "1"])

MCHeapOf == [c \in {"base1", "base2", "ref1", "over1", "over2", "extra1"} |->
    CASE c = "base1" -> Base("1") [] c = "base2" -> Base("2")
      [] c = "ref1" -> Schema("x")
      [] c \in {"over1", "over2"} -> Retitle(IF c = "over1" THEN "x" ELSE "y")
      [] c = "extra1" -> Extend]
Update(target, node) == [target |-> target, update |-> node, remove |-> FALSE]
Removal(target) == [target |-> target, update |-> "", remove |-> TRUE]
MCActionsOf ==
    [c \in {"over1", "over2"} |->
       <<Removal(<<{"paths"}, {"/a", "/b"}, {"pet"}>>), Update(<<>>, "new0"),
         Removal(<<{"paths"}, Texts, {"get"}, {"tags"}, {"x"}>>)>>] @@
    "extra1" :> <<Update(<<{"note"}>>, "new4"), Update(<<{"paths"}, {"/a"}, {"get"}>>, "new2"),
                  Update(<<{"paths"}, {"/b"}>>, "new4")>>

MCOverlays == <<"overlay", "remote">>
MCReferences == <<"schema">>
JustRemote == {"remote"}
MCContents == "source" :> {"base1", "base2"} @@ "schema" :> {"ref1"} @@
              "overlay" :> {"over1", "over2", "bad"} @@ "remote" :> {"extra1"}
OneBroken == {"bad"}
=============================================================================
