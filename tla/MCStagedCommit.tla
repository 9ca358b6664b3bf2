---------------------------- MODULE MCStagedCommit ----------------------------
(* A folder with a file x, a file y in a directory d (or a file d), and    *)
(* types/tasty with its manifest and one chunk, and z beside it.           *)
EXTENDS StagedCommit, TLC

X == <<"x">>
D == <<"d">>
Y == <<"d", "y">>
Types == <<"types">>
Z == <<"types", "z">>
MCTasty == <<"types", "tasty">>
MCTmps == {<<"types", "tmp1">>, <<"types", "tmp2">>}
MCChunks == {"manifest", "chunk"}
MCContents == {"old", "new"}
MCPaths == {X, D, Y, Types, Z, MCTasty} \cup MCTmps
           \cup {Append(t, c) : t \in MCTmps \cup {MCTasty}, c \in MCChunks}
MCPreserved == {MCTasty}

\* Every folder with x, d and y in it or not, before any tasty build.
MCTree(x, d, y) ==
  [p \in MCPaths |-> CASE p = X -> x [] p = D -> d [] p = Y -> y [] OTHER -> "nothing"]

MCTrees ==
  {MCTree(x, d, "nothing") : x \in MCContents \cup {"nothing"}, d \in MCContents \cup {"nothing", "dir"}}
  \cup {MCTree(x, "dir", y) : x \in MCContents \cup {"nothing"}, y \in MCContents}
  \cup {[MCTree("old", "nothing", "nothing") EXCEPT ![Types] = "dir", ![Z] = z] : z \in {"old", "dir"}}

MCOutputs ==
  [{X, Y} -> MCContents] \cup [{X, D} -> MCContents] \cup [{X} -> MCContents]
=============================================================================
