-------------------------- MODULE MCPolicyRuntime --------------------------
(* Small instances of PolicyRuntime for TLC: a directory and a file in it, *)
(* below the universal scope.                                              *)
EXTENDS PolicyRuntime, TLC

MCScopes == {"all", "dir", "file"}
MCLength == [all |-> 1, dir |-> 2, file |-> 3]
MCCovers == {<<a, b>> \in MCScopes \X MCScopes : MCLength[a] <= MCLength[b]}

\* The root holds nothing, or an allow for the directory.
MCDatabases == {[all |-> "none", dir |-> "none", file |-> "none"],
                [all |-> "none", dir |-> "allow", file |-> "none"]}
MCEmptyDatabase == {[all |-> "none", dir |-> "none", file |-> "none"]}

Symmetry == Permutations(Requests)
=============================================================================
