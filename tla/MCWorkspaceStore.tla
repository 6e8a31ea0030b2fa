--------------------------- MODULE MCWorkspaceStore ---------------------------
(* Small instances for TLC: "l" is a link to "p". *)
EXTENDS WorkspaceStore, TLC

MCPaths == {"p", "l"}
MCCanonical == [x \in Paths |-> "p"]
MCAll == Kinds
MCOverlapping == {"register", "remove", "create", "stop", "bootstrap"}
MCSymmetry == Permutations(Requests) \cup Permutations(Ids) \cup Permutations(Sessions)
=============================================================================
