--------------------------- MODULE MCWorkspaceSync ---------------------------
(* Small instance of WorkspaceSync for TLC. *)
EXTENDS WorkspaceSync, TLC

CONSTANTS ax, bx, by, x, y

\* Two repositories have the short name x and share a commit; bx and by form the workspace.
MCOrder == <<ax, bx, by>>
MCShort == ax :> x @@ bx :> x @@ by :> y
MCCommits == ax :> {1} @@ bx :> {1, 2} @@ by :> {1, 2}
MCEdges == {<<bx, by>>}
=============================================================================
