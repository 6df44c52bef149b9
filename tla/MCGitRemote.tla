---------------------------- MODULE MCGitRemote ----------------------------
(* Small instances of GitRemote for TLC. *)
EXTENDS GitRemote, TLC

CONSTANTS p1, p2,                       \* processes
          c1, c2,                       \* working clones
          art1, art2, ptr, attrs,       \* two artifacts, refs/main, .gitattributes
          idx1, idx2, sha1, sha2, cce   \* artifact bytes, pointer contents, a line

MCKey == {art1, art2, ptr, attrs}
MCArtifactKey == {art1, art2}
MCVal == {idx1, idx2, sha1, sha2, cce}
MCPointsTo == sha1 :> art1 @@ sha2 :> art2
MCProc == {p1, p2}

OwnClones == p1 :> c1 @@ p2 :> c2
OneClone  == p1 :> c1 @@ p2 :> c1

\* push_one of two commits of the same branch: racing on refs/main.
Push1 == [kind |-> "put", entries |-> <<<<art1, idx1>>, <<ptr, sha1>>>>]
Push2 == [kind |-> "put", entries |-> <<<<art2, idx2>>, <<ptr, sha2>>>>]
\* A retention prune, the LFS attribute, and a pull --latest reading the pointer.
Prune == [kind |-> "remove", entries |-> <<<<art1, Absent>>>>]
Lfs   == [kind |-> "attrs", entries |-> <<<<attrs, cce>>>>]
Get   == [kind |-> "get", entries |-> <<<<ptr, Absent>>>>]

OneEach == p1 :> 1 @@ p2 :> 1
TwoOne  == p1 :> 2 @@ p2 :> 1

Pushes    == {Push1, Push2}
PushGet   == {Push1, Push2, Get}
AllOps    == {Push1, Push2, Prune, Lfs, Get}
=============================================================================
