---------------------------- MODULE MCCodeStore ----------------------------
(* Small instances of CodeStore for TLC. *)
EXTENDS CodeStore, TLC

CONSTANTS p1, p2, s1, s2, safe, unsafe

MCSha == {s1, s2}
MCLocalBuild == {safe, unsafe}
MCProtected == {s1, s2, safe}

Pull(t, f) == [kind |-> "pull", target |-> t, force |-> f]
PullAll    == [kind |-> "pull_all", target |-> Latest, force |-> FALSE]
Warm       == [kind |-> "warm", target |-> Latest, force |-> FALSE]
Index(b)   == [kind |-> "index", build |-> b]

Pulls   == {Pull(Latest, FALSE), Pull(s1, FALSE), Pull(s2, TRUE), Warm}
Indexes == {Index(b) : b \in MCLocalBuild}

\* One process that runs every command but pull --all.
OneProcess == p1 :> Pulls \cup Indexes
\* One process pulls, another one indexes.
PullerAndIndexer == p1 :> {Pull(s1, FALSE), Pull(Latest, TRUE), PullAll} @@ p2 :> {Index(unsafe)}
OnlyPullAll == p1 :> {PullAll, Pull(Latest, TRUE)}
WarmAndIndex == p1 :> {Warm} \cup Indexes
=============================================================================
