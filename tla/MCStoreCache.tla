---------------------------- MODULE MCStoreCache ----------------------------
(* A workspace of two members, one of them also served on its own, for TLC. *)
EXTENDS StoreCache, TLC

CONSTANTS app, lib, all, solo, old, new

MCMembersOf == all :> {app, lib} @@ solo :> {lib}

\* The contents of the stores are interchangeable.
Interchangeable == Permutations(Content)
=============================================================================
