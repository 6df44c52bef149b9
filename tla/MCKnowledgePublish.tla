-------------------------- MODULE MCKnowledgePublish --------------------------
(* Small instance of KnowledgePublish for TLC. *)
EXTENDS KnowledgePublish, TLC

CONSTANTS a, b, s0, s1, s2, r1, r2, x, y

\* s1 edits the record of s0; s2 adds a record to it.
MCFeed == s0 :> (r1 :> x) @@ s1 :> (r1 :> y) @@ s2 :> (r1 :> x @@ r2 :> x)
=============================================================================
