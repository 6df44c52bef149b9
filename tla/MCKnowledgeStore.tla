------------------------- MODULE MCKnowledgeStore -------------------------
(* Small instances of KnowledgeStore for TLC. *)
EXTENDS KnowledgeStore, TLC

CONSTANTS p1, a, b,       \* a writer, snapshot ids
          a1, a2, b1,     \* two contents of snapshot a, one of b
          team, other     \* corpora

MCSnapOf == a1 :> a @@ a2 :> a @@ b1 :> b

Ingest(c) == [kind |-> "ingest", content |-> c]
Pull(c, k, f) == [kind |-> "pull", content |-> c, corpus |-> k, force |-> f]

\* One process indexes feeds and pulls two corpora.
OneWriter == p1 :> {Ingest(a1), Pull(a2, team, FALSE), Pull(b1, other, FALSE), Pull(b1, other, TRUE)}
=============================================================================
