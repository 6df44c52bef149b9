-------------------------- MODULE KnowledgePublish --------------------------
(***************************************************************************)
(* `cce knowledge push` of one corpus by several producers, each with its  *)
(* own clone of the cache (src/sync/knowledge_commands.rs), and what       *)
(* `sync list`, `knowledge pull` and the freshness summary read of it.     *)
(*                                                                         *)
(* The cache is taken at the level of GitCache: a put or a removal lands   *)
(* as one whole change on the tip, or fails.  A read goes through a fetch  *)
(* that is best effort, so it sees the tip or what the clone saw last.     *)
(* A snapshot id hashes the feed only; the bytes published under it also   *)
(* depend on the producer's configuration, its Variant.                    *)
(***************************************************************************)
EXTENDS Naturals, Sequences, FiniteSets, SequencesExt

CONSTANTS Producer,   \* machines that push
          Snapshot,   \* feeds, by snapshot id
          Record,     \* record ids
          Variant,    \* producer configurations
          Body,       \* rendered contents of a record
          Feed,       \* [Snapshot -> a function from some of Record to Body]
          KeepLast,   \* retention: the n of keep-last-n, or None for `all`
          Lfs,        \* does the project use git-LFS?
          MaxPush,    \* pushes in a behaviour (bound)
          None

ASSUME PublishAssumption ==
  /\ MaxPush \in Nat
  /\ KeepLast \in Nat \cup {None}
  /\ \A s \in Snapshot : DOMAIN Feed[s] \subseteq Record

\* No snapshot and no configuration is "none".
ASSUME NoneAssumption == None \notin Snapshot \cup Variant

VARIABLES cache,    \* the tip of the cache branch, for this corpus
          view,     \* [Producer -> what its clone fetched last]
          job,      \* [Producer -> the running push, or None]
          pushes,   \* pushes started (bound)
          lastOp    \* the last change of the cache, for the properties

vars == <<cache, view, job, pushes, lastOp>>

\* `arts` maps a published snapshot to the variant of its bytes, `added` is
\* the order in which the keys were first added (git log --diff-filter=A).
EmptyCache == [current |-> None, arts |-> [s \in Snapshot |-> None],
               meta |-> None, added |-> <<>>, lfs |-> FALSE]

Keys(c) == {s \in Snapshot : c.arts[s] # None}

-----------------------------------------------------------------------------
(* The push guard's diff and the retention's choice.                       *)

\* record_digests: one digest per record over the full content of its chunks.
\* The redactor and the section budget of the variant are part of the content.
RecordDigests(s, v) == [r \in DOMAIN Feed[s] |-> <<Feed[s][r], v>>]

DiffRecords(local, remote) ==
  [added   |-> DOMAIN local \ DOMAIN remote,
   removed |-> DOMAIN remote \ DOMAIN local,
   changed |-> {r \in DOMAIN local \cap DOMAIN remote : local[r] # remote[r]}]

\* Keys that are not in the history sort last, in key order.
Position(c, s) == IF \E i \in DOMAIN c.added : c.added[i] = s
                  THEN CHOOSE i \in DOMAIN c.added : c.added[i] = s
                  ELSE Len(c.added) + 1


PruneSetOfYoungest(c, keys, own) ==
  IF KeepLast = None THEN {}
  ELSE {s \in keys : Cardinality({t \in keys : Position(c, t) < Position(c, s)}) >= KeepLast}
         \ {own}

\* Everything but the KeepLast youngest keys, and never the pushed snapshot.
PruneSet(c, keys, own) ==
  IF KeepLast = None THEN {}
  ELSE {s \in keys : Cardinality({t \in keys : Position(c, t) > Position(c, s)}) >= KeepLast}
         \ {own}

-----------------------------------------------------------------------------
(* One push, a step per exchange with the remote.                          *)

Running(p, ph) == job[p] # None /\ job[p].phase = ph
Go(p, ph)      == job' = [job EXCEPT ![p].phase = ph]
Return(p)      == job' = [job EXCEPT ![p] = None]
NoChange       == UNCHANGED <<cache, lastOp>>

\* fetch: the clone follows the tip, or stays where it was when offline.
Fetched(p) == view' = [view EXCEPT ![p] = cache] \/ UNCHANGED view

\* No local store, no corpus id, a store without embeddings or no remote end the
\* command before anything is read; a dry run passes the guard even when forced.
Start(p, s, v, force, dry) ==
  /\ job[p] = None
  /\ pushes < MaxPush
  /\ pushes' = pushes + 1
  /\ job' = [job EXCEPT ![p] = [phase |-> IF dry \/ ~force THEN "pointer" ELSE "lfs",
                                snap |-> s, variant |-> v, dry |-> dry, forced |-> force /\ ~dry,
                                seen |-> None, keys |-> {}]]
  /\ UNCHANGED <<cache, view, lastOp>>

\* No pointer: a first publish, nothing to compare with.
GuardPointer(p) ==
  /\ Running(p, "pointer")
  /\ Fetched(p)
  /\ LET seen == view'[p].current
     IN IF seen # None
        THEN job' = [job EXCEPT ![p].phase = "compare", ![p].seen = seen]
        ELSE IF job[p].dry THEN Return(p) ELSE Go(p, "lfs")
  /\ NoChange /\ UNCHANGED pushes

MayReplaceWithoutDiff(j, c) ==
  /\ c.arts[j.seen] # None
  /\ j.seen = j.snap => c.arts[j.seen] = j.variant


\* The guard's verdict on the remote's current snapshot as it was fetched.
MayReplace(j, c) ==
  /\ c.arts[j.seen] # None
  /\ IF j.seen = j.snap
     THEN c.arts[j.seen] = j.variant
     ELSE DiffRecords(RecordDigests(j.snap, j.variant),
                      RecordDigests(j.seen, c.arts[j.seen])).removed = {}


\* The current snapshot is fetched, verified and compared; a snapshot that cannot
\* be read refuses the push, and a dry run ends here whatever the verdict.
GuardCompare(p) ==
  /\ Running(p, "compare")
  /\ Fetched(p)
  /\ IF MayReplace(job[p], view'[p]) /\ ~job[p].dry THEN Go(p, "lfs") ELSE Return(p)
  /\ NoChange /\ UNCHANGED pushes

\* ensure_knowledge_lfs looks at the .gitattributes of the clone.
EnsureKnowledgeLfs(p) ==
  /\ Running(p, "lfs")
  /\ IF Lfs /\ ~view[p].lfs
     THEN \/ /\ cache' = [cache EXCEPT !.lfs = TRUE]
             /\ view' = [view EXCEPT ![p] = cache']
             /\ Go(p, "put")
          \/ Return(p) /\ UNCHANGED <<cache, view>>
     ELSE Go(p, "put") /\ UNCHANGED <<cache, view>>
  /\ UNCHANGED <<pushes, lastOp>>


Published(c, s, v) ==
  [c EXCEPT !.arts[s] = v, !.current = s, !.meta = s,
            !.added = IF s \in ToSet(c.added) THEN @ ELSE Append(@, s)]

\* put_many: artifact, pointer and corpus.json in one change, or an error.
Put(p) ==
  /\ Running(p, "put")
  /\ \/ /\ cache' = Published(cache, job[p].snap, job[p].variant)
        /\ view' = [view EXCEPT ![p] = cache']
        /\ lastOp' = [op |-> "put", by |-> p, job |-> job[p]]
        /\ IF KeepLast = None THEN Return(p) ELSE Go(p, "list")
     \/ Return(p) /\ UNCHANGED <<cache, view, lastOp>>
  /\ UNCHANGED pushes

\* apply_retention lists the keys, then reads the history, each after a fetch.
ListKeys(p) ==
  /\ Running(p, "list")
  /\ Fetched(p)
  /\ job' = [job EXCEPT ![p].phase = "order", ![p].keys = Keys(view'[p])]
  /\ NoChange /\ UNCHANGED pushes

OrderKeys(p) ==
  /\ Running(p, "order")
  /\ Fetched(p)
  /\ LET prune == PruneSet(view'[p], job[p].keys, job[p].snap)
     IN IF prune = {} THEN Return(p)
        ELSE job' = [job EXCEPT ![p].phase = "remove", ![p].keys = prune]
  /\ NoChange /\ UNCHANGED pushes

RemoveManyUntilDone(p) ==
  /\ Running(p, "remove")
  /\ \/ /\ cache' = [cache EXCEPT !.arts =
                       [s \in Snapshot |-> IF s \in job[p].keys THEN None ELSE @[s]]]
        /\ view' = [view EXCEPT ![p] = cache']
        /\ lastOp' = [op |-> "remove", by |-> p, job |-> job[p]]
        /\ Return(p)
     \/ Go(p, "list") /\ UNCHANGED <<cache, view, lastOp>>
  /\ UNCHANGED pushes

\* remove_many; its failure is a warning of a push that succeeded.
RemoveMany(p) ==
  /\ Running(p, "remove")
  /\ Return(p)
  /\ \/ /\ cache' = [cache EXCEPT !.arts =
                       [s \in Snapshot |-> IF s \in job[p].keys THEN None ELSE @[s]]]
        /\ view' = [view EXCEPT ![p] = cache']
        /\ lastOp' = [op |-> "remove", by |-> p, job |-> job[p]]
     \/ UNCHANGED <<cache, view, lastOp>>
  /\ UNCHANGED pushes

\* The process dies: nothing on the cache is undone.
Die(p) ==
  /\ job[p] # None
  /\ Return(p)
  /\ NoChange /\ UNCHANGED <<view, pushes>>

-----------------------------------------------------------------------------
Init ==
  /\ cache = EmptyCache
  /\ view = [p \in Producer |-> EmptyCache]
  /\ job = [p \in Producer |-> None]
  /\ pushes = 0
  /\ lastOp = None

Step(p) == \/ GuardPointer(p) \/ GuardCompare(p) \/ EnsureKnowledgeLfs(p) \/ Put(p)
           \/ ListKeys(p) \/ OrderKeys(p) \/ RemoveMany(p)

Next == \E p \in Producer :
          \/ Step(p)
          \/ \E s \in Snapshot, v \in Variant, force, dry \in BOOLEAN : Start(p, s, v, force, dry)
          \/ Die(p)

Spec == Init /\ [][Next]_vars /\ \A p \in Producer : WF_vars(Step(p))
-----------------------------------------------------------------------------
(* Properties.                                                             *)

Job == [phase : {"pointer", "compare", "lfs", "put", "list", "order", "remove"},
        snap : Snapshot, variant : Variant, dry : BOOLEAN, forced : BOOLEAN,
        seen : Snapshot \cup {None}, keys : SUBSET Snapshot]
Cache == [current : Snapshot \cup {None}, arts : [Snapshot -> Variant \cup {None}],
          meta : Snapshot \cup {None}, added : Seq(Snapshot), lfs : BOOLEAN]

\* The shape of the state, and no key is twice in the history.
TypeOK ==
  /\ cache \in Cache
  /\ view \in [Producer -> Cache]
  /\ job \in [Producer -> Job \cup {None}]
  /\ pushes \in 0..MaxPush
  /\ IsInjective(cache.added)

\* The removal that takes the artifact from under the pointer is one of a push of
\* another snapshot (apply_retention keeps `current_key`): a producer's retention
\* leaves the pointer dangling only when another push moved it between the
\* producer's put and its removal.  A put never does.
Dangling(c) == c.current # None /\ c.arts[c.current] = None
DanglesOnlyAfterRace ==
  [][Dangling(cache') /\ ~Dangling(cache)
       => lastOp'.op = "remove" /\ lastOp'.job.snap # cache'.current]_vars

\* With keep-last-n, n > 0, whatever the pushes, stale clones and removals that
\* overlap, the snapshot added last is on the cache: retention never empties it.
YoungestKept ==
  cache.added # <<>> /\ KeepLast # 0 => cache.arts[Last(cache.added)] # None

\* A push without --force drops a published record only when the pointer moved
\* after its guard had looked (push_guard reads, put_many writes later); the
\* guard's word holds for what it saw, also across a clone that was offline.
UnforcedKeepsRecords ==
  [][\A p \in Producer :
       /\ Running(p, "put") /\ ~job[p].forced
       /\ cache'.current = job[p].snap /\ lastOp' # lastOp
       /\ cache.current # None /\ cache.current = job[p].seen
       => DOMAIN Feed[cache.current] \subseteq DOMAIN Feed[job[p].snap]]_vars

\* A push without --force of the snapshot that is current never replaces the
\* bytes published under it by different ones, unless somebody published since
\* the guard's fetch (push_guard, #113).  It does replace those of a snapshot
\* that is not current: the guard compares checksums only with the pointer's.
CurrentBytesStay ==
  [][\A p \in Producer :
       /\ Running(p, "put") /\ ~job[p].forced
       /\ job[p].seen = job[p].snap /\ view[p].arts = cache.arts
       /\ lastOp' # lastOp /\ lastOp'.by = p
       => cache'.arts[job[p].snap] = cache.arts[job[p].snap]]_vars

\* Every push returns: no exchange with the remote is repeated without bound.
EveryPushReturns == \A p \in Producer : job[p] # None ~> job[p] = None

\* Retention by two producers, from listings that may be stale, never empties the cache
\* (apply_retention).
RetentionCareful == TypeOK /\ YoungestKept

\* What push_guard saw and allowed is what a push without --force does, unless somebody published
\* after it looked: no record and no byte of the current snapshot is lost.  And a push's removals
\* spare the snapshot that it published itself.
PushesCareful == UnforcedKeepsRecords /\ CurrentBytesStay /\ DanglesOnlyAfterRace
=============================================================================
