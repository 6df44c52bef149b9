------------------------ MODULE KnowledgePublishProofs ------------------------
(***************************************************************************)
(* What overlapping `cce knowledge push` commands promise for any number   *)
(* of producers, snapshots, configurations and pushes and any keep-last-n, *)
(* although nothing locks the cache and every clone may be stale: the      *)
(* retention never empties the cache nor takes what its own push published *)
(* and the guard's verdict holds for the snapshot it looked at.            *)
(***************************************************************************)
EXTENDS KnowledgePublish, FiniteSetTheorems, TLAPS

\* A cache that holds an artifact has its key in the history.
Recorded(c) == \A s \in Snapshot : c.arts[s] # None => \E i \in 1..Len(c.added) : c.added[i] = s

\* The LFS attribute is on the branch before any artifact is.
LfsFirst(c) == Lfs => c.lfs \/ \A s \in Snapshot : c.arts[s] = None

\* Clone c has seen a beginning of the history of d.
Behind(c, d) ==
  /\ Len(c.added) <= Len(d.added)
  /\ \A i \in 1..Len(c.added) : c.added[i] = d.added[i]
  /\ c.lfs => d.lfs

Youngest(c) == c.added # <<>> /\ KeepLast # 0 => c.arts[Last(c.added)] # None

CacheOK == Recorded(cache) /\ LfsFirst(cache) /\ Youngest(cache)
ViewsOK == \A p \in Producer : Recorded(view[p]) /\ LfsFirst(view[p]) /\ Behind(view[p], cache)

\* What push_guard accepted of the snapshot it saw.
Accepted(p) ==
  LET j == job[p] IN
  \/ j.seen = None
  \/ /\ DOMAIN Feed[j.seen] \subseteq DOMAIN Feed[j.snap]
     /\ j.seen = j.snap => view[p].arts[j.snap] = j.variant

\* Snapshot s was added to c, and another one after it.
Overtaken(c, s) == \E i \in 1..Len(c.added) - 1 : c.added[i] = s

\* What a push relies on at each of its exchanges with the remote.
JobOK(p) ==
  job[p] # None =>
    /\ job[p].phase = "pointer" => job[p].seen = None
    /\ job[p].phase \in {"lfs", "put"} /\ ~job[p].forced => Accepted(p)
    /\ job[p].phase = "put" /\ Lfs => view[p].lfs
    /\ job[p].phase = "order" =>
         \A s \in job[p].keys : \E i \in 1..Len(view[p].added) : view[p].added[i] = s
    /\ job[p].phase = "remove" =>
         /\ job[p].snap \notin job[p].keys
         /\ KeepLast # 0 => \A s \in job[p].keys : Overtaken(cache, s)

\* The inductive invariant.
IInv == TypeOK /\ CacheOK /\ ViewsOK /\ \A p \in Producer : JobOK(p)

------------------------------------------------------------------------------
(* Facts about the operators. *)

\* The history and the artifacts after put_many.
LEMMA PublishedCache ==
  ASSUME NEW c \in Cache, IsInjective(c.added), NEW s \in Snapshot, NEW v \in Variant,
         NEW d, d = Published(c, s, v)
  PROVE  /\ d \in Cache /\ IsInjective(d.added)
         /\ d.current = s /\ d.lfs = c.lfs
         /\ d.arts[s] = v /\ \A t \in Snapshot \ {s} : d.arts[t] = c.arts[t]
         /\ Behind(c, d)
         /\ \E i \in 1..Len(d.added) : d.added[i] = s
         /\ d.added = c.added \/ Last(d.added) = s
<1>1. c.added \in Seq(Snapshot) /\ c.arts \in [Snapshot -> Variant \cup {None}]
  BY DEF Cache
<1>2. /\ d.current = s /\ d.meta = s /\ d.lfs = c.lfs /\ d.arts = [c.arts EXCEPT ![s] = v]
      /\ d.added = IF s \in ToSet(c.added) THEN c.added ELSE Append(c.added, s)
      /\ d = [current |-> d.current, arts |-> d.arts, meta |-> d.meta, added |-> d.added, lfs |-> d.lfs]
  BY DEF Published, Cache
<1>3. d \in Cache
  <2>1. d.added \in Seq(Snapshot) /\ d.arts \in [Snapshot -> Variant \cup {None}]
    BY <1>1, <1>2
  <2> QED BY <1>2, <2>1 DEF Cache
<1>4. CASE s \in ToSet(c.added)
  <2>1. d.added = c.added /\ \E i \in DOMAIN c.added : c.added[i] = s
    BY <1>2, <1>4 DEF ToSet
  <2>2. DOMAIN c.added = 1..Len(c.added)
    BY <1>1
  <2> QED BY <1>1, <1>2, <1>3, <2>1, <2>2 DEF Behind
<1>5. CASE s \notin ToSet(c.added)
  <2>1. d.added = Append(c.added, s) /\ \A i \in DOMAIN c.added : c.added[i] # s
    BY <1>2, <1>5 DEF ToSet
  <2>2. /\ DOMAIN c.added = 1..Len(c.added) /\ Len(c.added) \in Nat
        /\ DOMAIN d.added = 1..Len(c.added) + 1 /\ Len(d.added) = Len(c.added) + 1
        /\ d.added[Len(c.added) + 1] = s
        /\ \A i \in 1..Len(c.added) : d.added[i] = c.added[i]
    BY <1>1, <2>1
  <2>3. IsInjective(d.added)
    BY <2>1, <2>2 DEF IsInjective
  <2> QED BY <1>1, <1>2, <1>3, <2>2, <2>3 DEF Behind, Last
<1> QED BY <1>4, <1>5

\* What remove_many leaves.
Removed(c, keys) == [c EXCEPT !.arts = [s \in Snapshot |-> IF s \in keys THEN None ELSE @[s]]]

LEMMA RemovedCache ==
  ASSUME NEW c \in Cache, NEW keys, NEW d, d = Removed(c, keys)
  PROVE  /\ d \in Cache /\ d.added = c.added /\ d.current = c.current /\ d.lfs = c.lfs
         /\ \A s \in Snapshot : d.arts[s] = IF s \in keys THEN None ELSE c.arts[s]
BY DEF Removed, Cache

LEMMA LfsCache ==
  ASSUME NEW c \in Cache, NEW d, d = [c EXCEPT !.lfs = TRUE]
  PROVE  d \in Cache /\ d.added = c.added /\ d.arts = c.arts /\ d.current = c.current /\ d.lfs
BY DEF Cache

\* Position finds a key that is in the history.
LEMMA PositionFinds ==
  ASSUME NEW c \in Cache, NEW s, \E i \in 1..Len(c.added) : c.added[i] = s
  PROVE  Position(c, s) \in 1..Len(c.added) /\ c.added[Position(c, s)] = s
<1>1. DOMAIN c.added = 1..Len(c.added)
  BY DEF Cache
<1> QED BY <1>1 DEF Position

\* What keep-last-n, n > 0, prunes has been overtaken, and is never the push's own snapshot.
LEMMA PrunedAreOvertaken ==
  ASSUME NEW c \in Cache, NEW keys \in SUBSET Snapshot, NEW own, NEW s \in PruneSet(c, keys, own),
         \A t \in keys : \E i \in 1..Len(c.added) : c.added[i] = t
  PROVE  s \in keys /\ s # own /\ (KeepLast # 0 => Overtaken(c, s))
<1> DEFINE younger == {t \in keys : Position(c, t) > Position(c, s)}
<1>1. KeepLast # None /\ s \in keys /\ s # own /\ Cardinality(younger) >= KeepLast
  BY DEF PruneSet
<1>2. ASSUME KeepLast # 0 PROVE Overtaken(c, s)
  <2>1. KeepLast \in Nat \ {0}
    BY <1>1, <1>2, PublishAssumption
  <2>2. younger # {}
    <3>1. Cardinality({}) = 0
      BY FS_EmptySet
    <3> SUFFICES ASSUME younger = {} PROVE FALSE
      OBVIOUS
    <3>2. Cardinality(younger) = 0
      BY <3>1
    <3> HIDE DEF younger
    <3> QED BY <1>1, <2>1, <3>2
  <2>3. PICK t \in keys : Position(c, t) > Position(c, s)
    BY <2>2
  <2>4. /\ Position(c, t) \in 1..Len(c.added)
        /\ Position(c, s) \in 1..Len(c.added) /\ c.added[Position(c, s)] = s
    BY <1>1, PositionFinds
  <2>5. Len(c.added) \in Nat
    BY DEF Cache
  <2>6. Position(c, s) \in 1..Len(c.added) - 1
    BY <2>3, <2>4, <2>5
  <2> QED BY <2>4, <2>6 DEF Overtaken
<1> QED BY <1>1, <1>2

\* What was overtaken stays so, and is not the youngest.
LEMMA OvertakenStays ==
  ASSUME NEW c \in Cache, NEW d \in Cache, Behind(c, d), NEW s, Overtaken(c, s)
  PROVE  Overtaken(d, s)
<1>1. Len(c.added) \in Nat /\ Len(d.added) \in Nat
  BY DEF Cache
<1> QED BY <1>1 DEF Behind, Overtaken

LEMMA OvertakenIsNotLast ==
  ASSUME NEW c \in Cache, IsInjective(c.added), NEW s, Overtaken(c, s)
  PROVE  s # Last(c.added)
<1>1. PICK i \in 1..Len(c.added) - 1 : c.added[i] = s
  BY DEF Overtaken
<1>2. Len(c.added) \in Nat /\ DOMAIN c.added = 1..Len(c.added)
  BY DEF Cache
<1>3. i \in DOMAIN c.added /\ Len(c.added) \in DOMAIN c.added /\ i # Len(c.added)
  BY <1>1, <1>2
<1> QED BY <1>1, <1>3 DEF IsInjective, Last

LEMMA BehindTransitive ==
  ASSUME NEW b \in Cache, NEW c \in Cache, NEW d \in Cache, Behind(b, c), Behind(c, d)
  PROVE  Behind(b, d)
<1>1. Len(b.added) \in Nat /\ Len(c.added) \in Nat /\ Len(d.added) \in Nat
  BY DEF Cache
<1> QED BY <1>1 DEF Behind

------------------------------------------------------------------------------
(* What one step does to the cache and to the clones. *)

\* The cache moves by a put or a removal as they are recorded, or gains its LFS attribute.
CacheStep(p) ==
  \/ UNCHANGED <<cache, lastOp>>
  \/ Lfs /\ cache' = [cache EXCEPT !.lfs = TRUE] /\ lastOp' = lastOp
  \/ /\ Running(p, "put") /\ cache' = Published(cache, job[p].snap, job[p].variant)
     /\ lastOp' = [op |-> "put", by |-> p, job |-> job[p]]
  \/ /\ Running(p, "remove") /\ cache' = Removed(cache, job[p].keys)
     /\ lastOp' = [op |-> "remove", by |-> p, job |-> job[p]]

Action(p) == \/ Step(p) \/ Die(p)
             \/ \E s \in Snapshot, v \in Variant, force, dry \in BOOLEAN : Start(p, s, v, force, dry)

LEMMA StepShape ==
  ASSUME TypeOK, NEW p \in Producer, Action(p)
  PROVE  /\ CacheStep(p)
         /\ \A q \in Producer \ {p} : view'[q] = view[q] /\ job'[q] = job[q]
         /\ view'[p] \in {view[p], cache'} /\ view' \in [Producer -> {view[q] : q \in Producer} \cup {cache'}]
<1>t. view \in [Producer -> Cache] /\ job \in [Producer -> Job \cup {None}]
  BY DEF TypeOK
<1> DEFINE Views == /\ \A q \in Producer \ {p} : view'[q] = view[q]
                    /\ view'[p] \in {view[p], cache'}
                    /\ view' \in [Producer -> {view[q] : q \in Producer} \cup {cache'}]
           Jobs == \A q \in Producer \ {p} : job'[q] = job[q]
<1>1. view' = view \/ view' = [view EXCEPT ![p] = cache'] => Views
  BY <1>t
<1>2. CASE \/ Die(p) \/ \E s \in Snapshot, v \in Variant, force, dry \in BOOLEAN : Start(p, s, v, force, dry)
  BY <1>1, <1>2, <1>t DEF Die, Start, Return, NoChange, CacheStep
<1>3. CASE GuardPointer(p) \/ GuardCompare(p) \/ ListKeys(p) \/ OrderKeys(p)
  <2>1. UNCHANGED <<cache, lastOp>> /\ (view' = view \/ view' = [view EXCEPT ![p] = cache])
    BY <1>3 DEF GuardPointer, GuardCompare, ListKeys, OrderKeys, Fetched, NoChange
  <2>2. Jobs
    BY <1>3, <1>t DEF GuardPointer, GuardCompare, ListKeys, OrderKeys, Go, Return
  <2> QED BY <1>1, <2>1, <2>2 DEF CacheStep
<1>4. CASE EnsureKnowledgeLfs(p)
  <2>1. view' = view \/ view' = [view EXCEPT ![p] = cache']
    BY <1>4 DEF EnsureKnowledgeLfs
  <2>2. Jobs /\ CacheStep(p)
    BY <1>4, <1>t DEF EnsureKnowledgeLfs, Go, Return, CacheStep
  <2> QED BY <1>1, <2>1, <2>2
<1>5. CASE Put(p)
  <2>1. view' = view \/ view' = [view EXCEPT ![p] = cache']
    BY <1>5 DEF Put
  <2>2. Jobs /\ CacheStep(p)
    BY <1>5, <1>t DEF Put, Go, Return, CacheStep
  <2> QED BY <1>1, <2>1, <2>2
<1>6. CASE RemoveMany(p)
  <2>1. view' = view \/ view' = [view EXCEPT ![p] = cache']
    BY <1>6 DEF RemoveMany
  <2>2. Jobs /\ CacheStep(p)
    BY <1>6, <1>t DEF RemoveMany, Return, CacheStep, Removed
  <2> QED BY <1>1, <2>1, <2>2
<1> QED BY <1>2, <1>3, <1>4, <1>5, <1>6 DEF Action, Step

\* The running push, if any, is one.
LEMMA JobType ==
  ASSUME TypeOK, NEW p \in Producer, job[p] # None
  PROVE  /\ job[p] \in Job /\ job[p].snap \in Snapshot /\ job[p].variant \in Variant
         /\ job[p].keys \in SUBSET Snapshot /\ job[p].forced \in BOOLEAN
BY DEF TypeOK, Job

\* The cache after a step: well typed, ahead of what it was, and sound.
LEMMA NextCacheOK ==
  ASSUME IInv, NEW p \in Producer, CacheStep(p)
  PROVE  /\ cache' \in Cache /\ IsInjective(cache'.added) /\ Behind(cache, cache')
         /\ CacheOK'
<1>0. /\ TypeOK /\ CacheOK /\ ViewsOK /\ JobOK(p)
      /\ cache \in Cache /\ IsInjective(cache.added) /\ Len(cache.added) \in Nat
  BY DEF IInv, TypeOK, Cache
<1> DEFINE Goal == /\ cache' \in Cache /\ IsInjective(cache'.added) /\ Behind(cache, cache')
                   /\ Recorded(cache') /\ LfsFirst(cache') /\ Youngest(cache')
<1> SUFFICES Goal
  BY DEF CacheOK, Recorded, LfsFirst, Youngest, Last
<1>1. CASE cache' = cache
  BY <1>0, <1>1 DEF CacheOK, Behind
<1>2. CASE cache' = [cache EXCEPT !.lfs = TRUE]
  <2>1. cache' \in Cache /\ cache'.added = cache.added /\ cache'.arts = cache.arts /\ cache'.lfs
    BY <1>0, <1>2, LfsCache
  <2> QED BY <1>0, <2>1 DEF CacheOK, Behind, Recorded, LfsFirst, Youngest
<1>3. CASE Running(p, "put") /\ cache' = Published(cache, job[p].snap, job[p].variant)
  <2> DEFINE s == job[p].snap
             v == job[p].variant
  <2>1. s \in Snapshot /\ v \in Variant /\ v # None
    BY <1>0, <1>3, JobType, NoneAssumption DEF Running
  <2>2. /\ cache' \in Cache /\ IsInjective(cache'.added) /\ cache'.lfs = cache.lfs
        /\ cache'.arts[s] = v /\ \A t \in Snapshot \ {s} : cache'.arts[t] = cache.arts[t]
        /\ Behind(cache, cache')
        /\ \E i \in 1..Len(cache'.added) : cache'.added[i] = s
        /\ cache'.added = cache.added \/ Last(cache'.added) = s
    BY <1>0, <1>3, <2>1, PublishedCache
  <2>3. Recorded(cache')
    <3>1. Len(cache.added) \in Nat /\ Len(cache'.added) \in Nat
      BY <1>0, <2>2 DEF Cache
    <3> SUFFICES ASSUME NEW t \in Snapshot \ {s}, cache.arts[t] # None
                 PROVE  \E i \in 1..Len(cache'.added) : cache'.added[i] = t
      BY <2>2 DEF Recorded
    <3>2. PICK i \in 1..Len(cache.added) : cache.added[i] = t
      BY <1>0 DEF CacheOK, Recorded
    <3> QED BY <2>2, <3>1, <3>2 DEF Behind
  <2>4. LfsFirst(cache')
    <3>1. Lfs => cache.lfs
      BY <1>0, <1>3 DEF JobOK, Running, ViewsOK, Behind
    <3> QED BY <2>2, <3>1 DEF LfsFirst
  <2>5. Youngest(cache')
    <3>1. CASE Last(cache'.added) = s
      BY <2>1, <2>2, <3>1 DEF Youngest
    <3>2. CASE cache'.added = cache.added /\ Last(cache'.added) # s
      <4>1. cache.added # <<>> => Last(cache.added) \in Snapshot
        BY <1>0 DEF Cache, Last
      <4> QED BY <1>0, <2>2, <3>2, <4>1 DEF Youngest, CacheOK
    <3> QED BY <2>2, <3>1, <3>2
  <2> QED BY <2>2, <2>3, <2>4, <2>5
<1>4. CASE Running(p, "remove") /\ cache' = Removed(cache, job[p].keys)
  <2>1. /\ cache' \in Cache /\ cache'.added = cache.added /\ cache'.lfs = cache.lfs
        /\ \A s \in Snapshot : cache'.arts[s] = IF s \in job[p].keys THEN None ELSE cache.arts[s]
    BY <1>0, <1>4, RemovedCache
  <2>2. Recorded(cache') /\ LfsFirst(cache') /\ Behind(cache, cache')
    BY <1>0, <2>1 DEF CacheOK, Recorded, LfsFirst, Behind
  <2>3. ASSUME KeepLast # 0, cache.added # <<>> PROVE cache'.arts[Last(cache.added)] # None
    <3>1. Last(cache.added) \in Snapshot
      BY <1>0, <2>3 DEF Cache, Last
    <3>2. \A s \in job[p].keys : Overtaken(cache, s)
      BY <1>0, <1>4, <2>3 DEF JobOK, Running
    <3>3. Last(cache.added) \notin job[p].keys
      BY <1>0, <3>2, OvertakenIsNotLast
    <3> QED BY <1>0, <2>1, <2>3, <3>1, <3>3 DEF CacheOK, Youngest
  <2> QED BY <1>0, <2>1, <2>2, <2>3 DEF Youngest
<1> QED BY <1>1, <1>2, <1>3, <1>4 DEF CacheStep

\* The clones follow.
LEMMA NextViewsOK ==
  ASSUME IInv, NEW p \in Producer, Action(p)
  PROVE  /\ view' \in [Producer -> Cache]
         /\ ViewsOK'
         /\ Behind(view[p], view'[p])
<1>0. /\ TypeOK /\ ViewsOK /\ cache \in Cache /\ view \in [Producer -> Cache]
      /\ CacheStep(p) /\ \A q \in Producer : view'[q] \in {view[q], cache'}
      /\ view' \in [Producer -> {view[q] : q \in Producer} \cup {cache'}]
  BY StepShape DEF IInv, TypeOK
<1>1. /\ cache' \in Cache /\ Behind(cache, cache')
      /\ Recorded(cache') /\ LfsFirst(cache')
  BY <1>0, NextCacheOK DEF CacheOK, Recorded, LfsFirst
<1>2. view' \in [Producer -> Cache]
  BY <1>0, <1>1
<1>3. Len(cache'.added) \in Nat /\ Behind(cache', cache')
  BY <1>1 DEF Cache, Behind
<1>4. ASSUME NEW q \in Producer
      PROVE  /\ Recorded(view'[q]) /\ LfsFirst(view'[q]) /\ Behind(view'[q], cache')
             /\ Behind(view[q], view'[q])
  <2>1. /\ Recorded(view[q]) /\ LfsFirst(view[q]) /\ Behind(view[q], cache)
        /\ view[q] \in Cache
    BY <1>0 DEF ViewsOK
  <2>2. Behind(view[q], cache')
    BY <1>0, <1>1, <2>1, BehindTransitive
  <2>3. Behind(view[q], view[q])
    <3>1. Len(view[q].added) \in Nat
      BY <2>1 DEF Cache
    <3> QED BY <3>1 DEF Behind
  <2>4. CASE view'[q] = view[q]
    BY <2>1, <2>2, <2>3, <2>4
  <2>5. CASE view'[q] = cache'
    BY <1>1, <1>3, <2>2, <2>5
  <2> QED BY <1>0, <2>4, <2>5
<1>5. ViewsOK'
  BY <1>4 DEF ViewsOK, Recorded, LfsFirst, Behind
<1> QED BY <1>2, <1>4, <1>5

\* A push stays one.
LEMMA NextJobType ==
  ASSUME IInv, NEW p \in Producer, Action(p)
  PROVE  job' \in [Producer -> Job \cup {None}] /\ pushes' \in 0..MaxPush
<1>0. TypeOK /\ view' \in [Producer -> Cache] /\ job \in [Producer -> Job \cup {None}]
      /\ pushes \in 0..MaxPush
  BY NextViewsOK DEF IInv, TypeOK
<1>1. /\ \A ph : Go(p, ph) => job' = [job EXCEPT ![p] = [job[p] EXCEPT !.phase = ph]]
      /\ Return(p) => job' \in [Producer -> Job \cup {None}]
  BY <1>0 DEF Go, Return
<1>2. ASSUME NEW ph \in {"pointer", "compare", "lfs", "put", "list", "order", "remove"},
             NEW seen \in Snapshot \cup {None}, NEW keys \in SUBSET Snapshot, job[p] # None
      PROVE  /\ [job[p] EXCEPT !.phase = ph] \in Job
             /\ [job[p] EXCEPT !.phase = ph, !.seen = seen] \in Job
             /\ [job[p] EXCEPT !.phase = ph, !.keys = keys] \in Job
  <2>1. job[p] \in Job
    BY <1>0, <1>2
  <2> QED BY <1>2, <2>1 DEF Job
<1>3. ASSUME NEW j \in Job, job' = [job EXCEPT ![p] = j] PROVE job' \in [Producer -> Job \cup {None}]
  BY <1>0, <1>3
<1>4. CASE Die(p) \/ Put(p) \/ RemoveMany(p) \/ EnsureKnowledgeLfs(p)
  <2>1. job[p] # None /\ pushes' = pushes
    BY <1>4 DEF Die, Put, RemoveMany, EnsureKnowledgeLfs, Running, NoChange
  <2>2. Return(p) \/ \E ph \in {"put", "list"} : Go(p, ph)
    BY <1>4 DEF Die, Put, RemoveMany, EnsureKnowledgeLfs
  <2> QED BY <1>0, <1>1, <1>2, <1>3, <2>1, <2>2
<1>5. CASE GuardPointer(p)
  <2>1. job[p] # None /\ pushes' = pushes /\ view'[p].current \in Snapshot \cup {None}
    BY <1>0, <1>5 DEF GuardPointer, Running, Cache
  <2>2. \/ Return(p) \/ Go(p, "lfs")
        \/ job' = [job EXCEPT ![p] = [job[p] EXCEPT !.phase = "compare", !.seen = view'[p].current]]
    BY <1>0, <1>5 DEF GuardPointer
  <2> QED BY <1>0, <1>1, <1>2, <1>3, <2>1, <2>2, ZenonT(60)
<1>6. CASE GuardCompare(p)
  <2>1. job[p] # None /\ pushes' = pushes /\ (Return(p) \/ Go(p, "lfs"))
    BY <1>6 DEF GuardCompare, Running
  <2> QED BY <1>0, <1>1, <1>2, <1>3, <2>1
<1>7. CASE ListKeys(p)
  <2>1. /\ job[p] # None /\ pushes' = pushes
        /\ job' = [job EXCEPT ![p] = [job[p] EXCEPT !.phase = "order", !.keys = Keys(view'[p])]]
    BY <1>0, <1>7 DEF ListKeys, Running
  <2>2. Keys(view'[p]) \in SUBSET Snapshot
    BY DEF Keys
  <2> QED BY <1>0, <1>2, <1>3, <2>1, <2>2
<1>8. CASE OrderKeys(p)
  <2> DEFINE prune == PruneSet(view'[p], job[p].keys, job[p].snap)
  <2>1. job[p] # None /\ pushes' = pushes
        /\ \/ Return(p)
           \/ job' = [job EXCEPT ![p] = [job[p] EXCEPT !.phase = "remove", !.keys = prune]]
    BY <1>0, <1>8 DEF OrderKeys, Running
  <2>2. job[p].keys \in SUBSET Snapshot
    BY <1>0, <2>1, JobType
  <2>3. prune \in SUBSET Snapshot
    BY <2>2 DEF PruneSet
  <2> HIDE DEF prune
  <2> QED BY <1>0, <1>1, <1>2, <1>3, <2>1, <2>3
<1>9. ASSUME NEW s \in Snapshot, NEW v \in Variant, NEW force \in BOOLEAN, NEW dry \in BOOLEAN,
             Start(p, s, v, force, dry)
      PROVE  job' \in [Producer -> Job \cup {None}] /\ pushes' \in 0..MaxPush
  <2> DEFINE j == [phase |-> IF dry \/ ~force THEN "pointer" ELSE "lfs",
                   snap |-> s, variant |-> v, dry |-> dry, forced |-> force /\ ~dry,
                   seen |-> None, keys |-> {}]
  <2>1. j \in Job
    <3>1. (force /\ ~dry) \in BOOLEAN
      OBVIOUS
    <3> QED BY <3>1 DEF Job
  <2>2. job' = [job EXCEPT ![p] = j]
    BY <1>9 DEF Start
  <2>3. pushes' \in 0..MaxPush
    BY <1>0, <1>9, PublishAssumption DEF Start
  <2> HIDE DEF j
  <2> QED BY <1>3, <2>1, <2>2, <2>3
<1> QED BY <1>4, <1>5, <1>6, <1>7, <1>8, <1>9 DEF Action, Step

\* What a push relies on, exchange by exchange.
LEMMA OwnJobOK ==
  ASSUME IInv, NEW p \in Producer, Action(p)
  PROVE  JobOK(p)'
<1>0. /\ TypeOK /\ CacheOK /\ ViewsOK /\ JobOK(p) /\ cache \in Cache /\ view[p] \in Cache
      /\ job \in [Producer -> Job \cup {None}] /\ view \in [Producer -> Cache]
  BY DEF IInv, TypeOK
<1>v. /\ view'[p] \in Cache /\ Recorded(view'[p]) /\ Behind(view'[p], cache')
      /\ Behind(view[p], view'[p]) /\ cache' \in Cache
  <2>1. CacheStep(p)
    BY <1>0, StepShape
  <2> QED BY <2>1, NextViewsOK, NextCacheOK DEF ViewsOK, Recorded, Behind
<1>n. ASSUME job'[p] = None PROVE JobOK(p)'
  BY <1>n DEF JobOK
<1>r. Return(p) => job'[p] = None
  BY <1>0 DEF Return
<1>j. job[p] # None => job[p] \in Job
  BY <1>0
<1>g. ASSUME NEW ph, Go(p, ph), job[p] # None
      PROVE  /\ job'[p].phase = ph /\ job'[p].seen = job[p].seen /\ job'[p].snap = job[p].snap
             /\ job'[p].variant = job[p].variant /\ job'[p].forced = job[p].forced
  <2>1. job[p] \in Job
    BY <1>g, <1>j
  <2>2. job'[p] = [job[p] EXCEPT !.phase = ph]
    BY <1>0, <1>g DEF Go
  <2> QED BY <2>1, <2>2 DEF Job
<1>1. CASE Die(p) \/ RemoveMany(p)
  BY <1>1, <1>n, <1>r DEF Die, RemoveMany
<1>2. ASSUME NEW s \in Snapshot, NEW v \in Variant, NEW force \in BOOLEAN, NEW dry \in BOOLEAN,
             Start(p, s, v, force, dry)
      PROVE  JobOK(p)'
  <2>1. job'[p] = [phase |-> IF dry \/ ~force THEN "pointer" ELSE "lfs",
                   snap |-> s, variant |-> v, dry |-> dry, forced |-> force /\ ~dry,
                   seen |-> None, keys |-> {}]
    BY <1>0, <1>2 DEF Start
  <2>2. job'[p].phase \in {"pointer", "lfs"} /\ job'[p].seen = None
    BY <2>1
  <2> QED BY <2>2 DEF JobOK, Accepted
<1>3. CASE GuardPointer(p)
  <2>1. job[p] # None /\ job[p].phase = "pointer" /\ job[p].seen = None
    BY <1>0, <1>3 DEF GuardPointer, Running, JobOK
  <2>2. CASE view'[p].current # None
    <3>1. job'[p] = [job[p] EXCEPT !.phase = "compare", !.seen = view'[p].current]
      BY <1>0, <1>3, <2>2 DEF GuardPointer
    <3>2. job'[p].phase = "compare"
      BY <1>j, <2>1, <3>1 DEF Job
    <3> QED BY <3>2 DEF JobOK
  <2>3. CASE Go(p, "lfs")
    <3>1. job'[p].phase = "lfs" /\ job'[p].seen = None
      BY <1>g, <2>1, <2>3
    <3> QED BY <3>1 DEF JobOK, Accepted
  <2> QED BY <1>3, <1>n, <1>r, <2>2, <2>3 DEF GuardPointer
<1>4. CASE GuardCompare(p)
  <2>1. job[p] # None
    BY <1>4 DEF GuardCompare, Running
  <2>2. ASSUME MayReplace(job[p], view'[p]), Go(p, "lfs") PROVE JobOK(p)'
    <3>1. /\ job'[p].phase = "lfs" /\ job'[p].seen = job[p].seen /\ job'[p].snap = job[p].snap
          /\ job'[p].variant = job[p].variant
      BY <1>g, <2>1, <2>2
    <3>2. DOMAIN Feed[job[p].seen] \subseteq DOMAIN Feed[job[p].snap]
      BY <2>2 DEF MayReplace, DiffRecords, RecordDigests
    <3>3. job[p].seen = job[p].snap => view'[p].arts[job[p].snap] = job[p].variant
      BY <2>2 DEF MayReplace
    <3> QED BY <3>1, <3>2, <3>3 DEF JobOK, Accepted
  <2> QED BY <1>4, <1>n, <1>r, <2>2 DEF GuardCompare
<1>5. CASE EnsureKnowledgeLfs(p)
  <2>1. job[p] # None /\ job[p].phase = "lfs"
    BY <1>5 DEF EnsureKnowledgeLfs, Running
  <2>2. ASSUME Go(p, "put"),
               \/ ~(Lfs /\ ~view[p].lfs) /\ view' = view
               \/ Lfs /\ ~view[p].lfs /\ view'[p] = [cache EXCEPT !.lfs = TRUE]
        PROVE  JobOK(p)'
    <3>1. /\ job'[p].phase = "put" /\ job'[p].seen = job[p].seen /\ job'[p].snap = job[p].snap
          /\ job'[p].variant = job[p].variant /\ job'[p].forced = job[p].forced
      BY <1>g, <2>1, <2>2
    <3>2. ~job[p].forced => Accepted(p)
      BY <1>0, <2>1 DEF JobOK
    <3>3. CASE Lfs /\ ~view[p].lfs
      <4>1. view'[p].lfs
        BY <1>0, <2>2, <3>3, LfsCache
      <4>2. view[p].arts[job[p].snap] = None
        BY <1>0, <2>1, <3>3, JobType DEF ViewsOK, LfsFirst
      <4>3. job[p].variant # None
        BY <1>0, <2>1, JobType, NoneAssumption
      <4> QED BY <3>1, <3>2, <4>1, <4>2, <4>3 DEF JobOK, Accepted
    <3>4. CASE ~(Lfs /\ ~view[p].lfs)
      <4>1. view' = view
        BY <2>2, <3>4
      <4> QED BY <3>1, <3>2, <3>4, <4>1 DEF JobOK, Accepted
    <3> QED BY <3>3, <3>4
  <2>3. \/ Return(p)
        \/ Go(p, "put") /\ ~(Lfs /\ ~view[p].lfs) /\ view' = view
        \/ Go(p, "put") /\ Lfs /\ ~view[p].lfs /\ view'[p] = [cache EXCEPT !.lfs = TRUE]
    BY <1>0, <1>5 DEF EnsureKnowledgeLfs
  <2> QED BY <1>n, <1>r, <2>2, <2>3
<1>6. CASE Put(p)
  <2>1. job[p] # None
    BY <1>6 DEF Put, Running
  <2>2. ASSUME Go(p, "list") PROVE JobOK(p)'
    <3>1. job'[p].phase = "list"
      BY <1>g, <2>1, <2>2
    <3> QED BY <3>1 DEF JobOK
  <2> QED BY <1>6, <1>n, <1>r, <2>2 DEF Put
<1>7. CASE ListKeys(p)
  <2>1. job[p] # None
        /\ job'[p] = [job[p] EXCEPT !.phase = "order", !.keys = Keys(view'[p])]
    BY <1>0, <1>7 DEF ListKeys, Running
  <2>2. job'[p].phase = "order" /\ job'[p].keys = Keys(view'[p])
    BY <1>j, <2>1 DEF Job
  <2>3. \A s \in Keys(view'[p]) : \E i \in 1..Len(view'[p].added) : view'[p].added[i] = s
    BY <1>v DEF Recorded, Keys
  <2> QED BY <2>2, <2>3 DEF JobOK
<1>8. CASE OrderKeys(p)
  <2> DEFINE c == view'[p]
             prune == PruneSet(c, job[p].keys, job[p].snap)
  <2>1. job[p] # None /\ job[p].phase = "order" /\ job[p].keys \in SUBSET Snapshot
    BY <1>0, <1>8, JobType DEF OrderKeys, Running
  <2>2. \A t \in job[p].keys : \E i \in 1..Len(c.added) : c.added[i] = t
    <3>1. \A t \in job[p].keys : \E i \in 1..Len(view[p].added) : view[p].added[i] = t
      BY <1>0, <2>1 DEF JobOK
    <3>2. Len(view[p].added) \in Nat /\ Len(c.added) \in Nat
      BY <1>0, <1>v DEF Cache
    <3> SUFFICES ASSUME NEW t \in job[p].keys PROVE \E i \in 1..Len(c.added) : c.added[i] = t
      OBVIOUS
    <3>3. PICK i \in 1..Len(view[p].added) : view[p].added[i] = t
      BY <3>1
    <3>4. Len(view[p].added) <= Len(c.added) /\ view[p].added[i] = c.added[i]
      BY <1>v, <3>3 DEF Behind
    <3> QED BY <3>2, <3>3, <3>4
  <2>3. \A s \in prune : s # job[p].snap /\ (KeepLast # 0 => Overtaken(c, s))
    BY <1>v, <2>1, <2>2, PrunedAreOvertaken
  <2>4. \A s \in prune : KeepLast # 0 => Overtaken(cache', s)
    BY <1>v, <2>3, OvertakenStays
  <2>5. ASSUME job' = [job EXCEPT ![p].phase = "remove", ![p].keys = prune] PROVE JobOK(p)'
    <3> HIDE DEF prune
    <3>1. job'[p] = [job[p] EXCEPT !.phase = "remove", !.keys = prune]
      BY <1>0, <2>5
    <3>2. job'[p].phase = "remove" /\ job'[p].keys = prune /\ job'[p].snap = job[p].snap
      BY <1>j, <2>1, <3>1 DEF Job
    <3>3. job'[p].snap \notin job'[p].keys
      BY <2>3, <3>2
    <3>4. KeepLast # 0 => \A s \in job'[p].keys : Overtaken(cache, s)'
      BY <2>4, <3>2 DEF Overtaken
    <3> QED BY <3>2, <3>3, <3>4 DEF JobOK
  <2> QED BY <1>8, <1>n, <1>r, <2>5 DEF OrderKeys
<1> QED BY <1>1, <1>2, <1>3, <1>4, <1>5, <1>6, <1>7, <1>8 DEF Action, Step

\* The others' pushes keep what they rely on: the history only grows.
LEMMA OthersJobOK ==
  ASSUME IInv, NEW p \in Producer, Action(p), NEW q \in Producer \ {p}
  PROVE  JobOK(q)'
<1>0. /\ TypeOK /\ JobOK(q) /\ view'[q] = view[q] /\ job'[q] = job[q] /\ CacheStep(p)
      /\ cache \in Cache
  BY StepShape DEF IInv, TypeOK
<1>1. cache' \in Cache /\ Behind(cache, cache')
  BY <1>0, NextCacheOK
<1>2. ASSUME job[q] # None, job[q].phase = "remove", KeepLast # 0, NEW s \in job[q].keys
      PROVE  Overtaken(cache', s)
  <2>1. Overtaken(cache, s)
    BY <1>0, <1>2 DEF JobOK
  <2> QED BY <1>0, <1>1, <2>1, OvertakenStays
<1>3. job[q] # None /\ job[q].phase = "remove" /\ KeepLast # 0
        => \A s \in job[q].keys : Overtaken(cache, s)'
  BY <1>2 DEF Overtaken
<1>4. job[q] # None /\ job[q].phase = "remove" => job[q].snap \notin job[q].keys
  BY <1>0 DEF JobOK
<1>5. job[q] # None =>
        /\ job[q].phase = "pointer" => job[q].seen = None
        /\ job[q].phase \in {"lfs", "put"} /\ ~job[q].forced => Accepted(q)
        /\ job[q].phase = "put" /\ Lfs => view[q].lfs
        /\ job[q].phase = "order" =>
             \A s \in job[q].keys : \E i \in 1..Len(view[q].added) : view[q].added[i] = s
  BY <1>0 DEF JobOK
<1>6. Accepted(q) => Accepted(q)'
  BY <1>0 DEF Accepted
<1> QED BY <1>0, <1>3, <1>4, <1>5, <1>6 DEF JobOK

\* Every step keeps the invariant.
LEMMA NextInv ==
  ASSUME IInv, [Next]_vars
  PROVE  IInv'
<1>1. CASE UNCHANGED vars
  BY <1>1 DEF vars, IInv, TypeOK, CacheOK, ViewsOK, JobOK, Accepted
<1>2. ASSUME NEW p \in Producer, Action(p) PROVE IInv'
  <2>1. TypeOK /\ CacheStep(p)
    BY <1>2, StepShape DEF IInv
  <2>2. /\ cache' \in Cache /\ IsInjective(cache'.added) /\ CacheOK'
        /\ view' \in [Producer -> Cache] /\ ViewsOK'
        /\ job' \in [Producer -> Job \cup {None}] /\ pushes' \in 0..MaxPush
    BY <1>2, <2>1, NextCacheOK, NextViewsOK, NextJobType
  <2>3. TypeOK'
    BY <2>2 DEF TypeOK
  <2>4. \A q \in Producer : JobOK(q)'
    BY <1>2, OwnJobOK, OthersJobOK
  <2> QED BY <2>2, <2>3, <2>4 DEF IInv
<1> QED BY <1>1, <1>2 DEF Next, Action

LEMMA InitInv ==
  ASSUME Init
  PROVE  IInv
<1>1. EmptyCache \in Cache /\ EmptyCache.added = <<>> /\ IsInjective(EmptyCache.added)
  <2>1. <<>> \in Seq(Snapshot) /\ DOMAIN <<>> = {}
    OBVIOUS
  <2> QED BY <2>1 DEF EmptyCache, Cache, IsInjective
<1>2. /\ Recorded(EmptyCache) /\ LfsFirst(EmptyCache) /\ Youngest(EmptyCache)
      /\ Behind(EmptyCache, EmptyCache)
  BY DEF EmptyCache, Recorded, LfsFirst, Youngest, Behind
<1>3. TypeOK
  BY <1>1, PublishAssumption DEF Init, TypeOK
<1>4. CacheOK /\ ViewsOK
  BY <1>2 DEF Init, CacheOK, ViewsOK
<1>5. \A p \in Producer : JobOK(p)
  BY DEF Init, JobOK
<1> QED BY <1>3, <1>4, <1>5 DEF IInv

LEMMA PushInvariance == Spec => []IInv
<1>1. Init => IInv
  BY InitInv
<1>2. IInv /\ [Next]_vars => IInv'
  BY NextInv
<1> QED BY <1>1, <1>2, PTL DEF Spec

------------------------------------------------------------------------------
(* The theorems. *)

\* Whatever the pushes, dead producers, stale listings and removals that overlap, with keep-last-n
\* for any n > 0 the snapshot added last is on the cache: apply_retention never empties it.
THEOREM RetentionIsCareful == Spec => []RetentionCareful
<1>1. IInv => RetentionCareful
  BY DEF IInv, RetentionCareful, CacheOK, Youngest, YoungestKept
<1> QED BY <1>1, PushInvariance, PTL


\* The two changes that lastOp tells of.
LEMMA Changes ==
  ASSUME IInv, NEW p \in Producer, Action(p), lastOp' # lastOp
  PROVE  \/ /\ Running(p, "put") /\ cache' = Published(cache, job[p].snap, job[p].variant)
            /\ lastOp' = [op |-> "put", by |-> p, job |-> job[p]]
         \/ /\ Running(p, "remove") /\ cache' = Removed(cache, job[p].keys)
            /\ lastOp' = [op |-> "remove", by |-> p, job |-> job[p]]
BY StepShape DEF CacheStep, IInv

\* A record is dropped only by --force or when the pointer moved after push_guard had looked.
LEMMA StepKeepsRecords ==
  ASSUME IInv, NEW p \in Producer, Running(p, "put"), ~job[p].forced,
         cache.current # None, cache.current = job[p].seen
  PROVE  DOMAIN Feed[cache.current] \subseteq DOMAIN Feed[job[p].snap]
<1>1. Accepted(p)
  BY DEF IInv, JobOK, Running
<1> QED BY <1>1 DEF Accepted

\* An unforced push of the current snapshot leaves its bytes, unless somebody published since.
LEMMA StepKeepsBytes ==
  ASSUME IInv, NEW q \in Producer, Action(q), NEW p \in Producer, Running(p, "put"), ~job[p].forced,
         job[p].seen = job[p].snap, view[p].arts = cache.arts, lastOp' # lastOp, lastOp'.by = p
  PROVE  cache'.arts[job[p].snap] = cache.arts[job[p].snap]
<1>0. TypeOK /\ cache \in Cache /\ IsInjective(cache.added)
  BY DEF IInv, TypeOK
<1>1. q = p /\ cache' = Published(cache, job[p].snap, job[p].variant)
  BY Changes DEF Running
<1>2. job[p].snap \in Snapshot /\ job[p].variant \in Variant /\ job[p].snap # None
  BY <1>0, JobType, NoneAssumption DEF Running
<1>3. Accepted(p)
  BY DEF IInv, JobOK, Running
<1>4. cache.arts[job[p].snap] = job[p].variant
  BY <1>2, <1>3 DEF Accepted
<1>5. cache'.arts[job[p].snap] = job[p].variant
  BY <1>0, <1>1, <1>2, PublishedCache
<1> QED BY <1>4, <1>5

\* The pointer is left dangling only by the removal of a push of another snapshot.
LEMMA StepDangles ==
  ASSUME IInv, NEW p \in Producer, Action(p), Dangling(cache'), ~Dangling(cache)
  PROVE  lastOp'.op = "remove" /\ lastOp'.job.snap # cache'.current
<1>0. TypeOK /\ cache \in Cache /\ IsInjective(cache.added) /\ JobOK(p) /\ CacheStep(p)
  BY StepShape DEF IInv, TypeOK
<1>1. CASE cache' = cache
  BY <1>1
<1>2. CASE cache' = [cache EXCEPT !.lfs = TRUE]
  <2>1. cache'.current = cache.current /\ cache'.arts = cache.arts
    BY <1>0, <1>2, LfsCache
  <2> QED BY <2>1 DEF Dangling
<1>3. CASE Running(p, "put") /\ cache' = Published(cache, job[p].snap, job[p].variant)
  <2>1. job[p].snap \in Snapshot /\ job[p].variant \in Variant /\ job[p].variant # None
    BY <1>0, <1>3, JobType, NoneAssumption DEF Running
  <2>2. cache'.current = job[p].snap /\ cache'.arts[job[p].snap] = job[p].variant
    BY <1>0, <1>3, <2>1, PublishedCache
  <2> QED BY <2>1, <2>2 DEF Dangling
<1>4. CASE /\ Running(p, "remove") /\ cache' = Removed(cache, job[p].keys)
           /\ lastOp' = [op |-> "remove", by |-> p, job |-> job[p]]
  <2>1. /\ cache'.current = cache.current
        /\ \A s \in Snapshot : cache'.arts[s] = IF s \in job[p].keys THEN None ELSE cache.arts[s]
    BY <1>0, <1>4, RemovedCache
  <2>2. job[p].snap \notin job[p].keys
    BY <1>0, <1>4 DEF JobOK, Running
  <2>3. cache.current \in Snapshot /\ cache.current # None /\ cache.arts[cache.current] # None
    BY <1>0, <2>1 DEF Dangling, Cache
  <2>4. cache.current \in job[p].keys
    BY <2>1, <2>3 DEF Dangling
  <2> QED BY <1>4, <2>1, <2>2, <2>4
<1> QED BY <1>0, <1>1, <1>2, <1>3, <1>4 DEF CacheStep

\* An unforced push loses no record and no byte of the current snapshot as push_guard saw it, and
\* its removals spare what it published: only another push's retention can take the artifact from
\* under the pointer.
THEOREM PushesAreCareful == Spec => PushesCareful
<1> DEFINE Records == \A p \in Producer :
                        /\ Running(p, "put") /\ ~job[p].forced
                        /\ cache'.current = job[p].snap /\ lastOp' # lastOp
                        /\ cache.current # None /\ cache.current = job[p].seen
                        => DOMAIN Feed[cache.current] \subseteq DOMAIN Feed[job[p].snap]
           Bytes == \A p \in Producer :
                        /\ Running(p, "put") /\ ~job[p].forced
                        /\ job[p].seen = job[p].snap /\ view[p].arts = cache.arts
                        /\ lastOp' # lastOp /\ lastOp'.by = p
                        => cache'.arts[job[p].snap] = cache.arts[job[p].snap]
           Dangles == Dangling(cache') /\ ~Dangling(cache)
                        => lastOp'.op = "remove" /\ lastOp'.job.snap # cache'.current
<1>1. IInv => Records
  BY StepKeepsRecords
<1>2. IInv /\ [Next]_vars => Bytes \/ UNCHANGED vars
  BY StepKeepsBytes DEF Next, Action
<1>3. IInv /\ [Next]_vars => Dangles \/ UNCHANGED vars
  BY StepDangles DEF Next, Action
<1>4. IInv /\ [Next]_vars => [Records]_vars /\ [Bytes]_vars /\ [Dangles]_vars
  BY <1>1, <1>2, <1>3
<1>5. Spec => [][Records]_vars /\ [][Bytes]_vars /\ [][Dangles]_vars
  <2> HIDE DEF Records, Bytes, Dangles
  <2> QED BY <1>4, PushInvariance, PTL DEF Spec
<1> QED BY <1>5 DEF PushesCareful, UnforcedKeepsRecords, CurrentBytesStay, DanglesOnlyAfterRace
==============================================================================
